----------------------------- MODULE HeapProofs ----------------------------
(***************************************************************************)
(* What holds of the kernel heap for every size of header, page and heap,  *)
(* every alignment, every set of sizes and every order of calls, when no   *)
(* caller is preempted inside kmalloc or kfree.                            *)
(***************************************************************************)
EXTENDS Heap, FiniteSetTheorems, WellFoundedInduction, TLAPS

----------------------------------------------------------------------------
(* Multiples of the alignment *)

LEMMA Division ==
    ASSUME NEW a \in Nat, NEW b \in Nat \ {0}
    PROVE  a = b * (a \div b) + (a % b) /\ a % b \in 0 .. b - 1 /\ a \div b \in Nat
OBVIOUS

LEMMA Quotient ==
    ASSUME NEW b \in Nat \ {0}, NEW q \in Nat, NEW r \in 0 .. b - 1
    PROVE  (b * q + r) \div b = q /\ (b * q + r) % b = r
OBVIOUS

LEMMA Multiple ==
    ASSUME NEW q \in Nat
    PROVE  (q * ALIGN) % ALIGN = 0
<1>1. ALIGN \in Nat \ {0}
  BY UnitAssumption
<1>2. PICK b \in Nat \ {0} : b = ALIGN
  BY <1>1
<1>3. 0 \in 0 .. b - 1
  OBVIOUS
<1>4. (b * q + 0) % b = 0
  BY <1>3, Quotient
<1>5. b * q + 0 = q * b
  OBVIOUS
<1> QED
  BY <1>2, <1>4, <1>5

LEMMA IsMultiple ==
    ASSUME NEW a \in Nat, a % ALIGN = 0
    PROVE  \E q \in Nat : a = q * ALIGN
<1>1. PICK b \in Nat \ {0} : b = ALIGN
  BY UnitAssumption
<1>2. a = b * (a \div b) + 0 /\ a \div b \in Nat
  BY <1>1, Division
<1>3. PICK q \in Nat : q = a \div b
  BY <1>2
<1>4. a = q * b
  BY <1>2, <1>3
<1> QED
  BY <1>1, <1>4

LEMMA SumOfMultiples ==
    ASSUME NEW a \in Nat, NEW b \in Nat, a % ALIGN = 0, b % ALIGN = 0
    PROVE  (a + b) % ALIGN = 0
<1>1. PICK g \in Nat \ {0} : g = ALIGN
  BY UnitAssumption
<1>2. PICK p \in Nat : a = p * g
  BY <1>1, IsMultiple
<1>3. PICK q \in Nat : b = q * g
  BY <1>1, IsMultiple
<1>4. a + b = (p + q) * g
  BY <1>2, <1>3
<1>5. p + q \in Nat
  OBVIOUS
<1> QED
  BY <1>1, <1>4, <1>5, Multiple

LEMMA ProductOfMultiple ==
    ASSUME NEW a \in Nat, NEW b \in Nat, a % ALIGN = 0
    PROVE  (b * a) % ALIGN = 0 /\ b * a \in Nat
<1>1. PICK g \in Nat \ {0} : g = ALIGN
  BY UnitAssumption
<1>2. PICK p \in Nat : a = p * g
  BY <1>1, IsMultiple
<1>3. b * a = (b * p) * g
  BY <1>2
<1>4. b * p \in Nat /\ b * a \in Nat
  OBVIOUS
<1> QED
  BY <1>1, <1>3, <1>4, Multiple

LEMMA Units ==
    /\ ALIGN \in Nat \ {0} /\ HDR \in Nat \ {0} /\ PAGE_SIZE \in Nat \ {0}
    /\ KHEAP_START \in Nat \ {0} /\ KHEAP_INITIAL_SIZE \in Nat \ {0}
    /\ HDR % ALIGN = 0 /\ PAGE_SIZE % ALIGN = 0 /\ KHEAP_START % ALIGN = 0
    /\ KHEAP_INITIAL_SIZE % ALIGN = 0
    /\ HDR < PAGE_SIZE /\ HDR < KHEAP_INITIAL_SIZE /\ WORD \in Nat /\ WORD > 0
    /\ FRAMES \in Nat /\ FRAMES * PAGE_SIZE \in Nat
    /\ KHEAP_END \in Nat /\ KHEAP_END <= WORD /\ ALIGN < KHEAP_START
    /\ KHEAP_START + KHEAP_INITIAL_SIZE <= KHEAP_END
<1>1. /\ ALIGN \in Nat \ {0} /\ HDR \in Nat \ {0} /\ PAGE_SIZE \in Nat \ {0}
      /\ KHEAP_START \in Nat \ {0} /\ KHEAP_INITIAL_SIZE \in Nat \ {0}
      /\ HDR % ALIGN = 0 /\ PAGE_SIZE % ALIGN = 0 /\ KHEAP_START % ALIGN = 0
      /\ KHEAP_INITIAL_SIZE % ALIGN = 0 /\ HDR < PAGE_SIZE
  BY UnitAssumption
<1>2. PAGE_SIZE <= KHEAP_INITIAL_SIZE
  <2>1. PICK p \in Nat \ {0}, i \in Nat \ {0} : p = PAGE_SIZE /\ i = KHEAP_INITIAL_SIZE
    BY <1>1
  <2>2. i % p = 0
    BY <2>1, UnitAssumption
  <2>3. i < p => i % p = i
    BY <2>1
  <2> QED
    BY <2>1, <2>2, <2>3
<1>3. FRAMES * PAGE_SIZE \in Nat
  <2>1. \A x \in Nat, y \in Nat : x * y \in Nat
    OBVIOUS
  <2> QED
    BY <1>1, <2>1, SpanAssumption
<1> QED
  BY <1>1, <1>2, <1>3, SpanAssumption DEF KHEAP_END

\* What kmalloc makes of a size whose rounding does not wrap.
LEMMA Rounded ==
    ASSUME NEW n \in Nat \ {0}, n + ALIGN - 1 < WORD
    PROVE  /\ aligned(n) \in Nat /\ aligned(n) >= n /\ aligned(n) % ALIGN = 0
<1>1. PICK g \in Nat \ {0}, w \in Nat : g = ALIGN /\ w = WORD
  BY Units
<1>2. PICK s \in Nat : s = n + g - 1
  BY <1>1
<1>3. s < w /\ s % w = s
  BY <1>1, <1>2
<1>4. aligned(n) = (s \div g) * g
  BY <1>1, <1>2, <1>3 DEF aligned
<1>5. PICK q \in Nat, r \in 0 .. g - 1 : q = s \div g /\ s = g * q + r
  BY Division
<1>6. aligned(n) = q * g /\ q * g \in Nat /\ q * g = g * q
  BY <1>4, <1>5
<1>7. q * g >= n
  BY <1>2, <1>5, <1>6
<1> QED
  BY <1>1, <1>6, <1>7, Multiple

LEMMA InAddr ==
    ASSUME NEW a \in Nat, a >= KHEAP_START, a <= KHEAP_END, a % ALIGN = 0
    PROVE  a \in Addr
BY Units DEF Addr

LEMMA AddrIs ==
    ASSUME NEW a \in Addr
    PROVE  a \in Nat /\ KHEAP_START <= a /\ a <= KHEAP_END /\ a % ALIGN = 0 /\ a # nullptr
BY Units DEF Addr, nullptr
----------------------------------------------------------------------------
(* The blocks of a heap *)

\* The headers in a memory; where a header was swallowed there is Junk.
Heads(m) == {a \in Addr : m[a].size # 0}
Free(m) == {a \in Heads(m) : m[a].free}
End(m, a) == a + HDR + m[a].size

\* Behind the block at a lies the next one, or the end of the heap.
Follows(m, e, a) ==
    IF End(m, a) = e THEN m[a].next = nullptr
    ELSE End(m, a) \in Heads(m) /\ m[a].next = End(m, a) /\ m[End(m, a)].prev = a

\* Before it lies the one before, or nothing.
Preceded(m, a) ==
    IF a = KHEAP_START THEN m[a].prev = nullptr
    ELSE m[a].prev \in Heads(m) /\ End(m, m[a].prev) = a

\* The blocks tile the heap from KHEAP_START to e.
Shape(m, e) ==
    /\ m \in [Addr -> Node] /\ e \in Addr /\ KHEAP_START \in Heads(m)
    /\ \A a \in Heads(m) : End(m, a) <= e /\ Follows(m, e, a) /\ Preceded(m, a)
    /\ \A a, b \in Heads(m) : a < b => End(m, a) <= b

\* Two headers whose fields agree, but for the mark.
SameLinks(m, w) ==
    /\ w \in [Addr -> Node]
    /\ \A y \in Addr : w[y].size = m[y].size /\ w[y].next = m[y].next /\ w[y].prev = m[y].prev

LEMMA SameLinksShape ==
    ASSUME NEW m, NEW e, NEW w, Shape(m, e), SameLinks(m, w)
    PROVE  Shape(w, e) /\ Heads(w) = Heads(m) /\ \A a \in Heads(m) : End(w, a) = End(m, a)
<1>1. \A y \in Addr : w[y].size = m[y].size /\ w[y].next = m[y].next /\ w[y].prev = m[y].prev
  BY DEF SameLinks
<1>2. Heads(w) = Heads(m) /\ \A y \in Addr : End(w, y) = End(m, y)
  BY <1>1 DEF Heads, End
<1>3. Heads(m) \subseteq Addr
  BY DEF Heads
<1>4. ASSUME NEW a \in Heads(m)
      PROVE  End(w, a) <= e /\ Follows(w, e, a) /\ Preceded(w, a)
  <2>1. End(m, a) <= e /\ Follows(m, e, a) /\ Preceded(m, a)
    BY DEF Shape
  <2>2. Follows(w, e, a)
    BY <1>1, <1>2, <1>3, <2>1 DEF Follows
  <2>3. Preceded(w, a)
    BY <1>1, <1>2, <1>3, <2>1 DEF Preceded
  <2> QED
    BY <1>2, <1>3, <2>1, <2>2, <2>3
<1>5. \A a, b \in Heads(w) : a < b => End(w, a) <= b
  BY <1>2, <1>3 DEF Shape
<1>6. e \in Addr /\ KHEAP_START \in Heads(w) /\ w \in [Addr -> Node]
  BY <1>2 DEF Shape, SameLinks
<1> QED
  BY <1>2, <1>3, <1>4, <1>5, <1>6 DEF Shape

\* Marking a block.
Mark(m, a, f) == [m EXCEPT ![a].free = f]

Marks(m, w, a, f) ==
    SameLinks(m, w) /\ \A y \in Addr : w[y].free = IF y = a THEN f ELSE m[y].free

LEMMA Marked ==
    ASSUME NEW m \in [Addr -> Node], NEW a \in Addr, NEW f \in BOOLEAN, NEW w,
           w = Mark(m, a, f)
    PROVE  Marks(m, w, a, f)
<1>1. m[a] \in Node
  OBVIOUS
<1>2. PICK r : r = [m[a] EXCEPT !.free = f]
  OBVIOUS
<1>3. /\ r \in Node /\ r.size = m[a].size /\ r.next = m[a].next /\ r.prev = m[a].prev
      /\ r.free = f
  BY <1>1, <1>2 DEF Node
<1>4. w = [m EXCEPT ![a] = r]
  BY <1>2 DEF Mark
<1>5. w \in [Addr -> Node] /\ \A y \in Addr : w[y] = IF y = a THEN r ELSE m[y]
  BY <1>3, <1>4
<1> QED
  BY <1>3, <1>5 DEF SameLinks, Marks
----------------------------------------------------------------------------
(* Cutting a block *)

\* In w the block at a of m is cut in two at new.
Cut(m, w, a, new) ==
    /\ w \in [Addr -> Node]
    /\ \A y \in Addr :
         /\ w[y].size = IF y = a THEN new - a - HDR
                        ELSE IF y = new THEN End(m, a) - new - HDR ELSE m[y].size
         /\ w[y].free = IF y = new THEN TRUE ELSE m[y].free
         /\ w[y].next = IF y = a THEN new ELSE IF y = new THEN m[a].next ELSE m[y].next
         /\ w[y].prev = IF y = new THEN a ELSE IF y = m[a].next THEN new ELSE m[y].prev

LEMMA SplitCuts ==
    ASSUME NEW m \in [Addr -> Node], NEW a \in Addr, NEW n \in 0 .. WORD - 1,
           NEW new \in Addr, new = a + HDR + n, End(m, a) - new - HDR \in 0 .. WORD - 1,
           m[a].next # a, m[a].next # new
    PROVE  Cut(m, split(m, a, n), a, new)
<1>1. /\ a \in Nat /\ n \in Nat /\ new \in Nat /\ HDR \in Nat \ {0} /\ a # new
      /\ m[a].size \in Nat /\ m[a].size < WORD
  BY AddrIs, Units DEF Node
<1>2. m[a].size - n - HDR = End(m, a) - new - HDR /\ new - a - HDR = n
  BY <1>1 DEF End
<1>3. PICK x : x = m[a].next
  OBVIOUS
<1>4. x \in Addr \cup {nullptr} /\ x # a /\ x # new
  BY <1>3 DEF Node
<1>5. PICK r : r = [size |-> m[a].size - n - HDR, free |-> TRUE, next |-> x, prev |-> a]
  OBVIOUS
<1>6. /\ r \in Node /\ r.size = End(m, a) - new - HDR /\ r.free = TRUE
      /\ r.next = x /\ r.prev = a
  BY <1>2, <1>4, <1>5 DEF Node
<1>7. PICK m1 : m1 = [m EXCEPT ![new] = r]
  OBVIOUS
<1>8. m1 \in [Addr -> Node] /\ \A y \in Addr : m1[y] = IF y = new THEN r ELSE m[y]
  BY <1>6, <1>7
<1>9. PICK m2 : m2 = IF x # nullptr THEN [m1 EXCEPT ![x].prev = new] ELSE m1
  OBVIOUS
<1>10. /\ m2 \in [Addr -> Node]
       /\ \A y \in Addr : m2[y] = IF y = x THEN [m1[y] EXCEPT !.prev = new] ELSE m1[y]
  <2>1. CASE x = nullptr
    BY <1>8, <1>9, <2>1, AddrIs
  <2>2. CASE x # nullptr
    <3>1. x \in Addr /\ m1[x] \in Node
      BY <1>4, <1>8, <2>2
    <3>2. PICK s : s = [m1[x] EXCEPT !.prev = new]
      OBVIOUS
    <3>3. s \in Node
      BY <3>1, <3>2 DEF Node
    <3>4. m2 = [m1 EXCEPT ![x] = s]
      BY <1>9, <2>2, <3>2
    <3> QED
      BY <1>8, <3>1, <3>2, <3>3, <3>4
  <2> QED
    BY <2>1, <2>2
<1>11. PICK w : w = split(m, a, n)
  OBVIOUS
<1>12. w = [m2 EXCEPT ![a].next = new, ![a].size = n]
  BY <1>1, <1>3, <1>5, <1>7, <1>9, <1>11 DEF split
<1>13. PICK t : t = [[m2[a] EXCEPT !.next = new] EXCEPT !.size = n]
  OBVIOUS
<1>14. /\ t \in Node /\ t.next = new /\ t.size = n /\ t.free = m2[a].free /\ t.prev = m2[a].prev
  <2>1. m2[a] \in Node
    BY <1>10
  <2> QED
    BY <1>13, <2>1 DEF Node
<1>15. /\ w \in [Addr -> Node] /\ \A y \in Addr : w[y] = IF y = a THEN t ELSE m2[y]
  <2>1. w = [m2 EXCEPT ![a] = t]
    BY <1>10, <1>12, <1>13
  <2> QED
    BY <1>10, <1>14, <2>1
<1>16. ASSUME NEW y \in Addr
       PROVE  /\ w[y].size = IF y = a THEN new - a - HDR
                             ELSE IF y = new THEN End(m, a) - new - HDR ELSE m[y].size
              /\ w[y].free = IF y = new THEN TRUE ELSE m[y].free
              /\ w[y].next = IF y = a THEN new ELSE IF y = new THEN m[a].next ELSE m[y].next
              /\ w[y].prev = IF y = new THEN a ELSE IF y = m[a].next THEN new ELSE m[y].prev
  <2>1. m[y] \in Node /\ m1[y] \in Node
    BY <1>8
  <2>2. CASE y = a
    <3>1. m2[y] = m[y] /\ w[y] = t
      BY <1>1, <1>4, <1>8, <1>10, <1>15, <2>2
    <3> QED
      BY <1>1, <1>2, <1>3, <1>4, <1>14, <2>2, <3>1
  <2>3. CASE y = new
    <3>1. w[y] = r
      BY <1>1, <1>4, <1>8, <1>10, <1>15, <2>3
    <3> QED
      BY <1>1, <1>3, <1>6, <2>3, <3>1
  <2>4. CASE y = x
    <3>1. w[y] = [m[y] EXCEPT !.prev = new] /\ y # a /\ y # new
      BY <1>4, <1>8, <1>10, <1>15, <2>4
    <3>2. /\ w[y].size = m[y].size /\ w[y].free = m[y].free /\ w[y].next = m[y].next
          /\ w[y].prev = new
      BY <2>1, <3>1 DEF Node
    <3> QED
      BY <1>3, <2>4, <3>1, <3>2
  <2>5. CASE y # a /\ y # new /\ y # x
    <3>1. w[y] = m[y]
      BY <1>8, <1>10, <1>15, <2>5
    <3> QED
      BY <1>3, <2>5, <3>1
  <2> QED
    BY <2>2, <2>3, <2>4, <2>5
<1> QED
  BY <1>11, <1>15, <1>16 DEF Cut

\* What the parts of Shape say of a block.
LEMMA Block ==
    ASSUME NEW m, NEW e, Shape(m, e), NEW a \in Heads(m)
    PROVE  /\ a \in Addr /\ a \in Nat /\ a # nullptr /\ m[a] \in Node /\ m[a].size \in Nat \ {0}
           /\ End(m, a) \in Nat /\ End(m, a) <= e /\ a + HDR < End(m, a) /\ a < End(m, a)
           /\ e \in Addr /\ e \in Nat /\ e <= KHEAP_END /\ e <= WORD
           /\ Follows(m, e, a) /\ Preceded(m, a)
           /\ \A b \in Heads(m) : (a < b => End(m, a) <= b) /\ (b < a => End(m, b) <= a)
           /\ m[a].next = nullptr \/ m[a].next \in Heads(m)
<1>1. a \in Addr /\ m[a].size # 0 /\ m \in [Addr -> Node] /\ e \in Addr
  BY DEF Heads, Shape
<1>2. m[a] \in Node /\ m[a].size \in Nat \ {0}
  BY <1>1, Units DEF Node
<1>3. a \in Nat /\ a # nullptr /\ e \in Nat /\ e <= KHEAP_END /\ e <= WORD
  BY <1>1, AddrIs, Units
<1>4. End(m, a) \in Nat /\ a + HDR < End(m, a) /\ a < End(m, a)
  BY <1>2, <1>3, Units DEF End
<1>5. End(m, a) <= e /\ Follows(m, e, a) /\ Preceded(m, a)
  BY DEF Shape
<1>6. \A b \in Heads(m) : (a < b => End(m, a) <= b) /\ (b < a => End(m, b) <= a)
  BY DEF Shape
<1>7. m[a].next = nullptr \/ m[a].next \in Heads(m)
  BY <1>5 DEF Follows
<1> QED
  BY <1>1, <1>2, <1>3, <1>4, <1>5, <1>6, <1>7

LEMMA CutShape ==
    ASSUME NEW m, NEW e, Shape(m, e), NEW a \in Heads(m), NEW new \in Addr,
           a + HDR < new, new + HDR < End(m, a), NEW w, Cut(m, w, a, new)
    PROVE  /\ Shape(w, e) /\ new \notin Heads(m) /\ Heads(w) = Heads(m) \cup {new}
<1>1. /\ a \in Addr /\ a \in Nat /\ new \in Nat /\ new # nullptr /\ End(m, a) \in Nat
      /\ End(m, a) <= e /\ e \in Addr /\ e \in Nat /\ HDR \in Nat
  <2>1. /\ a \in Addr /\ a \in Nat /\ End(m, a) \in Nat
        /\ End(m, a) <= e /\ e \in Addr /\ e \in Nat
    BY Block
  <2> QED
    BY <2>1, AddrIs, Units
<1>2. ASSUME NEW y \in Heads(m), y # a
      PROVE  y \in Addr /\ y \in Nat /\ End(m, y) \in Nat /\ (End(m, y) <= a \/ End(m, a) <= y)
             /\ y # new /\ y < End(m, y)
  <2>1. y \in Addr /\ y \in Nat /\ y < End(m, y) /\ End(m, y) \in Nat
        /\ (y < a => End(m, y) <= a) /\ (a < y => End(m, a) <= y)
    BY Block
  <2> QED
    BY <1>1, <1>2, <2>1
<1>3. new \notin Heads(m) /\ a # new
  BY <1>1, <1>2
<1>4. PICK x : x = m[a].next
  OBVIOUS
<1>5. /\ IF End(m, a) = e THEN x = nullptr ELSE x = End(m, a) /\ x \in Heads(m)
      /\ x # a /\ x # new /\ End(m, a) \in Nat
  <2>1. /\ End(m, a) \in Nat /\ a < End(m, a) /\ a # nullptr /\ Follows(m, e, a)
    BY Block
  <2> QED
    BY <1>1, <1>3, <1>4, <2>1 DEF Follows
<1>6. ASSUME NEW y \in Addr
      PROVE  /\ w[y].size = IF y = a THEN new - a - HDR
                            ELSE IF y = new THEN End(m, a) - new - HDR ELSE m[y].size
             /\ w[y].next = IF y = a THEN new ELSE IF y = new THEN x ELSE m[y].next
             /\ w[y].prev = IF y = new THEN a ELSE IF y = x THEN new ELSE m[y].prev
  BY <1>4 DEF Cut
<1>7. Heads(w) = Heads(m) \cup {new}
  <2>1. \A y \in Addr : w[y].size # 0 <=> (y \in Heads(m) \/ y = new)
    <3>1. new - a - HDR # 0 /\ End(m, a) - new - HDR # 0
      BY <1>1
    <3> QED
      BY <1>3, <1>6, <3>1 DEF Heads
  <2> QED
    BY <2>1 DEF Heads
<1>8. End(w, a) = new /\ End(w, new) = End(m, a) /\ \A y \in Heads(m) \ {a} : End(w, y) = End(m, y)
  <2>1. w[a].size = new - a - HDR
    BY <1>1, <1>6
  <2>2. w[new].size = End(m, a) - new - HDR
    BY <1>1, <1>3, <1>6
  <2>3. \A y \in Heads(m) \ {a} : w[y].size = m[y].size
    BY <1>2, <1>6
  <2>4. End(w, a) = new
    BY <1>1, <2>1 DEF End
  <2>5. \A z \in Nat : new + HDR + (z - new - HDR) = z
    BY <1>1
  <2>6. End(w, new) = End(m, a)
    BY <1>1, <2>2, <2>5 DEF End
  <2> QED
    BY <2>3, <2>4, <2>6 DEF End
<1>9. ASSUME NEW y \in Heads(w)
      PROVE  End(w, y) <= e /\ Follows(w, e, y)
  <2>1. CASE y = a
    <3>1. w[a].next = new /\ w[new].prev = a /\ new \in Heads(w) /\ new # e /\ new <= e
      BY <1>1, <1>3, <1>6, <1>7
    <3> QED
      BY <1>8, <2>1, <3>1 DEF Follows
  <2>2. CASE y = new
    <3>1. w[new].next = x
      BY <1>3, <1>6
    <3>2. End(m, a) # e => w[x].prev = new
      BY <1>2, <1>5, <1>6
    <3> QED
      BY <1>1, <1>5, <1>7, <1>8, <2>2, <3>1, <3>2 DEF Follows
  <2>3. CASE y \in Heads(m) \ {a}
    <3>1. /\ y \in Addr /\ y \in Nat /\ y # new /\ End(m, y) <= e /\ Follows(m, e, y)
          /\ y < End(m, y)
      BY <1>2, <2>3, Block
    <3>2. End(w, y) = End(m, y) /\ w[y].next = m[y].next
      BY <1>6, <1>8, <2>3, <3>1
    <3>3. ASSUME End(m, y) # e
          PROVE  w[End(m, y)].prev = y
      <4>1. End(m, y) \in Heads(m) /\ m[End(m, y)].prev = y
        BY <3>1, <3>3 DEF Follows
      <4>2. End(m, y) # x
        <5>1. CASE x = nullptr
          BY <4>1, <5>1, Block, AddrIs
        <5>2. CASE x # nullptr
          <6>1. x = End(m, a) /\ End(m, y) # End(m, a)
            BY <1>1, <1>2, <1>5, <2>3, <3>1, <5>2
          <6> QED
            BY <6>1
        <5> QED
          BY <5>1, <5>2
      <4>3. End(m, y) \in Addr /\ End(m, y) # new
        BY <1>3, <4>1 DEF Heads
      <4> QED
        BY <1>6, <4>1, <4>2, <4>3
    <3> QED
      BY <1>7, <3>1, <3>2, <3>3 DEF Follows
  <2> QED
    BY <1>7, <2>1, <2>2, <2>3
<1>10. ASSUME NEW y \in Heads(w)
       PROVE  Preceded(w, y)
  <2>1. CASE y = new
    <3>1. new # KHEAP_START
      BY <1>1, AddrIs, Units
    <3>2. w[new].prev = a
      BY <1>6
    <3> QED
      BY <1>7, <1>8, <2>1, <3>1, <3>2 DEF Preceded
  <2>2. CASE y # new /\ y = x
    <3>1. y = End(m, a) /\ y \in Heads(m) /\ w[y].prev = new
      <4>1. y \in Addr /\ y # nullptr
        BY <1>7, <2>2, Block, AddrIs
      <4> QED
        BY <1>5, <1>6, <2>2, <4>1
    <3>2. y # KHEAP_START
      BY <1>1, <3>1, Block, AddrIs, Units
    <3> QED
      BY <1>7, <1>8, <3>1, <3>2 DEF Preceded
  <2>3. CASE y # new /\ y # x
    <3>1. y \in Heads(m) /\ y \in Addr /\ Preceded(m, y) /\ w[y].prev = m[y].prev
      BY <1>6, <1>7, <2>3, Block
    <3>2. CASE y = KHEAP_START
      BY <3>1, <3>2 DEF Preceded
    <3>3. CASE y # KHEAP_START
      <4>1. m[y].prev \in Heads(m) /\ End(m, m[y].prev) = y
        BY <3>1, <3>3 DEF Preceded
      <4>2. m[y].prev # a
        BY <1>5, <2>3, <3>1, <4>1, Block DEF Follows
      <4> QED
        BY <1>7, <1>8, <3>1, <3>3, <4>1, <4>2 DEF Preceded
    <3> QED
      BY <3>2, <3>3
  <2> QED
    BY <2>1, <2>2, <2>3
<1>11. ASSUME NEW y \in Heads(w), NEW z \in Heads(w), y < z
       PROVE  End(w, y) <= z
  <2>1. CASE y \in Heads(m) /\ z \in Heads(m)
    <3>1. End(m, y) <= z
      BY <1>11, <2>1 DEF Shape
    <3>2. CASE y = a
      <4>1. End(w, y) = new /\ new < End(m, a) /\ End(m, a) <= z /\ z \in Nat
        BY <1>1, <1>8, <2>1, <3>1, <3>2, Block
      <4> QED
        BY <1>1, <4>1
    <3>3. CASE y # a
      BY <1>8, <2>1, <3>1, <3>3
    <3> QED
      BY <3>2, <3>3
  <2>2. CASE y = new
    <3>1. z \in Heads(m) /\ z # a /\ z \in Nat
      BY <1>1, <1>2, <1>7, <1>11, <2>2
    <3>2. End(m, z) \in Nat /\ (End(m, z) <= a \/ End(m, a) <= z) /\ z < End(m, z)
      BY <1>2, <3>1
    <3>3. End(m, a) <= z
      BY <1>1, <1>11, <2>2, <3>1, <3>2
    <3> QED
      BY <1>8, <2>2, <3>3
  <2>3. CASE y # new /\ z = new
    <3>1. y \in Heads(m)
      BY <1>7, <2>3
    <3>2. CASE y = a
      BY <1>1, <1>8, <2>3, <3>2
    <3>3. CASE y # a
      <4>1. y \in Nat /\ End(m, y) \in Nat /\ (End(m, y) <= a \/ End(m, a) <= y)
        BY <1>2, <3>1, <3>3
      <4>2. End(m, y) <= a
        BY <1>1, <1>11, <2>3, <4>1
      <4> QED
        BY <1>1, <1>8, <2>3, <3>1, <3>3, <4>1, <4>2
    <3> QED
      BY <3>2, <3>3
  <2> QED
    BY <1>7, <2>1, <2>2, <2>3
<1>12. w \in [Addr -> Node] /\ e \in Addr /\ KHEAP_START \in Heads(w)
  BY <1>1, <1>7 DEF Cut, Shape
<1> QED
  BY <1>3, <1>7, <1>9, <1>10, <1>11, <1>12 DEF Shape
----------------------------------------------------------------------------
(* Joining two blocks *)

\* In w the block at a of m has swallowed the one at n.
Joined(m, w, a, n) ==
    /\ w \in [Addr -> Node]
    /\ \A y \in Addr :
         /\ w[y].size = IF y = a THEN End(m, n) - a - HDR ELSE IF y = n THEN 0 ELSE m[y].size
         /\ w[y].free = IF y = n THEN FALSE ELSE m[y].free
         /\ w[y].next = IF y = a THEN m[n].next ELSE IF y = n THEN nullptr ELSE m[y].next
         /\ w[y].prev = IF y = n THEN nullptr ELSE IF y = m[n].next THEN a ELSE m[y].prev

LEMMA SwallowJoins ==
    ASSUME NEW m \in [Addr -> Node], NEW a \in Addr, NEW n \in Addr, a # n, n = End(m, a),
           End(m, n) <= WORD, m[n].next # a, m[n].next # n
    PROVE  Joined(m, swallow(m, a, n), a, n)
<1>1. /\ a \in Nat /\ n \in Nat /\ HDR \in Nat \ {0} /\ WORD \in Nat /\ m[a] \in Node
      /\ m[a].size \in Nat /\ m[n].size \in Nat /\ a > 0
  BY AddrIs, Units DEF Node, nullptr
<1>2. PICK x : x = m[n].next
  OBVIOUS
<1>3. x \in Addr \cup {nullptr} /\ x # a /\ x # n
  BY <1>2 DEF Node
<1>4. PICK l : l = m[a].size + m[n].size + HDR
  OBVIOUS
<1>5. l = End(m, n) - a - HDR /\ l \in 0 .. WORD - 1
  BY <1>1, <1>4 DEF End
<1>6. PICK r : r = [[m[a] EXCEPT !.size = l] EXCEPT !.next = x]
  OBVIOUS
<1>7. r \in Node /\ r.size = l /\ r.next = x /\ r.free = m[a].free /\ r.prev = m[a].prev
  BY <1>1, <1>3, <1>5, <1>6 DEF Node
<1>8. PICK m1 : m1 = [m EXCEPT ![a].size = @ + m[n].size + HDR, ![a].next = m[n].next]
  OBVIOUS
<1>9. m1 \in [Addr -> Node] /\ \A y \in Addr : m1[y] = IF y = a THEN r ELSE m[y]
  <2>1. m1 = [m EXCEPT ![a] = r]
    BY <1>2, <1>4, <1>6, <1>8
  <2> QED
    BY <1>7, <2>1
<1>10. PICK m2 : m2 = IF x # nullptr THEN [m1 EXCEPT ![x].prev = a] ELSE m1
  OBVIOUS
<1>11. /\ m2 \in [Addr -> Node]
       /\ \A y \in Addr : m2[y] = IF y = x THEN [m1[y] EXCEPT !.prev = a] ELSE m1[y]
  <2>1. CASE x = nullptr
    BY <1>9, <1>10, <2>1, AddrIs
  <2>2. CASE x # nullptr
    <3>1. x \in Addr /\ m1[x] \in Node
      BY <1>3, <1>9, <2>2
    <3>2. PICK s : s = [m1[x] EXCEPT !.prev = a]
      OBVIOUS
    <3>3. s \in Node
      BY <3>1, <3>2 DEF Node
    <3>4. m2 = [m1 EXCEPT ![x] = s]
      BY <1>10, <2>2, <3>2
    <3> QED
      BY <1>9, <3>1, <3>2, <3>3, <3>4
  <2> QED
    BY <2>1, <2>2
<1>12. PICK w : w = swallow(m, a, n)
  OBVIOUS
<1>13. w = [m2 EXCEPT ![n] = Junk]
  BY <1>2, <1>8, <1>10, <1>12 DEF swallow
<1>14. Junk \in Node /\ Junk.size = 0 /\ Junk.free = FALSE /\ Junk.next = nullptr
       /\ Junk.prev = nullptr
  <2>1. 0 \in 0 .. WORD - 1
    BY Units
  <2>2. Junk \in Node
    BY <2>1 DEF Junk, Node
  <2> QED
    BY <2>2 DEF Junk
<1>15. w \in [Addr -> Node] /\ \A y \in Addr : w[y] = IF y = n THEN Junk ELSE m2[y]
  BY <1>11, <1>13, <1>14
<1>16. ASSUME NEW y \in Addr
       PROVE  /\ w[y].size = IF y = a THEN End(m, n) - a - HDR ELSE IF y = n THEN 0 ELSE m[y].size
              /\ w[y].free = IF y = n THEN FALSE ELSE m[y].free
              /\ w[y].next = IF y = a THEN m[n].next ELSE IF y = n THEN nullptr ELSE m[y].next
              /\ w[y].prev = IF y = n THEN nullptr ELSE IF y = m[n].next THEN a ELSE m[y].prev
  <2>1. m[y] \in Node /\ m1[y] \in Node
    BY <1>9
  <2>2. CASE y = a
    <3>1. w[y] = r
      BY <1>3, <1>9, <1>11, <1>15, <2>2
    <3> QED
      BY <1>2, <1>3, <1>5, <1>7, <2>2, <3>1
  <2>3. CASE y = n
    <3>1. w[y] = Junk
      BY <1>15, <2>3
    <3> QED
      BY <1>14, <2>3, <3>1
  <2>4. CASE y = x
    <3>1. w[y] = [m[y] EXCEPT !.prev = a] /\ y # a /\ y # n
      BY <1>3, <1>9, <1>11, <1>15, <2>4
    <3>2. /\ w[y].size = m[y].size /\ w[y].free = m[y].free /\ w[y].next = m[y].next
          /\ w[y].prev = a
      BY <2>1, <3>1 DEF Node
    <3> QED
      BY <1>2, <2>4, <3>1, <3>2
  <2>5. CASE y # a /\ y # n /\ y # x
    <3>1. w[y] = m[y]
      BY <1>9, <1>11, <1>15, <2>5
    <3> QED
      BY <1>2, <2>5, <3>1
  <2> QED
    BY <2>2, <2>3, <2>4, <2>5
<1> QED
  BY <1>12, <1>15, <1>16 DEF Joined

LEMMA JoinShape ==
    ASSUME NEW m, NEW e, Shape(m, e), NEW a \in Heads(m), NEW n \in Heads(m), n = m[a].next,
           NEW w, Joined(m, w, a, n)
    PROVE  Shape(w, e) /\ Heads(w) = Heads(m) \ {n} /\ w[a].next = m[n].next
<1>1. /\ a \in Addr /\ a \in Nat /\ n \in Addr /\ n \in Nat /\ n # nullptr /\ a # nullptr
      /\ End(m, a) \in Nat /\ End(m, n) \in Nat /\ a < End(m, a) /\ n < End(m, n)
      /\ End(m, n) <= e /\ e \in Addr /\ e \in Nat /\ HDR \in Nat
      /\ a + HDR < End(m, a) /\ n + HDR < End(m, n)
      /\ Follows(m, e, a) /\ Follows(m, e, n) /\ Preceded(m, n)
  BY Block, Units
<1>2. n = End(m, a) /\ End(m, a) # e /\ a # n
  BY <1>1 DEF Follows
<1>3. PICK x : x = m[n].next
  OBVIOUS
<1>4. /\ IF End(m, n) = e THEN x = nullptr ELSE x = End(m, n) /\ x \in Heads(m) /\ m[x].prev = n
      /\ x # a /\ x # n
  BY <1>1, <1>2, <1>3 DEF Follows
<1>5. ASSUME NEW y \in Heads(m), y # a, y # n
      PROVE  y \in Addr /\ y \in Nat /\ End(m, y) \in Nat /\ (End(m, y) <= a \/ End(m, n) <= y)
             /\ y < End(m, y)
  <2>1. y \in Addr /\ y \in Nat /\ y < End(m, y) /\ End(m, y) \in Nat
        /\ (y < a => End(m, y) <= a) /\ (a < y => End(m, a) <= y) /\ (n < y => End(m, n) <= y)
    BY Block
  <2> QED
    BY <1>1, <1>2, <1>5, <2>1
<1>6. ASSUME NEW y \in Addr
      PROVE  /\ w[y].size = IF y = a THEN End(m, n) - a - HDR ELSE IF y = n THEN 0 ELSE m[y].size
             /\ w[y].next = IF y = a THEN x ELSE IF y = n THEN nullptr ELSE m[y].next
             /\ w[y].prev = IF y = n THEN nullptr ELSE IF y = x THEN a ELSE m[y].prev
  BY <1>3 DEF Joined
<1>7. Heads(w) = Heads(m) \ {n}
  <2>1. \A y \in Addr : w[y].size # 0 <=> (y \in Heads(m) /\ y # n)
    <3>1. End(m, n) - a - HDR # 0
      BY <1>1, <1>2
    <3> QED
      BY <1>2, <1>6, <3>1 DEF Heads
  <2> QED
    BY <2>1 DEF Heads
<1>8. End(w, a) = End(m, n) /\ \A y \in Heads(m) \ {a, n} : End(w, y) = End(m, y)
  <2>1. w[a].size = End(m, n) - a - HDR
    BY <1>1, <1>6
  <2>2. \A z \in Nat : a + HDR + (z - a - HDR) = z
    BY <1>1
  <2>3. \A y \in Heads(m) \ {a, n} : w[y].size = m[y].size
    BY <1>5, <1>6
  <2> QED
    BY <1>1, <2>1, <2>2, <2>3 DEF End
<1>9. ASSUME NEW y \in Heads(w)
      PROVE  End(w, y) <= e /\ Follows(w, e, y)
  <2>1. CASE y = a
    <3>1. w[a].next = x
      BY <1>1, <1>6
    <3>2. End(m, n) # e => w[x].prev = a
      BY <1>4, <1>5, <1>6
    <3> QED
      BY <1>1, <1>4, <1>7, <1>8, <2>1, <3>1, <3>2 DEF Follows
  <2>2. CASE y # a
    <3>1. /\ y \in Heads(m) /\ y # n
      BY <1>7
    <3>2. /\ y \in Addr /\ y \in Nat /\ End(m, y) <= e /\ Follows(m, e, y) /\ y < End(m, y)
      BY <3>1, Block
    <3>3. End(w, y) = End(m, y) /\ w[y].next = m[y].next
      BY <1>6, <1>8, <2>2, <3>1, <3>2
    <3>4. ASSUME End(m, y) # e
          PROVE  End(m, y) \in Heads(w) /\ w[End(m, y)].prev = y
      <4>1. End(m, y) \in Heads(m) /\ m[End(m, y)].prev = y
        BY <3>2, <3>4 DEF Follows
      <4>2. End(m, y) # n /\ End(m, y) # x
        <5>1. m[n].prev = a
          BY <1>1, <1>2 DEF Follows
        <5>2. x # nullptr => m[x].prev = n
          BY <1>4
        <5>3. End(m, y) # nullptr
          BY <4>1, Block
        <5> QED
          BY <2>2, <3>1, <4>1, <5>1, <5>2, <5>3
      <4>3. End(m, y) \in Addr
        BY <4>1 DEF Heads
      <4> QED
        BY <1>6, <1>7, <4>1, <4>2, <4>3
    <3> QED
      BY <3>2, <3>3, <3>4 DEF Follows
  <2> QED
    BY <2>1, <2>2
<1>10. ASSUME NEW y \in Heads(w)
       PROVE  Preceded(w, y)
  <2>1. y \in Heads(m) /\ y # n /\ y \in Addr /\ y # nullptr /\ Preceded(m, y)
    BY <1>7, Block
  <2>2. CASE y = x
    <3>1. y = End(m, n) /\ w[y].prev = a
      BY <1>4, <1>6, <2>1, <2>2
    <3>2. y # KHEAP_START
      BY <1>1, <3>1, AddrIs, Units
    <3>3. a \in Heads(w)
      BY <1>2, <1>7
    <3> QED
      BY <1>8, <3>1, <3>2, <3>3 DEF Preceded
  <2>3. CASE y # x
    <3>1. w[y].prev = m[y].prev
      BY <1>6, <2>1, <2>3
    <3>2. CASE y = KHEAP_START
      BY <2>1, <3>1, <3>2 DEF Preceded
    <3>3. CASE y # KHEAP_START
      <4>1. m[y].prev \in Heads(m) /\ End(m, m[y].prev) = y
        BY <2>1, <3>3 DEF Preceded
      <4>2. m[y].prev # a
        BY <1>2, <2>1, <4>1
      <4>3. m[y].prev # n
        BY <1>1, <1>4, <2>1, <2>3, <4>1, Block
      <4> QED
        BY <1>7, <1>8, <3>1, <3>3, <4>1, <4>2, <4>3 DEF Preceded
    <3> QED
      BY <3>2, <3>3
  <2> QED
    BY <2>2, <2>3
<1>11. ASSUME NEW y \in Heads(w), NEW z \in Heads(w), y < z
       PROVE  End(w, y) <= z
  <2>1. y \in Heads(m) /\ z \in Heads(m) /\ y # n /\ z # n
    BY <1>7
  <2>2. End(m, y) <= z
    BY <1>11, <2>1 DEF Shape
  <2>3. CASE y = a
    <3>1. z # a /\ z \in Nat
      BY <1>1, <1>11, <2>1, <2>3, Block
    <3>2. (End(m, z) <= a \/ End(m, n) <= z) /\ z < End(m, z) /\ End(m, z) \in Nat
      BY <1>5, <2>1, <3>1
    <3> QED
      BY <1>1, <1>8, <1>11, <2>3, <3>1, <3>2
  <2>4. CASE y # a
    BY <1>8, <2>1, <2>2, <2>4
  <2> QED
    BY <2>3, <2>4
<1>12. w \in [Addr -> Node] /\ e \in Addr /\ KHEAP_START \in Heads(w)
  <2>1. n # KHEAP_START
    BY <1>1, <1>2, AddrIs, Units
  <2> QED
    BY <1>1, <1>7, <2>1 DEF Joined, Shape
<1>13. w[a].next = m[n].next
  BY <1>1, <1>3, <1>6
<1> QED
  BY <1>7, <1>9, <1>10, <1>11, <1>12, <1>13 DEF Shape
----------------------------------------------------------------------------
(* Growing at the end *)

\* In w a free block from e to new_end stands behind the one at a.
Grown(m, w, a, e, new_end) ==
    /\ w \in [Addr -> Node]
    /\ \A y \in Addr :
         /\ w[y].size = IF y = e THEN new_end - e - HDR ELSE m[y].size
         /\ w[y].free = IF y = e THEN TRUE ELSE m[y].free
         /\ w[y].next = IF y = e THEN nullptr ELSE IF y = a THEN e ELSE m[y].next
         /\ w[y].prev = IF y = e THEN a ELSE m[y].prev

\* What kmalloc writes there, for a block of l bytes.
Extended(m, a, e, l) ==
    [m EXCEPT ![e] = [size |-> l, free |-> TRUE, next |-> nullptr, prev |-> a], ![a].next = e]

LEMMA ExpandGrows ==
    ASSUME NEW m \in [Addr -> Node], NEW a \in Addr, NEW e \in Addr, a # e,
           NEW l \in 0 .. WORD - 1, NEW new_end \in Nat, new_end = e + HDR + l
    PROVE  Grown(m, Extended(m, a, e, l), a, e, new_end)
<1> DEFINE w == Extended(m, a, e, l)
<1>1. e \in Nat /\ l \in Nat /\ HDR \in Nat /\ new_end - e - HDR = l
  BY AddrIs, Units
<1>2. PICK r : r = [size |-> l, free |-> TRUE, next |-> nullptr, prev |-> a]
  OBVIOUS
<1>3. r \in Node /\ r.size = l /\ r.free = TRUE /\ r.next = nullptr /\ r.prev = a
  BY <1>2 DEF Node
<1>4. PICK m1 : m1 = [m EXCEPT ![e] = r]
  OBVIOUS
<1>5. m1 \in [Addr -> Node] /\ \A y \in Addr : m1[y] = IF y = e THEN r ELSE m[y]
  BY <1>3, <1>4
<1>6. PICK s : s = [m[a] EXCEPT !.next = e]
  OBVIOUS
<1>7. /\ s \in Node /\ s.size = m[a].size /\ s.free = m[a].free /\ s.next = e
      /\ s.prev = m[a].prev
  <2>1. m[a] \in Node
    OBVIOUS
  <2> QED
    BY <1>6, <2>1 DEF Node
<1>8. w = [m1 EXCEPT ![a] = s]
  <2>1. w = [m1 EXCEPT ![a].next = e]
    BY <1>2, <1>4 DEF Extended
  <2>2. m1[a] = m[a]
    BY <1>5
  <2> QED
    BY <1>6, <2>1, <2>2
<1>9. w \in [Addr -> Node] /\ \A y \in Addr : w[y] = IF y = a THEN s ELSE IF y = e THEN r ELSE m[y]
  BY <1>5, <1>7, <1>8
<1>10. ASSUME NEW y \in Addr
       PROVE  /\ w[y].size = IF y = e THEN new_end - e - HDR ELSE m[y].size
              /\ w[y].free = IF y = e THEN TRUE ELSE m[y].free
              /\ w[y].next = IF y = e THEN nullptr ELSE IF y = a THEN e ELSE m[y].next
              /\ w[y].prev = IF y = e THEN a ELSE m[y].prev
  <2>1. CASE y = a
    BY <1>7, <1>9, <2>1
  <2>2. CASE y = e
    BY <1>1, <1>3, <1>9, <2>2
  <2>3. CASE y # a /\ y # e
    BY <1>9, <2>3
  <2> QED
    BY <2>1, <2>2, <2>3
<1> QED
  BY <1>9, <1>10 DEF Grown

LEMMA GrowShape ==
    ASSUME NEW m, NEW e, Shape(m, e), NEW a \in Heads(m), m[a].next = nullptr,
           NEW new_end \in Addr, e + HDR < new_end, NEW w, Grown(m, w, a, e, new_end)
    PROVE  /\ Shape(w, new_end) /\ Heads(w) = Heads(m) \cup {e} /\ e \notin Heads(m)
           /\ w[e].prev = a /\ w[e].next = nullptr /\ w[a].next = e
<1>1. /\ a \in Addr /\ a \in Nat /\ a # nullptr /\ End(m, a) \in Nat /\ a < End(m, a)
      /\ e \in Addr /\ e \in Nat /\ HDR \in Nat \ {0} /\ Follows(m, e, a)
      /\ new_end \in Nat /\ e < new_end
  <2>1. /\ a \in Addr /\ a \in Nat /\ a # nullptr /\ End(m, a) \in Nat /\ a < End(m, a)
        /\ e \in Addr /\ e \in Nat /\ Follows(m, e, a)
    BY Block
  <2>2. HDR \in Nat \ {0} /\ new_end \in Nat
    BY AddrIs, Units
  <2> QED
    BY <2>1, <2>2
<1>2. End(m, a) = e
  <2>1. End(m, a) # e => m[a].next \in Heads(m)
    BY <1>1 DEF Follows
  <2> QED
    BY <2>1, Block
<1>3. ASSUME NEW y \in Heads(m)
      PROVE  /\ y \in Addr /\ y \in Nat /\ End(m, y) \in Nat /\ y < End(m, y) /\ End(m, y) <= e
             /\ y # e /\ (y # a => End(m, y) # e)
  <2>1. /\ y \in Addr /\ y \in Nat /\ y < End(m, y) /\ End(m, y) \in Nat /\ End(m, y) <= e
        /\ (y < a => End(m, y) <= a) /\ (a < y => End(m, a) <= y)
    BY Block
  <2> QED
    BY <1>1, <1>2, <2>1
<1>4. e \notin Heads(m) /\ a # e
  BY <1>1, <1>3
<1>5. ASSUME NEW y \in Addr
      PROVE  /\ w[y].size = IF y = e THEN new_end - e - HDR ELSE m[y].size
             /\ w[y].next = IF y = e THEN nullptr ELSE IF y = a THEN e ELSE m[y].next
             /\ w[y].prev = IF y = e THEN a ELSE m[y].prev
  BY DEF Grown
<1>6. Heads(w) = Heads(m) \cup {e}
  <2>1. new_end - e - HDR # 0
    BY <1>1
  <2> QED
    BY <1>1, <1>5, <2>1 DEF Heads
<1>7. End(w, e) = new_end /\ \A y \in Heads(m) : End(w, y) = End(m, y)
  <2>1. w[e].size = new_end - e - HDR
    BY <1>1, <1>5
  <2>2. e + HDR + (new_end - e - HDR) = new_end
    BY <1>1
  <2>3. \A y \in Heads(m) : w[y].size = m[y].size
    BY <1>3, <1>5
  <2> QED
    BY <2>1, <2>2, <2>3 DEF End
<1>8. ASSUME NEW y \in Heads(w)
      PROVE  End(w, y) <= new_end /\ Follows(w, new_end, y)
  <2>1. CASE y = e
    BY <1>1, <1>5, <1>7, <2>1 DEF Follows
  <2>2. CASE y = a
    <3>1. w[a].next = e /\ w[e].prev = a /\ e # new_end /\ e <= new_end
      BY <1>1, <1>4, <1>5
    <3> QED
      BY <1>2, <1>6, <1>7, <2>2, <3>1 DEF Follows
  <2>3. CASE y # e /\ y # a
    <3>1. y \in Heads(m)
      BY <1>6, <2>3
    <3>2. /\ y \in Addr /\ End(m, y) \in Nat /\ End(m, y) <= e /\ End(m, y) # e
          /\ Follows(m, e, y)
      BY <1>3, <2>3, <3>1, Block
    <3>3. /\ End(m, y) \in Heads(m) /\ m[y].next = End(m, y) /\ m[End(m, y)].prev = y
      BY <3>2 DEF Follows
    <3>4. End(w, y) = End(m, y) /\ w[y].next = m[y].next
          /\ w[End(m, y)].prev = m[End(m, y)].prev
      BY <1>3, <1>5, <1>7, <2>3, <3>1, <3>2, <3>3
    <3>5. End(m, y) # new_end /\ End(m, y) <= new_end
      BY <1>1, <3>2
    <3> QED
      BY <1>6, <3>3, <3>4, <3>5 DEF Follows
  <2> QED
    BY <2>1, <2>2, <2>3
<1>9. ASSUME NEW y \in Heads(w)
      PROVE  Preceded(w, y)
  <2>1. CASE y = e
    <3>1. e # KHEAP_START
      BY <1>1, <1>2, AddrIs, Units
    <3>2. w[e].prev = a
      BY <1>1, <1>5
    <3> QED
      BY <1>2, <1>6, <1>7, <2>1, <3>1, <3>2 DEF Preceded
  <2>2. CASE y # e
    <3>1. y \in Heads(m) /\ y \in Addr /\ Preceded(m, y) /\ w[y].prev = m[y].prev
      BY <1>5, <1>6, <2>2, Block
    <3> QED
      BY <1>6, <1>7, <3>1 DEF Preceded
  <2> QED
    BY <2>1, <2>2
<1>10. ASSUME NEW y \in Heads(w), NEW z \in Heads(w), y < z
       PROVE  End(w, y) <= z
  <2>1. CASE y \in Heads(m) /\ z \in Heads(m)
    <3>1. End(m, y) <= z
      BY <1>10, <2>1 DEF Shape
    <3> QED
      BY <1>7, <2>1, <3>1
  <2>2. CASE y \in Heads(m) /\ z = e
    BY <1>3, <1>7, <2>2
  <2>3. CASE y = e
    <3>1. CASE z = e
      BY <1>1, <1>10, <2>3, <3>1
    <3>2. CASE z # e
      <4>1. z \in Heads(m)
        BY <1>6, <3>2
      <4>2. z \in Nat /\ End(m, z) \in Nat /\ z < End(m, z) /\ End(m, z) <= e
        BY <1>3, <4>1
      <4> QED
        BY <1>1, <1>10, <2>3, <4>2
    <3> QED
      BY <3>1, <3>2
  <2> QED
    BY <1>6, <2>1, <2>2, <2>3
<1>11. w \in [Addr -> Node] /\ KHEAP_START \in Heads(w)
  BY <1>6 DEF Grown, Shape
<1>12. w[e].prev = a /\ w[e].next = nullptr /\ w[a].next = e
  BY <1>1, <1>4, <1>5
<1> QED
  BY <1>4, <1>6, <1>8, <1>9, <1>10, <1>11, <1>12 DEF Shape
----------------------------------------------------------------------------
(* Nothing to coalesce, and every block in use has an owner *)

\* Two neighbours are both free only where kfree is at work, on the block at nd.
Coal(m, at, nd) ==
    \A a \in Free(m) : m[a].next \in Free(m) =>
        \/ at \in {"mark", "merge_next"} /\ nd \in {a, m[a].next}
        \/ at = "merge_prev" /\ nd = m[a].next

\* The block that kfree has been given and not yet marked.
InFlight(at, nd, bk) == IF at = "mark" /\ bk = "idle" THEN {nd} ELSE {}

Used(m, at, nd, bk) == (Heads(m) \ Free(m)) \ InFlight(at, nd, bk)

Own(m, own, at, nd, bk) ==
    /\ \A b \in own : /\ b.ptr \in Nat /\ b.ptr - HDR \in Used(m, at, nd, bk)
                      /\ m[b.ptr - HDR].size >= b.size
    /\ \A a \in Used(m, at, nd, bk) : \E b \in own : b.ptr = a + HDR
    /\ \A b, d \in own : b.ptr = d.ptr => b = d

Good(m, e, own, at, nd, bk) == Shape(m, e) /\ Coal(m, at, nd) /\ Own(m, own, at, nd, bk)

\* What a block's record says stays when its block stays as it is.
LEMMA OwnStays ==
    ASSUME NEW m, NEW w, NEW own, NEW at, NEW nd, NEW bk, NEW at2, NEW nd2, NEW bk2,
           Own(m, own, at, nd, bk), Used(w, at2, nd2, bk2) = Used(m, at, nd, bk),
           \A y \in Used(m, at, nd, bk) : w[y].size = m[y].size
    PROVE  Own(w, own, at2, nd2, bk2)
<1>1. ASSUME NEW b \in own
      PROVE  /\ b.ptr \in Nat /\ b.ptr - HDR \in Used(w, at2, nd2, bk2)
             /\ w[b.ptr - HDR].size >= b.size
  <2>1. PICK y : y = b.ptr - HDR
    OBVIOUS
  <2>2. b.ptr \in Nat /\ y \in Used(m, at, nd, bk) /\ m[y].size >= b.size
    BY <2>1 DEF Own
  <2>3. w[y].size = m[y].size
    BY <2>2
  <2> QED
    BY <2>1, <2>2, <2>3
<1>2. \A a \in Used(w, at2, nd2, bk2) : \E b \in own : b.ptr = a + HDR
  BY DEF Own
<1>3. \A b, d \in own : b.ptr = d.ptr => b = d
  BY DEF Own
<1> QED
  BY <1>1, <1>2, <1>3 DEF Own

LEMMA NothingFreed ==
    ASSUME NEW at, NEW nd, NEW bk, at # "mark" \/ bk # "idle"
    PROVE  InFlight(at, nd, bk) = {} /\ \A m : Used(m, at, nd, bk) = Heads(m) \ Free(m)
BY DEF InFlight, Used

\* The heap that kheap_init makes.
Fresh == [[a \in Addr |-> Junk] EXCEPT ![KHEAP_START] =
            [size |-> KHEAP_INITIAL_SIZE - HDR, free |-> TRUE,
             next |-> nullptr, prev |-> nullptr]]

LEMMA FreshGood ==
    Good(Fresh, KHEAP_START + KHEAP_INITIAL_SIZE, {}, "idle", nullptr, "idle")
<1>1. PICK m, e : m = Fresh /\ e = KHEAP_START + KHEAP_INITIAL_SIZE
  OBVIOUS
<1>2. PICK s \in Nat \ {0}, l \in Nat \ {0} : s = KHEAP_START /\ l = KHEAP_INITIAL_SIZE - HDR
  BY Units
<1>3. e = s + HDR + l /\ e \in Nat /\ s < e /\ s \in Addr /\ e \in Addr /\ l \in 0 .. WORD - 1
  <2>1. e = s + HDR + l /\ e \in Nat /\ s < e /\ e <= KHEAP_END /\ e >= KHEAP_START
    BY <1>1, <1>2, Units
  <2>2. e % ALIGN = 0
    BY <1>1, Units, SumOfMultiples
  <2>3. e \in Addr
    BY <2>1, <2>2, InAddr
  <2>4. s \in Addr
    BY <1>2, Units, InAddr
  <2>5. l \in 0 .. WORD - 1
    BY <1>2, <2>1, Units
  <2> QED
    BY <2>1, <2>3, <2>4, <2>5
<1>4. PICK r : r = [size |-> l, free |-> TRUE, next |-> nullptr, prev |-> nullptr]
  OBVIOUS
<1>5. r \in Node /\ r.size = l /\ r.free = TRUE /\ r.next = nullptr /\ r.prev = nullptr
  BY <1>3, <1>4 DEF Node
<1>6. Junk \in Node /\ Junk.size = 0
  <2>1. 0 \in 0 .. WORD - 1
    BY Units
  <2>2. Junk \in Node
    BY <2>1 DEF Junk, Node
  <2> QED
    BY <2>2 DEF Junk
<1>7. m \in [Addr -> Node] /\ \A y \in Addr : m[y] = IF y = s THEN r ELSE Junk
  <2>1. PICK j : j = [a \in Addr |-> Junk]
    OBVIOUS
  <2>2. m = [j EXCEPT ![s] = r]
    BY <1>1, <1>2, <1>4, <2>1 DEF Fresh
  <2> QED
    BY <1>3, <1>5, <1>6, <2>1, <2>2
<1>8. Heads(m) = {s} /\ Free(m) = {s}
  <2>1. Heads(m) = {s}
    BY <1>2, <1>3, <1>5, <1>6, <1>7 DEF Heads
  <2> QED
    BY <1>3, <1>5, <1>7, <2>1 DEF Free
<1>9. End(m, s) = e /\ m[s].next = nullptr /\ m[s].prev = nullptr
  BY <1>3, <1>5, <1>7 DEF End
<1>10. Shape(m, e)
  <2>1. Follows(m, e, s) /\ Preceded(m, s)
    BY <1>2, <1>9 DEF Follows, Preceded
  <2>2. ASSUME NEW a \in Heads(m), NEW b \in Heads(m), a < b
        PROVE  End(m, a) <= b
    <3>1. a = s /\ b = s /\ s \in Nat
      BY <1>8
    <3> QED
      BY <2>2, <3>1
  <2>3. \A a \in Heads(m) : End(m, a) <= e /\ Follows(m, e, a) /\ Preceded(m, a)
    <3>1. e <= e
      BY <1>3
    <3> QED
      BY <1>8, <1>9, <2>1, <3>1
  <2>4. m \in [Addr -> Node] /\ e \in Addr /\ KHEAP_START \in Heads(m)
    BY <1>2, <1>3, <1>7, <1>8
  <2> QED
    BY <2>2, <2>3, <2>4 DEF Shape
<1>11. Coal(m, "idle", nullptr)
  <2>1. nullptr # s
    BY <1>2 DEF nullptr
  <2> QED
    BY <1>8, <1>9, <2>1 DEF Coal
<1>12. Own(m, {}, "idle", nullptr, "idle")
  <2>1. Used(m, "idle", nullptr, "idle") = {}
    BY <1>8 DEF Used
  <2> QED
    BY <2>1 DEF Own
<1> QED
  BY <1>1, <1>10, <1>11, <1>12 DEF Good

\* A free block is handed out, with its record; only it may have had a free neighbour
\* behind it.
LEMMA HandOut ==
    ASSUME NEW m, NEW e, NEW own, NEW nd, NEW bk, Shape(m, e), Own(m, own, "take", nd, bk),
           NEW a \in Free(m), \A y \in Free(m) : m[y].next \in Free(m) => y = a,
           NEW w, w = Mark(m, a, FALSE),
           NEW b, b.ptr = a + HDR, m[a].size >= b.size
    PROVE  Good(w, e, own \cup {b}, "idle", nullptr, "idle")
<1>1. Shape(m, e) /\ Own(m, own, "take", nd, bk)
  OBVIOUS
<1>2. a \in Heads(m) /\ Heads(m) \subseteq Addr /\ m \in [Addr -> Node]
  BY <1>1 DEF Free, Heads, Shape
<1>3. SameLinks(m, w) /\ \A y \in Addr : w[y].free = IF y = a THEN FALSE ELSE m[y].free
  <2>1. a \in Addr /\ FALSE \in BOOLEAN
    BY <1>2
  <2> QED
    <3>1. Marks(m, w, a, FALSE)
      BY <1>2, <2>1, Marked
    <3> QED
      BY <3>1 DEF Marks
<1>4. Shape(w, e) /\ Heads(w) = Heads(m)
  BY <1>1, <1>3, SameLinksShape
<1>5. Free(w) = Free(m) \ {a}
  BY <1>2, <1>3, <1>4 DEF Free
<1>6. \A y \in Addr : w[y].next = m[y].next /\ w[y].size = m[y].size
  BY <1>3 DEF SameLinks
<1>7. Coal(w, "idle", nullptr)
  BY <1>2, <1>5, <1>6 DEF Coal, Free
<1>8. /\ Used(m, "take", nd, bk) = Heads(m) \ Free(m)
      /\ Used(w, "idle", nullptr, "idle") = (Heads(m) \ Free(m)) \cup {a}
  BY <1>2, <1>4, <1>5 DEF Used, InFlight
<1>9. a \in Nat /\ HDR \in Nat /\ b.ptr \in Nat /\ b.ptr - HDR = a
  BY <1>2, AddrIs, Units
<1>10. ASSUME NEW d \in own \cup {b}
       PROVE  /\ d.ptr \in Nat /\ d.ptr - HDR \in Used(w, "idle", nullptr, "idle")
              /\ w[d.ptr - HDR].size >= d.size
  <2>1. CASE d = b
    BY <1>2, <1>6, <1>8, <1>9, <2>1
  <2>2. CASE d \in own
    <3>1. d.ptr \in Nat /\ d.ptr - HDR \in Heads(m) \ Free(m) /\ m[d.ptr - HDR].size >= d.size
      BY <1>1, <1>8, <2>2 DEF Own
    <3> QED
      BY <1>2, <1>6, <1>8, <3>1
  <2> QED
    BY <2>1, <2>2
<1>11. ASSUME NEW y \in Used(w, "idle", nullptr, "idle")
       PROVE  \E d \in own \cup {b} : d.ptr = y + HDR
  <2>1. CASE y = a
    BY <2>1
  <2>2. CASE y # a
    BY <1>1, <1>8, <2>2 DEF Own
  <2> QED
    BY <2>1, <2>2
<1>12. ASSUME NEW d \in own
       PROVE  d.ptr # b.ptr
  <2>1. d.ptr - HDR \notin Free(m)
    BY <1>1, <1>8 DEF Own
  <2> QED
    BY <1>9, <2>1
<1>13. ASSUME NEW d \in own \cup {b}, NEW f \in own \cup {b}, d.ptr = f.ptr
       PROVE  d = f
  <2>1. d \in own /\ f \in own => d = f
    BY <1>1, <1>13 DEF Own
  <2>2. d = b => f \notin own
    BY <1>12, <1>13
  <2>3. f = b => d \notin own
    BY <1>12, <1>13
  <2> QED
    BY <2>1, <2>2, <2>3
<1> QED
  BY <1>4, <1>7, <1>10, <1>11, <1>13 DEF Good, Own

\* A free block stays free when it is cut.
LEMMA CutGood ==
    ASSUME NEW m, NEW e, NEW own, NEW nd, NEW bk, Good(m, e, own, "take", nd, bk),
           NEW a \in Free(m), NEW new \in Addr, a + HDR < new, new + HDR < End(m, a),
           NEW w, Cut(m, w, a, new)
    PROVE  Shape(w, e) /\ Own(w, own, "take", nd, bk) /\ a \in Free(w)
           /\ w[a].size = new - a - HDR
           /\ \A y \in Free(w) : w[y].next \in Free(w) => y = a /\ w[y].next = new
<1>1. Shape(m, e) /\ Coal(m, "take", nd) /\ Own(m, own, "take", nd, bk)
  BY DEF Good
<1>2. a \in Heads(m) /\ Heads(m) \subseteq Addr /\ a \in Addr
  BY <1>1 DEF Free, Heads
<1>3. Shape(w, e) /\ new \notin Heads(m) /\ Heads(w) = Heads(m) \cup {new}
  BY <1>1, <1>2, CutShape
<1>4. \A y \in Addr :
        /\ w[y].size = IF y = a THEN new - a - HDR
                       ELSE IF y = new THEN End(m, a) - new - HDR ELSE m[y].size
        /\ w[y].free = IF y = new THEN TRUE ELSE m[y].free
        /\ w[y].next = IF y = a THEN new ELSE IF y = new THEN m[a].next ELSE m[y].next
  BY DEF Cut
<1>5. Free(w) = Free(m) \cup {new}
  BY <1>2, <1>3, <1>4 DEF Free
<1>6. a \in Free(w) /\ w[a].size = new - a - HDR /\ a # new
  BY <1>2, <1>3, <1>4, <1>5
<1>7. ASSUME NEW y \in Free(w), w[y].next \in Free(w), y # a \/ w[y].next # new
      PROVE  FALSE
  <2>1. \A z \in Free(m) : m[z].next \notin Free(m)
    BY <1>1 DEF Coal
  <2>2. \A z \in Heads(m) : m[z].next # new
    <3>1. new # nullptr
      BY AddrIs
    <3> QED
      BY <1>1, <1>3, <3>1, Block
  <2>3. CASE y = a
    BY <1>2, <1>4, <1>7, <2>3
  <2>4. CASE y = new
    BY <1>2, <1>4, <1>5, <1>6, <1>7, <2>1, <2>2, <2>4
  <2>5. CASE y # a /\ y # new
    <3>1. y \in Free(m) /\ y \in Heads(m) /\ y \in Addr
      BY <1>2, <1>5, <2>5 DEF Free
    <3>2. w[y].next = m[y].next
      BY <1>4, <2>5, <3>1
    <3>3. m[y].next \notin Free(m) /\ m[y].next # new
      BY <2>1, <2>2, <3>1
    <3> QED
      BY <1>5, <1>7, <3>2, <3>3
  <2> QED
    BY <2>3, <2>4, <2>5
<1>8. Own(w, own, "take", nd, bk)
  <2>1. Used(w, "take", nd, bk) = Used(m, "take", nd, bk)
    BY <1>3, <1>5 DEF Used
  <2>2. \A y \in Used(m, "take", nd, bk) : w[y].size = m[y].size
    BY <1>2, <1>3, <1>4 DEF Used
  <2> QED
    BY <1>1, <2>1, <2>2, OwnStays
<1> QED
  BY <1>3, <1>6, <1>7, <1>8

\* kmalloc's block, cut when a header and ALIGN bytes fit behind it.
LEMMA TakeGood ==
    ASSUME NEW m, NEW e, NEW own, NEW nd, NEW bk, Good(m, e, own, "take", nd, bk),
           NEW a \in Free(m), NEW n \in Nat \ {0}, n % ALIGN = 0, m[a].size >= n,
           NEW b, b.ptr = a + HDR, b.size \in Nat, n >= b.size,
           NEW w, w = Mark(IF m[a].size >= (n + HDR + ALIGN) % WORD THEN split(m, a, n) ELSE m,
                           a, FALSE)
    PROVE  Good(w, e, own \cup {b}, "idle", nullptr, "idle")
<1>1. Shape(m, e) /\ Coal(m, "take", nd) /\ Own(m, own, "take", nd, bk)
  BY DEF Good
<1>2. a \in Heads(m)
  BY DEF Free
<1>3. /\ a \in Addr /\ a \in Nat /\ m[a].size \in Nat \ {0} /\ End(m, a) \in Nat
      /\ a < End(m, a) /\ a # nullptr
      /\ End(m, a) <= e /\ e \in Nat /\ e <= KHEAP_END /\ e <= WORD
      /\ Follows(m, e, a) /\ m \in [Addr -> Node]
  BY <1>1, <1>2, Block DEF Shape
<1>4. PICK h \in Nat \ {0}, g \in Nat \ {0}, wd \in Nat : h = HDR /\ g = ALIGN /\ wd = WORD
  BY Units
<1>5. PICK z \in Nat \ {0} : z = m[a].size
  BY <1>3
<1>6. End(m, a) = a + h + z
  BY <1>4, <1>5 DEF End
<1>7. KHEAP_START <= a /\ g < a
  BY <1>3, <1>4, AddrIs, Units
<1>8. n + h + g < wd
  BY <1>3, <1>4, <1>5, <1>6, <1>7
<1>9. (n + HDR + ALIGN) % WORD = n + h + g
  BY <1>4, <1>8
<1>10. CASE z >= n + h + g
  <2>1. PICK new : new = a + h + n
    OBVIOUS
  <2>2. /\ new \in Nat /\ new + h < End(m, a) /\ a + h < new
        /\ End(m, a) - new - h \in 0 .. wd - 1
    BY <1>3, <1>4, <1>6, <1>10, <2>1
  <2>3. new \in Addr
    <3>1. a % ALIGN = 0 /\ h % ALIGN = 0
      BY <1>3, <1>4, AddrIs, Units
    <3>2. (a + h) % ALIGN = 0 /\ a + h \in Nat
      BY <1>3, <3>1, SumOfMultiples
    <3>3. new % ALIGN = 0
      BY <2>1, <3>2, SumOfMultiples
    <3>4. KHEAP_START <= new /\ new <= KHEAP_END
      BY <1>3, <1>4, <1>7, <2>1, <2>2, Units
    <3> QED
      BY <2>2, <3>3, <3>4, InAddr
  <2>4. m[a].next # a /\ m[a].next # new
    BY <1>3, <1>4, <2>2, <2>3, AddrIs DEF Follows
  <2>5. PICK v : v = split(m, a, n)
    OBVIOUS
  <2>6. n \in 0 .. WORD - 1
    BY <1>4, <1>8
  <2>7. Cut(m, v, a, new)
    BY <1>3, <1>4, <2>1, <2>2, <2>3, <2>4, <2>5, <2>6, SplitCuts
  <2>8. /\ Shape(v, e) /\ Own(v, own, "take", nd, bk) /\ a \in Free(v)
        /\ v[a].size = new - a - HDR
        /\ \A y \in Free(v) : v[y].next \in Free(v) => y = a /\ v[y].next = new
    BY <1>4, <2>2, <2>3, <2>7, CutGood
  <2>9. v[a].size = n
    BY <1>3, <1>4, <2>1, <2>8
  <2>10. w = Mark(v, a, FALSE)
    BY <1>5, <1>9, <1>10, <2>5
  <2> QED
    BY <2>8, <2>9, <2>10, HandOut
<1>11. CASE ~(z >= n + h + g)
  <2>1. w = Mark(m, a, FALSE)
    BY <1>5, <1>9, <1>11
  <2>2. \A y \in Free(m) : m[y].next \in Free(m) => y = a
    BY <1>1 DEF Coal
  <2>3. m[a].size >= b.size
    BY <1>5
  <2> QED
    BY <1>1, <2>1, <2>2, <2>3, HandOut
<1> QED
  BY <1>10, <1>11

Calm == {"idle", "search", "take", "expand"}

\* As long as nothing is freed it does not matter where a caller is.
LEMMA GoodStays ==
    ASSUME NEW m, NEW e, NEW own, NEW at \in Calm, NEW nd, NEW bk, Good(m, e, own, at, nd, bk),
           NEW at2 \in Calm, NEW nd2, NEW bk2
    PROVE  Good(m, e, own, at2, nd2, bk2)
<1>1. Shape(m, e) /\ Coal(m, at, nd) /\ Own(m, own, at, nd, bk)
  BY DEF Good
<1>2. Coal(m, at2, nd2)
  BY <1>1 DEF Coal, Calm
<1>3. Used(m, at2, nd2, bk2) = Used(m, at, nd, bk)
  <2>1. at # "mark" /\ at2 # "mark"
    BY DEF Calm
  <2> QED
    BY <2>1 DEF InFlight, Used
<1>4. Own(m, own, at2, nd2, bk2)
  BY <1>1, <1>3, OwnStays
<1> QED
  BY <1>1, <1>2, <1>4 DEF Good

\* kmalloc grows the heap, and frees what it got.
LEMMA ExpandGood ==
    ASSUME NEW m, NEW e, NEW own, NEW nd, NEW bk, Good(m, e, own, "expand", nd, bk),
           NEW a \in Heads(m), m[a].next = nullptr,
           NEW new_end \in Addr, e + HDR < new_end, NEW w, Grown(m, w, a, e, new_end)
    PROVE  Good(w, new_end, own, "mark", e, "search") /\ e \in Free(w)
<1>1. Shape(m, e) /\ Coal(m, "expand", nd) /\ Own(m, own, "expand", nd, bk)
  BY DEF Good
<1>2. /\ Shape(w, new_end) /\ Heads(w) = Heads(m) \cup {e} /\ e \notin Heads(m)
      /\ w[e].next = nullptr
  BY <1>1, GrowShape
<1>3. Heads(m) \subseteq Addr /\ e \in Addr /\ nullptr \notin Addr
  BY <1>1, AddrIs DEF Heads, Shape
<1>4. \A y \in Addr :
        /\ w[y].size = IF y = e THEN new_end - e - HDR ELSE m[y].size
        /\ w[y].free = IF y = e THEN TRUE ELSE m[y].free
        /\ w[y].next = IF y = e THEN nullptr ELSE IF y = a THEN e ELSE m[y].next
  BY DEF Grown
<1>5. Free(w) = Free(m) \cup {e} /\ e \notin Free(m)
  BY <1>2, <1>3, <1>4 DEF Free
<1>6. ASSUME NEW y \in Free(w), w[y].next \in Free(w)
      PROVE  e \in {y, w[y].next}
  <2>1. CASE y = e
    BY <2>1
  <2>2. CASE y # e /\ y = a
    BY <1>3, <1>4, <2>2
  <2>3. CASE y # e /\ y # a
    <3>1. y \in Free(m) /\ y \in Addr
      BY <1>3, <1>5, <2>3 DEF Free
    <3>2. w[y].next = m[y].next
      BY <1>4, <2>3, <3>1
    <3>3. m[y].next \notin Free(m)
      BY <1>1, <3>1 DEF Coal
    <3> QED
      BY <1>5, <1>6, <3>2, <3>3
  <2> QED
    BY <2>1, <2>2, <2>3
<1>7. Coal(w, "mark", e)
  BY <1>6 DEF Coal
<1>8. Own(w, own, "mark", e, "search")
  <2>1. Used(w, "mark", e, "search") = Used(m, "expand", nd, bk)
    BY <1>2, <1>5 DEF Used, InFlight
  <2>2. \A y \in Used(m, "expand", nd, bk) : w[y].size = m[y].size
    BY <1>2, <1>3, <1>4 DEF Used
  <2> QED
    BY <1>1, <2>1, <2>2, OwnStays
<1> QED
  BY <1>2, <1>5, <1>7, <1>8 DEF Good

\* kfree is called: its block has no owner any more.
LEMMA FreeGood ==
    ASSUME NEW m, NEW e, NEW own, NEW nd, NEW bk, Good(m, e, own, "idle", nd, bk),
           NEW b \in own, NEW a, a = b.ptr - HDR
    PROVE  Good(m, e, own \ {b}, "mark", a, "idle") /\ a \in Heads(m) /\ a \notin Free(m)
<1>1. Shape(m, e) /\ Coal(m, "idle", nd) /\ Own(m, own, "idle", nd, bk)
  BY DEF Good
<1>2. /\ Used(m, "idle", nd, bk) = Heads(m) \ Free(m)
      /\ Used(m, "mark", a, "idle") = (Heads(m) \ Free(m)) \ {a}
  BY DEF Used, InFlight
<1>3. HDR \in Nat /\ a \in Heads(m) \ Free(m) /\ b.ptr \in Nat /\ b.ptr = a + HDR
  BY <1>1, <1>2, Units DEF Own
<1>4. Coal(m, "mark", a)
  BY <1>1 DEF Coal
<1>5. ASSUME NEW d \in own \ {b}
      PROVE  /\ d.ptr \in Nat /\ d.ptr - HDR \in Used(m, "mark", a, "idle")
             /\ m[d.ptr - HDR].size >= d.size
  <2>1. d.ptr \in Nat /\ d.ptr - HDR \in Heads(m) \ Free(m) /\ m[d.ptr - HDR].size >= d.size
    BY <1>1, <1>2 DEF Own
  <2>2. d.ptr # b.ptr
    BY <1>1 DEF Own
  <2>3. d.ptr - HDR # a
    BY <1>3, <2>1, <2>2
  <2> QED
    BY <1>2, <2>1, <2>3
<1>6. ASSUME NEW y \in Used(m, "mark", a, "idle")
      PROVE  \E d \in own \ {b} : d.ptr = y + HDR
  <2>1. y \in Used(m, "idle", nd, bk) /\ y # a /\ y \in Nat
    BY <1>1, <1>2, Block
  <2>2. PICK d \in own : d.ptr = y + HDR
    BY <1>1, <2>1 DEF Own
  <2>3. a \in Nat
    BY <1>1, <1>3, Block
  <2>4. d # b
    BY <1>3, <2>1, <2>2, <2>3
  <2> QED
    BY <2>2, <2>4
<1>7. \A d, f \in own \ {b} : d.ptr = f.ptr => d = f
  BY <1>1 DEF Own
<1> QED
  BY <1>1, <1>3, <1>4, <1>5, <1>6, <1>7 DEF Good, Own

\* The block is marked free.
LEMMA MarkGood ==
    ASSUME NEW m, NEW e, NEW own, NEW nd, NEW bk, Good(m, e, own, "mark", nd, bk),
           nd \in Heads(m), bk \in {"idle", "search"}, bk = "search" <=> nd \in Free(m),
           NEW w, w = Mark(m, nd, TRUE)
    PROVE  Good(w, e, own, "merge_next", nd, bk) /\ nd \in Free(w)
<1>1. Shape(m, e) /\ Coal(m, "mark", nd) /\ Own(m, own, "mark", nd, bk)
  BY DEF Good
<1>2. Heads(m) \subseteq Addr /\ m \in [Addr -> Node] /\ nd \in Addr
  BY <1>1 DEF Heads, Shape
<1>3. Marks(m, w, nd, TRUE)
  BY <1>2, Marked
<1>4. SameLinks(m, w) /\ \A y \in Addr : w[y].free = IF y = nd THEN TRUE ELSE m[y].free
  BY <1>3 DEF Marks
<1>5. Shape(w, e) /\ Heads(w) = Heads(m)
  BY <1>1, <1>4, SameLinksShape
<1>6. Free(w) = Free(m) \cup {nd}
  BY <1>2, <1>4, <1>5 DEF Free
<1>7. \A y \in Addr : w[y].next = m[y].next /\ w[y].size = m[y].size
  BY <1>4 DEF SameLinks
<1>8. Coal(w, "merge_next", nd)
  <2>1. \A y \in Free(m) : m[y].next \in Free(m) => nd \in {y, m[y].next}
    BY <1>1 DEF Coal
  <2>2. \A y \in Free(w) : y \in Heads(m) /\ w[y].next = m[y].next
    BY <1>2, <1>5, <1>7 DEF Free
  <2> QED
    BY <1>6, <2>1, <2>2 DEF Coal
<1>9. Own(w, own, "merge_next", nd, bk)
  <2>1. Used(w, "merge_next", nd, bk) = Used(m, "mark", nd, bk)
    BY <1>5, <1>6 DEF Used, InFlight
  <2>2. \A y \in Used(m, "mark", nd, bk) : w[y].size = m[y].size
    BY <1>2, <1>7 DEF Used
  <2> QED
    BY <1>1, <2>1, <2>2, OwnStays
<1> QED
  BY <1>5, <1>6, <1>8, <1>9 DEF Good
----------------------------------------------------------------------------
(* kfree's two merges *)

\* Only the block that is about to be marked has no owner.
LEMMA OwnUnmarked ==
    ASSUME NEW m, NEW own, NEW at, NEW nd, NEW bk, at # "mark"
    PROVE  Own(m, own, at, nd, bk) <=> Own(m, own, "idle", nullptr, "idle")
<1>1. Used(m, at, nd, bk) = Used(m, "idle", nullptr, "idle")
  BY DEF Used, InFlight
<1> QED
  BY <1>1 DEF Own

\* A free block swallows the free block behind it.
LEMMA SwallowGood ==
    ASSUME NEW m, NEW e, NEW own, Shape(m, e), Own(m, own, "idle", nullptr, "idle"),
           NEW a \in Free(m), NEW n \in Free(m), n = m[a].next,
           NEW w, w = swallow(m, a, n)
    PROVE  /\ Shape(w, e) /\ Own(w, own, "idle", nullptr, "idle")
           /\ Free(w) = Free(m) \ {n} /\ a # n
           /\ w[a].next = m[n].next /\ m[n].next # n /\ m[n].next # a
           /\ \A y \in Heads(m) \ {a, n} : w[y].next = m[y].next
<1>1. a \in Heads(m) /\ n \in Heads(m)
  BY DEF Free
<1>2. /\ a \in Addr /\ a \in Nat /\ n \in Addr /\ n \in Nat /\ n # nullptr /\ a # nullptr
      /\ End(m, a) \in Nat /\ End(m, n) \in Nat /\ a < End(m, a) /\ n < End(m, n)
      /\ End(m, n) <= e /\ e \in Nat /\ e <= WORD /\ Follows(m, e, a) /\ Follows(m, e, n)
  BY <1>1, Block
<1>3. n = End(m, a) /\ a # n /\ End(m, n) <= WORD
  BY <1>2, Units DEF Follows
<1>4. m[n].next # a /\ m[n].next # n
  BY <1>2, <1>3 DEF Follows
<1>5. m \in [Addr -> Node] /\ Heads(m) \subseteq Addr
  BY DEF Shape, Heads
<1>6. Joined(m, w, a, n)
  <2>1. Joined(m, swallow(m, a, n), a, n)
    BY <1>2, <1>3, <1>4, <1>5, SwallowJoins
  <2> QED
    BY <2>1
<1>7. Shape(w, e) /\ Heads(w) = Heads(m) \ {n} /\ w[a].next = m[n].next
  BY <1>1, <1>6, JoinShape
<1>8. \A y \in Addr :
         /\ w[y].size = IF y = a THEN End(m, n) - a - HDR ELSE IF y = n THEN 0 ELSE m[y].size
         /\ w[y].free = IF y = n THEN FALSE ELSE m[y].free
         /\ w[y].next = IF y = a THEN m[n].next ELSE IF y = n THEN nullptr ELSE m[y].next
  BY <1>6 DEF Joined
<1>9. Free(w) = Free(m) \ {n}
  BY <1>5, <1>7, <1>8 DEF Free
<1>10. \A y \in Heads(m) \ {a, n} : w[y].next = m[y].next
  BY <1>5, <1>8
<1>11. Own(w, own, "idle", nullptr, "idle")
  <2>1. Used(w, "idle", nullptr, "idle") = Used(m, "idle", nullptr, "idle")
    BY <1>7, <1>9 DEF Used, InFlight
  <2>2. \A y \in Used(m, "idle", nullptr, "idle") : w[y].size = m[y].size
    BY <1>5, <1>8 DEF Used
  <2> QED
    BY <2>1, <2>2, OwnStays
<1> QED
  BY <1>3, <1>4, <1>7, <1>9, <1>10, <1>11

LEMMA MergeNextGood ==
    ASSUME NEW m, NEW e, NEW own, NEW nd, NEW bk, Good(m, e, own, "merge_next", nd, bk),
           nd \in Free(m), NEW n, n = m[nd].next,
           NEW w, w = IF n # nullptr /\ m[n].free THEN swallow(m, nd, n) ELSE m
    PROVE  Good(w, e, own, "merge_prev", nd, bk) /\ nd \in Free(w)
<1>1. Shape(m, e) /\ Coal(m, "merge_next", nd) /\ Own(m, own, "idle", nullptr, "idle")
  <2>1. "merge_next" # "mark"
    OBVIOUS
  <2> QED
    BY <2>1, OwnUnmarked DEF Good
<1>2. \A y \in Free(m) : m[y].next \in Free(m) => nd \in {y, m[y].next}
  BY <1>1 DEF Coal
<1>3. nd \in Heads(m) /\ (n = nullptr \/ n \in Heads(m))
  BY <1>1, Block DEF Free
<1>4. n \in Free(m) <=> n # nullptr /\ m[n].free
  BY <1>1, <1>3, Block DEF Free
<1>5. CASE n \in Free(m)
  <2>1. w = swallow(m, nd, n)
    BY <1>4, <1>5
  <2>2. /\ Shape(w, e) /\ Own(w, own, "idle", nullptr, "idle")
        /\ Free(w) = Free(m) \ {n} /\ nd # n
        /\ w[nd].next = m[n].next /\ m[n].next # n /\ m[n].next # nd
        /\ \A y \in Heads(m) \ {nd, n} : w[y].next = m[y].next
    BY <1>1, <1>5, <2>1, SwallowGood
  <2>3. ASSUME NEW y \in Free(w), w[y].next \in Free(w)
        PROVE  nd = w[y].next
    <3>1. CASE y = nd
      BY <1>2, <1>5, <2>2, <2>3, <3>1
    <3>2. CASE y # nd
      <4>1. y \in Free(m) /\ y \in Heads(m) \ {nd, n}
        BY <2>2, <3>2 DEF Free
      <4> QED
        BY <1>2, <2>2, <2>3, <3>2, <4>1
    <3> QED
      BY <3>1, <3>2
  <2>4. Coal(w, "merge_prev", nd)
    BY <2>3 DEF Coal
  <2>5. nd \in Free(w)
    BY <2>2
  <2>6. Own(w, own, "merge_prev", nd, bk)
    <3>1. "merge_prev" # "mark"
      OBVIOUS
    <3> QED
      BY <2>2, <3>1, OwnUnmarked
  <2> QED
    BY <2>2, <2>4, <2>5, <2>6 DEF Good
<1>6. CASE n \notin Free(m)
  <2>1. w = m
    BY <1>4, <1>6
  <2>2. Coal(m, "merge_prev", nd)
    BY <1>2, <1>6 DEF Coal
  <2>3. Own(m, own, "merge_prev", nd, bk)
    <3>1. "merge_prev" # "mark"
      OBVIOUS
    <3> QED
      BY <1>1, <3>1, OwnUnmarked
  <2> QED
    BY <1>1, <2>1, <2>2, <2>3 DEF Good
<1> QED
  BY <1>5, <1>6

LEMMA MergePrevGood ==
    ASSUME NEW m, NEW e, NEW own, NEW nd, NEW bk, Good(m, e, own, "merge_prev", nd, bk),
           nd \in Free(m), NEW p, p = m[nd].prev,
           NEW w, w = IF p # nullptr /\ m[p].free THEN swallow(m, p, nd) ELSE m
    PROVE  Good(w, e, own, "idle", nullptr, "idle")
<1>1. Shape(m, e) /\ Coal(m, "merge_prev", nd) /\ Own(m, own, "idle", nullptr, "idle")
  <2>1. "merge_prev" # "mark"
    OBVIOUS
  <2> QED
    BY <2>1, OwnUnmarked DEF Good
<1>2. \A y \in Free(m) : m[y].next \in Free(m) => nd = m[y].next
  BY <1>1 DEF Coal
<1>3. /\ nd \in Heads(m) /\ nd \in Nat /\ End(m, nd) \in Nat /\ nd < End(m, nd)
      /\ End(m, nd) <= e /\ e \in Nat /\ Preceded(m, nd)
  BY <1>1, Block DEF Free
<1>4. p = nullptr \/ (p \in Heads(m) /\ End(m, p) = nd)
  BY <1>3 DEF Preceded
<1>5. p \in Free(m) <=> p # nullptr /\ m[p].free
  BY <1>1, <1>4, Block DEF Free
<1>6. CASE p \in Free(m)
  <2>1. w = swallow(m, p, nd)
    BY <1>5, <1>6
  <2>2. p \in Heads(m) /\ nd = m[p].next
    <3>1. p \in Heads(m) /\ End(m, p) = nd
      BY <1>4, <1>5, <1>6
    <3>2. Follows(m, e, p)
      BY <1>1, <3>1, Block
    <3> QED
      BY <1>3, <3>1, <3>2 DEF Follows
  <2>3. /\ Shape(w, e) /\ Own(w, own, "idle", nullptr, "idle") /\ Free(w) = Free(m) \ {nd}
        /\ p # nd /\ w[p].next = m[nd].next /\ m[nd].next # nd /\ m[nd].next # p
        /\ \A y \in Heads(m) \ {p, nd} : w[y].next = m[y].next
    <3>1. nd = m[p].next /\ nd \in Free(m) /\ Shape(m, e) /\ Own(m, own, "idle", nullptr, "idle")
      BY <1>1, <2>2
    <3> QED
      BY ONLY <1>6, <2>1, <3>1, SwallowGood
  <2>4. ASSUME NEW y \in Free(w), w[y].next \in Free(w)
        PROVE  FALSE
    <3>1. CASE y = p
      BY <1>2, <2>3, <2>4, <3>1
    <3>2. CASE y # p
      <4>1. y \in Free(m) /\ y \in Heads(m) \ {p, nd}
        BY <2>3, <3>2 DEF Free
      <4> QED
        BY <1>2, <2>3, <2>4, <4>1
    <3> QED
      BY <3>1, <3>2
  <2>5. Coal(w, "idle", nullptr)
    BY <2>4 DEF Coal
  <2> QED
    BY <2>3, <2>5 DEF Good
<1>7. CASE p \notin Free(m)
  <2>1. w = m
    BY <1>5, <1>7
  <2>2. ASSUME NEW y \in Free(m), m[y].next \in Free(m)
        PROVE  FALSE
    <3>1. nd = m[y].next /\ y \in Heads(m)
      BY <1>2, <2>2 DEF Free
    <3>2. Follows(m, e, y) /\ nd # nullptr
      BY <1>1, <1>3, <3>1, Block
    <3>3. m[nd].prev = y
      BY <3>1, <3>2 DEF Follows
    <3> QED
      BY <1>7, <2>2, <3>3
  <2>3. Coal(m, "idle", nullptr)
    BY <2>2 DEF Coal
  <2> QED
    BY <1>1, <2>1, <2>3 DEF Good
<1> QED
  BY <1>6, <1>7
----------------------------------------------------------------------------
(* The inductive invariant *)

\* No caller is preempted inside kmalloc or kfree.
Serial == \A c, d \in Callers : c # d => d \in Atomic

\* Nobody asks for so much that the rounded size wraps to zero.
Unwrapped == \A n \in Sizes : n + ALIGN - 1 < WORD

Places == {"idle", "search", "take", "expand", "panic", "mark", "merge_next", "merge_prev"}

SharedTyped ==
    /\ booted \in BOOLEAN
    /\ heap_head \in {nullptr, KHEAP_START}
    /\ heap_current_end \in Addr
    /\ mem \in [Addr -> Node]
    /\ frames \in 0 .. FRAMES
    /\ heap_current_end + frames * PAGE_SIZE = KHEAP_END
    /\ \A b \in owned : b.ptr \in Addr

LocalsTyped ==
    /\ pc \in [Callers -> Places]
    /\ size \in [Callers -> Nat] /\ req \in [Callers -> Nat]
    /\ curr \in [Callers -> Addr \cup {nullptr}] /\ node \in [Callers -> Addr \cup {nullptr}]
    /\ back \in [Callers -> {"idle", "search"}]

Typed == SharedTyped /\ LocalsTyped

Alone == \A c, d \in Callers : pc[c] # "idle" /\ pc[d] # "idle" => c = d

AllIdle == \A c \in Callers : pc[c] = "idle"

\* The heap before kheap_init, and on a machine without a memory map.
Empty ==
    /\ mem = [a \in Addr |-> Junk] /\ owned = {}
    /\ heap_current_end = KHEAP_START /\ frames = FRAMES
    /\ \A c \in Callers : pc[c] = "idle" \/ (pc[c] = "search" /\ curr[c] = nullptr)

\* c is in kmalloc, or in the kfree that kmalloc calls.
Allocates(c) == pc[c] \in {"search", "take", "expand"} \/ back[c] = "search"

\* What a caller that is inside knows.
Knows(c) ==
    /\ Allocates(c) => size[c] \in Nat \ {0} /\ size[c] % ALIGN = 0 /\ size[c] >= req[c]
    /\ pc[c] = "search" => curr[c] \in Heads(mem) \cup {nullptr}
    /\ pc[c] = "take" => curr[c] \in Free(mem) /\ mem[curr[c]].size >= size[c]
    /\ pc[c] = "expand" => curr[c] \in Heads(mem) /\ mem[curr[c]].next = nullptr
    /\ pc[c] = "mark" => node[c] \in Heads(mem) /\ (back[c] = "search" <=> node[c] \in Free(mem))
    /\ pc[c] \in {"merge_next", "merge_prev"} => node[c] \in Free(mem)

GoodAt(c) == Good(mem, heap_current_end, owned, pc[c], node[c], back[c]) /\ Knows(c)

Consistent ==
    /\ AllIdle => Good(mem, heap_current_end, owned, "idle", nullptr, "idle")
    /\ \A c \in Callers : pc[c] \notin {"idle", "panic"} => GoodAt(c)

IInv ==
    /\ Typed
    /\ Alone
    /\ ~booted => heap_head = nullptr /\ AllIdle
    /\ heap_head = nullptr => Empty
    /\ heap_head # nullptr => Consistent

LEMMA OthersIdle ==
    ASSUME Serial, NEW c \in Callers, Runs(c)
    PROVE  \A d \in Callers \ {c} : pc[d] = "idle"
BY DEF Serial, Runs

LEMMA StartIsNotNull ==
    KHEAP_START # nullptr /\ nullptr \notin Addr
BY Units, AddrIs DEF nullptr

\* It is enough to look at the caller that has taken the step.
LEMMA Concludes ==
    ASSUME Serial, NEW c \in Callers, Runs(c), IInv, booted, UNCHANGED <<booted, heap_head>>,
           heap_head # nullptr, Typed', \A d \in Callers \ {c} : pc'[d] = pc[d],
           pc'[c] = "idle" => Good(mem', heap_current_end', owned', "idle", nullptr, "idle"),
           pc'[c] \notin {"idle", "panic"} => GoodAt(c)'
    PROVE  IInv'
<1>1. \A d \in Callers \ {c} : pc'[d] = "idle"
  BY OthersIdle
<1>2. Alone'
  BY <1>1 DEF Alone
<1>3. AllIdle' => Good(mem', heap_current_end', owned', "idle", nullptr, "idle")
  BY DEF AllIdle
<1>4. ASSUME NEW d \in Callers, pc'[d] \notin {"idle", "panic"}
      PROVE  GoodAt(d)'
  <2>1. d = c
    BY <1>1, <1>4
  <2> QED
    BY <1>4, <2>1
<1>5. Consistent'
  BY <1>3, <1>4 DEF Consistent
<1> QED
  BY <1>2, <1>5 DEF IInv

\* What is known of the caller that takes a step.
LEMMA Acts ==
    ASSUME IInv, NEW c \in Callers, Runs(c), Serial, heap_head # nullptr
    PROVE  /\ pc[c] = "idle" => Good(mem, heap_current_end, owned, "idle", nullptr, "idle")
           /\ pc[c] \notin {"idle", "panic"} => GoodAt(c)
<1>1. pc[c] = "idle" => AllIdle
  BY OthersIdle DEF AllIdle
<1> QED
  BY <1>1 DEF IInv, Consistent

LEMMA Returned ==
    ASSUME NEW c \in Callers, LocalsTyped, Return(c)
    PROVE  /\ LocalsTyped' /\ pc'[c] = "idle" /\ \A d \in Callers \ {c} : pc'[d] = pc[d]
<1>1. 0 \in Nat /\ nullptr \in Addr \cup {nullptr} /\ "idle" \in Places
  BY DEF Places
<1> QED
  BY <1>1 DEF LocalsTyped, Return

LEMMA InitIInv ==
    Init => IInv
<1> SUFFICES ASSUME Init
             PROVE  IInv
  OBVIOUS
<1>1. Junk \in Node
  <2>1. 0 \in 0 .. WORD - 1
    BY Units
  <2> QED
    BY <2>1 DEF Junk, Node
<1>2. KHEAP_START \in Addr /\ KHEAP_START + FRAMES * PAGE_SIZE = KHEAP_END
  BY Units, InAddr DEF KHEAP_END
<1>3. SharedTyped
  <2>1. FRAMES \in 0 .. FRAMES
    BY Units
  <2>2. mem \in [Addr -> Node]
    BY <1>1 DEF Init
  <2> QED
    BY <1>2, <2>1, <2>2 DEF Init, SharedTyped
<1>4. LocalsTyped
  BY DEF Init, LocalsTyped, All, Places
<1>5. AllIdle /\ Alone /\ Empty
  BY DEF Init, AllIdle, Alone, Empty, All
<1> QED
  BY <1>3, <1>4, <1>5 DEF IInv, Typed, Init

LEMMA KheapInitStep ==
    ASSUME IInv, kheap_init
    PROVE  IInv'
<1>1. heap_head = nullptr /\ AllIdle /\ Empty /\ Typed
  BY DEF IInv, kheap_init
<1>2. mem' = Fresh /\ owned' = {} /\ heap_current_end' = KHEAP_START + KHEAP_INITIAL_SIZE
  BY <1>1 DEF kheap_init, Empty, Fresh
<1>3. Good(mem', heap_current_end', owned', "idle", nullptr, "idle")
  <2>1. Good(Fresh, KHEAP_START + KHEAP_INITIAL_SIZE, {}, "idle", nullptr, "idle")
    BY FreshGood
  <2> QED
    BY <1>2, <2>1
<1>4. Shape(mem', heap_current_end')
  BY <1>3 DEF Good
<1>5. frames' \in 0 .. FRAMES /\ heap_current_end' + frames' * PAGE_SIZE = KHEAP_END
  <2>1. PICK p \in Nat \ {0}, i \in Nat \ {0}, f \in Nat, s \in Nat :
           p = PAGE_SIZE /\ i = KHEAP_INITIAL_SIZE /\ f = FRAMES /\ s = KHEAP_START
    BY Units
  <2>2. PICK q \in Nat : q = i \div p /\ i = p * q
    <3>1. i % p = 0
      BY <2>1, UnitAssumption
    <3>2. i = p * (i \div p) + (i % p) /\ i \div p \in Nat
      BY Division
    <3>3. PICK q \in Nat : q = i \div p
      BY <3>2
    <3> QED
      BY <3>1, <3>2, <3>3
  <2>3. frames' = f - q
    BY <1>1, <2>1, <2>2 DEF kheap_init, Empty
  <2>4. p * q <= f * p
    BY <2>1, <2>2, SpanAssumption
  <2>5. q <= f
    BY <2>4
  <2>6. (f - q) * p = f * p - p * q
    OBVIOUS
  <2>7. frames' * PAGE_SIZE = f * p - i /\ f * p \in Nat
    BY <2>1, <2>2, <2>3, <2>6
  <2>8. KHEAP_END = s + f * p /\ heap_current_end' = s + i
    BY <1>2, <2>1 DEF KHEAP_END
  <2>9. heap_current_end' + frames' * PAGE_SIZE = KHEAP_END
    BY <2>7, <2>8
  <2> QED
    BY <2>1, <2>3, <2>5, <2>9
<1>6. Typed'
  <2>1. SharedTyped'
    BY <1>1, <1>2, <1>4, <1>5 DEF Typed, SharedTyped, kheap_init, Shape
  <2>2. LocalsTyped'
    BY <1>1 DEF Typed, LocalsTyped, kheap_init, locals
  <2> QED
    BY <2>1, <2>2 DEF Typed
<1>7. AllIdle' /\ Alone'
  BY <1>1 DEF AllIdle, Alone, kheap_init
<1>8. Consistent'
  BY <1>3, <1>7 DEF Consistent, AllIdle
<1> QED
  BY <1>6, <1>7, <1>8, StartIsNotNull DEF IInv, kheap_init

LEMMA NoMemoryMapStep ==
    ASSUME IInv, no_memory_map
    PROVE  IInv'
<1>1. heap_head = nullptr /\ AllIdle /\ Empty /\ Typed
  BY DEF IInv, no_memory_map
<1>2. Typed'
  BY <1>1 DEF Typed, SharedTyped, LocalsTyped, no_memory_map, locals
<1>3. Alone' /\ Empty' /\ heap_head' = nullptr /\ booted'
  BY <1>1 DEF AllIdle, Alone, Empty, no_memory_map, locals
<1> QED
  BY <1>2, <1>3 DEF IInv

LEMMA KmallocStep ==
    ASSUME Serial, Unwrapped, IInv, NEW c \in Callers, NEW n \in Sizes, kmalloc(c, n)
    PROVE  IInv'
<1>1. /\ booted /\ pc[c] = "idle" /\ Runs(c) /\ Typed
      /\ UNCHANGED <<booted, heap_head, heap_current_end, mem, frames, node, back, owned>>
  BY DEF kmalloc, At, IInv
<1>2. LocalsTyped
  BY <1>1 DEF Typed
<1>3. SharedTyped'
  BY <1>1 DEF Typed, SharedTyped
<1>4. CASE n = 0
  <2>1. UNCHANGED <<pc, size, curr, req>>
    BY <1>4 DEF kmalloc
  <2> QED
    BY <1>1, <2>1 DEF IInv, Typed, SharedTyped, LocalsTyped, Alone, AllIdle, Empty, Consistent,
                      GoodAt, Knows, Allocates
<1>5. CASE n # 0
  <2>1. /\ size' = [size EXCEPT ![c] = aligned(n)] /\ req' = [req EXCEPT ![c] = n]
        /\ curr' = [curr EXCEPT ![c] = heap_head] /\ pc' = [pc EXCEPT ![c] = "search"]
    BY <1>5 DEF kmalloc
  <2>2. n \in Nat \ {0}
    BY <1>5, SpanAssumption, Units
  <2>3. n + ALIGN - 1 < WORD
    BY DEF Unwrapped
  <2>4. aligned(n) \in Nat /\ aligned(n) >= n /\ aligned(n) % ALIGN = 0
    BY <2>2, <2>3, Rounded
  <2>5. aligned(n) # 0
    BY <2>2, <2>4
  <2>6. heap_head \in Addr \cup {nullptr}
    BY <1>1, Units, InAddr DEF Typed, SharedTyped
  <2>7. LocalsTyped'
    BY <1>1, <1>2, <2>1, <2>2, <2>4, <2>6 DEF LocalsTyped, Places
  <2>8. /\ pc'[c] = "search" /\ size'[c] = aligned(n) /\ req'[c] = n /\ curr'[c] = heap_head
        /\ \A d \in Callers \ {c} : pc'[d] = pc[d]
    BY <1>2, <2>1 DEF LocalsTyped
  <2>9. CASE heap_head = nullptr
    <3>1. Empty
      BY <2>9 DEF IInv
    <3>2. \A d \in Callers \ {c} : pc'[d] = "idle"
      BY <1>1, <2>8, OthersIdle
    <3>3. Empty' /\ Alone'
      BY <1>1, <2>8, <2>9, <3>1, <3>2 DEF Empty, Alone
    <3> QED
      BY <1>1, <1>3, <2>7, <2>9, <3>3 DEF IInv, Typed
  <2>10. CASE heap_head # nullptr
    <3>1. Good(mem, heap_current_end, owned, "idle", nullptr, "idle")
      BY <1>1, <2>10, Acts
    <3>2. Good(mem, heap_current_end, owned, "search", node[c], back[c])
      <4>1. "idle" \in Calm /\ "search" \in Calm
        BY DEF Calm
      <4> QED
        BY <3>1, <4>1, GoodStays
    <3>3. heap_head \in Heads(mem)
      BY <1>1, <2>10, <3>1 DEF Good, Shape, Typed, SharedTyped
    <3>4. GoodAt(c)'
      <4>1. Knows(c)'
        BY <1>1, <2>2, <2>4, <2>5, <2>8, <3>3 DEF Knows
      <4>2. Good(mem', heap_current_end', owned', pc'[c], node'[c], back'[c])
        BY <1>1, <2>8, <3>2
      <4> QED
        BY <4>1, <4>2 DEF GoodAt
    <3>5. Typed'
      BY <1>3, <2>7 DEF Typed
    <3> QED
      BY <1>1, <2>8, <2>10, <3>4, <3>5, Concludes
  <2> QED
    BY <2>9, <2>10
<1> QED
  BY <1>4, <1>5

LEMMA SearchStep ==
    ASSUME Serial, IInv, NEW c \in Callers, kmalloc_search(c)
    PROVE  IInv'
<1>1. /\ booted /\ pc[c] = "search" /\ Runs(c) /\ Typed /\ LocalsTyped
      /\ UNCHANGED <<booted, heap_head, heap_current_end, mem, frames, owned>>
  BY DEF kmalloc_search, At, IInv, Typed
<1>2. SharedTyped'
  BY <1>1 DEF Typed, SharedTyped
<1>3. heap_head # nullptr =>
        /\ Good(mem, heap_current_end, owned, "search", node[c], back[c]) /\ Knows(c)
        /\ Shape(mem, heap_current_end)
  BY <1>1, Acts DEF GoodAt, Good
<1>4. CASE curr[c] = nullptr
  <2>1. Return(c)
    BY <1>4 DEF kmalloc_search
  <2>2. LocalsTyped' /\ pc'[c] = "idle" /\ \A d \in Callers \ {c} : pc'[d] = pc[d]
    BY <1>1, <2>1, Returned
  <2>3. CASE heap_head = nullptr
    <3>1. Empty
      BY <2>3 DEF IInv
    <3>2. \A d \in Callers : pc'[d] = "idle"
      BY <1>1, <2>2, OthersIdle
    <3>3. Empty' /\ Alone'
      BY <1>1, <3>1, <3>2 DEF Empty, Alone
    <3> QED
      BY <1>1, <1>2, <2>2, <2>3, <3>3 DEF IInv, Typed
  <2>4. CASE heap_head # nullptr
    <3>1. Good(mem, heap_current_end, owned, "idle", nullptr, "idle")
      <4>1. "idle" \in Calm /\ "search" \in Calm
        BY DEF Calm
      <4> QED
        BY <1>3, <2>4, <4>1, GoodStays
    <3>2. Typed'
      BY <1>2, <2>2 DEF Typed
    <3>3. pc'[c] = "idle" => Good(mem', heap_current_end', owned', "idle", nullptr, "idle")
      BY <1>1, <3>1
    <3>4. pc'[c] \notin {"idle", "panic"} => GoodAt(c)'
      BY <2>2
    <3> QED
      BY <1>1, <2>2, <2>4, <3>2, <3>3, <3>4, Concludes
  <2> QED
    BY <2>3, <2>4
<1>5. CASE curr[c] # nullptr
  <2> DEFINE next == mem[curr[c]].next
             at == IF fits(c) THEN "take" ELSE IF next = nullptr THEN "expand" ELSE "search"
  <2>1. /\ pc' = [pc EXCEPT ![c] = at]
        /\ curr' = IF at = "search" THEN [curr EXCEPT ![c] = next] ELSE curr
        /\ UNCHANGED <<size, node, back, req>>
    BY <1>5 DEF kmalloc_search
  <2>2. heap_head # nullptr
    BY <1>1, <1>5 DEF IInv, Empty
  <2>3. curr[c] \in Heads(mem)
    BY <1>1, <1>3, <1>5, <2>2 DEF Knows
  <2>4. /\ next = nullptr \/ next \in Heads(mem)
        /\ Heads(mem) \subseteq Addr
    BY <1>3, <2>2, <2>3, Block DEF Heads
  <2>5. at \in {"take", "expand", "search"} /\ at \in Places /\ at \in Calm
    BY DEF Places, Calm
  <2>6. /\ pc'[c] = at /\ \A d \in Callers \ {c} : pc'[d] = pc[d]
        /\ curr'[c] = IF at = "search" THEN next ELSE curr[c]
    BY <1>1, <2>1 DEF LocalsTyped
  <2>7. LocalsTyped'
    <3>1. next \in Addr \cup {nullptr}
      BY <2>4
    <3>2. pc' \in [Callers -> Places]
      BY <1>1, <2>1, <2>5 DEF LocalsTyped
    <3>3. curr' \in [Callers -> Addr \cup {nullptr}]
      BY <1>1, <2>1, <3>1 DEF LocalsTyped
    <3> QED
      BY <1>1, <2>1, <3>2, <3>3 DEF LocalsTyped
  <2>8. Good(mem, heap_current_end, owned, at, node[c], back[c])
    <3>1. "search" \in Calm
      BY DEF Calm
    <3> QED
      BY <1>3, <2>2, <2>5, <3>1, GoodStays
  <2>9. Knows(c)'
    <3>1. size[c] \in Nat \ {0} /\ size[c] % ALIGN = 0 /\ size[c] >= req[c]
      BY <1>1, <1>3, <2>2 DEF Knows, Allocates
    <3>2. at = "take" => curr[c] \in Free(mem) /\ mem[curr[c]].size >= size[c]
      BY <2>3 DEF fits, Free
    <3>3. at = "expand" => next = nullptr
      OBVIOUS
    <3>4. at = "search" => next \in Heads(mem)
      BY <2>4
    <3> HIDE DEF at
    <3>5. at = "expand" => mem[curr[c]].next = nullptr
      BY <3>3
    <3> HIDE DEF next
    <3> QED
      BY <1>1, <2>1, <2>3, <2>5, <2>6, <3>1, <3>2, <3>4, <3>5 DEF Knows
  <2>10. GoodAt(c)'
    <3>1. Good(mem', heap_current_end', owned', pc'[c], node'[c], back'[c])
      BY <1>1, <2>1, <2>6, <2>8
    <3> QED
      BY <2>9, <3>1 DEF GoodAt
  <2>11. Typed'
    BY <1>2, <2>7 DEF Typed
  <2>12. pc'[c] # "idle"
    BY <2>5, <2>6
  <2> QED
    BY <1>1, <2>2, <2>6, <2>10, <2>11, <2>12, Concludes
<1> QED
  BY <1>4, <1>5

LEMMA NotEmpty ==
    ASSUME IInv, NEW c \in Callers, pc[c] \notin {"idle", "search"}
    PROVE  heap_head # nullptr
BY DEF IInv, Empty

LEMMA GoodTyped ==
    ASSUME NEW m, NEW e, NEW own, NEW at, NEW nd, NEW bk, Good(m, e, own, at, nd, bk)
    PROVE  m \in [Addr -> Node] /\ e \in Addr /\ \A b \in own : b.ptr \in Addr
<1>1. Shape(m, e) /\ Own(m, own, at, nd, bk)
  BY DEF Good
<1>2. ASSUME NEW b \in own
      PROVE  b.ptr \in Addr
  <2>1. PICK a : a = b.ptr - HDR
    OBVIOUS
  <2>2. b.ptr \in Nat /\ a \in Heads(m)
    BY <1>1, <2>1 DEF Own, Used
  <2>3. a \in Addr /\ a + HDR < End(m, a) /\ End(m, a) <= e /\ e <= KHEAP_END
        /\ End(m, a) \in Nat /\ e \in Nat
    BY <1>1, <2>2, Block
  <2>4. HDR \in Nat /\ HDR % ALIGN = 0 /\ KHEAP_END \in Nat /\ KHEAP_START \in Nat
    BY Units
  <2>5. a \in Nat /\ a % ALIGN = 0 /\ KHEAP_START <= a
    BY <2>3, AddrIs
  <2>6. (a + HDR) % ALIGN = 0
    BY <2>4, <2>5, SumOfMultiples
  <2>7. b.ptr = a + HDR /\ KHEAP_START <= b.ptr /\ b.ptr <= KHEAP_END
    BY <2>1, <2>2, <2>3, <2>4, <2>5
  <2> QED
    BY <2>2, <2>6, <2>7, InAddr
<1> QED
  BY <1>1, <1>2 DEF Shape

\* The step leaves the size of the heap alone.
LEMMA SharedStays ==
    ASSUME SharedTyped, UNCHANGED <<booted, heap_head, heap_current_end, frames>>,
           NEW at, NEW nd, NEW bk, Good(mem', heap_current_end', owned', at, nd, bk)
    PROVE  SharedTyped'
<1>1. mem' \in [Addr -> Node] /\ heap_current_end' \in Addr /\ \A b \in owned' : b.ptr \in Addr
  BY GoodTyped
<1> QED
  BY <1>1 DEF SharedTyped

LEMMA TakeStep ==
    ASSUME Serial, IInv, NEW c \in Callers, kmalloc_take(c)
    PROVE  IInv'
<1>1. /\ booted /\ pc[c] = "take" /\ Runs(c) /\ Typed /\ LocalsTyped /\ SharedTyped /\ Return(c)
      /\ UNCHANGED <<booted, heap_head, heap_current_end, frames>>
  BY DEF kmalloc_take, At, IInv, Typed
<1>2. heap_head # nullptr
  BY <1>1, NotEmpty
<1>3. Good(mem, heap_current_end, owned, "take", node[c], back[c]) /\ Knows(c)
  BY <1>1, <1>2, Acts DEF GoodAt
<1>4. PICK a : a = curr[c]
  OBVIOUS
<1>5. PICK n : n = size[c]
  OBVIOUS
<1>6. a \in Free(mem) /\ mem[a].size >= n /\ n \in Nat \ {0} /\ n % ALIGN = 0 /\ n >= req[c]
      /\ req[c] \in Nat
  BY <1>1, <1>3, <1>4, <1>5 DEF Knows, Allocates, LocalsTyped
<1>7. PICK b : b = [ptr |-> a + HDR, size |-> req[c], by |-> c]
  OBVIOUS
<1>8. b.ptr = a + HDR /\ b.size \in Nat /\ n >= b.size
  BY <1>6, <1>7
<1>9. PICK w : w = Mark(IF mem[a].size >= (n + HDR + ALIGN) % WORD THEN split(mem, a, n) ELSE mem,
                        a, FALSE)
  OBVIOUS
<1>10. mem' = w /\ owned' = owned \cup {b}
  BY <1>4, <1>5, <1>7, <1>9 DEF kmalloc_take, Mark
<1>11. Good(w, heap_current_end, owned \cup {b}, "idle", nullptr, "idle")
  BY <1>3, <1>6, <1>8, <1>9, TakeGood
<1>12. Good(mem', heap_current_end', owned', "idle", nullptr, "idle")
  BY <1>1, <1>10, <1>11
<1>13. SharedTyped'
  BY <1>1, <1>12, SharedStays
<1>14. LocalsTyped' /\ pc'[c] = "idle" /\ \A d \in Callers \ {c} : pc'[d] = pc[d]
  BY <1>1, Returned
<1>15. Typed'
  BY <1>13, <1>14 DEF Typed
<1>16. pc'[c] \notin {"idle", "panic"} => GoodAt(c)'
  BY <1>14
<1> QED
  BY <1>1, <1>2, <1>12, <1>14, <1>15, <1>16, Concludes

LEMMA ExpandStep ==
    ASSUME Serial, IInv, NEW c \in Callers, kmalloc_expand(c)
    PROVE  IInv'
<1>1. /\ booted /\ pc[c] = "expand" /\ Runs(c) /\ Typed /\ LocalsTyped /\ SharedTyped
      /\ UNCHANGED <<booted, heap_head, size, curr, req, owned>>
  BY DEF kmalloc_expand, At, IInv, Typed
<1>2. heap_head # nullptr
  BY <1>1, NotEmpty
<1>3. /\ Good(mem, heap_current_end, owned, "expand", node[c], back[c]) /\ Knows(c)
      /\ Shape(mem, heap_current_end)
  BY <1>1, <1>2, Acts DEF GoodAt, Good
<1>4. PICK a : a = curr[c]
  OBVIOUS
<1>5. /\ a \in Heads(mem) /\ mem[a].next = nullptr /\ a \in Addr
      /\ size[c] \in Nat \ {0} /\ size[c] % ALIGN = 0 /\ size[c] >= req[c]
  BY <1>1, <1>3, <1>4 DEF Knows, Allocates, Heads
<1>6. PICK p \in Nat \ {0} : p = PAGE_SIZE
  BY Units
<1>7. PICK e \in Nat, f \in Nat : e = heap_current_end /\ f = frames
  BY <1>1, AddrIs, Units DEF SharedTyped
<1>8. e = heap_current_end /\ f = frames /\ p = PAGE_SIZE
  BY <1>6, <1>7
<1>9. /\ e \in Addr /\ e \in Nat /\ e % ALIGN = 0 /\ KHEAP_START <= e /\ f \in 0 .. FRAMES
      /\ f \in Nat /\ e + f * p = KHEAP_END /\ a < End(mem, a) /\ End(mem, a) <= e
      /\ a \in Nat /\ End(mem, a) \in Nat
  <2>1. e \in Addr /\ f \in 0 .. FRAMES /\ e + f * p = KHEAP_END
    BY <1>1, <1>8 DEF SharedTyped
  <2>2. a < End(mem, a) /\ End(mem, a) <= e /\ a \in Nat /\ End(mem, a) \in Nat
    BY <1>3, <1>5, <1>8, Block
  <2>3. e \in Nat /\ e % ALIGN = 0 /\ KHEAP_START <= e
    BY <2>1, AddrIs
  <2> QED
    BY <2>1, <2>2, <2>3, Units
<1>10. PICK pages_needed : pages_needed = ((size[c] + HDR + PAGE_SIZE - 1) % WORD) \div PAGE_SIZE
  OBVIOUS
<1>11. CASE pages_needed \in 1 .. f
  <2>1. PICK q \in Nat \ {0} : q = pages_needed /\ q <= f
    BY <1>9, <1>11
  <2>2. PICK new_end, l : new_end = e + q * p /\ l = q * p - HDR
    OBVIOUS
  <2>3. /\ frames' = f - q /\ heap_current_end' = new_end
        /\ mem' = Extended(mem, a, e, l)
        /\ node' = [node EXCEPT ![c] = e] /\ back' = [back EXCEPT ![c] = "search"]
        /\ pc' = [pc EXCEPT ![c] = "mark"]
    BY <1>4, <1>8, <1>10, <1>11, <2>1, <2>2 DEF kmalloc_expand, Extended
  <2>4. q * p \in Nat /\ q * p >= p /\ (f - q) * p \in Nat /\ f * p = q * p + (f - q) * p
    <3>1. PICK r \in Nat : r = f - q
      BY <1>9, <2>1
    <3>2. f * p = q * p + r * p
      BY <2>1, <3>1
    <3>3. \A x \in Nat, y \in Nat : x * y \in Nat
      OBVIOUS
    <3>4. PICK s \in Nat : q = s + 1
      BY <2>1
    <3>5. q * p = s * p + p /\ s * p \in Nat
      BY <3>3, <3>4
    <3>6. q * p \in Nat /\ r * p \in Nat
      BY <3>3
    <3> QED
      BY <3>1, <3>2, <3>5, <3>6
  <2>5. new_end \in Addr
    <3>1. new_end \in Nat /\ KHEAP_START <= new_end /\ new_end <= KHEAP_END
      BY <1>9, <2>2, <2>4, Units
    <3>2. (q * p) % ALIGN = 0
      BY <1>8, <2>1, Units, ProductOfMultiple
    <3>3. new_end % ALIGN = 0
      BY <1>9, <2>2, <2>4, <3>2, SumOfMultiples
    <3> QED
      BY <3>1, <3>3, InAddr
  <2>6. e + HDR < new_end /\ new_end = e + HDR + l /\ l \in 0 .. WORD - 1 /\ a # e
        /\ new_end \in Nat
    <3>1. HDR \in Nat /\ HDR < p /\ WORD \in Nat /\ new_end <= WORD /\ new_end \in Nat /\ e > 0
      BY <1>8, <1>9, <2>5, Units, AddrIs DEF nullptr
    <3> QED
      BY <1>9, <2>2, <2>4, <3>1
  <2>7. mem \in [Addr -> Node]
    BY <1>3 DEF Shape
  <2>8. PICK w : w = Extended(mem, a, e, l)
    OBVIOUS
  <2>9. Grown(mem, w, a, e, new_end)
    <3>1. Grown(mem, Extended(mem, a, e, l), a, e, new_end)
      BY <1>5, <1>9, <2>6, <2>7, ExpandGrows
    <3> QED
      BY <2>8, <3>1
  <2>10. Good(w, new_end, owned, "mark", e, "search") /\ e \in Free(w)
    BY <1>3, <1>5, <1>8, <2>5, <2>6, <2>9, ExpandGood
  <2>11. /\ pc'[c] = "mark" /\ node'[c] = e /\ back'[c] = "search"
         /\ \A d \in Callers \ {c} : pc'[d] = pc[d]
    BY <1>1, <2>3 DEF LocalsTyped
  <2>12. LocalsTyped'
    BY <1>1, <1>9, <2>3 DEF LocalsTyped, Places
  <2>13. Good(mem', heap_current_end', owned', pc'[c], node'[c], back'[c])
    BY <1>1, <2>3, <2>8, <2>10, <2>11
  <2>14. SharedTyped'
    <3>1. mem' \in [Addr -> Node] /\ heap_current_end' \in Addr /\ \A b \in owned' : b.ptr \in Addr
      BY <2>13, GoodTyped
    <3>2. frames' \in 0 .. FRAMES /\ new_end + (f - q) * p = KHEAP_END
      BY <1>9, <2>1, <2>2, <2>3, <2>4, Units
    <3> QED
      BY <1>1, <1>8, <2>3, <3>1, <3>2 DEF SharedTyped
  <2>15. Knows(c)'
    <3>1. e \in Heads(w) /\ mem' = w
      BY <2>3, <2>8, <2>10 DEF Free
    <3> QED
      BY <1>1, <1>5, <2>10, <2>11, <3>1 DEF Knows
  <2>16. GoodAt(c)' /\ Typed'
    BY <2>12, <2>13, <2>14, <2>15 DEF GoodAt, Typed
  <2> QED
    BY <1>1, <1>2, <2>11, <2>16, Concludes
<1>12. CASE pages_needed \notin 1 .. f
  <2>1. /\ frames' = IF pages_needed = 0 THEN f ELSE 0
        /\ heap_current_end' = e + (f - frames') * p
        /\ pc' = [pc EXCEPT ![c] = "panic"] /\ UNCHANGED <<mem, node, back>>
    BY <1>8, <1>10, <1>12 DEF kmalloc_expand
  <2>2. /\ frames' \in 0 .. FRAMES /\ heap_current_end' \in Addr
        /\ heap_current_end' + frames' * p = KHEAP_END
    <3>1. CASE pages_needed = 0
      <4>1. frames' = f /\ heap_current_end' = e
        BY <1>9, <2>1, <3>1
      <4> QED
        BY <1>9, <4>1
    <3>2. CASE pages_needed # 0
      <4>1. frames' = 0 /\ heap_current_end' = KHEAP_END
        BY <1>9, <2>1, <3>2
      <4>2. f * p \in Nat /\ (f * p) % ALIGN = 0
        BY <1>8, <1>9, Units, ProductOfMultiple
      <4>3. (e + f * p) % ALIGN = 0
        BY <1>9, <4>2, SumOfMultiples
      <4>4. KHEAP_END \in Addr
        BY <1>9, <4>2, <4>3, Units, InAddr
      <4> QED
        BY <4>1, <4>4, Units
    <3> QED
      BY <3>1, <3>2
  <2>3. SharedTyped'
    BY <1>1, <1>8, <2>1, <2>2 DEF SharedTyped
  <2>4. LocalsTyped' /\ pc'[c] = "panic" /\ \A d \in Callers \ {c} : pc'[d] = pc[d]
    BY <1>1, <2>1 DEF LocalsTyped, Places
  <2>5. Typed'
    BY <2>3, <2>4 DEF Typed
  <2> QED
    BY <1>1, <1>2, <2>4, <2>5, Concludes
<1> QED
  BY <1>11, <1>12

LEMMA KfreeStep ==
    ASSUME Serial, IInv, NEW c \in Callers, NEW b \in Held(c), kfree(c, b)
    PROVE  IInv'
<1>1. /\ booted /\ pc[c] = "idle" /\ Runs(c) /\ Typed /\ LocalsTyped /\ SharedTyped
      /\ UNCHANGED <<booted, heap_head, heap_current_end, mem, frames, size, curr, req>>
      /\ node' = [node EXCEPT ![c] = b.ptr - HDR] /\ back' = [back EXCEPT ![c] = "idle"]
      /\ pc' = [pc EXCEPT ![c] = "mark"] /\ owned' = owned \ {b}
  BY DEF kfree, At, IInv, Typed
<1>2. b \in owned
  BY DEF Held
<1>3. heap_head # nullptr
  BY <1>2 DEF IInv, Empty
<1>4. Good(mem, heap_current_end, owned, "idle", nullptr, "idle")
  BY <1>1, <1>3, Acts
<1>5. PICK a : a = b.ptr - HDR
  OBVIOUS
<1>6. Good(mem, heap_current_end, owned \ {b}, "mark", a, "idle") /\ a \in Heads(mem)
      /\ a \notin Free(mem)
  BY <1>2, <1>4, <1>5, FreeGood
<1>7. a \in Addr
  BY <1>6 DEF Heads
<1>8. LocalsTyped'
  BY <1>1, <1>5, <1>7 DEF LocalsTyped, Places
<1>9. /\ pc'[c] = "mark" /\ node'[c] = a /\ back'[c] = "idle"
      /\ \A d \in Callers \ {c} : pc'[d] = pc[d]
  BY <1>1, <1>5 DEF LocalsTyped
<1>10. SharedTyped'
  BY <1>1 DEF SharedTyped
<1>11. Good(mem', heap_current_end', owned', pc'[c], node'[c], back'[c])
  BY <1>1, <1>6, <1>9
<1>12. Knows(c)'
  BY <1>1, <1>6, <1>9 DEF Knows, Allocates
<1>13. GoodAt(c)' /\ Typed'
  BY <1>8, <1>10, <1>11, <1>12 DEF GoodAt, Typed
<1> QED
  BY <1>1, <1>3, <1>9, <1>13, Concludes

LEMMA MarkStep ==
    ASSUME Serial, IInv, NEW c \in Callers, kfree_mark(c)
    PROVE  IInv'
<1>1. /\ booted /\ pc[c] = "mark" /\ Runs(c) /\ Typed /\ LocalsTyped /\ SharedTyped
      /\ UNCHANGED <<booted, heap_head, heap_current_end, frames, size, curr, node, back, req, owned>>
      /\ pc' = [pc EXCEPT ![c] = "merge_next"]
  BY DEF kfree_mark, At, IInv, Typed, locals
<1>2. heap_head # nullptr
  BY <1>1, NotEmpty
<1>3. Good(mem, heap_current_end, owned, "mark", node[c], back[c]) /\ Knows(c)
  BY <1>1, <1>2, Acts DEF GoodAt
<1>4. PICK nd, bk : nd = node[c] /\ bk = back[c]
  OBVIOUS
<1>5. nd \in Heads(mem) /\ bk \in {"idle", "search"} /\ (bk = "search" <=> nd \in Free(mem))
  BY <1>1, <1>3, <1>4 DEF Knows, LocalsTyped
<1>6. PICK w : w = Mark(mem, nd, TRUE)
  OBVIOUS
<1>7. mem' = w
  BY <1>4, <1>6 DEF kfree_mark, Mark
<1>8. Good(w, heap_current_end, owned, "merge_next", nd, bk) /\ nd \in Free(w)
  BY <1>3, <1>4, <1>5, <1>6, MarkGood
<1>9. LocalsTyped' /\ pc'[c] = "merge_next" /\ \A d \in Callers \ {c} : pc'[d] = pc[d]
  BY <1>1 DEF LocalsTyped, Places
<1>10. Good(mem', heap_current_end', owned', pc'[c], node'[c], back'[c])
  BY <1>1, <1>4, <1>7, <1>8, <1>9
<1>11. SharedTyped'
  BY <1>1, <1>10, SharedStays
<1>12. Knows(c)'
  <2>1. Allocates(c)' => Allocates(c)
    BY <1>1, <1>9 DEF Allocates
  <2> QED
    BY <1>1, <1>3, <1>4, <1>7, <1>8, <1>9, <2>1 DEF Knows
<1>13. GoodAt(c)' /\ Typed'
  BY <1>9, <1>10, <1>11, <1>12 DEF GoodAt, Typed
<1> QED
  BY <1>1, <1>2, <1>9, <1>13, Concludes

LEMMA MergeNextStep ==
    ASSUME Serial, IInv, NEW c \in Callers, kfree_merge_next(c)
    PROVE  IInv'
<1>1. /\ booted /\ pc[c] = "merge_next" /\ Runs(c) /\ Typed /\ LocalsTyped /\ SharedTyped
      /\ UNCHANGED <<booted, heap_head, heap_current_end, frames, size, curr, node, back, req, owned>>
      /\ pc' = [pc EXCEPT ![c] = "merge_prev"]
  BY DEF kfree_merge_next, At, IInv, Typed, locals
<1>2. heap_head # nullptr
  BY <1>1, NotEmpty
<1>3. Good(mem, heap_current_end, owned, "merge_next", node[c], back[c]) /\ Knows(c)
  BY <1>1, <1>2, Acts DEF GoodAt
<1>4. PICK nd, bk : nd = node[c] /\ bk = back[c]
  OBVIOUS
<1>5. nd \in Free(mem)
  BY <1>1, <1>3, <1>4 DEF Knows
<1>6. PICK n : n = mem[nd].next
  OBVIOUS
<1>7. mem' = IF n # nullptr /\ mem[n].free THEN swallow(mem, nd, n) ELSE mem
  BY <1>4, <1>6 DEF kfree_merge_next
<1>8. PICK w : w = IF n # nullptr /\ mem[n].free THEN swallow(mem, nd, n) ELSE mem
  OBVIOUS
<1>9. Good(w, heap_current_end, owned, "merge_prev", nd, bk) /\ nd \in Free(w)
  BY <1>3, <1>4, <1>5, <1>6, <1>8, MergeNextGood
<1>10. mem' = w
  BY <1>7, <1>8
<1>11. LocalsTyped' /\ pc'[c] = "merge_prev" /\ \A d \in Callers \ {c} : pc'[d] = pc[d]
  BY <1>1 DEF LocalsTyped, Places
<1>12. Good(mem', heap_current_end', owned', pc'[c], node'[c], back'[c])
  BY <1>1, <1>4, <1>9, <1>10, <1>11
<1>13. SharedTyped'
  BY <1>1, <1>12, SharedStays
<1>14. Knows(c)'
  <2>1. Allocates(c)' => Allocates(c)
    BY <1>1, <1>11 DEF Allocates
  <2> QED
    BY <1>1, <1>3, <1>4, <1>9, <1>10, <1>11, <2>1 DEF Knows
<1>15. GoodAt(c)' /\ Typed'
  BY <1>11, <1>12, <1>13, <1>14 DEF GoodAt, Typed
<1> QED
  BY <1>1, <1>2, <1>11, <1>15, Concludes

LEMMA MergePrevStep ==
    ASSUME Serial, IInv, NEW c \in Callers, kfree_merge_prev(c)
    PROVE  IInv'
<1>1. /\ booted /\ pc[c] = "merge_prev" /\ Runs(c) /\ Typed /\ LocalsTyped /\ SharedTyped
      /\ UNCHANGED <<booted, heap_head, heap_current_end, frames, owned>>
      /\ kfree_returns(c)
  BY DEF kfree_merge_prev, At, IInv, Typed
<1>2. heap_head # nullptr
  BY <1>1, NotEmpty
<1>3. Good(mem, heap_current_end, owned, "merge_prev", node[c], back[c]) /\ Knows(c)
  BY <1>1, <1>2, Acts DEF GoodAt
<1>4. PICK nd, bk : nd = node[c] /\ bk = back[c]
  OBVIOUS
<1>5. nd \in Free(mem)
  BY <1>1, <1>3, <1>4 DEF Knows
<1>6. PICK p : p = mem[nd].prev
  OBVIOUS
<1>7. mem' = IF p # nullptr /\ mem[p].free THEN swallow(mem, p, nd) ELSE mem
  BY <1>4, <1>6 DEF kfree_merge_prev
<1>8. PICK w : w = IF p # nullptr /\ mem[p].free THEN swallow(mem, p, nd) ELSE mem
  OBVIOUS
<1>9. Good(w, heap_current_end, owned, "idle", nullptr, "idle")
  BY <1>3, <1>4, <1>5, <1>6, <1>8, MergePrevGood
<1>10. mem' = w
  BY <1>7, <1>8
<1>11. Good(mem', heap_current_end', owned', "idle", nullptr, "idle")
  BY <1>1, <1>9, <1>10
<1>12. SharedTyped'
  BY <1>1, <1>11, SharedStays
<1>13. CASE back[c] = "idle" /\ Return(c)
  <2>1. LocalsTyped' /\ pc'[c] = "idle" /\ \A d \in Callers \ {c} : pc'[d] = pc[d]
    BY <1>1, <1>13, Returned
  <2>2. Typed'
    BY <1>12, <2>1 DEF Typed
  <2>3. pc'[c] \notin {"idle", "panic"} => GoodAt(c)'
    BY <2>1
  <2> QED
    BY <1>1, <1>2, <1>11, <2>1, <2>2, <2>3, Concludes
<1>14. CASE /\ back[c] = "search"
            /\ pc' = [pc EXCEPT ![c] = "search"]
            /\ curr' = [curr EXCEPT ![c] = heap_head]
            /\ node' = [node EXCEPT ![c] = nullptr]
            /\ back' = [back EXCEPT ![c] = "idle"]
            /\ UNCHANGED <<size, req>>
  <2>1. heap_head \in Heads(w) /\ heap_head \in Addr
    BY <1>1, <1>2, <1>9 DEF Good, Shape, SharedTyped, Heads
  <2>2. LocalsTyped' /\ pc'[c] = "search" /\ curr'[c] = heap_head
        /\ \A d \in Callers \ {c} : pc'[d] = pc[d]
    BY <1>1, <1>14, <2>1 DEF LocalsTyped, Places
  <2>3. Good(mem', heap_current_end', owned', pc'[c], node'[c], back'[c])
    <3>1. "idle" \in Calm /\ "search" \in Calm
      BY DEF Calm
    <3>2. PICK m2, e2, o2, nd2, bk2 : m2 = mem' /\ e2 = heap_current_end' /\ o2 = owned'
                                      /\ nd2 = node'[c] /\ bk2 = back'[c]
      OBVIOUS
    <3>3. Good(m2, e2, o2, "idle", nullptr, "idle")
      BY <1>11, <3>2
    <3>4. Good(m2, e2, o2, "search", nd2, bk2)
      BY <3>1, <3>3, GoodStays
    <3> QED
      BY <2>2, <3>2, <3>4
  <2>4. Knows(c)'
    <3>1. size[c] \in Nat \ {0} /\ size[c] % ALIGN = 0 /\ size[c] >= req[c]
      BY <1>3, <1>14 DEF Knows, Allocates
    <3> QED
      BY <1>10, <1>14, <2>1, <2>2, <3>1 DEF Knows
  <2>5. GoodAt(c)' /\ Typed'
    BY <1>12, <2>2, <2>3, <2>4 DEF GoodAt, Typed
  <2> QED
    BY <1>1, <1>2, <2>2, <2>5, Concludes
<1> QED
  BY <1>1, <1>13, <1>14 DEF kfree_returns

LEMMA StutterStep ==
    ASSUME IInv, UNCHANGED vars
    PROVE  IInv'
<1>1. Typed'
  BY DEF vars, locals, IInv, Typed, SharedTyped, LocalsTyped
<1>2. Alone' /\ (AllIdle' <=> AllIdle)
  BY DEF vars, locals, IInv, Alone, AllIdle
<1>3. Empty => Empty'
  BY DEF vars, locals, Empty
<1>4. Consistent => Consistent'
  BY DEF vars, locals, Consistent, GoodAt, Knows, Allocates, AllIdle
<1> QED
  BY <1>1, <1>2, <1>3, <1>4 DEF IInv, vars

LEMMA StepIInv ==
    ASSUME Serial, Unwrapped, IInv, [Next]_vars
    PROVE  IInv'
<1>1. CASE kheap_init
  BY <1>1, KheapInitStep
<1>2. CASE no_memory_map
  BY <1>2, NoMemoryMapStep
<1>3. ASSUME NEW c \in Callers, NEW n \in Sizes, kmalloc(c, n)
      PROVE  IInv'
  BY <1>3, KmallocStep
<1>4. ASSUME NEW c \in Callers, NEW b \in Held(c), kfree(c, b)
      PROVE  IInv'
  BY <1>4, KfreeStep
<1>5. ASSUME NEW c \in Callers, Inside(c)
      PROVE  IInv'
  <2>1. CASE kmalloc_search(c)
    BY <2>1, SearchStep
  <2>2. CASE kmalloc_take(c)
    BY <2>2, TakeStep
  <2>3. CASE kmalloc_expand(c)
    BY <2>3, ExpandStep
  <2>4. CASE kfree_mark(c)
    BY <2>4, MarkStep
  <2>5. CASE kfree_merge_next(c)
    BY <2>5, MergeNextStep
  <2>6. CASE kfree_merge_prev(c)
    BY <2>6, MergePrevStep
  <2>7. CASE panic(c)
    BY <2>7, StutterStep DEF panic
  <2> QED
    BY <1>5, <2>1, <2>2, <2>3, <2>4, <2>5, <2>6, <2>7 DEF Inside
<1>6. CASE UNCHANGED vars
  BY <1>6, StutterStep
<1> QED
  BY <1>1, <1>2, <1>3, <1>4, <1>5, <1>6 DEF Next
----------------------------------------------------------------------------
(* The list from heap_head *)

LEMMA LeastElement ==
    ASSUME NEW T \in SUBSET Nat, T # {}
    PROVE  \E n \in T : \A m \in T : n <= m
<1> DEFINE R == {ss_ \in Nat \X Nat : ss_[1] < ss_[2]}
<1>1. IsWellFoundedOn(R, Nat)
  BY NatLessThanWellFounded DEF OpToRel
<1>2. \A n, m \in Nat : n < m => <<n, m>> \in R
  OBVIOUS
<1> HIDE DEF R
<1>3. PICK n \in T : \A m \in T : <<m, n>> \notin R
  BY <1>1, WFMin
<1>4. \A m \in T : m \in Nat /\ n \in Nat /\ ~(m < n)
  BY <1>2, <1>3
<1>5. \A m \in T : n <= m
  BY <1>4
<1> QED
  BY <1>5

\* The sets of headers that k links lead to, for k up to l.
Onward(m, s) == s \cup ({m[a].next : a \in s} \ {nullptr})
Reaches(r, m, h, l) ==
    r = [k \in 0 .. l |-> IF k = 0 THEN {h} \ {nullptr} ELSE Onward(m, r[k - 1])]

LEMMA ReachesParts ==
    ASSUME NEW l \in Nat, NEW m, NEW h, NEW f, Reaches(f, m, h, l)
    PROVE  /\ DOMAIN f = 0 .. l /\ f[0] = {h} \ {nullptr}
           /\ \A k \in 1 .. l : f[k] = Onward(m, f[k - 1])
<1>1. DOMAIN f = 0 .. l
  BY DEF Reaches
<1>2. ASSUME NEW k \in 0 .. l
      PROVE  f[k] = IF k = 0 THEN {h} \ {nullptr} ELSE Onward(m, f[k - 1])
  BY DEF Reaches
<1>3. 0 \in 0 .. l /\ \A k \in 1 .. l : k \in 0 .. l /\ k # 0
  OBVIOUS
<1>4. f[0] = {h} \ {nullptr}
  BY <1>2, <1>3
<1>5. \A k \in 1 .. l : f[k] = Onward(m, f[k - 1])
  BY <1>2, <1>3
<1> QED
  BY <1>1, <1>4, <1>5

LEMMA ReachUnique ==
    ASSUME NEW l \in Nat, NEW m, NEW h, NEW f, NEW g, Reaches(f, m, h, l), Reaches(g, m, h, l)
    PROVE  f = g
<1>1. /\ DOMAIN f = 0 .. l /\ f[0] = {h} \ {nullptr}
      /\ \A k \in 1 .. l : f[k] = Onward(m, f[k - 1])
  BY ReachesParts
<1>2. /\ DOMAIN g = 0 .. l /\ g[0] = {h} \ {nullptr}
      /\ \A k \in 1 .. l : g[k] = Onward(m, g[k - 1])
  BY ReachesParts
<1> DEFINE T == {k \in 0 .. l : f[k] # g[k]}
<1>3. T = {}
  <2>1. SUFFICES ASSUME T # {}
                 PROVE  FALSE
    OBVIOUS
  <2>2. T \in SUBSET Nat
    OBVIOUS
  <2>3. PICK k \in T : \A i \in T : k <= i
    BY <2>1, <2>2, LeastElement
  <2>4. k # 0 /\ k \in 1 .. l /\ k - 1 \in 0 .. l
    <3>1. k \in 0 .. l /\ f[k] # g[k]
      BY <2>3
    <3>2. f[0] = g[0]
      BY <1>1, <1>2
    <3> QED
      BY <3>1, <3>2
  <2>5. f[k - 1] = g[k - 1]
    <3>1. SUFFICES ASSUME f[k - 1] # g[k - 1]
                   PROVE  FALSE
      OBVIOUS
    <3>2. k - 1 \in T /\ ~(k <= k - 1)
      BY <2>4, <3>1
    <3> QED
      BY <2>3, <3>2
  <2> QED
    <3>1. f[k] = Onward(m, f[k - 1])
      BY <1>1, <2>4
    <3>2. g[k] = Onward(m, g[k - 1])
      BY <1>2, <2>4
    <3>3. f[k] # g[k]
      BY <2>3
    <3> QED
      BY <2>5, <3>1, <3>2, <3>3
<1>4. f = [k \in 0 .. l |-> f[k]] /\ g = [k \in 0 .. l |-> g[k]]
  BY DEF Reaches
<1>5. \A k \in 0 .. l : f[k] = g[k]
  BY <1>3
<1> QED
  BY <1>4, <1>5

LEMMA AddrFinite ==
    IsFiniteSet(Addr) /\ Cardinality(Addr) \in Nat
<1>1. KHEAP_START \in Int /\ KHEAP_END \in Int
  BY Units
<1>2. IsFiniteSet(KHEAP_START .. KHEAP_END)
  BY <1>1, FS_Interval
<1>3. Addr \in SUBSET (KHEAP_START .. KHEAP_END)
  BY DEF Addr
<1>4. IsFiniteSet(Addr)
  BY <1>2, <1>3, FS_Subset
<1> QED
  BY <1>4, FS_CardinalityType

LEMMA LiveReaches ==
    ASSUME NEW g, Reaches(g, mem, heap_head, Cardinality(Addr))
    PROVE  Live = g[Cardinality(Addr)]
<1> DEFINE Rec(r) == r = [k \in 0 .. Cardinality(Addr) |->
                            IF k = 0 THEN {heap_head} \ {nullptr}
                            ELSE r[k - 1] \cup ({mem[a].next : a \in r[k - 1]} \ {nullptr})]
           f == CHOOSE r : Rec(r)
<1>1. Rec(g)
  BY DEF Reaches, Onward
<1>2. Rec(f)
  BY <1>1
<1>3. Live = f[Cardinality(Addr)]
  BY DEF Live
<1> HIDE DEF f
<1>4. Reaches(f, mem, heap_head, Cardinality(Addr))
  BY <1>2 DEF Reaches, Onward
<1>5. f = g
  BY <1>4, AddrFinite, ReachUnique
<1> QED
  BY <1>3, <1>5

Below(m, a) == Cardinality({x \in Heads(m) : x < a})

LEMMA BelowIs ==
    ASSUME NEW m, NEW e, Shape(m, e), NEW a \in Heads(m)
    PROVE  /\ Below(m, a) \in Nat /\ Below(m, a) <= Cardinality(Addr)
           /\ Below(m, a) = 0 <=> a = KHEAP_START
           /\ m[a].next # nullptr => Below(m, m[a].next) = Below(m, a) + 1
<1> DEFINE B(z) == {x \in Heads(m) : x < z}
<1>1. Heads(m) \subseteq Addr /\ KHEAP_START \in Heads(m)
  BY DEF Heads, Shape
<1>2. \A z : B(z) \in SUBSET Addr
  BY <1>1
<1>3. \A z : IsFiniteSet(B(z)) /\ Cardinality(B(z)) <= Cardinality(Addr)
  BY <1>2, AddrFinite, FS_Subset
<1>4. \A z : Cardinality(B(z)) \in Nat
  BY <1>3, FS_CardinalityType
<1>5. Below(m, a) = 0 <=> a = KHEAP_START
  <2>1. Cardinality(B(a)) = 0 <=> B(a) = {}
    BY <1>3, FS_EmptySet
  <2>2. \A x \in Heads(m) : x \in Nat /\ KHEAP_START <= x
    BY <1>1, AddrIs
  <2>3. B(a) = {} <=> a = KHEAP_START
    <3>1. KHEAP_START \in Nat /\ a \in Nat /\ KHEAP_START <= a
      BY <2>2, Units
    <3>2. a # KHEAP_START => KHEAP_START \in B(a)
      BY <1>1, <3>1
    <3>3. ASSUME NEW x \in B(a)
          PROVE  a # KHEAP_START
      BY <2>2, <3>1
    <3> QED
      BY <3>2, <3>3
  <2> QED
    BY <2>1, <2>3 DEF Below
<1>6. ASSUME m[a].next # nullptr
      PROVE  Below(m, m[a].next) = Below(m, a) + 1
  <2>1. PICK n : n = m[a].next
    OBVIOUS
  <2>2. /\ a \in Nat /\ End(m, a) \in Nat /\ a < End(m, a) /\ Follows(m, e, a)
        /\ \A b \in Heads(m) : a < b => End(m, a) <= b
    BY Block
  <2>3. n = End(m, a)
    BY <1>6, <2>1, <2>2 DEF Follows
  <2>4. B(n) = B(a) \cup {a} /\ a \notin B(a)
    <3>1. \A x \in Heads(m) : x \in Nat
      BY <1>1, AddrIs
    <3>2. \A x \in Heads(m) : x < n <=> x < a \/ x = a
      BY <2>2, <2>3, <3>1
    <3>3. a \notin B(a)
      BY <2>2
    <3>4. \A x : x \in B(n) <=> x \in B(a) \cup {a}
      BY <3>2
    <3> QED
      BY <3>3, <3>4
  <2>5. Cardinality(B(n)) = Cardinality(B(a)) + 1
    <3> HIDE DEF B
    <3> QED
      BY <1>3, <2>4, FS_AddElement
  <2> QED
    BY <2>1, <2>5 DEF Below
<1> QED
  BY <1>3, <1>4, <1>5, <1>6 DEF Below

\* Between calls the list holds exactly the headers of the blocks.
LEMMA LiveIs ==
    ASSUME NEW e, Shape(mem, e), heap_head = KHEAP_START
    PROVE  Live = Heads(mem)
<1>1. PICK l \in Nat : l = Cardinality(Addr)
  BY AddrFinite
<1> DEFINE U(k) == {a \in Heads(mem) : Below(mem, a) <= k}
           g == [k \in 0 .. l |-> U(k)]
<1>2. /\ KHEAP_START \in Heads(mem) /\ KHEAP_START # nullptr
      /\ \A a \in Heads(mem) : Below(mem, a) \in Nat /\ Below(mem, a) <= l
                               /\ (Below(mem, a) = 0 <=> a = KHEAP_START)
  BY <1>1, BelowIs, StartIsNotNull DEF Shape
<1>3. U(0) = {heap_head} \ {nullptr}
  BY <1>2
<1>4. ASSUME NEW k \in 1 .. l
      PROVE  U(k) = Onward(mem, U(k - 1))
  <2>1. ASSUME NEW a \in Onward(mem, U(k - 1))
        PROVE  a \in U(k)
    <3>1. CASE a \in U(k - 1)
      BY <1>2, <3>1
    <3>2. CASE a \notin U(k - 1)
      <4>1. PICK b \in U(k - 1) : a = mem[b].next /\ a # nullptr
        BY <2>1, <3>2 DEF Onward
      <4>2. a \in Heads(mem)
        BY <4>1, Block
      <4>3. Below(mem, a) = Below(mem, b) + 1
        BY <4>1, BelowIs
      <4> QED
        BY <1>2, <4>1, <4>2, <4>3
    <3> QED
      BY <3>1, <3>2
  <2>2. ASSUME NEW a \in U(k)
        PROVE  a \in Onward(mem, U(k - 1))
    <3>1. CASE a = KHEAP_START
      <4>1. a \in U(k - 1)
        BY <1>2, <3>1
      <4> QED
        BY <4>1 DEF Onward
    <3>2. CASE a # KHEAP_START
      <4>1. PICK b : b = mem[a].prev
        OBVIOUS
      <4>2. /\ a \in Nat /\ a # nullptr /\ a < End(mem, a) /\ End(mem, a) <= e
            /\ e \in Nat /\ End(mem, a) \in Nat
            /\ b \in Heads(mem) /\ End(mem, b) = a
        BY <3>2, <4>1, Block DEF Preceded
      <4>3. a = mem[b].next
        <5>1. Follows(mem, e, b)
          BY <4>2, Block
        <5> QED
          BY <4>2, <5>1 DEF Follows
      <4>4. Below(mem, a) = Below(mem, b) + 1
        BY <4>2, <4>3, BelowIs
      <4>5. b \in U(k - 1)
        BY <1>2, <4>2, <4>4
      <4> QED
        BY <4>2, <4>3, <4>5 DEF Onward
    <3> QED
      BY <3>1, <3>2
  <2> QED
    BY <2>1, <2>2
<1> HIDE DEF U
<1>5. Reaches(g, mem, heap_head, l)
  <2>1. ASSUME NEW k \in 0 .. l
        PROVE  U(k) = IF k = 0 THEN {heap_head} \ {nullptr} ELSE Onward(mem, g[k - 1])
    <3>1. CASE k = 0
      BY <1>3, <3>1
    <3>2. CASE k # 0
      <4>1. k \in 1 .. l /\ k - 1 \in 0 .. l /\ g[k - 1] = U(k - 1)
        BY <3>2
      <4> QED
        BY <1>4, <3>2, <4>1
    <3> QED
      BY <3>1, <3>2
  <2> QED
    BY <2>1 DEF Reaches
<1>6. Live = g[l]
  <2> HIDE DEF g
  <2> QED
    BY <1>1, <1>5, LiveReaches
<1>7. U(l) = Heads(mem)
  BY <1>2 DEF U
<1> QED
  BY <1>6, <1>7

LEMMA LiveIsEmpty ==
    ASSUME heap_head = nullptr
    PROVE  Live = {}
<1>1. PICK l \in Nat : l = Cardinality(Addr)
  BY AddrFinite
<1>2. PICK g : g = [k \in 0 .. l |-> {}]
  OBVIOUS
<1>3. Reaches(g, mem, heap_head, l)
  BY <1>2 DEF Reaches, Onward
<1>4. Live = g[l]
  BY <1>1, <1>3, LiveReaches
<1> QED
  BY <1>2, <1>4
----------------------------------------------------------------------------
(* The theorems *)

LEMMA BetweenCalls ==
    ASSUME IInv, Quiet, heap_head # nullptr
    PROVE  /\ Good(mem, heap_current_end, owned, "idle", nullptr, "idle")
           /\ heap_head = KHEAP_START /\ Shape(mem, heap_current_end) /\ Live = Heads(mem)
<1>1. AllIdle /\ heap_head = KHEAP_START
  BY DEF Quiet, AllIdle, IInv, Typed, SharedTyped
<1>2. Good(mem, heap_current_end, owned, "idle", nullptr, "idle")
  BY <1>1 DEF IInv, Consistent
<1>3. Shape(mem, heap_current_end)
  BY <1>2 DEF Good
<1> QED
  BY <1>1, <1>2, <1>3, LiveIs

LEMMA IInvTypeOK ==
    IInv => TypeOK
<1> SUFFICES ASSUME IInv
             PROVE  TypeOK
  OBVIOUS
<1>1. SharedTyped /\ LocalsTyped
  BY DEF IInv, Typed
<1>2. ASSUME NEW c \in Callers
      PROVE  /\ pc[c] \in {"idle", "search", "take", "expand", "panic", "mark",
                           "merge_next", "merge_prev"}
             /\ {curr[c], node[c]} \subseteq Addr \cup {nullptr}
             /\ back[c] \in {"idle", "search"}
  BY <1>1 DEF LocalsTyped, Places
<1> QED
  BY <1>1, <1>2 DEF TypeOK, SharedTyped

LEMMA IInvTiled ==
    IInv => Tiled
<1> SUFFICES ASSUME IInv, Quiet, heap_head # nullptr, NEW a \in Live
             PROVE  LET end == a + HDR + mem[a].size IN
                    /\ mem[a].next = IF end = heap_current_end THEN nullptr ELSE end
                    /\ mem[a].next # nullptr => mem[mem[a].next].prev = a
                    /\ a = heap_head <=> mem[a].prev = nullptr
  BY DEF Tiled
<1>1. Shape(mem, heap_current_end) /\ heap_head = KHEAP_START /\ a \in Heads(mem)
  BY BetweenCalls
<1>2. /\ Follows(mem, heap_current_end, a) /\ Preceded(mem, a)
      /\ \A b \in Heads(mem) : b # nullptr
  BY <1>1, Block
<1>3. /\ mem[a].next = IF End(mem, a) = heap_current_end THEN nullptr ELSE End(mem, a)
      /\ mem[a].next # nullptr => mem[mem[a].next].prev = a
  BY <1>2 DEF Follows
<1>4. a = heap_head <=> mem[a].prev = nullptr
  BY <1>1, <1>2 DEF Preceded
<1> QED
  BY <1>3, <1>4 DEF End

LEMMA IInvCoalesced ==
    IInv => Coalesced
<1> SUFFICES ASSUME IInv, Quiet, NEW a \in Live, mem[a].free, mem[a].next # nullptr
             PROVE  ~mem[mem[a].next].free
  BY DEF Coalesced
<1>1. heap_head # nullptr
  BY LiveIsEmpty
<1>2. /\ Good(mem, heap_current_end, owned, "idle", nullptr, "idle")
      /\ Shape(mem, heap_current_end) /\ a \in Heads(mem)
  BY <1>1, BetweenCalls
<1>3. a \in Free(mem) /\ mem[a].next \in Heads(mem)
  BY <1>2, Block DEF Free
<1>4. Coal(mem, "idle", nullptr)
  BY <1>2 DEF Good
<1> QED
  BY <1>3, <1>4 DEF Coal, Free

LEMMA IInvBlocksOwned ==
    IInv => BlocksOwned
<1> SUFFICES ASSUME IInv, Quiet
             PROVE  /\ {a + HDR : a \in {x \in Live : ~mem[x].free}} = {b.ptr : b \in owned}
                    /\ \A b, d \in owned : b.ptr = d.ptr => b = d
                    /\ \A b \in owned : mem[b.ptr - HDR].size >= b.size
  BY DEF BlocksOwned
<1>1. CASE heap_head = nullptr
  BY <1>1, LiveIsEmpty DEF IInv, Empty
<1>2. CASE heap_head # nullptr
  <2>1. /\ Good(mem, heap_current_end, owned, "idle", nullptr, "idle")
        /\ Shape(mem, heap_current_end) /\ Live = Heads(mem)
    BY <1>2, BetweenCalls
  <2>2. Own(mem, owned, "idle", nullptr, "idle")
    BY <2>1 DEF Good
  <2>3. {x \in Live : ~mem[x].free} = Used(mem, "idle", nullptr, "idle")
    BY <2>1 DEF Used, InFlight, Free
  <2>4. ASSUME NEW a \in Used(mem, "idle", nullptr, "idle")
        PROVE  a + HDR \in {b.ptr : b \in owned}
    BY <2>2 DEF Own
  <2>5. ASSUME NEW b \in owned
        PROVE  b.ptr \in {a + HDR : a \in Used(mem, "idle", nullptr, "idle")}
    <3>1. b.ptr \in Nat /\ b.ptr - HDR \in Used(mem, "idle", nullptr, "idle")
      BY <2>2 DEF Own
    <3>2. b.ptr = (b.ptr - HDR) + HDR
      BY <3>1, Units
    <3> QED
      BY <3>1, <3>2
  <2>6. /\ \A b, d \in owned : b.ptr = d.ptr => b = d
        /\ \A b \in owned : mem[b.ptr - HDR].size >= b.size
    BY <2>2 DEF Own
  <2> QED
    BY <2>3, <2>4, <2>5, <2>6
<1> QED
  BY <1>1, <1>2

\* The inductive invariant: the headers tile the heap from KHEAP_START to heap_current_end,
\* linked both ways, at every step inside kmalloc and kfree; two free neighbours meet only at
\* the block that kfree is merging; every block in use has one owner, but for the one that
\* kfree has been given and not yet marked.
THEOREM Inductive ==
    ASSUME Serial, Unwrapped
    PROVE  Spec => []IInv
<1>1. Init => IInv
  BY InitIInv
<1>2. IInv /\ [Next]_vars => IInv'
  BY StepIInv
<1> QED
  BY <1>1, <1>2, PTL DEF Spec

\* Every variable of heap.cpp keeps its type: no pointer leaves the heap, and the end of the
\* heap and the frames left always add up.
THEOREM TypeCorrect ==
    ASSUME Serial, Unwrapped
    PROVE  Spec => []TypeOK
BY Inductive, IInvTypeOK, PTL

\* Between calls the list of heap_nodes runs through the whole heap, without gap or overlap
\* (the split of kmalloc, its growth at the end and the merges of kfree keep it so).
THEOREM TiledCorrect ==
    ASSUME Serial, Unwrapped
    PROVE  Spec => []Tiled
BY Inductive, IInvTiled, PTL

\* Between calls kfree has left no two free neighbours.
THEOREM CoalescedCorrect ==
    ASSUME Serial, Unwrapped
    PROVE  Spec => []Coalesced
BY Inductive, IInvCoalesced, PTL

\* Between calls the blocks marked as used are exactly those that kmalloc has returned and
\* nobody has freed, each of them once and at least as large as it was asked for.
THEOREM BlocksOwnedCorrect ==
    ASSUME Serial, Unwrapped
    PROVE  Spec => []BlocksOwned
BY Inductive, IInvBlocksOwned, PTL

LEMMA SharedStep ==
    ASSUME Serial, IInv, IInv', NoSharedBlock, [Next]_vars
    PROVE  NoSharedBlock'
<1>1. CASE owned' \subseteq owned
  BY <1>1 DEF NoSharedBlock
<1>2. ASSUME NEW c \in Callers, kmalloc_take(c)
      PROVE  NoSharedBlock'
  <2>1. AllIdle'
    <3>1. Runs(c) /\ pc' = [pc EXCEPT ![c] = "idle"]
      BY <1>2 DEF kmalloc_take, At, Return
    <3>2. \A d \in Callers \ {c} : pc[d] = "idle"
      BY <3>1, OthersIdle
    <3>3. pc \in [Callers -> Places]
      BY DEF IInv, Typed, LocalsTyped
    <3> QED
      BY <3>1, <3>2, <3>3 DEF AllIdle
  <2>2. CASE (heap_head = nullptr)'
    BY <2>2 DEF IInv, Empty, NoSharedBlock
  <2>3. CASE (heap_head # nullptr)'
    BY <2>1, <2>3 DEF IInv, Consistent, Good, Own, NoSharedBlock
  <2> QED
    BY <2>2, <2>3
<1>3. owned' \subseteq owned \/ \E c \in Callers : kmalloc_take(c)
  BY DEF Next, Inside, vars, kheap_init, no_memory_map, kmalloc, kfree, kmalloc_search,
         kmalloc_expand, kfree_mark, kfree_merge_next, kfree_merge_prev, panic
<1> QED
  BY <1>1, <1>2, <1>3

\* No two callers own the same block, also while one is inside and after the frames ran out:
\* kmalloc hands a block out twice only when it is preempted between test and mark.
THEOREM NoSharedBlockCorrect ==
    ASSUME Serial, Unwrapped
    PROVE  Spec => []NoSharedBlock
<1>1. Init => NoSharedBlock
  BY DEF Init, NoSharedBlock
<1>2. IInv /\ IInv' /\ NoSharedBlock /\ [Next]_vars => NoSharedBlock'
  BY SharedStep
<1> QED
  BY <1>1, <1>2, Inductive, PTL DEF Spec
============================================================================
