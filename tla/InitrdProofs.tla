---------------------------- MODULE InitrdProofs ---------------------------
(***************************************************************************)
(* What holds of the initial ramdisk for every list of files that fits     *)
(* into memory, every size of the headers and of the buffers.              *)
(***************************************************************************)
EXTENDS Initrd, SequenceTheorems, WellFoundedInduction, TLAPS

----------------------------------------------------------------------------
(* The layout of an image *)

LEMMA LeastElement ==
    ASSUME NEW T \in SUBSET Nat, T # {}
    PROVE  \E n \in T : \A m \in T : n <= m
<1> DEFINE R == {ss_ \in Nat \X Nat : ss_[1] < ss_[2]}
<1>1. IsWellFoundedOn(R, Nat)
  BY NatLessThanWellFounded DEF OpToRel
<1>2. \A n, m \in Nat : n < m => <<n, m>> \in R
  OBVIOUS
<1> HIDE DEF R
<1>3. PICK n \in T : \A m \in T : <<m, n>> \notin R
  BY <1>1, WFMin
<1>4. \A m \in T : m \in Nat /\ n \in Nat /\ ~(m < n)
  BY <1>2, <1>3
<1>5. \A m \in T : n <= m
  BY <1>4
<1> QED
  BY <1>5

Files == Seq([path : Seq(Nat), data : Seq(Nat)])
Sums(g, s, l) == /\ g \in [0 .. l -> Nat] /\ g[0] = 0
                 /\ \A n \in 1 .. l : g[n] = g[n - 1] + Len(s[n].data)

\* The recursion of DataBefore has a solution: the shortest list of sums that does not exist would
\* be the one after a list that does.
LEMMA SumsExist ==
    ASSUME NEW s \in Files, NEW l \in 0 .. Len(s)
    PROVE  \E g : Sums(g, s, l)
<1> DEFINE T == {m \in 0 .. Len(s) : ~ \E g : Sums(g, s, m)}
<1>1. SUFFICES ASSUME T # {}
               PROVE  FALSE
  BY <1>1
<1>2. T \in SUBSET Nat
  OBVIOUS
<1>3. PICK m \in T : \A i \in T : m <= i
  BY <1>1, <1>2, LeastElement
<1>4. CASE m = 0
  <2>1. Sums([n \in 0 .. 0 |-> 0], s, 0)
    BY DEF Sums
  <2> QED
    BY <1>3, <1>4, <2>1
<1>5. CASE m # 0
  <2>1. m \in 1 .. Len(s) /\ m - 1 \in 0 .. Len(s) /\ m - 1 \notin T
    BY <1>3, <1>5
  <2>2. PICK g : Sums(g, s, m - 1)
    BY <2>1
  <2>3. Len(s[m].data) \in Nat
    BY <2>1 DEF Files
  <2> DEFINE h == [n \in 0 .. m |-> IF n = m THEN g[m - 1] + Len(s[m].data) ELSE g[n]]
  <2>4. g \in [0 .. m - 1 -> Nat] /\ g[0] = 0 /\ \A n \in 1 .. m - 1 : g[n] = g[n - 1] + Len(s[n].data)
    BY <2>2 DEF Sums
  <2>5. h \in [0 .. m -> Nat]
    BY <2>1, <2>3, <2>4
  <2>6. h[0] = 0 /\ h[m] = h[m - 1] + Len(s[m].data)
    BY <2>1, <2>4
  <2>7. ASSUME NEW n \in 1 .. m
        PROVE  h[n] = h[n - 1] + Len(s[n].data)
    <3>1. CASE n = m
      BY <2>6, <3>1
    <3>2. CASE n # m
      BY <2>1, <2>4, <3>2
    <3> QED
      BY <3>1, <3>2
  <2>8. Sums(h, s, m)
    BY <2>5, <2>6, <2>7 DEF Sums
  <2> QED
    BY <1>3, <2>8
<1> QED
  BY <1>4, <1>5

LEMMA DataBeforeIs ==
    ASSUME NEW s \in Files
    PROVE  Sums(DataBefore(s), s, Len(s))
<1> DEFINE Rec(g) == g = [n \in 0 .. Len(s) |-> IF n = 0 THEN 0 ELSE g[n - 1] + Len(s[n].data)]
<1>1. PICK g : Sums(g, s, Len(s))
  BY SumsExist
<1>2. Rec(g)
  BY <1>1 DEF Sums
<1>3. Rec(DataBefore(s))
  BY <1>2 DEF DataBefore
<1>4. PICK f : f = DataBefore(s) /\ Rec(f)
  BY <1>3
<1>5. PICK l \in Nat : l = Len(s)
  BY DEF Files
<1>6. /\ DOMAIN f = 0 .. l /\ f[0] = 0 /\ \A n \in 1 .. l : f[n] = f[n - 1] + Len(s[n].data)
  BY <1>4, <1>5
<1>7. /\ g \in [0 .. l -> Nat] /\ g[0] = 0 /\ \A n \in 1 .. l : g[n] = g[n - 1] + Len(s[n].data)
  BY <1>1, <1>5 DEF Sums
<1> DEFINE T == {n \in 0 .. l : f[n] # g[n]}
<1>8. T = {}
  <2>1. SUFFICES ASSUME T # {}
                 PROVE  FALSE
    OBVIOUS
  <2>2. T \in SUBSET Nat
    BY <1>5
  <2>3. PICK m \in T : \A i \in T : m <= i
    BY <2>1, <2>2, LeastElement
  <2>4. m # 0 /\ m \in 1 .. l /\ m - 1 \in 0 .. l
    BY <1>6, <1>7, <2>3
  <2>5. f[m - 1] = g[m - 1]
    BY <2>3, <2>4
  <2> QED
    BY <1>6, <1>7, <2>3, <2>4, <2>5
<1>9. f = g
  <2>1. \A n \in 0 .. l : f[n] = g[n]
    BY <1>8
  <2>2. f = [n \in 0 .. l |-> f[n]] /\ g = [n \in 0 .. l |-> g[n]]
    BY <1>4, <1>5, <1>7
  <2> QED
    BY <2>1, <2>2
<1> QED
  BY <1>1, <1>4, <1>9

LEMMA SumsGrow ==
    ASSUME NEW s \in Files, NEW b, b = DataBefore(s), NEW n \in 0 .. Len(s), NEW m \in n .. Len(s)
    PROVE  b[n] <= b[m] /\ b[n] \in Nat /\ b[m] \in Nat
<1>1. PICK l \in Nat : l = Len(s)
  BY DEF Files
<1>2. /\ b \in [0 .. l -> Nat] /\ \A i \in 1 .. l : b[i] = b[i - 1] + Len(s[i].data)
  BY <1>1, DataBeforeIs DEF Sums
<1>3. \A i \in 1 .. l : Len(s[i].data) \in Nat
  BY <1>1 DEF Files
<1>4. n \in 0 .. l /\ m \in n .. l /\ b[n] \in Nat /\ b[m] \in Nat
  <2>1. n \in 0 .. l /\ m \in n .. l /\ m \in 0 .. l
    BY <1>1
  <2>2. b \in [0 .. l -> Nat]
    BY <1>2
  <2> QED
    BY <2>1, <2>2
<1> DEFINE T == {i \in n .. l : b[n] > b[i]}
<1>5. T = {}
  <2>1. SUFFICES ASSUME T # {}
                 PROVE  FALSE
    OBVIOUS
  <2>2. T \in SUBSET Nat
    BY <1>1
  <2>3. PICK i \in T : \A j \in T : i <= j
    BY <2>1, <2>2, LeastElement
  <2>4. i # n /\ i \in 1 .. l /\ i - 1 \in n .. l /\ i - 1 \in 0 .. l
    BY <1>4, <2>3
  <2>5. i - 1 \notin T
    BY <2>3, <2>4
  <2>6. b[i] \in Nat /\ b[i - 1] \in Nat /\ b[i] = b[i - 1] + Len(s[i].data)
    BY <1>2, <2>4
  <2>7. b[n] <= b[i - 1]
    BY <1>4, <2>4, <2>5, <2>6
  <2>8. b[i - 1] <= b[i]
    BY <1>3, <2>4, <2>6
  <2> QED
    BY <1>4, <2>3, <2>6, <2>7, <2>8
<1>6. m \notin T
  BY <1>5
<1> QED
  BY <1>4, <1>6
----------------------------------------------------------------------------
(* The functions of libc on strings of any length *)

LEMMA Greatest ==
    ASSUME NEW S \in SUBSET Nat, NEW m \in S, \A n \in S : n <= m
    PROVE  Max(S) = m
<1>1. \A n \in S : m >= n
  OBVIOUS
<1>2. Max(S) \in S /\ \A n \in S : Max(S) >= n
  BY <1>1 DEF Max
<1>3. Max(S) \in Nat /\ m \in Nat /\ Max(S) >= m /\ m >= Max(S)
  BY <1>1, <1>2
<1> QED
  BY <1>3

\* printf of a string and a new line: the three rounds over the format, from the last choice of
\* the fold to the first.
LEMMA PrintfLine ==
    ASSUME NEW b, b # nullptr, Text(b) \in Seq(Int), NEW word
    PROVE  printf(<<PERCENT, 115, NL>>, <<b>>, word) = Text(b) \o <<NL>>
<1> DEFINE Round(st, c) ==
             CASE ~st.percent /\ c = PERCENT -> [st EXCEPT !.percent = TRUE]
               [] ~st.percent /\ c # PERCENT -> [st EXCEPT !.out = Append(@, c)]
               [] st.percent /\ c \in Specifiers ->
                    [percent |-> FALSE, args |-> Tail(st.args),
                     out |-> st.out \o Converted(c, Head(st.args), word)]
               [] st.percent /\ c \notin Specifiers ->
                    [st EXCEPT !.percent = FALSE,
                               !.out = @ \o (IF c = PERCENT THEN <<c>> ELSE <<PERCENT, c>>)]
           st0 == [percent |-> FALSE, args |-> <<b>>, out |-> << >>]
           fmt == <<PERCENT, 115, NL>>
           Rec(f) == f = [s \in SUBSET (DOMAIN fmt) |->
                            IF s = {} THEN st0 ELSE Round(f[s \ {Max(s)}], fmt[Max(s)])]
           end == (CHOOSE f : Rec(f))[DOMAIN fmt]
<1>1. printf(fmt, <<b>>, word) = IF end.percent THEN Append(end.out, PERCENT) ELSE end.out
  BY Zenon DEF printf, FoldLeft, MapThenFoldSet
<1>2. Round(st0, PERCENT) = [percent |-> TRUE, args |-> <<b>>, out |-> << >>]
  BY DEF PERCENT
<1>3. Round([percent |-> TRUE, args |-> <<b>>, out |-> << >>], 115)
        = [percent |-> FALSE, args |-> << >>, out |-> Text(b)]
  <2>1. Converted(115, b, word) = Text(b)
    BY DEF Converted
  <2>2. 115 \in Specifiers
    BY DEF Specifiers
  <2>3. Head(<<b>>) = b /\ Tail(<<b>>) = << >> /\ << >> \o Text(b) = Text(b)
    OBVIOUS
  <2> QED
    BY <2>1, <2>2, <2>3
<1>4. LET r == Round([percent |-> FALSE, args |-> << >>, out |-> Text(b)], NL)
      IN  ~r.percent /\ r.out = Text(b) \o <<NL>>
  <2>1. PICK t \in Seq(Int) : t = Text(b)
    OBVIOUS
  <2>2. Append(t, 10) = t \o <<10>>
    OBVIOUS
  <2>3. NL = 10 /\ PERCENT = 37
    BY DEF NL, PERCENT
  <2> DEFINE st == [percent |-> FALSE, args |-> << >>, out |-> t]
  <2>4. Round(st, 10) = [st EXCEPT !.out = Append(@, 10)]
    BY <2>3
  <2>5. LET r == [st EXCEPT !.out = Append(@, 10)] IN ~r.percent /\ r.out = t \o <<10>>
    BY <2>2
  <2> QED
    BY <2>1, <2>3, <2>4, <2>5
<1>5. DOMAIN fmt = 1 .. 3 /\ fmt[1] = PERCENT /\ fmt[2] = 115 /\ fmt[3] = NL
  OBVIOUS
<1> HIDE DEF Round, st0
<1> DEFINE One(s) == IF 1 \in s THEN Round(st0, PERCENT) ELSE st0
           Two(s) == IF 2 \in s THEN Round(One(s), 115) ELSE One(s)
           Three(s) == IF 3 \in s THEN Round(Two(s), NL) ELSE Two(s)
           g == [s \in SUBSET (1 .. 3) |-> Three(s)]
<1>6. ASSUME NEW s \in SUBSET (1 .. 3), s # {}
      PROVE  Three(s) = Round(Three(s \ {Max(s)}), fmt[Max(s)])
  <2>1. s \in SUBSET Nat
    OBVIOUS
  <2>2. CASE 3 \in s
    <3>1. Max(s) = 3
      <4>1. \A n \in s : n <= 3
        OBVIOUS
      <4> QED
        BY <2>1, <2>2, <4>1, Greatest
    <3>2. (1 \in s \ {3} <=> 1 \in s) /\ (2 \in s \ {3} <=> 2 \in s) /\ 3 \notin s \ {3}
      OBVIOUS
    <3>3. Three(s \ {3}) = Two(s)
      BY <3>2
    <3> QED
      BY <1>5, <2>2, <3>1, <3>3
  <2>3. CASE 3 \notin s /\ 2 \in s
    <3>1. Max(s) = 2
      <4>1. \A n \in s : n <= 2
        BY <2>3
      <4> QED
        BY <2>1, <2>3, <4>1, Greatest
    <3>2. (1 \in s \ {2} <=> 1 \in s) /\ 2 \notin s \ {2} /\ 3 \notin s \ {2}
      BY <2>3
    <3>3. Three(s \ {2}) = One(s) /\ Three(s) = Two(s)
      BY <2>3, <3>2
    <3> QED
      BY <1>5, <2>3, <3>1, <3>3
  <2>4. CASE s = {1}
    <3>1. Max(s) = 1
      BY <2>1, <2>4, Greatest
    <3>2. 1 \notin s \ {1} /\ 2 \notin s \ {1} /\ 3 \notin s \ {1} /\ 3 \notin s /\ 2 \notin s
      BY <2>4
    <3> QED
      BY <1>5, <2>4, <3>1, <3>2
  <2> QED
    <3>1. ASSUME 3 \notin s, 2 \notin s
          PROVE  s = {1}
      <4>1. \A n \in s : n = 1
        BY <3>1
      <4> QED
        BY <1>6, <4>1
    <3> QED
      BY <2>2, <2>3, <2>4, <3>1
<1>7. Three({}) = st0
  OBVIOUS
<1> HIDE DEF One, Two, Three, fmt
<1>8. Rec(g)
  <2>1. ASSUME NEW s \in SUBSET (1 .. 3)
        PROVE  Three(s) = IF s = {} THEN st0 ELSE Round(g[s \ {Max(s)}], fmt[Max(s)])
    <3>1. s \ {Max(s)} \in SUBSET (1 .. 3)
      OBVIOUS
    <3>2. g[s \ {Max(s)}] = Three(s \ {Max(s)})
      BY <3>1
    <3> QED
      BY <1>6, <1>7, <3>2
  <2>2. g = [s \in SUBSET (1 .. 3) |->
               IF s = {} THEN st0 ELSE Round(g[s \ {Max(s)}], fmt[Max(s)])]
    BY <2>1
  <2> QED
    BY <1>5, <2>2
<1>9. PICK f : f = (CHOOSE each : Rec(each)) /\ Rec(f)
  BY <1>8
<1>9a. f = [s \in SUBSET (1 .. 3) |->
               IF s = {} THEN st0 ELSE Round(f[s \ {Max(s)}], fmt[Max(s)])]
  BY <1>5, <1>9
<1> HIDE DEF Rec
<1>10. \A s \in SUBSET (1 .. 3) : s # {} => f[s] = Round(f[s \ {Max(s)}], fmt[Max(s)])
  BY <1>9a
<1>11. f[{}] = st0
  BY <1>9a
<1>12. f[{1}] = Round(st0, PERCENT)
  <2>1. {1} \ {1} = {} /\ {1} \in SUBSET (1 .. 3) /\ {1} \in SUBSET Nat
    OBVIOUS
  <2>2. Max({1}) = 1
    BY <2>1, Greatest
  <2>3. f[{1}] = Round(f[{1} \ {Max({1})}], fmt[Max({1})])
    BY <1>10, <2>1
  <2> QED
    BY <1>5, <1>11, <2>1, <2>2, <2>3
<1>13. f[{1, 2}] = Round(f[{1}], 115)
  <2>1. {1, 2} \ {2} = {1} /\ {1, 2} \in SUBSET (1 .. 3) /\ {1, 2} \in SUBSET Nat
    OBVIOUS
  <2>2. Max({1, 2}) = 2
    BY <2>1, Greatest
  <2>3. f[{1, 2}] = Round(f[{1, 2} \ {Max({1, 2})}], fmt[Max({1, 2})])
    BY <1>10, <2>1
  <2> QED
    BY <1>5, <2>1, <2>2, <2>3
<1>14. f[1 .. 3] = Round(f[{1, 2}], NL)
  <2>1. (1 .. 3) \ {3} = {1, 2} /\ (1 .. 3) \in SUBSET (1 .. 3) /\ 1 .. 3 \in SUBSET Nat /\ 1 .. 3 # {}
    OBVIOUS
  <2>2. Max(1 .. 3) = 3
    <3>1. PICK s \in SUBSET Nat : s = 1 .. 3
      BY <2>1
    <3>2. 3 \in s /\ \A n \in s : n <= 3
      BY <3>1
    <3> QED
      BY <3>1, <3>2, Greatest
  <2>3. f[1 .. 3] = Round(f[(1 .. 3) \ {Max(1 .. 3)}], fmt[Max(1 .. 3)])
    BY <1>10, <2>1
  <2> QED
    BY <1>5, <2>1, <2>2, <2>3
<1>15. end = f[1 .. 3]
  BY <1>5, <1>9
<1>16. f[1 .. 3] = Round([percent |-> FALSE, args |-> << >>, out |-> Text(b)], NL)
  BY <1>2, <1>3, <1>12, <1>13, <1>14 DEF st0
<1> HIDE DEF end
<1> QED
  BY <1>1, <1>4, <1>15, <1>16 DEF fmt

LEMMA MinIs ==
    ASSUME NEW S \in SUBSET Nat, S # {}
    PROVE  Min(S) \in S /\ \A n \in S : Min(S) <= n
<1>1. PICK m \in S : \A n \in S : m <= n
  BY LeastElement
<1> QED
  BY <1>1 DEF Min

\* The string in a buffer is text: its characters, then a 0.
Holds(s, text) ==
    /\ s \in Seq(Int) /\ Len(text) < Len(s) /\ s[Len(text) + 1] = 0
    /\ \A i \in 1 .. Len(text) : s[i] = text[i]

Name == Seq(Nat \ {0})

\* strlen stops at the first NUL, which is behind the text.
LEMMA strlenIs ==
    ASSUME NEW s, NEW text \in Name, Holds(s, text)
    PROVE  strlen(s) = Len(text)
<1>1. PICK l \in Nat : l = Len(text)
  BY DEF Name
<1>2. PICK m \in Nat : m = Len(s)
  BY DEF Holds
<1>3. l < m /\ s[l + 1] = 0
  BY <1>1, <1>2 DEF Holds
<1>4. ASSUME NEW i \in 1 .. l
      PROVE  s[i] # 0
  <2>1. text[i] \in Nat \ {0}
    BY <1>1, ElementOfSeq DEF Name
  <2> QED
    BY <1>1, <2>1 DEF Holds
<1>5. PICK Z : Z = {n \in 1 .. m : s[n] = 0}
  OBVIOUS
<1>6. l + 1 \in Z /\ Z \in SUBSET Nat /\ \A n \in Z : l + 1 <= n
  BY <1>3, <1>4, <1>5
<1>7. Min(Z) \in Z /\ \A n \in Z : Min(Z) <= n
  BY <1>6, MinIs
<1>8. PICK z : z = Min(Z)
  OBVIOUS
<1>9. z \in Nat /\ l + 1 <= z /\ z <= l + 1
  BY <1>6, <1>7, <1>8
<1>10. Min(Z) = l + 1
  BY <1>8, <1>9
<1> QED
  BY <1>1, <1>2, <1>5, <1>10 DEF strlen, NUL

LEMMA LiteralHolds ==
    ASSUME NEW text \in Name
    PROVE  Holds(Literal(text), text)
<1>1. text \in Seq(Int)
  BY DEF Name
<1> QED
  BY <1>1 DEF Holds, Literal, NUL

\* strcmp finds two strings the same only if they are.
LEMMA strcmpIs ==
    ASSUME NEW a, NEW b, NEW ta \in Name, NEW tb \in Name, Holds(a, ta), Holds(b, tb)
    PROVE  (strcmp(a, b) = 0) <=> (ta = tb)
<1>1. PICK p \in Nat : p = Len(ta)
  BY DEF Name
<1>2. PICK q \in Nat : q = Len(tb)
  BY DEF Name
<1>3. strlen(a) = p /\ strlen(b) = q
  BY <1>1, <1>2, strlenIs
<1>4. /\ a[p + 1] = 0 /\ \A i \in 1 .. p : a[i] = ta[i] /\ ta[i] \in Nat \ {0}
      /\ b[q + 1] = 0 /\ \A i \in 1 .. q : b[i] = tb[i] /\ tb[i] \in Nat \ {0}
  BY <1>1, <1>2, ElementOfSeq DEF Holds, Name
<1>5. PICK e : e = Min({p, q})
  OBVIOUS
<1>6. e \in Nat /\ e <= p /\ e <= q /\ (e = p \/ e = q)
  <2>1. {p, q} \in SUBSET Nat /\ {p, q} # {}
    OBVIOUS
  <2> QED
    BY <1>5, <2>1, MinIs
<1>7. PICK D : D = {n \in 1 .. e + 1 : a[n] # b[n]}
  OBVIOUS
<1>8. PICK stop : stop = Min({p + 1} \cup D)
  OBVIOUS
<1>9. stop \in {p + 1} \cup D /\ \A n \in {p + 1} \cup D : stop <= n
  <2>1. {p + 1} \cup D \in SUBSET Nat /\ {p + 1} \cup D # {}
    BY <1>6, <1>7
  <2> QED
    BY <1>8, <2>1, MinIs
<1>10. strcmp(a, b) = a[stop] - b[stop]
  BY <1>3, <1>5, <1>7, <1>8 DEF strcmp
<1>11. ASSUME ta = tb
       PROVE  strcmp(a, b) = 0
  <2>1. p = q /\ e = p
    BY <1>1, <1>2, <1>6, <1>11
  <2>2. \A n \in 1 .. p + 1 : a[n] = b[n]
    <3>1. \A n \in 1 .. p : a[n] = b[n]
      BY <1>4, <1>11, <2>1
    <3> QED
      BY <1>4, <2>1, <3>1
  <2>3. D = {}
    BY <1>7, <2>1, <2>2
  <2>4. stop = p + 1
    BY <1>9, <2>3
  <2> QED
    BY <1>4, <1>10, <2>1, <2>4
<1>12. ASSUME ta # tb
       PROVE  strcmp(a, b) # 0
  <2>1. PICK d : d \in D
    <3>1. CASE p < q
      <4>1. p + 1 \in 1 .. e + 1 /\ p + 1 \in 1 .. q
        BY <1>6, <3>1
      <4>2. a[p + 1] # b[p + 1]
        BY <1>4, <4>1
      <4> QED
        BY <1>7, <4>1, <4>2
    <3>2. CASE q < p
      <4>1. q + 1 \in 1 .. e + 1 /\ q + 1 \in 1 .. p
        BY <1>6, <3>2
      <4>2. a[q + 1] # b[q + 1]
        BY <1>4, <4>1
      <4> QED
        BY <1>7, <4>1, <4>2
    <3>3. CASE p = q
      <4>1. PICK i \in 1 .. p : ta[i] # tb[i]
        <5>1. ta \in Seq(Nat) /\ tb \in Seq(Nat)
          BY DEF Name
        <5>2. ta = [i \in 1 .. p |-> ta[i]] /\ tb = [i \in 1 .. q |-> tb[i]]
          BY <1>1, <1>2, <5>1
        <5> QED
          BY <1>12, <3>3, <5>2
      <4>2. a[i] # b[i] /\ i \in 1 .. e + 1
        BY <1>4, <1>6, <3>3, <4>1
      <4> QED
        BY <1>7, <4>2
    <3> QED
      BY <3>1, <3>2, <3>3
  <2>2. d \in 1 .. e + 1 /\ stop <= d
    BY <1>7, <1>9, <2>1
  <2>3. stop \in D
    BY <1>6, <1>9, <2>1, <2>2
  <2>4. stop \in 1 .. e + 1 /\ a[stop] # b[stop]
    BY <1>7, <2>3
  <2>5. a[stop] \in Int /\ b[stop] \in Int
    <3>1. (stop \in 1 .. p \/ stop = p + 1) /\ (stop \in 1 .. q \/ stop = q + 1)
      BY <1>6, <2>4
    <3> QED
      BY <1>4, <3>1
  <2>6. \A x, y \in Int : x # y => x - y # 0
    OBVIOUS
  <2> QED
    BY <1>10, <2>4, <2>5, <2>6
<1> QED
  BY <1>11, <1>12

\* What printf is given of a file: its bytes up to the first 0.
LEMMA TextOfBytes ==
    ASSUME NEW buf \in Seq(Int), NEW d \in Seq(Nat), Len(d) < Len(buf), buf[Len(d) + 1] = 0,
           \A i \in 1 .. Len(d) : buf[i] = d[i]
    PROVE  Text(buf) \in Seq(Int) /\ Text(buf) \o <<NL>> = Printed(d)
<1>1. PICK l \in Nat : l = Len(d)
  OBVIOUS
<1>2. PICK m \in Nat : m = Len(buf)
  OBVIOUS
<1>3. PICK Z : Z = {n \in 1 .. m : buf[n] = 0}
  OBVIOUS
<1>4. PICK I : I = {n \in 1 .. l : d[n] = 0}
  OBVIOUS
<1>5. l + 1 \in Z /\ I \subseteq Z /\ Z \in SUBSET Nat /\ \A n \in Z : n \in I \/ n > l
  BY <1>1, <1>2, <1>3, <1>4
<1>6. PICK z : z = Min(Z)
  OBVIOUS
<1>7. z \in Z /\ \A n \in Z : z <= n
  BY <1>5, <1>6, MinIs
<1>8. z \in 1 .. m /\ z <= l + 1
  BY <1>3, <1>5, <1>7
<1>9. Text(buf) = SubSeq(buf, 1, z - 1)
  BY <1>2, <1>3, <1>6 DEF Text, strlen, NUL
<1>10. PICK t : t = SubSeq(buf, 1, z - 1)
  OBVIOUS
<1>11. t \in Seq(Int) /\ Len(t) = z - 1 /\ \A i \in 1 .. z - 1 : t[i] = buf[i]
  BY <1>2, <1>8, <1>10
<1>12. UpToNul(d) = IF I # {} THEN Min(I) ELSE 0
  BY <1>1, <1>4 DEF UpToNul, SelectInSeq, NUL
<1>13. PICK u : u = IF UpToNul(d) = 0 THEN d ELSE SubSeq(d, 1, UpToNul(d) - 1)
  OBVIOUS
<1>14. u = SubSeq(d, 1, z - 1)
  <2>1. CASE I = {}
    <3>1. z > l
      BY <1>5, <1>7, <2>1
    <3>2. z - 1 = l
      BY <1>8, <3>1
    <3>3. SubSeq(d, 1, l) = d
      BY <1>1
    <3> QED
      BY <1>12, <1>13, <2>1, <3>2, <3>3
  <2>2. CASE I # {}
    <3>1. PICK y : y = Min(I)
      OBVIOUS
    <3>2. I \in SUBSET Nat
      BY <1>4
    <3>3. y \in I /\ \A n \in I : y <= n
      BY <2>2, <3>1, <3>2, MinIs
    <3>4. y \in 1 .. l /\ y \in Z
      BY <1>4, <1>5, <3>3
    <3>5. z \in I
      BY <1>5, <1>7, <3>4
    <3>6. y = z
      BY <1>7, <1>8, <3>3, <3>4, <3>5
    <3> QED
      BY <1>12, <1>13, <2>2, <3>1, <3>4, <3>6
  <2> QED
    BY <2>1, <2>2
<1>15. u \in Seq(Nat) /\ Len(u) = z - 1 /\ \A i \in 1 .. z - 1 : u[i] = d[i]
  BY <1>1, <1>8, <1>14
<1>16. t = u
  <2>1. t = [i \in 1 .. z - 1 |-> t[i]] /\ u = [i \in 1 .. z - 1 |-> u[i]]
    BY <1>11, <1>15
  <2>2. \A i \in 1 .. z - 1 : t[i] = u[i]
    BY <1>1, <1>8, <1>11, <1>15
  <2> QED
    BY <2>1, <2>2
<1>17. Printed(d) = u \o <<NL>>
  BY <1>13 DEF Printed
<1> QED
  BY <1>9, <1>10, <1>11, <1>16, <1>17
----------------------------------------------------------------------------
(* The inductive invariant *)

ShellPlaces == {"shell", "read", "cat", "ls"}

\* Where the data of the n-th file begin, counted from the end of the headers.
Begin(n) == DataBefore(files)[n - 1]
HeadersSize == HEADER + FILE_HEADER * Len(files)

\* Every header that is written says where its file will be, under its name.
Pointing ==
    \A n \in 1 .. Len(headers) :
        /\ headers[n].offset = HeadersSize + Begin(n) /\ headers[n].length = Len(files[n].data)
        /\ headers[n].name = strncpy(FileName(files[n].path))

\* The data of the first m files are in the image, one behind the other.
Written(m) ==
    /\ data \in Seq(Nat) /\ Len(data) = Begin(m + 1)
    /\ \A n \in 1 .. m : \A i \in 1 .. Len(files[n].data) : data[Begin(n) + i] = files[n].data[i]

LaidOut ==
    /\ nfiles = Len(files) /\ Len(headers) = nfiles /\ header_bytes = HeadersSize
    /\ Pointing /\ current_offset = HeadersSize + Begin(nfiles + 1)

Making ==
    /\ files \in Sources /\ k \in Nat
    /\ pc \in {"make", "make_headers", "make_data", "failed"} \cup ShellPlaces
    /\ pc = "make" =>
         nfiles = 0 /\ headers = << >> /\ header_bytes = 0 /\ current_offset = 0 /\ data = << >>
    /\ pc \in {"make_headers", "failed"} =>
         /\ nfiles = Len(files) /\ k \in 1 .. nfiles + 1
         /\ headers \in Seq([name : [1 .. NAME -> Nat], offset : Nat, length : Nat])
         /\ Len(headers) = k - 1 /\ Pointing /\ header_bytes = HEADER + FILE_HEADER * (k - 1)
         /\ current_offset = HeadersSize + Begin(k) /\ data = << >>
    /\ pc = "make_data" => LaidOut /\ k \in 1 .. nfiles + 1 /\ Written(k - 1)
    /\ pc \notin ShellPlaces => ~fs_root /\ root_nodes = << >>
    /\ pc \in ShellPlaces =>
         IF fs_root THEN LaidOut /\ Written(nfiles) /\ root_nodes = [n \in 1 .. nfiles |-> Node(n)]
         ELSE /\ nfiles = 0 /\ headers = << >> /\ current_offset = 0 /\ header_bytes = 0
              /\ root_nodes = << >>

IInv == Making /\ ReadsOwnFile
----------------------------------------------------------------------------
(* The steps of make_initrd *)

\* A file's path is a C string of the build host, and its name the end of it.
LEMMA FileNameIs ==
    ASSUME NEW path \in Seq(Nat \ {0})
    PROVE  FileName(path) \in Seq(Nat \ {0})
<1>1. PICK l \in Nat : l = Len(path)
  OBVIOUS
<1>2. PICK tails : tails = {l} \cup {l - i : i \in {j \in 1 .. l : path[j] = SLASH}}
  OBVIOUS
<1>3. tails \in SUBSET (0 .. l) /\ tails # {}
  BY <1>2
<1>4. PICK length : length = Min(tails)
  OBVIOUS
<1>5. length \in 0 .. l
  <2>1. tails \in SUBSET Nat
    BY <1>3
  <2>2. Min(tails) \in tails
    BY <1>3, <2>1, MinIs
  <2> QED
    BY <1>3, <1>4, <2>2
<1>6. FileName(path) = SubSeq(path, l - length + 1, l)
  BY <1>1, <1>2, <1>4 DEF FileName
<1>7. l - length + 1 \in 1 .. l + 1
  BY <1>1, <1>5
<1> QED
  BY <1>1, <1>6, <1>7

LEMMA SourceFiles ==
    ASSUME NEW s \in Sources
    PROVE  s \in Files /\ \A n \in 1 .. Len(s) : FileName(s[n].path) \in Seq(Nat \ {0})
<1>1. s \in Seq([path : Seq(Nat \ {0}), data : Seq(Nat)])
  BY SourcesAssumption DEF NUL
<1> DEFINE Named == [path : Seq(Nat \ {0}), data : Seq(Nat)]
           Plain == [path : Seq(Nat), data : Seq(Nat)]
<1>2. \A t \in Seq(Nat \ {0}) : t \in Seq(Nat)
  OBVIOUS
<1>3. \A x \in Named : x \in Plain /\ x.path \in Seq(Nat \ {0})
  BY <1>2
<1>4. s \in Seq(Named)
  BY <1>1
<1>5. Seq(Plain) = Files
  BY DEF Files
<1> HIDE DEF Named, Plain
<1>6. \A n \in 1 .. Len(s) : s[n] \in Named
  BY <1>4, ElementOfSeq
<1>7. s \in Seq(Plain)
  <2>1. s \in [1 .. Len(s) -> Plain] /\ Len(s) \in Nat
    BY <1>3, <1>4, <1>6
  <2> QED
    BY <2>1
<1> QED
  BY <1>3, <1>5, <1>6, <1>7, FileNameIs

LEMMA FilesFit ==
    ASSUME Making
    PROVE  /\ files \in Files /\ Len(files) \in Nat \ {0} /\ HeadersSize \in Nat
           /\ \A n \in 1 .. Len(files) :
                /\ Begin(n) \in Nat /\ Len(files[n].data) \in Nat /\ files[n].data \in Seq(Nat)
                /\ FileName(files[n].path) \in Seq(Nat)
                /\ Begin(n + 1) = Begin(n) + Len(files[n].data)
                /\ HeadersSize + Begin(n + 1) < WORD
           /\ Begin(1) = 0 /\ Begin(Len(files) + 1) \in Nat
           /\ HeadersSize + Begin(Len(files) + 1) < WORD
<1>1. files \in Files /\ Len(files) > 0 /\ ImageSize(files) < WORD
  BY SourcesAssumption, SourceFiles DEF Making
<1>2. PICK s \in Files : s = files
  BY <1>1
<1>3. PICK b : b = DataBefore(s)
  OBVIOUS
<1>4. PICK l \in Nat : l = Len(s)
  BY DEF Files
<1>5. b \in [0 .. l -> Nat] /\ b[0] = 0 /\ \A n \in 1 .. l : b[n] = b[n - 1] + Len(s[n].data)
  BY <1>3, <1>4, DataBeforeIs DEF Sums
<1>6. HEADER + FILE_HEADER * l \in Nat
  BY <1>4, LayoutAssumption
<1>7. HEADER + FILE_HEADER * l + b[l] < WORD
  BY <1>1, <1>2, <1>3, <1>4 DEF ImageSize
<1>8. ASSUME NEW n \in 1 .. l
      PROVE  /\ Len(s[n].data) \in Nat /\ s[n].data \in Seq(Nat)
             /\ b[n] <= b[l]
  <2>1. Len(s[n].data) \in Nat /\ s[n].data \in Seq(Nat)
    <3>1. s \in Seq([path : Seq(Nat), data : Seq(Nat)]) /\ n \in 1 .. Len(s)
      BY <1>2, <1>4 DEF Files
    <3>2. s[n] \in [path : Seq(Nat), data : Seq(Nat)]
      BY <3>1, ElementOfSeq
    <3> QED
      BY <3>2
  <2>2. n \in 0 .. Len(s) /\ l \in n .. Len(s)
    BY <1>4
  <2> QED
    BY <1>3, <2>1, <2>2, SumsGrow
<1>9. /\ HeadersSize = HEADER + FILE_HEADER * l /\ \A n \in Int : Begin(n) = b[n - 1]
  BY <1>2, <1>3, <1>4 DEF HeadersSize, Begin
<1>10. PICK H \in Nat : H = HEADER + FILE_HEADER * l
  BY <1>6
<1>11. ASSUME NEW n \in 1 .. l
       PROVE  /\ Begin(n) = b[n - 1] /\ Begin(n + 1) = b[n] /\ b[n] \in Nat /\ b[n - 1] \in Nat
              /\ b[n] = b[n - 1] + Len(s[n].data) /\ H + b[n] < WORD
  <2>1. /\ b[n] \in Nat /\ b[l] \in Nat /\ b[n] <= b[l] /\ H + b[l] < WORD
        /\ WORD \in Nat
    <3>1. WORD \in Nat
      BY LayoutAssumption
    <3>2. b[n] \in Nat /\ b[l] \in Nat
      BY <1>4, <1>5
    <3>3. H + b[l] < WORD
      BY <1>7, <1>10
    <3> QED
      BY <1>8, <3>1, <3>2, <3>3
  <2>2. (n + 1) - 1 = n /\ n + 1 \in Int /\ n \in Int
    OBVIOUS
  <2>3. Begin(n) = b[n - 1] /\ Begin(n + 1) = b[n]
    BY <1>9, <2>2
  <2>4. b[n] = b[n - 1] + Len(s[n].data) /\ b[n - 1] \in Nat
    BY <1>5
  <2>5. H + b[n] < WORD
    BY <2>1
  <2> QED
    BY <2>1, <2>3, <2>4, <2>5
<1>12. Begin(1) = 0 /\ Begin(l + 1) = b[l] /\ b[l] \in Nat
  <2>1. 1 - 1 = 0 /\ (l + 1) - 1 = l /\ l + 1 \in Int /\ 1 \in Int
    OBVIOUS
  <2> QED
    BY <1>5, <1>9, <2>1
<1>13. ASSUME NEW n \in 1 .. Len(files)
       PROVE  /\ Begin(n) \in Nat /\ Len(files[n].data) \in Nat /\ files[n].data \in Seq(Nat)
              /\ FileName(files[n].path) \in Seq(Nat)
              /\ Begin(n + 1) = Begin(n) + Len(files[n].data)
              /\ HeadersSize + Begin(n + 1) < WORD
  <2>1. n \in 1 .. l /\ HeadersSize = H
    BY <1>2, <1>4, <1>9, <1>10
  <2>2. FileName(files[n].path) \in Seq(Nat)
    <3>1. FileName(files[n].path) \in Seq(Nat \ {0})
      BY SourceFiles DEF Making
    <3> QED
      BY <3>1
  <2> QED
    BY <1>2, <1>8, <1>11, <2>1, <2>2
<1>14. files \in Files /\ Len(files) = l /\ l \in Nat \ {0} /\ HeadersSize = H
  BY <1>1, <1>2, <1>4, <1>9, <1>10
<1>15. HeadersSize + Begin(Len(files) + 1) < WORD
  BY <1>7, <1>10, <1>12, <1>14
<1> QED
  BY <1>10, <1>12, <1>13, <1>14, <1>15

LEMMA Initially ==
    ASSUME Init
    PROVE  IInv
<1>1. Making
  BY DEF Init, Making, ShellPlaces
<1> QED
  BY <1>1 DEF Init, IInv, ReadsOwnFile

\* A step that leaves the image and the nodes alone, after the image is there.
LEMMA ShellStays ==
    ASSUME Making, pc \in ShellPlaces, pc' \in ShellPlaces, k' \in Nat, UNCHANGED <<image, nodes>>
    PROVE  Making'
<1>1. /\ files' = files /\ nfiles' = nfiles /\ headers' = headers /\ data' = data
      /\ current_offset' = current_offset /\ header_bytes' = header_bytes
      /\ fs_root' = fs_root /\ root_nodes' = root_nodes
  BY DEF image, nodes
<1>2. (\A n : Begin(n)' = Begin(n)) /\ HeadersSize' = HeadersSize /\ (\A n : Node(n)' = Node(n))
  BY <1>1 DEF Begin, HeadersSize, Node
<1>3. Written(nfiles) => Written(nfiles)'
  BY <1>1, <1>2 DEF Written
<1>4. LaidOut => LaidOut'
  BY <1>1, <1>2 DEF LaidOut, Pointing
<1>5. [n \in 1 .. nfiles |-> Node(n)]' = [n \in 1 .. nfiles |-> Node(n)]
  BY <1>1, <1>2
<1>6. /\ files \in Sources
      /\ IF fs_root THEN LaidOut /\ Written(nfiles) /\ root_nodes = [n \in 1 .. nfiles |-> Node(n)]
         ELSE /\ nfiles = 0 /\ headers = << >> /\ current_offset = 0 /\ header_bytes = 0
              /\ root_nodes = << >>
  BY DEF Making
<1>7. /\ files' \in Sources
      /\ IF fs_root'
         THEN LaidOut' /\ Written(nfiles)' /\ root_nodes' = [n \in 1 .. nfiles |-> Node(n)]'
         ELSE /\ nfiles' = 0 /\ headers' = << >> /\ current_offset' = 0 /\ header_bytes' = 0
              /\ root_nodes' = << >>
  BY <1>1, <1>3, <1>4, <1>5, <1>6
<1>8. pc' \notin {"make", "make_headers", "make_data", "failed"}
  BY DEF ShellPlaces
<1> QED
  BY <1>7, <1>8 DEF Making

LEMMA make_headerInv ==
    ASSUME IInv, make_header
    PROVE  IInv'
<1>1. /\ pc = "make" /\ files' = files /\ nfiles' = Len(files) /\ header_bytes' = HEADER
      /\ current_offset' = HeadersSize /\ pc' = "make_headers" /\ k' = 1
      /\ headers' = headers /\ data' = data /\ fs_root' = fs_root /\ root_nodes' = root_nodes
  BY DEF make_header, HeadersSize, nodes
<1>2. /\ files \in Sources /\ headers = << >> /\ data = << >> /\ ~fs_root /\ root_nodes = << >>
  BY <1>1 DEF IInv, Making, ShellPlaces
<1>3. /\ Len(files) \in Nat \ {0} /\ HeadersSize \in Nat /\ Begin(1) = 0
  BY FilesFit DEF IInv
<1>4. HeadersSize' = HeadersSize /\ Begin(1)' = 0
  BY <1>1, <1>3 DEF HeadersSize, Begin
<1>5. /\ nfiles' = Len(files') /\ k' \in 1 .. nfiles' + 1 /\ k' = 1 /\ k' \in Nat
      /\ Len(headers') = k' - 1
      /\ header_bytes' = HEADER + FILE_HEADER * (k' - 1)
      /\ current_offset' = HeadersSize' + Begin(1)' /\ data' = << >>
  BY <1>1, <1>2, <1>3, <1>4, LayoutAssumption
<1>6. Pointing' /\ headers' \in Seq([name : [1 .. NAME -> Nat], offset : Nat, length : Nat])
  BY <1>1, <1>2 DEF Pointing
<1>7. Making'
  BY <1>1, <1>2, <1>5, <1>6 DEF Making, ShellPlaces
<1> QED
  BY <1>1, <1>7 DEF IInv, ReadsOwnFile

LEMMA make_file_headerInv ==
    ASSUME IInv, make_file_header
    PROVE  IInv'
<1>1. /\ pc = "make_headers" /\ k <= nfiles /\ files' = files /\ nfiles' = nfiles /\ data' = data
      /\ fs_root' = fs_root /\ root_nodes' = root_nodes
  BY DEF make_file_header, nodes
<1>2. /\ files \in Sources /\ nfiles = Len(files) /\ k \in 1 .. nfiles + 1
      /\ headers \in Seq([name : [1 .. NAME -> Nat], offset : Nat, length : Nat])
      /\ Len(headers) = k - 1 /\ Pointing /\ header_bytes = HEADER + FILE_HEADER * (k - 1)
      /\ current_offset = HeadersSize + Begin(k) /\ data = << >>
      /\ ~fs_root /\ root_nodes = << >>
  BY <1>1 DEF IInv, Making, ShellPlaces
<1>3. k \in 1 .. Len(files) /\ k \in Nat /\ Len(files) \in Nat
  BY <1>1, <1>2, FilesFit DEF IInv
<1>4. /\ Begin(k) \in Nat /\ Len(files[k].data) \in Nat /\ FileName(files[k].path) \in Seq(Nat)
      /\ Begin(k + 1) = Begin(k) + Len(files[k].data) /\ HeadersSize \in Nat
  BY <1>3, FilesFit DEF IInv
<1>5. (\A n : Begin(n)' = Begin(n)) /\ HeadersSize' = HeadersSize
  BY <1>1 DEF Begin, HeadersSize
<1>6. CASE /\ pc' = "failed" /\ headers' = headers /\ current_offset' = current_offset
           /\ header_bytes' = header_bytes /\ k' = k
  <2>1. Pointing'
    BY <1>1, <1>2, <1>5, <1>6 DEF Pointing
  <2>2. k' \in Nat /\ k' \in 1 .. nfiles' + 1 /\ (current_offset = HeadersSize + Begin(k))'
    BY <1>1, <1>2, <1>3, <1>6 DEF Begin, HeadersSize
  <2>3. Making'
    BY <1>1, <1>2, <1>6, <2>1, <2>2 DEF Making, ShellPlaces
  <2> QED
    BY <1>6, <2>3 DEF IInv, ReadsOwnFile
<1>7. CASE /\ headers' = Append(headers, [name |-> strncpy(FileName(files[k].path)),
                                          offset |-> current_offset,
                                          length |-> Len(files[k].data)])
           /\ current_offset' = current_offset + Len(files[k].data)
           /\ header_bytes' = header_bytes + FILE_HEADER
           /\ k' = k + 1 /\ pc' = pc
  <2>1. strncpy(FileName(files[k].path)) \in [1 .. NAME -> Nat]
    <3>1. PICK s \in Seq(Nat) : s = FileName(files[k].path)
      BY <1>4
    <3>2. \A n \in 1 .. NAME : n <= Len(s) => s[n] \in Nat
      BY LayoutAssumption
    <3> QED
      BY <3>1, <3>2 DEF strncpy, NUL
  <2> DEFINE Header == [name : [1 .. NAME -> Nat], offset : Nat, length : Nat]
  <2>2. PICK h : h = [name |-> strncpy(FileName(files[k].path)), offset |-> current_offset,
                      length |-> Len(files[k].data)]
    OBVIOUS
  <2>3. /\ h \in Header /\ h.offset = HeadersSize + Begin(k) /\ h.length = Len(files[k].data)
        /\ h.name = strncpy(FileName(files[k].path))
    BY <1>2, <1>4, <2>1, <2>2
  <2>4. headers \in Seq(Header) /\ headers' = Append(headers, h)
    BY <1>2, <1>7, <2>2
  <2> HIDE DEF Header
  <2>5. /\ headers' \in Seq(Header) /\ Len(headers') = k /\ headers'[k] = h
        /\ \A n \in 1 .. k - 1 : headers'[n] = headers[n]
    BY <1>2, <1>3, <2>3, <2>4
  <2>6. ASSUME NEW n \in 1 .. k
        PROVE  /\ headers'[n].offset = HeadersSize + Begin(n)
               /\ headers'[n].length = Len(files[n].data)
               /\ headers'[n].name = strncpy(FileName(files[n].path))
    <3>1. CASE n = k
      BY <2>3, <2>5, <3>1
    <3>2. CASE n # k
      <4>1. n \in 1 .. k - 1 /\ n \in 1 .. Len(headers)
        BY <1>2, <1>3, <3>2
      <4>2. /\ headers[n].offset = HeadersSize + Begin(n)
            /\ headers[n].length = Len(files[n].data)
            /\ headers[n].name = strncpy(FileName(files[n].path))
        BY <1>2, <4>1 DEF Pointing
      <4> QED
        BY <2>5, <4>1, <4>2
    <3> QED
      BY <3>1, <3>2
  <2>7. Pointing'
    BY <1>1, <1>5, <2>5, <2>6 DEF Pointing
  <2>8. k' \in Nat /\ k' \in 1 .. nfiles' + 1 /\ k' - 1 = k
    BY <1>1, <1>2, <1>3, <1>7
  <2>9. (current_offset = HeadersSize + Begin(k))'
    <3>1. PICK b : b = DataBefore(files)
      OBVIOUS
    <3>2. Begin(k)' = b[k'- 1] /\ k' = k + 1
      BY <1>1, <1>7, <3>1 DEF Begin
    <3>3. Begin(k)' = Begin(k + 1)
      BY <3>1, <3>2 DEF Begin
    <3>4. current_offset' = (HeadersSize + Begin(k)) + Len(files[k].data)
      BY <1>2, <1>7
    <3> QED
      BY <1>4, <1>5, <3>3, <3>4
  <2>10. header_bytes' = HEADER + FILE_HEADER * (k' - 1)
    <3>1. \A a, b \in Nat : a * (b - 1) + a = a * b
      OBVIOUS
    <3>2. FILE_HEADER * (k - 1) + FILE_HEADER = FILE_HEADER * k
      BY <1>3, <3>1, LayoutAssumption
    <3>3. FILE_HEADER * (k - 1) \in Int /\ FILE_HEADER \in Nat /\ HEADER \in Nat
      BY <1>3, LayoutAssumption
    <3> QED
      BY <1>2, <1>7, <2>8, <3>2, <3>3
  <2>11. headers' \in Seq([name : [1 .. NAME -> Nat], offset : Nat, length : Nat])
    BY <2>5 DEF Header
  <2>12. Making'
    BY <1>1, <1>2, <1>7, <2>5, <2>7, <2>8, <2>9, <2>10, <2>11 DEF Making, ShellPlaces
  <2> QED
    BY <1>1, <1>7, <2>12 DEF IInv, ReadsOwnFile
<1> QED
  BY <1>6, <1>7 DEF make_file_header

LEMMA make_headers_doneInv ==
    ASSUME IInv, make_headers_done
    PROVE  IInv'
<1>1. /\ pc = "make_headers" /\ k > nfiles /\ files' = files /\ nfiles' = nfiles /\ data' = data
      /\ headers' = headers /\ current_offset' = current_offset /\ header_bytes' = header_bytes
      /\ fs_root' = fs_root /\ root_nodes' = root_nodes /\ pc' = "make_data" /\ k' = 1
  BY DEF make_headers_done, nodes, image
<1>2. /\ files \in Sources /\ nfiles = Len(files) /\ k \in 1 .. nfiles + 1
      /\ Len(headers) = k - 1 /\ Pointing /\ header_bytes = HEADER + FILE_HEADER * (k - 1)
      /\ current_offset = HeadersSize + Begin(k) /\ data = << >>
      /\ ~fs_root /\ root_nodes = << >>
  BY <1>1 DEF IInv, Making, ShellPlaces
<1>3. /\ Len(files) \in Nat \ {0} /\ Begin(1) = 0
  BY FilesFit DEF IInv
<1>4. k = nfiles + 1 /\ k - 1 = nfiles /\ 1 \in 1 .. nfiles + 1
  BY <1>1, <1>2, <1>3
<1>5. (\A n : Begin(n)' = Begin(n)) /\ HeadersSize' = HeadersSize
  BY <1>1 DEF Begin, HeadersSize
<1>6. LaidOut
  BY <1>2, <1>4 DEF LaidOut, HeadersSize
<1>7. LaidOut'
  BY <1>1, <1>5, <1>6 DEF LaidOut, Pointing
<1>8. Written(0)
  <2>1. data \in Seq(Nat) /\ Len(data) = 0
    BY <1>2
  <2>2. 0 + 1 = 1 /\ 1 .. 0 = {}
    OBVIOUS
  <2> QED
    BY <1>3, <2>1, <2>2 DEF Written
<1>9. Written(k - 1)'
  <2>1. /\ data' \in Seq(Nat) /\ Len(data') = DataBefore(files')[(0 + 1) - 1]
        /\ \A n \in 1 .. 0 :
             \A i \in 1 .. Len(files'[n].data) : data'[Begin(n)' + i] = files'[n].data[i]
    BY <1>1, <1>8 DEF Written, Begin
  <2>2. k' - 1 = 0 /\ (k' - 1) + 1 = 0 + 1
    BY <1>1
  <2> QED
    BY <2>1, <2>2 DEF Written, Begin
<1>10. Making'
  BY <1>1, <1>2, <1>4, <1>7, <1>9 DEF Making, ShellPlaces
<1> QED
  BY <1>1, <1>10 DEF IInv, ReadsOwnFile

\* The data of a file lie ahead of those of the files after it.
LEMMA FilesInOrder ==
    ASSUME Making, NEW n \in 1 .. Len(files), NEW m \in n + 1 .. Len(files) + 1
    PROVE  /\ Begin(n) \in Nat /\ Begin(m) \in Nat /\ Len(files[n].data) \in Nat
           /\ Begin(n) + Len(files[n].data) <= Begin(m)
<1>1. files \in Files /\ Begin(n + 1) = Begin(n) + Len(files[n].data) /\ Begin(n) \in Nat
      /\ Len(files[n].data) \in Nat /\ Len(files) \in Nat
  BY FilesFit
<1>2. PICK s \in Files : s = files
  BY <1>1
<1>3. PICK b : b = DataBefore(s)
  OBVIOUS
<1>4. n \in 0 .. Len(s) /\ m - 1 \in n .. Len(s)
  BY <1>1, <1>2
<1>5. PICK i \in n .. Len(s) : i = m - 1
  BY <1>4
<1>6. b[n] <= b[i] /\ b[i] \in Nat
  BY <1>3, <1>4, <1>5, SumsGrow
<1>7. Begin(n + 1) = b[n]
  <2>1. (n + 1) - 1 = n
    BY <1>1
  <2> QED
    BY <1>2, <1>3, <2>1 DEF Begin
<1>8. Begin(m) = b[i]
  BY <1>2, <1>3, <1>5 DEF Begin
<1> QED
  BY <1>1, <1>6, <1>7, <1>8

LEMMA make_dataInv ==
    ASSUME IInv, make_data
    PROVE  IInv'
<1>1. /\ pc = "make_data" /\ k <= nfiles /\ files' = files /\ nfiles' = nfiles
      /\ data' = data \o files[k].data /\ k' = k + 1 /\ pc' = pc
      /\ headers' = headers /\ current_offset' = current_offset /\ header_bytes' = header_bytes
      /\ fs_root' = fs_root /\ root_nodes' = root_nodes
  BY DEF make_data, nodes
<1>2. /\ Making /\ files \in Sources /\ LaidOut /\ k \in 1 .. nfiles + 1 /\ Written(k - 1)
      /\ ~fs_root /\ root_nodes = << >>
  BY <1>1 DEF IInv, Making, ShellPlaces
<1>3. nfiles = Len(files) /\ k \in 1 .. Len(files) /\ Len(files) \in Nat /\ k \in Nat
  BY <1>1, <1>2, FilesFit DEF LaidOut
<1>4. /\ Begin(k) \in Nat /\ Len(files[k].data) \in Nat /\ files[k].data \in Seq(Nat)
      /\ Begin(k + 1) = Begin(k) + Len(files[k].data)
  BY <1>2, <1>3, FilesFit
<1>5. (\A n : Begin(n)' = Begin(n)) /\ HeadersSize' = HeadersSize
  BY <1>1 DEF Begin, HeadersSize
<1>6. /\ data \in Seq(Nat) /\ Len(data) = Begin(k)
      /\ \A n \in 1 .. k - 1 :
           \A i \in 1 .. Len(files[n].data) : data[Begin(n) + i] = files[n].data[i]
  <2>1. (k - 1) + 1 = k
    BY <1>3
  <2> QED
    BY <1>2, <2>1 DEF Written
<1>7. PICK t \in Seq(Nat) : t = files[k].data
  BY <1>4
<1>8. PICK d \in Seq(Nat) : d = data
  BY <1>6
<1>9. PICK e : e = d \o t
  OBVIOUS
<1>10. /\ e \in Seq(Nat) /\ Len(e) = Len(d) + Len(t)
       /\ \A i \in 1 .. Len(d) : e[i] = d[i]
       /\ \A i \in 1 .. Len(t) : e[Len(d) + i] = t[i]
  BY <1>9
<1>11. ASSUME NEW n \in 1 .. k, NEW i \in 1 .. Len(files[n].data)
       PROVE  e[Begin(n) + i] = files[n].data[i]
  <2>1. CASE n = k
    BY <1>6, <1>7, <1>8, <1>10, <2>1
  <2>2. CASE n # k
    <3>1. n \in 1 .. k - 1 /\ n \in 1 .. Len(files) /\ k \in n + 1 .. Len(files) + 1
      BY <1>3, <2>2
    <3>2. /\ Begin(n) \in Nat /\ Len(files[n].data) \in Nat
          /\ Begin(n) + Len(files[n].data) <= Begin(k)
      BY <1>2, <3>1, FilesInOrder
    <3>3. Begin(n) + i \in 1 .. Len(d)
      BY <1>4, <1>6, <1>8, <3>2
    <3>4. data[Begin(n) + i] = files[n].data[i]
      BY <1>6, <3>1
    <3> QED
      BY <1>8, <1>10, <3>3, <3>4
  <2> QED
    BY <2>1, <2>2
<1>12. Written(k)
       <=> (/\ data \in Seq(Nat) /\ Len(data) = Begin(k + 1)
            /\ \A n \in 1 .. k :
                 \A i \in 1 .. Len(files[n].data) : data[Begin(n) + i] = files[n].data[i])
  BY DEF Written
<1>13. e = data'
  BY <1>1, <1>7, <1>8, <1>9
<1>14. Written(k - 1)'
  <2>1. k' - 1 = k /\ (k' - 1) + 1 = k + 1
    BY <1>1, <1>3
  <2>2. data' \in Seq(Nat) /\ Len(data') = Begin(k + 1)
    BY <1>4, <1>6, <1>7, <1>8, <1>10, <1>13
  <2>3. DataBefore(files')[((k' - 1) + 1) - 1] = Begin(k + 1)
    BY <1>1, <2>1 DEF Begin
  <2>4. \A n \in 1 .. k' - 1 :
          \A i \in 1 .. Len(files'[n].data) : data'[Begin(n)' + i] = files'[n].data[i]
    BY <1>1, <1>5, <1>11, <1>13, <2>1
  <2>5. Len(data') = DataBefore(files')[((k' - 1) + 1) - 1]
    BY <2>2, <2>3
  <2>6. \A n \in 1 .. k' - 1 :
          \A i \in 1 .. Len(files'[n].data) :
            data'[DataBefore(files')[n - 1] + i] = files'[n].data[i]
    BY <2>4 DEF Begin
  <2> QED
    BY <2>2, <2>5, <2>6, Zenon DEF Written, Begin
<1>15. LaidOut'
  BY <1>1, <1>2, <1>5 DEF LaidOut, Pointing
<1>16. k' \in Nat /\ k' \in 1 .. nfiles' + 1
  BY <1>1, <1>3
<1>17. Making'
  BY <1>1, <1>2, <1>14, <1>15, <1>16 DEF Making, ShellPlaces
<1> QED
  BY <1>1, <1>17 DEF IInv, ReadsOwnFile
----------------------------------------------------------------------------
(* The steps of the kernel *)

LEMMA initialise_initrdInv ==
    ASSUME IInv, initialise_initrd
    PROVE  IInv'
<1>1. /\ pc = "make_data" /\ k > nfiles /\ pc' = "shell" /\ k' = 0
      /\ files' = files /\ nfiles' = nfiles /\ headers' = headers /\ data' = data
      /\ current_offset' = current_offset /\ header_bytes' = header_bytes
      /\ fs_root' = TRUE /\ root_nodes' = [n \in 1 .. nfiles |-> Node(n)]
  BY DEF initialise_initrd, image
<1>2. Making /\ files \in Sources /\ LaidOut /\ k \in 1 .. nfiles + 1 /\ Written(k - 1)
  BY <1>1 DEF IInv, Making
<1>3. k - 1 = nfiles
  BY <1>1, <1>2, FilesFit DEF LaidOut
<1>4. (\A n : Begin(n)' = Begin(n)) /\ HeadersSize' = HeadersSize /\ (\A n : Node(n)' = Node(n))
  BY <1>1 DEF Begin, HeadersSize, Node
<1>5. Written(nfiles)'
  <2>1. Written(nfiles)
    BY <1>2, <1>3
  <2> QED
    BY <1>1, <1>4, <2>1 DEF Written
<1>6. LaidOut'
  BY <1>1, <1>2, <1>4 DEF LaidOut, Pointing
<1>7. (root_nodes = [n \in 1 .. nfiles |-> Node(n)])'
  BY <1>1, <1>4
<1>8. pc' \in ShellPlaces /\ pc' \notin {"make", "make_headers", "make_data", "failed"}
  BY <1>1 DEF ShellPlaces
<1>9. Making'
  BY <1>1, <1>2, <1>5, <1>6, <1>7, <1>8 DEF Making
<1> QED
  BY <1>1, <1>9 DEF IInv, ReadsOwnFile

LEMMA no_moduleInv ==
    ASSUME IInv, no_module
    PROVE  IInv'
<1>1. /\ pc = "make" /\ pc' = "shell" /\ k' = k
      /\ files' = files /\ nfiles' = nfiles /\ headers' = headers /\ data' = data
      /\ current_offset' = current_offset /\ header_bytes' = header_bytes
      /\ fs_root' = fs_root /\ root_nodes' = root_nodes
  BY DEF no_module, image, nodes
<1>2. Making'
  BY <1>1 DEF IInv, Making, ShellPlaces
<1> QED
  BY <1>1, <1>2 DEF IInv, ReadsOwnFile

\* The number of bytes that a sequence has from offset on, at most size.
Clipped(s, offset, size) == IF offset + size > Len(s) THEN Len(s) - offset ELSE size

\* The first n bytes of the buffer are those.
Read(buffer, n, s, offset, size) ==
    /\ n = Clipped(s, offset, size) /\ buffer \in Seq(Int) /\ n <= Len(buffer)
    /\ \A i \in 1 .. n : buffer[i] = s[offset + i]

LEMMA SliceIs ==
    ASSUME NEW s \in Seq(Nat), NEW offset \in Nat, NEW size \in Nat, NEW n \in Nat,
           offset <= Len(s), NEW buffer, Read(buffer, n, s, offset, size)
    PROVE  SubSeq(buffer, 1, n) = Slice(s, offset, size)
<1> USE DEF Read
<1>1. PICK l \in Nat : l = Len(s)
  OBVIOUS
<1>2. PICK e : e = IF offset + size < Len(s) THEN offset + size ELSE Len(s)
  OBVIOUS
<1>3. e = offset + n /\ e <= l /\ e \in Nat
  BY <1>1, <1>2 DEF Clipped
<1>4. PICK t : t = SubSeq(s, offset + 1, e)
  OBVIOUS
<1>5. t \in Seq(Nat) /\ Len(t) = n /\ \A i \in 1 .. n : t[i] = s[offset + i]
  <2>1. PICK m \in Nat : m = offset + 1
    OBVIOUS
  <2>2. m \in 1 .. Len(s) + 1 /\ e \in m - 1 .. Len(s) /\ e - m + 1 = n
    BY <1>1, <1>3, <2>1
  <2>3. t = SubSeq(s, m, e)
    BY <1>4, <2>1
  <2>4. /\ t \in Seq(Nat) /\ Len(t) = (IF m <= e THEN e - m + 1 ELSE 0)
        /\ \A i \in 1 .. e - m + 1 : t[i] = s[m + i - 1]
    <3>1. m \in Int /\ e \in Int /\ \A i \in m .. e : s[i] \in Nat
      BY <1>1, <1>3, <2>1
    <3>2. /\ SubSeq(s, m, e) \in Seq(Nat)
          /\ Len(SubSeq(s, m, e)) = (IF m <= e THEN e - m + 1 ELSE 0)
          /\ \A i \in 1 .. e - m + 1 : SubSeq(s, m, e)[i] = s[m + i - 1]
      BY <3>1, SubSeqProperties, SMTT(20)
    <3> QED
      BY <2>3, <3>2, Zenon
  <2>5. \A i \in 1 .. n : m + i - 1 = offset + i
    BY <2>1
  <2>6. (IF m <= e THEN e - m + 1 ELSE 0) = n
    BY <1>3, <2>1
  <2>7. Len(t) = n
    BY <2>4, <2>6
  <2>8. ASSUME NEW i \in 1 .. n
        PROVE  t[i] = s[offset + i]
    <3>1. i \in 1 .. e - m + 1
      BY <2>2
    <3>2. t[i] = s[m + i - 1]
      BY <2>4, <3>1
    <3>3. m + i - 1 = offset + i
      BY <2>1
    <3> QED
      BY <3>2, <3>3
  <2> QED
    BY <2>4, <2>7, <2>8
<1>6. PICK u : u = SubSeq(buffer, 1, n)
  OBVIOUS
<1>7. u \in Seq(Int) /\ Len(u) = n /\ \A i \in 1 .. n : u[i] = buffer[i]
  BY <1>6
<1>8. t = u
  <2>1. t = [i \in 1 .. n |-> t[i]] /\ u = [i \in 1 .. n |-> u[i]]
    BY <1>5, <1>7
  <2>2. \A i \in 1 .. n : t[i] = u[i]
    BY <1>5, <1>7
  <2> QED
    BY <2>1, <2>2
<1> QED
  BY <1>2, <1>4, <1>6, <1>8 DEF Slice

\* What initrd_read puts into a buffer of the n-th file, wherever it lies in the image.
LEMMA ReadsBytes ==
    ASSUME Making, pc \in ShellPlaces, fs_root, NEW f \in 1 .. nfiles,
           NEW offset \in Nat, NEW size \in Nat, offset + size < WORD,
           NEW room \in Nat, size <= room, NEW r, r = vfs_read(f, offset, size, Fresh(room))
    PROVE  /\ files[f].data \in Seq(Nat)
           /\ IF offset > Len(files[f].data) THEN r.size = 0 /\ r.buffer = Fresh(room)
              ELSE /\ r.size \in 0 .. size /\ Len(r.buffer) = room
                   /\ Read(r.buffer, r.size, files[f].data, offset, size)
<1>1. /\ LaidOut /\ Written(nfiles) /\ root_nodes = [n \in 1 .. nfiles |-> Node(n)]
      /\ files \in Files /\ nfiles = Len(files) /\ Len(headers) = Len(files) /\ Len(files) \in Nat
  BY FilesFit DEF Making, LaidOut, ShellPlaces
<1>2. f \in 1 .. Len(files) /\ f \in Nat /\ f # 0
  BY <1>1
<1>3. PICK d \in Seq(Nat) : d = files[f].data
  BY <1>2, FilesFit
<1>4. PICK l \in Nat : l = Len(d)
  OBVIOUS
<1>5. PICK H \in Nat : H = HeadersSize
  BY FilesFit
<1>6. PICK b \in Nat : b = Begin(f)
  BY <1>2, FilesFit
<1>7. headers[f].offset = H + b /\ headers[f].length = l /\ header_bytes = H
  BY <1>1, <1>2, <1>3, <1>4, <1>5, <1>6 DEF LaidOut, Pointing
<1>8. data \in Seq(Nat) /\ b + l <= Len(data) /\ \A i \in 1 .. l : data[b + i] = d[i]
  <2>1. Len(files) + 1 \in f + 1 .. Len(files) + 1
    BY <1>1, <1>2
  <2>2. Begin(f) + Len(files[f].data) <= Begin(Len(files) + 1)
    BY <1>2, <2>1, FilesInOrder
  <2> QED
    BY <1>1, <1>2, <1>3, <1>4, <1>6, <2>2 DEF Written
<1>9. PICK w \in Nat : w = WORD /\ offset + size < w /\ w > 0
  BY LayoutAssumption
<1>10. (offset + size) % w = offset + size
  BY <1>9
<1>11. root_nodes[f].inode + 1 = f
  BY <1>1, <1>2 DEF Node
<1>12. PICK n : n = Clipped(d, offset, size)
  OBVIOUS
<1>13. r = IF offset > l THEN [size |-> 0, buffer |-> Fresh(room)]
           ELSE [size |-> n, buffer |-> memcpy(Fresh(room), ImageAt(H + b + offset, n), n)]
  <2>1. r = initrd_read(root_nodes[f].inode, offset, size, Fresh(room))
    BY <1>2 DEF vfs_read
  <2>2. r = LET h == headers[f]
                m == IF offset + size > h.length THEN h.length - offset ELSE size
            IN IF offset > h.length THEN [size |-> 0, buffer |-> Fresh(room)]
               ELSE [size |-> m,
                     buffer |-> memcpy(Fresh(room), ImageAt(h.offset + offset, m), m)]
    BY <1>9, <1>10, <1>11, <2>1 DEF initrd_read
  <2> QED
    BY <1>4, <1>7, <1>12, <2>2 DEF Clipped
<1>14. CASE offset > l
  BY <1>3, <1>4, <1>13, <1>14
<1>15. CASE offset <= l
  <2>1. n \in Nat /\ n <= size /\ offset + n <= l
    BY <1>4, <1>12, <1>15 DEF Clipped
  <2>2. PICK im : im = ImageAt(H + b + offset, n)
    OBVIOUS
  <2>3. ASSUME NEW i \in 1 .. n
        PROVE  im[i] = d[offset + i]
    <3>1. H + b + offset - H + i = b + (offset + i) /\ offset + i \in 1 .. l
      BY <2>1
    <3>2. b + (offset + i) \in 1 .. Len(data)
      <4>1. PICK j \in 1 .. l : j = offset + i
        BY <3>1
      <4>2. Len(data) \in Nat
        BY <1>8
      <4>3. b + j \in 1 .. Len(data)
        BY <1>8, <4>2
      <4> QED
        BY <4>1, <4>3
    <3>3. b + (offset + i) \in DOMAIN data
      BY <1>8, <3>2
    <3>4. im[i] = LET at == H + b + offset - H + i IN IF at \in DOMAIN data THEN data[at] ELSE Beyond
      BY <1>7, <2>2 DEF ImageAt
    <3> QED
      BY <1>8, <3>1, <3>3, <3>4
  <2>4. PICK buffer : buffer = r.buffer
    OBVIOUS
  <2>5. buffer = memcpy(Fresh(room), im, n) /\ r.size = n
    BY <1>4, <1>13, <1>15, <2>2, <2>4
  <2>6. Fresh(room) \in Seq(Int) /\ Len(Fresh(room)) = room
        /\ \A i \in 1 .. room : Fresh(room)[i] = -1
    BY DEF Fresh, Beyond
  <2>7. buffer = [i \in 1 .. room |-> IF i <= n THEN im[i] ELSE -1]
    <3>1. buffer = [i \in 1 .. Len(Fresh(room)) |-> IF i <= n THEN im[i] ELSE Fresh(room)[i]]
      BY <2>5 DEF memcpy
    <3> HIDE DEF Fresh
    <3> QED
      BY <2>6, <3>1
  <2>8. \A i \in 1 .. n : d[offset + i] \in Nat
    BY <1>4, <2>1
  <2>9. buffer \in Seq(Int) /\ Len(buffer) = room /\ \A i \in 1 .. n : buffer[i] = d[offset + i]
    <3>1. \A i \in 1 .. room : buffer[i] \in Int
      BY <2>1, <2>3, <2>7, <2>8
    <3>2. \A i \in 1 .. n : buffer[i] = d[offset + i]
      BY <2>1, <2>3, <2>7
    <3>3. buffer \in [1 .. room -> Int]
      BY <2>7, <3>1
    <3> QED
      BY <3>2, <3>3
  <2>10. Read(buffer, n, d, offset, size)
    <3>1. n <= Len(buffer)
      BY <2>1, <2>9
    <3> QED
      BY <1>12, <2>9, <3>1 DEF Read
  <2> QED
    BY <1>3, <1>4, <1>15, <2>1, <2>4, <2>5, <2>9, <2>10
<1> QED
  BY <1>14, <1>15

LEMMA ReadsFile ==
    ASSUME Making, pc \in ShellPlaces, fs_root, NEW f \in 1 .. nfiles,
           NEW offset \in Nat, NEW size \in Nat, offset + size < WORD,
           NEW r, r = vfs_read(f, offset, size, Fresh(size))
    PROVE  SubSeq(r.buffer, 1, r.size) = Slice(files[f].data, offset, size)
<1>1. PICK d : d = files[f].data
  OBVIOUS
<1>2. PICK n : n = r.size
  OBVIOUS
<1>3. PICK buffer : buffer = r.buffer
  OBVIOUS
<1>4. /\ d \in Seq(Nat)
      /\ IF offset > Len(d) THEN n = 0 /\ buffer = Fresh(size)
         ELSE n \in 0 .. size /\ Read(buffer, n, d, offset, size)
  BY <1>1, <1>2, <1>3, ReadsBytes
<1>5. PICK l \in Nat : l = Len(d)
  BY <1>4
<1>6. CASE offset > l
  <2>1. SubSeq(buffer, 1, n) = << >>
    <3>1. Fresh(size) \in Seq(Int)
      BY DEF Fresh, Beyond
    <3> QED
      BY <1>4, <1>5, <1>6, <3>1
  <2>2. SubSeq(d, offset + 1, IF offset + size < l THEN offset + size ELSE l) = << >>
    BY <1>4, <1>5, <1>6
  <2> QED
    BY <1>1, <1>2, <1>3, <1>5, <2>1, <2>2 DEF Slice
<1>7. CASE offset <= l
  <2>1. n \in Nat /\ offset <= Len(d) /\ Read(buffer, n, d, offset, size)
    BY <1>4, <1>5, <1>7
  <2>2. SubSeq(buffer, 1, n) = Slice(d, offset, size)
    BY <1>4, <2>1, SliceIs
  <2> QED
    BY <1>1, <1>2, <1>3, <2>2
<1> QED
  BY <1>5, <1>6, <1>7

LEMMA read_fileInv ==
    ASSUME IInv, NEW node \in 0 .. nfiles, NEW offset \in Nat, NEW size \in Nat,
           read_file(node, offset, size)
    PROVE  IInv'
<1>1. /\ pc = "shell" /\ fs_root /\ pc' = "read"
      /\ request' = [NoRequest EXCEPT !.node = node, !.offset = offset, !.size = size]
      /\ reply' = LET r == vfs_read(node, offset, size, Fresh(size)) IN SubSeq(r.buffer, 1, r.size)
      /\ UNCHANGED <<image, k, nodes>>
  BY DEF read_file
<1>2. pc \in ShellPlaces /\ pc' \in ShellPlaces /\ k' \in Nat /\ Making
  BY <1>1 DEF ShellPlaces, IInv, Making
<1>3. Making'
  BY <1>1, <1>2, ShellStays
<1>4. request'.node = node /\ request'.offset = offset /\ request'.size = size
  BY <1>1 DEF NoRequest
<1>5. PICK r : r = vfs_read(node, offset, size, Fresh(size))
  OBVIOUS
<1>6. reply' = SubSeq(r.buffer, 1, r.size) /\ files' = files
  BY <1>1, <1>5 DEF image
<1>7. CASE node = 0
  <2>1. r = [size |-> 0, buffer |-> Fresh(size)]
    BY <1>5, <1>7 DEF vfs_read
  <2>2. Fresh(size) \in Seq(Int)
    BY DEF Fresh, Beyond
  <2>3. reply' = << >>
    BY <1>6, <2>1, <2>2
  <2> QED
    BY <1>3, <1>4, <1>7, <2>3 DEF IInv, ReadsOwnFile
<1>8. CASE node # 0
  <2>1. node \in 1 .. nfiles
    BY <1>8
  <2>2. offset + size < WORD => reply' = Slice(files[node].data, offset, size)
    BY <1>1, <1>2, <1>5, <1>6, <2>1, ReadsFile
  <2>3. ReadsOwnFile'
    BY <1>4, <1>6, <1>8, <2>2 DEF ReadsOwnFile, Slice
  <2> QED
    BY <1>3, <2>3 DEF IInv
<1> QED
  BY <1>7, <1>8
----------------------------------------------------------------------------
(* The commands of the shell *)

LEMMA catInv ==
    ASSUME IInv, NEW name \in Names, cat(name)
    PROVE  IInv'
<1>1. pc = "shell" /\ pc' = "cat" /\ k' = k /\ UNCHANGED <<image, nodes>>
  BY DEF cat
<1>2. pc \in ShellPlaces /\ pc' \in ShellPlaces /\ k' \in Nat /\ Making
  BY <1>1 DEF ShellPlaces, IInv, Making
<1> QED
  BY <1>1, <1>2, ShellStays DEF IInv, ReadsOwnFile

LEMMA lsInv ==
    ASSUME IInv, ls
    PROVE  IInv'
<1>1. pc = "shell" /\ pc' = "ls" /\ k' = k /\ UNCHANGED <<image, nodes>>
  BY DEF ls
<1>2. pc \in ShellPlaces /\ pc' \in ShellPlaces /\ k' \in Nat /\ Making
  BY <1>1 DEF ShellPlaces, IInv, Making
<1> QED
  BY <1>1, <1>2, ShellStays DEF IInv, ReadsOwnFile

LEMMA ls_entryInv ==
    ASSUME IInv, ls_entry
    PROVE  IInv'
<1>1. pc = "ls" /\ pc' = pc /\ k' = k + 1 /\ UNCHANGED <<image, nodes>>
  BY DEF ls_entry
<1>2. pc \in ShellPlaces /\ pc' \in ShellPlaces /\ k' \in Nat /\ Making
  BY <1>1 DEF ShellPlaces, IInv, Making
<1> QED
  BY <1>1, <1>2, ShellStays DEF IInv, ReadsOwnFile

LEMMA returnInv ==
    ASSUME IInv, return
    PROVE  IInv'
<1>1. pc \in {"read", "cat", "ls"} /\ pc' = "shell" /\ k' = 0 /\ UNCHANGED <<image, nodes>>
  BY DEF return
<1>2. pc \in ShellPlaces /\ pc' \in ShellPlaces /\ k' \in Nat /\ Making
  BY <1>1 DEF ShellPlaces, IInv
<1> QED
  BY <1>1, <1>2, ShellStays DEF IInv, ReadsOwnFile

LEMMA StutterInv ==
    ASSUME IInv, UNCHANGED vars
    PROVE  IInv'
<1>1. /\ files' = files /\ nfiles' = nfiles /\ headers' = headers /\ data' = data
      /\ current_offset' = current_offset /\ header_bytes' = header_bytes
      /\ fs_root' = fs_root /\ root_nodes' = root_nodes /\ pc' = pc /\ k' = k
      /\ request' = request /\ reply' = reply
  BY DEF vars, image, nodes, shell
<1>2. (\A n : Begin(n)' = Begin(n)) /\ HeadersSize' = HeadersSize /\ (\A n : Node(n)' = Node(n))
  BY <1>1 DEF Begin, HeadersSize, Node
<1>3. Making'
  <2>1. Making
    BY DEF IInv
  <2> QED
    BY <1>1, <1>2, <2>1 DEF Making, LaidOut, Pointing, Written, Begin, HeadersSize, Node
<1> QED
  BY <1>1, <1>3 DEF IInv, ReadsOwnFile, Slice

LEMMA NextInv ==
    ASSUME IInv, [Next]_vars
    PROVE  IInv'
<1>1. CASE make_header
  BY <1>1, make_headerInv
<1>2. CASE make_file_header
  BY <1>2, make_file_headerInv
<1>3. CASE make_headers_done
  BY <1>3, make_headers_doneInv
<1>4. CASE make_data
  BY <1>4, make_dataInv
<1>5. CASE initialise_initrd
  BY <1>5, initialise_initrdInv
<1>6. CASE no_module
  BY <1>6, no_moduleInv
<1>7. CASE \E node \in 0 .. nfiles, offset, size \in Extents : read_file(node, offset, size)
  <2>1. PICK node \in 0 .. nfiles, offset \in Extents, size \in Extents :
          read_file(node, offset, size)
    BY <1>7
  <2>2. offset \in Nat /\ size \in Nat
    BY LayoutAssumption DEF Extents
  <2> QED
    BY <2>1, <2>2, read_fileInv
<1>8. CASE \E name \in Names : cat(name)
  BY <1>8, catInv
<1>9. CASE ls
  BY <1>9, lsInv
<1>10. CASE ls_entry
  BY <1>10, ls_entryInv
<1>11. CASE return
  BY <1>11, returnInv
<1>12. CASE failed
  BY <1>12, StutterInv DEF failed
<1>13. CASE UNCHANGED vars
  BY <1>13, StutterInv
<1> QED
  BY <1>1, <1>2, <1>3, <1>4, <1>5, <1>6, <1>7, <1>8, <1>9, <1>10, <1>11, <1>12, <1>13 DEF Next

\* What make_initrd has written so far is laid out one file behind the other, each header
\* pointing at its file, and the kernel's nodes are those of the headers.
THEOREM Inductive == Spec => []IInv
<1>1. Init => IInv
  BY Initially
<1>2. IInv /\ [Next]_vars => IInv'
  BY NextInv
<1> QED
  BY <1>1, <1>2, PTL DEF Spec

----------------------------------------------------------------------------
(* What cat prints *)

\* The name in a header, and in the node that is made of it.
Named(text) == SubSeq(text, 1, IF Len(text) < NAME THEN Len(text) ELSE NAME - 1)

LEMMA strncpyHolds ==
    ASSUME NEW text \in Name
    PROVE  /\ Named(text) \in Name /\ Len(Named(text)) < NAME
           /\ Holds(strncpy(text), Named(text)) /\ Len(strncpy(text)) = NAME
<1>1. PICK l \in Nat : l = Len(text)
  BY DEF Name
<1>2. PICK m \in Nat : m = NAME /\ m > 0
  BY LayoutAssumption
<1>3. PICK e : e = IF l < m THEN l ELSE m - 1
  OBVIOUS
<1>4. e \in Nat /\ e < m /\ e <= l /\ \A i \in 1 .. m : (i <= l /\ i < m <=> i <= e)
  BY <1>1, <1>2, <1>3
<1>5. PICK t : t = Named(text)
  OBVIOUS
<1>6. t \in Name /\ Len(t) = e /\ \A i \in 1 .. e : t[i] = text[i]
  <2>1. t = SubSeq(text, 1, e)
    BY <1>1, <1>2, <1>3, <1>5 DEF Named
  <2> QED
    BY <1>1, <1>4, <2>1 DEF Name
<1>7. PICK s : s = strncpy(text)
  OBVIOUS
<1>8. s = [n \in 1 .. m |-> IF n <= e THEN text[n] ELSE 0]
  BY <1>1, <1>2, <1>4, <1>7 DEF strncpy, NUL
<1>9. \A i \in 1 .. e : text[i] \in Int
  BY <1>1, <1>4, ElementOfSeq DEF Name
<1>10. s \in [1 .. m -> Int]
  BY <1>8, <1>9
<1>11. s \in Seq(Int) /\ Len(s) = m
  BY <1>10
<1>12. s[e + 1] = 0 /\ \A i \in 1 .. e : s[i] = t[i]
  BY <1>4, <1>6, <1>8
<1> QED
  BY <1>2, <1>4, <1>5, <1>6, <1>7, <1>11, <1>12 DEF Holds

\* The name in a node is the one in the header: strcpy into cleared memory.
LEMMA NodeHolds ==
    ASSUME NEW n \in Nat, NEW text \in Name, headers[n].name = strncpy(text)
    PROVE  Holds(Node(n).name, Named(text))
<1>1. PICK t : t = Named(text)
  OBVIOUS
<1>2. PICK s : s = strncpy(text)
  OBVIOUS
<1>3. t \in Name /\ Len(t) < NAME /\ Holds(s, t)
  BY <1>1, <1>2, strncpyHolds
<1>4. PICK l \in Nat : l = Len(t)
  BY <1>3 DEF Name
<1>5. strlen(s) = l
  BY <1>3, <1>4, strlenIs
<1>6. PICK m \in Nat : m = NODE_NAME /\ l < m
  BY <1>3, <1>4, LayoutAssumption
<1>7. PICK d : d = memset([i \in 1 .. m |-> 1], 0, m)
  OBVIOUS
<1>8. d = [i \in 1 .. m |-> 0] /\ Len(d) = m
  <2>1. 0 % 256 = 0
    OBVIOUS
  <2> QED
    BY <1>7, <2>1 DEF memset
<1>9. PICK w : w = Node(n).name
  OBVIOUS
<1>10. w = strcpy(d, s)
  BY <1>2, <1>6, <1>7, <1>9 DEF Node, NUL
<1>11. w = [k_1 \in 1 .. m |-> IF k_1 <= l THEN s[k_1] ELSE 0]
  BY <1>5, <1>8, <1>10 DEF strcpy, NUL
<1>12. \A i \in 1 .. l : s[i] = t[i] /\ s[i] \in Int
  BY <1>3, <1>4, ElementOfSeq DEF Holds
<1>13. w \in [1 .. m -> Int]
  BY <1>11, <1>12
<1>14. w \in Seq(Int) /\ Len(w) = m
  BY <1>13
<1>15. w[l + 1] = 0 /\ \A i \in 1 .. l : w[i] = t[i]
  BY <1>6, <1>11, <1>12
<1> QED
  BY <1>1, <1>4, <1>6, <1>9, <1>14, <1>15 DEF Holds

\* Every file has a node with its name, cut to what a header holds.
LEMMA NodeNames ==
    ASSUME Making, pc \in ShellPlaces, fs_root, NEW i \in 1 .. nfiles
    PROVE  /\ Holds(root_nodes[i].name, ImageName(i)) /\ ImageName(i) \in Name
           /\ Len(ImageName(i)) < NAME
<1>1. /\ LaidOut /\ root_nodes = [n \in 1 .. nfiles |-> Node(n)]
      /\ nfiles = Len(files) /\ Len(headers) = Len(files) /\ Len(files) \in Nat /\ files \in Sources
  BY FilesFit DEF Making, LaidOut, ShellPlaces
<1>2. PICK text \in Name : text = FileName(files[i].path)
  BY <1>1, SourceFiles DEF Name
<1>3. headers[i].name = strncpy(text) /\ i \in Nat
  BY <1>1, <1>2 DEF LaidOut, Pointing
<1>4. Holds(Node(i).name, Named(text)) /\ Named(text) \in Name /\ Len(Named(text)) < NAME
  BY <1>3, NodeHolds, strncpyHolds
<1>5. ImageName(i) = Named(text) /\ root_nodes[i].name = Node(i).name
  BY <1>1, <1>2 DEF ImageName, Named
<1> QED
  BY <1>4, <1>5

\* What initrd_finddir finds: the first file with the name in its header.
LEMMA FindsFirst ==
    ASSUME Making, pc \in ShellPlaces, fs_root, NEW name \in Name, name \notin {Dot, DotDot},
           NEW n \in 1 .. nfiles, ImageName(n) = name,
           \A m \in 1 .. n - 1 : ImageName(m) # name
    PROVE  vfs_finddir(0, Literal(name)) = n
<1>1. nfiles \in Nat
  BY FilesFit DEF Making, LaidOut, ShellPlaces
<1>2. PICK L : L = Literal(name)
  OBVIOUS
<1>3. Holds(L, name)
  BY <1>2, LiteralHolds
<1>4. ASSUME NEW i \in 1 .. nfiles
      PROVE  (strcmp(L, root_nodes[i].name) = 0) <=> (ImageName(i) = name)
  BY <1>3, NodeNames, strcmpIs
<1>5. strcmp(L, Literal(Dot)) # 0 /\ strcmp(L, Literal(DotDot)) # 0
  <2>1. Dot \in Name /\ DotDot \in Name
    BY DEF Dot, DotDot, Name
  <2>2. Holds(Literal(Dot), Dot) /\ Holds(Literal(DotDot), DotDot)
    BY <2>1, LiteralHolds
  <2> QED
    BY <1>3, <2>1, <2>2, strcmpIs
<1>6. PICK found : found = {i \in 1 .. nfiles : strcmp(L, root_nodes[i].name) = 0}
  OBVIOUS
<1>7. n \in found /\ found \in SUBSET Nat /\ \A i \in found : n <= i
  <2>1. n \in found
    BY <1>4, <1>6
  <2>2. ASSUME NEW i \in found
        PROVE  i \in Nat /\ n <= i
    <3>1. i \in 1 .. nfiles /\ ImageName(i) = name
      BY <1>4, <1>6
    <3> QED
      BY <1>1, <3>1
  <2> QED
    BY <2>1, <2>2
<1>8. Min(found) = n
  <2>1. Min(found) \in found /\ \A i \in found : Min(found) <= i
    BY <1>7, MinIs
  <2>2. PICK y : y = Min(found)
    OBVIOUS
  <2>3. y \in Nat /\ n \in Nat /\ n <= y /\ y <= n
    BY <1>7, <2>1, <2>2
  <2> QED
    BY <2>2, <2>3
<1> QED
  BY <1>2, <1>5, <1>6, <1>7, <1>8 DEF vfs_finddir, initrd_finddir

LEMMA PutByte ==
    ASSUME NEW B \in Nat, NEW buffer \in Seq(Int), Len(buffer) = B, NEW m \in 1 .. B,
           NEW buf, buf = [buffer EXCEPT ![m] = 0]
    PROVE  /\ buf \in Seq(Int) /\ Len(buf) = B /\ buf[m] = 0
           /\ \A i \in 1 .. B : i # m => buf[i] = buffer[i]
  OBVIOUS

\* What cat prints of the n-th file.
LEMMA PrintsBytes ==
    ASSUME Making, pc \in ShellPlaces, fs_root, NEW n \in 1 .. nfiles,
           NEW r, r = vfs_read(n, 0, BUF - 1, Fresh(BUF)),
           NEW buf, buf = [r.buffer EXCEPT ![r.size + 1] = NUL]
    PROVE  printf(StringLine, <<buf>>, WORD) = Printed(Slice(files[n].data, 0, BUF - 1))
<1>1. PICK B \in Nat : B = BUF /\ 1 <= B /\ B - 1 \in Nat /\ 0 + (B - 1) < WORD
  BY LayoutAssumption
<1>2. PICK d : d = files[n].data
  OBVIOUS
<1>3. PICK s : s = r.size
  OBVIOUS
<1>4. PICK buffer : buffer = r.buffer
  OBVIOUS
<1>5. d \in Seq(Nat) /\ s \in 0 .. B - 1 /\ Len(buffer) = B /\ Read(buffer, s, d, 0, B - 1)
  <2>1. /\ d \in Seq(Nat)
        /\ IF 0 > Len(d) THEN s = 0 /\ buffer = Fresh(B)
           ELSE s \in 0 .. B - 1 /\ Len(buffer) = B /\ Read(buffer, s, d, 0, B - 1)
    <3>1. B - 1 <= B
      OBVIOUS
    <3> QED
      BY <1>1, <1>2, <1>3, <1>4, <3>1, ReadsBytes
  <2>2. ~(0 > Len(d))
    BY <2>1
  <2> QED
    BY <2>1, <2>2
<1>6. PICK t : t = Slice(d, 0, B - 1)
  OBVIOUS
<1>7. t = SubSeq(buffer, 1, s)
  <2>1. s \in Nat /\ 0 <= Len(d) /\ 0 \in Nat
    BY <1>5
  <2> QED
    BY <1>1, <1>5, <1>6, <2>1, SliceIs
<1>8. buffer \in Seq(Int) /\ s \in Nat /\ s < B
  BY <1>5 DEF Read
<1>9. Len(t) = s /\ \A i \in 1 .. s : t[i] = buffer[i]
  BY <1>5, <1>7, <1>8
<1>10. t \in Seq(Nat)
  <2>1. PICK e : e = IF 0 + (B - 1) < Len(d) THEN 0 + (B - 1) ELSE Len(d)
    OBVIOUS
  <2>2. t = SubSeq(d, 1, e) /\ e \in 0 .. Len(d)
    BY <1>1, <1>5, <1>6, <2>1 DEF Slice
  <2> QED
    BY <1>5, <2>2
<1>11. buf = [buffer EXCEPT ![s + 1] = 0]
  BY <1>3, <1>4 DEF NUL
<1>12. /\ buf \in Seq(Int) /\ Len(buf) = B /\ buf[s + 1] = 0
       /\ \A i \in 1 .. s : buf[i] = buffer[i]
  <2>1. PICK m : m = s + 1
    OBVIOUS
  <2>2. m \in 1 .. B /\ \A i \in 1 .. s : i \in 1 .. B /\ i # m
    BY <1>8, <2>1
  <2>3. buf = [buffer EXCEPT ![m] = 0]
    BY <1>11, <2>1
  <2>4. /\ buf \in Seq(Int) /\ Len(buf) = B /\ buf[m] = 0
        /\ \A i \in 1 .. B : i # m => buf[i] = buffer[i]
    <3>1. B \in Nat /\ buffer \in Seq(Int) /\ Len(buffer) = B /\ m \in 1 .. B
      BY <1>5, <1>8, <2>2
    <3> QED
      BY ONLY <2>3, <3>1, PutByte
  <2> QED
    BY <2>1, <2>2, <2>4
<1>13. Text(buf) \in Seq(Int) /\ Text(buf) \o <<NL>> = Printed(t)
  <2>1. Len(t) < Len(buf) /\ buf[Len(t) + 1] = 0 /\ \A i \in 1 .. Len(t) : buf[i] = t[i]
    BY <1>8, <1>9, <1>12
  <2> QED
    BY <1>10, <1>12, <2>1, TextOfBytes
<1>14. buf # nullptr
  BY <1>1, <1>12 DEF nullptr
<1> QED
  BY <1>1, <1>2, <1>6, <1>13, <1>14, PrintfLine DEF StringLine

\* The step of cat, with all its calls.
LEMMA catFinds ==
    ASSUME IInv, NEW name \in Names, cat(name)
    PROVE  CatFindsFile'
<1>1. /\ pc = "shell" /\ pc' = "cat" /\ files' = files /\ nfiles' = nfiles
      /\ request' = [NoRequest EXCEPT !.name = name]
      /\ reply' = LET node == vfs_finddir(0, Literal(name))
                      r == vfs_read(node, 0, BUF - 1, Fresh(BUF))
                      buf == [r.buffer EXCEPT ![r.size + 1] = NUL]
                  IN IF ~fs_root \/ node < 1 THEN << >> ELSE printf(StringLine, <<buf>>, WORD)
  BY DEF cat, image
<1>2. pc \in ShellPlaces /\ Making
  BY <1>1 DEF ShellPlaces, IInv
<1>3. request'.name = name
  BY <1>1 DEF NoRequest
<1>4. name \in Name
  BY NamesAssumption DEF Name, NUL
<1>5. \A n : ImageName(n)' = ImageName(n)
  BY <1>1 DEF ImageName
<1>6. ASSUME Len(name) < NAME, name \notin {Dot, DotDot},
             NEW n \in 1 .. nfiles, FileName(files[n].path) = name, \A m \in 1 .. n - 1 : ImageName(m) # name
      PROVE  reply' = Printed(Slice(files[n].data, 0, BUF - 1))
  <2>1. fs_root /\ nfiles \in Nat /\ n \in Nat
    BY <1>2, <1>6, FilesFit DEF Making, LaidOut
  <2>2. ImageName(n) = name
    <3>1. SubSeq(name, 1, Len(name)) = name
      BY <1>4 DEF Name
    <3> QED
      BY <1>6, <3>1 DEF ImageName
  <2>3. vfs_finddir(0, Literal(name)) = n
    BY <1>2, <1>4, <1>6, <2>1, <2>2, FindsFirst
  <2>4. PICK r : r = vfs_read(n, 0, BUF - 1, Fresh(BUF))
    OBVIOUS
  <2>5. PICK buf : buf = [r.buffer EXCEPT ![r.size + 1] = NUL]
    OBVIOUS
  <2>6. reply' = printf(StringLine, <<buf>>, WORD)
    <3>1. ~(n < 1)
      OBVIOUS
    <3> QED
      BY <1>1, <2>1, <2>3, <2>4, <2>5, <3>1
  <2> QED
    BY <1>2, <2>1, <2>4, <2>5, <2>6, PrintsBytes
<1>7. \A n : Slice(files'[n].data, 0, BUF - 1) = Slice(files[n].data, 0, BUF - 1)
  BY <1>1
<1> QED
  BY <1>1, <1>3, <1>5, <1>6 DEF CatFindsFile

LEMMA CatFindsFileStep ==
    ASSUME IInv, CatFindsFile, [Next]_vars
    PROVE  CatFindsFile'
<1>1. CASE \E name \in Names : cat(name)
  BY <1>1, catFinds
<1>2. CASE UNCHANGED vars
  <2>1. pc' = pc /\ request' = request /\ files' = files /\ nfiles' = nfiles /\ reply' = reply
    BY <1>2 DEF vars, image, shell
  <2> QED
    BY <2>1 DEF CatFindsFile, ImageName
<1>3. CASE failed
  <2>1. pc' # "cat"
    BY <1>3 DEF failed, vars
  <2> QED
    BY <2>1 DEF CatFindsFile
<1>4. CASE \/ make_header \/ make_file_header \/ make_headers_done \/ make_data
           \/ initialise_initrd \/ no_module \/ ls \/ ls_entry \/ return
           \/ \E node \in 0 .. nfiles, offset, size \in Extents : read_file(node, offset, size)
  <2>1. pc' # "cat"
    BY <1>4 DEF make_header, make_file_header, make_headers_done, make_data, initialise_initrd,
                no_module, ls, ls_entry, return, read_file
  <2> QED
    BY <2>1 DEF CatFindsFile
<1> QED
  BY <1>1, <1>2, <1>3, <1>4 DEF Next
----------------------------------------------------------------------------
(* What ls shows *)

\* The name that is in the dirent is found again: as a directory only if it is . or ..
LEMMA FindsAgain ==
    ASSUME Making, pc \in ShellPlaces, fs_root, NEW name \in Name, NEW s, Holds(s, name),
           name \in {Dot, DotDot} \/ \E n \in 1 .. nfiles : ImageName(n) = name
    PROVE  /\ vfs_finddir(0, s) \in Nat
           /\ (vfs_finddir(0, s) = 0) <=> (name \in {Dot, DotDot})
<1>1. nfiles \in Nat
  BY FilesFit DEF Making, LaidOut, ShellPlaces
<1>2. ((strcmp(s, Literal(Dot)) = 0) <=> (name = Dot))
      /\ ((strcmp(s, Literal(DotDot)) = 0) <=> (name = DotDot))
  <2>1. Dot \in Name /\ DotDot \in Name
    BY DEF Dot, DotDot, Name
  <2>2. Holds(Literal(Dot), Dot) /\ Holds(Literal(DotDot), DotDot)
    BY <2>1, LiteralHolds
  <2> QED
    BY <2>1, <2>2, strcmpIs
<1>3. ASSUME NEW i \in 1 .. nfiles
      PROVE  (strcmp(s, root_nodes[i].name) = 0) <=> (ImageName(i) = name)
  BY NodeNames, strcmpIs
<1>4. PICK found : found = {i \in 1 .. nfiles : strcmp(s, root_nodes[i].name) = 0}
  OBVIOUS
<1>5. vfs_finddir(0, s) = IF name \in {Dot, DotDot} THEN 0
                          ELSE IF found = {} THEN -1 ELSE Min(found)
  BY <1>2, <1>4 DEF vfs_finddir, initrd_finddir
<1>6. CASE name \in {Dot, DotDot}
  BY <1>5, <1>6
<1>7. CASE name \notin {Dot, DotDot}
  <2>1. PICK n \in 1 .. nfiles : ImageName(n) = name
    BY <1>7
  <2>2. n \in found /\ found \in SUBSET Nat /\ \A i \in found : i >= 1
    BY <1>1, <1>3, <1>4, <2>1
  <2>3. PICK m : m = Min(found)
    OBVIOUS
  <2>4. m \in Nat /\ m >= 1
    BY <2>2, <2>3, MinIs
  <2> QED
    BY <1>5, <1>7, <2>2, <2>3, <2>4
<1> QED
  BY <1>6, <1>7

\* strcpy over any older string leaves the new one.
LEMMA strcpyHolds ==
    ASSUME NEW d \in Seq(Int), NEW s, NEW text \in Name, Holds(s, text), Len(text) < Len(d)
    PROVE  Holds(strcpy(d, s), text) /\ Len(strcpy(d, s)) = Len(d)
<1>1. PICK l \in Nat : l = Len(text)
  BY DEF Name
<1>2. PICK m \in Nat : m = Len(d) /\ l < m
  BY <1>1
<1>3. strlen(s) = l
  BY <1>1, strlenIs
<1>4. PICK w : w = strcpy(d, s)
  OBVIOUS
<1>5. w = [i \in 1 .. m |-> IF i <= l THEN s[i] ELSE IF i = l + 1 THEN 0 ELSE d[i]]
  BY <1>2, <1>3, <1>4 DEF strcpy, NUL
<1>6. \A i \in 1 .. l : s[i] = text[i] /\ s[i] \in Int
  BY <1>1, ElementOfSeq DEF Holds, Name
<1>7. \A i \in 1 .. m : d[i] \in Int
  BY <1>2, ElementOfSeq
<1>8. w \in [1 .. m -> Int]
  BY <1>5, <1>6, <1>7
<1>9. w \in Seq(Int) /\ Len(w) = m
  BY <1>8
<1>10. w[l + 1] = 0 /\ \A i \in 1 .. l : w[i] = text[i]
  BY <1>2, <1>5, <1>6
<1> QED
  BY <1>1, <1>2, <1>4, <1>9, <1>10 DEF Holds

\* The entry of the root directory with an index, and what ls makes of it.
EntryName(i) == IF i = 0 THEN Dot ELSE IF i = 1 THEN DotDot ELSE ImageName(i - 1)

\* readdir has an entry for every index up to the last file, and none behind it.
LEMMA ReaddirHolds ==
    ASSUME Making, pc \in ShellPlaces, fs_root, NEW i \in Nat
    PROVE  IF i < nfiles + 2
           THEN /\ EntryName(i) \in Name /\ Len(EntryName(i)) < NODE_NAME
                /\ Holds(vfs_readdir(0, i), EntryName(i))
           ELSE vfs_readdir(0, i) = << >>
<1>1. nfiles \in Nat
  BY FilesFit DEF Making, LaidOut, ShellPlaces
<1>2. /\ Dot \in Name /\ DotDot \in Name /\ Holds(Literal(Dot), Dot)
      /\ Holds(Literal(DotDot), DotDot) /\ Len(Dot) = 1 /\ Len(DotDot) = 2
  <2>1. Dot \in Name /\ DotDot \in Name /\ Len(Dot) = 1 /\ Len(DotDot) = 2
    BY DEF Dot, DotDot, Name
  <2> QED
    BY <2>1, LiteralHolds
<1>3. PICK m \in Nat : m = NODE_NAME /\ 3 <= m /\ NAME <= m /\ NAME \in Nat
  BY LayoutAssumption
<1>4. CASE i = 0
  <2>1. vfs_readdir(0, i) = Literal(Dot) /\ EntryName(i) = Dot
    BY <1>4 DEF vfs_readdir, initrd_readdir, EntryName
  <2>2. i < nfiles + 2
    BY <1>1, <1>4
  <2>3. Len(Dot) < NODE_NAME
    BY <1>2, <1>3
  <2> QED
    BY <1>2, <2>1, <2>2, <2>3
<1>5. CASE i = 1
  <2>1. vfs_readdir(0, i) = Literal(DotDot) /\ EntryName(i) = DotDot
    BY <1>5 DEF vfs_readdir, initrd_readdir, EntryName
  <2>2. i < nfiles + 2
    BY <1>1, <1>5
  <2>3. Len(DotDot) < NODE_NAME
    BY <1>2, <1>3
  <2> QED
    BY <1>2, <2>1, <2>2, <2>3
<1>6. CASE i > 1 /\ i < nfiles + 2
  <2>1. i - 1 \in 1 .. nfiles /\ i - 2 < nfiles
    BY <1>1, <1>6
  <2>2. vfs_readdir(0, i) = root_nodes[i - 1].name /\ EntryName(i) = ImageName(i - 1)
    BY <1>6, <2>1 DEF vfs_readdir, initrd_readdir, EntryName
  <2>3. PICK n \in 1 .. nfiles : n = i - 1
    BY <2>1
  <2>4. /\ Holds(root_nodes[n].name, ImageName(n)) /\ ImageName(n) \in Name
        /\ Len(ImageName(n)) < NAME
    BY NodeNames
  <2>5. Len(ImageName(n)) < m
    BY <1>3, <2>4 DEF Name
  <2> QED
    BY <1>3, <1>6, <2>2, <2>3, <2>4, <2>5
<1>7. CASE i >= nfiles + 2
  <2>1. i # 0 /\ i # 1 /\ ~(i - 2 < nfiles)
    BY <1>1, <1>7
  <2>2. vfs_readdir(0, i) = << >>
    BY <2>1 DEF vfs_readdir, initrd_readdir
  <2> QED
    BY <1>1, <1>7, <2>2
<1> QED
  BY <1>1, <1>4, <1>5, <1>6, <1>7

Line == [dir : BOOLEAN, text : Seq(Int)]

LEMMA ShownIs ==
    ASSUME NEW d \in Seq(Nat), NEW dir \in BOOLEAN
    PROVE  Shown(dir, d) \in Line
<1>1. PICK l \in Nat : l = Len(d)
  OBVIOUS
<1>2. PICK I : I = {n \in 1 .. l : d[n] = 0}
  OBVIOUS
<1>3. PICK z : z = UpToNul(d)
  OBVIOUS
<1>4. z = IF I # {} THEN Min(I) ELSE 0
  BY <1>1, <1>2, <1>3 DEF UpToNul, SelectInSeq, NUL
<1>5. z \in 0 .. l
  <2>1. CASE I = {}
    BY <1>4, <2>1
  <2>2. CASE I # {}
    <3>1. I \in SUBSET Nat
      BY <1>2
    <3>2. Min(I) \in I
      BY <2>2, <3>1, MinIs
    <3> QED
      BY <1>2, <1>4, <2>2, <3>2
  <2> QED
    BY <2>1, <2>2
<1>6. PICK u : u = IF z = 0 THEN d ELSE SubSeq(d, 1, z - 1)
  OBVIOUS
<1>7. u \in Seq(Int)
  BY <1>1, <1>5, <1>6
<1>8. Printed(d) = u \o <<10>>
  BY <1>3, <1>6 DEF Printed, NL
<1>9. u \o <<10>> \in Seq(Int)
  BY <1>7
<1> QED
  BY <1>8, <1>9 DEF Shown, Line

LEMMA ListedIs ==
    ASSUME Making, pc \in ShellPlaces, fs_root
    PROVE  /\ Listed \in Seq(Line) /\ Len(Listed) = nfiles + 2
           /\ \A i \in 0 .. nfiles + 1 : Listed[i + 1] = Shown(i < 2, EntryName(i))
<1>1. nfiles \in Nat
  BY FilesFit DEF Making, LaidOut, ShellPlaces
<1>2. PICK a : a = Shown(TRUE, Dot)
  OBVIOUS
<1>3. PICK b : b = Shown(TRUE, DotDot)
  OBVIOUS
<1>4. PICK rest : rest = [n \in 1 .. nfiles |-> Shown(FALSE, ImageName(n))]
  OBVIOUS
<1>5. a \in Line /\ b \in Line
  <2>1. Dot \in Seq(Nat) /\ DotDot \in Seq(Nat)
    BY DEF Dot, DotDot
  <2> QED
    BY <1>2, <1>3, <2>1, ShownIs
<1>6. rest \in Seq(Line) /\ Len(rest) = nfiles
  <2>1. ASSUME NEW n \in 1 .. nfiles
        PROVE  Shown(FALSE, ImageName(n)) \in Line
    <3>1. ImageName(n) \in Seq(Nat)
      BY NodeNames DEF Name
    <3> QED
      BY <3>1, ShownIs
  <2>2. rest \in [1 .. nfiles -> Line]
    BY <1>4, <2>1
  <2> QED
    BY <1>1, <2>2
<1>7. PICK s : s = <<a, b>> \o rest
  OBVIOUS
<1>8. s \in Seq(Line) /\ Len(s) = nfiles + 2 /\ s[1] = a /\ s[2] = b
      /\ \A n \in 1 .. nfiles : s[n + 2] = rest[n]
  <2>1. <<a, b>> \in Seq(Line) /\ Len(<<a, b>>) = 2
    BY <1>5
  <2>2. s \in Seq(Line) /\ Len(s) = 2 + nfiles
    BY <1>6, <1>7, <2>1
  <2>3. s[1] = a /\ s[2] = b
    BY <1>1, <1>6, <1>7, <2>1
  <2>4. \A n \in 1 .. nfiles : s[n + 2] = rest[n]
    BY <1>1, <1>6, <1>7, <2>1
  <2> QED
    BY <1>1, <2>2, <2>3, <2>4
<1>9. Listed = s
  BY <1>2, <1>3, <1>4, <1>7 DEF Listed
<1>10. ASSUME NEW i \in 0 .. nfiles + 1
       PROVE  s[i + 1] = Shown(i < 2, EntryName(i))
  <2>1. CASE i = 0
    <3>1. EntryName(i) = Dot /\ (i < 2) = TRUE /\ i + 1 = 1
      BY <2>1 DEF EntryName
    <3> QED
      BY <1>2, <1>8, <3>1
  <2>2. CASE i = 1
    <3>1. EntryName(i) = DotDot /\ (i < 2) = TRUE /\ i + 1 = 2
      BY <2>2 DEF EntryName
    <3> QED
      BY <1>3, <1>8, <3>1
  <2>3. CASE i > 1
    <3>1. PICK n \in 1 .. nfiles : n = i - 1
      BY <1>1, <2>3
    <3>2. EntryName(i) = ImageName(n) /\ (i < 2) = FALSE /\ i + 1 = n + 2
      BY <2>3, <3>1 DEF EntryName
    <3> QED
      BY <1>4, <1>8, <3>2
  <2> QED
    BY <1>1, <2>1, <2>2, <2>3
<1> QED
  BY <1>8, <1>9, <1>10

LEMMA OneMore ==
    ASSUME NEW S, NEW s \in Seq(S), NEW n \in Nat, n < Len(s)
    PROVE  Append(SubSeq(s, 1, n), s[n + 1]) = SubSeq(s, 1, n + 1)
<1>1. PICK l \in Nat : l = Len(s)
  OBVIOUS
<1>2. PICK t : t = SubSeq(s, 1, n)
  OBVIOUS
<1>3. t \in Seq(S) /\ Len(t) = n /\ \A i \in 1 .. n : t[i] = s[i]
  BY <1>1, <1>2
<1>4. PICK u : u = SubSeq(s, 1, n + 1)
  OBVIOUS
<1>5. u \in Seq(S) /\ Len(u) = n + 1 /\ \A i \in 1 .. n + 1 : u[i] = s[i]
  BY <1>1, <1>4
<1>6. PICK e \in S : e = s[n + 1]
  BY <1>1, ElementOfSeq
<1>7. PICK v : v = Append(t, e)
  OBVIOUS
<1>8. /\ v \in Seq(S) /\ Len(v) = n + 1 /\ v[n + 1] = e /\ \A i \in 1 .. n : v[i] = t[i]
  BY <1>3, <1>6, <1>7
<1>9. \A i \in 1 .. n + 1 : v[i] = u[i]
  BY <1>3, <1>5, <1>6, <1>8
<1>10. v = [i \in 1 .. n + 1 |-> v[i]] /\ u = [i \in 1 .. n + 1 |-> u[i]]
  BY <1>5, <1>8
<1>11. v = u
  BY <1>9, <1>10
<1> QED
  BY <1>2, <1>4, <1>6, <1>7, <1>11

\* A command begins at the first entry with nothing listed, and ls does not run past the last.
Listing ==
    /\ dirent \in Seq(Int) /\ Len(dirent) = NODE_NAME
    /\ pc \in {"make", "shell", "read", "cat"} => k = 0
    /\ pc # "ls" => listing = << >>
    /\ pc = "ls" => fs_root /\ k <= nfiles + 2
    /\ LsInOrder

PlainNames == \A n \in 1 .. nfiles : ImageName(n) \notin {Dot, DotDot}

LEMMA ListingInitially ==
    ASSUME Init
    PROVE  Listing
<1>1. dirent \in Seq(Int) /\ Len(dirent) = NODE_NAME
  <2>1. PICK m \in Nat : m = NODE_NAME
    BY LayoutAssumption
  <2>2. dirent = [n \in 1 .. m |-> 0]
    BY <2>1 DEF Init, NUL
  <2> QED
    BY <2>1, <2>2
<1> QED
  BY <1>1 DEF Init, Listing, LsInOrder

\* The step of the loop of ls: the next entry, through dirent, becomes the next line.
LEMMA ls_entryLists ==
    ASSUME IInv, Listing, ls_entry
    PROVE  Listing'
<1>1. /\ pc = "ls" /\ pc' = "ls" /\ k' = k + 1 /\ files' = files /\ nfiles' = nfiles
      /\ fs_root' = fs_root /\ vfs_readdir(0, k) # << >>
      /\ dirent' = strcpy(dirent, vfs_readdir(0, k))
      /\ listing' = LET fsnode == vfs_finddir(0, dirent') IN
                      IF fsnode < 0 THEN listing
                      ELSE Append(listing, [dir |-> fsnode = 0,
                                            text |-> printf(StringLine, <<dirent'>>, WORD)])
  BY DEF ls_entry, image, nodes
<1>2. /\ Making /\ pc \in ShellPlaces /\ fs_root /\ k \in Nat /\ nfiles \in Nat
      /\ dirent \in Seq(Int) /\ Len(dirent) = NODE_NAME
  BY <1>1, FilesFit DEF IInv, Making, LaidOut, Listing, ShellPlaces
<1>3. PICK name : name = EntryName(k)
  OBVIOUS
<1>4. /\ k < nfiles + 2 /\ name \in Name /\ Len(name) < NODE_NAME
      /\ Holds(vfs_readdir(0, k), name)
  BY <1>1, <1>2, <1>3, ReaddirHolds
<1>5. PICK s : s = dirent'
  OBVIOUS
<1>6. Holds(s, name) /\ Len(s) = NODE_NAME
  BY <1>1, <1>2, <1>4, <1>5, strcpyHolds
<1>7. s \in Seq(Int) /\ k' <= nfiles' + 2
  BY <1>1, <1>2, <1>4, <1>6 DEF Holds
<1>8. PICK L : L = Listed
  OBVIOUS
<1>9. /\ L \in Seq(Line) /\ Len(L) = nfiles + 2 /\ L[k + 1] = Shown(k < 2, name)
  <2>1. k \in 0 .. nfiles + 1
    BY <1>2, <1>4
  <2> QED
    BY <1>2, <1>3, <1>8, <2>1, ListedIs
<1>10. ASSUME PlainNames
       PROVE  listing' = SubSeq(L, 1, k')
  <2>1. (name \in {Dot, DotDot} <=> k < 2)
        /\ (name \in {Dot, DotDot} \/ \E n \in 1 .. nfiles : ImageName(n) = name)
    <3>1. CASE k < 2
      BY <1>2, <1>3, <3>1 DEF EntryName
    <3>2. CASE k >= 2
      <4>1. PICK n \in 1 .. nfiles : n = k - 1
        BY <1>2, <1>4, <3>2
      <4>2. name = ImageName(n)
        BY <1>3, <3>2, <4>1 DEF EntryName
      <4> QED
        BY <1>2, <1>10, <3>2, <4>2 DEF PlainNames
    <3> QED
      BY <1>2, <3>1, <3>2
  <2>2. PICK fsnode : fsnode = vfs_finddir(0, s)
    OBVIOUS
  <2>3. fsnode \in Nat /\ ((fsnode = 0) <=> (k < 2))
    BY <1>2, <1>4, <1>6, <2>1, <2>2, FindsAgain
  <2>4. printf(StringLine, <<s>>, WORD) = Printed(name)
    <3>1. /\ name \in Seq(Nat) /\ Len(name) < Len(s) /\ s[Len(name) + 1] = 0
          /\ \A i \in 1 .. Len(name) : s[i] = name[i]
      BY <1>4, <1>6 DEF Holds, Name
    <3>2. Text(s) \in Seq(Int) /\ Text(s) \o <<NL>> = Printed(name)
      BY <1>7, <3>1, TextOfBytes
    <3>3. s # nullptr
      <4>1. NODE_NAME # 0
        BY LayoutAssumption
      <4> QED
        BY <1>6, <4>1 DEF nullptr
    <3> QED
      BY <3>2, <3>3, PrintfLine DEF StringLine
  <2>5. ~(fsnode < 0)
    BY <2>3
  <2>6. listing' = Append(listing, [dir |-> fsnode = 0, text |-> Printed(name)])
    BY <1>1, <1>5, <2>2, <2>4, <2>5
  <2>7. (fsnode = 0) = (k < 2)
    BY <2>3
  <2>8. listing' = Append(listing, L[k + 1])
    BY <1>9, <2>6, <2>7 DEF Shown
  <2>9. listing = SubSeq(L, 1, k)
    BY <1>1, <1>8, <1>10 DEF Listing, LsInOrder, PlainNames
  <2>10. Append(SubSeq(L, 1, k), L[k + 1]) = SubSeq(L, 1, k + 1)
    BY <1>2, <1>4, <1>9, OneMore
  <2> QED
    BY <1>1, <2>8, <2>9, <2>10
<1>11. /\ PlainNames' <=> PlainNames
       /\ Listed' = L
  BY <1>1, <1>8 DEF PlainNames, Listed, ImageName
<1>12. LsInOrder'
  BY <1>10, <1>11 DEF LsInOrder, PlainNames
<1> QED
  BY <1>1, <1>2, <1>5, <1>6, <1>7, <1>12 DEF Listing

LEMMA ListingStep ==
    ASSUME IInv, Listing, [Next]_vars
    PROVE  Listing'
<1>1. CASE ls_entry
  BY <1>1, ls_entryLists
<1>2. CASE ls
  <2>1. /\ pc = "shell" /\ pc' = "ls" /\ k' = k /\ dirent' = dirent /\ listing' = listing
        /\ fs_root /\ fs_root' = fs_root /\ nfiles' = nfiles /\ files' = files
    BY <1>2 DEF ls, image, nodes, shell
  <2>2. k' = 0 /\ listing' = << >> /\ nfiles \in Nat
    BY <2>1, FilesFit DEF Listing, IInv, Making, LaidOut, ShellPlaces
  <2>3. SubSeq(Listed', 1, 0) = << >>
    <3>1. Listed' = Listed
      BY <2>1 DEF Listed, ImageName
    <3>2. Listed \in Seq(Line)
      BY <2>1, ListedIs DEF IInv, ShellPlaces
    <3> QED
      BY <3>1, <3>2
  <2>4. LsInOrder'
    BY <2>2, <2>3 DEF LsInOrder
  <2> QED
    BY <2>1, <2>2, <2>4 DEF Listing
<1>3. CASE UNCHANGED vars \/ failed
  <2>1. /\ pc' = pc /\ k' = k /\ dirent' = dirent /\ listing' = listing
        /\ fs_root' = fs_root /\ nfiles' = nfiles /\ files' = files
    BY <1>3 DEF failed, vars, image, nodes, shell
  <2>2. LsInOrder'
    BY <2>1 DEF Listing, LsInOrder, Listed, ImageName
  <2> QED
    BY <2>1, <2>2 DEF Listing
<1>4. ASSUME pc' # "ls", dirent' = dirent, listing' = << >>,
             pc' \in {"make", "shell", "read", "cat"} => k' = 0
      PROVE  Listing'
  BY <1>4 DEF Listing, LsInOrder
<1>5. CASE return
  BY <1>4, <1>5 DEF return
<1>6. CASE \/ make_header \/ make_file_header \/ make_headers_done \/ make_data
           \/ initialise_initrd \/ no_module \/ (\E name \in Names : cat(name))
           \/ \E node \in 0 .. nfiles, offset, size \in Extents : read_file(node, offset, size)
  <2>1. /\ pc # "ls" /\ pc' # "ls" /\ dirent' = dirent /\ listing' = listing
        /\ pc' \in {"make", "shell", "read", "cat"} => k' = 0
    BY <1>6 DEF make_header, make_file_header, make_headers_done, make_data, initialise_initrd,
                no_module, cat, read_file, shell, Listing
  <2> QED
    BY <1>4, <2>1 DEF Listing
<1> QED
  BY <1>1, <1>2, <1>3, <1>5, <1>6 DEF Next
----------------------------------------------------------------------------
(* The theorems *)

LEMMA TypeOKHolds ==
    ASSUME IInv
    PROVE  TypeOK
<1>1. Making
  BY DEF IInv
<1>2. PICK l \in Nat : l = Len(files)
  BY <1>1, FilesFit
<1>3. PICK H \in Nat : H = HeadersSize
  BY <1>1, FilesFit
<1>4. ASSUME NEW n \in 1 .. l
      PROVE  /\ Begin(n) \in Nat /\ Begin(n + 1) \in Nat /\ Len(files[n].data) \in Nat
             /\ Begin(n + 1) = Begin(n) + Len(files[n].data) /\ H + Begin(n + 1) < WORD
  BY <1>1, <1>2, <1>3, FilesFit
<1>5. ASSUME NEW n \in 1 .. l + 1
      PROVE  H + Begin(n) \in 0 .. WORD - 1
  <2>1. WORD \in Nat
    BY LayoutAssumption
  <2>2. CASE n = 1
    <3>1. Begin(1) = 0 /\ l \in Nat \ {0}
      BY <1>1, <1>2, FilesFit
    <3>2. H + Begin(1 + 1) < WORD /\ Begin(1 + 1) \in Nat
      BY <1>4, <3>1
    <3> QED
      BY <2>1, <2>2, <3>1, <3>2
  <2>3. CASE n # 1
    <3>1. n - 1 \in 1 .. l /\ n = (n - 1) + 1
      BY <1>2, <2>3
    <3>2. Begin((n - 1) + 1) \in Nat /\ H + Begin((n - 1) + 1) < WORD
      BY <1>4, <3>1
    <3> QED
      BY <2>1, <3>1, <3>2
  <2> QED
    BY <2>2, <2>3
<1>6. ASSUME Pointing, Len(headers) \in 0 .. l
      PROVE  \A n \in 1 .. Len(headers) : headers[n].offset + headers[n].length < WORD
  <2>1. SUFFICES ASSUME NEW n \in 1 .. Len(headers)
                 PROVE  headers[n].offset + headers[n].length < WORD
    OBVIOUS
  <2>2. n \in 1 .. l
    BY <1>6
  <2>3. headers[n].offset = H + Begin(n) /\ headers[n].length = Len(files[n].data)
    BY <1>3, <1>6 DEF Pointing
  <2>4. /\ Begin(n) \in Nat /\ Len(files[n].data) \in Nat
        /\ H + (Begin(n) + Len(files[n].data)) < WORD
    BY <1>4, <2>2
  <2>5. H + Begin(n) + Len(files[n].data) < WORD
    BY <2>4, LayoutAssumption
  <2> QED
    BY <2>3, <2>5
<1>7. /\ files \in Sources /\ k \in Nat
      /\ pc \in {"make", "make_headers", "make_data", "failed", "shell", "read", "cat", "ls"}
      /\ fs_root => pc \in ShellPlaces
      /\ pc \notin ShellPlaces => root_nodes = << >>
  BY <1>1 DEF Making, ShellPlaces
<1>8. 0 \in 0 .. WORD - 1
  BY LayoutAssumption
<1>9. /\ nfiles \in Nat /\ current_offset \in 0 .. WORD - 1 /\ header_bytes \in Nat
      /\ \A n \in 1 .. Len(headers) : headers[n].offset + headers[n].length < WORD
      /\ pc \in ShellPlaces => Len(root_nodes) = nfiles
  <2>1. CASE pc = "make"
    <3>1. nfiles = 0 /\ headers = << >> /\ header_bytes = 0 /\ current_offset = 0
      BY <1>1, <2>1 DEF Making
    <3> QED
      BY <1>8, <2>1, <3>1 DEF ShellPlaces
  <2>2. CASE pc \in {"make_headers", "failed"}
    <3>1. /\ nfiles = l /\ k \in 1 .. l + 1 /\ Len(headers) = k - 1 /\ Pointing
          /\ header_bytes = HEADER + FILE_HEADER * (k - 1) /\ current_offset = H + Begin(k)
      BY <1>1, <1>2, <1>3, <2>2 DEF Making
    <3>2. header_bytes \in Nat
      <4>1. \A a \in Nat, b \in Nat : a * b \in Nat
        OBVIOUS
      <4>2. k - 1 \in Nat
        BY <1>2, <3>1
      <4>3. FILE_HEADER * (k - 1) \in Nat
        BY <4>1, <4>2, LayoutAssumption
      <4> QED
        BY <3>1, <4>3, LayoutAssumption
    <3>3. Len(headers) \in 0 .. l
      BY <1>2, <3>1
    <3> QED
      BY <1>5, <1>6, <2>2, <3>1, <3>2, <3>3 DEF ShellPlaces
  <2>3. ASSUME LaidOut
        PROVE  /\ nfiles = l /\ current_offset \in 0 .. WORD - 1 /\ header_bytes \in Nat
               /\ \A n \in 1 .. Len(headers) : headers[n].offset + headers[n].length < WORD
    <3>1. /\ nfiles = l /\ Len(headers) = l /\ Pointing
          /\ header_bytes = H /\ current_offset = H + Begin(l + 1)
      BY <1>2, <1>3, <2>3 DEF LaidOut
    <3>2. l + 1 \in 1 .. l + 1 /\ Len(headers) \in 0 .. l
      BY <3>1
    <3> QED
      BY <1>5, <1>6, <3>1, <3>2
  <2>4. CASE pc = "make_data"
    <3>1. LaidOut
      BY <1>1, <2>4 DEF Making
    <3> QED
      BY <2>3, <2>4, <3>1 DEF ShellPlaces
  <2>5. CASE pc \in ShellPlaces /\ fs_root
    <3>1. LaidOut /\ root_nodes = [n \in 1 .. nfiles |-> Node(n)]
      BY <1>1, <2>5 DEF Making
    <3>2. nfiles = l
      BY <2>3, <3>1
    <3>3. Len(root_nodes) = nfiles
      <4>1. PICK N : N = [n \in 1 .. l |-> Node(n)]
        OBVIOUS
      <4>2. N \in [1 .. l -> {Node(n) : n \in 1 .. l}]
        BY <4>1
      <4>3. Len(N) = l
        BY <4>2, LenProperties
      <4> QED
        BY <3>1, <3>2, <4>1, <4>3
    <3> QED
      BY <2>3, <3>1, <3>3
  <2>6. CASE pc \in ShellPlaces /\ ~fs_root
    <3>1. /\ nfiles = 0 /\ headers = << >> /\ current_offset = 0 /\ header_bytes = 0
          /\ root_nodes = << >>
      BY <1>1, <2>6 DEF Making
    <3> QED
      BY <1>8, <3>1
  <2> QED
    BY <1>7, <2>1, <2>2, <2>4, <2>5, <2>6 DEF ShellPlaces
<1> QED
  BY <1>7, <1>9 DEF TypeOK, ShellPlaces

\* The offsets that make_initrd computes and the kernel adds up stay in 32 bits, and from
\* initialise_initrd on there is a node for every file, for every list of files.
THEOREM TypeCorrect == Spec => []TypeOK
<1>1. IInv => TypeOK
  BY TypeOKHolds
<1> QED
  BY <1>1, Inductive, PTL

\* vfs_read returns the bytes that the file had on the build host, clipped at its end, for
\* every list of files, every offset and size whose sum fits into a word, and every size of
\* the headers.
THEOREM ReadsOwnFileCorrect == Spec => []ReadsOwnFile
<1>1. IInv => ReadsOwnFile
  BY DEF IInv
<1> QED
  BY <1>1, Inductive, PTL

\* cat prints the file that has the name it is given, for every list of files and every name
\* that fits into a header: strncpy into the header, strcpy into the node and strcmp with what was
\* typed find that file, and printf writes its bytes up to the first 0, clipped to the buffer.
THEOREM CatFindsFileCorrect == Spec => []CatFindsFile
<1>1. Init => CatFindsFile
  BY DEF Init, CatFindsFile
<1>2. IInv /\ CatFindsFile /\ [Next]_vars => CatFindsFile'
  BY CatFindsFileStep
<1> QED
  BY <1>1, <1>2, Inductive, PTL DEF Spec

\* Whenever ls runs, the lines that it has written are the first k of the root directory's
\* entries, in order, each as what it is and under its own name, for every list of files none
\* of which is called . or .. and every size of the name buffers.
THEOREM LsInOrderCorrect == Spec => []LsInOrder
<1>1. Init => Listing
  BY ListingInitially
<1>2. IInv /\ Listing /\ [Next]_vars => Listing'
  BY ListingStep
<1>3. Listing => LsInOrder
  BY DEF Listing
<1> QED
  BY <1>1, <1>2, <1>3, Inductive, PTL DEF Spec
============================================================================
