----------------------------- MODULE PmmProofs -----------------------------
(***************************************************************************)
(* What holds of the physical memory manager for every page size, kernel   *)
(* image and memory map.  The invariants are proved in three layers: types,*)
(* then the counter, then ownership of the pages.                          *)
(***************************************************************************)
EXTENDS Pmm, FiniteSetTheorems, TLAPS

LEMMA DivFacts ==
    ASSUME NEW a \in Nat, NEW p \in Nat \ {0}
    PROVE  /\ a \div p \in Nat
           /\ p * (a \div p) <= a
           /\ a < p * (a \div p) + p
           /\ a % p \in Nat
OBVIOUS

LEMMA DivOfMultiple ==
    ASSUME NEW a \in Nat, NEW p \in Nat \ {0}
    PROVE  (a * p) \div p = a
OBVIOUS

LEMMA ModOfSmall ==
    ASSUME NEW a \in Nat, NEW p \in Nat \ {0}, a < p
    PROVE  a % p = a
OBVIOUS

\* The address of a page is a natural number.
LEMMA PhysAddrType ==
    ASSUME NEW i \in Nat
    PROVE  PhysAddr(i) \in Nat
<1>1. i * PAGE_SIZE \in Nat
  BY PageAssumption
<1> QED
  BY <1>1, AddrAssumption, DivFacts DEF PhysAddr

\* Entry k of a well-formed map is a region with natural bounds.
LEMMA EntryType ==
    ASSUME TypeOK, NEW k \in 1 .. Len(mmap)
    PROVE  /\ mmap[k] \in MapEntry
           /\ mmap[k].addr \in Nat
           /\ mmap[k].len \in Nat
<1>1. mmap[k] \in MapEntry
  BY MapsAssumption DEF TypeOK
<1> QED
  BY <1>1 DEF MapEntry
\* The managed pages, and hence the set bits, are finitely many.
LEMMA BlocksFinite ==
    ASSUME TypeOK
    PROVE  IsFiniteSet(Blocks)
BY FS_Interval DEF Blocks, TypeOK

LEMMA BitmapFinite ==
    ASSUME TypeOK
    PROVE  IsFiniteSet(pmm_bitmap)
BY BlocksFinite, FS_Subset DEF TypeOK
----------------------------------------------------------------------------
(* Types *)

\* Every variable of Pmm keeps its type, and no bit outside the managed pages is
\* ever counted, whatever the memory map.
THEOREM TypeCorrect == Spec => []TypeOK
<1>1. Init => TypeOK
  <2> SUFFICES ASSUME Init PROVE TypeOK
    OBVIOUS
  <2>1. Len(mmap) \in Nat
    BY MapsAssumption DEF Init
  <2> QED
    BY <2>1 DEF Init, TypeOK, Blocks, nullptr
<1>2. TypeOK /\ [Next]_vars => TypeOK'
  <2> SUFFICES ASSUME TypeOK, [Next]_vars PROVE TypeOK'
    OBVIOUS
  <2>1. Len(mmap) \in Nat
    BY MapsAssumption DEF TypeOK
  <2>2. CASE pmm_init_scan
    <3>1. entry \in 1 .. Len(mmap)
      BY <2>1, <2>2 DEF pmm_init_scan, TypeOK
    <3>2. highest' \in Nat
      BY <2>2, <3>1, EntryType DEF pmm_init_scan, TypeOK
    <3> QED
      BY <2>1, <2>2, <3>1, <3>2 DEF pmm_init_scan, TypeOK, Blocks
  <2>3. CASE pmm_init_size
    <3>1. pmm_max_blocks' \in Nat
      BY <2>3, PageAssumption, DivFacts DEF pmm_init_size, TypeOK
    <3> QED
      BY <2>1, <2>3, <3>1 DEF pmm_init_size, TypeOK, Blocks
  <2>4. CASE pmm_init_free
    <3>1. PICK cleared \in SUBSET pmm_bitmap :
            /\ pmm_bitmap' = pmm_bitmap \ cleared
            /\ pmm_used_blocks' = pmm_used_blocks - Cardinality(cleared)
      BY <2>4 DEF pmm_init_free
    <3>2. Cardinality(cleared) \in Nat
      BY BitmapFinite, FS_Subset, FS_CardinalityType
    <3>3. Blocks' = Blocks
      BY <2>4 DEF pmm_init_free, Blocks
    <3>4. entry' \in 1 .. Len(mmap') + 1
      BY <2>1, <2>4 DEF pmm_init_free, TypeOK
    <3>5. pmm_bitmap' \subseteq Blocks' /\ pmm_used_blocks' \in Int
      BY <3>1, <3>2, <3>3 DEF TypeOK
    <3> QED
      BY <2>4, <3>3, <3>4, <3>5 DEF pmm_init_free, TypeOK
  <2>5. CASE pmm_init_relock
    <3>1. PICK locked \in SUBSET Blocks :
            /\ pmm_bitmap' = pmm_bitmap \cup locked
            /\ pmm_used_blocks' = pmm_used_blocks + Cardinality(locked)
      BY <2>5 DEF pmm_init_relock
    <3>2. Cardinality(locked) \in Nat
      BY BlocksFinite, FS_Subset, FS_CardinalityType
    <3>3. Blocks' = Blocks
      BY <2>5 DEF pmm_init_relock, Blocks
    <3>4. pmm_bitmap' \subseteq Blocks' /\ pmm_used_blocks' \in Int
      BY <3>1, <3>2, <3>3 DEF TypeOK
    <3> QED
      BY <2>5, <3>3, <3>4 DEF pmm_init_relock, TypeOK
  <2>6. CASE pmm_alloc_page
    <3>1. \A i \in FreeBlocks : i \in Nat /\ PhysAddr(i) \in Nat
      BY PhysAddrType DEF FreeBlocks, Blocks, TypeOK
    <3>2. Blocks' = Blocks
      BY <2>6 DEF pmm_alloc_page, Blocks
    <3>3. /\ pmm_bitmap' \subseteq Blocks
          /\ held' \subseteq Blocks
          /\ pmm_used_blocks' \in Int
          /\ ret' \in Nat
      BY <2>6, <3>1 DEF pmm_alloc_page, TypeOK, FreeBlocks, nullptr
    <3> QED
      BY <2>6, <3>2, <3>3 DEF pmm_alloc_page, TypeOK
  <2>7. ASSUME NEW ptr, NEW given, pmm_free_page(ptr, given)
        PROVE  TypeOK'
    <3>1. Blocks' = Blocks
      BY <2>7 DEF pmm_free_page, Blocks
    <3>2. /\ pmm_bitmap' \subseteq Blocks
          /\ held' \subseteq Blocks
          /\ pmm_used_blocks' \in Int
      BY <2>7 DEF pmm_free_page, TypeOK
    <3> QED
      BY <2>7, <3>1, <3>2 DEF pmm_free_page, TypeOK
  <2>8. CASE UNCHANGED vars
    BY <2>8 DEF vars, TypeOK, Blocks
  <2> QED
    BY <2>2, <2>3, <2>4, <2>5, <2>6, <2>7, <2>8 DEF Next, FreeHeld, FreeAgain
<1> QED
  BY <1>1, <1>2, PTL DEF Spec
----------------------------------------------------------------------------
(* The counter *)

UsedExact == pmm_used_blocks = Cardinality(pmm_bitmap)

\* pmm_used_blocks counts the set bits at every step of pmm_init, for maps
\* with overlapping entries too, and through every later call; hence the
\* numbers pmm_get_free_memory and pmm_get_total_memory report are exact.
THEOREM AccountingCorrect == Spec => []AccountingExact
<1>1. Init => UsedExact
  BY FS_EmptySet DEF Init, UsedExact
<1>2. TypeOK /\ UsedExact /\ [Next]_vars => UsedExact'
  <2> SUFFICES ASSUME TypeOK, UsedExact, [Next]_vars PROVE UsedExact'
    OBVIOUS
  <2> USE DEF UsedExact
  <2>1. IsFiniteSet(pmm_bitmap) /\ Cardinality(pmm_bitmap) \in Nat
    BY BitmapFinite, FS_CardinalityType
  <2>2. CASE pmm_init_scan
    BY <2>2 DEF pmm_init_scan
  <2>3. CASE pmm_init_size
    <3>1. pmm_max_blocks' \in Nat
      BY <2>3, PageAssumption, DivFacts DEF pmm_init_size, TypeOK
    <3>2. Cardinality(0 .. pmm_max_blocks' - 1) = pmm_max_blocks'
      BY <3>1, FS_Interval
    <3> QED
      BY <2>3, <3>2 DEF pmm_init_size
  <2>4. CASE pmm_init_free
    <3>1. PICK cleared \in SUBSET pmm_bitmap :
            /\ pmm_bitmap' = pmm_bitmap \ cleared
            /\ pmm_used_blocks' = pmm_used_blocks - Cardinality(cleared)
      BY <2>4 DEF pmm_init_free
    <3>2. pmm_bitmap \cap cleared = cleared
      OBVIOUS
    <3> QED
      BY <2>1, <3>1, <3>2, FS_Difference
  <2>5. CASE pmm_init_relock
    <3>1. PICK locked \in SUBSET Blocks :
            /\ locked \cap pmm_bitmap = {}
            /\ pmm_bitmap' = pmm_bitmap \cup locked
            /\ pmm_used_blocks' = pmm_used_blocks + Cardinality(locked)
      BY <2>5 DEF pmm_init_relock
    <3>2. IsFiniteSet(locked) /\ Cardinality(locked) \in Nat
      BY BlocksFinite, FS_Subset, FS_CardinalityType
    <3>3. pmm_bitmap \cap locked = {}
      BY <3>1
    <3>4. Cardinality(pmm_bitmap \cup locked)
            = Cardinality(pmm_bitmap) + Cardinality(locked) - Cardinality({})
      BY <2>1, <3>2, <3>3, FS_Union
    <3> QED
      BY <2>1, <3>1, <3>2, <3>4, FS_EmptySet
  <2>6. CASE pmm_alloc_page
    <3>1. CASE UNCHANGED <<pmm_bitmap, pmm_used_blocks>>
      BY <3>1
    <3>2. CASE \E i \in FreeBlocks : /\ pmm_bitmap' = pmm_bitmap \cup {i}
                                     /\ pmm_used_blocks' = pmm_used_blocks + 1
      BY <2>1, <3>2, FS_AddElement DEF FreeBlocks
    <3> QED
      BY <2>6, <3>1, <3>2 DEF pmm_alloc_page
  <2>7. ASSUME NEW ptr, NEW given, pmm_free_page(ptr, given)
        PROVE  UsedExact'
    <3>1. CASE UNCHANGED <<pmm_bitmap, pmm_used_blocks>>
      BY <3>1
    <3>2. CASE \E i \in pmm_bitmap : /\ pmm_bitmap' = pmm_bitmap \ {i}
                                     /\ pmm_used_blocks' = pmm_used_blocks - 1
      BY <2>1, <3>2, FS_RemoveElement
    <3> QED
      BY <2>7, <3>1, <3>2 DEF pmm_free_page
  <2>8. CASE UNCHANGED vars
    BY <2>8 DEF vars
  <2> QED
    BY <2>2, <2>3, <2>4, <2>5, <2>6, <2>7, <2>8 DEF Next, FreeHeld, FreeAgain
<1>3. TypeOK /\ UsedExact => AccountingExact
  <2> SUFFICES ASSUME TypeOK, UsedExact PROVE AccountingExact
    OBVIOUS
  <2>1. Cardinality(Blocks) = pmm_max_blocks
    BY FS_Interval DEF Blocks, TypeOK
  <2>2. Blocks \cap pmm_bitmap = pmm_bitmap
    BY DEF TypeOK
  <2>3. Cardinality(FreeBlocks) = pmm_max_blocks - pmm_used_blocks
    <3>1. Cardinality(Blocks \ pmm_bitmap)
            = Cardinality(Blocks) - Cardinality(Blocks \cap pmm_bitmap)
      BY BlocksFinite, FS_Difference
    <3> QED
      BY <2>1, <2>2, <3>1 DEF FreeBlocks, UsedExact
  <2>4. Cardinality(FreeBlocks) + pmm_used_blocks = pmm_max_blocks
    BY <2>3 DEF TypeOK
  <2> QED
    BY <2>3, <2>4
    DEF AccountingExact, UsedExact, pmm_get_free_memory, pmm_get_total_memory
<1> QED
  BY <1>1, <1>2, <1>3, TypeCorrect, PTL DEF Spec
----------------------------------------------------------------------------
(* Ownership *)

\* The managed pages end below an address, and below the last one a pointer can hold.
Within(limit) ==
    /\ highest <= limit
    /\ pmm_max_blocks * PAGE_SIZE <= limit

Below == Within(ADDR_SPACE)

\* While the memory fits, the address of a managed page denotes that page.
LEMMA AddressOfPage ==
    ASSUME TypeOK, Below, NEW i \in Blocks
    PROVE  PhysAddr(i) = i * PAGE_SIZE /\ PhysAddr(i) \div PAGE_SIZE = i
<1>1. i \in Nat /\ i + 1 <= pmm_max_blocks /\ pmm_max_blocks \in Nat
  BY DEF Blocks, TypeOK
<1>2. PAGE_SIZE \in Nat /\ PAGE_SIZE > 0
  BY PageAssumption
<1>3. (i + 1) * PAGE_SIZE <= pmm_max_blocks * PAGE_SIZE
  BY <1>1, <1>2
<1>4. i * PAGE_SIZE < (i + 1) * PAGE_SIZE
  BY <1>1, <1>2
<1>5. i * PAGE_SIZE \in Nat /\ pmm_max_blocks * PAGE_SIZE \in Nat
      /\ (i + 1) * PAGE_SIZE \in Nat
  BY <1>1, <1>2
<1>6. i * PAGE_SIZE < ADDR_SPACE
  BY <1>3, <1>4, <1>5, AddrAssumption DEF Below, Within
<1>7. PhysAddr(i) = i * PAGE_SIZE
  BY <1>5, <1>6, AddrAssumption, ModOfSmall DEF PhysAddr
<1> QED
  BY <1>1, <1>7, PageAssumption, DivOfMultiple

LEMMA WithinSteps ==
    ASSUME NEW limit \in Nat,
           \A m \in BootMaps : \A k \in 1 .. Len(m) :
              m[k].type = "available" => m[k].addr + m[k].len <= limit
    PROVE  /\ Init => Within(limit)
           /\ TypeOK /\ Within(limit) /\ [Next]_vars => Within(limit)'
<1>1. Init => Within(limit)
  BY PageAssumption DEF Init, Within
<1>2. TypeOK /\ Within(limit) /\ [Next]_vars => Within(limit)'
  <2> SUFFICES ASSUME TypeOK, Within(limit), [Next]_vars PROVE Within(limit)'
    OBVIOUS
  <2>1. CASE pmm_init_scan
    <3>1. entry \in 1 .. Len(mmap)
      BY <2>1, MapsAssumption DEF pmm_init_scan, TypeOK
    <3>2. mmap[entry].type = "available"
            => mmap[entry].addr + mmap[entry].len <= limit
      BY <3>1 DEF TypeOK
    <3> QED
      BY <2>1, <3>2 DEF pmm_init_scan, Within
  <2>2. CASE pmm_init_size
    <3>1. /\ highest \in Nat
          /\ PAGE_SIZE * (highest \div PAGE_SIZE) <= highest
          /\ highest \div PAGE_SIZE \in Nat
      BY PageAssumption, DivFacts DEF TypeOK
    <3>2. (highest \div PAGE_SIZE) * PAGE_SIZE = PAGE_SIZE * (highest \div PAGE_SIZE)
      BY <3>1, PageAssumption
    <3>3. PAGE_SIZE * (highest \div PAGE_SIZE) \in Nat
      BY <3>1, PageAssumption
    <3>4. (highest \div PAGE_SIZE) * PAGE_SIZE <= limit
      BY <3>1, <3>2, <3>3 DEF Within
    <3> QED
      BY <2>2, <3>4 DEF pmm_init_size, Within
  <2>3. CASE UNCHANGED <<highest, pmm_max_blocks>>
    BY <2>3 DEF Within
  <2> QED
    BY <2>1, <2>2, <2>3
    DEF Next, vars, pmm_init_free, pmm_init_relock, pmm_alloc_page, FreeHeld,
        FreeAgain, pmm_free_page
<1> QED
  BY <1>1, <1>2

LEMMA BelowInvariant ==
    ASSUME MemoryFits
    PROVE  Spec => []Below
<1>1. \A m \in BootMaps : \A k \in 1 .. Len(m) :
        m[k].type = "available" => m[k].addr + m[k].len <= ADDR_SPACE
  BY DEF MemoryFits
<1>2. Init => Below
  BY <1>1, AddrAssumption, WithinSteps DEF Below
<1>3. TypeOK /\ Below /\ [Next]_vars => Below'
  BY <1>1, AddrAssumption, WithinSteps DEF Below
<1> QED
  BY <1>2, <1>3, TypeCorrect, PTL DEF Spec

\* The effect of the two kinds of release on a memory that fits.
LEMMA FreeHeldEffect ==
    ASSUME TypeOK, Below, NoPageInTwoHands, FreeHeld
    PROVE  \E i \in held : /\ pmm_bitmap' = pmm_bitmap \ {i}
                           /\ held' = held \ {i}
                           /\ i \in pmm_bitmap
                           /\ phase = "run"
                           /\ UNCHANGED <<phase, mmap, pmm_max_blocks>>
<1>1. PICK i \in held : pmm_free_page(PhysAddr(i), {i})
  BY DEF FreeHeld
<1>2. phase = "run" /\ i \in pmm_bitmap /\ i \in Blocks
  BY <1>1 DEF pmm_free_page, NoPageInTwoHands, TypeOK
<1>3. PhysAddr(i) \div PAGE_SIZE = i
  BY <1>2, AddressOfPage
<1>4. i < pmm_max_blocks
  BY <1>2 DEF Blocks, TypeOK
<1> QED
  BY <1>1, <1>2, <1>3, <1>4 DEF pmm_free_page

LEMMA FreeAgainEffect ==
    ASSUME TypeOK, FreeAgain
    PROVE  UNCHANGED <<phase, mmap, pmm_max_blocks, pmm_bitmap, held>>
<1>1. PICK i \in FreeBlocks \cup {pmm_max_blocks} :
        pmm_free_page(i * PAGE_SIZE, {})
  BY DEF FreeAgain
<1>2. i \in Nat /\ i \notin pmm_bitmap
  BY DEF FreeBlocks, Blocks, TypeOK
<1>3. (i * PAGE_SIZE) \div PAGE_SIZE = i
  BY <1>2, PageAssumption, DivOfMultiple
<1> QED
  BY <1>1, <1>2, <1>3 DEF pmm_free_page

\* On every machine whose memory a 32-bit pointer can address, a page is never
\* in two hands: pmm_alloc_page never hands out a page of the kernel image or
\* of the bitmap, nor one that is handed out already, and pmm_free_page of a
\* held page clears the bit of that page and of no other.
THEOREM OwnershipCorrect ==
    ASSUME MemoryFits
    PROVE  Spec => []NoPageInTwoHands
<1>1. Init => NoPageInTwoHands
  BY DEF Init, NoPageInTwoHands
<1>2. TypeOK /\ Below /\ NoPageInTwoHands /\ [Next]_vars => NoPageInTwoHands'
  <2> SUFFICES ASSUME TypeOK, Below, NoPageInTwoHands, [Next]_vars
               PROVE  NoPageInTwoHands'
    OBVIOUS
  <2> USE DEF NoPageInTwoHands
  <2>1. CASE pmm_init_scan \/ pmm_init_size \/ pmm_init_free
    BY <2>1 DEF pmm_init_scan, pmm_init_size, pmm_init_free, TypeOK
  <2>2. CASE pmm_init_relock
    <3>1. Blocks' = Blocks /\ KernelBlocks' = KernelBlocks
      BY <2>2 DEF pmm_init_relock, Blocks, KernelBlocks, BitmapSize
    <3>2. KernelBlocks \cap Blocks \subseteq pmm_bitmap'
      BY <2>2 DEF pmm_init_relock
    <3>3. held' = {}
      BY <2>2 DEF pmm_init_relock, TypeOK
    <3> QED
      BY <3>1, <3>2, <3>3
  <2>3. CASE pmm_alloc_page
    <3>1. Blocks' = Blocks /\ KernelBlocks' = KernelBlocks
      BY <2>3 DEF pmm_alloc_page, Blocks, KernelBlocks, BitmapSize
    <3>2. phase = "run" /\ phase' = "run"
      BY <2>3 DEF pmm_alloc_page
    <3>3. CASE UNCHANGED <<pmm_bitmap, held>>
      BY <3>1, <3>2, <3>3
    <3>4. CASE \E i \in FreeBlocks : /\ pmm_bitmap' = pmm_bitmap \cup {i}
                                     /\ held' = held \cup {i}
      BY <3>1, <3>2, <3>4 DEF FreeBlocks
    <3> QED
      BY <2>3, <3>3, <3>4 DEF pmm_alloc_page
  <2>4. CASE FreeHeld
    <3>1. PICK i \in held : /\ pmm_bitmap' = pmm_bitmap \ {i}
                            /\ held' = held \ {i}
                            /\ i \in pmm_bitmap
                            /\ phase = "run"
                            /\ UNCHANGED <<phase, mmap, pmm_max_blocks>>
      BY <2>4, FreeHeldEffect
    <3>2. Blocks' = Blocks /\ KernelBlocks' = KernelBlocks
      BY <3>1 DEF Blocks, KernelBlocks, BitmapSize
    <3> QED
      BY <3>1, <3>2
  <2>5. CASE FreeAgain \/ UNCHANGED vars
    <3>1. UNCHANGED <<phase, mmap, pmm_max_blocks, pmm_bitmap, held>>
      BY <2>5, FreeAgainEffect DEF vars
    <3>2. Blocks' = Blocks /\ KernelBlocks' = KernelBlocks
      BY <3>1 DEF Blocks, KernelBlocks, BitmapSize
    <3> QED
      BY <3>1, <3>2
  <2> QED
    BY <2>1, <2>2, <2>3, <2>4, <2>5 DEF Next
<1> QED
  BY <1>1, <1>2, TypeCorrect, BelowInvariant, PTL DEF Spec
----------------------------------------------------------------------------
(* Only memory, and all of it *)

\* A page that a region releases lies inside the region, if the region begins
\* on a page boundary: rounding the length down makes up for an end that lies
\* inside a page.
LEMMA RegionInside ==
    ASSUME TypeOK, NEW k \in 1 .. Len(mmap), NEW b \in RegionBlocks(mmap[k]),
           mmap[k].addr % PAGE_SIZE = 0
    PROVE  /\ mmap[k].addr <= b * PAGE_SIZE
           /\ (b + 1) * PAGE_SIZE <= mmap[k].addr + mmap[k].len
<1> DEFINE a == mmap[k].addr
           l == mmap[k].len
           s == a \div PAGE_SIZE
           n == l \div PAGE_SIZE
<1>1. a \in Nat /\ l \in Nat
  BY EntryType
<1>2. b \in Nat /\ s <= b /\ b < s + n
  BY DEF RegionBlocks, Blocks, TypeOK
<1>3. PAGE_SIZE \in Nat \ {0}
  BY PageAssumption
<1>4. s \in Nat /\ n \in Nat /\ PAGE_SIZE * n <= l
  BY <1>1, <1>3, DivFacts
<1>5. PAGE_SIZE * s = a
  BY <1>1, <1>3
<1> HIDE DEF a, l, s, n
<1>6. PAGE_SIZE * s <= PAGE_SIZE * b
  BY <1>2, <1>3, <1>4
<1>7. PAGE_SIZE * (b + 1) <= PAGE_SIZE * (s + n)
  BY <1>2, <1>3, <1>4
<1>8. PAGE_SIZE * (s + n) = PAGE_SIZE * s + PAGE_SIZE * n
  BY <1>3, <1>4
<1>9. PAGE_SIZE * (s + n) <= a + l
  BY <1>1, <1>3, <1>4, <1>5, <1>8
<1>10. a <= b * PAGE_SIZE /\ (b + 1) * PAGE_SIZE <= a + l
  BY <1>1, <1>2, <1>3, <1>4, <1>5, <1>6, <1>7, <1>9
<1> QED
  BY <1>10 DEF a, l

\* On every machine whose memory a pointer can address and whose available
\* regions begin on page boundaries, pmm_alloc_page hands out memory only.
THEOREM OnlyRamCorrect ==
    ASSUME MemoryFits
    PROVE  Spec => []OnlyRamWhenAligned
<1>1. Init => OnlyRamWhenAligned
  <2>1. Init => FreeBlocks \cup held = {}
    BY DEF Init, FreeBlocks, Blocks
  <2> QED
    BY <2>1 DEF OnlyRamWhenAligned
<1>2. /\ TypeOK /\ Below /\ NoPageInTwoHands
      /\ OnlyRamWhenAligned /\ [Next]_vars
      => OnlyRamWhenAligned'
  <2> SUFFICES ASSUME TypeOK, Below, NoPageInTwoHands, OnlyRamWhenAligned,
                      [Next]_vars
               PROVE  OnlyRamWhenAligned'
    OBVIOUS
  <2>1. /\ mmap' = mmap
        /\ AlignedMap' = AlignedMap
        /\ \A b : InRam(b)' = InRam(b)
    <3>1. mmap' = mmap
      BY DEF Next, vars, pmm_init_scan, pmm_init_size, pmm_init_free,
             pmm_init_relock, pmm_alloc_page, FreeHeld, FreeAgain, pmm_free_page
    <3> QED
      BY <3>1 DEF AlignedMap, InRam
  <2>2. ASSUME FreeBlocks' \cup held' \subseteq FreeBlocks \cup held
        PROVE  OnlyRamWhenAligned'
    BY <2>1, <2>2 DEF OnlyRamWhenAligned
  <2>3. CASE pmm_init_scan
    BY <2>2, <2>3 DEF pmm_init_scan, FreeBlocks, Blocks
  <2>4. CASE pmm_init_size
    BY <2>2, <2>4 DEF pmm_init_size, FreeBlocks, Blocks
  <2>5. CASE pmm_init_free
    <3>1. entry \in 1 .. Len(mmap)
      BY <2>5, MapsAssumption DEF pmm_init_free, TypeOK
    <3>2. /\ \/ FreeBlocks' \subseteq FreeBlocks
             \/ /\ mmap[entry].type = "available"
                /\ FreeBlocks' \subseteq FreeBlocks \cup RegionBlocks(mmap[entry])
          /\ held' = held
      BY <2>5 DEF pmm_init_free, FreeBlocks, Blocks
    <3>3. ASSUME AlignedMap, mmap[entry].type = "available",
                 NEW b \in RegionBlocks(mmap[entry])
          PROVE  InRam(b)
      BY <3>1, <3>3, RegionInside DEF AlignedMap, InRam
    <3> QED
      BY <2>1, <3>2, <3>3 DEF OnlyRamWhenAligned
  <2>6. CASE pmm_init_relock
    BY <2>2, <2>6 DEF pmm_init_relock, FreeBlocks, Blocks
  <2>7. CASE pmm_alloc_page
    BY <2>2, <2>7 DEF pmm_alloc_page, FreeBlocks, Blocks
  <2>8. CASE FreeHeld
    BY <2>2, <2>8, FreeHeldEffect DEF FreeBlocks, Blocks
  <2>9. CASE FreeAgain \/ UNCHANGED vars
    BY <2>2, <2>9, FreeAgainEffect DEF vars, FreeBlocks, Blocks
  <2> QED
    BY <2>3, <2>4, <2>5, <2>6, <2>7, <2>8, <2>9 DEF Next
<1> QED
  BY <1>1, <1>2, TypeCorrect, BelowInvariant, OwnershipCorrect, PTL DEF Spec

\* After pmm_init the pages that are free or handed out stay the same ones
\* for ever: no sequence of calls leaks a page or invents one.
THEOREM NothingLostCorrect ==
    ASSUME MemoryFits
    PROVE  Spec => NothingLost
<1>1. TypeOK /\ Below /\ NoPageInTwoHands /\ [Next]_vars
      => [phase = "run" => FreeBlocks' \cup held' = FreeBlocks \cup held]_vars
  <2> SUFFICES ASSUME TypeOK, Below, NoPageInTwoHands, [Next]_vars,
                      phase = "run"
               PROVE  FreeBlocks' \cup held' = FreeBlocks \cup held
    OBVIOUS
  <2>1. CASE pmm_alloc_page
    <3>1. Blocks' = Blocks
      BY <2>1 DEF pmm_alloc_page, Blocks
    <3> QED
      BY <2>1, <3>1 DEF pmm_alloc_page, FreeBlocks
  <2>2. CASE FreeHeld
    <3>1. PICK i \in held : /\ pmm_bitmap' = pmm_bitmap \ {i}
                            /\ held' = held \ {i}
                            /\ i \in pmm_bitmap
                            /\ UNCHANGED <<phase, mmap, pmm_max_blocks>>
      BY <2>2, FreeHeldEffect
    <3>2. Blocks' = Blocks /\ i \in Blocks
      BY <3>1 DEF Blocks, TypeOK
    <3> QED
      BY <3>1, <3>2 DEF FreeBlocks
  <2>3. CASE FreeAgain \/ UNCHANGED vars
    BY <2>3, FreeAgainEffect DEF vars, FreeBlocks, Blocks
  <2> QED
    BY <2>1, <2>2, <2>3
    DEF Next, pmm_init_scan, pmm_init_size, pmm_init_free, pmm_init_relock
<1> QED
  BY <1>1, TypeCorrect, BelowInvariant, OwnershipCorrect, PTL DEF Spec, NothingLost
============================================================================
