----------------------------- MODULE VmmProofs -----------------------------
(***************************************************************************)
(* What holds of paging for every size of tables, pages and memory and     *)
(* every image.  Vmm uses the physical memory manager as its specification *)
(* allows, so what is proved of module Pmm holds under Vmm.                *)
(***************************************************************************)
EXTENDS Vmm, FiniteSetTheorems, SequenceTheorems, TLAPS

PP == INSTANCE PmmProofs

----------------------------------------------------------------------------
(* Numbers of slots, pages and frames *)

LEMMA Slots ==
    /\ ENTRIES \in Nat /\ ENTRIES > 3 /\ PAGE_SIZE \in Nat /\ PAGE_SIZE > 0
    /\ KERNEL_SLOT \in Nat /\ HEAP_SLOT \in Nat /\ VMM_RECURSIVE_SLOT \in Nat
    /\ VMM_RECURSIVE_SLOT = ENTRIES - 1
    /\ 0 < KERNEL_SLOT /\ KERNEL_SLOT < HEAP_SLOT /\ HEAP_SLOT < VMM_RECURSIVE_SLOT
    /\ {0, KERNEL_SLOT, HEAP_SLOT, VMM_RECURSIVE_SLOT} \subseteq Index
BY SlotsAssumption DEF VMM_RECURSIVE_SLOT, Index

LEMMA DivMod ==
    ASSUME NEW a \in Nat, NEW b \in Nat, b > 0
    PROVE  /\ a \div b \in Nat /\ a % b \in 0 .. b - 1
           /\ a = (a \div b) * b + (a % b)
OBVIOUS

\* Entry i of the table of slot s maps the page with that number.
LEMMA PageParts ==
    ASSUME NEW s \in Nat, NEW i \in Index
    PROVE  /\ Page(s, i) \in Nat
           /\ Page(s, i) \div ENTRIES = s /\ Page(s, i) % ENTRIES = i
<1>1. ENTRIES \in Nat /\ ENTRIES > 0 /\ i \in Nat /\ i < ENTRIES
  BY Slots DEF Index
<1>2. s * ENTRIES \in Nat
  BY <1>1
<1>3. s * ENTRIES + i \in Nat /\ (s * ENTRIES + i) \div ENTRIES = s
  BY <1>1, <1>2
<1>4. (s * ENTRIES + i) % ENTRIES = i
  BY <1>1, <1>2, <1>3, DivMod
<1> QED
  BY <1>3, <1>4 DEF Page

LEMMA PartsOfPage ==
    ASSUME NEW v \in Nat
    PROVE  /\ v \div ENTRIES \in Nat /\ v % ENTRIES \in Index
           /\ v = Page(v \div ENTRIES, v % ENTRIES)
BY Slots, DivMod DEF Page, Index

\* A page of a lower slot comes first.
LEMMA PageOrder ==
    ASSUME NEW s \in Nat, NEW t \in Nat, NEW i \in Index, s < t
    PROVE  Page(s, i) < t * ENTRIES /\ s * ENTRIES <= Page(s, i)
<1>1. ENTRIES \in Nat /\ ENTRIES > 0 /\ i \in Nat /\ i < ENTRIES
  BY Slots DEF Index
<1>2. (s + 1) * ENTRIES <= t * ENTRIES
  BY <1>1
<1>3. (s + 1) * ENTRIES = s * ENTRIES + ENTRIES /\ s * ENTRIES \in Nat /\ t * ENTRIES \in Nat
  BY <1>1
<1> QED
  BY <1>1, <1>2, <1>3 DEF Page

\* The pages of the heap's area.
LEMMA HeapArea ==
    /\ HEAP_AREA \in Nat /\ HeapStart \in Nat /\ Window(0) \in Nat
    /\ HeapStart + HEAP_AREA = Window(0)
    /\ HeapStart = HEAP_SLOT * ENTRIES /\ Window(0) = VMM_RECURSIVE_SLOT * ENTRIES
    /\ HEAP_AREA * PAGE_SIZE \in Nat /\ HEAP_AREA * PAGE_SIZE <= ADDR_SPACE
    /\ ADDR_SPACE \in Nat \ {0}
<1>1. /\ HEAP_AREA \in Nat /\ HeapStart \in Nat /\ Window(0) \in Nat
      /\ HeapStart = HEAP_SLOT * ENTRIES /\ Window(0) = VMM_RECURSIVE_SLOT * ENTRIES
  BY Slots DEF HEAP_AREA, HeapStart, Window, Page
<1>2. HeapStart + HEAP_AREA = Window(0)
  BY <1>1, Slots DEF HEAP_AREA
<1>3. HEAP_AREA <= ENTRIES * ENTRIES
  <2>1. HEAP_AREA <= VMM_RECURSIVE_SLOT * ENTRIES
    BY <1>1, <1>2
  <2>2. VMM_RECURSIVE_SLOT * ENTRIES <= ENTRIES * ENTRIES
    BY Slots
  <2>3. VMM_RECURSIVE_SLOT * ENTRIES \in Nat /\ ENTRIES * ENTRIES \in Nat
    BY Slots
  <2> QED
    BY <1>1, <2>1, <2>2, <2>3
<1>4. ENTRIES * ENTRIES \in Nat /\ ENTRIES * ENTRIES > 0
  BY Slots
<1>5. /\ HEAP_AREA * PAGE_SIZE \in Nat /\ HEAP_AREA * PAGE_SIZE <= (ENTRIES * ENTRIES) * PAGE_SIZE
      /\ (ENTRIES * ENTRIES) * PAGE_SIZE \in Nat /\ (ENTRIES * ENTRIES) * PAGE_SIZE > 0
  BY <1>1, <1>3, <1>4, Slots
<1> QED
  BY <1>1, <1>2, <1>5, SlotsAssumption

\* A page lies behind the first page of a slot when its slot does.
LEMMA SlotOrder ==
    ASSUME NEW s \in Nat, NEW v \in Nat
    PROVE  s * ENTRIES <= v <=> s <= v \div ENTRIES
<1>1. /\ v \div ENTRIES \in Nat /\ v % ENTRIES \in Nat /\ v % ENTRIES < ENTRIES
      /\ v = (v \div ENTRIES) * ENTRIES + (v % ENTRIES) /\ ENTRIES \in Nat
  BY PartsOfPage, Slots DEF Page, Index
<1> DEFINE d == v \div ENTRIES
<1>2. s * ENTRIES \in Nat /\ d * ENTRIES \in Nat
  BY <1>1
<1>3. s <= d => s * ENTRIES <= d * ENTRIES
  BY <1>1
<1>4. d + 1 <= s => d * ENTRIES + ENTRIES <= s * ENTRIES
  <2> SUFFICES ASSUME d + 1 <= s PROVE d * ENTRIES + ENTRIES <= s * ENTRIES
    OBVIOUS
  <2>1. (d + 1) * ENTRIES <= s * ENTRIES
    BY <1>1
  <2> QED
    BY <1>1, <2>1
<1> HIDE DEF d
<1> QED
  BY <1>1, <1>2, <1>3, <1>4 DEF d

LEMMA HeapSlot ==
    ASSUME NEW v \in Nat
    PROVE  v \in HeapStart .. Window(0) - 1 <=> v \div ENTRIES \in HEAP_SLOT .. VMM_RECURSIVE_SLOT - 1
<1>1. /\ HeapStart <= v <=> HEAP_SLOT <= v \div ENTRIES
      /\ Window(0) <= v <=> VMM_RECURSIVE_SLOT <= v \div ENTRIES
  BY SlotOrder, HeapArea, Slots
<1>2. v \div ENTRIES \in Nat
  BY PartsOfPage
<1> QED
  BY <1>1, <1>2, HeapArea, Slots

\* The pages of the image that hold the boot tables and the code.
Image == {BootDirectory, BootTable, BootDirectory + 2}

LEMMA ImageFacts ==
    /\ BootDirectory \in Nat /\ BootDirectory > 0 /\ BootDirectory + 2 < ENTRIES
    /\ KernelCode = Page(KERNEL_SLOT, BootDirectory + 2) /\ BootTable = BootDirectory + 1
<1>1. BootDirectory \in Nat /\ BootDirectory > 0
  <2>1. KernelStart \in Nat /\ PAGE_SIZE <= KernelStart
    BY ImageAssumption
  <2>2. KernelStart = (KernelStart \div PAGE_SIZE) * PAGE_SIZE + (KernelStart % PAGE_SIZE)
        /\ KernelStart \div PAGE_SIZE \in Nat /\ KernelStart % PAGE_SIZE \in 0 .. PAGE_SIZE - 1
    BY <2>1, Slots, DivMod
  <2>3. KernelStart \div PAGE_SIZE # 0
    BY <2>1, <2>2, Slots
  <2> QED
    BY <2>2, <2>3 DEF BootDirectory
<1> QED
  BY <1>1, ImageAssumption DEF KernelCode, BootTable
----------------------------------------------------------------------------
(* The physical memory manager underneath *)

LEMMA PmmConstants ==
    /\ PP!PageAssumption /\ PP!AddrAssumption /\ PP!KernelAssumption
    /\ PP!ModuleAssumption /\ PP!MapsAssumption
<1>1. KernelStart <= KernelEnd
  <2>1. KernelStart < (BootDirectory + 2) * PAGE_SIZE
    <3>1. KernelStart \in Nat
      BY ImageAssumption
    <3>2. /\ KernelStart = BootDirectory * PAGE_SIZE + (KernelStart % PAGE_SIZE)
          /\ KernelStart % PAGE_SIZE \in 0 .. PAGE_SIZE - 1
      BY <3>1, Slots, DivMod DEF BootDirectory
    <3>3. (BootDirectory + 2) * PAGE_SIZE = BootDirectory * PAGE_SIZE + 2 * PAGE_SIZE
      BY Slots, ImageFacts
    <3>4. BootDirectory * PAGE_SIZE \in Nat /\ 2 * PAGE_SIZE \in Nat /\ PAGE_SIZE < 2 * PAGE_SIZE
      BY Slots, ImageFacts
    <3> QED
      BY <3>1, <3>2, <3>3, <3>4, Slots
  <2>2. (BootDirectory + 2) * PAGE_SIZE \in Nat
    BY Slots, ImageFacts
  <2> QED
    BY <2>1, <2>2, ImageAssumption
<1>2. PP!PageAssumption
  BY Slots DEF PP!PageAssumption
<1>3. PP!AddrAssumption
  BY HeapArea DEF PP!AddrAssumption
<1>4. PP!KernelAssumption
  BY <1>1, ImageAssumption DEF PP!KernelAssumption
<1>5. PP!ModuleAssumption /\ PP!MapsAssumption
  BY MemoryAssumption DEF PP!ModuleAssumption, PP!MapsAssumption, PP!MapEntry, P!MapEntry
<1> QED
  BY <1>2, <1>3, <1>4, <1>5

\* The machine's memory lies where a pointer can reach it.
LEMMA MemoryFits == PP!MemoryFits
<1> SUFFICES ASSUME NEW m \in BootMaps, NEW k \in 1 .. Len(m), m[k].type = "available"
             PROVE  m[k].addr + m[k].len <= ADDR_SPACE
  BY DEF PP!MemoryFits
<1>1. m[k] \in PP!MapEntry
  BY PmmConstants DEF PP!MapsAssumption
<1>2. m[k].addr \in Nat /\ m[k].len \in Nat
  BY <1>1 DEF PP!MapEntry
<1>3. m[k].addr + m[k].len <= HEAP_AREA * PAGE_SIZE
  BY HeapAssumption
<1> QED
  BY <1>2, <1>3, HeapArea

\* Whatever vmm_init, kheap_expand and vmm_map_page do, they use the physical memory
\* manager as its own specification says: every step of Vmm is one of its steps, or
\* leaves it alone.
THEOREM UsesPmm == Spec => P!Spec
<1>1. Init => P!Init
  BY DEF Init
<1>2. [Next]_vars => [P!Next]_P!vars
  <2> SUFFICES ASSUME [Next]_vars
               PROVE  P!Next \/ UNCHANGED P!vars
    OBVIOUS
  <2>1. CASE pmm_init
    BY <2>1 DEF pmm_init, P!Next
  <2>2. CASE P!pmm_alloc_page
    BY <2>2 DEF P!Next
  <2>3. CASE UNCHANGED frames
    BY <2>3 DEF frames, P!vars
  <2> QED
    BY <2>1, <2>2, <2>3 DEF Next, vars, vmm_init_directory, vmm_init_table, vmm_init_entries,
       vmm_init_cr3, kheap_init, kmalloc_grows, Request, kheap_expand, kheap_expand_done,
       vmm_map_table, vmm_map_clear, vmm_map_entry, invlpg, tlb_fill, fault, stopped
<1> QED
  BY <1>1, <1>2, PTL DEF Spec, P!Spec

LEMMA UsesPmmProofs == Spec => PP!Spec
<1>1. P!Init => PP!Init
  BY DEF P!Init, PP!Init, P!nullptr, PP!nullptr
<1>2. [P!Next]_P!vars => [PP!Next]_PP!vars
  <2>1. ASSUME NEW S PROVE P!Cardinality(S) = PP!Cardinality(S)
    BY DEF P!Cardinality, PP!Cardinality
  <2>2. P!vars = PP!vars /\ P!vars' = PP!vars'
    BY DEF P!vars, PP!vars
  <2>3. P!pmm_init_scan => PP!pmm_init_scan
    BY DEF P!pmm_init_scan, PP!pmm_init_scan
  <2>4. P!pmm_init_size => PP!pmm_init_size
    BY DEF P!pmm_init_size, PP!pmm_init_size
  <2>5. P!pmm_init_free => PP!pmm_init_free
    <3>1. P!RegionBlocks(mmap[entry]) = PP!RegionBlocks(mmap[entry])
      BY DEF P!RegionBlocks, PP!RegionBlocks, P!Blocks, PP!Blocks
    <3> QED
      BY <3>1, <2>1 DEF P!pmm_init_free, PP!pmm_init_free
  <2>6. P!pmm_init_relock => PP!pmm_init_relock
    <3>1. P!KernelBlocks = PP!KernelBlocks /\ P!Blocks = PP!Blocks
      BY DEF P!KernelBlocks, PP!KernelBlocks, P!BitmapSize, PP!BitmapSize, P!Blocks, PP!Blocks
    <3> QED
      BY <3>1, <2>1 DEF P!pmm_init_relock, PP!pmm_init_relock
  <2>7. P!pmm_alloc_page => PP!pmm_alloc_page
    BY DEF P!pmm_alloc_page, PP!pmm_alloc_page, P!FreeBlocks, PP!FreeBlocks, P!Blocks, PP!Blocks,
       P!PhysAddr, PP!PhysAddr, P!nullptr, PP!nullptr
  <2>8. P!FreeHeld => PP!FreeHeld
    BY DEF P!FreeHeld, PP!FreeHeld, P!pmm_free_page, PP!pmm_free_page, P!PhysAddr, PP!PhysAddr
  <2>9. P!FreeAgain => PP!FreeAgain
    BY DEF P!FreeAgain, PP!FreeAgain, P!pmm_free_page, PP!pmm_free_page, P!FreeBlocks,
       PP!FreeBlocks, P!Blocks, PP!Blocks
  <2> QED
    BY <2>2, <2>3, <2>4, <2>5, <2>6, <2>7, <2>8, <2>9 DEF P!Next, PP!Next
<1> QED
  BY <1>1, <1>2, UsesPmm, PTL DEF P!Spec, PP!Spec

\* What Vmm needs to know of the memory manager: pages handed out are marked, all
\* pages have numbers below the size of the heap's area, and those of the image are
\* never handed out.
Memory ==
    /\ pmm_max_blocks \in Nat /\ pmm_max_blocks <= HEAP_AREA
    /\ pmm_bitmap \subseteq 0 .. pmm_max_blocks - 1
    /\ held \subseteq pmm_bitmap
    /\ phase = "run" => Image \cap (0 .. pmm_max_blocks - 1) \subseteq pmm_bitmap
    /\ Image \cap held = {}
    /\ ret \in Nat

LEMMA ImageLocked ==
    ASSUME pmm_max_blocks \in Nat
    PROVE  Image \subseteq PP!KernelBlocks
<1> DEFINE b == PP!BitmapSize
           last == (KernelEnd + b + PAGE_SIZE - 1) \div PAGE_SIZE
<1>1. b \in Nat
  <2>1. pmm_max_blocks \div 8 \in Nat
    BY DivMod
  <2> QED
    BY <2>1 DEF PP!BitmapSize
<1>2. KernelEnd \in Nat /\ (BootDirectory + 2) * PAGE_SIZE < KernelEnd
  BY ImageAssumption
<1> HIDE DEF b
<1>3. KernelEnd + b + PAGE_SIZE - 1 \in Nat
  BY <1>1, <1>2, Slots
<1>4. last * PAGE_SIZE + PAGE_SIZE > KernelEnd + b + PAGE_SIZE - 1 /\ last \in Nat
  BY <1>3, Slots, DivMod
<1> HIDE DEF last
<1>5. (BootDirectory + 2) * PAGE_SIZE < last * PAGE_SIZE
  <2>1. (BootDirectory + 2) * PAGE_SIZE \in Nat /\ last * PAGE_SIZE \in Nat
    BY <1>4, ImageFacts, Slots
  <2> QED
    BY <1>1, <1>2, <1>4, <2>1, Slots
<1>6. BootDirectory + 2 < last
  <2> SUFFICES ASSUME last <= BootDirectory + 2 PROVE FALSE
    BY <1>4, ImageFacts
  <2>1. last * PAGE_SIZE <= (BootDirectory + 2) * PAGE_SIZE
    BY <1>4, ImageFacts, Slots
  <2> QED
    BY <1>4, <1>5, <2>1, ImageFacts, Slots
<1>7. PP!KernelBlocks = BootDirectory .. last - 1
  BY DEF PP!KernelBlocks, BootDirectory, last, b
<1> QED
  BY <1>4, <1>6, <1>7, ImageFacts DEF Image

LEMMA MemoryInvariant == Spec => []Memory
<1> DEFINE Bound == PP!Within(HEAP_AREA * PAGE_SIZE)
<1>1. PP!Spec => []PP!TypeOK
  BY PP!TypeCorrect, PmmConstants
<1>2. PP!Spec => []PP!NoPageInTwoHands
  BY PP!OwnershipCorrect, PmmConstants, MemoryFits
<1>3. /\ PP!Init => Bound
      /\ PP!TypeOK /\ Bound /\ [PP!Next]_PP!vars => Bound'
  <2>1. \A m \in BootMaps : \A k \in 1 .. Len(m) :
          m[k].type = "available" => m[k].addr + m[k].len <= HEAP_AREA * PAGE_SIZE
    BY HeapAssumption
  <2> QED
    BY <2>1, PmmConstants, HeapArea, PP!WithinSteps
<1>4. PP!TypeOK /\ PP!NoPageInTwoHands /\ Bound => Memory
  <2> SUFFICES ASSUME PP!TypeOK, PP!NoPageInTwoHands, Bound
               PROVE  Memory
    OBVIOUS
  <2>1. pmm_max_blocks \in Nat /\ pmm_bitmap \subseteq 0 .. pmm_max_blocks - 1 /\ ret \in Nat
    BY DEF PP!TypeOK, PP!Blocks
  <2>2. held \subseteq pmm_bitmap
    BY DEF PP!TypeOK, PP!NoPageInTwoHands
  <2>3. phase = "run" => Image \cap (0 .. pmm_max_blocks - 1) \subseteq pmm_bitmap
    BY <2>1, ImageLocked DEF PP!NoPageInTwoHands, PP!Blocks
  <2>4. Image \cap held = {}
    BY <2>1, ImageLocked DEF PP!NoPageInTwoHands, PP!TypeOK
  <2>5. pmm_max_blocks <= HEAP_AREA
    <3>1. pmm_max_blocks * PAGE_SIZE <= HEAP_AREA * PAGE_SIZE
      BY DEF PP!Within
    <3> SUFFICES ASSUME HEAP_AREA + 1 <= pmm_max_blocks PROVE FALSE
      BY <2>1, HeapArea
    <3>2. (HEAP_AREA + 1) * PAGE_SIZE <= pmm_max_blocks * PAGE_SIZE
      BY <2>1, HeapArea, Slots
    <3>3. (HEAP_AREA + 1) * PAGE_SIZE = HEAP_AREA * PAGE_SIZE + PAGE_SIZE
      BY HeapArea, Slots
    <3>4. pmm_max_blocks * PAGE_SIZE \in Nat
      BY <2>1, Slots
    <3> QED
      BY <3>1, <3>2, <3>3, <3>4, HeapArea, Slots
  <2> QED
    BY <2>1, <2>2, <2>3, <2>4, <2>5 DEF Memory
<1> QED
  BY <1>1, <1>2, <1>3, <1>4, UsesPmmProofs, PTL DEF PP!Spec

LEMMA HeldFinite ==
    ASSUME Memory
    PROVE  /\ IsFiniteSet(held) /\ Cardinality(held) \in Nat /\ Cardinality(held) <= HEAP_AREA
           /\ held \subseteq Nat
<1>1. /\ IsFiniteSet(0 .. pmm_max_blocks - 1) /\ held \subseteq 0 .. pmm_max_blocks - 1
      /\ Cardinality(0 .. pmm_max_blocks - 1) <= pmm_max_blocks /\ pmm_max_blocks \in Nat
      /\ Cardinality(0 .. pmm_max_blocks - 1) \in Nat /\ pmm_max_blocks <= HEAP_AREA
  <2>1. /\ pmm_max_blocks \in Nat /\ pmm_max_blocks <= HEAP_AREA
        /\ held \subseteq 0 .. pmm_max_blocks - 1
    BY DEF Memory
  <2>2. /\ IsFiniteSet(0 .. pmm_max_blocks - 1)
        /\ Cardinality(0 .. pmm_max_blocks - 1) =
             IF 0 > pmm_max_blocks - 1 THEN 0 ELSE pmm_max_blocks - 1 - 0 + 1
    BY <2>1, FS_Interval
  <2> QED
    BY <2>1, <2>2
<1>2. /\ IsFiniteSet(held) /\ Cardinality(held) \in Nat
      /\ Cardinality(held) <= Cardinality(0 .. pmm_max_blocks - 1)
  BY <1>1, FS_Subset, FS_CardinalityType
<1> QED
  BY <1>1, <1>2, HeapArea

\* pmm_alloc_page hands out the first free page, one that nobody has, or none.
LEMMA AllocEffect ==
    ASSUME Memory, P!pmm_alloc_page
    PROVE  /\ phase = "run" /\ phase' = phase /\ ret' \in Nat
           /\ 0 \notin P!FreeBlocks' /\ Cardinality(held) \in Nat
           /\ \/ P!FreeBlocks = {} /\ P!FreeBlocks' = {} /\ ret' = P!nullptr /\ held' = held
              \/ \E i \in P!FreeBlocks :
                   /\ i \in Nat /\ i < HEAP_AREA /\ i \notin held /\ i \notin Image
                   /\ held' = held \cup {i} /\ Cardinality(held') = Cardinality(held) + 1
                   /\ ret' \div PAGE_SIZE = i /\ ret' = i * PAGE_SIZE
                   /\ ret' = P!nullptr <=> i = 0
                   /\ \A j \in P!FreeBlocks : i <= j
<1>1. phase = "run" /\ UNCHANGED <<phase, pmm_max_blocks>>
  BY DEF P!pmm_alloc_page
<1>1a. IsFiniteSet(held) /\ Cardinality(held) \in Nat
  BY HeldFinite
<1>2. CASE P!FreeBlocks = {} /\ ret' = P!nullptr /\ UNCHANGED <<pmm_bitmap, pmm_used_blocks, held>>
  <2>1. P!FreeBlocks' = {}
    BY <1>1, <1>2 DEF P!FreeBlocks, P!Blocks
  <2>2. P!FreeBlocks = {} /\ P!FreeBlocks' = {} /\ ret' = P!nullptr /\ held' = held
    BY <1>2, <2>1
  <2>3. ret' \in Nat /\ 0 \notin P!FreeBlocks'
    BY <2>2 DEF P!nullptr
  <2> QED
    BY <1>1, <1>1a, <2>2, <2>3
<1>3. ASSUME NEW i \in P!FreeBlocks, \A j \in P!FreeBlocks : i <= j,
             pmm_bitmap' = pmm_bitmap \cup {i}, held' = held \cup {i}, ret' = P!PhysAddr(i)
      PROVE  /\ ret' \in Nat /\ 0 \notin P!FreeBlocks'
             /\ i \in Nat /\ i < HEAP_AREA /\ i \notin held /\ i \notin Image
             /\ held' = held \cup {i} /\ Cardinality(held') = Cardinality(held) + 1
             /\ ret' \div PAGE_SIZE = i /\ ret' = i * PAGE_SIZE
             /\ ret' = P!nullptr <=> i = 0
  <2>1. i \in 0 .. pmm_max_blocks - 1 /\ i \notin pmm_bitmap /\ i \notin held
    BY <1>3 DEF P!FreeBlocks, P!Blocks, Memory
  <2>2. i \in Nat /\ i < HEAP_AREA /\ i \notin Image
    BY <1>1, <2>1, HeapArea DEF Memory
  <2>3. /\ i * PAGE_SIZE \in Nat /\ i * PAGE_SIZE < HEAP_AREA * PAGE_SIZE
        /\ i # 0 => i * PAGE_SIZE > 0
    BY <2>2, HeapArea, Slots
  <2>4. ret' = i * PAGE_SIZE
    <3>1. (i * PAGE_SIZE) % ADDR_SPACE = i * PAGE_SIZE
      BY <2>3, HeapArea, PP!ModOfSmall, PmmConstants
    <3> QED
      BY <1>3, <3>1 DEF P!PhysAddr
  <2>5. (i * PAGE_SIZE) \div PAGE_SIZE = i
    BY <2>2, Slots, PmmConstants, PP!DivOfMultiple
  <2>6. 0 \notin P!FreeBlocks'
    <3>1. P!FreeBlocks' = P!FreeBlocks \ {i}
      BY <1>1, <1>3 DEF P!FreeBlocks, P!Blocks
    <3>2. 0 \in P!FreeBlocks => i = 0
      BY <1>3, <2>2
    <3> QED
      BY <3>1, <3>2
  <2>7. Cardinality(held') = Cardinality(held) + 1
    BY <1>1a, <1>3, <2>1, FS_AddElement
  <2>8. ret' \in Nat /\ ret' \div PAGE_SIZE = i
    BY <2>3, <2>4, <2>5
  <2>9. ret' = P!nullptr <=> i = 0
    BY <2>3, <2>4, Slots DEF P!nullptr
  <2> QED
    BY <1>3, <2>1, <2>2, <2>4, <2>6, <2>7, <2>8, <2>9
<1>4. CASE \E i \in P!FreeBlocks :
                /\ \A j \in P!FreeBlocks : i <= j
                /\ pmm_bitmap' = pmm_bitmap \cup {i} /\ held' = held \cup {i}
                /\ ret' = P!PhysAddr(i)
  <2>1. PICK i \in P!FreeBlocks :
          /\ \A j \in P!FreeBlocks : i <= j
          /\ pmm_bitmap' = pmm_bitmap \cup {i} /\ held' = held \cup {i}
          /\ ret' = P!PhysAddr(i)
    BY <1>4
  <2> QED
    BY <1>1, <1>1a, <1>3, <2>1
<1> QED
  BY <1>2, <1>4 DEF P!pmm_alloc_page
----------------------------------------------------------------------------
(* The inductive invariant *)

Starting == {"pmm_init", "vmm_init", "vmm_init_table", "vmm_init_entries", "vmm_init_cr3"}
Mapping == {"map", "clear", "entry", "invlpg"}

\* The tables that boot.S and vmm_init fill.
Identity(u) == [i \in Index |-> Entry(i, u)]
BootRow == [NullTable EXCEPT ![0] = Entry(BootTable, FALSE),
                             ![KERNEL_SLOT] = Entry(BootTable, FALSE)]
FirstRow(d, t) ==
    [NullTable EXCEPT ![0] = Entry(t, TRUE), ![KERNEL_SLOT] = Entry(t, TRUE),
                      ![VMM_RECURSIVE_SLOT] = Entry(d, FALSE)]

\* What holds also after vmm_map_page has been refused a page: the heap never has
\* more pages than were handed out, and page 0 is not free once vmm_init has begun.
Base ==
    /\ TypeOK
    /\ \A f \in DOMAIN mem : mem[f] \in [Index -> Entries]
    /\ leftover \in Entries
    /\ kernel_directory \in Nat /\ first_page_table \in Nat
    /\ backing \in Seq(Nat)
    /\ Len(backing) + (IF pc \in Mapping THEN 1 ELSE 0) <= Cardinality(held)
    /\ pc \in Mapping => pages > 0
    /\ pc = "pmm_init" => phase # "run"
    /\ pc \notin {"pmm_init", "lost"} => phase = "run"
    /\ pc \notin {"pmm_init", "vmm_init", "lost"} => 0 \notin P!FreeBlocks
    /\ Paging /\ ret = P!nullptr => P!FreeBlocks = {}

\* Until CR3 is loaded the tables of boot.S are in use.
BootTables ==
    /\ cr3 = BootDirectory /\ {BootDirectory, BootTable} \subseteq DOMAIN mem
    /\ mem[BootDirectory] = BootRow /\ mem[BootTable] = Identity(FALSE)

\* What the TLB holds is what the tables say.
Fresh == tlb # << >> => tlb[2] = Walk(tlb[1])

Start ==
    pc \in Starting =>
        /\ BootTables /\ Fresh
        /\ backing = << >> /\ pages = 0
        /\ pc \in {"vmm_init_table", "vmm_init_entries", "vmm_init_cr3"} =>
             kernel_directory \in (Index \cap DOMAIN mem) \ Image
        /\ pc = "vmm_init_table" =>
             \/ kernel_directory \in held /\ mem[kernel_directory] = NullTable
             \/ P!FreeBlocks = {}
        /\ pc \in {"vmm_init_entries", "vmm_init_cr3"} =>
             \/ /\ {kernel_directory, first_page_table} \subseteq held \cap DOMAIN mem
                /\ ret # P!nullptr /\ kernel_directory # first_page_table
                /\ mem[first_page_table] = Identity(TRUE)
                /\ mem[kernel_directory] =
                     IF pc = "vmm_init_entries" THEN NullTable
                     ELSE FirstRow(kernel_directory, first_page_table)
             \/ ret = P!nullptr /\ P!FreeBlocks = {}

\* The slots of the heap that have a table, and the table.
Tabled == {s \in HEAP_SLOT .. VMM_RECURSIVE_SLOT - 1 :
             s * ENTRIES < heap_current_end \/ (pc \in {"clear", "entry", "invlpg"} /\ s = pd_index)}
Table(s) == mem[cr3][s].frame

\* What the tables say of page v of the heap.
Leaf(v) ==
    IF v < heap_current_end THEN Entry(backing[v - HeapStart + 1], TRUE)
    ELSE IF v = heap_current_end /\ pc = "invlpg" THEN Entry(phys, TRUE)
    ELSE Null

\* Directory and tables hold what the code has entered.
Tables ==
    /\ {cr3, first_page_table} \subseteq held \cap DOMAIN mem
    /\ pc = "clear" => pt_index = 0
    /\ mem[first_page_table] = Identity(TRUE)
    /\ mem[cr3][0] = Entry(first_page_table, TRUE)
    /\ mem[cr3][KERNEL_SLOT] = Entry(first_page_table, TRUE)
    /\ mem[cr3][VMM_RECURSIVE_SLOT] = Entry(cr3, FALSE)
    /\ \A s \in Index \ {0, KERNEL_SLOT, VMM_RECURSIVE_SLOT} :
         IF s \in Tabled THEN Table(s) \in held /\ mem[cr3][s].user = TRUE
         ELSE mem[cr3][s] = Null
    /\ \A s \in Tabled :
         ~(pc = "clear" /\ s = pd_index) =>
             /\ Table(s) \in DOMAIN mem
             /\ \A i \in Index : mem[Table(s)][i] = Leaf(Page(s, i))

\* Every frame has one use, the one that is about to be mapped included.
Distinct ==
    /\ cr3 # first_page_table
    /\ \A s \in Tabled : Table(s) \notin {cr3, first_page_table}
    /\ \A s, t \in Tabled : s # t => Table(s) # Table(t)
    /\ \A i \in 1 .. Len(backing) :
         /\ backing[i] \in held /\ backing[i] \notin {cr3, first_page_table}
         /\ \A s \in Tabled : Table(s) # backing[i]
         /\ \A j \in 1 .. Len(backing) : i # j => backing[i] # backing[j]

PhysApart ==
    /\ phys \in held /\ phys \notin {cr3, first_page_table}
    /\ \A s \in Tabled : Table(s) # phys
    /\ \A i \in 1 .. Len(backing) : backing[i] # phys

Apart == Distinct /\ (pc \in Mapping => PhysApart)

Coherent == Fresh \/ tlb[1] \in heap_current_end .. Window(0) - 1

Good == Served /\ Paging => Tables /\ Apart /\ Coherent

IInv == Base /\ Start /\ Good
----------------------------------------------------------------------------
(* The MMU *)

\* A page is a slot and an index.
LEMMA AddressParts ==
    ASSUME NEW v \in Addresses
    PROVE  v \in Nat /\ v \div ENTRIES \in Index /\ v % ENTRIES \in Index
<1>1. v \in Nat /\ ENTRIES * ENTRIES \in Nat /\ v < ENTRIES * ENTRIES
  BY Slots DEF Addresses
<1>2. v \div ENTRIES \in Nat /\ v % ENTRIES \in Index
      /\ v = (v \div ENTRIES) * ENTRIES + (v % ENTRIES)
  BY <1>1, PartsOfPage DEF Page
<1>3. v \div ENTRIES < ENTRIES
  <2> SUFFICES ASSUME ENTRIES <= v \div ENTRIES PROVE FALSE
    BY <1>2, Slots
  <2>1. ENTRIES * ENTRIES <= (v \div ENTRIES) * ENTRIES
    BY <1>2, Slots
  <2>2. (v \div ENTRIES) * ENTRIES \in Nat /\ v % ENTRIES \in Nat
    BY <1>2, Slots DEF Index
  <2> QED
    BY <1>1, <1>2, <2>1, <2>2
<1> QED
  BY <1>1, <1>2, <1>3, Slots DEF Index

LEMMA PageInRange ==
    ASSUME NEW s \in Index, NEW i \in Index
    PROVE  /\ Page(s, i) \in Addresses
           /\ Page(s, i) \div ENTRIES = s /\ Page(s, i) % ENTRIES = i
<1>1. s \in Nat /\ s < ENTRIES
  BY Slots DEF Index
<1>2. Page(s, i) \in Nat /\ Page(s, i) < ENTRIES * ENTRIES
  BY <1>1, PageOrder, PageParts, Slots
<1>3. ENTRIES * ENTRIES \in Nat
  BY Slots
<1> QED
  BY <1>1, <1>2, <1>3, PageParts DEF Addresses

LEMMA EntryFacts ==
    ASSUME NEW f, NEW u
    PROVE  Entry(f, u).frame = f /\ Entry(f, u).user = u
BY DEF Entry

LEMMA EntryIs ==
    ASSUME NEW e \in Entries
    PROVE  /\ e = Entry(e.frame, e.user)
           /\ e.frame \in Nat \cup {None} /\ e.user \in BOOLEAN
BY DEF Entries, Entry

LEMMA RowType ==
    ASSUME Base, NEW f
    PROVE  Row(f) \in [Index -> Entries]
BY DEF Base, Row

LEMMA WalkType ==
    ASSUME Base, NEW v \in Addresses
    PROVE  /\ WalkEntry(v) \in Entries /\ Walk(v) \in Nat \cup {None}
           /\ Reach(v) \in Nat \cup {None}
<1> DEFINE d == Row(cr3)[v \div ENTRIES]
           e == Row(d.frame)[v % ENTRIES]
<1>1. d \in Entries /\ e \in Entries
  BY RowType, AddressParts
<1>2. Null \in Entries /\ Entry(e.frame, d.user /\ e.user) \in Entries
  BY <1>1 DEF Null, Entry, Entries
<1>3. WalkEntry(v) \in Entries
  BY <1>2 DEF WalkEntry
<1>4. Walk(v) \in Nat \cup {None}
  BY <1>3, EntryIs DEF Walk
<1> QED
  BY <1>3, <1>4 DEF Reach, Base, TypeOK

\* How an address leads through a directory and a table that are both in memory.
LEMMA WalkThrough ==
    ASSUME NEW v, cr3 \in DOMAIN mem, NEW f \in DOMAIN mem, NEW u,
           f # None, mem[cr3][v \div ENTRIES] = Entry(f, u)
    PROVE  /\ WalkEntry(v) = Entry(mem[f][v % ENTRIES].frame, u /\ mem[f][v % ENTRIES].user)
           /\ Walk(v) = mem[f][v % ENTRIES].frame
BY DEF WalkEntry, Walk, Row, Entry

LEMMA WalkNone ==
    ASSUME NEW v, cr3 \in DOMAIN mem, mem[cr3][v \div ENTRIES] = Null
    PROVE  WalkEntry(v) = Null /\ Walk(v) = None
BY DEF WalkEntry, Walk, Row, Null, Entry

\* What StorePage does to the memory.
LEMMA StoreTo ==
    ASSUME Base, NEW v \in Addresses, NEW row \in [Index -> Entries], NEW to,
           StorePage(v, row, to), NEW f \in Nat, Reach(v) \in {f, None}
    PROVE  /\ \A g \in DOMAIN mem' : mem'[g] \in [Index -> Entries]
           /\ DOMAIN mem \subseteq DOMAIN mem'
           /\ \/ Reach(v) = None /\ pc' = "lost" /\ mem' = mem
              \/ /\ Reach(v) = f /\ pc' = to
                 /\ f \in DOMAIN mem' /\ mem'[f] = row
                 /\ \A g \in DOMAIN mem : g # f => mem'[g] = mem[g]
<1>1. f # None
  BY DEF None
<1>2. CASE Reach(v) = None
  BY <1>1, <1>2 DEF StorePage, Base
<1>3. CASE Reach(v) = f
  BY <1>1, <1>3 DEF StorePage, Base
<1> QED
  BY <1>2, <1>3

LEMMA LoadType ==
    ASSUME Base, NEW v \in Addresses
    PROVE  Load(v) \in [Index -> Entries]
BY RowType DEF Load, NullTable, Null, Entry, Entries
----------------------------------------------------------------------------
(* The steps before paging is on *)

\* The tables of boot.S map the first pages at 0 and at KERNEL_SLOT, and no others.
LEMMA BootWalk ==
    ASSUME NEW v \in Addresses
    PROVE  /\ BootTables => Walk(v) = IF v \div ENTRIES \in {0, KERNEL_SLOT} THEN v % ENTRIES
                                      ELSE None
           /\ BootTables' => Walk(v)' = IF v \div ENTRIES \in {0, KERNEL_SLOT} THEN v % ENTRIES
                                        ELSE None
<1>1. v \div ENTRIES \in Index /\ v % ENTRIES \in Index
  BY AddressParts
<1>2. /\ BootRow[v \div ENTRIES] = IF v \div ENTRIES \in {0, KERNEL_SLOT}
                                   THEN Entry(BootTable, FALSE) ELSE Null
      /\ Identity(FALSE)[v % ENTRIES] = Entry(v % ENTRIES, FALSE)
  BY <1>1, Slots DEF BootRow, Identity, NullTable
<1>3. BootTable # None /\ None = -1
  BY ImageFacts DEF None
<1>4. ASSUME BootTables
      PROVE  Walk(v) = IF v \div ENTRIES \in {0, KERNEL_SLOT} THEN v % ENTRIES ELSE None
  <2>1. /\ cr3 = BootDirectory /\ BootDirectory \in DOMAIN mem /\ BootTable \in DOMAIN mem
        /\ mem[BootDirectory] = BootRow /\ mem[BootTable] = Identity(FALSE)
    BY <1>4 DEF BootTables
  <2>2. Row(cr3) = BootRow /\ Row(BootTable) = Identity(FALSE)
    BY <2>1 DEF Row
  <2>3. CASE v \div ENTRIES \in {0, KERNEL_SLOT}
    <3>1. BootRow[v \div ENTRIES] = Entry(BootTable, FALSE)
      BY <1>2, <2>3
    <3>2. Row(cr3)[v \div ENTRIES].frame = BootTable
      BY <2>2, <3>1 DEF Entry
    <3>3. Walk(v) = Identity(FALSE)[v % ENTRIES].frame
      BY <1>3, <2>2, <3>2, EntryFacts DEF Walk, WalkEntry
    <3> QED
      BY <1>2, <2>3, <3>3, EntryFacts
  <2>4. CASE v \div ENTRIES \notin {0, KERNEL_SLOT}
    <3>1. BootRow[v \div ENTRIES] = Null
      BY <1>2, <2>4
    <3>2. Row(cr3)[v \div ENTRIES].frame = None
      BY <2>2, <3>1 DEF Null, Entry
    <3>3. WalkEntry(v) = Null
      BY <3>2 DEF WalkEntry
    <3>4. Null.frame = None
      BY EntryFacts DEF Null
    <3>5. Walk(v) = None
      BY <3>3, <3>4 DEF Walk
    <3> QED
      BY <2>4, <3>5
  <2> QED
    BY <2>3, <2>4
<1>5. ASSUME BootTables'
      PROVE  Walk(v)' = IF v \div ENTRIES \in {0, KERNEL_SLOT} THEN v % ENTRIES ELSE None
  <2>1. /\ cr3' = BootDirectory /\ BootDirectory \in DOMAIN mem' /\ BootTable \in DOMAIN mem'
        /\ mem'[BootDirectory] = BootRow /\ mem'[BootTable] = Identity(FALSE)
    BY <1>5 DEF BootTables
  <2>2. Row(cr3)' = BootRow /\ Row(BootTable)' = Identity(FALSE)
    BY <2>1 DEF Row
  <2>3. CASE v \div ENTRIES \in {0, KERNEL_SLOT}
    <3>1. BootRow[v \div ENTRIES] = Entry(BootTable, FALSE)
      BY <1>2, <2>3
    <3>2. Row(cr3)'[v \div ENTRIES].frame = BootTable
      BY <2>2, <3>1 DEF Entry
    <3>3. Walk(v)' = Identity(FALSE)[v % ENTRIES].frame
      BY <1>3, <2>2, <3>2, EntryFacts DEF Walk, WalkEntry
    <3> QED
      BY <1>2, <2>3, <3>3, EntryFacts
  <2>4. CASE v \div ENTRIES \notin {0, KERNEL_SLOT}
    <3>1. BootRow[v \div ENTRIES] = Null
      BY <1>2, <2>4
    <3>2. Row(cr3)'[v \div ENTRIES].frame = None
      BY <2>2, <3>1 DEF Null, Entry
    <3>3. WalkEntry(v)' = Null
      BY <3>2 DEF WalkEntry
    <3>4. Null.frame = None
      BY EntryFacts DEF Null
    <3>5. Walk(v)' = None
      BY <3>3, <3>4 DEF Walk
    <3> QED
      BY <2>4, <3>5
  <2> QED
    BY <2>3, <2>4
<1> QED
  BY <1>4, <1>5

LEMMA WalkSame ==
    ASSUME UNCHANGED <<cr3, mem, leftover>>, NEW v
    PROVE  WalkEntry(v)' = WalkEntry(v) /\ Walk(v)' = Walk(v)
BY DEF Walk, WalkEntry, Row

\* The first page of the machine's memory that pmm_alloc_page finds is written through
\* its identity mapping, or not at all.
LEMMA IdentityStore ==
    ASSUME Base, Start, pc \in Starting, NEW v \in Nat, v < HEAP_AREA
    PROVE  /\ v \in Addresses /\ Reach(v) \in {v, None}
           /\ Reach(v) = v => v \in Index
<1>1. v < KERNEL_SLOT * ENTRIES /\ HEAP_AREA <= KERNEL_SLOT * ENTRIES
  <2>1. KERNEL_SLOT * ENTRIES \in Nat
    BY Slots
  <2> QED
    BY <2>1, HeapAssumption, HeapArea
<1>2. KERNEL_SLOT * ENTRIES <= ENTRIES * ENTRIES
  BY Slots
<1>3. v \in Addresses
  <2>1. KERNEL_SLOT * ENTRIES \in Nat /\ ENTRIES * ENTRIES \in Nat
    BY Slots
  <2> QED
    BY <1>1, <1>2, <2>1 DEF Addresses
<1>4. v = (v \div ENTRIES) * ENTRIES + (v % ENTRIES) /\ v \div ENTRIES \in Nat /\ v % ENTRIES \in Index
  BY PartsOfPage DEF Page
<1>5. v \div ENTRIES < KERNEL_SLOT
  <2> SUFFICES ASSUME KERNEL_SLOT <= v \div ENTRIES PROVE FALSE
    BY <1>4, Slots
  <2>1. KERNEL_SLOT * ENTRIES <= (v \div ENTRIES) * ENTRIES
    BY <1>4, Slots
  <2>2. (v \div ENTRIES) * ENTRIES \in Nat /\ v % ENTRIES \in Nat /\ KERNEL_SLOT * ENTRIES \in Nat
    BY <1>4, Slots DEF Index
  <2> QED
    BY <1>1, <1>4, <2>1, <2>2
<1>6. Reach(v) = IF v \div ENTRIES = 0 THEN v % ENTRIES ELSE None
  <2>1. Walk(v) = IF v \div ENTRIES = 0 THEN v % ENTRIES ELSE None
    BY <1>3, <1>4, <1>5, BootWalk, Slots DEF Start
  <2>2. Reach(v) = Walk(v)
    BY DEF Reach, Start, Fresh
  <2> QED
    BY <2>1, <2>2
<1>7. v \div ENTRIES = 0 => v = v % ENTRIES
  BY <1>4, Slots
<1>8. v \div ENTRIES = 0 => v \in Index
  BY <1>4, <1>7
<1>9. None # v
  BY DEF None
<1> QED
  BY <1>3, <1>4, <1>6, <1>7, <1>8, <1>9

\* Before paging is on the kernel's code is always mapped.
LEMMA StartCode ==
    ASSUME Start, pc \in Starting
    PROVE  Reach(KernelCode) # None
<1>1. BootDirectory + 2 \in Index
  BY ImageFacts, Slots DEF Index
<1>2. /\ KernelCode \in Addresses
      /\ KernelCode \div ENTRIES = KERNEL_SLOT /\ KernelCode % ENTRIES = BootDirectory + 2
  BY <1>1, ImageFacts, PageInRange, Slots
<1>3. Walk(KernelCode) = BootDirectory + 2
  BY <1>2, BootWalk DEF Start
<1>4. Reach(KernelCode) = Walk(KernelCode)
  BY DEF Reach, Start, Fresh
<1> QED
  BY <1>1, <1>3, <1>4, ImageFacts DEF None

LEMMA InitInv == Init => IInv
<1> SUFFICES ASSUME Init PROVE IInv
  OBVIOUS
<1>1. /\ phase = "scan" /\ held = {} /\ ret = 0
      /\ pc = "pmm_init" /\ tlb = << >> /\ backing = << >> /\ kernel_directory = 0
      /\ first_page_table = 0 /\ phys = 0 /\ pages = 0 /\ heap_current_end = HeapStart
      /\ cr3 = BootDirectory /\ leftover \in Entries
  BY MemoryAssumption DEF Init, P!Init, P!nullptr, HeapStart
<1>2. mem = [f \in {BootDirectory, BootTable} |-> IF f = BootTable THEN Identity(FALSE) ELSE BootRow]
  BY DEF Init, Identity, BootRow
<1>3. DOMAIN mem = {BootDirectory, BootTable}
  BY <1>2
<1>3a. mem[BootDirectory] = BootRow /\ mem[BootTable] = Identity(FALSE)
  <2>1. BootDirectory # BootTable
    BY ImageFacts
  <2> QED
    BY <1>2, <2>1, Zenon
<1>4. BootRow \in [Index -> Entries] /\ Identity(FALSE) \in [Index -> Entries]
  <2>1. Null \in Entries /\ Entry(BootTable, FALSE) \in Entries
        /\ \A i \in Index : Entry(i, FALSE) \in Entries
    BY ImageFacts, Slots DEF Null, Entry, Entries, Index
  <2> QED
    BY <2>1 DEF BootRow, Identity, NullTable
<1>5. \A f \in DOMAIN mem : mem[f] \in [Index -> Entries]
  BY <1>3, <1>3a, <1>4
<1>6. TypeOK
  <2>1. \A f \in DOMAIN mem : \A i \in Index : mem[f][i].frame \in Nat \cup {None}
    BY <1>5, EntryIs
  <2>2. heap_current_end = HeapStart + Len(backing) /\ pages \in 0 .. INITIAL_PAGES + MAX_GROW
    BY <1>1, HeapArea, GrowAssumption
  <2> QED
    BY <1>1, <1>3, <2>1, <2>2 DEF TypeOK
<1>7. Base
  <2>1. Cardinality(held) = 0 /\ Len(backing) = 0 /\ backing \in Seq(Nat)
    BY <1>1, FS_EmptySet
  <2> QED
    BY <1>1, <1>5, <1>6, <2>1 DEF Base, Mapping, Paging
<1>8. Start
  BY <1>1, <1>3, <1>3a DEF Start, BootTables, Fresh
<1> QED
  BY <1>1, <1>7, <1>8 DEF IInv, Good, Paging

\* vmm_init writes other frames than those of the boot tables.
LEMMA BootStays ==
    ASSUME Base, Start, pc \in Starting, UNCHANGED <<cr3, tlb>>, DOMAIN mem \subseteq DOMAIN mem',
           mem'[BootDirectory] = mem[BootDirectory], mem'[BootTable] = mem[BootTable]
    PROVE  BootTables' /\ Fresh'
<1>1. BootTables /\ BootTables' /\ Fresh
  BY DEF Start, BootTables
<1>2. ASSUME NEW v, tlb # << >>, tlb[1] = v
      PROVE  tlb[2] = Walk(v)'
  <2>1. v \in Addresses /\ tlb[2] = Walk(v)
    BY <1>1, <1>2 DEF Fresh, Base, TypeOK
  <2> QED
    BY <1>1, <2>1, BootWalk
<1>3. Fresh'
  <2> SUFFICES ASSUME tlb # << >> PROVE tlb[2] = Walk(tlb[1])'
    BY DEF Fresh
  <2>1. PICK v : v = tlb[1]
    OBVIOUS
  <2>2. tlb[2] = Walk(v)'
    BY <1>2, <2>1
  <2> QED
    BY <2>1, <2>2 DEF Walk, WalkEntry, Row
<1> QED
  BY <1>1, <1>3

\* A step that does not touch the tables.
LEMMA StepBase ==
    ASSUME Base, UNCHANGED <<cr3, leftover, tlb, backing, heap_current_end>>,
           DOMAIN mem \subseteq DOMAIN mem', \A f \in DOMAIN mem' : mem'[f] \in [Index -> Entries],
           pc' \in {"pmm_init", "vmm_init", "vmm_init_table", "vmm_init_entries", "vmm_init_cr3",
               "kheap_init", "idle", "expand", "map", "clear", "entry", "invlpg", "panic", "lost"},
           phys' \in Nat, pages' \in 0 .. INITIAL_PAGES + MAX_GROW,
           kernel_directory' \in Nat, first_page_table' \in Nat,
           pc' \in Mapping => pages' > 0,
           Len(backing) + (IF pc' \in Mapping THEN 1 ELSE 0) <= Cardinality(held'),
           pc' = "pmm_init" => phase' # "run",
           pc' \notin {"pmm_init", "lost"} => phase' = "run",
           pc' \notin {"pmm_init", "vmm_init", "lost"} => 0 \notin P!FreeBlocks',
           Paging' /\ ret' = P!nullptr => P!FreeBlocks' = {}
    PROVE  Base'
<1>1. \A f \in DOMAIN mem' : \A i \in Index : mem'[f][i].frame \in Nat \cup {None}
  BY EntryIs
<1>2. TypeOK'
  BY <1>1 DEF Base, TypeOK
<1> QED
  BY <1>2 DEF Base, P!nullptr

LEMMA pmm_initInv ==
    ASSUME IInv, Memory, pmm_init
    PROVE  IInv'
<1>1. /\ pc = "pmm_init" /\ pc \in Starting /\ Start /\ Base
      /\ UNCHANGED <<cr3, mem, leftover, tlb, kernel_directory, first_page_table, phys, pages,
                     heap_current_end, backing, held, ret>>
      /\ pc' = IF phase' = "run" THEN "vmm_init" ELSE pc
  BY DEF IInv, pmm_init, At, Starting, P!pmm_init_scan, P!pmm_init_size, P!pmm_init_free,
     P!pmm_init_relock
<1>2. Base'
  BY <1>1, StepBase DEF Base, TypeOK, Paging, Mapping
<1>3. Start'
  <2>1. BootTables' /\ Fresh'
    BY <1>1, BootStays
  <2> QED
    BY <1>1, <2>1 DEF Start, Starting
<1> QED
  BY <1>1, <1>2, <1>3 DEF IInv, Good, Paging

LEMMA vmm_init_directoryInv ==
    ASSUME IInv, Memory, vmm_init_directory
    PROVE  IInv'
<1> DEFINE v == ret' \div PAGE_SIZE
<1>1. /\ pc = "vmm_init" /\ pc \in Starting /\ Start /\ Base /\ P!pmm_alloc_page
      /\ kernel_directory' = v /\ StorePage(v, NullTable, "vmm_init_table")
      /\ UNCHANGED <<cr3, leftover, tlb, first_page_table, phys, pages, heap_current_end, backing>>
  BY DEF IInv, vmm_init_directory, At, Starting
<1>2. /\ phase' = "run" /\ 0 \notin P!FreeBlocks' /\ Cardinality(held) \in Nat
      /\ \/ P!FreeBlocks' = {} /\ v = 0 /\ held' = held
         \/ v \in Nat /\ v < HEAP_AREA /\ v \notin Image /\ v \in held'
            /\ Cardinality(held') = Cardinality(held) + 1
  <2>1. 0 \div PAGE_SIZE = 0
    BY Slots
  <2> QED
    BY <1>1, <2>1, AllocEffect DEF P!nullptr
<1> HIDE DEF v
<1>3. v \in Nat /\ v < HEAP_AREA /\ v \notin Image
  <2>1. 0 < HEAP_AREA
    BY HeapArea, Slots DEF HEAP_AREA
  <2> QED
    BY <1>2, <2>1, ImageFacts DEF Image
<1>4. v \in Addresses /\ Reach(v) \in {v, None} /\ (Reach(v) = v => v \in Index)
  BY <1>1, <1>3, IdentityStore
<1>5. NullTable \in [Index -> Entries]
  BY DEF NullTable, Null, Entry, Entries
<1>6. /\ \A f \in DOMAIN mem' : mem'[f] \in [Index -> Entries]
      /\ DOMAIN mem \subseteq DOMAIN mem'
      /\ \/ pc' = "lost" /\ mem' = mem
         \/ /\ v \in Index /\ pc' = "vmm_init_table"
            /\ v \in DOMAIN mem' /\ mem'[v] = NullTable
            /\ \A f \in DOMAIN mem : f # v => mem'[f] = mem[f]
  <2>1. /\ \A g \in DOMAIN mem' : mem'[g] \in [Index -> Entries]
        /\ DOMAIN mem \subseteq DOMAIN mem'
        /\ \/ Reach(v) = None /\ pc' = "lost" /\ mem' = mem
           \/ /\ Reach(v) = v /\ pc' = "vmm_init_table"
              /\ v \in DOMAIN mem' /\ mem'[v] = NullTable
              /\ \A g \in DOMAIN mem : g # v => mem'[g] = mem[g]
    BY <1>1, <1>3, <1>4, <1>5, StoreTo
  <2> QED
    BY <1>4, <2>1
<1>7. Base'
  <2>1. Len(backing) = 0
    BY <1>1 DEF Start
  <2>2. Cardinality(held') \in Nat
    BY <1>2
  <2>3. /\ pc' \in {"vmm_init_table", "vmm_init_entries", "lost"} /\ pc' \notin Mapping /\ ~Paging'
        /\ pc' # "pmm_init"
    BY <1>6 DEF Mapping, Paging
  <2>4. /\ kernel_directory' \in Nat /\ first_page_table' \in Nat /\ phys' \in Nat
        /\ pages' \in 0 .. INITIAL_PAGES + MAX_GROW
    BY <1>1, <1>3 DEF Base, TypeOK
  <2>5. Len(backing) + (IF pc' \in Mapping THEN 1 ELSE 0) <= Cardinality(held')
    BY <2>1, <2>2, <2>3
  <2> QED
    BY <1>1, <1>2, <1>6, <2>3, <2>4, <2>5, StepBase
<1>8. CASE pc' = "lost"
  BY <1>7, <1>8 DEF IInv, Start, Starting, Good, Served
<1>9. CASE pc' = "vmm_init_table"
  <2>1. BootTables' /\ Fresh'
    BY <1>1, <1>3, <1>6, <1>9, BootStays DEF Image, Start, BootTables
  <2>2. Start'
    BY <1>1, <1>2, <1>3, <1>6, <1>9, <2>1 DEF Start
  <2> QED
    BY <1>7, <1>9, <2>2 DEF IInv, Good, Paging
<1> QED
  BY <1>6, <1>8, <1>9

LEMMA vmm_init_tableInv ==
    ASSUME IInv, Memory, vmm_init_table
    PROVE  IInv'
<1> DEFINE v == ret' \div PAGE_SIZE
<1>1. /\ pc = "vmm_init_table" /\ pc \in Starting /\ Start /\ Base /\ P!pmm_alloc_page
      /\ first_page_table' = v /\ StorePage(v, Identity(TRUE), "vmm_init_entries")
      /\ UNCHANGED <<cr3, leftover, tlb, kernel_directory, phys, pages, heap_current_end, backing>>
  BY DEF IInv, vmm_init_table, At, Starting, Identity
<1>2. /\ phase' = "run" /\ 0 \notin P!FreeBlocks' /\ Cardinality(held) \in Nat
      /\ \/ P!FreeBlocks' = {} /\ v = 0 /\ ret' = P!nullptr /\ held' = held
         \/ /\ v \in Nat /\ v < HEAP_AREA /\ v \notin Image /\ v \in held' /\ v \notin held
            /\ held \subseteq held' /\ ret' # P!nullptr /\ P!FreeBlocks # {}
            /\ Cardinality(held') = Cardinality(held) + 1
  <2>1. 0 \div PAGE_SIZE = 0
    BY Slots
  <2>2. 0 \notin P!FreeBlocks
    BY <1>1 DEF Base
  <2> QED
    BY <1>1, <2>1, <2>2, AllocEffect DEF P!nullptr
<1> HIDE DEF v
<1>3. v \in Nat /\ v < HEAP_AREA /\ v \notin Image
  <2>1. 0 < HEAP_AREA
    BY HeapArea, Slots DEF HEAP_AREA
  <2> QED
    BY <1>2, <2>1, ImageFacts DEF Image
<1>4. v \in Addresses /\ Reach(v) \in {v, None} /\ (Reach(v) = v => v \in Index)
  BY <1>1, <1>3, IdentityStore
<1>5. Identity(TRUE) \in [Index -> Entries]
  BY Slots DEF Identity, Entry, Entries, Index
<1>6. /\ \A f \in DOMAIN mem' : mem'[f] \in [Index -> Entries]
      /\ DOMAIN mem \subseteq DOMAIN mem'
      /\ \/ pc' = "lost" /\ mem' = mem
         \/ /\ v \in Index /\ pc' = "vmm_init_entries"
            /\ v \in DOMAIN mem' /\ mem'[v] = Identity(TRUE)
            /\ \A f \in DOMAIN mem : f # v => mem'[f] = mem[f]
  <2>1. /\ \A g \in DOMAIN mem' : mem'[g] \in [Index -> Entries]
        /\ DOMAIN mem \subseteq DOMAIN mem'
        /\ \/ Reach(v) = None /\ pc' = "lost" /\ mem' = mem
           \/ /\ Reach(v) = v /\ pc' = "vmm_init_entries"
              /\ v \in DOMAIN mem' /\ mem'[v] = Identity(TRUE)
              /\ \A g \in DOMAIN mem : g # v => mem'[g] = mem[g]
    BY <1>1, <1>3, <1>4, <1>5, StoreTo
  <2> QED
    BY <1>4, <2>1
<1>7. Base'
  <2>1. Len(backing) = 0
    BY <1>1 DEF Start
  <2>2. Cardinality(held') \in Nat
    BY <1>2
  <2>3. /\ pc' \in {"vmm_init_table", "vmm_init_entries", "lost"} /\ pc' \notin Mapping /\ ~Paging'
        /\ pc' # "pmm_init"
    BY <1>6 DEF Mapping, Paging
  <2>4. /\ kernel_directory' \in Nat /\ first_page_table' \in Nat /\ phys' \in Nat
        /\ pages' \in 0 .. INITIAL_PAGES + MAX_GROW
    BY <1>1, <1>3 DEF Base, TypeOK
  <2>5. Len(backing) + (IF pc' \in Mapping THEN 1 ELSE 0) <= Cardinality(held')
    BY <2>1, <2>2, <2>3
  <2> QED
    BY <1>1, <1>2, <1>6, <2>3, <2>4, <2>5, StepBase
<1>8. CASE pc' = "lost"
  BY <1>7, <1>8 DEF IInv, Start, Starting, Good, Served
<1>9. CASE pc' = "vmm_init_entries"
  <2>1. BootTables' /\ Fresh'
    BY <1>1, <1>3, <1>6, <1>9, BootStays DEF Image, Start, BootTables
  <2>2. kernel_directory \in (Index \cap DOMAIN mem) \ Image
        /\ (P!FreeBlocks # {} => kernel_directory \in held /\ mem[kernel_directory] = NullTable)
    BY <1>1 DEF Start
  <2>3. Start'
    BY <1>1, <1>2, <1>3, <1>6, <1>9, <2>1, <2>2 DEF Start
  <2> QED
    BY <1>7, <1>9, <2>3 DEF IInv, Good, Paging
<1> QED
  BY <1>6, <1>8, <1>9

\* The page of a low frame is reached at its own number.
LEMMA LowReach ==
    ASSUME Start, pc \in Starting, NEW v \in Index
    PROVE  v \in Addresses /\ Reach(v) = v
<1>1. v = Page(0, v)
  BY Slots DEF Page, Index
<1>2. v \in Addresses /\ v \div ENTRIES = 0 /\ v % ENTRIES = v
  BY <1>1, PageInRange, Slots
<1>3. Walk(v) = v
  BY <1>2, BootWalk DEF Start
<1>4. Reach(v) = Walk(v)
  BY DEF Reach, Start, Fresh
<1> QED
  BY <1>2, <1>3, <1>4

LEMMA vmm_init_entriesInv ==
    ASSUME IInv, Memory, vmm_init_entries
    PROVE  IInv'
<1> DEFINE t == Entry(first_page_table, TRUE)
           row == [Load(kernel_directory) EXCEPT
                       ![0] = t, ![KERNEL_SLOT] = t,
                       ![VMM_RECURSIVE_SLOT] = Entry(kernel_directory, FALSE)]
<1>1. /\ pc = "vmm_init_entries" /\ pc \in Starting /\ Start /\ Base
      /\ StorePage(kernel_directory, row, "vmm_init_cr3")
      /\ UNCHANGED <<frames, cr3, leftover, tlb, kernel_directory, first_page_table, phys, pages,
                     heap_current_end, backing>>
  BY DEF IInv, vmm_init_entries, At, Starting
<1>2. PICK d : d = kernel_directory
  OBVIOUS
<1>3. d \in Index /\ d \in DOMAIN mem /\ d \notin Image /\ d \in Nat /\ first_page_table \in Nat
  BY <1>1, <1>2 DEF Start, Base
<1>4. d \in Addresses /\ Reach(d) = d
  BY <1>1, <1>3, LowReach
<1>5. Load(d) = mem[d] /\ mem[d] \in [Index -> Entries]
  BY <1>1, <1>3, <1>4 DEF Load, Row, Base, None
<1>6. row \in [Index -> Entries]
  <2>1. t \in Entries /\ Entry(d, FALSE) \in Entries
    BY <1>3 DEF Entry, Entries
  <2> HIDE DEF t
  <2> QED
    BY <1>2, <1>5, <2>1
<1>7. mem[d] = NullTable => row = FirstRow(d, first_page_table)
  BY <1>2, <1>5 DEF FirstRow
<1> HIDE DEF row
<1>8. /\ \A g \in DOMAIN mem' : mem'[g] \in [Index -> Entries]
      /\ DOMAIN mem \subseteq DOMAIN mem' /\ pc' = "vmm_init_cr3"
      /\ mem'[d] = row
      /\ \A g \in DOMAIN mem : g # d => mem'[g] = mem[g]
  <2>1. Reach(d) # None
    BY <1>3, <1>4 DEF None
  <2> QED
    BY <1>1, <1>2, <1>3, <1>4, <1>6, <2>1, StoreTo
<1>9. Base'
  <2>1. UNCHANGED <<phase, held, ret>> /\ P!FreeBlocks' = P!FreeBlocks
    BY <1>1 DEF frames, P!FreeBlocks, P!Blocks
  <2>2. pc' \notin Mapping /\ ~Paging'
    BY <1>8 DEF Mapping, Paging
  <2>3. /\ kernel_directory' \in Nat /\ first_page_table' \in Nat /\ phys' \in Nat
        /\ pages' \in 0 .. INITIAL_PAGES + MAX_GROW
    BY <1>1 DEF Base, TypeOK
  <2>4. /\ Len(backing) + (IF pc' \in Mapping THEN 1 ELSE 0) <= Cardinality(held')
        /\ phase = "run" /\ 0 \notin P!FreeBlocks
    BY <1>1, <2>1, <2>2 DEF Base, Mapping
  <2> QED
    BY <1>1, <1>8, <2>1, <2>2, <2>3, <2>4, StepBase
<1>10. Start'
  <2>1. BootTables' /\ Fresh'
    BY <1>1, <1>3, <1>8, BootStays DEF Image, Start, BootTables
  <2>2. UNCHANGED <<held, ret>> /\ P!FreeBlocks' = P!FreeBlocks
    BY <1>1 DEF frames, P!FreeBlocks, P!Blocks
  <2>3. /\ backing' = << >> /\ pages' = 0
        /\ kernel_directory' \in (Index \cap DOMAIN mem') \ Image
    BY <1>1, <1>2, <1>3, <1>8 DEF Start
  <2>4. CASE ret = P!nullptr /\ P!FreeBlocks = {}
    BY <1>8, <2>1, <2>2, <2>3, <2>4 DEF Start
  <2>5. CASE /\ {kernel_directory, first_page_table} \subseteq held \cap DOMAIN mem
             /\ ret # P!nullptr /\ kernel_directory # first_page_table
             /\ mem[first_page_table] = Identity(TRUE)
             /\ mem[kernel_directory] = NullTable
    <3>1. /\ {kernel_directory', first_page_table'} \subseteq held' \cap DOMAIN mem'
          /\ ret' # P!nullptr /\ kernel_directory' # first_page_table'
          /\ mem'[first_page_table'] = Identity(TRUE)
          /\ mem'[kernel_directory'] = FirstRow(kernel_directory', first_page_table')
      BY <1>1, <1>2, <1>7, <1>8, <2>2, <2>5
    <3> QED
      BY <1>8, <2>1, <2>3, <3>1 DEF Start, P!nullptr
  <2> QED
    BY <1>1, <2>4, <2>5 DEF Start
<1> QED
  BY <1>8, <1>9, <1>10 DEF IInv, Good, Paging

LEMMA FirstRowIs ==
    ASSUME NEW d, NEW t
    PROVE  /\ FirstRow(d, t)[0] = Entry(t, TRUE) /\ FirstRow(d, t)[KERNEL_SLOT] = Entry(t, TRUE)
           /\ FirstRow(d, t)[VMM_RECURSIVE_SLOT] = Entry(d, FALSE)
           /\ \A s \in Index \ {0, KERNEL_SLOT, VMM_RECURSIVE_SLOT} : FirstRow(d, t)[s] = Null
<1>1. /\ 0 \in Index /\ KERNEL_SLOT \in Index /\ VMM_RECURSIVE_SLOT \in Index
      /\ 0 # KERNEL_SLOT /\ KERNEL_SLOT # VMM_RECURSIVE_SLOT /\ 0 # VMM_RECURSIVE_SLOT
  BY Slots
<1> DEFINE e == Entry(t, TRUE)
           r == Entry(d, FALSE)
           first == [NullTable EXCEPT ![0] = e]
           second == [first EXCEPT ![KERNEL_SLOT] = e]
           third == [second EXCEPT ![VMM_RECURSIVE_SLOT] = r]
<1>2. FirstRow(d, t) = third
  BY DEF FirstRow
<1> HIDE DEF e, r
<1>3. DOMAIN NullTable = Index /\ \A s \in Index : NullTable[s] = Null
  BY DEF NullTable
<1>4. /\ DOMAIN first = Index /\ first[0] = e
      /\ \A s \in Index \ {0} : first[s] = Null
  BY <1>1, <1>3
<1> HIDE DEF first
<1>5. /\ DOMAIN second = Index /\ second[0] = e /\ second[KERNEL_SLOT] = e
      /\ \A s \in Index \ {0, KERNEL_SLOT} : second[s] = Null
  BY <1>1, <1>4
<1> HIDE DEF second
<1>6. /\ third[0] = e /\ third[KERNEL_SLOT] = e /\ third[VMM_RECURSIVE_SLOT] = r
      /\ \A s \in Index \ {0, KERNEL_SLOT, VMM_RECURSIVE_SLOT} : third[s] = Null
  BY <1>1, <1>5
<1> QED
  BY <1>2, <1>6 DEF e, r

\* From here on the directory that vmm_init has written is in use.
LEMMA vmm_init_cr3Inv ==
    ASSUME IInv, Memory, vmm_init_cr3
    PROVE  IInv'
<1>1. /\ pc = "vmm_init_cr3" /\ Start /\ Base /\ pc' = "kheap_init"
      /\ cr3' = kernel_directory /\ tlb' = << >> /\ kernel_directory' = VMM_PAGE_DIRECTORY
      /\ UNCHANGED <<mem, leftover, first_page_table, phys, pages, heap_current_end, backing,
                     phase, held, ret>>
      /\ P!FreeBlocks' = P!FreeBlocks
  BY DEF IInv, vmm_init_cr3, At, frames, P!FreeBlocks, P!Blocks
<1>2. /\ kernel_directory \in DOMAIN mem /\ backing = << >>
      /\ heap_current_end = HeapStart
      /\ ret = P!nullptr => P!FreeBlocks = {}
  <2>1. HeapStart + Len(<< >>) = HeapStart
    BY HeapArea
  <2> QED
    BY <1>1, <2>1 DEF Start, Starting, Base, TypeOK
<1>3. Base'
  <2>1. TypeOK'
    BY <1>1, <1>2 DEF Base, TypeOK
  <2>2. kernel_directory' \in Nat
    <3>1. VMM_RECURSIVE_SLOT \in Nat /\ VMM_RECURSIVE_SLOT \in Index
      BY Slots
    <3> QED
      BY <1>1, <3>1, PageParts DEF VMM_PAGE_DIRECTORY
  <2>3. pc \notin Mapping /\ pc' \notin Mapping
    BY <1>1 DEF Mapping
  <2>4. \A f \in DOMAIN mem' : mem'[f] \in [Index -> Entries]
    BY <1>1 DEF Base
  <2>5. Len(backing') + (IF pc' \in Mapping THEN 1 ELSE 0) <= Cardinality(held')
    BY <1>1, <2>3 DEF Base
  <2>6. /\ phase' = "run" /\ 0 \notin P!FreeBlocks' /\ (ret' = P!nullptr => P!FreeBlocks' = {})
        /\ backing' \in Seq(Nat) /\ leftover' \in Entries /\ first_page_table' \in Nat
    BY <1>1, <1>2 DEF Base
  <2> QED
    BY <1>1, <2>1, <2>2, <2>3, <2>4, <2>5, <2>6 DEF Base, P!nullptr
<1>4. ASSUME Served'
      PROVE  Tables' /\ Apart' /\ Coherent'
  <2> DEFINE d == kernel_directory
             t == first_page_table
  <2>1. /\ {d, t} \subseteq held \cap DOMAIN mem /\ d # t
        /\ mem[t] = Identity(TRUE) /\ mem[d] = FirstRow(d, t)
    BY <1>1, <1>4 DEF Start, Starting, Served, Paging, P!nullptr
  <2>2. Tabled' = {}
    <3>1. ASSUME NEW s \in HEAP_SLOT .. VMM_RECURSIVE_SLOT - 1, s * ENTRIES < HeapStart
          PROVE  FALSE
      <4>1. HEAP_SLOT * ENTRIES <= s * ENTRIES /\ s * ENTRIES \in Nat
        BY Slots
      <4> QED
        BY <3>1, <4>1, HeapArea
    <3> QED
      BY <1>1, <1>2, <3>1 DEF Tabled
  <2>3. /\ FirstRow(d, t)[0] = Entry(t, TRUE) /\ FirstRow(d, t)[KERNEL_SLOT] = Entry(t, TRUE)
        /\ FirstRow(d, t)[VMM_RECURSIVE_SLOT] = Entry(d, FALSE)
        /\ \A s \in Index \ {0, KERNEL_SLOT, VMM_RECURSIVE_SLOT} : FirstRow(d, t)[s] = Null
    BY FirstRowIs
  <2>4. Tables'
    BY <1>1, <2>1, <2>2, <2>3 DEF Tables
  <2>5. Distinct'
    <3>1. Len(backing') = 0
      BY <1>1, <1>2
    <3> QED
      BY <1>1, <2>1, <2>2, <3>1 DEF Distinct
  <2> QED
    BY <1>1, <2>4, <2>5 DEF Apart, Mapping, Coherent, Fresh
<1> QED
  BY <1>1, <1>3, <1>4 DEF IInv, Start, Starting, Good
----------------------------------------------------------------------------
(* The MMU after vmm_init *)

\* The heap ends below the tables, and while a page is added to it there is room
\* for that page: it never has more pages than the memory manager.
LEMMA HeapEnd ==
    ASSUME Base, Memory
    PROVE  /\ heap_current_end \in HeapStart .. Window(0)
           /\ Len(backing) \in Nat /\ heap_current_end = HeapStart + Len(backing)
           /\ pc \in Mapping =>
                /\ heap_current_end < Window(0)
                /\ pd_index \in HEAP_SLOT .. VMM_RECURSIVE_SLOT - 1 /\ pt_index \in Index
                /\ heap_current_end = Page(pd_index, pt_index)
<1>1. Len(backing) \in Nat /\ heap_current_end = HeapStart + Len(backing)
  BY DEF Base, TypeOK
<1>2. Len(backing) <= HEAP_AREA /\ (pc \in Mapping => Len(backing) + 1 <= HEAP_AREA)
  <2>1. Cardinality(held) <= HEAP_AREA /\ Cardinality(held) \in Nat
    BY HeldFinite
  <2>2. CASE pc \in Mapping
    BY <1>1, <2>1, <2>2, HeapArea DEF Base
  <2>3. CASE pc \notin Mapping
    BY <1>1, <2>1, <2>3, HeapArea DEF Base
  <2> QED
    BY <2>2, <2>3
<1>3. /\ heap_current_end \in HeapStart .. Window(0)
      /\ pc \in Mapping => heap_current_end < Window(0)
  BY <1>1, <1>2, HeapArea
<1>4. ASSUME heap_current_end < Window(0)
      PROVE  /\ pd_index \in HEAP_SLOT .. VMM_RECURSIVE_SLOT - 1 /\ pt_index \in Index
             /\ heap_current_end = Page(pd_index, pt_index)
  <2>1. PICK v \in Nat : v = heap_current_end /\ v \in HeapStart .. Window(0) - 1
    BY <1>3, <1>4, HeapArea
  <2> QED
    BY <2>1, HeapSlot, PartsOfPage DEF pd_index, pt_index
<1> QED
  BY <1>1, <1>3, <1>4

\* What page v leads to, unless it is a page of the heap that is not in use yet.
Settled(v) ==
    LET s == v \div ENTRIES
        i == v % ENTRIES
    IN IF s \in {0, KERNEL_SLOT} THEN Entry(i, TRUE)
       ELSE IF s = VMM_RECURSIVE_SLOT THEN Entry(mem[cr3][i].frame, FALSE)
       ELSE IF v \in HeapStart .. heap_current_end - 1
            THEN Entry(backing[v - HeapStart + 1], TRUE)
       ELSE Null
Unused == heap_current_end .. Window(0) - 1

LEMMA WalkSettled ==
    ASSUME Base, Memory, Tables, NEW v \in Addresses,
           v \in Unused => pc \notin {"clear", "entry", "invlpg"}
    PROVE  WalkEntry(v) = Settled(v) /\ Walk(v) = Settled(v).frame
<1> DEFINE s == v \div ENTRIES
           i == v % ENTRIES
<1>1. s \in Index /\ i \in Index /\ s \in Nat /\ v \in Nat /\ v = Page(s, i)
  BY AddressParts, PartsOfPage DEF Index
<1> heap_current_end \in HeapStart .. Window(0)
  BY HeapEnd
<1>2. /\ cr3 \in DOMAIN mem /\ first_page_table \in DOMAIN mem
      /\ cr3 # None /\ first_page_table # None
      /\ mem[cr3] \in [Index -> Entries]
  <2>1. {cr3, first_page_table} \subseteq held \cap DOMAIN mem
    BY DEF Tables
  <2>2. \A f \in DOMAIN mem : mem[f] \in [Index -> Entries]
    BY DEF Base
  <2>3. \A f \in held : f # None
    BY HeldFinite DEF None
  <2> QED
    BY <2>1, <2>2, <2>3
<1> HIDE DEF s, i
<1>3. CASE s \in {0, KERNEL_SLOT}
  <2>1. mem[cr3][s] = Entry(first_page_table, TRUE)
    BY <1>3 DEF Tables
  <2>2. mem[first_page_table][i] = Entry(i, TRUE)
    BY <1>1 DEF Tables, Identity
  <2>3. WalkEntry(v) = Entry(mem[first_page_table][i].frame,
                             TRUE /\ mem[first_page_table][i].user)
    BY <1>2, <2>1, WalkThrough DEF s, i
  <2>4. WalkEntry(v) = Entry(i, TRUE)
    <3>1. mem[first_page_table][i].frame = i /\ mem[first_page_table][i].user = TRUE
      BY <2>2 DEF Entry
    <3> QED
      BY <2>3, <3>1
  <2> QED
    BY <1>3, <2>4 DEF Settled, Walk, s, i
<1>4. CASE s = VMM_RECURSIVE_SLOT
  <2>1. mem[cr3][s] = Entry(cr3, FALSE)
    BY <1>4 DEF Tables
  <2>2. WalkEntry(v) = Entry(mem[cr3][i].frame, FALSE)
    BY <1>2, <2>1, WalkThrough, EntryFacts DEF s, i
  <2>3. s \notin {0, KERNEL_SLOT}
    BY <1>4, Slots
  <2> QED
    BY <1>4, <2>2, <2>3 DEF Settled, Walk, s, i
<1>5. CASE s \notin {0, KERNEL_SLOT, VMM_RECURSIVE_SLOT} /\ s \notin Tabled
  <2>1. mem[cr3][s] = Null
    BY <1>1, <1>5 DEF Tables
  <2>2. WalkEntry(v) = Null
    BY <1>2, <2>1, WalkNone DEF s
  <2>3. v \notin HeapStart .. heap_current_end - 1
    <3> SUFFICES ASSUME v \in HeapStart .. heap_current_end - 1 PROVE FALSE
      OBVIOUS
    <3>1. heap_current_end \in Nat /\ v < heap_current_end /\ v \in HeapStart .. Window(0) - 1
      BY HeapArea
    <3>2. s \in HEAP_SLOT .. VMM_RECURSIVE_SLOT - 1
      BY <1>1, <3>1, HeapSlot DEF s
    <3>3. s * ENTRIES <= v /\ s * ENTRIES \in Nat
      BY <1>1, SlotOrder, Slots DEF s
    <3>4. s * ENTRIES < heap_current_end
      BY <1>1, <3>1, <3>3
    <3> QED
      BY <1>5, <3>2, <3>4 DEF Tabled
  <2> QED
    BY <1>5, <2>2, <2>3 DEF Settled, Walk, s
<1>6. CASE s \in Tabled
  <2>1. s \in HEAP_SLOT .. VMM_RECURSIVE_SLOT - 1 /\ s \notin {0, KERNEL_SLOT, VMM_RECURSIVE_SLOT}
    BY <1>6, Slots DEF Tabled
  <2>2. v \in HeapStart .. Window(0) - 1
    BY <1>1, <2>1, HeapSlot DEF s
  <2>3. heap_current_end \in Nat
    BY HeapArea
  <2>4. ~(pc = "clear" /\ s = pd_index)
    <3> SUFFICES ASSUME pc = "clear", s = pd_index PROVE FALSE
      OBVIOUS
    <3>1. pt_index = 0 /\ heap_current_end = pd_index * ENTRIES + pt_index
      BY <2>3, PartsOfPage DEF Tables, pt_index, pd_index, Page
    <3>2. s * ENTRIES \in Nat
      BY <1>1, Slots
    <3>3. heap_current_end = s * ENTRIES
      BY <3>1, <3>2
    <3>4. heap_current_end <= v
      BY <1>1, <3>3, SlotOrder, Slots DEF s
    <3> QED
      BY <1>1, <2>2, <2>3, <3>4, HeapArea DEF Unused
  <2>5. /\ Table(s) \in DOMAIN mem /\ mem[Table(s)][i] = Leaf(v)
        /\ mem[cr3][s].user = TRUE
    <3>1. mem[cr3][s].user = TRUE
      BY <1>1, <1>6, <2>1 DEF Tables
    <3> QED
      BY <1>1, <1>6, <2>4, <3>1 DEF Tables
  <2>6. mem[cr3][s] = Entry(Table(s), TRUE)
    <3>1. mem[cr3][s] \in Entries
      BY <1>1, <1>2
    <3> QED
      BY <2>5, <3>1, EntryIs DEF Table
  <2>7. mem[Table(s)][i] \in Entries /\ Table(s) # None
    <3>1. Table(s) \in held
      BY <1>1, <1>6, <2>1 DEF Tables
    <3>2. Table(s) # None
      BY <3>1, HeldFinite DEF None
    <3>3. mem[Table(s)] \in [Index -> Entries]
      BY <2>5 DEF Base
    <3> QED
      BY <1>1, <3>2, <3>3
  <2>8. Leaf(v) \in Entries
    BY <2>5, <2>7
  <2>9. WalkEntry(v) = Entry(Leaf(v).frame, TRUE /\ Leaf(v).user)
    <3>1. PICK f : f = Table(s)
      OBVIOUS
    <3>2. PICK e : e = Leaf(v)
      OBVIOUS
    <3>3. cr3 \in DOMAIN mem /\ f \in DOMAIN mem /\ f # None
      BY <1>2, <2>5, <2>7, <3>1
    <3>4. mem[cr3][v \div ENTRIES] = Entry(f, TRUE) /\ mem[f][v % ENTRIES] = e
      BY <2>5, <2>6, <3>1, <3>2 DEF s, i
    <3>5. WalkEntry(v) = Entry(mem[f][v % ENTRIES].frame, TRUE /\ mem[f][v % ENTRIES].user)
      BY <3>3, <3>4, WalkThrough
    <3> QED
      BY <3>2, <3>4, <3>5
  <2>10. WalkEntry(v) = Leaf(v)
    BY <2>8, <2>9, EntryIs
  <2>11. Leaf(v) = Settled(v)
    <3>1. v < heap_current_end <=> v \in HeapStart .. heap_current_end - 1
      BY <1>1, <2>2, <2>3, HeapArea
    <3>2. v < heap_current_end \/ pc # "invlpg"
      BY <1>1, <2>2, <2>3, HeapArea DEF Unused
    <3> QED
      BY <2>1, <3>1, <3>2 DEF Leaf, Settled, s
  <2> QED
    BY <2>10, <2>11 DEF Walk
<1> QED
  BY <1>3, <1>4, <1>5, <1>6

LEMMA WalkSettledNext ==
    ASSUME NEW v \in Addresses
    PROVE  (Base /\ Memory /\ Tables /\ (v \in Unused => pc \notin {"clear", "entry", "invlpg"})
              => Walk(v) = Settled(v).frame)'
<1>1. Base /\ Memory /\ Tables /\ (v \in Unused => pc \notin {"clear", "entry", "invlpg"})
        => Walk(v) = Settled(v).frame
  BY WalkSettled
<1> QED
  BY <1>1, PTL

\* A page of the kernel, of the tables or of the heap that has a frame keeps it when
\* the directory only gains entries, and so a translation of it stays true.
LEMMA CoherentStep ==
    ASSUME Base, Memory, Tables, Coherent, Base', Memory', Tables',
           UNCHANGED <<tlb, heap_current_end, backing>>,
           \A i \in Index : mem[cr3][i].frame # None => mem'[cr3'][i].frame = mem[cr3][i].frame
    PROVE  Coherent'
<1> SUFFICES ASSUME tlb # << >>, tlb[1] \notin Unused
             PROVE  Fresh'
  BY DEF Coherent, Unused, Fresh
<1>1. PICK v \in Addresses : v = tlb[1]
  BY DEF Base, TypeOK
<1>2. tlb[2] = Walk(v) /\ tlb[2] # None
  BY <1>1 DEF Coherent, Unused, Fresh, Base, TypeOK, None
<1>3. Walk(v) = Settled(v).frame
  BY <1>1, WalkSettled
<1>4. Walk(v)' = Settled(v)'.frame
  BY <1>1, WalkSettledNext DEF Unused
<1>5. Settled(v)'.frame = Settled(v).frame
  <2> DEFINE s == v \div ENTRIES
             i == v % ENTRIES
  <2>1. i \in Index
    BY AddressParts
  <2>2. CASE s = VMM_RECURSIVE_SLOT
    <3>1. s \notin {0, KERNEL_SLOT}
      BY <2>2, Slots
    <3>2. Settled(v).frame = mem[cr3][i].frame /\ Settled(v)'.frame = mem'[cr3'][i].frame
      BY <2>2, <3>1 DEF Settled, Entry
    <3> QED
      BY <1>2, <1>3, <2>1, <3>2
  <2>3. CASE s # VMM_RECURSIVE_SLOT
    BY <2>3 DEF Settled
  <2> QED
    BY <2>2, <2>3
<1>6. tlb[2] = Walk(v)'
  BY <1>2, <1>3, <1>4, <1>5
<1> QED
  BY <1>1, <1>6 DEF Fresh, Walk, WalkEntry, Row
----------------------------------------------------------------------------
(* Requests for the heap, frames for it, and the tables *)

\* A step that writes no table and enters none.
LEMMA Quiet ==
    ASSUME Base, Memory, Tables, Distinct, Coherent, Base', Memory',
           UNCHANGED <<cr3, mem, tlb, first_page_table, heap_current_end, backing>>,
           held \subseteq held', Tabled' = Tabled,
           pc \notin {"clear", "invlpg"}, pc' \notin {"clear", "invlpg"}
    PROVE  Tables' /\ Distinct' /\ Coherent'
<1>1. Tables'
  <2>1. /\ {cr3, first_page_table} \subseteq held' \cap DOMAIN mem
        /\ mem[first_page_table] = Identity(TRUE)
        /\ mem[cr3][0] = Entry(first_page_table, TRUE)
        /\ mem[cr3][KERNEL_SLOT] = Entry(first_page_table, TRUE)
        /\ mem[cr3][VMM_RECURSIVE_SLOT] = Entry(cr3, FALSE)
    BY DEF Tables
  <2>2. ASSUME NEW s \in Index \ {0, KERNEL_SLOT, VMM_RECURSIVE_SLOT}
        PROVE  IF s \in Tabled THEN Table(s) \in held' /\ mem[cr3][s].user = TRUE
               ELSE mem[cr3][s] = Null
    BY DEF Tables
  <2>3. ASSUME NEW s \in Tabled
        PROVE  Table(s) \in DOMAIN mem /\ \A i \in Index : mem[Table(s)][i] = Leaf(Page(s, i))'
    BY DEF Tables, Leaf
  <2> QED
    BY <2>1, <2>2, <2>3 DEF Tables, Table
<1>2. Distinct'
  BY DEF Distinct, Table
<1>3. Coherent'
  BY <1>1, CoherentStep
<1> QED
  BY <1>1, <1>2, <1>3

\* Requests, the end of the loop and the choice of a frame leave the slots alone.
LEMMA SlotsSame ==
    ASSUME UNCHANGED heap_current_end,
           pc \notin {"clear", "entry", "invlpg"}, pc' \notin {"clear", "entry", "invlpg"}
    PROVE  Tabled' = Tabled
BY DEF Tabled

LEMMA RequestInv ==
    ASSUME IInv, Memory, Memory',
           \/ kheap_init \/ kmalloc_grows \/ kheap_expand_done
    PROVE  IInv'
<1>1. /\ UNCHANGED <<frames, cr3, mem, leftover, tlb, kernel_directory, first_page_table, phys,
                     heap_current_end, backing>>
      /\ pc \in {"kheap_init", "idle", "expand"} /\ pc' \in {"idle", "expand"}
      /\ Base /\ Good
  BY DEF IInv, kheap_init, kmalloc_grows, kheap_expand_done, Request, At
<1>2. pages' \in 0 .. INITIAL_PAGES + MAX_GROW
  BY GrowAssumption DEF IInv, Base, TypeOK, kheap_init, kmalloc_grows, kheap_expand_done, Request
<1>3. /\ UNCHANGED <<phase, held, ret>> /\ P!FreeBlocks' = P!FreeBlocks
      /\ Paging /\ Paging' /\ pc \notin Mapping /\ pc' \notin Mapping
      /\ pc \notin Starting /\ pc' \notin Starting
  BY <1>1 DEF frames, P!FreeBlocks, P!Blocks, Paging, Mapping, Starting
<1>4. Base'
  <2>1. /\ kernel_directory' \in Nat /\ first_page_table' \in Nat /\ phys' \in Nat
        /\ \A f \in DOMAIN mem' : mem'[f] \in [Index -> Entries]
    BY <1>1 DEF Base, TypeOK
  <2>2. /\ Len(backing) + (IF pc' \in Mapping THEN 1 ELSE 0) <= Cardinality(held')
        /\ phase' = "run" /\ 0 \notin P!FreeBlocks' /\ (ret' = P!nullptr => P!FreeBlocks' = {})
    BY <1>1, <1>3 DEF Base
  <2> QED
    BY <1>1, <1>2, <1>3, <2>1, <2>2, StepBase DEF P!nullptr
<1>5. ASSUME Served'
      PROVE  Tables' /\ Apart' /\ Coherent'
  <2>1. Tables /\ Apart /\ Coherent
    BY <1>1, <1>3, <1>5 DEF Good, Served, P!nullptr
  <2>2. Tabled' = Tabled
    BY <1>1, SlotsSame
  <2> QED
    BY <1>1, <1>3, <1>4, <2>1, <2>2, Quiet DEF Apart
<1> QED
  BY <1>3, <1>4, <1>5 DEF IInv, Start, Good

LEMMA kheap_expandInv ==
    ASSUME IInv, Memory, Memory', kheap_expand
    PROVE  IInv'
<1>1. /\ P!pmm_alloc_page /\ phys' = ret' \div PAGE_SIZE
      /\ pc' = IF ret' = P!nullptr THEN "panic" ELSE "map"
      /\ UNCHANGED <<cr3, mem, leftover, tlb, kernel_directory, first_page_table, pages,
                     heap_current_end, backing>>
      /\ pc = "expand" /\ pages > 0 /\ Base /\ Good
  BY DEF IInv, kheap_expand, At
<1>2. /\ phase' = "run" /\ 0 \notin P!FreeBlocks' /\ Cardinality(held) \in Nat
      /\ \/ P!FreeBlocks = {} /\ P!FreeBlocks' = {} /\ ret' = P!nullptr /\ held' = held
            /\ phys' = 0
         \/ /\ phys' \in Nat /\ phys' \notin held /\ P!FreeBlocks # {}
            /\ held' = held \cup {phys'} /\ Cardinality(held') = Cardinality(held) + 1
            /\ ret' # P!nullptr
  <2>1. 0 \div PAGE_SIZE = 0
    BY Slots
  <2>2. 0 \notin P!FreeBlocks
    BY <1>1 DEF Base
  <2> QED
    BY <1>1, <2>1, <2>2, AllocEffect DEF P!nullptr
<1>3. /\ Paging /\ Paging' /\ pc \notin Mapping /\ (pc' \in Mapping <=> ret' # P!nullptr)
      /\ pc \notin Starting /\ pc' \notin Starting /\ pc' \in {"map", "panic"}
      /\ held \subseteq held'
  BY <1>1, <1>2 DEF Paging, Mapping, Starting
<1>4. Base'
  <2>1. /\ kernel_directory' \in Nat /\ first_page_table' \in Nat /\ phys' \in Nat
        /\ \A f \in DOMAIN mem' : mem'[f] \in [Index -> Entries]
        /\ pages' \in 0 .. INITIAL_PAGES + MAX_GROW
    BY <1>1, <1>2 DEF Base, TypeOK
  <2>2. Len(backing) + (IF pc' \in Mapping THEN 1 ELSE 0) <= Cardinality(held')
    <3>1. Len(backing) <= Cardinality(held) /\ Len(backing) \in Nat
      BY <1>1, <1>3 DEF Base
    <3> QED
      BY <1>2, <1>3, <3>1
  <2> QED
    BY <1>1, <1>2, <1>3, <2>1, <2>2, StepBase DEF P!nullptr
<1>5. ASSUME Served'
      PROVE  Tables' /\ Apart' /\ Coherent'
  <2>1. ret # P!nullptr /\ ret' # P!nullptr
    BY <1>1, <1>2, <1>3, <1>5 DEF Served, Base, P!nullptr
  <2>2. Tables /\ Apart /\ Coherent
    BY <1>1, <1>3, <2>1 DEF Good, Served, P!nullptr
  <2>3. Tabled' = Tabled
    BY <1>1, <1>3, SlotsSame
  <2>4. Tables' /\ Distinct' /\ Coherent'
    BY <1>1, <1>3, <1>4, <2>2, <2>3, Quiet DEF Apart
  <2>5. phys' \in held' /\ phys' \notin held
    BY <1>2, <2>1
  <2>6. /\ cr3 \in held /\ first_page_table \in held
        /\ \A s \in Tabled : Table(s) \in held
        /\ \A i \in 1 .. Len(backing) : backing[i] \in held
    <3>1. \A s \in Tabled : s \in Index \ {0, KERNEL_SLOT, VMM_RECURSIVE_SLOT}
      BY Slots DEF Tabled, Index
    <3> QED
      BY <2>2, <3>1 DEF Tables, Apart, Distinct
  <2>7. PhysApart'
    BY <1>1, <2>3, <2>5, <2>6 DEF PhysApart, Table
  <2> QED
    BY <2>4, <2>7 DEF Apart
<1> QED
  BY <1>3, <1>4, <1>5 DEF IInv, Start, Good
----------------------------------------------------------------------------
(* vmm_map_page *)

\* The directory and the tables are reached through the last slot, and the TLB does not
\* lead elsewhere.
LEMMA WindowReach ==
    ASSUME Base, Memory, Tables, Coherent, NEW s \in Index, mem[cr3][s].frame # None
    PROVE  Window(s) \in Addresses /\ Reach(Window(s)) = mem[cr3][s].frame
<1>1. /\ Window(s) \in Addresses /\ Window(s) \div ENTRIES = VMM_RECURSIVE_SLOT
      /\ Window(s) % ENTRIES = s
  BY PageInRange, Slots DEF Window
<1>2. Window(s) \notin Unused
  <2>1. Window(0) <= Window(s)
    BY Slots DEF Window, Page, Index
  <2> QED
    BY <1>1, <2>1, HeapArea, AddressParts DEF Unused
<1>3. Walk(Window(s)) = mem[cr3][s].frame
  <2>1. Walk(Window(s)) = Settled(Window(s)).frame
    BY <1>1, <1>2, WalkSettled
  <2>2. VMM_RECURSIVE_SLOT \notin {0, KERNEL_SLOT}
    BY Slots
  <2>3. Settled(Window(s)) = Entry(mem[cr3][s].frame, FALSE)
    BY <1>1, <2>2 DEF Settled
  <2> QED
    BY <2>1, <2>3 DEF Entry
<1> QED
  BY <1>1, <1>2, <1>3 DEF Reach, Coherent, Fresh, Unused

\* Writing a table in vmm_map_page, at whatever address.
LEMMA MapBase ==
    ASSUME Base, Memory, pc \in Mapping, NEW v \in Addresses, NEW row \in [Index -> Entries],
           NEW to \in Mapping, StorePage(v, row, to),
           UNCHANGED <<cr3, leftover, tlb, kernel_directory, first_page_table, phys, pages,
                       heap_current_end, backing, phase>>,
           Cardinality(held') \in Nat, Cardinality(held) <= Cardinality(held'),
           0 \notin P!FreeBlocks', ret' = P!nullptr => P!FreeBlocks' = {}
    PROVE  Base' /\ pc' \in {to, "lost"}
<1>1. PICK f : f = Reach(v)
  OBVIOUS
<1>2. f \in Nat \/ f = None
  BY <1>1, WalkType
<1>3. /\ \A g \in DOMAIN mem' : mem'[g] \in [Index -> Entries]
      /\ DOMAIN mem \subseteq DOMAIN mem'
      /\ pc' \in {to, "lost"}
  <2>1. CASE f = None
    BY <1>1, <2>1 DEF StorePage, Base
  <2>2. CASE f \in Nat
    BY <1>1, <2>2, StoreTo
  <2> QED
    BY <1>2, <2>1, <2>2
<1>4. /\ Len(backing) + 1 <= Cardinality(held) /\ Len(backing) \in Nat
      /\ Cardinality(held) \in Nat
  BY HeldFinite DEF Base
<1>5. Len(backing) + (IF pc' \in Mapping THEN 1 ELSE 0) <= Cardinality(held')
  BY <1>4
<1>6. /\ kernel_directory' \in Nat /\ first_page_table' \in Nat /\ phys' \in Nat
      /\ pages' \in 0 .. INITIAL_PAGES + MAX_GROW /\ pages' > 0 /\ phase' = "run"
  BY DEF Base, TypeOK, Mapping
<1>7. pc' \in {"map", "clear", "entry", "invlpg", "lost"}
  BY <1>3 DEF Mapping
<1> QED
  BY <1>3, <1>5, <1>6, <1>7, StepBase

LEMMA vmm_map_tableInv ==
    ASSUME IInv, Memory, Memory', vmm_map_table
    PROVE  IInv'
<1> DEFINE V == VMM_PAGE_DIRECTORY
           n == ret' \div PAGE_SIZE
           row == [Load(V) EXCEPT ![pd_index] = Entry(n, TRUE)]
<1>1. /\ pc = "map" /\ Base /\ Good /\ pc \in Mapping /\ Paging
      /\ UNCHANGED <<cr3, leftover, tlb, kernel_directory, first_page_table, phys, pages,
                     heap_current_end, backing>>
      /\ IF Load(V)[pd_index].frame # None
           THEN pc' = "entry" /\ UNCHANGED <<frames, mem>>
           ELSE P!pmm_alloc_page /\ StorePage(V, row, "clear")
  BY DEF IInv, vmm_map_table, At, Mapping, Paging
<1>2. V = Window(VMM_RECURSIVE_SLOT) /\ V \in Addresses
  BY PageInRange, Slots DEF VMM_PAGE_DIRECTORY, Window
<1>3. /\ heap_current_end < Window(0) /\ heap_current_end \in HeapStart .. Window(0)
      /\ pd_index \in HEAP_SLOT .. VMM_RECURSIVE_SLOT - 1 /\ pt_index \in Index
      /\ heap_current_end = Page(pd_index, pt_index)
      /\ pd_index \in Index \ {0, KERNEL_SLOT, VMM_RECURSIVE_SLOT} /\ pd_index \in Nat
      /\ UNCHANGED <<pd_index, pt_index>>
  <2>1. /\ heap_current_end < Window(0) /\ heap_current_end \in HeapStart .. Window(0)
        /\ pd_index \in HEAP_SLOT .. VMM_RECURSIVE_SLOT - 1 /\ pt_index \in Index
        /\ heap_current_end = Page(pd_index, pt_index)
    BY <1>1, HeapEnd
  <2> QED
    BY <1>1, <2>1, Slots DEF Index, pd_index, pt_index
\* a table is there
<1>4. CASE pc' = "entry" /\ UNCHANGED <<frames, mem>> /\ Load(V)[pd_index].frame # None
  <2>1. UNCHANGED <<phase, held, ret>> /\ P!FreeBlocks' = P!FreeBlocks
    BY <1>4 DEF frames, P!FreeBlocks, P!Blocks
  <2>2. Base'
    <3>1. /\ kernel_directory' \in Nat /\ first_page_table' \in Nat /\ phys' \in Nat
          /\ \A f \in DOMAIN mem' : mem'[f] \in [Index -> Entries]
          /\ pages' \in 0 .. INITIAL_PAGES + MAX_GROW /\ pages' > 0
      BY <1>1, <1>4 DEF Base, TypeOK
    <3>2. /\ Len(backing) + (IF pc' \in Mapping THEN 1 ELSE 0) <= Cardinality(held')
          /\ phase' = "run" /\ 0 \notin P!FreeBlocks' /\ (ret' = P!nullptr => P!FreeBlocks' = {})
      BY <1>1, <1>4, <2>1 DEF Base, Mapping
    <3> QED
      BY <1>1, <1>4, <3>1, <3>2, StepBase DEF P!nullptr
  <2>3. ASSUME Served'
        PROVE  Tables' /\ Apart' /\ Coherent'
    <3>1. Tables /\ Apart /\ Coherent
      BY <1>1, <1>4, <2>1, <2>3 DEF Good, Served, P!nullptr, Paging
    <3>2. Load(V) = mem[cr3]
      <4>1. mem[cr3][VMM_RECURSIVE_SLOT].frame = cr3 /\ cr3 # None /\ cr3 \in DOMAIN mem
        BY <3>1, HeldFinite DEF Tables, Entry, None
      <4>2. Reach(V) = cr3
        BY <1>1, <1>2, <3>1, <4>1, WindowReach, Slots
      <4> QED
        BY <4>1, <4>2 DEF Load, Row
    <3>3. pd_index \in Tabled
      <4> SUFFICES ASSUME pd_index \notin Tabled PROVE FALSE
        OBVIOUS
      <4>1. mem[cr3][pd_index] = Null
        BY <1>3, <3>1 DEF Tables
      <4> QED
        BY <1>4, <3>2, <4>1 DEF Null, Entry
    <3>4. Tabled' = Tabled
      BY <1>1, <1>3, <1>4, <3>3 DEF Tabled
    <3>5. Tables' /\ Distinct' /\ Coherent'
      BY <1>1, <1>4, <2>1, <2>2, <3>1, <3>4, Quiet DEF Apart
    <3>6. PhysApart'
      BY <1>1, <1>4, <2>1, <3>1, <3>4 DEF Apart, PhysApart, Table
    <3> QED
      BY <3>5, <3>6 DEF Apart
  <2> QED
    BY <1>4, <2>2, <2>3 DEF IInv, Start, Starting, Good
\* a new one
<1>5. CASE P!pmm_alloc_page /\ StorePage(V, row, "clear") /\ Load(V)[pd_index].frame = None
  <2>1. /\ phase' = phase /\ 0 \notin P!FreeBlocks' /\ Cardinality(held) \in Nat /\ n \in Nat
        /\ \/ P!FreeBlocks = {} /\ P!FreeBlocks' = {} /\ ret' = P!nullptr /\ held' = held
           \/ /\ n \notin held /\ P!FreeBlocks # {}
              /\ held' = held \cup {n} /\ Cardinality(held') = Cardinality(held) + 1
              /\ ret' # P!nullptr
    <3>1. 0 \div PAGE_SIZE = 0
      BY Slots
    <3>2. 0 \notin P!FreeBlocks
      BY <1>1 DEF Base
    <3> QED
      BY <1>5, <3>1, <3>2, AllocEffect DEF P!nullptr
  <2> HIDE DEF n
  <2>2. row \in [Index -> Entries]
    <3>1. Load(V) \in [Index -> Entries]
      BY <1>1, <1>2, LoadType
    <3>2. Entry(n, TRUE) \in Entries
      BY <2>1 DEF Entry, Entries
    <3> QED
      BY <3>1, <3>2
  <2> HIDE DEF row
  <2>3. Base' /\ pc' \in {"clear", "lost"}
    <3>1. /\ Cardinality(held') \in Nat /\ Cardinality(held) <= Cardinality(held')
          /\ ret' = P!nullptr => P!FreeBlocks' = {}
      BY <2>1
    <3>2. "clear" \in Mapping
      BY DEF Mapping
    <3> QED
      BY <1>1, <1>2, <1>5, <2>1, <2>2, <3>1, <3>2, MapBase
  <2>4. ASSUME Served'
        PROVE  Tables' /\ Apart' /\ Coherent'
    <3>1. Paging' /\ pc' = "clear"
      BY <2>3, <2>4 DEF Paging, Served
    <3>2. ret # P!nullptr /\ ret' # P!nullptr
      BY <1>1, <2>1, <2>4, <3>1 DEF Served, Base, P!nullptr
    <3>3. Tables /\ Apart /\ Coherent
      BY <1>1, <3>2 DEF Good, Served, P!nullptr
    <3>4. n \in held' /\ n \notin held /\ held \subseteq held'
      BY <2>1, <3>2
    <3>5. /\ cr3 \in DOMAIN mem /\ cr3 \in Nat /\ cr3 \in held /\ Reach(V) = cr3
          /\ Load(V) = mem[cr3] /\ mem[cr3] \in [Index -> Entries]
      <4>1. /\ mem[cr3][VMM_RECURSIVE_SLOT].frame = cr3 /\ cr3 # None /\ cr3 \in DOMAIN mem
            /\ cr3 \in held
        BY <3>3, HeldFinite DEF Tables, Entry, None
      <4>2. Reach(V) = cr3
        BY <1>1, <1>2, <3>3, <4>1, WindowReach, Slots
      <4> QED
        BY <1>1, <4>1, <4>2, HeldFinite DEF Load, Row, Base
    <3>6. /\ DOMAIN mem \subseteq DOMAIN mem' /\ mem'[cr3] = row
          /\ \A g \in DOMAIN mem : g # cr3 => mem'[g] = mem[g]
      <4>1. PICK f \in Nat : f = cr3
        BY <3>5
      <4> QED
        BY <1>1, <1>2, <1>5, <2>2, <3>1, <3>5, <4>1, StoreTo
    <3>7. /\ mem'[cr3][pd_index] = Entry(n, TRUE)
          /\ \A s \in Index : s # pd_index => mem'[cr3][s] = mem[cr3][s]
      BY <1>3, <3>5, <3>6 DEF row
    <3>8. pd_index \notin Tabled
      <4> SUFFICES ASSUME pd_index \in Tabled PROVE FALSE
        OBVIOUS
      <4>1. mem[cr3][pd_index].frame \in held
        BY <1>3, <3>3 DEF Tables, Table
      <4> QED
        BY <1>5, <3>5, <4>1, HeldFinite DEF None
    <3>9. Tabled' = Tabled \cup {pd_index} /\ pt_index = 0
      <4>1. Tabled' = Tabled \cup {pd_index}
        BY <1>1, <1>3, <3>1 DEF Tabled
      <4>2. ~(pd_index * ENTRIES < heap_current_end)
        BY <1>3, <3>8 DEF Tabled
      <4>3. pd_index * ENTRIES \in Nat /\ pt_index \in Nat
        BY <1>3, Slots DEF Index
      <4> QED
        BY <1>3, <4>1, <4>2, <4>3 DEF Page
    <3>10. \A s \in Tabled : s \in Index \ {0, KERNEL_SLOT, VMM_RECURSIVE_SLOT, pd_index}
      BY <3>8, Slots DEF Tabled, Index
    <3>11. \A s \in Tabled : Table(s)' = Table(s) /\ Table(s) \in held /\ Table(s) # cr3
      BY <1>1, <3>3, <3>7, <3>10 DEF Table, Tables, Apart, Distinct
    <3>12. Tables'
      <4>1. /\ {cr3, first_page_table} \subseteq held' \cap DOMAIN mem'
            /\ first_page_table # cr3 /\ mem'[first_page_table] = Identity(TRUE)
        BY <3>3, <3>4, <3>6 DEF Tables, Apart, Distinct
      <4>2. /\ mem'[cr3][0] = Entry(first_page_table, TRUE)
            /\ mem'[cr3][KERNEL_SLOT] = Entry(first_page_table, TRUE)
            /\ mem'[cr3][VMM_RECURSIVE_SLOT] = Entry(cr3, FALSE)
        BY <1>3, <3>3, <3>7, Slots DEF Tables
      <4>3. ASSUME NEW s \in Index \ {0, KERNEL_SLOT, VMM_RECURSIVE_SLOT}
            PROVE  IF s \in Tabled' THEN mem'[cr3][s].frame \in held' /\ mem'[cr3][s].user = TRUE
                   ELSE mem'[cr3][s] = Null
        <5>1. CASE s = pd_index
          BY <3>4, <3>7, <3>9, <5>1 DEF Entry
        <5>2. CASE s # pd_index
          BY <3>3, <3>4, <3>7, <3>9, <5>2 DEF Tables, Table
        <5> QED
          BY <5>1, <5>2
      <4>4. ASSUME NEW s \in Tabled', s # pd_index
            PROVE  /\ mem'[cr3][s].frame \in DOMAIN mem'
                   /\ \A i \in Index : mem'[mem'[cr3][s].frame][i] = Leaf(Page(s, i))'
        <5>1. s \in Tabled /\ mem'[cr3][s].frame = Table(s)
          BY <1>1, <3>9, <3>11, <4>4 DEF Table
        <5>2. Table(s) \in DOMAIN mem /\ \A i \in Index : mem[Table(s)][i] = Leaf(Page(s, i))
          BY <1>1, <3>3, <5>1 DEF Tables
        <5>3. mem'[Table(s)] = mem[Table(s)]
          BY <3>6, <3>11, <5>1, <5>2
        <5> QED
          BY <1>1, <3>1, <3>6, <5>1, <5>2, <5>3 DEF Leaf
      <4> QED
        BY <1>1, <1>3, <3>1, <3>9, <4>1, <4>2, <4>3, <4>4 DEF Tables, Table
    <3>13. Table(pd_index)' = n
      BY <1>1, <1>3, <3>7 DEF Table, Entry
    <3>14. Distinct'
      <4>1. cr3' # first_page_table' /\ \A s \in Tabled' : Table(s)' \notin {cr3', first_page_table'}
        BY <1>1, <1>3, <3>3, <3>4, <3>9, <3>11, <3>13 DEF Distinct, Apart, Tables
      <4>2. \A s, t \in Tabled' : s # t => Table(s)' # Table(t)'
        BY <1>3, <3>3, <3>4, <3>9, <3>11, <3>13 DEF Distinct, Apart
      <4>3. \A i \in 1 .. Len(backing) :
              /\ backing[i] \in held' /\ backing[i] \notin {cr3, first_page_table}
              /\ \A s \in Tabled' : Table(s)' # backing[i]
              /\ \A j \in 1 .. Len(backing) : i # j => backing[i] # backing[j]
        BY <1>3, <3>3, <3>4, <3>9, <3>11, <3>13 DEF Distinct, Apart
      <4> QED
        BY <1>1, <4>1, <4>2, <4>3 DEF Distinct
    <3>15. PhysApart'
      <4>1. PhysApart
        BY <1>1, <3>3 DEF Apart
      <4>2. \A s \in Tabled' : Table(s)' # phys
        BY <1>3, <3>4, <3>9, <3>11, <3>13, <4>1 DEF PhysApart
      <4> QED
        BY <1>1, <3>4, <4>1, <4>2 DEF PhysApart
    <3>16. Coherent'
      <4>1. \A i \in Index : mem[cr3][i].frame # None => mem'[cr3'][i].frame = mem[cr3][i].frame
        BY <1>1, <1>5, <3>5, <3>7
      <4> QED
        BY <1>1, <2>3, <3>3, <3>12, <4>1, CoherentStep
    <3> QED
      BY <3>12, <3>14, <3>15, <3>16 DEF Apart
  <2> QED
    BY <2>3, <2>4 DEF IInv, Start, Starting, Good
<1> QED
  BY <1>1, <1>4, <1>5

\* What is known where the new table is cleared and where it gets its entry.
LEMMA MapFacts ==
    ASSUME IInv, Memory, pc \in {"clear", "entry"}
    PROVE  /\ Base /\ Good /\ pc \in Mapping /\ Paging
           /\ heap_current_end = Page(pd_index, pt_index)
           /\ pt_index \in Index /\ pd_index \in Nat
           /\ pd_index \in HEAP_SLOT .. VMM_RECURSIVE_SLOT - 1
           /\ pd_index \in Index \ {0, KERNEL_SLOT, VMM_RECURSIVE_SLOT}
           /\ Window(pd_index) \in Addresses
           /\ pd_index \in Tabled
           /\ ret # P!nullptr =>
                /\ Tables /\ Distinct /\ PhysApart /\ Coherent
                /\ Table(pd_index) \in Nat /\ Reach(Window(pd_index)) = Table(pd_index)
                /\ Table(pd_index) \notin {cr3, first_page_table}
                /\ \A s \in Tabled : s # pd_index => Table(s) # Table(pd_index)
<1>1. Base /\ Good /\ pc \in Mapping /\ Paging
  BY DEF IInv, Mapping, Paging
<1>2. /\ heap_current_end = Page(pd_index, pt_index) /\ pt_index \in Index
      /\ pd_index \in HEAP_SLOT .. VMM_RECURSIVE_SLOT - 1
  BY <1>1, HeapEnd
<1>3. pd_index \in Index \ {0, KERNEL_SLOT, VMM_RECURSIVE_SLOT} /\ pd_index \in Nat
  BY <1>2, Slots DEF Index
<1>4. Window(pd_index) \in Addresses
  BY <1>3, PageInRange, Slots DEF Window
<1>5. pd_index \in Tabled
  BY <1>2 DEF Tabled
<1>6. ASSUME ret # P!nullptr
      PROVE  /\ Tables /\ Distinct /\ PhysApart /\ Coherent
             /\ Table(pd_index) \in Nat /\ Reach(Window(pd_index)) = Table(pd_index)
             /\ Table(pd_index) \notin {cr3, first_page_table}
             /\ \A s \in Tabled : s # pd_index => Table(s) # Table(pd_index)
  <2>1. Tables /\ Apart /\ Coherent
    BY <1>1, <1>6 DEF Good, Served
  <2>2. Table(pd_index) \in Nat
    BY <1>3, <1>5, <2>1, HeldFinite DEF Tables
  <2>3. mem[cr3][pd_index].frame # None
    BY <2>2 DEF None, Table
  <2>4. Reach(Window(pd_index)) = Table(pd_index)
    BY <1>1, <1>3, <2>1, <2>3, WindowReach DEF Table
  <2> QED
    BY <1>1, <1>5, <2>1, <2>2, <2>4 DEF Apart, Distinct
<1> QED
  BY <1>1, <1>2, <1>3, <1>4, <1>5, <1>6

\* Writing the table of the page that is being mapped.
LEMMA TableStep ==
    ASSUME IInv, Memory, Memory', Base', pc \in {"clear", "entry"}, ret # P!nullptr,
           UNCHANGED <<cr3, tlb, first_page_table, phys, heap_current_end, backing, held>>,
           NEW row \in [Index -> Entries], pc' \in {"entry", "invlpg"},
           DOMAIN mem \subseteq DOMAIN mem', Table(pd_index) \in DOMAIN mem',
           mem'[Table(pd_index)] = row,
           \A g \in DOMAIN mem : g # Table(pd_index) => mem'[g] = mem[g],
           \A i \in Index : row[i] = Leaf(Page(pd_index, i))',
           \A s \in Tabled, i \in Index : s # pd_index => Leaf(Page(s, i))' = Leaf(Page(s, i))
    PROVE  Tables' /\ Apart' /\ Coherent'
<1>1. /\ Base /\ pd_index \in Tabled
      /\ Tables /\ Distinct /\ PhysApart /\ Coherent
      /\ Table(pd_index) \notin {cr3, first_page_table}
      /\ \A s \in Tabled : s # pd_index => Table(s) # Table(pd_index)
      /\ pd_index \in Index \ {0, KERNEL_SLOT, VMM_RECURSIVE_SLOT}
  BY MapFacts
<1>2. UNCHANGED <<pd_index, pt_index>>
  BY DEF pd_index, pt_index
<1>3. Tabled' = Tabled
  BY <1>2 DEF Tabled
<1>4. /\ cr3 \in DOMAIN mem /\ first_page_table \in DOMAIN mem
      /\ mem'[cr3] = mem[cr3] /\ mem'[first_page_table] = mem[first_page_table]
  BY <1>1 DEF Tables
<1>5. Tables'
  <2>1. /\ {cr3, first_page_table} \subseteq held \cap DOMAIN mem'
        /\ mem'[first_page_table] = Identity(TRUE)
        /\ mem'[cr3][0] = Entry(first_page_table, TRUE)
        /\ mem'[cr3][KERNEL_SLOT] = Entry(first_page_table, TRUE)
        /\ mem'[cr3][VMM_RECURSIVE_SLOT] = Entry(cr3, FALSE)
    BY <1>1, <1>4 DEF Tables
  <2>2. ASSUME NEW s \in Index \ {0, KERNEL_SLOT, VMM_RECURSIVE_SLOT}
        PROVE  IF s \in Tabled THEN mem'[cr3][s].frame \in held /\ mem'[cr3][s].user = TRUE
               ELSE mem'[cr3][s] = Null
    BY <1>1, <1>4 DEF Tables, Table
  <2>3. ASSUME NEW s \in Tabled
        PROVE  /\ mem'[cr3][s].frame \in DOMAIN mem'
               /\ \A i \in Index : mem'[mem'[cr3][s].frame][i] = Leaf(Page(s, i))'
    <3>1. mem'[cr3][s].frame = Table(s)
      BY <1>4 DEF Table
    <3>2. CASE s = pd_index
      BY <3>1, <3>2, <1>2
    <3>3. CASE s # pd_index
      <4>1. Table(s) \in DOMAIN mem /\ \A i \in Index : mem[Table(s)][i] = Leaf(Page(s, i))
        BY <1>1, <3>3 DEF Tables
      <4>2. mem'[Table(s)] = mem[Table(s)]
        BY <1>1, <3>3, <4>1
      <4> QED
        BY <3>1, <3>3, <4>1, <4>2
    <3> QED
      BY <3>2, <3>3
  <2> QED
    BY <1>3, <2>1, <2>2, <2>3 DEF Tables, Table
<1>6. \A s \in Tabled : Table(s)' = Table(s)
  BY <1>4 DEF Table
<1>7. Distinct' /\ PhysApart'
  BY <1>1, <1>3, <1>6 DEF Distinct, PhysApart
<1>8. Coherent'
  BY <1>1, <1>4, <1>5, CoherentStep
<1> QED
  BY <1>5, <1>7, <1>8 DEF Apart

LEMMA vmm_map_clearInv ==
    ASSUME IInv, Memory, Memory', vmm_map_clear
    PROVE  IInv'
<1>1. /\ pc = "clear" /\ StorePage(Window(pd_index), NullTable, "entry")
      /\ UNCHANGED <<frames, cr3, leftover, tlb, kernel_directory, first_page_table, phys, pages,
                     heap_current_end, backing>>
  BY DEF vmm_map_clear, At
<1>2. UNCHANGED <<phase, held, ret>> /\ P!FreeBlocks' = P!FreeBlocks
  BY <1>1 DEF frames, P!FreeBlocks, P!Blocks
<1>3. NullTable \in [Index -> Entries]
  BY DEF NullTable, Null, Entry, Entries
<1>4. Base' /\ pc' \in {"entry", "lost"}
  <2>1. /\ Cardinality(held') \in Nat /\ Cardinality(held) <= Cardinality(held')
        /\ 0 \notin P!FreeBlocks' /\ (ret' = P!nullptr => P!FreeBlocks' = {})
    BY <1>1, <1>2, HeldFinite, MapFacts DEF Base
  <2>2. PICK v \in Addresses : v = Window(pd_index)
    BY <1>1, MapFacts
  <2>3. "entry" \in Mapping
    BY DEF Mapping
  <2> QED
    BY <1>1, <1>2, <1>3, <2>1, <2>2, <2>3, MapFacts, MapBase
<1>5. ASSUME Served'
      PROVE  Tables' /\ Apart' /\ Coherent'
  <2>1. ret # P!nullptr /\ pc' = "entry"
    BY <1>2, <1>4, <1>5 DEF Served, Paging, P!nullptr
  <2>2. PICK v \in Addresses, f \in Nat : v = Window(pd_index) /\ f = Table(pd_index) /\ Reach(v) = f
    BY <1>1, <2>1, MapFacts
  <2>3. /\ DOMAIN mem \subseteq DOMAIN mem'
        /\ f \in DOMAIN mem' /\ mem'[f] = NullTable
        /\ \A g \in DOMAIN mem : g # f => mem'[g] = mem[g]
    BY <1>1, <1>3, <2>1, <2>2, MapFacts, StoreTo
  <2>4. \A i \in Index : NullTable[i] = Leaf(Page(pd_index, i))'
    <3> SUFFICES ASSUME NEW i \in Index PROVE Leaf(Page(pd_index, i))' = Null
      BY DEF NullTable
    <3>1. pt_index = 0 /\ heap_current_end = Page(pd_index, pt_index) /\ pd_index \in Nat
      BY <1>1, <2>1, MapFacts DEF Tables
    <3>2. pd_index * ENTRIES \in Nat /\ i \in Nat
      BY <3>1, Slots DEF Index
    <3>3. ~(Page(pd_index, i) < heap_current_end) /\ Page(pd_index, i)' = Page(pd_index, i)
      BY <1>1, <3>1, <3>2 DEF Page, pd_index
    <3> QED
      BY <1>1, <2>1, <3>3 DEF Leaf
  <2>5. \A s \in Tabled, i \in Index : s # pd_index => Leaf(Page(s, i))' = Leaf(Page(s, i))
    BY <1>1, <2>1 DEF Leaf
  <2> QED
    BY <1>1, <1>2, <1>3, <1>4, <2>1, <2>2, <2>3, <2>4, <2>5, TableStep
<1> QED
  BY <1>4, <1>5 DEF IInv, Start, Starting, Good

LEMMA vmm_map_entryInv ==
    ASSUME IInv, Memory, Memory', vmm_map_entry
    PROVE  IInv'
<1> DEFINE W == Window(pd_index)
           row == [Load(W) EXCEPT ![pt_index] = Entry(phys, TRUE)]
<1>1. /\ pc = "entry" /\ StorePage(W, row, "invlpg")
      /\ UNCHANGED <<frames, cr3, leftover, tlb, kernel_directory, first_page_table, phys, pages,
                     heap_current_end, backing>>
  BY DEF vmm_map_entry, At
<1>2. UNCHANGED <<phase, held, ret>> /\ P!FreeBlocks' = P!FreeBlocks
  BY <1>1 DEF frames, P!FreeBlocks, P!Blocks
<1>2a. PICK v \in Addresses : v = W
  BY <1>1, MapFacts
<1>3. row \in [Index -> Entries]
  <2>1. Load(v) \in [Index -> Entries]
    BY <1>1, MapFacts, LoadType
  <2>2. Entry(phys, TRUE) \in Entries
    BY <1>1, MapFacts DEF Base, TypeOK, Entry, Entries
  <2> QED
    BY <1>2a, <2>1, <2>2
<1>4. Base' /\ pc' \in {"invlpg", "lost"}
  <2>1. /\ Cardinality(held') \in Nat /\ Cardinality(held) <= Cardinality(held')
        /\ 0 \notin P!FreeBlocks' /\ (ret' = P!nullptr => P!FreeBlocks' = {})
    BY <1>1, <1>2, HeldFinite, MapFacts DEF Base
  <2>2. PICK r \in [Index -> Entries] : r = row
    BY <1>3
  <2>3. "invlpg" \in Mapping
    BY DEF Mapping
  <2> QED
    BY <1>1, <1>2, <1>2a, <2>1, <2>2, <2>3, MapFacts, MapBase
<1>5. ASSUME Served'
      PROVE  Tables' /\ Apart' /\ Coherent'
  <2>1. ret # P!nullptr /\ pc' = "invlpg"
    BY <1>2, <1>4, <1>5 DEF Served, Paging, P!nullptr
  <2>2. PICK f \in Nat : f = Table(pd_index) /\ Reach(v) = f
    BY <1>1, <1>2a, <2>1, MapFacts
  <2>3. PICK r \in [Index -> Entries] : r = row
    BY <1>3
  <2>4. /\ DOMAIN mem \subseteq DOMAIN mem'
        /\ f \in DOMAIN mem' /\ mem'[f] = r
        /\ \A g \in DOMAIN mem : g # f => mem'[g] = mem[g]
    <3>1. Base
      BY <1>1, MapFacts
    <3>2. StorePage(v, r, "invlpg")
      BY <1>1, <1>2a, <2>3
    <3>3. Reach(v) \in {f, None} /\ pc' # "lost"
      BY <2>1, <2>2
    <3> QED
      BY <3>1, <3>2, <3>3, StoreTo
  <2>5. /\ heap_current_end = Page(pd_index, pt_index) /\ pd_index \in Nat /\ pt_index \in Index
        /\ pd_index \in Tabled /\ pd_index' = pd_index /\ heap_current_end \in Nat
        /\ f \in DOMAIN mem /\ \A i \in Index : mem[f][i] = Leaf(Page(pd_index, i))
    <3>1. /\ heap_current_end = Page(pd_index, pt_index) /\ pd_index \in Nat /\ pt_index \in Index
          /\ pd_index \in Tabled /\ Tables
      BY <1>1, <2>1, MapFacts
    <3>2. f \in DOMAIN mem /\ \A i \in Index : mem[f][i] = Leaf(Page(pd_index, i))
      BY <1>1, <2>2, <3>1 DEF Tables
    <3>3. pd_index' = pd_index
      BY <1>1 DEF pd_index
    <3> QED
      BY <3>1, <3>2, <3>3, PageParts
  <2>6. Load(v) = mem[f]
    BY <2>2, <2>5 DEF Load, Row, None
  <2>7. mem[f] \in [Index -> Entries]
    BY <1>1, <2>5, MapFacts DEF Base
  <2>8. \A i \in Index : r[i] = Leaf(Page(pd_index, i))'
    <3> SUFFICES ASSUME NEW i \in Index PROVE r[i] = Leaf(Page(pd_index, i))'
      OBVIOUS
    <3>1. Page(pd_index, i)' = Page(pd_index, i)
      BY <2>5 DEF Page
    <3>2. /\ Page(pd_index, i) \in Nat
          /\ Page(pd_index, i) = heap_current_end <=> i = pt_index
      BY <2>5, PageParts
    <3>3. CASE i = pt_index
      <4>1. r[i] = Entry(phys, TRUE)
        BY <1>2a, <2>3, <2>6, <2>7, <3>3
      <4>2. Page(pd_index, i) = heap_current_end /\ ~(Page(pd_index, i) < heap_current_end)
        BY <2>5, <3>2, <3>3
      <4>3. Leaf(Page(pd_index, i))' = Entry(phys, TRUE)
        BY <1>1, <2>1, <3>1, <4>2 DEF Leaf
      <4> QED
        BY <4>1, <4>3
    <3>4. CASE i # pt_index
      <4>1. r[i] = Leaf(Page(pd_index, i))
        BY <1>2a, <2>3, <2>5, <2>6, <2>7, <3>4
      <4> QED
        BY <1>1, <2>1, <2>5, <3>1, <3>2, <3>4, <4>1 DEF Leaf
    <3> QED
      BY <3>3, <3>4
  <2>9. \A s \in Tabled, i \in Index : s # pd_index => Leaf(Page(s, i))' = Leaf(Page(s, i))
    <3> SUFFICES ASSUME NEW s \in Tabled, NEW i \in Index, s # pd_index
                 PROVE  Leaf(Page(s, i))' = Leaf(Page(s, i))
      OBVIOUS
    <3>1. s \in Nat
      BY Slots DEF Tabled
    <3>2. Page(s, i) # heap_current_end
      BY <2>5, <3>1, PageParts
    <3> QED
      BY <1>1, <2>1, <3>2 DEF Leaf
  <2> QED
    BY <1>1, <1>2, <1>4, <2>1, <2>2, <2>4, <2>8, <2>9, TableStep
<1> QED
  BY <1>4, <1>5 DEF IInv, Start, Starting, Good

\* The new page belongs to the heap from here on.
LEMMA invlpgInv ==
    ASSUME IInv, Memory, Memory', invlpg
    PROVE  IInv'
<1>1. /\ pc = "invlpg" /\ pc' = "expand" /\ Base /\ Good /\ pc \in Mapping /\ Paging
      /\ tlb' = IF tlb # << >> /\ tlb[1] = heap_current_end THEN << >> ELSE tlb
      /\ backing' = Append(backing, phys) /\ pages' = pages - 1
      /\ heap_current_end' = (heap_current_end + 1) % (ENTRIES * ENTRIES)
      /\ UNCHANGED <<frames, cr3, mem, leftover, kernel_directory, first_page_table, phys>>
  BY DEF IInv, invlpg, At, Mapping, Paging
<1>2. UNCHANGED <<phase, held, ret>> /\ P!FreeBlocks' = P!FreeBlocks
  BY <1>1 DEF frames, P!FreeBlocks, P!Blocks
<1>3. /\ heap_current_end \in HeapStart .. Window(0) /\ heap_current_end < Window(0)
      /\ heap_current_end \in Nat /\ HeapStart \in Nat /\ Window(0) \in Nat
      /\ Len(backing) \in Nat /\ heap_current_end = HeapStart + Len(backing)
      /\ pd_index \in HEAP_SLOT .. VMM_RECURSIVE_SLOT - 1 /\ pt_index \in Index
      /\ heap_current_end = Page(pd_index, pt_index)
  BY <1>1, HeapEnd, HeapArea
<1>4. heap_current_end' = heap_current_end + 1
  <2>1. Window(0) \in Addresses
    BY PageInRange, Slots DEF Window
  <2>2. Window(0) < ENTRIES * ENTRIES /\ ENTRIES * ENTRIES \in Nat
    BY <1>3, <2>1, Slots DEF Addresses
  <2>3. \A a, b \in Nat : a < b => a % b = a
    BY DivMod
  <2>4. heap_current_end + 1 \in Nat /\ heap_current_end + 1 < ENTRIES * ENTRIES
    BY <1>3, <2>2
  <2> QED
    BY <1>1, <2>2, <2>3, <2>4
<1>5. /\ backing \in Seq(Nat) /\ phys \in Nat
      /\ backing' \in Seq(Nat) /\ Len(backing') = Len(backing) + 1
      /\ backing'[Len(backing) + 1] = phys
      /\ \A i \in 1 .. Len(backing) : backing'[i] = backing[i]
  <2>1. backing \in Seq(Nat) /\ phys \in Nat
    BY <1>1 DEF Base, TypeOK
  <2> QED
    BY <1>1, <2>1, AppendProperties
<1>6. Base'
  <2>1. TypeOK'
    <3>1. pages' \in 0 .. INITIAL_PAGES + MAX_GROW
      BY <1>1, GrowAssumption DEF Base, TypeOK, Mapping
    <3>2. heap_current_end' = HeapStart + Len(backing')
      BY <1>3, <1>4, <1>5
    <3>3. tlb' # << >> => tlb'[1] \in Addresses /\ tlb'[2] \in Nat
      BY <1>1 DEF Base, TypeOK
    <3>4. cr3' \in DOMAIN mem' /\ phys' \in Nat
      BY <1>1 DEF Base, TypeOK
    <3>5. \A f \in DOMAIN mem' : \A i \in Index : mem'[f][i].frame \in Nat \cup {None}
      BY <1>1 DEF Base, TypeOK
    <3> QED
      BY <1>1, <3>1, <3>2, <3>3, <3>4, <3>5 DEF TypeOK
  <2>2. Len(backing') + (IF pc' \in Mapping THEN 1 ELSE 0) <= Cardinality(held')
    <3>1. Len(backing) + 1 <= Cardinality(held) /\ pc' \notin Mapping
      BY <1>1 DEF Base, Mapping
    <3> QED
      BY <1>2, <1>3, <1>5, <3>1
  <2>3. /\ \A f \in DOMAIN mem' : mem'[f] \in [Index -> Entries]
        /\ leftover' \in Entries /\ kernel_directory' \in Nat /\ first_page_table' \in Nat
        /\ phase' = "run" /\ 0 \notin P!FreeBlocks' /\ (ret' = P!nullptr => P!FreeBlocks' = {})
    BY <1>1, <1>2 DEF Base
  <2> QED
    BY <1>1, <1>5, <2>1, <2>2, <2>3 DEF Base, Mapping, P!nullptr
<1>7. ASSUME Served'
      PROVE  Tables' /\ Apart' /\ Coherent'
  <2>1. Tables /\ Distinct /\ PhysApart /\ Coherent
    BY <1>1, <1>2, <1>7 DEF Good, Served, Paging, P!nullptr, Apart
  <2>2. Tabled' = Tabled
    <3>1. ASSUME NEW s \in HEAP_SLOT .. VMM_RECURSIVE_SLOT - 1
          PROVE  s * ENTRIES < heap_current_end + 1
                   <=> s * ENTRIES < heap_current_end \/ s = pd_index
      <4>1. s \in Nat /\ s * ENTRIES \in Nat /\ 0 \in Index
        BY Slots
      <4>2. s = pd_index => s * ENTRIES <= heap_current_end
        BY <1>3, <4>1, SlotOrder DEF pd_index
      <4>3. s * ENTRIES = heap_current_end => s = pd_index
        <5>1. s * ENTRIES = Page(s, 0)
          BY <4>1 DEF Page
        <5> QED
          BY <4>1, <5>1, PageParts DEF pd_index
      <4> QED
        BY <1>3, <4>1, <4>2, <4>3
    <3> QED
      BY <1>1, <1>4, <3>1 DEF Tabled
  <2>3. ASSUME NEW s \in Tabled, NEW i \in Index
        PROVE  Leaf(Page(s, i))' = Leaf(Page(s, i))
    <3>1. PICK v \in Nat : v = Page(s, i) /\ HeapStart <= v
      <4>1. s \in Nat /\ s \in HEAP_SLOT .. VMM_RECURSIVE_SLOT - 1
        BY Slots DEF Tabled
      <4>2. Page(s, i) \in Nat /\ Page(s, i) \div ENTRIES = s
        BY <4>1, PageParts
      <4>3. Page(s, i) \in HeapStart .. Window(0) - 1
        BY <4>1, <4>2, HeapSlot
      <4> QED
        BY <4>2, <4>3
    <3>2. Page(s, i)' = Page(s, i)
      BY DEF Page
    <3>3. CASE v < heap_current_end
      <4>1. v < heap_current_end + 1 /\ v - HeapStart + 1 \in 1 .. Len(backing)
        BY <1>3, <3>1, <3>3
      <4>2. backing'[v - HeapStart + 1] = backing[v - HeapStart + 1]
        BY <1>5, <4>1
      <4> QED
        BY <1>4, <3>1, <3>2, <3>3, <4>1, <4>2 DEF Leaf
    <3>4. CASE v = heap_current_end
      <4>1. v < heap_current_end + 1 /\ v - HeapStart + 1 = Len(backing) + 1
            /\ ~(v < heap_current_end)
        BY <1>3, <3>4
      <4>2. Leaf(v) = Entry(phys, TRUE)
        BY <1>1, <3>4, <4>1 DEF Leaf
      <4>3. Leaf(Page(s, i))' = Entry(backing'[v - HeapStart + 1], TRUE)
        BY <1>4, <3>1, <3>2, <4>1 DEF Leaf
      <4> QED
        BY <1>5, <3>1, <4>1, <4>2, <4>3
    <3>5. CASE heap_current_end < v
      <4>1. ~(v < heap_current_end + 1) /\ ~(v < heap_current_end) /\ v # heap_current_end
        BY <1>3, <3>5
      <4> QED
        BY <1>1, <1>4, <3>1, <3>2, <4>1 DEF Leaf
    <3> QED
      BY <1>3, <3>3, <3>4, <3>5
  <2>4. Tables'
    <3>1. /\ {cr3, first_page_table} \subseteq held \cap DOMAIN mem
          /\ mem[first_page_table] = Identity(TRUE)
          /\ mem[cr3][0] = Entry(first_page_table, TRUE)
          /\ mem[cr3][KERNEL_SLOT] = Entry(first_page_table, TRUE)
          /\ mem[cr3][VMM_RECURSIVE_SLOT] = Entry(cr3, FALSE)
      BY <2>1 DEF Tables
    <3>2. ASSUME NEW s \in Index \ {0, KERNEL_SLOT, VMM_RECURSIVE_SLOT}
          PROVE  IF s \in Tabled THEN Table(s) \in held /\ mem[cr3][s].user = TRUE
                 ELSE mem[cr3][s] = Null
      BY <2>1 DEF Tables
    <3>3. ASSUME NEW s \in Tabled
          PROVE  Table(s) \in DOMAIN mem /\ \A i \in Index : mem[Table(s)][i] = Leaf(Page(s, i))'
      BY <1>1, <2>1, <2>3 DEF Tables
    <3> QED
      BY <1>1, <1>2, <2>2, <3>1, <3>2, <3>3 DEF Tables, Table
  <2>5. Distinct'
    <3>1. /\ cr3 # first_page_table
          /\ \A s \in Tabled : Table(s) \notin {cr3, first_page_table}
          /\ \A s, t \in Tabled : s # t => Table(s) # Table(t)
      BY <2>1 DEF Distinct
    <3>2. ASSUME NEW i \in 1 .. Len(backing) + 1
          PROVE  /\ backing'[i] \in held /\ backing'[i] \notin {cr3, first_page_table}
                 /\ \A s \in Tabled : Table(s) # backing'[i]
                 /\ \A j \in 1 .. Len(backing) + 1 : i # j => backing'[i] # backing'[j]
      <4>1. CASE i = Len(backing) + 1
        <5>1. backing'[i] = phys
          BY <1>5, <4>1
        <5>2. \A j \in 1 .. Len(backing) + 1 : i # j => j \in 1 .. Len(backing)
          BY <1>3, <4>1
        <5>3. \A j \in 1 .. Len(backing) : backing'[j] # phys
          BY <1>5, <2>1 DEF PhysApart
        <5>4. /\ phys \in held /\ phys \notin {cr3, first_page_table}
              /\ \A s \in Tabled : Table(s) # phys
          BY <2>1 DEF PhysApart
        <5> QED
          BY <5>1, <5>2, <5>3, <5>4
      <4>2. CASE i \in 1 .. Len(backing)
        <5>1. \A j \in 1 .. Len(backing) + 1 : j = Len(backing) + 1 \/ j \in 1 .. Len(backing)
          BY <1>3
        <5> QED
          BY <1>3, <1>5, <2>1, <4>2, <5>1 DEF PhysApart, Distinct
      <4> QED
        BY <1>3, <4>1, <4>2
    <3> QED
      BY <1>1, <1>2, <1>5, <2>2, <3>1, <3>2 DEF Distinct, Table
  <2>6. Coherent'
    <3> SUFFICES ASSUME tlb' # << >>, tlb[1] \notin heap_current_end + 1 .. Window(0) - 1
                 PROVE  Fresh'
      BY <1>1, <1>4 DEF Coherent, Fresh
    <3>1. tlb' = tlb /\ tlb[1] # heap_current_end /\ tlb # << >>
      BY <1>1
    <3>2. PICK v \in Addresses : v = tlb[1]
      BY <1>1, <3>1 DEF Base, TypeOK
    <3>3. v \notin heap_current_end .. Window(0) - 1
      BY <1>3, <3>1, <3>2, AddressParts
    <3>4. tlb[2] = Walk(v)
      BY <2>1, <3>1, <3>2, <3>3 DEF Coherent, Fresh
    <3>5. Walk(v)' = Walk(v)
      BY <1>1, WalkSame
    <3> QED
      BY <3>1, <3>2, <3>4, <3>5 DEF Fresh, Walk, WalkEntry, Row
  <2> QED
    BY <1>1, <2>4, <2>5, <2>6 DEF Apart, Mapping
<1> QED
  BY <1>1, <1>6, <1>7 DEF IInv, Start, Starting, Good
----------------------------------------------------------------------------
(* The CPU *)

\* A walk of the tables at any moment brings into the TLB what they say then.
LEMMA tlb_fillInv ==
    ASSUME IInv, tlb_fill
    PROVE  IInv'
<1>1. PICK v \in Addresses : Walk(v) # None /\ tlb' = <<v, Walk(v)>>
  BY DEF tlb_fill
<1>2. /\ UNCHANGED <<frames, pc, cr3, mem, leftover, kernel_directory, first_page_table, phys,
                     pages, heap_current_end, backing>>
      /\ UNCHANGED <<phase, held, ret>> /\ P!FreeBlocks' = P!FreeBlocks
      /\ Base /\ Start /\ Good
  BY DEF tlb_fill, IInv, frames, P!FreeBlocks, P!Blocks
<1>3. Walk(v)' = Walk(v) /\ Walk(v) \in Nat
  BY <1>1, <1>2, WalkSame, WalkType
<1>4. Fresh'
  <2>1. tlb'[1] = v /\ tlb'[2] = Walk(v)'
    BY <1>1, <1>3
  <2> QED
    BY <2>1 DEF Fresh, Walk, WalkEntry, Row
<1>5. Base'
  <2>1. TypeOK'
    BY <1>1, <1>2, <1>3 DEF Base, TypeOK
  <2> QED
    BY <1>2, <2>1 DEF Base, P!nullptr, Paging
<1>6. Start'
  <2>1. BootTables => BootTables'
    BY <1>2 DEF BootTables
  <2> QED
    BY <1>2, <1>4, <2>1 DEF Start, P!nullptr
<1>7. Good'
  <2>1. Tabled' = Tabled /\ pt_index' = pt_index /\ pd_index' = pd_index
    BY <1>2 DEF Tabled, pd_index, pt_index
  <2>2. Tables => Tables'
    BY <1>2, <2>1 DEF Tables, Table, Leaf
  <2>3. Apart => Apart'
    BY <1>2, <2>1 DEF Apart, Distinct, PhysApart, Table
  <2>4. Served' /\ Paging' => Served /\ Paging
    BY <1>2 DEF Served, Paging, P!nullptr
  <2> QED
    BY <1>2, <1>4, <2>2, <2>3, <2>4 DEF Good, Coherent
<1> QED
  BY <1>5, <1>6, <1>7 DEF IInv

LEMMA faultInv ==
    ASSUME IInv, Memory, fault
    PROVE  IInv'
<1>1. /\ pc' = "lost" /\ pc # "lost" /\ Base
      /\ UNCHANGED <<cr3, mem, leftover, tlb, kernel_directory, first_page_table, phys,
                     pages, heap_current_end, backing, phase, held, ret>>
  BY DEF fault, IInv, frames
<1>2. Base'
  <2>1. Len(backing) + (IF pc' \in Mapping THEN 1 ELSE 0) <= Cardinality(held')
    <3>1. Len(backing) \in Nat /\ Cardinality(held) \in Nat /\ pc' \notin Mapping
      BY <1>1, HeldFinite DEF Base, Mapping
    <3>2. Len(backing) + (IF pc \in Mapping THEN 1 ELSE 0) <= Cardinality(held)
      BY <1>1 DEF Base
    <3> QED
      BY <1>1, <3>1, <3>2
  <2> QED
    BY <1>1, <2>1 DEF Base, TypeOK, Paging, Mapping
<1> QED
  BY <1>1, <1>2 DEF IInv, Start, Starting, Good, Served

LEMMA StutterInv ==
    ASSUME IInv, UNCHANGED vars
    PROVE  IInv'
<1>1. /\ UNCHANGED <<pc, cr3, mem, leftover, tlb, kernel_directory, first_page_table, phys,
                     pages, heap_current_end, backing, phase, held, ret>>
      /\ P!FreeBlocks' = P!FreeBlocks /\ Base /\ Start /\ Good
  BY DEF IInv, vars, frames, P!FreeBlocks, P!Blocks
<1>2. Base'
  BY <1>1 DEF Base, TypeOK, Paging, P!nullptr
<1>3. /\ Fresh' <=> Fresh
      /\ Tabled' = Tabled /\ pt_index' = pt_index /\ pd_index' = pd_index
  BY <1>1 DEF Fresh, Walk, WalkEntry, Row, Tabled, pd_index, pt_index
<1>4. Start'
  BY <1>1, <1>3 DEF Start, BootTables, P!nullptr
<1>5. Good'
  <2>1. Tables => Tables'
    BY <1>1, <1>3 DEF Tables, Table, Leaf
  <2>2. Apart => Apart'
    BY <1>1, <1>3 DEF Apart, Distinct, PhysApart, Table
  <2> QED
    BY <1>1, <1>3, <2>1, <2>2 DEF Good, Coherent, Served, Paging, P!nullptr
<1> QED
  BY <1>2, <1>4, <1>5 DEF IInv

\* Every step keeps it.
THEOREM Inductive == Spec => []IInv
<1>1. Init => IInv
  BY InitInv
<1>2. IInv /\ Memory /\ Memory' /\ [Next]_vars => IInv'
  BY pmm_initInv, vmm_init_directoryInv, vmm_init_tableInv, vmm_init_entriesInv,
     vmm_init_cr3Inv, RequestInv, kheap_expandInv, vmm_map_tableInv, vmm_map_clearInv,
     vmm_map_entryInv, invlpgInv, tlb_fillInv, faultInv, StutterInv DEF Next, stopped
<1> QED
  BY <1>1, <1>2, MemoryInvariant, PTL DEF Spec
----------------------------------------------------------------------------
(* What it says of the program *)

\* Every variable has its type, the pages still to be added are counted down to
\* nothing, and the end of the heap is as far as the frames given to it.
THEOREM TypeCorrect == Spec => []TypeOK
<1>1. IInv => TypeOK
  BY DEF IInv, Base
<1> QED
  BY <1>1, Inductive, PTL

LEMMA WalkEntrySettled ==
    ASSUME IInv, Memory, Served, Paging, NEW v \in Addresses,
           v \in Unused => pc \notin {"clear", "entry", "invlpg"}
    PROVE  WalkEntry(v) = Settled(v)
BY WalkSettled DEF IInv, Good

\* At every step of vmm_init and of every mapping after it, low memory and the kernel's own
\* addresses lead to the same frames, with the rights that they should have.
THEOREM KernelMappedCorrect == Spec => []KernelMapped
<1>1. IInv /\ Memory => KernelMapped
  <2> SUFFICES ASSUME IInv, Memory, Served
               PROVE  /\ \A i \in Index : Walk(i) = i /\ Walk(Page(KERNEL_SLOT, i)) = i
                      /\ Paging =>
                           /\ \A i \in Index : WalkEntry(Page(KERNEL_SLOT, i)).user
                           /\ \A i \in Index : ~WalkEntry(Window(i)).user
                           /\ Walk(VMM_PAGE_DIRECTORY) = cr3
    BY DEF KernelMapped
  <2>1. ASSUME NEW i \in Index
        PROVE  /\ i \in Addresses /\ i \div ENTRIES = 0 /\ i % ENTRIES = i
               /\ Page(KERNEL_SLOT, i) \in Addresses
               /\ Page(KERNEL_SLOT, i) \div ENTRIES = KERNEL_SLOT
               /\ Page(KERNEL_SLOT, i) % ENTRIES = i
               /\ Window(i) \in Addresses
               /\ Window(i) \div ENTRIES = VMM_RECURSIVE_SLOT /\ Window(i) % ENTRIES = i
    <3>1. i = Page(0, i)
      BY Slots DEF Page, Index
    <3> QED
      BY <3>1, PageInRange, Slots DEF Window
  <2>2. CASE ~Paging
    <3>1. BootTables
      BY <2>2 DEF IInv, Start, Starting, Served, Paging, Base, TypeOK
    <3> QED
      BY <2>1, <2>2, <3>1, BootWalk, Slots
  <2>3. CASE Paging
    <3>1. ASSUME NEW v \in Addresses, v \div ENTRIES \in {0, KERNEL_SLOT, VMM_RECURSIVE_SLOT}
          PROVE  WalkEntry(v) = Settled(v)
      <4>1. v \notin Unused
        <5>1. v \div ENTRIES \notin HEAP_SLOT .. VMM_RECURSIVE_SLOT - 1
          BY <3>1, Slots
        <5>2. v \notin HeapStart .. Window(0) - 1
          BY <5>1, HeapSlot, AddressParts
        <5> QED
          BY <5>2, HeapEnd, HeapArea DEF IInv, Unused
      <4> QED
        BY <2>3, <4>1, WalkEntrySettled
    <3>2. ASSUME NEW i \in Index
          PROVE  /\ WalkEntry(i) = Entry(i, TRUE) /\ WalkEntry(Page(KERNEL_SLOT, i)) = Entry(i, TRUE)
                 /\ WalkEntry(Window(i)) = Entry(mem[cr3][i].frame, FALSE)
      <4>1. Settled(i) = Entry(i, TRUE) /\ Settled(Page(KERNEL_SLOT, i)) = Entry(i, TRUE)
        BY <2>1 DEF Settled
      <4>2. Settled(Window(i)) = Entry(mem[cr3][i].frame, FALSE)
        <5>1. VMM_RECURSIVE_SLOT \notin {0, KERNEL_SLOT}
          BY Slots
        <5> QED
          BY <2>1, <5>1 DEF Settled
      <4> QED
        BY <2>1, <3>1, <4>1, <4>2
    <3>3. mem[cr3][VMM_RECURSIVE_SLOT].frame = cr3
      BY <2>3 DEF IInv, Good, Tables, Entry
    <3>4. /\ VMM_PAGE_DIRECTORY = Window(VMM_RECURSIVE_SLOT) /\ VMM_RECURSIVE_SLOT \in Index
      BY Slots DEF VMM_PAGE_DIRECTORY, Window
    <3>5. \A i \in Index : Walk(i) = i /\ Walk(Page(KERNEL_SLOT, i)) = i
      BY <3>2 DEF Walk, Entry
    <3>6. \A i \in Index : WalkEntry(Page(KERNEL_SLOT, i)).user /\ ~WalkEntry(Window(i)).user
      BY <3>2 DEF Entry
    <3>7. Walk(VMM_PAGE_DIRECTORY) = cr3
      BY <3>2, <3>3, <3>4 DEF Walk, Entry
    <3> QED
      BY <3>5, <3>6, <3>7
  <2> QED
    BY <2>2, <2>3
<1> QED
  BY <1>1, Inductive, MemoryInvariant, PTL

\* The addresses of the heap lead to the frames taken for it, in order and open to user code, and
\* between two mappings no address from heap_current_end on leads anywhere.
THEOREM HeapExactCorrect == Spec => []HeapExact
<1>1. IInv /\ Memory => HeapExact
  <2> SUFFICES ASSUME IInv, Memory, Served, Paging
               PROVE  /\ \A i \in 1 .. Len(backing) :
                           WalkEntry(HeapStart + i - 1) = Entry(backing[i], TRUE)
                      /\ pc \in {"idle", "expand", "map"} =>
                           \A v \in heap_current_end .. Window(0) - 1 : Walk(v) = None
    BY DEF HeapExact, Paging
  <2>1. /\ heap_current_end \in HeapStart .. Window(0) /\ Len(backing) \in Nat
        /\ heap_current_end = HeapStart + Len(backing)
        /\ HeapStart \in Nat /\ Window(0) \in Nat /\ heap_current_end \in Nat
    BY HeapEnd, HeapArea DEF IInv
  <2>2. ASSUME NEW v \in HeapStart .. Window(0) - 1
        PROVE  /\ v \in Addresses
               /\ v \div ENTRIES \notin {0, KERNEL_SLOT, VMM_RECURSIVE_SLOT}
    <3>1. v \in Nat
      BY <2>1
    <3>2. Window(0) \in Addresses
      BY PageInRange, Slots DEF Window
    <3>3. ENTRIES * ENTRIES \in Nat
      BY Slots
    <3>4. v \in Addresses
      BY <2>1, <3>1, <3>2, <3>3 DEF Addresses
    <3>5. v \div ENTRIES \in HEAP_SLOT .. VMM_RECURSIVE_SLOT - 1
      BY <3>1, HeapSlot
    <3> QED
      BY <3>4, <3>5, Slots
  <2>3. ASSUME NEW i \in 1 .. Len(backing)
        PROVE  WalkEntry(HeapStart + i - 1) = Entry(backing[i], TRUE)
    <3>1. PICK v \in Nat : v = HeapStart + i - 1
      BY <2>1
    <3>2. /\ v \in HeapStart .. Window(0) - 1 /\ v \notin Unused
          /\ v \in HeapStart .. heap_current_end - 1 /\ v - HeapStart + 1 = i
      BY <2>1, <3>1 DEF Unused
    <3>3. WalkEntry(v) = Settled(v)
      BY <2>2, <3>2, WalkEntrySettled
    <3>4. Settled(v) = Entry(backing[i], TRUE)
      BY <2>2, <3>2 DEF Settled
    <3> QED
      BY <3>1, <3>3, <3>4
  <2>4. ASSUME pc \in {"idle", "expand", "map"}, NEW v \in heap_current_end .. Window(0) - 1
        PROVE  Walk(v) = None
    <3>1. v \in HeapStart .. Window(0) - 1 /\ v \notin HeapStart .. heap_current_end - 1
      BY <2>1
    <3>2. WalkEntry(v) = Settled(v)
      BY <2>2, <2>4, <3>1, WalkEntrySettled
    <3>3. Settled(v) = Null
      BY <2>2, <3>1 DEF Settled
    <3> QED
      BY <3>2, <3>3 DEF Walk, Null, Entry
  <2> QED
    BY <2>3, <2>4
<1> QED
  BY <1>1, Inductive, MemoryInvariant, PTL

\* Directory, tables and pages of the heap are different frames, each taken from the
\* physical memory manager.
THEOREM FramesApartCorrect == Spec => []FramesApart
<1>1. IInv => FramesApart
  <2> DEFINE S == {0} \cup {s \in HEAP_SLOT .. VMM_RECURSIVE_SLOT : Row(cr3)[s].frame # None}
             T(s) == Row(cr3)[s].frame
  <2> SUFFICES ASSUME IInv, Served, Paging
               PROVE  /\ \A s, t \in S : s # t => T(s) # T(t)
                      /\ \A i, j \in 1 .. Len(backing) : i # j => backing[i] # backing[j]
                      /\ \A s \in S, i \in 1 .. Len(backing) : T(s) # backing[i]
                      /\ {T(s) : s \in S} \cup {backing[i] : i \in 1 .. Len(backing)} \subseteq held
    BY DEF FramesApart
  <2>1. Tables /\ Distinct
    BY DEF IInv, Good, Apart
  <2>2. Row(cr3) = mem[cr3]
    BY <2>1 DEF Tables, Row
  <2>3. T(0) = first_page_table /\ T(VMM_RECURSIVE_SLOT) = cr3
    BY <2>1, <2>2 DEF Tables, Entry
  <2>4. \A s \in S : s \in {0, VMM_RECURSIVE_SLOT} \/ s \in Tabled
    <3> SUFFICES ASSUME NEW s \in HEAP_SLOT .. VMM_RECURSIVE_SLOT, mem[cr3][s].frame # None,
                        s # VMM_RECURSIVE_SLOT, s \notin Tabled
                 PROVE  FALSE
      BY <2>2
    <3>1. s \in Index \ {0, KERNEL_SLOT, VMM_RECURSIVE_SLOT}
      BY Slots DEF Index
    <3> QED
      BY <2>1, <3>1 DEF Tables, Null, Entry
  <2>5. \A s \in Tabled : T(s) = Table(s) /\ Table(s) \in held
    <3>1. \A s \in Tabled : s \in Index \ {0, KERNEL_SLOT, VMM_RECURSIVE_SLOT}
      BY Slots DEF Tabled, Index
    <3> QED
      BY <2>1, <2>2, <3>1 DEF Tables, Table
  <2>6. cr3 \in held /\ first_page_table \in held /\ cr3 # first_page_table
    BY <2>1 DEF Tables, Distinct
  <2> HIDE DEF T, S
  <2>7. \A s, t \in S : s # t => T(s) # T(t)
    BY <2>1, <2>3, <2>4, <2>5, <2>6 DEF Distinct
  <2>8. \A s \in S, i \in 1 .. Len(backing) : T(s) # backing[i]
    BY <2>1, <2>3, <2>4, <2>5 DEF Distinct
  <2>9. \A s \in S : T(s) \in held
    BY <2>3, <2>4, <2>5, <2>6
  <2>10. \A i \in 1 .. Len(backing) : backing[i] \in held
    BY <2>1 DEF Distinct
  <2>11. \A i, j \in 1 .. Len(backing) : i # j => backing[i] # backing[j]
    BY <2>1 DEF Distinct
  <2> QED
    BY <2>7, <2>8, <2>9, <2>10, <2>11
<1> QED
  BY <1>1, Inductive, PTL

\* What the TLB holds of the kernel, the tables or the heap is what the tables say.
THEOREM TlbCoherentCorrect == Spec => []TlbCoherent
<1>1. IInv => TlbCoherent
  <2> SUFFICES ASSUME IInv, Served
               PROVE  Coherent
    BY DEF TlbCoherent, Coherent, Fresh
  <2>1. CASE Paging
    BY <2>1 DEF IInv, Good
  <2>2. CASE ~Paging
    BY <2>2 DEF IInv, Start, Starting, Served, Paging, Base, TypeOK, Coherent
  <2> QED
    BY <2>1, <2>2
<1> QED
  BY <1>1, Inductive, PTL

\* vmm_init clears its two pages through the identity mapping of boot.S, which ends at
\* the last page of the first table: the first free page has to lie below it.
LowFirst ==
    pc \in {"vmm_init", "vmm_init_table"} =>
        \A i \in P!FreeBlocks : (\A j \in P!FreeBlocks : i <= j) => i \in Index

Available(k) == mmap[k].type = "available"

\* The pages that pmm_init makes of an entry of the memory map.
Pages(k) ==
    mmap[k].addr \div PAGE_SIZE .. mmap[k].addr \div PAGE_SIZE + mmap[k].len \div PAGE_SIZE - 1

\* How far pmm_init and vmm_init came: entries that the first walk has passed end below the
\* highest address, those that the second walk has passed are free, and of the low pages
\* vmm_init has taken one at most when it asks for its second.
LowFree ==
    /\ pc \notin {"pmm_init", "lost"} => phase = "run"
    /\ phase = "scan" =>
         \A k \in 1 .. entry - 1 : Available(k) => mmap[k].addr + mmap[k].len <= highest
    /\ phase = "free" =>
         /\ \A k \in 1 .. Len(mmap) : Available(k) => Pages(k) \subseteq P!Blocks
         /\ \A k \in 1 .. entry - 1 : Available(k) => Pages(k) \cap pmm_bitmap = {}
    /\ pc = "vmm_init" => Low(mmap) \subseteq P!FreeBlocks
    /\ pc = "vmm_init_table" => \E a : Low(mmap) \ {a} \subseteq P!FreeBlocks

LEMMA EntryPages ==
    ASSUME PP!TypeOK, NEW k \in 1 .. Len(mmap)
    PROVE  /\ mmap[k].addr \in Nat /\ mmap[k].len \in Nat
           /\ mmap[k].addr \div PAGE_SIZE \in Nat /\ mmap[k].len \div PAGE_SIZE \in Nat
<1>1. mmap[k] \in PP!MapEntry
  BY PmmConstants DEF PP!MapsAssumption, PP!TypeOK
<1>2. mmap[k].addr \in Nat /\ mmap[k].len \in Nat
  BY <1>1 DEF PP!MapEntry
<1> QED
  BY <1>2, DivMod, Slots

LEMMA ScanLow ==
    ASSUME PP!TypeOK, LowFree, P!pmm_init_scan, pc = "pmm_init", pc' = pc
    PROVE  LowFree'
<1>1. /\ phase = "scan" /\ phase' = "scan" /\ mmap' = mmap /\ entry' = entry + 1
      /\ entry \in Nat /\ entry <= Len(mmap) /\ Len(mmap) \in Nat /\ entry > 0
      /\ highest \in Nat
  <2>1. mmap \in Seq(PP!MapEntry)
    BY PmmConstants DEF PP!MapsAssumption, PP!TypeOK
  <2> QED
    BY <2>1 DEF P!pmm_init_scan, PP!TypeOK
<1>2. \A k \in 1 .. entry : mmap[k].addr \in Nat /\ mmap[k].len \in Nat
  BY <1>1, EntryPages
<1>3. highest' = IF mmap[entry].type = "available" /\ mmap[entry].addr + mmap[entry].len > highest
                   THEN mmap[entry].addr + mmap[entry].len ELSE highest
  BY DEF P!pmm_init_scan
<1>4. \A k \in 1 .. entry : Available(k) => mmap[k].addr + mmap[k].len <= highest'
  <2> SUFFICES ASSUME NEW k \in 1 .. entry, Available(k)
               PROVE  mmap[k].addr + mmap[k].len <= highest'
    OBVIOUS
  <2>1. mmap[k].addr \in Nat /\ mmap[k].len \in Nat
    BY <1>2
  <2>2. CASE k = entry
    BY <1>1, <1>3, <2>1, <2>2 DEF Available
  <2>3. CASE k # entry
    <3>1. k \in 1 .. entry - 1
      BY <1>1, <2>3
    <3>2. mmap[k].addr + mmap[k].len <= highest
      BY <1>1, <3>1 DEF LowFree
    <3>3. entry \in 1 .. entry
      BY <1>1
    <3>4. mmap[entry].addr + mmap[entry].len \in Nat
      BY <1>2, <3>3
    <3>5. highest <= highest' /\ highest' \in Nat
      BY <1>1, <1>3, <3>4
    <3>6. mmap[k].addr + mmap[k].len \in Nat
      BY <2>1
    <3> QED
      BY <1>1, <3>2, <3>5, <3>6
  <2> QED
    BY <2>2, <2>3
<1>5. \A k : Available(k)' <=> Available(k)
  BY <1>1 DEF Available
<1>6. entry' - 1 = entry
  BY <1>1
<1>7. pc' = "pmm_init"
  OBVIOUS
<1> QED
  BY <1>1, <1>4, <1>5, <1>6, <1>7 DEF LowFree

\* Two lengths rounded down are together no longer than what both fit into.
LEMMA DivSum ==
    ASSUME NEW a \in Nat, NEW l \in Nat, NEW h \in Nat, NEW p \in Nat, p > 0, a + l <= h
    PROVE  a \div p + l \div p <= h \div p
<1>1. PICK s, n, t \in Nat : s = a \div p /\ n = l \div p /\ t = h \div p
  BY DivMod
<1>2. s * p \in Nat /\ n * p \in Nat /\ t * p \in Nat
  BY <1>1
<1>3. s * p <= a /\ n * p <= l
  <2>1. a % p \in Nat /\ l % p \in Nat /\ a = s * p + (a % p) /\ l = n * p + (l % p)
    BY <1>1, DivMod
  <2> QED
    BY <1>2, <2>1
<1>4. h < t * p + p
  <2>1. h % p \in 0 .. p - 1 /\ h = t * p + (h % p)
    BY <1>1, DivMod
  <2> QED
    BY <1>2, <2>1
<1>5. ASSUME t + 1 <= s + n
      PROVE  FALSE
  <2>1. (t + 1) * p <= (s + n) * p
    BY <1>1, <1>5
  <2>2. (t + 1) * p = t * p + p /\ (s + n) * p = s * p + n * p
    BY <1>1
  <2> QED
    BY <1>2, <1>3, <1>4, <2>1, <2>2
<1>6. s + n <= t
  BY <1>1, <1>5
<1> QED
  BY <1>1, <1>6

LEMMA SizeLow ==
    ASSUME PP!TypeOK, LowFree, P!pmm_init_size, pc = "pmm_init", pc' = pc
    PROVE  LowFree'
<1>1. /\ phase = "scan" /\ phase' = "free" /\ mmap' = mmap /\ entry' = 1
      /\ entry \in Nat /\ entry > Len(mmap) /\ Len(mmap) \in Nat /\ highest \in Nat
      /\ pmm_max_blocks' = highest \div PAGE_SIZE
  <2>1. mmap \in Seq(PP!MapEntry)
    BY PmmConstants DEF PP!MapsAssumption, PP!TypeOK
  <2> QED
    BY <2>1 DEF P!pmm_init_size, PP!TypeOK
<1>2. ASSUME NEW k \in 1 .. Len(mmap), Available(k)
      PROVE  Pages(k) \subseteq P!Blocks'
  <2>1. k \in 1 .. entry - 1
    BY <1>1
  <2>2. mmap[k].addr + mmap[k].len <= highest
    BY <1>1, <1>2, <2>1 DEF LowFree
  <2>3. PICK a, n, h \in Nat :
          /\ a = mmap[k].addr \div PAGE_SIZE /\ n = mmap[k].len \div PAGE_SIZE
          /\ h = highest \div PAGE_SIZE /\ a + n <= h
    <3>1. mmap[k].addr \in Nat /\ mmap[k].len \in Nat
      BY EntryPages
    <3>2. highest \div PAGE_SIZE \in Nat
      BY <1>1, DivMod, Slots
    <3>3. mmap[k].addr \div PAGE_SIZE + mmap[k].len \div PAGE_SIZE <= highest \div PAGE_SIZE
      BY <1>1, <2>2, <3>1, DivSum, Slots
    <3> QED
      BY <3>2, <3>3, EntryPages
  <2>4. Pages(k) = a .. a + n - 1
    BY <2>3 DEF Pages
  <2>5. P!Blocks' = 0 .. h - 1
    BY <1>1, <2>3 DEF P!Blocks
  <2>6. a .. a + n - 1 \subseteq 0 .. h - 1
    <3>1. a \in Nat /\ n \in Nat /\ h \in Nat /\ a + n <= h
      BY <2>3
    <3> QED
      BY <3>1
  <2> QED
    BY <2>4, <2>5, <2>6
<1>3. \A k : (Available(k)' <=> Available(k)) /\ Pages(k)' = Pages(k)
  BY <1>1 DEF Available, Pages
<1>4. pc' = "pmm_init"
  OBVIOUS
<1>5. 1 .. entry' - 1 = {}
  BY <1>1
<1> QED
  BY <1>1, <1>2, <1>3, <1>4, <1>5 DEF LowFree

LEMMA FreeLow ==
    ASSUME PP!TypeOK, LowFree, P!pmm_init_free, pc = "pmm_init", pc' = pc
    PROVE  LowFree'
<1>1. /\ phase = "free" /\ phase' = "free" /\ mmap' = mmap /\ entry' = entry + 1
      /\ entry \in Nat /\ entry <= Len(mmap) /\ Len(mmap) \in Nat /\ entry > 0
      /\ pmm_max_blocks' = pmm_max_blocks
  <2>1. mmap \in Seq(PP!MapEntry)
    BY PmmConstants DEF PP!MapsAssumption, PP!TypeOK
  <2> QED
    BY <2>1 DEF P!pmm_init_free, PP!TypeOK
<1>2. /\ pmm_bitmap' \subseteq pmm_bitmap
      /\ Available(entry) => pmm_bitmap' \cap P!RegionBlocks(mmap[entry]) = {}
  BY DEF P!pmm_init_free, Available
<1>3. \A k \in 1 .. Len(mmap) : Available(k) => Pages(k) \subseteq P!Blocks
  BY <1>1 DEF LowFree
<1>4. Available(entry) => Pages(entry) \subseteq P!RegionBlocks(mmap[entry])
  <2> SUFFICES ASSUME Available(entry), NEW b \in Pages(entry)
               PROVE  b \in P!RegionBlocks(mmap[entry])
    OBVIOUS
  <2>1. entry \in 1 .. Len(mmap)
    BY <1>1
  <2>2. b \in P!Blocks
    BY <1>3, <2>1
  <2>3. /\ mmap[entry].addr \div PAGE_SIZE \in Nat /\ mmap[entry].len \div PAGE_SIZE \in Nat
    BY <2>1, EntryPages
  <2>4. /\ b >= mmap[entry].addr \div PAGE_SIZE
        /\ b < mmap[entry].addr \div PAGE_SIZE + mmap[entry].len \div PAGE_SIZE
    BY <2>3 DEF Pages
  <2> QED
    BY <2>2, <2>4 DEF P!RegionBlocks
<1>5. ASSUME NEW k \in 1 .. entry, Available(k)
      PROVE  Pages(k) \cap pmm_bitmap' = {}
  <2>1. CASE k = entry
    BY <1>2, <1>4, <1>5, <2>1
  <2>2. CASE k # entry
    <3>1. k \in 1 .. entry - 1
      BY <1>1, <2>2
    <3>2. Pages(k) \cap pmm_bitmap = {}
      BY <1>1, <1>5, <3>1 DEF LowFree
    <3> QED
      BY <1>2, <3>2
  <2> QED
    BY <2>1, <2>2
<1>6. /\ \A k : (Available(k)' <=> Available(k)) /\ Pages(k)' = Pages(k)
      /\ P!Blocks' = P!Blocks
  BY <1>1 DEF Available, Pages, P!Blocks
<1>7. pc' = "pmm_init" /\ entry' - 1 = entry
  BY <1>1
<1> QED
  BY <1>1, <1>3, <1>5, <1>6, <1>7 DEF LowFree

\* The pages that pmm_init takes back end below the low pages behind the kernel.
LEMMA RelockBelow ==
    ASSUME Memory, NEW b \in Low(mmap)
    PROVE  b \notin P!KernelBlocks
<1> DEFINE size == P!BitmapSize
           first == KernelStart \div PAGE_SIZE
           last == (KernelEnd + size + PAGE_SIZE - 1) \div PAGE_SIZE
<1>1. b \in Nat /\ (b < first \/ KernelEnd + HEAP_AREA \div 8 + 1 <= b * PAGE_SIZE)
  BY Slots DEF Low, Index, BootDirectory
<1>2. size \in Nat /\ size <= HEAP_AREA \div 8 + 1 /\ HEAP_AREA \div 8 \in Nat
  <2>1. pmm_max_blocks \in Nat /\ pmm_max_blocks <= HEAP_AREA /\ HEAP_AREA \in Nat
    BY HeapArea DEF Memory
  <2>2. /\ pmm_max_blocks \div 8 \in Nat /\ HEAP_AREA \div 8 \in Nat
        /\ pmm_max_blocks \div 8 <= HEAP_AREA \div 8
    BY <2>1
  <2>3. size = pmm_max_blocks \div 8 \/ size = pmm_max_blocks \div 8 + 1
    BY <2>2 DEF P!BitmapSize
  <2> HIDE DEF size
  <2> QED
    BY <2>2, <2>3
<1>3. KernelEnd \in Nat /\ first \in Nat /\ PAGE_SIZE \in Nat /\ PAGE_SIZE > 0
  BY ImageAssumption, ImageFacts, Slots DEF BootDirectory
<1> HIDE DEF size, first
<1>4. last \in Nat /\ last * PAGE_SIZE <= KernelEnd + size + PAGE_SIZE - 1 /\ last * PAGE_SIZE \in Nat
  <2>1. PICK x \in Nat : x = KernelEnd + size + PAGE_SIZE - 1
    BY <1>2, <1>3
  <2>2. x \div PAGE_SIZE \in Nat /\ x % PAGE_SIZE \in Nat
        /\ x = (x \div PAGE_SIZE) * PAGE_SIZE + (x % PAGE_SIZE)
    BY <1>3, DivMod
  <2>3. (x \div PAGE_SIZE) * PAGE_SIZE \in Nat
    BY <1>3, <2>2
  <2> QED
    BY <2>1, <2>2, <2>3
<1> HIDE DEF last
<1>5. P!KernelBlocks = first .. last - 1
  BY DEF P!KernelBlocks, first, last, size
<1>6. ASSUME KernelEnd + HEAP_AREA \div 8 + 1 <= b * PAGE_SIZE, b + 1 <= last
      PROVE  FALSE
  <2>1. (b + 1) * PAGE_SIZE <= last * PAGE_SIZE
    BY <1>1, <1>3, <1>4, <1>6
  <2>2. (b + 1) * PAGE_SIZE = b * PAGE_SIZE + PAGE_SIZE /\ b * PAGE_SIZE \in Nat
    BY <1>1, <1>3
  <2> QED
    BY <1>2, <1>3, <1>4, <1>6, <2>1, <2>2
<1> QED
  BY <1>1, <1>3, <1>4, <1>5, <1>6

LEMMA RelockLow ==
    ASSUME PP!TypeOK, Memory, LowFree, P!pmm_init_relock, pc' = "vmm_init"
    PROVE  LowFree'
<1>1. /\ phase = "free" /\ phase' = "run" /\ mmap' = mmap
      /\ entry \in Nat /\ entry > Len(mmap) /\ Len(mmap) \in Nat
      /\ pmm_max_blocks' = pmm_max_blocks
      /\ pmm_bitmap' \subseteq pmm_bitmap \cup P!KernelBlocks
  <2>1. mmap \in Seq(PP!MapEntry)
    BY PmmConstants DEF PP!MapsAssumption, PP!TypeOK
  <2> QED
    BY <2>1 DEF P!pmm_init_relock, PP!TypeOK
<1>2. ASSUME NEW b \in Low(mmap)
      PROVE  b \in P!FreeBlocks'
  <2>1. PICK k \in 1 .. Len(mmap) : Available(k) /\ b \in Pages(k)
    BY DEF Low, Available, Pages
  <2>2. b \in P!Blocks
    BY <1>1, <2>1 DEF LowFree
  <2>3. k \in 1 .. entry - 1
    BY <1>1
  <2>4. b \notin pmm_bitmap
    BY <1>1, <2>1, <2>3 DEF LowFree
  <2>5. b \notin P!KernelBlocks
    BY RelockBelow
  <2>6. P!Blocks' = P!Blocks
    BY <1>1 DEF P!Blocks
  <2> QED
    BY <1>1, <2>2, <2>4, <2>5, <2>6 DEF P!FreeBlocks
<1>3. Low(mmap)' = Low(mmap)
  BY <1>1 DEF Low
<1> QED
  BY <1>1, <1>2, <1>3 DEF LowFree

LEMMA AllocLow ==
    ASSUME LowFree, P!pmm_alloc_page, pc # "pmm_init", pc' # "pmm_init", pc' # "vmm_init",
           pc' = "vmm_init_table" => pc = "vmm_init"
    PROVE  LowFree'
<1>1. phase = "run" /\ phase' = "run" /\ mmap' = mmap /\ pmm_max_blocks' = pmm_max_blocks
  BY DEF P!pmm_alloc_page
<1>2. \E a : P!FreeBlocks \ {a} \subseteq P!FreeBlocks'
  <2>1. P!Blocks' = P!Blocks
    BY <1>1 DEF P!Blocks
  <2>2. CASE P!FreeBlocks = {}
    BY <2>2
  <2>3. CASE \E i \in P!FreeBlocks : pmm_bitmap' = pmm_bitmap \cup {i}
    BY <2>1, <2>3 DEF P!FreeBlocks
  <2> QED
    BY <2>2, <2>3 DEF P!pmm_alloc_page
<1>3. Low(mmap)' = Low(mmap)
  BY <1>1 DEF Low
<1>4. ASSUME pc = "vmm_init"
      PROVE  \E a : Low(mmap) \ {a} \subseteq P!FreeBlocks'
  BY <1>2, <1>4 DEF LowFree
<1> QED
  BY <1>1, <1>3, <1>4 DEF LowFree

LEMMA LowFreeStep ==
    ASSUME PP!TypeOK, Memory, LowFree, [Next]_vars
    PROVE  LowFree'
<1>1. ASSUME UNCHANGED frames, pc' \in {pc, "lost"} \/ pc \notin {"pmm_init", "lost"},
             pc' \in {"vmm_init", "vmm_init_table"} => pc' = pc
      PROVE  LowFree'
  <2>1. /\ P!FreeBlocks' = P!FreeBlocks /\ Low(mmap)' = Low(mmap) /\ P!Blocks' = P!Blocks
        /\ \A k : (Available(k)' <=> Available(k)) /\ Pages(k)' = Pages(k)
    BY <1>1 DEF frames, P!FreeBlocks, P!Blocks, Low, Available, Pages
  <2> QED
    BY <1>1, <2>1 DEF LowFree, frames
<1>3. CASE pmm_init
  <2>1. pc = "pmm_init"
    BY <1>3 DEF pmm_init, At
  <2>2. CASE P!pmm_init_scan
    <3>1. pc' = pc
      BY <1>3, <2>2 DEF pmm_init, P!pmm_init_scan
    <3> QED
      BY <2>1, <2>2, <3>1, ScanLow
  <2>3. CASE P!pmm_init_size
    <3>1. pc' = pc
      BY <1>3, <2>3 DEF pmm_init, P!pmm_init_size
    <3> QED
      BY <2>1, <2>3, <3>1, SizeLow
  <2>4. CASE P!pmm_init_free
    <3>1. pc' = pc
      BY <1>3, <2>4 DEF pmm_init, P!pmm_init_free
    <3> QED
      BY <2>1, <2>4, <3>1, FreeLow
  <2>5. CASE P!pmm_init_relock
    <3>1. pc' = "vmm_init"
      BY <1>3, <2>5 DEF pmm_init, P!pmm_init_relock
    <3> QED
      BY <2>5, <3>1, RelockLow
  <2> QED
    BY <1>3, <2>2, <2>3, <2>4, <2>5 DEF pmm_init
<1>4. CASE vmm_init_directory
  BY <1>4, AllocLow DEF vmm_init_directory, At, StorePage
<1>5. CASE vmm_init_table
  BY <1>5, AllocLow DEF vmm_init_table, At, StorePage
<1>6. CASE kheap_expand
  BY <1>6, AllocLow DEF kheap_expand, At
<1>7. CASE vmm_map_table
  BY <1>1, <1>7, AllocLow DEF vmm_map_table, At, StorePage
<1>8. CASE vmm_init_entries \/ vmm_map_clear \/ vmm_map_entry
  BY <1>1, <1>8 DEF vmm_init_entries, vmm_map_clear, vmm_map_entry, At, StorePage
<1>9. CASE vmm_init_cr3 \/ kheap_init \/ kmalloc_grows \/ kheap_expand_done
  BY <1>1, <1>9 DEF vmm_init_cr3, kheap_init, kmalloc_grows, kheap_expand_done, Request, At
<1>10. CASE invlpg
  BY <1>1, <1>10 DEF invlpg, At, frames
<1>11. CASE fault
  BY <1>1, <1>11 DEF fault
<1>12. CASE tlb_fill \/ stopped \/ UNCHANGED vars
  BY <1>1, <1>12 DEF tlb_fill, stopped, vars
<1> QED
  BY <1>3, <1>4, <1>5, <1>6, <1>7, <1>8, <1>9, <1>10, <1>11, <1>12 DEF Next

\* With two low pages in every memory map, vmm_init gets pages that it can reach.
LEMMA LowFirstCorrect ==
    ASSUME LowMemory
    PROVE  Spec => []LowFirst
<1>1. Init => LowFree
  BY DEF Init, P!Init, LowFree
<1>2. PP!TypeOK /\ Memory /\ LowFree /\ [Next]_vars => LowFree'
  BY LowFreeStep
<1>3. PP!TypeOK /\ LowFree => LowFirst
  <2> SUFFICES ASSUME PP!TypeOK, LowFree, pc \in {"vmm_init", "vmm_init_table"},
                      NEW i \in P!FreeBlocks, \A j \in P!FreeBlocks : i <= j
               PROVE  i \in Index
    BY DEF LowFirst
  <2>1. PICK a, b \in Low(mmap) : a # b
    BY DEF LowMemory, PP!TypeOK
  <2>2. PICK c \in Low(mmap) : c \in P!FreeBlocks
    BY <2>1 DEF LowFree
  <2>3. c \in Index /\ i <= c
    BY <2>2 DEF Low
  <2>4. i \in Nat
    BY DEF P!FreeBlocks, P!Blocks, PP!TypeOK
  <2> QED
    BY <2>3, <2>4, Slots DEF Index
<1>4. PP!Spec => []PP!TypeOK
  BY PP!TypeCorrect, PmmConstants
<1> QED
  BY <1>1, <1>2, <1>3, <1>4, UsesPmmProofs, MemoryInvariant, PTL DEF Spec

LEMMA CodeReach ==
    ASSUME IInv, Memory, Served
    PROVE  Reach(KernelCode) # None
<1>1. CASE ~Paging
  BY <1>1, StartCode DEF IInv, Starting, Served, Paging, Base, TypeOK
<1>2. CASE Paging
  <2>1. BootDirectory + 2 \in Index
    BY ImageFacts, Slots DEF Index
  <2>2. /\ KernelCode \in Addresses
        /\ KernelCode \div ENTRIES = KERNEL_SLOT /\ KernelCode % ENTRIES = BootDirectory + 2
    BY <2>1, ImageFacts, PageInRange, Slots
  <2>3. KernelCode \notin Unused
    <3>1. KERNEL_SLOT \notin HEAP_SLOT .. VMM_RECURSIVE_SLOT - 1
      BY Slots
    <3>2. KernelCode \notin HeapStart .. Window(0) - 1
      BY <2>2, <3>1, HeapSlot, AddressParts
    <3> QED
      BY <3>2, HeapEnd, HeapArea DEF IInv, Unused
  <2>4. WalkEntry(KernelCode) = Entry(BootDirectory + 2, TRUE)
    <3>1. WalkEntry(KernelCode) = Settled(KernelCode)
      BY <1>2, <2>2, <2>3, WalkEntrySettled
    <3> QED
      BY <2>2, <3>1 DEF Settled
  <2>5. Walk(KernelCode) = BootDirectory + 2
    BY <2>4 DEF Walk, Entry
  <2>6. Reach(KernelCode) = Walk(KernelCode)
    BY <1>2, <2>3 DEF Reach, IInv, Good, Coherent, Fresh, Unused
  <2> QED
    BY <2>5, <2>6, ImageFacts DEF None
<1> QED
  BY <1>1, <1>2

\* No access of a kernel that is served goes to an address without a mapping.
LEMMA StopStep ==
    ASSUME IInv, IInv', Memory, LowFirst, StopsOnlyWhenFull, [Next]_vars
    PROVE  StopsOnlyWhenFull'
<1> SUFFICES ASSUME pc' \in {"panic", "lost"}
             PROVE  P!FreeBlocks' = {}
  BY DEF StopsOnlyWhenFull
<1>1. CASE UNCHANGED <<frames, pc>>
  <2>1. P!FreeBlocks' = P!FreeBlocks
    BY <1>1 DEF frames, P!FreeBlocks, P!Blocks
  <2> QED
    BY <1>1, <2>1 DEF StopsOnlyWhenFull
<1>2. CASE pmm_init
  BY <1>2 DEF pmm_init, At
<1>3. ASSUME P!pmm_alloc_page, pc \in {"vmm_init", "vmm_init_table"}, Start, NEW row, NEW next,
             StorePage(ret' \div PAGE_SIZE, row, next), next \notin {"panic", "lost"}
      PROVE  FALSE
  <2>1. Reach(ret' \div PAGE_SIZE) = None
    BY <1>3 DEF StorePage
  <2>2. PICK v \in Index : v = ret' \div PAGE_SIZE
    <3>1. 0 \div PAGE_SIZE = 0 /\ 0 \in Index
      BY Slots
    <3> QED
      BY <1>3, <3>1, AllocEffect DEF LowFirst, P!nullptr
  <2>3. Reach(v) = v
    BY <1>3, LowReach DEF Starting
  <2> QED
    BY <2>1, <2>2, <2>3 DEF Index, None
<1>4. CASE vmm_init_directory
  BY <1>3, <1>4 DEF vmm_init_directory, At, IInv
<1>5. CASE vmm_init_table
  BY <1>3, <1>5 DEF vmm_init_table, At, IInv
<1>6. CASE vmm_init_entries
  <2>1. PICK d \in Index : d = kernel_directory
    BY <1>6 DEF vmm_init_entries, At, IInv, Start, Starting
  <2>2. Reach(d) = d /\ d # None
    BY <1>6, <2>1, LowReach DEF vmm_init_entries, At, IInv, Starting, Index, None
  <2> QED
    BY <1>6, <2>1, <2>2 DEF vmm_init_entries, StorePage
<1>7. CASE vmm_init_cr3 \/ kheap_init \/ kmalloc_grows \/ kheap_expand_done \/ invlpg
  BY <1>7 DEF vmm_init_cr3, kheap_init, kmalloc_grows, kheap_expand_done, Request, invlpg
<1>8. CASE kheap_expand
  <2>1. ret' = P!nullptr /\ P!pmm_alloc_page /\ pc' = "panic"
    BY <1>8 DEF kheap_expand
  <2> QED
    BY <2>1 DEF IInv, Base, Paging, P!nullptr
<1>9. ASSUME ret # P!nullptr, Paging, pc \notin {"panic", "lost"}
      PROVE  /\ Tables /\ Coherent /\ Reach(VMM_PAGE_DIRECTORY) # None
             /\ Reach(KernelCode) # None
  <2>1. Served
    BY <1>9 DEF Served
  <2>2. Tables /\ Coherent
    BY <1>9, <2>1 DEF IInv, Good
  <2>3. mem[cr3][VMM_RECURSIVE_SLOT].frame # None
    BY <2>2, HeldFinite DEF Tables, Entry, None
  <2>4. Reach(Window(VMM_RECURSIVE_SLOT)) # None
    BY <2>2, <2>3, WindowReach, Slots DEF IInv
  <2>5. VMM_PAGE_DIRECTORY = Window(VMM_RECURSIVE_SLOT)
    BY DEF VMM_PAGE_DIRECTORY, Window
  <2> QED
    BY <2>1, <2>2, <2>4, <2>5, CodeReach
<1>10. ASSUME ret = P!nullptr, Paging, UNCHANGED frames
       PROVE  P!FreeBlocks' = {}
  BY <1>10 DEF IInv, Base, frames, P!FreeBlocks, P!Blocks
<1>11. CASE vmm_map_table
  <2>1. pc = "map" /\ Paging
    BY <1>11 DEF vmm_map_table, At, Paging
  <2>2. CASE ret = P!nullptr
    <3>1. P!FreeBlocks = {}
      BY <2>1, <2>2 DEF IInv, Base
    <3>2. CASE UNCHANGED frames
      BY <1>10, <2>1, <2>2, <3>2
    <3>3. CASE P!pmm_alloc_page
      BY <3>1, <3>3, AllocEffect
    <3> QED
      BY <1>11, <3>2, <3>3 DEF vmm_map_table
  <2>3. CASE ret # P!nullptr
    <3>1. Reach(VMM_PAGE_DIRECTORY) # None
      BY <1>9, <2>1, <2>3
    <3> QED
      BY <1>11, <3>1 DEF vmm_map_table, StorePage
  <2> QED
    BY <2>2, <2>3
<1>12. CASE vmm_map_clear \/ vmm_map_entry
  <2>1. pc \in {"clear", "entry"} /\ Paging /\ UNCHANGED frames
    BY <1>12 DEF vmm_map_clear, vmm_map_entry, At, Paging
  <2>2. CASE ret # P!nullptr
    <3>1. Reach(Window(pd_index)) # None
      BY <2>1, <2>2, MapFacts DEF None
    <3> QED
      BY <1>12, <3>1 DEF vmm_map_clear, vmm_map_entry, StorePage
  <2> QED
    BY <1>10, <2>1, <2>2
<1>13. CASE fault
  <2>1. pc \notin {"panic", "lost"} /\ Reach(KernelCode) = None /\ UNCHANGED frames
    BY <1>13 DEF fault
  <2>2. CASE Paging
    BY <1>9, <1>10, <2>1, <2>2
  <2>3. CASE ~Paging
    BY <2>1, <2>3, CodeReach DEF Served
  <2> QED
    BY <2>2, <2>3
<1>14. CASE tlb_fill \/ stopped \/ UNCHANGED vars
  BY <1>1, <1>14 DEF tlb_fill, stopped, vars
<1> QED
  BY <1>2, <1>4, <1>5, <1>6, <1>7, <1>8, <1>11, <1>12, <1>13, <1>14 DEF Next

\* On a machine with two free pages where vmm_init can reach them, the kernel
\* stops only when no page is left: page 0 is never taken for exhaustion and no
\* access goes to an address without a mapping.
THEOREM StopsOnlyWhenFullCorrect ==
    ASSUME LowMemory
    PROVE  Spec => []StopsOnlyWhenFull
<1>1. Init => StopsOnlyWhenFull
  BY DEF Init, StopsOnlyWhenFull
<1>2. /\ IInv /\ IInv' /\ Memory /\ LowFirst /\ StopsOnlyWhenFull /\ [Next]_vars
      => StopsOnlyWhenFull'
  BY StopStep
<1> QED
  BY <1>1, <1>2, Inductive, MemoryInvariant, LowFirstCorrect, PTL DEF Spec
============================================================================
