-------------------------------- MODULE Pmm --------------------------------
(***************************************************************************)
(* The physical memory manager, kernel/arch/i386/mm/pmm.cpp: a bitmap with *)
(* one bit per page frame, filled from the multiboot memory map by         *)
(* pmm_init and then used by pmm_alloc_page and pmm_free_page.             *)
(*                                                                         *)
(* The bitmap is the set of the pages whose bit is set.  pmm_init walks    *)
(* the map twice; each round of either loop is one step, so the invariants *)
(* are also claimed half way through the walk.  The 64-bit values of the   *)
(* first walk do not wrap; the 32-bit address that pmm_alloc_page returns  *)
(* does, at ADDR_SPACE (2^32 in the code).                                 *)
(***************************************************************************)
EXTENDS Integers, FiniteSets, Sequences

CONSTANTS
    PAGE_SIZE,      \* pmm.h: 4096
    ADDR_SPACE,     \* 2^32, the range of a void*
    KernelStart,    \* _kernel_start - KERNEL_VIRT_BASE
    KernelEnd,      \* _kernel_end - KERNEL_VIRT_BASE
    BootMaps,       \* the memory maps the boot loader may pass
    ModStart,       \* mod_start of the boot module that holds the initrd
    ModEnd          \* its mod_end

MapEntry == [type : {"available", "reserved"}, addr : Nat, len : Nat]

ASSUME PageAssumption == PAGE_SIZE \in Nat \ {0}
ASSUME AddrAssumption == ADDR_SPACE \in Nat \ {0}
ASSUME KernelAssumption ==
    KernelStart \in Nat /\ KernelEnd \in Nat /\ KernelStart <= KernelEnd
ASSUME ModuleAssumption == ModStart \in Nat /\ ModEnd \in Nat
ASSUME MapsAssumption == BootMaps \subseteq Seq(MapEntry)

VARIABLES
    phase,              \* where pmm_init is: "scan" or "free" (first, second walk); then "run"
    mmap,               \* the memory map at mmap_addr
    entry,              \* the index of the map entry the loop is at
    highest,            \* highest_physical_addr
    pmm_bitmap,         \* the pages whose bit is set
    pmm_max_blocks,
    pmm_used_blocks,
    ret,                \* what the last pmm_alloc_page returned
    held                \* history: the pages handed out and not given back

vars == <<phase, mmap, entry, highest, pmm_bitmap, pmm_max_blocks,
          pmm_used_blocks, ret, held>>

nullptr == 0

Blocks == 0 .. pmm_max_blocks - 1

\* The void* that stands for page i.
PhysAddr(i) == (i * PAGE_SIZE) % ADDR_SPACE

BitmapSize == pmm_max_blocks \div 8 + (IF pmm_max_blocks % 8 # 0 THEN 1 ELSE 0)

\* The pages from _kernel_start to the end of the bitmap, rounded up.
KernelBlocks ==
    (KernelStart \div PAGE_SIZE)
        .. ((KernelEnd + BitmapSize + PAGE_SIZE - 1) \div PAGE_SIZE) - 1

\* Mutant: the length of a region is rounded up.
RegionBlocks_RoundUp(e) ==
    {b \in Blocks :
        /\ b >= e.addr \div PAGE_SIZE
        /\ b < e.addr \div PAGE_SIZE + (e.len + PAGE_SIZE - 1) \div PAGE_SIZE}

\* The pages one entry of the map releases: both divisions round down.
RegionBlocks(e) ==
    {b \in Blocks :
        /\ b >= e.addr \div PAGE_SIZE
        /\ b < e.addr \div PAGE_SIZE + e.len \div PAGE_SIZE}

FreeBlocks == Blocks \ pmm_bitmap

pmm_get_free_memory ==
    ((pmm_max_blocks - pmm_used_blocks) * PAGE_SIZE) % ADDR_SPACE

pmm_get_total_memory == (pmm_max_blocks * PAGE_SIZE) % ADDR_SPACE
----------------------------------------------------------------------------
Init ==
    /\ phase = "scan"
    /\ mmap \in BootMaps
    /\ entry = 1
    /\ highest = 0
    /\ pmm_bitmap = {}
    /\ pmm_max_blocks = 0
    /\ pmm_used_blocks = 0
    /\ ret = nullptr
    /\ held = {}

\* First walk: the highest end of an available region.
pmm_init_scan ==
    /\ phase = "scan"
    /\ entry <= Len(mmap)
    /\ LET e == mmap[entry] IN
         highest' = IF e.type = "available" /\ e.addr + e.len > highest
                      THEN e.addr + e.len ELSE highest
    /\ entry' = entry + 1
    /\ UNCHANGED <<phase, mmap, pmm_bitmap, pmm_max_blocks, pmm_used_blocks,
                   ret, held>>

\* Mutant: one bit too many is set.
pmm_init_size_OffByOne ==
    /\ phase = "scan"
    /\ entry > Len(mmap)
    /\ pmm_max_blocks' = highest \div PAGE_SIZE
    /\ pmm_bitmap' = 0 .. pmm_max_blocks'
    /\ pmm_used_blocks' = pmm_max_blocks'
    /\ phase' = "free"
    /\ entry' = 1
    /\ UNCHANGED <<mmap, highest, ret, held>>

\* Size the bitmap and mark every page used.
pmm_init_size ==
    /\ phase = "scan"
    /\ entry > Len(mmap)
    /\ pmm_max_blocks' = highest \div PAGE_SIZE
    /\ pmm_bitmap' = 0 .. pmm_max_blocks' - 1
    /\ pmm_used_blocks' = pmm_max_blocks'
    /\ phase' = "free"
    /\ entry' = 1
    /\ UNCHANGED <<mmap, highest, ret, held>>

\* Mutant: the counter is decremented for bits that were clear already.
pmm_init_free_NoTest ==
    /\ phase = "free"
    /\ entry <= Len(mmap)
    /\ LET cleared == IF mmap[entry].type = "available"
                        THEN RegionBlocks(mmap[entry]) ELSE {}
       IN /\ pmm_bitmap' = pmm_bitmap \ cleared
          /\ pmm_used_blocks' = pmm_used_blocks - Cardinality(cleared)
    /\ entry' = entry + 1
    /\ UNCHANGED <<phase, mmap, highest, pmm_max_blocks, ret, held>>

\* Second walk: clear the bits of an available region that are still set.
pmm_init_free ==
    /\ phase = "free"
    /\ entry <= Len(mmap)
    /\ LET cleared == IF mmap[entry].type = "available"
                        THEN RegionBlocks(mmap[entry]) \cap pmm_bitmap ELSE {}
       IN /\ pmm_bitmap' = pmm_bitmap \ cleared
          /\ pmm_used_blocks' = pmm_used_blocks - Cardinality(cleared)
    /\ entry' = entry + 1
    /\ UNCHANGED <<phase, mmap, highest, pmm_max_blocks, ret, held>>

\* Mutant: the end of the bitmap is rounded down to a page.
pmm_init_relock_RoundDown ==
    /\ phase = "free"
    /\ entry > Len(mmap)
    /\ LET last == (KernelEnd + BitmapSize) \div PAGE_SIZE
           locked == ((KernelBlocks \cap Blocks) \ pmm_bitmap) \ {last}
       IN /\ pmm_bitmap' = pmm_bitmap \cup locked
          /\ pmm_used_blocks' = pmm_used_blocks + Cardinality(locked)
    /\ phase' = "run"
    /\ UNCHANGED <<mmap, entry, highest, pmm_max_blocks, ret, held>>

\* Mark the kernel image and the bitmap used again.
pmm_init_relock ==
    /\ phase = "free"
    /\ entry > Len(mmap)
    /\ LET locked == (KernelBlocks \cap Blocks) \ pmm_bitmap
       IN /\ pmm_bitmap' = pmm_bitmap \cup locked
          /\ pmm_used_blocks' = pmm_used_blocks + Cardinality(locked)
    /\ phase' = "run"
    /\ UNCHANGED <<mmap, entry, highest, pmm_max_blocks, ret, held>>

\* First fit; nullptr when the loop finds no clear bit.
pmm_alloc_page ==
    /\ phase = "run"
    /\ \/ /\ FreeBlocks = {}
          /\ ret' = nullptr
          /\ UNCHANGED <<pmm_bitmap, pmm_used_blocks, held>>
       \/ \E i \in FreeBlocks :
            /\ \A j \in FreeBlocks : i <= j
            /\ pmm_bitmap' = pmm_bitmap \cup {i}
            /\ pmm_used_blocks' = pmm_used_blocks + 1
            /\ held' = held \cup {i}
            /\ ret' = PhysAddr(i)
    /\ UNCHANGED <<phase, mmap, entry, highest, pmm_max_blocks>>

\* Mutant: the bit is not cleared.
pmm_free_page_NoUnset(ptr, given) ==
    /\ phase = "run"
    /\ UNCHANGED <<pmm_bitmap, pmm_used_blocks>>
    /\ held' = held \ given
    /\ UNCHANGED <<phase, mmap, entry, highest, pmm_max_blocks, ret>>

\* ptr is the argument, given the pages the caller parts with (history).
pmm_free_page(ptr, given) ==
    /\ phase = "run"
    /\ LET page_index == ptr \div PAGE_SIZE IN
         IF page_index < pmm_max_blocks /\ page_index \in pmm_bitmap
           THEN /\ pmm_bitmap' = pmm_bitmap \ {page_index}
                /\ pmm_used_blocks' = pmm_used_blocks - 1
           ELSE UNCHANGED <<pmm_bitmap, pmm_used_blocks>>
    /\ held' = held \ given
    /\ UNCHANGED <<phase, mmap, entry, highest, pmm_max_blocks, ret>>

\* An owner gives a page back.
FreeHeld == \E i \in held : pmm_free_page(PhysAddr(i), {i})

\* A page that is free already, or the first address past the managed memory.
FreeAgain ==
    \E i \in FreeBlocks \cup {pmm_max_blocks} : pmm_free_page(i * PAGE_SIZE, {})

Next ==
    \/ pmm_init_scan
    \/ pmm_init_size
    \/ pmm_init_free
    \/ pmm_init_relock
    \/ pmm_alloc_page
    \/ FreeHeld
    \/ FreeAgain

Spec == Init /\ [][Next]_vars
----------------------------------------------------------------------------
\* Every variable has its type; the bitmap only has bits of managed pages.
TypeOK ==
    /\ phase \in {"scan", "free", "run"}
    /\ mmap \in BootMaps
    /\ entry \in 1 .. Len(mmap) + 1
    /\ highest \in Nat
    /\ pmm_max_blocks \in Nat
    /\ pmm_bitmap \subseteq Blocks
    /\ pmm_used_blocks \in Int
    /\ ret \in Nat
    /\ held \subseteq Blocks
    /\ phase # "run" => held = {}
    /\ phase = "scan" => pmm_max_blocks = 0

\* pmm_used_blocks is the number of set bits, although every path of pmm_init,
\* pmm_alloc_page and pmm_free_page maintains the two separately (overlapping
\* map entries, kernel pages that were never free, repeated frees), so what
\* the shell's meminfo prints is the memory that can still be allocated.
AccountingExact ==
    /\ pmm_used_blocks = Cardinality(pmm_bitmap)
    /\ pmm_get_free_memory = (Cardinality(FreeBlocks) * PAGE_SIZE) % ADDR_SPACE
    /\ pmm_get_total_memory =
         ((Cardinality(FreeBlocks) + pmm_used_blocks) * PAGE_SIZE) % ADDR_SPACE

\* A page is never in two hands: once pmm_init has ended, the pages of the
\* kernel image and of the bitmap stay marked, none of them is ever handed out,
\* and what is handed out stays marked until it is given back.
NoPageInTwoHands ==
    phase = "run" =>
        /\ KernelBlocks \cap Blocks \subseteq pmm_bitmap
        /\ KernelBlocks \cap held = {}
        /\ held \subseteq pmm_bitmap

\* Page b lies wholly inside an available region of the memory map.
InRam(b) ==
    \E k \in 1 .. Len(mmap) :
        /\ mmap[k].type = "available"
        /\ mmap[k].addr <= b * PAGE_SIZE
        /\ (b + 1) * PAGE_SIZE <= mmap[k].addr + mmap[k].len

\* Every available region begins on a page boundary (its end may lie anywhere).
AlignedMap ==
    \A k \in 1 .. Len(mmap) :
        mmap[k].type = "available" => mmap[k].addr % PAGE_SIZE = 0

\* When available regions begin on page boundaries, whatever pmm_alloc_page has
\* handed out or may hand out is memory, also where a region ends inside a page.
OnlyRamWhenAligned ==
    AlignedMap => \A b \in FreeBlocks \cup held : InRam(b)

\* No available region reaches past the last address a pointer can hold.
MemoryFits ==
    \A m \in BootMaps : \A k \in 1 .. Len(m) :
        m[k].type = "available" => m[k].addr + m[k].len <= ADDR_SPACE

\* No page leaks and none appears from nowhere: an allocation or a release only
\* moves a page between the free ones and the ones handed out, so a release
\* frees the very page that its caller held.
NothingLost ==
    [][phase = "run" =>
          FreeBlocks' \cup held' = FreeBlocks \cup held]_vars

\* The pages of the boot module, which initialise_initrd reads for as long as
\* the system runs, are never handed out.
ModuleKept ==
    held \cap ((ModStart \div PAGE_SIZE) .. ((ModEnd - 1) \div PAGE_SIZE)) = {}
============================================================================
