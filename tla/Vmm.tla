-------------------------------- MODULE Vmm --------------------------------
(***************************************************************************)
(* Paging: the tables of boot/boot.S, vmm_init and vmm_map_page of         *)
(* mm/vmm.cpp and the growth of the heap in mm/heap.cpp, on top of the     *)
(* physical memory manager (module Pmm).                                   *)
(*                                                                         *)
(* Directory and tables live in page frames, and the code reaches them     *)
(* only through virtual addresses that the MMU translates with those same  *)
(* tables.  A virtual address is the number of its page.  The CPU may walk *)
(* the tables and cache a translation at any moment; the TLB holds one     *)
(* translation, of an arbitrary page, which is all that a property of one  *)
(* page can see.  A frame that has not been written reads as an arbitrary  *)
(* entry.                                                                  *)
(***************************************************************************)
EXTENDS Integers, Sequences, FiniteSets

CONSTANTS
    PAGE_SIZE, ADDR_SPACE, KernelStart, KernelEnd, BootMaps, ModStart, ModEnd,
    ENTRIES,        \* entries of a directory or table, 1024
    KERNEL_SLOT,    \* KERNEL_VIRT_BASE >> 22, 768
    HEAP_SLOT,      \* KHEAP_START >> 22, 832
    INITIAL_PAGES,  \* KHEAP_INITIAL_SIZE / PAGE_SIZE, 512
    MAX_GROW,       \* bound: the pages that one kmalloc adds
    LeftOver        \* what memory that was never written may hold, read as an entry

VMM_RECURSIVE_SLOT == ENTRIES - 1

ASSUME SlotsAssumption ==
    /\ ENTRIES \in Nat /\ KERNEL_SLOT \in Nat /\ HEAP_SLOT \in Nat
    /\ 0 < KERNEL_SLOT /\ KERNEL_SLOT < HEAP_SLOT /\ HEAP_SLOT < VMM_RECURSIVE_SLOT
    /\ PAGE_SIZE \in Nat \ {0} /\ ADDR_SPACE = ENTRIES * ENTRIES * PAGE_SIZE
ASSUME GrowAssumption == INITIAL_PAGES \in Nat \ {0} /\ MAX_GROW \in Nat \ {0}

\* The machine has no more available memory than the heap has addresses below the
\* tables (764 MiB; kheap_expand does not test for the end of its area), which is
\* less than what lies below the kernel's addresses (3 GiB).  Reserved entries of
\* the map, such as the ROM below 4 GiB, may lie anywhere: pmm_init skips them.
HEAP_AREA == (VMM_RECURSIVE_SLOT - HEAP_SLOT) * ENTRIES     \* in pages
ASSUME HeapAssumption ==
    /\ \A m \in BootMaps : \A k \in 1 .. Len(m) :
          m[k].type = "available" => m[k].addr + m[k].len <= HEAP_AREA * PAGE_SIZE
    /\ HEAP_AREA <= KERNEL_SLOT * ENTRIES

VARIABLES
    phase, mmap, entry, highest, pmm_bitmap, pmm_max_blocks, pmm_used_blocks, ret, held,
    pc,
    cr3,                \* the frame of the directory in use
    mem,                \* the frames that have been written as tables
    leftover,           \* what the others read as
    tlb,                \* << >> or <<page, frame>>
    kernel_directory,   \* the pointer, as a page
    first_page_table,   \* local variable of vmm_init
    phys,               \* local variable of kheap_expand, as a frame
    pages,              \* pages that kheap_expand has still to add
    heap_current_end,   \* as a page
    backing             \* history: the frames given to the heap, in order

P == INSTANCE Pmm

frames == <<phase, mmap, entry, highest, pmm_bitmap, pmm_max_blocks, pmm_used_blocks,
            ret, held>>
vars == <<frames, pc, cr3, mem, leftover, tlb, kernel_directory, first_page_table, phys,
          pages, heap_current_end, backing>>

Index == 0 .. ENTRIES - 1
Addresses == 0 .. ENTRIES * ENTRIES - 1
Page(slot, i) == slot * ENTRIES + i
None == -1
Entry(f, u) == [frame |-> f, user |-> u]
Entries == [frame : Nat \cup {None}, user : BOOLEAN]
Null == Entry(None, FALSE)
NullTable == [i \in Index |-> Null]
VMM_PAGE_DIRECTORY == Page(VMM_RECURSIVE_SLOT, VMM_RECURSIVE_SLOT)

\* The page through which the table of a slot is reached: VMM_PAGE_TABLES + slot.
Window(slot) == Page(VMM_RECURSIVE_SLOT, slot)

\* boot.S: the directory, the table and the code are pages of the kernel image;
\* which of its pages does not matter.
BootDirectory == KernelStart \div PAGE_SIZE
BootTable == BootDirectory + 1
KernelCode == Page(KERNEL_SLOT, BootDirectory + 2)

\* linker.ld puts the image at 1 MiB; it ends below 4 MiB and in memory that
\* was never written every word is an entry.
ASSUME ImageAssumption ==
    /\ KernelStart \in Nat /\ KernelEnd \in Nat /\ PAGE_SIZE <= KernelStart
    /\ (BootDirectory + 2) * PAGE_SIZE < KernelEnd /\ BootDirectory + 2 < ENTRIES
ASSUME MemoryAssumption ==
    /\ ModStart \in Nat /\ ModEnd \in Nat /\ BootMaps \subseteq Seq(P!MapEntry)
    /\ LeftOver \subseteq Entries
----------------------------------------------------------------------------
(* The MMU *)

Row(f) == IF f \in DOMAIN mem THEN mem[f] ELSE [i \in Index |-> leftover]

\* The entry that maps page v, and the frame it names.
WalkEntry(v) ==
    LET d == Row(cr3)[v \div ENTRIES]
        e == Row(d.frame)[v % ENTRIES]
    IN IF d.frame = None THEN Null ELSE Entry(e.frame, d.user /\ e.user)
Walk(v) == WalkEntry(v).frame

\* The frame that an access to page v goes to.
Reach(v) == IF tlb # << >> /\ tlb[1] = v THEN tlb[2] ELSE Walk(v)

\* The CPU executes the code at pc = at.
At(at) == pc = at /\ Reach(KernelCode) # None

\* Write the page at address v, and go on; without a mapping the machine is lost.
StorePage(v, row, next) ==
    IF Reach(v) = None THEN pc' = "lost" /\ UNCHANGED mem
    ELSE /\ mem' = [f \in DOMAIN mem \cup {Reach(v)} |-> IF f = Reach(v) THEN row ELSE mem[f]]
         /\ pc' = next

\* What the page at address v holds.
Load(v) == IF Reach(v) = None THEN NullTable ELSE Row(Reach(v))

tlb_fill ==
    /\ pc # "lost"
    /\ \E v \in Addresses : Walk(v) # None /\ tlb' = <<v, Walk(v)>>
    /\ UNCHANGED <<frames, pc, cr3, mem, leftover, kernel_directory, first_page_table, phys,
                   pages, heap_current_end, backing>>

\* The next instruction cannot be fetched.
fault ==
    /\ pc \notin {"lost", "panic"} /\ Reach(KernelCode) = None
    /\ pc' = "lost"
    /\ UNCHANGED <<frames, cr3, mem, leftover, tlb, kernel_directory, first_page_table, phys,
                   pages, heap_current_end, backing>>

stopped == pc \in {"lost", "panic"} /\ UNCHANGED vars
----------------------------------------------------------------------------
\* _start has loaded boot_page_directory: the first table at 0 and at KERNEL_SLOT.
Init ==
    /\ P!Init
    /\ pc = "pmm_init"
    /\ cr3 = BootDirectory
    /\ mem = [f \in {BootDirectory, BootTable} |->
                IF f = BootTable THEN [i \in Index |-> Entry(i, FALSE)]
                ELSE [NullTable EXCEPT ![0] = Entry(BootTable, FALSE),
                                       ![KERNEL_SLOT] = Entry(BootTable, FALSE)]]
    /\ leftover \in LeftOver
    /\ tlb = << >>
    /\ kernel_directory = 0 /\ first_page_table = 0
    /\ phys = 0 /\ pages = 0
    /\ heap_current_end = Page(HEAP_SLOT, 0)
    /\ backing = << >>

pmm_init ==
    /\ At("pmm_init")
    /\ P!pmm_init_scan \/ P!pmm_init_size \/ P!pmm_init_free \/ P!pmm_init_relock
    /\ pc' = IF phase' = "run" THEN "vmm_init" ELSE pc
    /\ UNCHANGED <<cr3, mem, leftover, tlb, kernel_directory, first_page_table, phys, pages,
                   heap_current_end, backing>>

\* A page for the directory, cleared through its identity mapping.
vmm_init_directory ==
    /\ At("vmm_init")
    /\ P!pmm_alloc_page
    /\ kernel_directory' = ret' \div PAGE_SIZE
    /\ StorePage(kernel_directory', NullTable, "vmm_init_table")
    /\ UNCHANGED <<cr3, leftover, tlb, first_page_table, phys, pages, heap_current_end, backing>>

\* A page for the first table, filled with the identity mapping.
vmm_init_table ==
    /\ At("vmm_init_table")
    /\ P!pmm_alloc_page
    /\ first_page_table' = ret' \div PAGE_SIZE
    /\ StorePage(first_page_table', [i \in Index |-> Entry(i, TRUE)], "vmm_init_entries")
    /\ UNCHANGED <<cr3, leftover, tlb, kernel_directory, phys, pages, heap_current_end, backing>>

\* Mutant: the new directory has no entry for the kernel's own addresses.
vmm_init_entries_NoHigher ==
    /\ At("vmm_init_entries")
    /\ LET t == Entry(first_page_table, TRUE) IN
         StorePage(kernel_directory,
                   [Load(kernel_directory) EXCEPT
                       ![0] = t, ![VMM_RECURSIVE_SLOT] = Entry(kernel_directory, FALSE)],
                   "vmm_init_cr3")
    /\ UNCHANGED <<frames, cr3, leftover, tlb, kernel_directory, first_page_table, phys, pages,
                   heap_current_end, backing>>

vmm_init_entries ==
    /\ At("vmm_init_entries")
    /\ LET t == Entry(first_page_table, TRUE) IN
         StorePage(kernel_directory,
                   [Load(kernel_directory) EXCEPT
                       ![0] = t, ![KERNEL_SLOT] = t,
                       ![VMM_RECURSIVE_SLOT] = Entry(kernel_directory, FALSE)],
                   "vmm_init_cr3")
    /\ UNCHANGED <<frames, cr3, leftover, tlb, kernel_directory, first_page_table, phys, pages,
                   heap_current_end, backing>>

\* Load CR3, which empties the TLB; from here on the directory is reached through
\* its own last entry.
vmm_init_cr3 ==
    /\ At("vmm_init_cr3")
    /\ cr3' = kernel_directory
    /\ tlb' = << >>
    /\ kernel_directory' = VMM_PAGE_DIRECTORY
    /\ pc' = "kheap_init"
    /\ UNCHANGED <<frames, mem, leftover, first_page_table, phys, pages, heap_current_end,
                   backing>>
----------------------------------------------------------------------------
(* kheap_expand, called by kheap_init and by kmalloc, and vmm_map_page in it *)

Request(at, n) ==
    /\ At(at)
    /\ pages' = n /\ pc' = "expand"
    /\ UNCHANGED <<frames, cr3, mem, leftover, tlb, kernel_directory, first_page_table, phys,
                   heap_current_end, backing>>

kheap_init == Request("kheap_init", INITIAL_PAGES)

kmalloc_grows == \E n \in 1 .. MAX_GROW : Request("idle", n)

\* Mutant: the loop makes one round more than asked for.
kheap_expand_OneMore ==
    /\ At("expand") /\ pages >= 0
    /\ P!pmm_alloc_page
    /\ phys' = ret' \div PAGE_SIZE
    /\ pc' = IF ret' = P!nullptr THEN "panic" ELSE "map"
    /\ UNCHANGED <<cr3, mem, leftover, tlb, kernel_directory, first_page_table, pages,
                   heap_current_end, backing>>

\* Mutant: the test looks at the frame of the round before.
kheap_expand_StaleTest ==
    /\ At("expand") /\ pages > 0
    /\ P!pmm_alloc_page
    /\ phys' = ret' \div PAGE_SIZE
    /\ pc' = IF phys = P!nullptr THEN "panic" ELSE "map"
    /\ UNCHANGED <<cr3, mem, leftover, tlb, kernel_directory, first_page_table, pages,
                   heap_current_end, backing>>

\* One round of the loop: a frame, or panic.
kheap_expand ==
    /\ At("expand") /\ pages > 0
    /\ P!pmm_alloc_page
    /\ phys' = ret' \div PAGE_SIZE
    /\ pc' = IF ret' = P!nullptr THEN "panic" ELSE "map"
    /\ UNCHANGED <<cr3, mem, leftover, tlb, kernel_directory, first_page_table, pages,
                   heap_current_end, backing>>

kheap_expand_done ==
    /\ At("expand") /\ pages = 0
    /\ pc' = "idle"
    /\ UNCHANGED <<frames, cr3, mem, leftover, tlb, kernel_directory, first_page_table, phys,
                   pages, heap_current_end, backing>>

pd_index == heap_current_end \div ENTRIES
pt_index == heap_current_end % ENTRIES

\* Mutant: the new table gets the frame that the page gets.
vmm_map_table_SameFrame ==
    /\ At("map")
    /\ IF Load(VMM_PAGE_DIRECTORY)[pd_index].frame # None
         THEN pc' = "entry" /\ UNCHANGED mem
         ELSE StorePage(VMM_PAGE_DIRECTORY,
                        [Load(VMM_PAGE_DIRECTORY) EXCEPT ![pd_index] = Entry(phys, TRUE)],
                        "clear")
    /\ UNCHANGED <<frames, cr3, leftover, tlb, kernel_directory, first_page_table, phys, pages,
                   heap_current_end, backing>>

\* Look for the table; without one, take a frame, whatever pmm_alloc_page
\* answers, and enter it into the directory.
vmm_map_table ==
    /\ At("map")
    /\ IF Load(VMM_PAGE_DIRECTORY)[pd_index].frame # None
         THEN pc' = "entry" /\ UNCHANGED <<frames, mem>>
         ELSE /\ P!pmm_alloc_page
              /\ StorePage(VMM_PAGE_DIRECTORY,
                           [Load(VMM_PAGE_DIRECTORY) EXCEPT
                               ![pd_index] = Entry(ret' \div PAGE_SIZE, TRUE)],
                           "clear")
    /\ UNCHANGED <<cr3, leftover, tlb, kernel_directory, first_page_table, phys, pages,
                   heap_current_end, backing>>

\* Mutant: the new table is not cleared.
vmm_map_clear_Skipped ==
    /\ At("clear")
    /\ pc' = "entry"
    /\ UNCHANGED <<frames, cr3, mem, leftover, tlb, kernel_directory, first_page_table, phys,
                   pages, heap_current_end, backing>>

vmm_map_clear ==
    /\ At("clear")
    /\ StorePage(Window(pd_index), NullTable, "entry")
    /\ UNCHANGED <<frames, cr3, leftover, tlb, kernel_directory, first_page_table, phys, pages,
                   heap_current_end, backing>>

vmm_map_entry ==
    /\ At("entry")
    /\ StorePage(Window(pd_index),
                 [Load(Window(pd_index)) EXCEPT ![pt_index] = Entry(phys, TRUE)],
                 "invlpg")
    /\ UNCHANGED <<frames, cr3, leftover, tlb, kernel_directory, first_page_table, phys, pages,
                   heap_current_end, backing>>

\* Mutant: the translation of the new page is not thrown out.
invlpg_Skipped ==
    /\ At("invlpg")
    /\ backing' = Append(backing, phys)
    /\ heap_current_end' = (heap_current_end + 1) % (ENTRIES * ENTRIES)
    /\ pages' = pages - 1 /\ pc' = "expand"
    /\ UNCHANGED <<frames, cr3, mem, leftover, tlb, kernel_directory, first_page_table, phys>>

\* The end of vmm_map_page and of the round.
invlpg ==
    /\ At("invlpg")
    /\ tlb' = IF tlb # << >> /\ tlb[1] = heap_current_end THEN << >> ELSE tlb
    /\ backing' = Append(backing, phys)
    /\ heap_current_end' = (heap_current_end + 1) % (ENTRIES * ENTRIES)
    /\ pages' = pages - 1 /\ pc' = "expand"
    /\ UNCHANGED <<frames, cr3, mem, leftover, kernel_directory, first_page_table, phys>>

Next ==
    \/ pmm_init
    \/ vmm_init_directory \/ vmm_init_table \/ vmm_init_entries \/ vmm_init_cr3
    \/ kheap_init \/ kmalloc_grows \/ kheap_expand \/ kheap_expand_done
    \/ vmm_map_table \/ vmm_map_clear \/ vmm_map_entry \/ invlpg
    \/ tlb_fill \/ fault \/ stopped

Spec == Init /\ [][Next]_vars
----------------------------------------------------------------------------
Paging == pc \notin {"pmm_init", "vmm_init", "vmm_init_table", "vmm_init_entries",
                     "vmm_init_cr3", "lost"}
HeapStart == Page(HEAP_SLOT, 0)

\* The kernel runs, and vmm_map_page has not been refused a page for a table.
Served == pc \notin {"lost", "panic"} /\ (Paging => ret # P!nullptr)

\* Every variable has its type; a round of kheap_expand has one page less to add
\* and one more added.
TypeOK ==
    /\ pc \in {"pmm_init", "vmm_init", "vmm_init_table", "vmm_init_entries", "vmm_init_cr3",
               "kheap_init", "idle", "expand", "map", "clear", "entry", "invlpg", "panic",
               "lost"}
    /\ \A f \in DOMAIN mem : \A i \in Index : mem[f][i].frame \in Nat \cup {None}
    /\ tlb # << >> => tlb[1] \in Addresses /\ tlb[2] \in Nat
    /\ cr3 \in DOMAIN mem /\ phys \in Nat
    /\ pages \in 0 .. INITIAL_PAGES + MAX_GROW
    /\ heap_current_end = HeapStart + Len(backing)

\* The kernel keeps its ground: at every step of vmm_init and of every mapping
\* after it, low memory and the kernel's own addresses lead to the same frames;
\* once vmm_init has ended user code may use them, and nothing but the kernel the tables.
KernelMapped ==
    Served =>
        /\ \A i \in Index : Walk(i) = i /\ Walk(Page(KERNEL_SLOT, i)) = i
        /\ Paging =>
             /\ \A i \in Index : WalkEntry(Page(KERNEL_SLOT, i)).user
             /\ \A i \in Index : ~WalkEntry(Window(i)).user
             /\ Walk(VMM_PAGE_DIRECTORY) = cr3

\* The addresses of the heap lead to the frames that were taken for it, in
\* order and open to user code, and no address from heap_current_end on leads
\* anywhere: a new table brings nothing along that was in its frame before.
HeapExact ==
    /\ Served /\ Paging => \A i \in 1 .. Len(backing) :
         WalkEntry(HeapStart + i - 1) = Entry(backing[i], TRUE)
    /\ Served /\ pc \in {"idle", "expand", "map"} =>
         \A v \in heap_current_end .. Window(0) - 1 : Walk(v) = None

\* Every frame has one use: the directory, the tables
\* and the pages of the heap are different frames, each taken from the
\* physical memory manager.
FramesApart ==
    Served /\ Paging =>
        LET Slots == {0} \cup {s \in HEAP_SLOT .. VMM_RECURSIVE_SLOT :
                                  Row(cr3)[s].frame # None}
            Table(s) == Row(cr3)[s].frame
        IN /\ \A s, t \in Slots : s # t => Table(s) # Table(t)
           /\ \A i, j \in 1 .. Len(backing) : i # j => backing[i] # backing[j]
           /\ \A s \in Slots, i \in 1 .. Len(backing) : Table(s) # backing[i]
           /\ {Table(s) : s \in Slots} \cup {backing[i] : i \in 1 .. Len(backing)}
                \subseteq held

\* What the TLB holds for a page in use is what the tables say, although the CPU
\* may have walked a new table before it was cleared: kernel, tables and heap
\* are never reached through a stale translation.
TlbCoherent ==
    Served /\ tlb # << >> =>
        \/ tlb[2] = Walk(tlb[1])
        \/ tlb[1] \in heap_current_end .. Window(0) - 1

\* The pages of the first table that the memory map m gives to pmm_init, outside the kernel
\* and the bitmap behind it, however long that is.
Low(m) ==
    {b \in Index :
        /\ \E k \in 1 .. Len(m) :
             /\ m[k].type = "available"
             /\ b \in m[k].addr \div PAGE_SIZE
                        .. m[k].addr \div PAGE_SIZE + m[k].len \div PAGE_SIZE - 1
        /\ \/ b < BootDirectory
           \/ KernelEnd + HEAP_AREA \div 8 + 1 <= b * PAGE_SIZE}

\* There are two pages for vmm_init where boot.S has mapped them: a PC has
\* conventional memory below the kernel.
LowMemory == \A m \in BootMaps : \E a, b \in Low(m) : a # b

\* The kernel stops only when no page is left; in particular the nullptr that
\* kheap_expand takes for exhaustion is never page 0, because vmm_init has it,
\* and no access goes to an address without a mapping as long as pages are free.
StopsOnlyWhenFull == pc \in {"panic", "lost"} => P!FreeBlocks = {}
============================================================================
