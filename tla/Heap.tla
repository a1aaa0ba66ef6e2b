-------------------------------- MODULE Heap --------------------------------
(***************************************************************************)
(* The kernel heap, kernel/arch/i386/mm/heap.cpp: a doubly linked list of  *)
(* blocks, each behind a header (heap_node), with first fit, splitting,    *)
(* coalescing and growth at the end.                                       *)
(*                                                                         *)
(* The code takes no lock, so kmalloc and kfree are modelled as the steps  *)
(* between which an interrupt may switch to another caller.  A caller in   *)
(* Atomic runs with IF clear (user_mode_proxy does, which the timer        *)
(* interrupt enters): while it is inside, nobody else runs.                *)
(***************************************************************************)
EXTENDS Integers, FiniteSets

CONSTANTS
    PAGE_SIZE,          \* 4096
    KHEAP_START,        \* 0xD0000000
    KHEAP_INITIAL_SIZE, \* 2 MiB
    HDR,                \* sizeof(heap_node), 16
    ALIGN,              \* 8
    WORD,               \* 2^32, the range of size_t
    FRAMES,             \* page frames left in the PMM at kheap_init
    Sizes,              \* the sizes callers ask for
    MAX_BLOCKS,         \* bound: blocks a caller holds at a time
    Callers,
    Atomic              \* callers that cannot be preempted

ASSUME UnitAssumption ==
    /\ ALIGN \in Nat \ {0}
    /\ \A u \in {HDR, PAGE_SIZE, KHEAP_START, KHEAP_INITIAL_SIZE} :
         u \in Nat \ {0} /\ u % ALIGN = 0
    /\ KHEAP_INITIAL_SIZE % PAGE_SIZE = 0
    /\ HDR < PAGE_SIZE

KHEAP_END == KHEAP_START + FRAMES * PAGE_SIZE

\* The frames are enough for the initial pages, or the kernel stops; memory is less
\* than the 764 MiB of addresses behind KHEAP_START, so those do not wrap.
ASSUME SpanAssumption ==
    /\ FRAMES \in Nat /\ KHEAP_INITIAL_SIZE <= FRAMES * PAGE_SIZE
    /\ WORD \in Nat /\ KHEAP_END <= WORD /\ ALIGN < KHEAP_START
    /\ Sizes \subseteq 0 .. WORD - 1
ASSUME CallerAssumption == Atomic \subseteq Callers

nullptr == 0

\* Where a header can lie.
Addr == {a \in KHEAP_START .. KHEAP_END : a % ALIGN = 0}

VARIABLES
    booted,             \* kernel_main is past the memory set-up
    heap_head,
    heap_current_end,
    mem,                \* the header at each address
    frames,             \* page frames left
    pc,                 \* per caller: where it is in kmalloc or kfree
    size, curr,         \* per caller: locals of kmalloc; size is aligned
    node, back,         \* per caller: local of kfree, and where kfree returns
    req,                \* per caller (history): the size asked for
    owned               \* history: the blocks handed out and not yet freed

locals == <<size, curr, node, back, req>>
vars == <<booted, heap_head, heap_current_end, mem, frames, pc, locals, owned>>

\* What is read where no header is: payload is not modelled.
Junk == [size |-> 0, free |-> FALSE, next |-> nullptr, prev |-> nullptr]

All(x) == [c \in Callers |-> x]

Init ==
    /\ booted = FALSE
    /\ heap_head = nullptr
    /\ heap_current_end = KHEAP_START
    /\ mem = [a \in Addr |-> Junk]
    /\ frames = FRAMES
    /\ pc = All("idle")
    /\ size = All(0) /\ curr = All(nullptr)
    /\ node = All(nullptr) /\ back = All("idle")
    /\ req = All(0)
    /\ owned = {}

\* c has the CPU: nobody else is inside with IF clear.
Runs(c) == \A d \in Atomic \ {c} : pc[d] = "idle"

At(c, at) == booted /\ pc[c] = at /\ Runs(c)

\* c returns to its caller: its locals are gone.
Return(c) ==
    /\ pc' = [pc EXCEPT ![c] = "idle"]
    /\ size' = [size EXCEPT ![c] = 0]
    /\ curr' = [curr EXCEPT ![c] = nullptr]
    /\ node' = [node EXCEPT ![c] = nullptr]
    /\ back' = [back EXCEPT ![c] = "idle"]
    /\ req' = [req EXCEPT ![c] = 0]
----------------------------------------------------------------------------
(* Boot *)

\* kheap_init; kernel_main calls it when the boot loader passed a memory map
\* (the first frames are enough for it, or the kernel stops here).
kheap_init ==
    /\ ~booted
    /\ booted' = TRUE
    /\ heap_head' = KHEAP_START
    /\ heap_current_end' = KHEAP_START + KHEAP_INITIAL_SIZE
    /\ frames' = frames - KHEAP_INITIAL_SIZE \div PAGE_SIZE
    /\ mem' = [mem EXCEPT ![KHEAP_START] =
                  [size |-> KHEAP_INITIAL_SIZE - HDR, free |-> TRUE,
                   next |-> nullptr, prev |-> nullptr]]
    /\ UNCHANGED <<pc, locals, owned>>

\* Without a memory map the heap stays empty.
no_memory_map ==
    /\ ~booted
    /\ booted' = TRUE
    /\ UNCHANGED <<heap_head, heap_current_end, mem, frames, pc, locals, owned>>
----------------------------------------------------------------------------
(* kmalloc *)

\* Mutant: sizes are rounded down.
aligned_Down(n) == (n \div ALIGN) * ALIGN

\* (size + 7) & ~7, on 32 bits.
aligned(n) == (((n + ALIGN - 1) % WORD) \div ALIGN) * ALIGN

Held(c) == {b \in owned : b.by = c}

kmalloc(c, n) ==
    /\ At(c, "idle")
    /\ Cardinality(Held(c)) < MAX_BLOCKS
    /\ IF n = 0 THEN UNCHANGED <<pc, size, curr, req>>
       ELSE /\ size' = [size EXCEPT ![c] = aligned(n)]
            /\ req' = [req EXCEPT ![c] = n]
            /\ curr' = [curr EXCEPT ![c] = heap_head]
            /\ pc' = [pc EXCEPT ![c] = "search"]
    /\ UNCHANGED <<booted, heap_head, heap_current_end, mem, frames, node, back, owned>>

fits(c) == LET b == mem[curr[c]] IN b.free /\ b.size >= size[c]

\* One round of the while loop: take curr, grow behind it, or go on.
kmalloc_search(c) ==
    /\ At(c, "search")
    /\ \/ curr[c] = nullptr /\ Return(c)
       \/ /\ curr[c] # nullptr
          /\ LET next == mem[curr[c]].next
                 at == IF fits(c) THEN "take"
                       ELSE IF next = nullptr THEN "expand" ELSE "search"
             IN /\ pc' = [pc EXCEPT ![c] = at]
                /\ curr' = IF at = "search" THEN [curr EXCEPT ![c] = next] ELSE curr
          /\ UNCHANGED <<size, node, back, req>>
    /\ UNCHANGED <<booted, heap_head, heap_current_end, mem, frames, owned>>

\* Mutant: the back link of the block behind the remainder is forgotten.
split_NoBackLink(m, a, n) ==
    LET new == a + HDR + n IN
    [m EXCEPT ![a].next = new, ![a].size = n,
              ![new] = [size |-> m[a].size - n - HDR, free |-> TRUE,
                        next |-> m[a].next, prev |-> a]]

\* Mutant: the block is linked to the remainder before the remainder takes its link.
split_Swapped(m, a, n) ==
    LET new == a + HDR + n
        m1 == IF m[a].next # nullptr THEN [m EXCEPT ![m[a].next].prev = new] ELSE m
    IN [m1 EXCEPT ![a].next = new, ![a].size = n,
                  ![new] = [size |-> m[a].size - n - HDR, free |-> TRUE,
                            next |-> new, prev |-> a]]

\* Cut the block at a to n bytes; the remainder becomes a free block behind it.
split(m, a, n) ==
    LET new == a + HDR + n
        m1 == [m EXCEPT ![new] = [size |-> m[a].size - n - HDR, free |-> TRUE,
                                  next |-> m[a].next, prev |-> a]]
        m2 == IF m[a].next # nullptr THEN [m1 EXCEPT ![m[a].next].prev = new] ELSE m1
    IN [m2 EXCEPT ![a].next = new, ![a].size = n]

\* Mutant: a block is split although no header fits behind it.
kmalloc_take_Always(c) ==
    /\ At(c, "take")
    /\ LET a == curr[c]
           room == a + HDR + size[c] \in Addr
       IN /\ mem' = [(IF room THEN split(mem, a, size[c]) ELSE mem) EXCEPT ![a].free = FALSE]
          /\ owned' = owned \cup {[ptr |-> a + HDR, size |-> req[c], by |-> c]}
    /\ Return(c)
    /\ UNCHANGED <<booted, heap_head, heap_current_end, frames>>

\* Lines 81 to 94, after the test of line 79 has been passed.
kmalloc_take(c) ==
    /\ At(c, "take")
    /\ LET a == curr[c]
           room == mem[a].size >= (size[c] + HDR + ALIGN) % WORD
       IN /\ mem' = [(IF room THEN split(mem, a, size[c]) ELSE mem) EXCEPT ![a].free = FALSE]
          /\ owned' = owned \cup {[ptr |-> a + HDR, size |-> req[c], by |-> c]}
    /\ Return(c)
    /\ UNCHANGED <<booted, heap_head, heap_current_end, frames>>

\* Lines 98 to 113: kheap_expand, a block in the new pages, and kfree of it.  When
\* the frames run out kheap_expand never returns; when the page count wraps to zero
\* the new header lies outside the mapped heap and the page fault stops the kernel.
kmalloc_expand(c) ==
    /\ At(c, "expand")
    /\ LET pages_needed == ((size[c] + HDR + PAGE_SIZE - 1) % WORD) \div PAGE_SIZE
           old_end == heap_current_end
       IN IF pages_needed \in 1 .. frames
            THEN /\ frames' = frames - pages_needed
                 /\ heap_current_end' = old_end + pages_needed * PAGE_SIZE
                 /\ mem' = [mem EXCEPT
                              ![old_end] = [size |-> pages_needed * PAGE_SIZE - HDR,
                                            free |-> TRUE, next |-> nullptr,
                                            prev |-> curr[c]],
                              ![curr[c]].next = old_end]
                 /\ node' = [node EXCEPT ![c] = old_end]
                 /\ back' = [back EXCEPT ![c] = "search"]
                 /\ pc' = [pc EXCEPT ![c] = "mark"]
            ELSE /\ frames' = IF pages_needed = 0 THEN frames ELSE 0
                 /\ heap_current_end' = old_end + (frames - frames') * PAGE_SIZE
                 /\ pc' = [pc EXCEPT ![c] = "panic"]
                 /\ UNCHANGED <<mem, node, back>>
    /\ UNCHANGED <<booted, heap_head, size, curr, req, owned>>

\* for (;;);
panic(c) == At(c, "panic") /\ UNCHANGED vars
----------------------------------------------------------------------------
(* kfree; of nullptr it does nothing *)

kfree(c, b) ==
    /\ At(c, "idle")
    /\ node' = [node EXCEPT ![c] = b.ptr - HDR]
    /\ back' = [back EXCEPT ![c] = "idle"]
    /\ owned' = owned \ {b}
    /\ pc' = [pc EXCEPT ![c] = "mark"]
    /\ UNCHANGED <<booted, heap_head, heap_current_end, mem, frames, size, curr, req>>

kfree_mark(c) ==
    /\ At(c, "mark")
    /\ mem' = [mem EXCEPT ![node[c]].free = TRUE]
    /\ pc' = [pc EXCEPT ![c] = "merge_next"]
    /\ UNCHANGED <<booted, heap_head, heap_current_end, frames, locals, owned>>

\* Block a swallows block n; what was n's header is payload from now on.
swallow(m, a, n) ==
    LET m1 == [m EXCEPT ![a].size = @ + m[n].size + HDR, ![a].next = m[n].next]
        m2 == IF m[n].next # nullptr THEN [m1 EXCEPT ![m[n].next].prev = a] ELSE m1
    IN [m2 EXCEPT ![n] = Junk]

kfree_merge_next(c) ==
    /\ At(c, "merge_next")
    /\ LET n == mem[node[c]].next IN
         mem' = IF n # nullptr /\ mem[n].free THEN swallow(mem, node[c], n) ELSE mem
    /\ pc' = [pc EXCEPT ![c] = "merge_prev"]
    /\ UNCHANGED <<booted, heap_head, heap_current_end, frames, locals, owned>>

\* kfree returns: to its caller, or into kmalloc, which searches from the head again.
kfree_returns(c) ==
    \/ back[c] = "idle" /\ Return(c)
    \/ /\ back[c] = "search"
       /\ pc' = [pc EXCEPT ![c] = "search"]
       /\ curr' = [curr EXCEPT ![c] = heap_head]
       /\ node' = [node EXCEPT ![c] = nullptr]
       /\ back' = [back EXCEPT ![c] = "idle"]
       /\ UNCHANGED <<size, req>>

\* Mutant: only the block behind is merged.
kfree_merge_prev_Skipped(c) ==
    /\ At(c, "merge_prev")
    /\ kfree_returns(c)
    /\ UNCHANGED <<booted, heap_head, heap_current_end, mem, frames, owned>>

\* The block before swallows this one, and kfree returns.
kfree_merge_prev(c) ==
    /\ At(c, "merge_prev")
    /\ LET p == mem[node[c]].prev IN
         mem' = IF p # nullptr /\ mem[p].free THEN swallow(mem, p, node[c]) ELSE mem
    /\ kfree_returns(c)
    /\ UNCHANGED <<booted, heap_head, heap_current_end, frames, owned>>
----------------------------------------------------------------------------
Inside(c) ==
    \/ kmalloc_search(c)
    \/ kmalloc_take(c)
    \/ kmalloc_expand(c)
    \/ kfree_mark(c)
    \/ kfree_merge_next(c)
    \/ kfree_merge_prev(c)
    \/ panic(c)

Next ==
    \/ kheap_init
    \/ no_memory_map
    \/ \E c \in Callers :
         \/ \E n \in Sizes : kmalloc(c, n)
         \/ \E b \in Held(c) : kfree(c, b)
         \/ Inside(c)

Spec == Init /\ [][Next]_vars

\* A caller that is inside kmalloc or kfree goes on.
FairSpec == Spec /\ \A c \in Callers : WF_vars(Inside(c))
----------------------------------------------------------------------------
Quiet == booted /\ \A c \in Callers : pc[c] = "idle"

\* The headers on the list from heap_head.
Live ==
    LET Reach[k \in 0 .. Cardinality(Addr)] ==
          IF k = 0 THEN {heap_head} \ {nullptr}
          ELSE LET r == Reach[k - 1] IN r \cup ({mem[a].next : a \in r} \ {nullptr})
    IN Reach[Cardinality(Addr)]

Node == [size : 0 .. WORD - 1, free : BOOLEAN, next : Addr \cup {nullptr},
         prev : Addr \cup {nullptr}]

\* Every variable has its type.
TypeOK ==
    /\ booted \in BOOLEAN
    /\ heap_head \in {nullptr, KHEAP_START}
    /\ heap_current_end \in Addr
    /\ mem \in [Addr -> Node]
    /\ frames \in 0 .. FRAMES
    /\ \A c \in Callers :
         /\ pc[c] \in {"idle", "search", "take", "expand", "panic", "mark",
                       "merge_next", "merge_prev"}
         /\ {curr[c], node[c]} \subseteq Addr \cup {nullptr}
         /\ back[c] \in {"idle", "search"}
    /\ \A b \in owned : b.ptr \in Addr

\* Between calls the blocks tile the heap: each one begins where the one before
\* ends, the last one ends at heap_current_end, and the links agree both ways.
Tiled ==
    Quiet /\ heap_head # nullptr =>
        \A a \in Live :
            LET end == a + HDR + mem[a].size IN
            /\ mem[a].next = IF end = heap_current_end THEN nullptr ELSE end
            /\ mem[a].next # nullptr => mem[mem[a].next].prev = a
            /\ a = heap_head <=> mem[a].prev = nullptr

\* Between calls no two neighbours are both free: kfree's two merges, the split
\* and the growth at the end leave nothing to coalesce.
Coalesced ==
    Quiet => \A a \in Live :
        mem[a].free /\ mem[a].next # nullptr => ~mem[mem[a].next].free

\* Between calls the blocks in use are exactly the ones handed out, each at least
\* as large as was asked for: none is lost, and none is handed out twice.
BlocksOwned ==
    Quiet =>
        /\ {a + HDR : a \in {x \in Live : ~mem[x].free}} = {b.ptr : b \in owned}
        /\ \A b, d \in owned : b.ptr = d.ptr => b = d
        /\ \A b \in owned : mem[b.ptr - HDR].size >= b.size

\* kmalloc and kfree return, unless the frames run out: a search that has to grow
\* the heap finds its block, wherever the new pages were merged.
CallsReturn ==
    \A c \in Callers : (pc[c] # "idle") ~> (pc[c] \in {"idle", "panic"})

\* No two callers own the same block.
NoSharedBlock == \A b, d \in owned : b.ptr = d.ptr => b = d
============================================================================
