------------------------------- MODULE MCVmm -------------------------------
(* Module Vmm with tables of 8 entries: the kernel takes pages 2 to 4, slot 3 is *)
(* its address, slots 4 to 6 are the heap's.  The machines have page 0 or not,   *)
(* a ROM at the end of the address space or not, and run out of pages in         *)
(* kheap_expand or, where the second table is needed, in vmm_map_page.           *)
EXTENDS Vmm

Avail(a, l) == [type |-> "available", addr |-> a, len |-> l]
Rsvd(a, l) == [type |-> "reserved", addr |-> a, len |-> l]
Machines ==
    { <<Avail(0, 8), Avail(8, 4 * n)>> : n \in {7, 13} }
        \cup { <<Rsvd(0, 4), Avail(4, 4), Avail(8, 4 * n), Rsvd(240, 16)>> : n \in {13, 14} }

Contents == {Null, Entry(3, TRUE)}

ASSUME LowMemory
============================================================================
