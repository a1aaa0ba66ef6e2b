------------------------------- MODULE MCPmm -------------------------------
(***************************************************************************)
(* Memory maps for Pmm.  A page has 4 bytes; the kernel image starts at    *)
(* byte 16 (page 4) and ends inside page 5, and the bitmap behind it       *)
(* reaches into page 6.                                                    *)
(***************************************************************************)
EXTENDS Pmm

Avail(a, l) == [type |-> "available", addr |-> a, len |-> l]
Rsvd(a, l) == [type |-> "reserved", addr |-> a, len |-> l]

\* Regions that start on a page boundary, none of them with page 0: a hole, a
\* region that ends inside a page, overlapping entries, a map without memory,
\* a machine that ends inside the kernel image.
AlignedMaps ==
    { <<Avail(4, 10), Rsvd(14, 2), Avail(16, 33)>>,
      <<Avail(8, 24), Avail(16, 24)>>,
      <<Rsvd(0, 12), Avail(12, 32), Avail(12, 32)>>,
      <<Rsvd(0, 40)>>,
      <<Avail(4, 14)>> }

\* The usual map of a PC: low memory from address 0, a hole, memory above it, the
\* ROM at the end of the address space and devices behind that.
PcMaps == { <<Avail(0, 10), Rsvd(10, 6), Avail(16, 20), Rsvd(4080, 16), Rsvd(5000, 8)>> }

Maps == AlignedMaps \cup PcMaps
============================================================================
