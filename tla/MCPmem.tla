------------------------------- MODULE MCPmem -------------------------------
(***************************************************************************)
(* Small instances of Pmem: an address space of 32 with blocks of 4, the   *)
(* reserved section below 4, at least 7 bytes of pages.                    *)
(***************************************************************************)
EXTENDS PmemIrq

Region(addr, len) == [addr |-> addr, len |-> len, available |-> TRUE]
Hole(addr, len) == [addr |-> addr, len |-> len, available |-> FALSE]
Map(entries) == [valid |-> TRUE, entries |-> entries]

\* Aligned and unaligned regions, several of them, holes, one block of room
\* and none, no region, and a map GRUB did not fill in.  Machines with more
\* than 4 GiB report a region that begins above AddrSpace, or one whose
\* length does not fit into the low word.
MCMaps ==
  {Map(<<Region(0, 3), Region(5, len)>>) : len \in 16 .. 26}
    \cup {Map(<<Hole(4, 27), Region(first, 18), Region(2, 17)>>) :
            first \in {8, 9, 11, 13}}
    \cup {Map(<<Region(1, 3), Region(5, 14)>>), Map(<<Hole(0, 31)>>),
          Map(<<Region(2, 2), Region(21, 3)>>), Map(<<Region(21, 2)>>), Map(<<Region(0, 31)>>),
          Map(<<Region(5, 16), Region(40, 20)>>), Map(<<Region(8, 32 + 18)>>),
          Map(<<Region(5, 20), Region(32, 64)>>), NoMap}
MCKernelEnds == {0, 2, 6, 7, 23}
=============================================================================
