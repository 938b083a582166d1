----------------------------- MODULE MCRamdisk -----------------------------
(***************************************************************************)
(* A small Ramdisk: blocks of 2 bytes, at most 2 of them, addresses        *)
(* below 8, three interchangeable pages.                                   *)
(***************************************************************************)
EXTENDS Ramdisk, TLC

CONSTANTS p1, p2, p3

MCByte == {0, 1}
MCPage == {p1, p2, p3}
MCPageSymmetry == Permutations(MCPage)
MCDiskSizes == {0, 1, 2, 4, 6}

\* Accesses inside a disk of 2 or 4 bytes, up to its end, one byte past it,
\* and past the end of the address space, back into the disk or not.
MCStart == {0, 1, 2, 3, 4, 7}
MCLength == {0, 1, 2, 3, 4, 5}

\* Data of every length that distinguishes neighbouring bytes.
MCData == {[i \in 1 .. n |-> (b + i) % 2] : n \in MCLength, b \in MCByte}
=============================================================================
