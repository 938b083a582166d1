----------------------------- MODULE MCProcess -----------------------------
(***************************************************************************)
(* Process with interchangeable pages, names of three characters in the    *)
(* table, and programs whose names are shorter and longer.  The formats    *)
(* have the empty string, a string with a percent sign, which printf must  *)
(* not interpret, and the numbers at the ends of the bases.                *)
(***************************************************************************)
EXTENDS Process

CONSTANTS p1, p2, p3, p4

MCPages == {p1, p2, p3, p4}
MCPageSymmetry == Permutations(MCPages)
MCNames == {<<98, 99>>, <<99, 98, 97, 98>>}
MCIdle == <<73, 100>>
MCStates == [RUNNABLE |-> <<82, 117>>]
MCStrings == {<<>>, <<Percent, 100>>}
=============================================================================
