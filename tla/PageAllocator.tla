--------------------------- MODULE PageAllocator ---------------------------
(***************************************************************************)
(* What a page allocator promises its callers: a page is lent to at most   *)
(* one of them at a time.  The allocator may give up (the kernel panics)   *)
(* and then serves nobody; when it may give up is left open here.          *)
(***************************************************************************)
CONSTANT Page         \* every address a page could have

VARIABLES lent,       \* the pages that are lent out
          down        \* TRUE once the kernel has panicked

vars == <<lent, down>>

Init == lent = {} /\ down = FALSE

\* A page nobody holds is lent to the caller.
Lend == /\ ~down
        /\ \E p \in Page \ lent : lent' = lent \cup {p}
        /\ UNCHANGED down

\* The holder of a page hands it back.
Return == /\ ~down
          /\ \E p \in lent : lent' = lent \ {p}
          /\ UNCHANGED down

GiveUp == /\ ~down
          /\ down' = TRUE
          /\ UNCHANGED lent

Next == Lend \/ Return \/ GiveUp

Spec == Init /\ [][Next]_vars
=============================================================================
