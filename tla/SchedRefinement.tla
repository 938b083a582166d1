-------------------------- MODULE SchedRefinement --------------------------
(***************************************************************************)
(* The linked lists of Sched implement the queues of Mlfq.                 *)
(***************************************************************************)
EXTENDS Sched, Functions

\* s is the list that starts at h: each entry links to the one behind it, and
\* the last one to none.
IsList(s, h, links) ==
  /\ h = IF s = <<>> THEN NULL ELSE s[1]
  /\ \A i \in DOMAIN s : links[s[i]] = IF i = Len(s) THEN NULL ELSE s[i + 1]
  /\ IsInjective(s)

\* The processes of the list that starts at h, in order.
PidRows == UNION {[1 .. n -> Pid] : n \in 0 .. MaxProcesses - 1}
SeqFrom(h, links) == CHOOSE s \in PidRows : IsList(s, h, links)

queues == [q \in Priority |-> SeqFrom(head[q], next)]

QueueOf == INSTANCE Mlfq WITH
             None <- NULL, running <- current, queue <- queues

\* Every step of sched_update and sched_addpid on the linked lists is the
\* step of a multi-level feedback queue, or changes nothing.
SchedImplementsMlfq == QueueOf!Spec
=============================================================================
