-------------------------------- MODULE Mlfq --------------------------------
(***************************************************************************)
(* What a multi-level feedback queue does, with the queues as sequences:   *)
(* a new process enters at the front of the top queue; the current process *)
(* pays for its slice and, when it cannot, moves to the front of the next  *)
(* queue down; the processor then goes to the highest queue that is not    *)
(* empty, round robin inside it.                                           *)
(***************************************************************************)
EXTENDS Integers, Sequences, SequencesExt

CONSTANTS Pid, None, Queues, StartingTickets, SliceCost

Level == 0 .. Queues - 1

VARIABLES queue,     \* queue[l]: the processes of level l, front first
          tickets,   \* tickets[p]: what process p has left at its level
          running    \* the process that has the processor, or None

vars == <<queue, tickets, running>>

Init == /\ queue = [l \in Level |-> <<>>]
        /\ tickets = [p \in Pid |-> 0]
        /\ running = None

Waiting == {p \in Pid : \A l \in Level : ~Contains(queue[l], p)}

Admit(p) == /\ p \in Waiting
            /\ queue' = [queue EXCEPT ![0] = <<p>> \o @]
            /\ tickets' = [tickets EXCEPT ![p] = StartingTickets]
            /\ UNCHANGED running

LevelOf(q, p) == CHOOSE l \in Level : Contains(q[l], p)

Position(s, p) == CHOOSE i \in DOMAIN s : s[i] = p

\* The queues after the running process paid, or moved down a level.
MovedDown(l) == [queue EXCEPT ![l] = RemoveAt(@, Position(@, running)),
                              ![l + 1] = <<running>> \o @]
Charged ==
  LET l == LevelOf(queue, running)
  IN  IF tickets[running] >= SliceCost
      THEN <<queue, tickets[running] - SliceCost>>
      ELSE IF l < Queues - 1 THEN <<MovedDown(l), StartingTickets>>
                             ELSE <<queue, 0>>

\* The highest queue that is not empty.
Top(q) == CHOOSE l \in Level : /\ q[l] # <<>>
                               /\ \A m \in 0 .. l - 1 : q[m] = <<>>

\* Round robin: the one behind p, or the front when p is last.
Behind(s, p) == LET i == Position(s, p)
                IN  IF i = Len(s) THEN s[1] ELSE s[i + 1]

Slice ==
  \/ /\ running = None
     /\ \/ /\ \A l \in Level : queue[l] = <<>>
           /\ UNCHANGED running
        \/ /\ \E l \in Level : queue[l] # <<>>
           /\ running' = queue[Top(queue)][1]
     /\ UNCHANGED <<queue, tickets>>
  \/ /\ running # None
     /\ queue' = Charged[1]
     /\ tickets' = [tickets EXCEPT ![running] = Charged[2]]
     /\ running' = IF Top(queue') = LevelOf(queue', running)
                   THEN Behind(queue'[Top(queue')], running)
                   ELSE queue'[Top(queue')][1]

Next == Slice \/ \E p \in Pid : Admit(p)

Spec == Init /\ [][Next]_vars
=============================================================================
