-------------------------------- MODULE Sched --------------------------------
(***************************************************************************)
(* The process scheduler, kernel/drivers/process/sched.c: a multi-level    *)
(* feedback queue kept as linked lists of the entries proc_list[pid].      *)
(* sched_update runs at every timer interrupt and every system call,       *)
(* sched_addpid inside process_execve; both run to completion in an        *)
(* interrupt handler.  Nothing ever leaves the scheduler.                  *)
(***************************************************************************)
EXTENDS Integers, Sequences

CONSTANTS MaxProcesses,     \* MAX_PROCESSES
          Queues,           \* MAX_PRIORITY_QUEUES
          StartingTickets,  \* STARTING_TICKETS
          SliceCost,        \* FULL_TIMESLICE_COST
          EarlyCommands     \* processes may be started before sched_init

ASSUME MaxProcessesAssumption == MaxProcesses \in Nat /\ MaxProcesses >= 2
ASSUME QueuesAssumption == Queues \in Nat \ {0}
ASSUME TicketsAssumption == StartingTickets \in Nat /\ SliceCost \in Nat \ {0}
ASSUME EarlyCommandsAssumption == EarlyCommands \in BOOLEAN

\* A process entry is named by its pid; PID 0, the idle process, is never
\* scheduled, and stands for the null pointer.
Pid == 1 .. MaxProcesses - 1
NULL == 0
Link == Pid \cup {NULL}
Priority == 0 .. Queues - 1

VARIABLES
  head,      \* proc_priority_list
  next,      \* next[p]: proc_list[p].next_process
  priority,  \* proc_list[p].priority
  tickets,   \* proc_list[p].tickets_remaining
  current,   \* current_process
  booted,    \* sched_init has run
  added,     \* history: the processes added since sched_init
  panicked

lists == <<head, next, priority>>
vars == <<lists, tickets, current, booted, added, panicked>>

Init ==
  /\ head = [q \in Priority |-> NULL]
  /\ next = [p \in Pid |-> NULL]
  /\ priority = [p \in Pid |-> 0]
  /\ tickets = [p \in Pid |-> 0]
  /\ current = NULL
  /\ booted = FALSE
  /\ added = {}
  /\ panicked = "none"

Running == panicked = "none"
-----------------------------------------------------------------------------
\* sched_init, which does not reset current_process.
sched_init ==
  /\ Running /\ ~booted
  /\ head' = [q \in Priority |-> NULL]
  /\ booted' = TRUE
  /\ added' = {}
  /\ UNCHANGED <<next, priority, tickets, current, panicked>>

\* sched_addpid with a bug: the old front of the list is dropped.
sched_addpid_DropsList(pid) ==
  /\ priority' = [priority EXCEPT ![pid] = 0]
  /\ tickets' = [tickets EXCEPT ![pid] = StartingTickets]
  /\ next' = [next EXCEPT ![pid] = NULL]
  /\ head' = [head EXCEPT ![0] = pid]
  /\ added' = added \cup {pid}
  /\ UNCHANGED <<current, booted, panicked>>

\* sched_addpid.  Its check that the process exists always succeeds: its one
\* caller, process_execve, has just made the process RUNNABLE.
sched_addpid(pid) ==
  /\ priority' = [priority EXCEPT ![pid] = 0]
  /\ tickets' = [tickets EXCEPT ![pid] = StartingTickets]
  /\ next' = [next EXCEPT ![pid] = head[0]]
  /\ head' = [head EXCEPT ![0] = pid]
  /\ added' = added \cup {pid}
  /\ UNCHANGED <<current, booted, panicked>>

\* process_execve gives out a pid once.
StartProcess(pid) ==
  /\ Running /\ (booted \/ EarlyCommands)
  /\ pid \notin added
  /\ sched_addpid(pid)

\* The entries met when following the links from h on: the ones in every set
\* that contains h and is closed under next.
Closed(S) == \A x \in S : next[x] # NULL => next[x] \in S
Chain(h) == {x \in Pid : \A S \in SUBSET Pid :
                           (h # NULL => h \in S) /\ Closed(S) => x \in S}

\* The current process has used up its tickets and is not yet at the bottom.
Expired == tickets[current] - SliceCost < 0
Demoted == Expired /\ priority[current] < Queues - 1

\* The entry of its queue that links to it, the first one met (a second one
\* would be met after the current process itself).
Links == {x \in Chain(head[priority[current]]) : next[x] = current}
Before == {x \in Links : Links = {x} \/ x \notin Chain(current)}

\* The two sanity checks of the move to a lower queue; the search of the
\* second does not end when the list runs in a circle.
SanityChecks == {"head of list is empty", "cannot find current process",
                 "endless search"}
LostHead == Demoted /\ head[priority[current]] = NULL
LostEntry == /\ Demoted
             /\ head[priority[current]] \notin {NULL, current}
             /\ Links = {}
Endless == \A x \in Chain(head[priority[current]]) : next[x] # NULL

\* head, next, priority and tickets once the current process has paid.
HeadPaid ==
  IF ~Demoted THEN head
  ELSE [head EXCEPT ![priority[current]] = IF @ = current THEN next[current]
                                                          ELSE @,
                    ![priority[current] + 1] = current]
\* NextPaid with a bug: the process before it still links to it.
NextPaid_StillLinked ==
  IF ~Demoted THEN next
  ELSE [next EXCEPT ![current] = head[priority[current] + 1]]

NextPaid ==
  IF ~Demoted THEN next
  ELSE [x \in Pid |->
          IF x = current THEN head[priority[current] + 1]
          ELSE IF x \in Before /\ head[priority[current]] # current
               THEN next[current] ELSE next[x]]
\* PriorityPaid with a bug: the priority is not changed.
PriorityPaid_Kept == priority

PriorityPaid ==
  IF ~Demoted THEN priority ELSE [priority EXCEPT ![current] = @ + 1]

\* TicketsPaid with a bug: no new tickets after a move down.
TicketsPaid_NoRefill ==
  [tickets EXCEPT ![current] = IF Expired THEN 0 ELSE @ - SliceCost]

TicketsPaid ==
  [tickets EXCEPT ![current] = IF Demoted THEN StartingTickets
                               ELSE IF Expired THEN 0 ELSE @ - SliceCost]

\* The front of the highest queue that is not empty, else the default.
Highest(h, default) ==
  IF \A q \in Priority : h[q] = NULL THEN default
  ELSE h[CHOOSE q \in Priority : /\ h[q] # NULL
                                 /\ \A r \in 0 .. q - 1 : h[r] = NULL]

\* Successor with a bug: always the front of the list.
Successor_Front(h, n, pr) == Highest(h, current)

\* Scenarios 2 to 4: a process of a higher queue, the one behind in the list,
\* the front of the list, or the same process again.
Successor(h, n, pr) ==
  LET best == Highest(h, current)
  IN  IF pr[current] # 0 /\ pr[best] < pr[current] THEN best
      ELSE IF n[current] # NULL THEN n[current]
      ELSE IF h[pr[current]] # NULL THEN h[pr[current]]
      ELSE current

sched_update ==
  /\ Running
  /\ \/ /\ current = NULL
        /\ current' = Highest(head, NULL)
        /\ UNCHANGED <<lists, tickets, panicked>>
     \/ /\ current # NULL /\ ~LostHead /\ ~LostEntry
        /\ head' = HeadPaid
        /\ next' = NextPaid
        /\ priority' = PriorityPaid
        /\ tickets' = TicketsPaid
        /\ current' = Successor(HeadPaid, NextPaid, PriorityPaid)
        /\ UNCHANGED panicked
     \/ /\ current # NULL /\ (LostHead \/ LostEntry)
        /\ panicked' = IF LostHead THEN "head of list is empty"
                       ELSE IF Endless THEN "endless search"
                       ELSE "cannot find current process"
        /\ tickets' = [tickets EXCEPT ![current] = 0]
        /\ UNCHANGED <<lists, current>>
  /\ UNCHANGED <<booted, added>>

Next ==
  \/ sched_init
  \/ \E pid \in Pid : StartProcess(pid)
  \/ sched_update

\* The timer interrupts at a fixed rate, for ever, and every interrupt runs
\* sched_update; the boot code reaches sched_init.
Spec == Init /\ [][Next]_vars /\ WF_vars(sched_update) /\ WF_vars(sched_init)
-----------------------------------------------------------------------------
(* Properties. *)

\* Each entry is linked to once, from the head of its queue or from an entry
\* of its queue: the lists do not share entries, branch or lose one.
Linked ==
  /\ \A q \in Priority : head[q] # NULL =>
       head[q] \in added /\ priority[head[q]] = q
  /\ \A p \in added : next[p] # NULL =>
       next[p] \in added /\ priority[next[p]] = priority[p]
  /\ \A p \in added : head[priority[p]] # p =>
       \E x \in added : next[x] = p
  /\ \A p, x \in added : next[x] = p =>
       head[priority[p]] # p /\ (\A y \in added : next[y] = p => y = x)

\* The lists stay linked, so the searches of sched_update find what they look
\* for, and none of its sanity checks fails (sched.c:127, 147).
LinkedOnce == Linked /\ Running

\* Nobody starves: a process in the scheduler gets the processor again and
\* again.
EveryoneRuns == \A p \in Pid : (booted /\ p \in added) ~> (current = p)
=============================================================================
