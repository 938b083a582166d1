--------------------------- MODULE ProcessProofs ---------------------------
(***************************************************************************)
(* LinkedOnce of Sched, for every number of processes, queues and tickets: *)
(* the linked lists of sched.c stay linked, and the searches and sanity    *)
(* checks of sched_update succeed, whatever the order of timer interrupts  *)
(* and new processes after sched_init.  Linked alone is not inductive: it  *)
(* allows a ring of entries that no head leads to, and the search for the  *)
(* entry before the current process would miss it.  NoneLost rules it out. *)
(*                                                                         *)
(* On top of that, SchedImplementsMlfq: each step on the linked lists is   *)
(* one on the queues of Mlfq.  A list is a sequence without repetitions    *)
(* that follows the links to their end (IsList), and there is only one     *)
(* from each head (SeqFromIs), so that a step is understood from the       *)
(* sequences it leaves: a process put in front (ListPrepended) or taken    *)
(* out (ProcessWithout).  Order says that there is a list from each head   *)
(* and that it has the processes of that priority.                         *)
(*                                                                         *)
(* Then the process table and the scheduler together, for every size of    *)
(* either and any number of pages: TableMatchesScheduler,                  *)
(* EachProcessOnePage and PanicOnlyWhenStale of Process, with programs     *)
(* started at any time, also between process_init and sched_init.          *)
(*                                                                         *)
(* Once sched_init has run the lists are linked (ListsInv), even with a    *)
(* current process that it left behind: that process is in no list, so it  *)
(* panics before it can change one.  Before sched_init nothing is known of *)
(* the lists, if a program was started early, but the type of their links. *)
(*                                                                         *)
(* Last, what is printed.  PrintsItsItems: printf prints any row of        *)
(* conversions as it is meant, numbers of any length within the buffer.    *)
(* tlapm knows nothing of powers, so that 2 ^ n is counted as the subsets  *)
(* of a set (Powers), and a number's digits are those of Digits, as many   *)
(* as Width, which both the loop of print_uint_to_string and the numeral   *)
(* are.  The loop of printf goes through the rows of what is left of the   *)
(* format and of the arguments (Rows), one item a round.                   *)
(* ListingShowsNames follows the name of each process through strcpy and   *)
(* rpad (Holds: where a string is in memory), from the struct to the line  *)
(* of the listing.                                                         *)
(***************************************************************************)
EXTENDS Process, SchedRefinement, FiniteSetTheorems, SequenceTheorems, NaturalsInduction,
        WellFoundedInduction, TLAPS

\* Every process in the scheduler is met when following the links from the
\* head of the queue it belongs to: none is lost.
NoneLost == \A p \in added : p \in Chain(head[priority[p]])

\* What sched_addpid and sched_update keep true of the lists.
ListsInv ==
  /\ head \in [Priority -> Link]
  /\ next \in [Pid -> Link]
  /\ priority \in [Pid -> Priority]
  /\ added \subseteq Pid
  /\ Linked
  /\ NoneLost

\* The inductive invariant.
SchedInv ==
  /\ ListsInv
  /\ current \in added \cup {NULL}
  /\ ~booted => added = {}
  /\ Running
-----------------------------------------------------------------------------
(* Facts about the operators. *)

\* NULL is no process, and there is a first queue.
LEMMA PidFacts == NULL \notin Pid /\ Pid \subseteq Nat /\ 0 \in Priority
  BY QueuesAssumption DEF Pid, NULL, Priority

\* What is on the chain is in every closed set the chain starts in.
LEMMA ChainWithin ==
  ASSUME NEW h, NEW x \in Chain(h), NEW S \in SUBSET Pid,
         h # NULL => h \in S, Closed(S)
  PROVE  x \in S
  BY DEF Chain

\* A chain contains its start, and the successor of each of its entries.
LEMMA ChainClosed ==
  ASSUME next \in [Pid -> Link], NEW h \in Link
  PROVE  /\ Chain(h) \in SUBSET Pid
         /\ h # NULL => h \in Chain(h)
         /\ Closed(Chain(h))
<1>1. Chain(h) \in SUBSET Pid
  BY DEF Chain
<1>2. h # NULL => h \in Chain(h)
  BY DEF Chain, Link
<1>3. ASSUME NEW x \in Chain(h), next[x] # NULL
      PROVE  next[x] \in Chain(h)
  <2>1. next[x] \in Pid
    BY <1>1, <1>3 DEF Link
  <2>2. ASSUME NEW S \in SUBSET Pid, h # NULL => h \in S, Closed(S)
        PROVE  next[x] \in S
    BY <1>3, <2>2, ChainWithin DEF Closed
  <2> QED
    BY <2>1, <2>2 DEF Chain
<1> QED
  BY <1>1, <1>2, <1>3 DEF Closed

\* A set of natural numbers that is not empty has a least element.
LEMMA LeastOf ==
  ASSUME NEW S \in SUBSET Nat, S # {}
  PROVE  \E m \in S : \A x \in S : m <= x
<1>1. PICK n \in S : \A k \in S : ~(<<k, n>> \in OpToRel(<, Nat))
  BY WFMin, NatLessThanWellFounded
<1>2. \A k \in S : ~(k < n)
  BY <1>1 DEF OpToRel
<1>3. \A k \in S : n <= k
  BY <1>2
<1> QED
  BY <1>3

\* The search over the queues ends with the head of a queue that is not empty,
\* or with the default.
LEMMA HighestIsHead ==
  ASSUME NEW h, NEW default
  PROVE  \/ Highest(h, default) = default
         \/ \E q \in Priority : h[q] # NULL /\ Highest(h, default) = h[q]
<1> DEFINE Full == {q \in Priority : h[q] # NULL}
<1>1. CASE Full = {}
  BY <1>1 DEF Highest
<1>2. CASE Full # {}
  <2> Full \subseteq Nat
    BY QueuesAssumption DEF Priority
  <2> HIDE DEF Full
  <2>1. PICK q \in Full : \A m \in Full : q <= m
    BY <1>2, LeastOf
  <2> USE DEF Full
  <2>2. \A r \in 0 .. q - 1 : h[r] = NULL
    BY <2>1, QueuesAssumption DEF Priority
  <2>3. \E n \in Priority : h[n] # NULL /\ \A r \in 0 .. n - 1 : h[r] = NULL
    BY <2>1, <2>2
  <2> QED
    BY <2>1, <2>3 DEF Highest
<1> QED
  BY <1>1, <1>2

\* Whatever the scenario, sched_update goes on with a process that the
\* scheduler has.
LEMMA SuccessorIsAdded ==
  ASSUME NEW h, NEW n, NEW pr, current \in added,
         \A q \in Priority : h[q] \in added \cup {NULL},
         n[current] \in added \cup {NULL},
         pr[current] \in Priority
  PROVE  Successor(h, n, pr) \in added
<1> DEFINE best == Highest(h, current)
<1>1. best \in added
  BY HighestIsHead
<1> QED
  BY <1>1 DEF Successor
-----------------------------------------------------------------------------
(* Where the current process stands in its queue. *)

\* Its queue has a head; unless it is the head itself, exactly one other entry
\* links to it, and the search finds that one.
LEMMA CurrentIsFound ==
  ASSUME ListsInv, current \in added
  PROVE  /\ ~LostHead /\ ~LostEntry
         /\ next[current] # current
         /\ head[priority[current]] # current =>
              \E b \in added : /\ b # current /\ next[b] = current
                               /\ Before = {b}
<1> DEFINE c == current
           h == head[priority[c]]
           C == Chain(h)
<1>1. /\ c \in added /\ c \in Pid /\ priority[c] \in Priority /\ h \in Link
      /\ c \in C
  BY DEF ListsInv, NoneLost
<1>2. /\ C \in SUBSET Pid /\ (h # NULL => h \in C) /\ Closed(C)
  BY <1>1, ChainClosed DEF ListsInv
<1>3. h # NULL
  <2>1. SUFFICES ASSUME h = NULL PROVE FALSE
    OBVIOUS
  <2>2. Closed({})
    BY DEF Closed
  <2> QED
    BY <1>1, <2>1, <2>2, ChainWithin
<1>4. C \subseteq added
  <2>1. Closed(added) /\ h \in added
    BY <1>1, <1>3 DEF ListsInv, Linked, Closed
  <2> QED
    BY <2>1, ChainWithin DEF ListsInv
<1>5. \A x, y \in added : next[x] = c /\ next[y] = c => x = y
  BY <1>1 DEF ListsInv, Linked
<1>6. ASSUME h # c
      PROVE  \E b \in C : b # c /\ next[b] = c
  <2>1. SUFFICES ASSUME \A b \in C : b # c => next[b] # c PROVE FALSE
    OBVIOUS
  <2>2. Closed(C \ {c})
    BY <1>2, <2>1 DEF Closed
  <2>3. h \in C \ {c} /\ C \ {c} \in SUBSET Pid
    BY <1>2, <1>3, <1>6
  <2> QED
    BY <1>1, <2>2, <2>3, ChainWithin
<1>7. next[c] # c
  <2>1. CASE h = c
    BY <1>1, <2>1 DEF ListsInv, Linked
  <2>2. CASE h # c
    BY <1>1, <1>4, <1>5, <1>6, <2>2
  <2> QED
    BY <2>1, <2>2
<1>8. ASSUME h # c
      PROVE  \E b \in added : b # c /\ next[b] = c /\ Links = {b} /\ Before = {b}
  <2>1. PICK b \in C : b # c /\ next[b] = c
    BY <1>6, <1>8
  <2>2. Links = {b}
    BY <1>4, <1>5, <2>1 DEF Links
  <2> QED
    BY <1>4, <2>1, <2>2 DEF Before
<1> QED
  BY <1>3, <1>7, <1>8 DEF LostHead, LostEntry
-----------------------------------------------------------------------------
(* The steps. *)

\* The lists are empty until sched_init has run, and right after it.
LEMMA InitSchedInv == Init => SchedInv
  BY QueuesAssumption
     DEF Init, SchedInv, ListsInv, Linked, NoneLost, Running, Link, Priority, NULL

\* sched_init does not reset current_process, but nothing was current before.
LEMMA SchedInit == SchedInv /\ sched_init => SchedInv'
<1> SUFFICES ASSUME SchedInv, sched_init PROVE SchedInv'
  OBVIOUS
<1>1. /\ added = {} /\ added' = {} /\ current' = NULL
      /\ head' = [q \in Priority |-> NULL]
      /\ UNCHANGED <<next, priority, panicked>>
  BY DEF SchedInv, sched_init
<1> QED
  BY <1>1 DEF SchedInv, ListsInv, Linked, NoneLost, Running, Link

\* A new process goes to the front of the first queue, before everyone there.
LEMMA AddPid ==
  ASSUME ListsInv, NEW pid \in Pid, pid \notin added, sched_addpid(pid)
  PROVE  ListsInv'
<1>1. /\ added' = added \cup {pid}
      /\ priority' = [priority EXCEPT ![pid] = 0]
      /\ next' = [next EXCEPT ![pid] = head[0]]
      /\ head' = [head EXCEPT ![0] = pid]
  BY DEF sched_addpid
<1>2. /\ head \in [Priority -> Link] /\ next \in [Pid -> Link]
      /\ priority \in [Pid -> Priority] /\ added \subseteq Pid
      /\ 0 \in Priority /\ NULL \notin Pid
  BY PidFacts DEF ListsInv
<1>3. /\ head' \in [Priority -> Link] /\ next' \in [Pid -> Link]
      /\ priority' \in [Pid -> Priority] /\ added' \subseteq Pid
  BY <1>1, <1>2 DEF ListsInv, Link
<1>4. /\ \A p \in added : /\ p \in Pid /\ p # pid /\ next[p] # pid
                          /\ priority'[p] = priority[p] /\ next'[p] = next[p]
      /\ priority'[pid] = 0 /\ next'[pid] = head[0]
      /\ head'[0] = pid /\ \A q \in Priority : q # 0 => head'[q] = head[q]
      /\ head[0] # NULL => head[0] \in added /\ priority[head[0]] = 0
  BY <1>1, <1>2 DEF ListsInv, Linked
<1>5. Linked'
  <2>1. \A q \in Priority : head'[q] # NULL =>
          head'[q] \in added' /\ priority'[head'[q]] = q
    BY <1>1, <1>4 DEF ListsInv, Linked
  <2>2. \A p \in added' : next'[p] # NULL =>
          next'[p] \in added' /\ priority'[next'[p]] = priority'[p]
    BY <1>1, <1>4 DEF ListsInv, Linked
  <2>3. \A p \in added' : head'[priority'[p]] # p => \E x \in added' : next'[x] = p
    BY <1>1, <1>2, <1>4 DEF ListsInv, Linked
  <2>4. \A p, x \in added' : next'[x] = p =>
          head'[priority'[p]] # p /\ (\A y \in added' : next'[y] = p => y = x)
    BY <1>1, <1>2, <1>4 DEF ListsInv, Linked
  <2> QED
    BY <2>1, <2>2, <2>3, <2>4 DEF Linked
<1>6. ASSUME NEW p \in added', NEW S \in SUBSET Pid,
             head'[priority'[p]] # NULL => head'[priority'[p]] \in S, Closed(S)'
      PROVE  p \in S
  <2>1. CASE p = pid
    BY <1>2, <1>4, <1>6, <2>1
  <2>2. CASE p # pid
    <3> DEFINE T == S \cap added
    <3>1. p \in added /\ p \in Chain(head[priority[p]]) /\ priority[p] \in Priority
      BY <1>1, <1>2, <2>2 DEF ListsInv, NoneLost
    <3>2. Closed(T)
      BY <1>2, <1>4, <1>6 DEF ListsInv, Linked, Closed
    <3>3. head[priority[p]] # NULL => head[priority[p]] \in T
      BY <1>2, <1>4, <1>6, <3>1 DEF ListsInv, Linked, Closed
    <3> QED
      BY <3>1, <3>2, <3>3, ChainWithin
  <2> QED
    BY <2>1, <2>2
<1>7. NoneLost'
  BY <1>3, <1>6 DEF NoneLost, Chain
<1> QED
  BY <1>3, <1>5, <1>7 DEF ListsInv

\* The move to the next queue: taken out of its queue, whether it was the head
\* or behind another entry, and put in front of the next.
LEMMA Demotion ==
  ASSUME ListsInv, current \in added, Demoted, UNCHANGED added,
         head' = HeadPaid, next' = NextPaid, priority' = PriorityPaid
  PROVE  ListsInv'
<1> DEFINE c == current
           q == priority[c]
           d == head[q + 1]
<1>1. /\ head \in [Priority -> Link] /\ next \in [Pid -> Link]
      /\ priority \in [Pid -> Priority] /\ added \subseteq Pid
      /\ c \in added /\ c \in Pid /\ NULL \notin Pid
  BY PidFacts DEF ListsInv
<1>2. /\ q \in Priority /\ q + 1 \in Priority /\ q + 1 # q
      /\ d \in Link /\ d # c
      /\ d # NULL => d \in added /\ priority[d] = q + 1
  <2>1. q \in Priority /\ q < Queues - 1
    BY <1>1 DEF Demoted
  <2>2. q + 1 \in Priority /\ q + 1 # q
    BY <2>1, QueuesAssumption DEF Priority
  <2> QED
    BY <1>1, <2>1, <2>2 DEF ListsInv, Linked
<1>3. /\ next[c] # c
      /\ next[c] # NULL => next[c] \in added /\ priority[next[c]] = q
  BY <1>1, CurrentIsFound DEF ListsInv, Linked
<1>4. /\ head' = [head EXCEPT ![q] = IF head[q] = c THEN next[c] ELSE head[q],
                             ![q + 1] = c]
      /\ priority' = [priority EXCEPT ![c] = q + 1]
      /\ next' = [x \in Pid |->
                   IF x = c THEN d
                   ELSE IF x \in Before /\ head[q] # c THEN next[c] ELSE next[x]]
      /\ added' = added
  BY <1>1, <1>2 DEF HeadPaid, NextPaid, PriorityPaid
<1> HIDE DEF q, d
<1>5. /\ head' \in [Priority -> Link] /\ next' \in [Pid -> Link]
      /\ priority' \in [Pid -> Priority]
  BY <1>1, <1>2, <1>4 DEF Link
<1>6. /\ head'[q] = IF head[q] = c THEN next[c] ELSE head[q]
      /\ head'[q + 1] = c
      /\ \A r \in Priority : r \notin {q, q + 1} => head'[r] = head[r]
      /\ priority'[c] = q + 1 /\ priority[c] = q
      /\ \A p \in added : p # c => priority'[p] = priority[p]
      /\ next'[c] = d
  BY <1>1, <1>2, <1>4 DEF q
\* The entry before the current process, if it is not the head.
<1>7. PICK b \in added \cup {NULL} :
        /\ head[q] = c => b = NULL
        /\ head[q] # c => b \in added /\ b # c /\ next[b] = c
        /\ b # NULL => next'[b] = next[c]
        /\ \A p \in added : p \notin {b, c} => next'[p] = next[p] /\ next[p] # c
  <2>1. CASE head[q] = c
    <3>1. \A p \in added : p # c => next'[p] = next[p] /\ next[p] # c
      BY <1>1, <1>4, <2>1 DEF ListsInv, Linked, q
    <3> QED
      BY <2>1, <3>1
  <2>2. CASE head[q] # c
    <3>1. PICK b \in added : b # c /\ next[b] = c /\ Before = {b}
      BY <1>1, <2>2, CurrentIsFound DEF q
    <3>2. next'[b] = next[c]
      BY <1>1, <1>4, <2>2, <3>1
    <3>3. \A p \in added : p \notin {b, c} => next'[p] = next[p] /\ next[p] # c
      BY <1>1, <1>4, <2>2, <3>1 DEF ListsInv, Linked
    <3> QED
      BY <1>1, <2>2, <3>1, <3>2, <3>3
  <2> QED
    BY <2>1, <2>2
<1>8. b # NULL => b \in added /\ b # c /\ next[b] = c /\ priority[b] = q
                  /\ head[q] # c
  BY <1>1, <1>6, <1>7 DEF ListsInv, Linked
<1>9. Linked'
  <2> Linked
    BY DEF ListsInv
  <2> USE <1>1, <1>2, <1>3, <1>6, <1>7, <1>8
  <2>1. ASSUME NEW r \in Priority, head'[r] # NULL
        PROVE  head'[r] \in added /\ priority'[head'[r]] = r
    <3>1. CASE r = q
      BY <2>1, <3>1, Linked DEF Linked
    <3>2. CASE r = q + 1
      BY <3>2
    <3>3. CASE r \notin {q, q + 1}
      BY <2>1, <3>3, Linked DEF Linked
    <3> QED
      BY <3>1, <3>2, <3>3
  <2>2. ASSUME NEW p \in added, next'[p] # NULL
        PROVE  next'[p] \in added /\ priority'[next'[p]] = priority'[p]
    <3>1. CASE p = c
      BY <2>2, <3>1
    <3>2. CASE p = b /\ p # c
      BY <2>2, <3>2
    <3>3. CASE p \notin {b, c}
      BY <2>2, <3>3, Linked DEF Linked
    <3> QED
      BY <3>1, <3>2, <3>3
  <2>3. ASSUME NEW p \in added, head'[priority'[p]] # p
        PROVE  \E x \in added : next'[x] = p
    <3>1. p # c
      BY <2>3
    <3>2. priority'[p] = priority[p] /\ priority[p] \in Priority
      BY <3>1
    <3>3. CASE p = next[c]
      <4>1. priority[p] = q /\ p # NULL
        BY <3>3
      <4>2. b # NULL
        BY <2>3, <3>2, <3>3, <4>1
      <4> QED
        BY <3>3, <4>2
    <3>4. CASE p = d
      BY <3>4
    <3>5. CASE p # next[c] /\ p # d
      <4>1. head[priority[p]] # p
        BY <2>3, <3>1, <3>2, <3>5 DEF d
      <4>2. PICK x \in added : next[x] = p
        BY <4>1, Linked DEF Linked
      <4>3. x \notin {b, c}
        BY <3>1, <3>5, <4>2
      <4> QED
        BY <4>2, <4>3
    <3> QED
      BY <3>3, <3>4, <3>5
  <2>4. ASSUME NEW p \in added, NEW x \in added, next'[x] = p
        PROVE  p # c /\ head'[priority'[p]] # p
    <3>1. p # c /\ p # NULL
      BY <2>4
    <3>2. priority'[p] = priority[p] /\ priority[p] \in Priority
      BY <3>1
    <3>3. CASE x = c
      BY <2>4, <3>1, <3>2, <3>3
    <3>4. CASE x = b /\ x # c
      <4>1. p = next[c] /\ head'[q] = head[q] /\ priority[p] = q
        BY <2>4, <3>1, <3>4
      <4> QED
        BY <3>1, <3>2, <4>1, Linked DEF Linked
    <3>5. CASE x \notin {b, c}
      <4>1. next[x] = p /\ head[priority[p]] # p
        BY <2>4, <3>5, Linked DEF Linked
      <4>2. p # next[c]
        BY <3>5, <4>1, Linked DEF Linked
      <4> QED
        BY <3>1, <3>2, <4>1, <4>2
    <3> QED
      BY <3>3, <3>4, <3>5
  <2>5. ASSUME NEW p \in added, NEW x \in added, NEW y \in added,
               next'[x] = p, next'[y] = p
        PROVE  x = y
    <3>1. d # NULL => \A z \in added : next[z] # d
      BY Linked DEF Linked, d
    <3>2. next[c] # d \/ d = NULL
      OBVIOUS
    <3>3. \A z \in added : z \notin {b, c} /\ next[z] # NULL => next[z] # next[c]
      BY Linked DEF Linked
    <3>4. p # NULL
      OBVIOUS
    <3> QED
      BY <2>5, <3>1, <3>2, <3>3, <3>4, Linked DEF Linked
  <2>6. added' = added
    BY <1>4
  <2> QED
    BY <2>1, <2>2, <2>3, <2>4, <2>5, <2>6 DEF Linked
<1>10. ASSUME NEW p \in added, NEW S \in SUBSET Pid,
              head'[priority'[p]] # NULL => head'[priority'[p]] \in S, Closed(S)'
       PROVE  p \in S
  <2>1. p \in Chain(head[priority[p]]) /\ priority[p] \in Priority /\ p \in Pid
    BY <1>1 DEF ListsInv, NoneLost
  <2>2. \A x \in S : next'[x] # NULL => next'[x] \in S
    BY <1>10 DEF Closed
  <2>3. CASE p = c
    BY <1>1, <1>6, <1>10, <2>3
  \* The queue it leaves: with the current process back in its place.
  <2>4. CASE p # c /\ priority[p] = q
    <3> DEFINE Q == {x \in S \cap added : priority[x] = q /\ x # c}
               T == IF b = NULL \/ b \in S THEN Q \cup {c} ELSE Q
    <3>1. head'[q] # NULL => head'[q] \in S
      BY <1>6, <1>10, <2>4
    <3>2. T \in SUBSET Pid
      BY <1>1
    <3>3. head[q] # NULL => head[q] \in T
      BY <1>1, <1>2, <1>6, <1>7, <1>8, <3>1 DEF ListsInv, Linked
    <3>4. ASSUME NEW x \in T, next[x] # NULL PROVE next[x] \in T
      <4>1. CASE x = c
        BY <1>1, <1>3, <1>6, <1>7, <1>8, <2>2, <3>1, <3>4, <4>1
      <4>2. CASE x = b /\ x # c
        BY <1>1, <1>8, <3>4, <4>2
      <4>3. CASE x # b /\ x # c
        BY <1>1, <1>7, <2>2, <3>4, <4>3 DEF ListsInv, Linked
      <4> QED
        BY <4>1, <4>2, <4>3
    <3> QED
      BY <2>1, <2>4, <3>2, <3>3, <3>4, ChainWithin DEF Closed
  \* The queue it joins, and every other queue.
  <2>5. CASE p # c /\ priority[p] # q
    <3> DEFINE T == {x \in S \cap added : priority[x] = priority[p]}
    <3>1. T \in SUBSET Pid
      BY <1>1
    <3>2. head[priority[p]] # NULL => head[priority[p]] \in T
      <4>1. head'[priority[p]] # NULL => head'[priority[p]] \in S
        BY <1>6, <1>10, <2>5
      <4>2. head[priority[p]] # NULL => head[priority[p]] \in S
        <5>1. CASE priority[p] = q + 1
          BY <1>1, <1>2, <1>6, <2>2, <4>1, <5>1 DEF d
        <5>2. CASE priority[p] # q + 1
          BY <1>6, <2>1, <2>5, <4>1, <5>2
        <5> QED
          BY <5>1, <5>2
      <4> QED
        BY <2>1, <4>2 DEF ListsInv, Linked
    <3>3. ASSUME NEW x \in T, next[x] # NULL PROVE next[x] \in T
      <4>1. x \in added /\ x \in S /\ x \notin {b, c}
        BY <1>1, <1>6, <1>8, <2>5, PidFacts
      <4>2. next'[x] = next[x]
        BY <1>7, <4>1
      <4> QED
        BY <2>2, <3>3, <4>1, <4>2 DEF ListsInv, Linked
    <3>4. Closed(T)
      BY <3>3 DEF Closed
    <3> HIDE DEF T
    <3>5. p \in T
      BY <2>1, <3>1, <3>2, <3>4, ChainWithin
    <3> QED
      BY <3>5 DEF T
  <2> QED
    BY <2>3, <2>4, <2>5
<1>11. NoneLost'
  BY <1>4, <1>1, <1>10 DEF NoneLost, Chain
<1> QED
  BY <1>1, <1>4, <1>5, <1>9, <1>11 DEF ListsInv

\* A step that leaves the lists alone leaves them linked.
LEMMA ListsKept ==
  ASSUME ListsInv, UNCHANGED <<head, next, priority, added>>
  PROVE  ListsInv'
  BY DEF ListsInv, Linked, NoneLost, Chain, Closed

\* A timer interrupt with nothing to run yet.
LEMMA UpdateIdle ==
  ASSUME ListsInv, sched_update, current = NULL
  PROVE  /\ ListsInv' /\ current' \in added \cup {NULL}
         /\ UNCHANGED <<added, booted, panicked>>
<1>1. /\ current' = Highest(head, NULL)
      /\ UNCHANGED <<head, next, priority, panicked, booted, added>>
  BY DEF sched_update, lists
<1>2. current' \in added \cup {NULL}
  BY <1>1, HighestIsHead DEF ListsInv, Linked
<1> QED
  BY <1>1, <1>2, ListsKept

\* A timer interrupt while a process of the queues runs.
LEMMA UpdateRunning ==
  ASSUME ListsInv, sched_update, current \in added
  PROVE  /\ ListsInv' /\ current' \in added
         /\ UNCHANGED <<added, booted, panicked>>
<1>1. current # NULL /\ current \in Pid
  BY PidFacts DEF ListsInv
<1>2. /\ head' = HeadPaid /\ next' = NextPaid /\ priority' = PriorityPaid
      /\ current' = Successor(HeadPaid, NextPaid, PriorityPaid)
      /\ UNCHANGED <<panicked, booted, added>>
  BY <1>1, CurrentIsFound DEF sched_update
<1>3. ListsInv'
  <2>1. CASE Demoted
    BY <1>2, <2>1, Demotion
  <2>2. CASE ~Demoted
    BY <1>2, <2>2, ListsKept DEF HeadPaid, NextPaid, PriorityPaid
  <2> QED
    BY <2>1, <2>2
<1>4. /\ \A r \in Priority : head'[r] \in added \cup {NULL}
      /\ next'[current] \in added \cup {NULL}
      /\ priority'[current] \in Priority
  BY <1>1, <1>2, <1>3 DEF ListsInv, Linked
<1>5. current' = Successor(head', next', priority')
  BY <1>2
<1> QED
  BY <1>2, <1>3, <1>4, <1>5, SuccessorIsAdded

\* Each step keeps the lists linked, once programs are only started after
\* sched_init.
LEMMA NextSchedInv ==
  ASSUME EarlyCommands = FALSE, SchedInv, [Next]_vars
  PROVE  SchedInv'
<1>1. CASE UNCHANGED vars
  BY <1>1, ListsKept DEF vars, lists, SchedInv, Running
<1>2. ASSUME NEW pid \in Pid, StartProcess(pid) PROVE SchedInv'
  <2>1. booted /\ pid \notin added /\ sched_addpid(pid)
    BY <1>2 DEF StartProcess
  <2>2. ListsInv'
    BY <2>1, AddPid DEF SchedInv
  <2>3. added' = added \cup {pid} /\ UNCHANGED <<current, booted, panicked>>
    BY <2>1 DEF sched_addpid
  <2> QED
    BY <2>1, <2>2, <2>3 DEF SchedInv, Running
<1>3. CASE sched_update
  <2>1. /\ ListsInv' /\ current' \in added \cup {NULL}
        /\ UNCHANGED <<added, booted, panicked>>
    BY <1>3, UpdateIdle, UpdateRunning DEF SchedInv
  <2> QED
    BY <2>1 DEF SchedInv, Running
<1> QED
  BY <1>1, <1>2, <1>3, SchedInit DEF Next

\* Started only after sched_init, as the interrupt handlers are, the scheduler
\* keeps its lists linked: no process is lost or linked twice, and neither
\* sanity check of sched_update ever fails (sched.c:127, 147).
THEOREM SchedLinkedOnce ==
  ASSUME EarlyCommands = FALSE
  PROVE  Spec => []LinkedOnce
<1>1. SchedInv /\ [Next]_vars => SchedInv'
  BY NextSchedInv
<1>2. SchedInv => LinkedOnce
  BY DEF SchedInv, ListsInv, LinkedOnce
<1> QED
  BY InitSchedInv, <1>1, <1>2, PTL DEF Spec
-----------------------------------------------------------------------------
(* The linked lists as the queues of Mlfq. *)

\* A row is a sequence of processes.
LEMMA RowIsSeq ==
  ASSUME NEW s \in PidRows
  PROVE  s \in Seq(Pid) /\ Len(s) \in Nat /\ DOMAIN s = 1 .. Len(s)
<1>1. PICK n \in 0 .. MaxProcesses - 1 : s \in [1 .. n -> Pid]
  BY DEF PidRows
<1>2. s \in Seq(Pid)
  BY <1>1, MaxProcessesAssumption
<1> QED
  BY <1>2

\* No process is in a list twice, so that none is longer than the table.
LEMMA SeqIsRow ==
  ASSUME NEW s \in Seq(Pid), IsInjective(s)
  PROVE  s \in PidRows
<1> DEFINE n == Len(s)
           m == MaxProcesses - 1
<1>1. n \in Nat /\ m \in Nat /\ s \in [1 .. n -> Pid] /\ Pid = 1 .. m
  BY MaxProcessesAssumption DEF Pid
<1>2. IsFiniteSet(1 .. m) /\ Cardinality(1 .. m) = m
  <2>1. 1 \in Int /\ m \in Int
    BY <1>1
  <2> HIDE DEF m
  <2>2. Cardinality(1 .. m) = IF 1 > m THEN 0 ELSE m - 1 + 1
    BY <2>1, FS_Interval
  <2> QED
    BY <1>1, <2>1, <2>2, FS_Interval
<1>3. ASSUME n > m PROVE FALSE
  <2>1. IsFiniteSet(1 .. n) /\ Cardinality(1 .. n) = n
    <3>1. 1 \in Int /\ n \in Int
      BY <1>1
    <3> HIDE DEF n
    <3>2. Cardinality(1 .. n) = IF 1 > n THEN 0 ELSE n - 1 + 1
      BY <3>1, FS_Interval
    <3> QED
      BY <1>1, <3>1, <3>2, FS_Interval
  <2> HIDE DEF n, m
  <2>2. \E i, j \in 1 .. n : i # j /\ s[i] = s[j]
    <3>1. s \in [1 .. n -> 1 .. m] /\ Cardinality(1 .. m) < Cardinality(1 .. n)
      BY <1>1, <1>2, <1>3, <2>1
    <3> QED
      BY <1>2, <2>1, <3>1, FS_PigeonHole
  <2>3. DOMAIN s = 1 .. n
    BY <1>1
  <2> QED
    BY <2>2, <2>3 DEF IsInjective
<1>4. n \in 0 .. m
  BY <1>1, <1>3
<1> HIDE DEF n, m
<1>5. s \in [1 .. n -> Pid]
  BY <1>1
<1> QED
  BY <1>4, <1>5 DEF PidRows, m

\* Two lists from the same start have the same entries as far as both go.
LEMMA ListsAgree ==
  ASSUME NEW s \in Seq(Pid), NEW t \in Seq(Pid), NEW h, NEW n,
         IsList(s, h, n), IsList(t, h, n),
         NEW k \in 1 .. Len(s), k \in 1 .. Len(t)
  PROVE  s[k] = t[k]
<1> DEFINE D == {i \in Nat : i \in 1 .. Len(s) /\ i \in 1 .. Len(t) /\ s[i] # t[i]}
<1>0. Len(s) \in Nat /\ Len(t) \in Nat /\ DOMAIN s = 1 .. Len(s) /\ DOMAIN t = 1 .. Len(t)
  OBVIOUS
<1>1. SUFFICES ASSUME s[k] # t[k] PROVE FALSE
  OBVIOUS
<1>2. k \in D /\ D \subseteq Nat
  BY <1>0, <1>1
<1>3. PICK m \in D : \A i \in D : m <= i
  <2> HIDE DEF D
  <2> QED
    BY <1>2, LeastOf
<1>4. CASE m = 1
  <2>1. s # <<>> /\ t # <<>>
    BY <1>0, <1>3
  <2> QED
    BY <1>3, <1>4, <2>1 DEF IsList
<1>5. CASE m # 1
  <2> DEFINE j == m - 1
  <2>1. j \in 1 .. Len(s) /\ j \in 1 .. Len(t) /\ j # Len(s) /\ j # Len(t) /\ j + 1 = m
        /\ j \in Nat /\ ~(m <= j)
    BY <1>0, <1>3, <1>5
  <2>2. s[j] = t[j]
    BY <1>3, <2>1
  <2> HIDE DEF j
  <2>3. n[s[j]] = s[m] /\ n[t[j]] = t[m]
    BY <1>0, <2>1 DEF IsList
  <2> QED
    BY <1>3, <2>2, <2>3
<1> QED
  BY <1>4, <1>5

\* Neither ends before the other.
LEMMA ListsEnd ==
  ASSUME NEW s \in Seq(Pid), NEW t \in Seq(Pid), NEW h, NEW n,
         IsList(s, h, n), IsList(t, h, n)
  PROVE  ~(Len(s) < Len(t))
<1> SUFFICES ASSUME Len(s) < Len(t) PROVE FALSE
  OBVIOUS
<1> DEFINE l == Len(s)
<1>1. /\ l \in Nat /\ Len(t) \in Nat /\ DOMAIN s = 1 .. l /\ DOMAIN t = 1 .. Len(t)
      /\ l + 1 \in 1 .. Len(t) /\ t # <<>>
  OBVIOUS
<1>2. t[l + 1] \in Pid /\ t[l + 1] # NULL
  BY <1>1, PidFacts
<1>3. CASE l = 0
  <2>1. s = <<>> /\ l + 1 = 1
    BY <1>3
  <2>2. h = NULL /\ h = t[1]
    BY <1>1, <2>1 DEF IsList
  <2>3. t[1] \in Pid
    BY <1>1
  <2> QED
    BY <2>2, <2>3, PidFacts
<1>4. CASE l # 0
  <2>1. l \in 1 .. l /\ l \in 1 .. Len(t) /\ l # Len(t)
    <3> DEFINE u == Len(t)
    <3>1. l \in Nat /\ u \in Nat /\ l + 1 \in 1 .. u
      BY <1>1
    <3> HIDE DEF l, u
    <3>2. l \in 1 .. l /\ l \in 1 .. u /\ l # u
      BY <1>4, <3>1
    <3> QED
      BY <3>2 DEF u
  <2>2. s[l] = t[l]
    BY <2>1, ListsAgree
  <2>3. n[s[l]] = NULL /\ n[t[l]] = t[l + 1]
    BY <1>1, <2>1 DEF IsList
  <2> QED
    BY <1>2, <2>2, <2>3
<1> QED
  BY <1>3, <1>4

\* The list that starts at h is the one the refinement reads.
LEMMA SeqFromIs ==
  ASSUME NEW s \in Seq(Pid), NEW h, NEW n, IsList(s, h, n)
  PROVE  SeqFrom(h, n) = s
<1>1. s \in PidRows
  BY SeqIsRow DEF IsList
<1>2. ASSUME NEW t \in PidRows, IsList(t, h, n) PROVE t = s
  <2>1. t \in Seq(Pid)
    BY RowIsSeq
  <2>2. Len(t) = Len(s)
    <3>1. ~(Len(t) < Len(s)) /\ ~(Len(s) < Len(t))
      BY <1>2, <2>1, ListsEnd
    <3> QED
      BY <2>1, <3>1
  <2>3. \A i \in 1 .. Len(t) : t[i] = s[i]
    BY <1>2, <2>1, <2>2, ListsAgree
  <2> QED
    BY <2>1, <2>2, <2>3, SeqEqual
<1> QED
  BY <1>1, <1>2 DEF SeqFrom

\* A list in which no link was changed.
LEMMA ListStays ==
  ASSUME NEW s \in Seq(Pid), NEW h, NEW n, NEW m, IsList(s, h, n),
         \A p \in Range(s) : m[p] = n[p]
  PROVE  IsList(s, h, m)
<1>1. \A i \in DOMAIN s : s[i] \in Range(s)
  BY DEF Range
<1> QED
  BY <1>1 DEF IsList

\* A process put in front of a list.
LEMMA ListPrepended ==
  ASSUME NEW s \in Seq(Pid), NEW h, NEW n, NEW m, IsList(s, h, n),
         NEW p \in Pid, p \notin Range(s), m[p] = h,
         \A x \in Range(s) : m[x] = n[x]
  PROVE  LET t == <<p>> \o s
         IN  t \in Seq(Pid) /\ IsList(t, p, m) /\ Range(t) = Range(s) \cup {p}
<1> DEFINE t == <<p>> \o s
           l == Len(s)
<1>1. /\ l \in Nat /\ t \in Seq(Pid) /\ Len(t) = l + 1 /\ DOMAIN s = 1 .. l
      /\ DOMAIN t = 1 .. l + 1 /\ t[1] = p
      /\ \A i \in 1 .. l : t[i + 1] = s[i]
      /\ \A i \in 2 .. l + 1 : t[i] = s[i - 1]
  OBVIOUS
<1>2. \A i \in 1 .. l : s[i] \in Range(s)
  BY <1>1 DEF Range
<1> HIDE DEF t, l
<1>3. p = IF t = <<>> THEN NULL ELSE t[1]
  BY <1>1
<1>4. ASSUME NEW i \in 1 .. l + 1
      PROVE  m[t[i]] = IF i = l + 1 THEN NULL ELSE t[i + 1]
  <2>1. CASE i = 1
    <3>1. h = IF l = 0 THEN NULL ELSE s[1]
      BY <1>1 DEF IsList, l
    <3>2. l # 0 => 1 \in 1 .. l
      BY <1>1
    <3> QED
      BY <1>1, <2>1, <3>1, <3>2
  <2>2. CASE i # 1
    <3> DEFINE j == i - 1
    <3>1. j \in 1 .. l /\ (i = l + 1 <=> j = l) /\ j + 1 = i /\ i \in 2 .. l + 1
          /\ (j # l => j + 1 \in 1 .. l)
      BY <1>1, <2>2
    <3>2. n[s[j]] = IF j = l THEN NULL ELSE s[j + 1]
      BY <1>1, <3>1 DEF IsList, l
    <3>3. t[i] = s[j] /\ m[s[j]] = n[s[j]]
      BY <1>1, <1>2, <3>1
    <3> HIDE DEF j
    <3> QED
      BY <1>1, <3>1, <3>2, <3>3
  <2> QED
    BY <2>1, <2>2
<1>5. IsInjective(t)
  <2> SUFFICES ASSUME NEW i \in 1 .. l + 1, NEW j \in 1 .. l + 1, t[i] = t[j]
               PROVE  i = j
    BY <1>1 DEF IsInjective
  <2>1. ASSUME NEW k \in 1 .. l + 1, k # 1
        PROVE  k - 1 \in 1 .. l /\ t[k] = s[k - 1] /\ t[k] # p
    BY <1>1, <1>2, <2>1
  <2>2. CASE i = 1 \/ j = 1
    BY <1>1, <2>1, <2>2
  <2>3. CASE i # 1 /\ j # 1
    <3>1. i - 1 \in 1 .. l /\ j - 1 \in 1 .. l /\ s[i - 1] = s[j - 1]
      BY <2>1, <2>3
    <3>2. IsInjective(s)
      BY DEF IsList
    <3>3. i - 1 = j - 1
      BY <1>1, <3>1, <3>2 DEF IsInjective
    <3> QED
      BY <1>1, <3>3
  <2> QED
    BY <2>2, <2>3
<1>6. Range(t) = Range(s) \cup {p}
  <2>1. ASSUME NEW x \in Range(t) PROVE x \in Range(s) \cup {p}
    <3>1. PICK i \in 1 .. l + 1 : x = t[i]
      BY <1>1 DEF Range
    <3>2. i # 1 => i - 1 \in 1 .. l /\ t[i] = s[i - 1]
      BY <1>1
    <3> QED
      BY <1>1, <1>2, <3>1, <3>2
  <2>2. ASSUME NEW x \in Range(s) PROVE x \in Range(t)
    <3>1. PICK i \in 1 .. l : x = s[i]
      BY <1>1 DEF Range
    <3>2. i + 1 \in 1 .. l + 1 /\ t[i + 1] = s[i]
      BY <1>1
    <3> QED
      BY <1>1, <3>1, <3>2 DEF Range
  <2>3. p \in Range(t)
    <3>1. 1 \in 1 .. l + 1
      BY <1>1
    <3> QED
      BY <1>1, <3>1 DEF Range
  <2> QED
    BY <2>1, <2>2, <2>3
<1>7. IsList(t, p, m)
  BY <1>1, <1>3, <1>4, <1>5 DEF IsList
<1> QED
  BY <1>1, <1>6, <1>7 DEF t

\* A row without the entry at k.
LEMMA RowWithout ==
  ASSUME NEW s \in Seq(Pid), NEW k \in 1 .. Len(s)
  PROVE  LET t == QueueOf!RemoveAt(s, k)
         IN  /\ t \in Seq(Pid) /\ Len(t) = Len(s) - 1
             /\ \A i \in 1 .. Len(s) - 1 : t[i] = IF i < k THEN s[i] ELSE s[i + 1]
<1> DEFINE a == SubSeq(s, 1, k - 1)
           b == SubSeq(s, k + 1, Len(s))
           l == Len(s)
<1>1. l \in Nat /\ k \in 1 .. l
  OBVIOUS
<1>2. /\ a \in Seq(Pid) /\ Len(a) = k - 1
      /\ \A i \in 1 .. k - 1 : a[i] = s[i]
  OBVIOUS
<1>3. /\ b \in Seq(Pid) /\ Len(b) = l - k
      /\ \A i \in 1 .. l - k : b[i] = s[k + i]
  OBVIOUS
<1> HIDE DEF a, b, l
<1>4. /\ a \o b \in Seq(Pid) /\ Len(a \o b) = l - 1
      /\ \A i \in 1 .. l - 1 : (a \o b)[i] = IF i < k THEN a[i] ELSE b[i - (k - 1)]
  <2>1. /\ a \o b \in Seq(Pid) /\ Len(a \o b) = Len(a) + Len(b)
        /\ \A i \in 1 .. Len(a) + Len(b) :
             (a \o b)[i] = IF i <= Len(a) THEN a[i] ELSE b[i - Len(a)]
    BY <1>2, <1>3, ConcatProperties, Zenon
  <2>2. Len(a) + Len(b) = l - 1 /\ \A i \in 1 .. l - 1 : i <= k - 1 <=> i < k
    BY <1>1, <1>2, <1>3
  <2> QED
    BY <1>2, <2>1, <2>2
<1>5. ASSUME NEW i \in 1 .. l - 1
      PROVE  (a \o b)[i] = IF i < k THEN s[i] ELSE s[i + 1]
  <2>1. CASE i < k
    <3>1. i \in 1 .. k - 1
      BY <1>1, <2>1
    <3> QED
      BY <1>2, <1>4, <2>1, <3>1
  <2>2. CASE ~(i < k)
    <3>1. i - (k - 1) \in 1 .. l - k /\ k + (i - (k - 1)) = i + 1
      BY <1>1, <2>2
    <3> QED
      BY <1>3, <1>4, <2>2, <3>1
  <2> QED
    BY <2>1, <2>2
<1>6. QueueOf!RemoveAt(s, k) = a \o b
  BY DEF QueueOf!RemoveAt, a, b
<1> QED
  BY <1>4, <1>5, <1>6 DEF l

\* The links m are n, but pass the entry at k of s.
Bypassed(s, k, n, m) ==
  \A i \in 1 .. Len(s) : i # k => m[s[i]] = IF i + 1 = k THEN n[s[k]] ELSE n[s[i]]

\* A process taken out of a list, the entry before it linked to the one behind.
LEMMA ListWithout ==
  ASSUME NEW s \in Seq(Pid), NEW h, NEW n, NEW m, IsList(s, h, n),
         NEW k \in 1 .. Len(s), Bypassed(s, k, n, m)
  PROVE  LET t == QueueOf!RemoveAt(s, k)
         IN  /\ t \in Seq(Pid) /\ Range(t) = Range(s) \ {s[k]}
             /\ IsList(t, IF k = 1 THEN n[s[k]] ELSE h, m)
<1> DEFINE t == QueueOf!RemoveAt(s, k)
           g == IF k = 1 THEN n[s[k]] ELSE h
           l == Len(s)
<1>1. /\ t \in Seq(Pid) /\ Len(t) = l - 1 /\ l \in Nat /\ k \in 1 .. l
      /\ \A i \in 1 .. l - 1 : t[i] = IF i < k THEN s[i] ELSE s[i + 1]
      /\ DOMAIN s = 1 .. l
  BY RowWithout
<1> HIDE DEF t
<1>2. DOMAIN t = 1 .. l - 1 /\ (t = <<>> <=> l = 1)
  BY <1>1
<1>3. /\ h = s[1]
      /\ \A i \in 1 .. l : n[s[i]] = IF i = l THEN NULL ELSE s[i + 1]
      /\ \A i, j \in 1 .. l : s[i] = s[j] => i = j
      /\ \A i \in 1 .. l : i # k => m[s[i]] = IF i + 1 = k THEN n[s[k]] ELSE n[s[i]]
  <2>1. s # <<>>
    BY <1>1
  <2> QED
    BY <1>1, <2>1 DEF IsList, IsInjective, Bypassed
<1> HIDE DEF l
<1>4. g = IF t = <<>> THEN NULL ELSE t[1]
  <2>1. CASE l = 1
    <3>1. k = 1
      BY <1>1, <2>1
    <3> QED
      BY <1>1, <1>2, <1>3, <2>1, <3>1
  <2>2. CASE l # 1
    <3>1. 1 \in 1 .. l - 1 /\ (1 < k <=> k # 1)
      BY <1>1, <2>2
    <3> QED
      BY <1>1, <1>2, <1>3, <2>2, <3>1
  <2> QED
    BY <2>1, <2>2
<1>5. ASSUME NEW i \in 1 .. l - 1
      PROVE  m[t[i]] = IF i = l - 1 THEN NULL ELSE t[i + 1]
  <2>1. CASE i + 1 < k
    <3>1. i \in 1 .. l /\ i # k /\ i + 1 # k /\ i < k /\ i # l /\ i # l - 1 /\ i + 1 \in 1 .. l - 1
      BY <1>1, <2>1
    <3>2. t[i] = s[i] /\ t[i + 1] = s[i + 1]
      BY <1>1, <2>1, <3>1
    <3>3. m[s[i]] = n[s[i]] /\ n[s[i]] = s[i + 1]
      BY <1>3, <3>1
    <3> QED
      BY <3>1, <3>2, <3>3
  <2>2. CASE i + 1 = k
    <3>1. i \in 1 .. l /\ i # k /\ i < k /\ (k = l <=> i = l - 1)
          /\ (i # l - 1 => i + 1 \in 1 .. l - 1 /\ ~(i + 1 < k))
      BY <1>1, <2>2
    <3>2. m[t[i]] = n[s[k]]
      BY <1>1, <1>3, <2>2, <3>1
    <3>3. i # l - 1 => t[i + 1] = s[k + 1]
      BY <1>1, <2>2, <3>1
    <3> QED
      BY <1>1, <1>3, <3>1, <3>2, <3>3
  <2>3. CASE i + 1 > k
    <3> DEFINE j == i + 1
    <3>1. j \in 1 .. l /\ j # k /\ j + 1 # k /\ ~(i < k) /\ (j = l <=> i = l - 1)
          /\ (i # l - 1 => j \in 1 .. l - 1 /\ ~(j < k))
      BY <1>1, <2>3
    <3> HIDE DEF j
    <3>2. t[i] = s[j] /\ m[s[j]] = n[s[j]]
      BY <1>1, <1>3, <3>1 DEF j
    <3>3. i # l - 1 => t[j] = s[j + 1]
      BY <1>1, <3>1
    <3> QED
      BY <1>1, <1>3, <3>1, <3>2, <3>3 DEF j
  <2> QED
    BY <1>1, <2>1, <2>2, <2>3
<1>6. \A i \in 1 .. l - 1 : \E x \in 1 .. l : x # k /\ x = (IF i < k THEN i ELSE i + 1)
                                           /\ t[i] = s[x]
  BY <1>1
<1>7. IsInjective(t)
  <2> SUFFICES ASSUME NEW i \in 1 .. l - 1, NEW j \in 1 .. l - 1, t[i] = t[j]
               PROVE  i = j
    BY <1>2 DEF IsInjective
  <2>1. PICK x \in 1 .. l : x = (IF i < k THEN i ELSE i + 1) /\ t[i] = s[x]
    BY <1>6
  <2>2. PICK y \in 1 .. l : y = (IF j < k THEN j ELSE j + 1) /\ t[j] = s[y]
    BY <1>6
  <2>3. x = y
    <3>1. \A e, f \in 1 .. l : s[e] = s[f] => e = f
      BY <1>3
    <3> QED
      BY <2>1, <2>2, <3>1
  <2> QED
    BY <1>1, <2>1, <2>2, <2>3
<1>8. Range(t) = Range(s) \ {s[k]}
  <2>1. ASSUME NEW p \in Range(t) PROVE p \in Range(s) \ {s[k]}
    <3>1. PICK i \in 1 .. l - 1 : p = t[i]
      BY <1>2 DEF Range
    <3>2. PICK x \in 1 .. l : x # k /\ t[i] = s[x]
      BY <1>6
    <3>3. s[x] \in Range(s)
      BY <1>1 DEF Range
    <3>4. s[x] # s[k]
      BY <1>1, <1>3, <3>2
    <3> QED
      BY <3>1, <3>2, <3>3, <3>4
  <2>2. ASSUME NEW p \in Range(s), p # s[k] PROVE p \in Range(t)
    <3>1. PICK x \in 1 .. l : p = s[x]
      BY <1>1 DEF Range
    <3> DEFINE i == IF x < k THEN x ELSE x - 1
    <3>2. i \in 1 .. l - 1 /\ (IF i < k THEN i ELSE i + 1) = x
      BY <1>1, <2>2, <3>1
    <3> HIDE DEF i
    <3>3. t[i] = s[x]
      BY <1>1, <3>2
    <3> QED
      BY <1>2, <3>1, <3>2, <3>3 DEF Range
  <2> QED
    BY <2>1, <2>2
<1>9. IsList(t, g, m)
  <2>1. Len(t) = l - 1 /\ DOMAIN t = 1 .. l - 1
    BY <1>1, <1>2
  <2> QED
    BY <1>4, <1>5, <1>7, <2>1 DEF IsList
<1> HIDE DEF g
<1> QED
  BY <1>1, <1>8, <1>9 DEF t, g

\* R is the queues: the lists from the heads h along the links n, and the
\* processes of A, each in the queue of its priority.
Order(R, h, n, pr, A) ==
  /\ R \in [Priority -> Seq(Pid)]
  /\ \A q \in Priority : IsList(R[q], h[q], n) /\ Range(R[q]) = {p \in A : pr[p] = q}

\* There is a list from each head, and it has the processes of that priority.
OrderInv ==
  /\ Order(queues, head, next, priority, added)
  /\ tickets \in [Pid -> Nat]

\* Only one order is along these links.
LEMMA OrderIs ==
  ASSUME NEW R, NEW h, NEW n, NEW pr, NEW A, Order(R, h, n, pr, A)
  PROVE  [q \in Priority |-> SeqFrom(h[q], n)] = R
<1>1. \A q \in Priority : SeqFrom(h[q], n) = R[q]
  BY SeqFromIs DEF Order
<1> QED
  BY <1>1 DEF Order

\* What a sequence contains, and where.
LEMMA ContainsIs ==
  ASSUME NEW s \in Seq(Pid), NEW p
  PROVE  QueueOf!Contains(s, p) <=> p \in Range(s)
BY DEF QueueOf!Contains, Range

\* Where a process is in a list that has it.
LEMMA PositionIs ==
  ASSUME NEW s \in Seq(Pid), IsInjective(s), NEW p \in Range(s)
  PROVE  /\ QueueOf!Position(s, p) \in 1 .. Len(s)
         /\ s[QueueOf!Position(s, p)] = p
         /\ \A k \in 1 .. Len(s) : s[k] = p => k = QueueOf!Position(s, p)
<1>1. \E k \in DOMAIN s : s[k] = p
  BY DEF Range
<1>2. QueueOf!Position(s, p) \in DOMAIN s /\ s[QueueOf!Position(s, p)] = p
  BY <1>1 DEF QueueOf!Position
<1> QED
  BY <1>2 DEF IsInjective

\* A process taken out of its list, the one before it linked to the one behind.
LEMMA ProcessWithout ==
  ASSUME NEW s \in Seq(Pid), NEW h, NEW n, NEW m, IsList(s, h, n),
         NEW p \in Range(s), p # NULL,
         \A x \in Range(s) : x # p => m[x] = IF n[x] = p THEN n[p] ELSE n[x]
  PROVE  LET t == QueueOf!RemoveAt(s, QueueOf!Position(s, p))
         IN  /\ t \in Seq(Pid) /\ Range(t) = Range(s) \ {p}
             /\ IsList(t, IF h = p THEN n[p] ELSE h, m)
<1> DEFINE l == Len(s)
<1>1. PICK k \in 1 .. l : /\ k = QueueOf!Position(s, p) /\ s[k] = p
                         /\ \A i \in 1 .. l : s[i] = p => i = k
  BY PositionIs DEF IsList
<1>2. /\ l \in Nat /\ h = s[1] /\ \A i \in 1 .. l : s[i] \in Range(s)
      /\ \A i \in 1 .. l : n[s[i]] = IF i = l THEN NULL ELSE s[i + 1]
  <2>1. s # <<>>
    BY <1>1
  <2> QED
    BY <2>1 DEF IsList, Range
<1>3. Bypassed(s, k, n, m)
  <2> SUFFICES ASSUME NEW i \in 1 .. l, i # k
               PROVE  m[s[i]] = IF i + 1 = k THEN n[p] ELSE n[s[i]]
    BY <1>1 DEF Bypassed
  <2> HIDE DEF l
  <2>1. i # l => i + 1 \in 1 .. l
    BY <1>2
  <2>2. i + 1 = k => i # l
    BY <1>1, <1>2
  <2>3. n[s[i]] = p <=> i + 1 = k
    BY <1>1, <1>2, <2>1, <2>2
  <2>4. s[i] \in Range(s) /\ s[i] # p
    BY <1>1, <1>2
  <2> QED
    BY <2>3, <2>4
<1>4. h = p <=> k = 1
  <2> HIDE DEF l
  <2>1. 1 \in 1 .. l
    BY <1>1, <1>2
  <2> QED
    BY <1>1, <1>2, <2>1
<1> DEFINE t == QueueOf!RemoveAt(s, k)
           g == IF k = 1 THEN n[s[k]] ELSE h
<1>5. t \in Seq(Pid) /\ Range(t) = Range(s) \ {s[k]} /\ IsList(t, g, m)
  BY <1>3, ListWithout
<1>6. g = IF h = p THEN n[p] ELSE h
  BY <1>1, <1>4
<1>7. t = QueueOf!RemoveAt(s, QueueOf!Position(s, p))
  BY <1>1
<1> HIDE DEF t, g
<1> QED
  BY <1>1, <1>5, <1>6, <1>7

\* The highest queue that is not empty, and its front.
LEMMA TopIs ==
  ASSUME NEW R \in [Priority -> Seq(Pid)], NEW h, NEW d,
         \A q \in Priority : h[q] = IF R[q] = <<>> THEN NULL ELSE R[q][1],
         NEW x \in Priority, R[x] # <<>>
  PROVE  LET t == QueueOf!Top(R)
         IN  /\ t \in Priority /\ R[t] # <<>>
             /\ \A q \in Priority : R[q] # <<>> => t <= q
             /\ Highest(h, d) = R[t][1]
<1> DEFINE Full == {q \in Priority : R[q] # <<>>}
           Is(q) == q \in Priority /\ R[q] # <<>> /\ \A r \in 0 .. q - 1 : R[r] = <<>>
<1>1. Priority \subseteq Nat /\ \A q \in Priority : 0 .. q - 1 \subseteq Priority
  BY QueuesAssumption DEF Priority
<1>2. PICK m \in Full : \A q \in Full : m <= q
  <2>1. Full \in SUBSET Nat /\ Full # {}
    BY <1>1
  <2> HIDE DEF Full
  <2> QED
    BY <2>1, LeastOf
<1>3. Is(m)
  <2> SUFFICES ASSUME NEW r \in 0 .. m - 1 PROVE R[r] = <<>>
    BY <1>2
  <2>1. r \in Priority /\ ~(m <= r)
    BY <1>1, <1>2
  <2> QED
    BY <1>2, <2>1
<1>4. ASSUME NEW q, Is(q) PROVE q = m
  <2>1. m <= q /\ q \in Nat /\ m \in Nat
    BY <1>1, <1>2, <1>4
  <2>2. ~(m < q)
    <3>1. m < q => m \in 0 .. q - 1
      BY <2>1
    <3> QED
      BY <1>2, <1>4, <3>1
  <2> QED
    BY <2>1, <2>2
<1>5. QueueOf!Top(R) = m
  <2>1. QueueOf!Top(R) = CHOOSE q \in Priority : R[q] # <<>> /\ \A r \in 0 .. q - 1 : R[r] = <<>>
    BY DEF QueueOf!Top, QueueOf!Level, Priority
  <2> QED
    BY <1>3, <1>4, <2>1
<1>6. \A q \in Priority : h[q] # NULL <=> R[q] # <<>>
  <2> SUFFICES ASSUME NEW q \in Priority PROVE h[q] # NULL <=> R[q] # <<>>
    OBVIOUS
  <2>1. R[q] # <<>> => R[q][1] \in Pid
    OBVIOUS
  <2> QED
    BY <2>1, PidFacts
<1>7. Highest(h, d) = h[m]
  <2>1. m \in Priority /\ h[m] # NULL /\ \A r \in 0 .. m - 1 : h[r] = NULL
    BY <1>1, <1>3, <1>6
  <2>2. ASSUME NEW q \in Priority, h[q] # NULL, \A r \in 0 .. q - 1 : h[r] = NULL
        PROVE  q = m
    <3>1. Is(q)
      BY <1>1, <1>6, <2>2
    <3> QED
      BY <1>4, <3>1
  <2> DEFINE First(q) == h[q] # NULL /\ \A r \in 0 .. q - 1 : h[r] = NULL
  <2>3. m = CHOOSE q \in Priority : First(q)
    <3>1. m \in Priority /\ First(m) /\ \A q \in Priority : First(q) => q = m
      BY <2>1, <2>2
    <3> HIDE DEF First
    <3> QED
      BY <3>1
  <2> QED
    BY <2>1, <2>3 DEF Highest
<1> QED
  BY <1>2, <1>5, <1>7

\* sched_init finds no list and leaves none.
LEMMA OrderInit ==
  ASSUME SchedInv, OrderInv, sched_init
  PROVE  OrderInv' /\ UNCHANGED <<queues, tickets, current>>
<1>1. /\ added = {} /\ added' = {} /\ head' = [q \in Priority |-> NULL]
      /\ UNCHANGED <<tickets, current>>
  BY DEF SchedInv, sched_init
<1> DEFINE R == [q \in Priority |-> <<>>]
<1>2. Order(R, head', next', priority', added')
  <2>1. IsList(<<>>, NULL, next') /\ Range(<<>>) = {}
    BY DEF IsList, IsInjective, Range
  <2>2. R \in [Priority -> Seq(Pid)]
    OBVIOUS
  <2> QED
    BY <1>1, <2>1, <2>2 DEF Order
<1>3. queues' = R
  BY <1>2, OrderIs DEF queues
<1>4. queues = R
  <2>1. queues \in [Priority -> Seq(Pid)] /\ \A q \in Priority : Range(queues[q]) = {}
    BY <1>1 DEF OrderInv, Order
  <2>2. \A q \in Priority : queues[q] = <<>>
    <3> SUFFICES ASSUME NEW q \in Priority, queues[q] # <<>> PROVE FALSE
      OBVIOUS
    <3>1. 1 \in DOMAIN queues[q]
      BY <2>1
    <3> QED
      BY <2>1, <3>1 DEF Range
  <2> QED
    BY <2>1, <2>2
<1> QED
  BY <1>1, <1>2, <1>3, <1>4 DEF OrderInv

\* A new process enters at the front of the first queue.
LEMMA OrderAdmit ==
  ASSUME SchedInv, OrderInv, NEW pid \in Pid, pid \notin added, sched_addpid(pid)
  PROVE  OrderInv' /\ QueueOf!Admit(pid)
<1>1. /\ added' = added \cup {pid}
      /\ priority' = [priority EXCEPT ![pid] = 0]
      /\ tickets' = [tickets EXCEPT ![pid] = StartingTickets]
      /\ next' = [next EXCEPT ![pid] = head[0]]
      /\ head' = [head EXCEPT ![0] = pid]
      /\ UNCHANGED current
  BY DEF sched_addpid
<1>2. /\ head \in [Priority -> Link] /\ next \in [Pid -> Link]
      /\ priority \in [Pid -> Priority] /\ added \subseteq Pid /\ 0 \in Priority
      /\ tickets \in [Pid -> Nat] /\ queues \in [Priority -> Seq(Pid)]
  BY PidFacts DEF SchedInv, ListsInv, OrderInv, Order
<1>3. \A q \in Priority : /\ queues[q] \in Seq(Pid) /\ IsList(queues[q], head[q], next)
                          /\ Range(queues[q]) = {p \in added : priority[p] = q}
  BY <1>2 DEF OrderInv, Order
<1> DEFINE t == <<pid>> \o queues[0]
           R == [queues EXCEPT ![0] = <<pid>> \o @]
<1>4. \A p \in added : p # pid /\ next'[p] = next[p] /\ priority'[p] = priority[p]
  BY <1>1, <1>2
<1>5. t \in Seq(Pid) /\ IsList(t, pid, next') /\ Range(t) = Range(queues[0]) \cup {pid}
  <2>1. /\ queues[0] \in Seq(Pid) /\ IsList(queues[0], head[0], next)
        /\ pid \notin Range(queues[0]) /\ next'[pid] = head[0]
        /\ \A x \in Range(queues[0]) : next'[x] = next[x]
    BY <1>1, <1>2, <1>3, <1>4
  <2> QED
    BY <2>1, ListPrepended
<1>6. R[0] = t /\ \A q \in Priority : q # 0 => R[q] = queues[q]
  BY <1>2
<1>7. R \in [Priority -> Seq(Pid)]
  BY <1>2, <1>5
<1> HIDE DEF t, R
<1>8. Order(R, head', next', priority', added')
  <2> SUFFICES ASSUME NEW q \in Priority
               PROVE  /\ IsList(R[q], head'[q], next')
                      /\ Range(R[q]) = {p \in added' : priority'[p] = q}
    BY <1>7 DEF Order
  <2>1. CASE q = 0
    <3>1. head'[0] = pid /\ priority'[pid] = 0
      BY <1>1, <1>2
    <3>2. Range(t) = {p \in added' : priority'[p] = 0}
      BY <1>1, <1>2, <1>3, <1>4, <1>5, <3>1
    <3> QED
      BY <1>5, <1>6, <2>1, <3>1, <3>2
  <2>2. CASE q # 0
    <3>1. head'[q] = head[q] /\ priority'[pid] # q
      BY <1>1, <1>2, <2>2
    <3>2. IsList(queues[q], head[q], next')
      <4>1. \A x \in Range(queues[q]) : next'[x] = next[x]
        BY <1>3, <1>4
      <4> QED
        BY <1>3, <4>1, ListStays
    <3>3. Range(queues[q]) = {p \in added' : priority'[p] = q}
      BY <1>1, <1>3, <1>4, <3>1
    <3> QED
      BY <1>6, <2>2, <3>1, <3>2, <3>3
  <2> QED
    BY <2>1, <2>2
<1>9. queues' = R
  BY <1>8, OrderIs DEF queues
<1>10. OrderInv'
  BY <1>1, <1>2, <1>8, <1>9, TicketsAssumption DEF OrderInv
<1>11. pid \in QueueOf!Waiting
  <2>1. \A q \in Priority : ~QueueOf!Contains(queues[q], pid)
    BY <1>3, ContainsIs
  <2> QED
    BY <2>1 DEF QueueOf!Waiting, QueueOf!Level, Priority
<1> QED
  BY <1>1, <1>9, <1>10, <1>11 DEF QueueOf!Admit, R

\* The queue that a process is in, and the head and link that lead on.
LEMMA NextRunning ==
  ASSUME NEW R, NEW h, NEW n, NEW pr \in [Pid -> Priority], added \subseteq Pid,
         Order(R, h, n, pr, added), current \in added
  PROVE  LET top == QueueOf!Top(R)
         IN  /\ QueueOf!LevelOf(R, current) = pr[current]
             /\ Successor(h, n, pr) =
                  IF top = QueueOf!LevelOf(R, current)
                  THEN QueueOf!Behind(R[top], current) ELSE R[top][1]
<1> DEFINE c == current
           q == pr[c]
           s == R[q]
           k == QueueOf!Position(s, c)
           top == QueueOf!Top(R)
           best == Highest(h, c)
<1>1. /\ c \in Pid /\ q \in Priority /\ R \in [Priority -> Seq(Pid)]
      /\ Priority \subseteq Nat
  BY QueuesAssumption DEF Order, Priority
<1>2. \A r \in Priority : /\ R[r] \in Seq(Pid) /\ IsList(R[r], h[r], n)
                          /\ Range(R[r]) = {p \in added : pr[p] = r}
  BY <1>1 DEF Order
<1>3. \A r \in Priority : QueueOf!Contains(R[r], c) <=> r = q
  BY <1>1, <1>2, ContainsIs
<1>4. QueueOf!LevelOf(R, c) = q
  <2>1. QueueOf!LevelOf(R, c) = CHOOSE r \in Priority : QueueOf!Contains(R[r], c)
    BY DEF QueueOf!LevelOf, QueueOf!Level, Priority
  <2> QED
    BY <1>1, <1>3, <2>1
<1>5. s \in Seq(Pid) /\ IsInjective(s) /\ c \in Range(s) /\ IsList(s, h[q], n)
  BY <1>1, <1>2 DEF IsList
<1>6. k \in 1 .. Len(s) /\ s[k] = c /\ s # <<>> /\ Len(s) \in Nat /\ DOMAIN s = 1 .. Len(s)
  BY <1>5, PositionIs
<1>7. \A r \in Priority : h[r] = IF R[r] = <<>> THEN NULL ELSE R[r][1]
  <2> TAKE r \in Priority
  <2>1. IsList(R[r], h[r], n)
    BY <1>2
  <2> QED
    BY ONLY <2>1 DEF IsList
<1>8. /\ top \in Priority /\ R[top] # <<>> /\ top <= q
      /\ best = R[top][1]
  BY <1>1, <1>6, <1>7, TopIs
<1>9. pr[best] = top /\ best \in Pid
  <2>1. R[top] \in Seq(Pid) /\ 1 \in DOMAIN R[top]
    BY <1>1, <1>8
  <2>2. best \in Range(R[top])
    BY <1>8, <2>1 DEF Range
  <2> QED
    BY <1>1, <1>2, <1>8, <2>2
<1>10. n[c] = IF k = Len(s) THEN NULL ELSE s[k + 1]
  BY <1>5, <1>6 DEF IsList
<1>11. QueueOf!Behind(s, c) = IF k = Len(s) THEN s[1] ELSE s[k + 1]
  BY DEF QueueOf!Behind
<1>12. h[q] = s[1] /\ h[q] # NULL
  <2>1. s[1] \in Pid
    BY <1>5, <1>6
  <2> QED
    BY <1>1, <1>6, <1>7, <2>1, PidFacts
<1>13. Successor(h, n, pr) =
         IF q # 0 /\ pr[best] < q THEN best
         ELSE IF n[c] # NULL THEN n[c] ELSE IF h[q] # NULL THEN h[q] ELSE c
  BY DEF Successor
<1> HIDE DEF best, top, k, s, q
<1>14. CASE top = q
  <2>1. ~(pr[best] < q)
    BY <1>1, <1>9, <1>14
  <2>2. k # Len(s) => s[k + 1] \in Pid /\ s[k + 1] # NULL
    <3> DEFINE l == Len(s)
    <3>1. l \in Nat /\ k \in 1 .. l /\ DOMAIN s = 1 .. l
      BY <1>6
    <3> HIDE DEF l
    <3>2. k # l => k + 1 \in DOMAIN s
      BY <3>1
    <3>3. \A i \in DOMAIN s : s[i] \in Pid
      BY <1>5
    <3> QED
      BY <3>2, <3>3, PidFacts DEF l
  <2>3. Successor(h, n, pr) = QueueOf!Behind(s, c)
    BY <1>10, <1>11, <1>12, <1>13, <2>1, <2>2
  <2> QED
    BY <1>4, <1>14, <2>3 DEF s, top, q
<1>15. CASE top # q
  <2>1. pr[best] < q /\ q # 0
    BY <1>1, <1>8, <1>9, <1>15
  <2>2. Successor(h, n, pr) = R[top][1]
    BY <1>8, <1>13, <2>1
  <2> QED
    BY <1>4, <1>15, <2>2 DEF top, q
<1> QED
  BY <1>14, <1>15

\* An interrupt with nothing to run yet.
LEMMA OrderIdle ==
  ASSUME SchedInv, OrderInv, sched_update, current = NULL
  PROVE  OrderInv' /\ QueueOf!Slice
<1>1. /\ current' = Highest(head, NULL)
      /\ UNCHANGED <<head, next, priority, tickets, added>>
  BY DEF sched_update, lists
<1>2. queues' = queues /\ OrderInv'
  BY <1>1 DEF queues, OrderInv, Order, IsList
<1>3. /\ queues \in [Priority -> Seq(Pid)]
      /\ \A q \in Priority : head[q] = IF queues[q] = <<>> THEN NULL ELSE queues[q][1]
  BY DEF OrderInv, Order, IsList
<1>4. CASE \A q \in Priority : queues[q] = <<>>
  <2>1. current' = NULL
    BY <1>1, <1>3, <1>4 DEF Highest
  <2> QED
    BY <1>1, <1>2, <1>4, <2>1 DEF QueueOf!Slice, QueueOf!Level, Priority
<1>5. CASE \E q \in Priority : queues[q] # <<>>
  <2>1. Highest(head, NULL) = queues[QueueOf!Top(queues)][1]
    BY <1>3, <1>5, TopIs
  <2> QED
    BY <1>1, <1>2, <1>5, <2>1 DEF QueueOf!Slice, QueueOf!Level, Priority
<1> QED
  BY <1>4, <1>5

\* The current process pays and stays in its queue.
LEMMA OrderPaid ==
  ASSUME SchedInv, OrderInv, sched_update, current \in added, ~Demoted
  PROVE  OrderInv' /\ QueueOf!Slice
<1>1. current # NULL /\ current \in Pid
  BY PidFacts DEF SchedInv, ListsInv
<1>2. /\ UNCHANGED <<head, next, priority, added>> /\ tickets' = TicketsPaid
      /\ current' = Successor(head, next, priority)
  BY <1>1, CurrentIsFound
     DEF SchedInv, sched_update, HeadPaid, NextPaid, PriorityPaid
<1>3. queues' = queues /\ Order(queues, head, next, priority, added)
      /\ Order(queues', head', next', priority', added')
  BY <1>2 DEF queues, OrderInv, Order, IsList
<1>4. /\ tickets \in [Pid -> Nat] /\ tickets[current] \in Nat
      /\ priority \in [Pid -> Priority] /\ added \subseteq Pid
      /\ SliceCost \in Nat /\ Queues \in Nat /\ priority[current] \in Nat
  BY <1>1, TicketsAssumption, QueuesAssumption DEF OrderInv, SchedInv, ListsInv, Priority
<1>5. /\ QueueOf!LevelOf(queues, current) = priority[current]
      /\ current' = IF QueueOf!Top(queues) = QueueOf!LevelOf(queues, current)
                    THEN QueueOf!Behind(queues[QueueOf!Top(queues)], current)
                    ELSE queues[QueueOf!Top(queues)][1]
  BY <1>2, <1>3, <1>4, NextRunning
<1> DEFINE left == IF tickets[current] >= SliceCost THEN tickets[current] - SliceCost ELSE 0
<1>6. left \in Nat /\ tickets' = [tickets EXCEPT ![current] = left]
  <2>1. tickets' = [tickets EXCEPT ![current] = IF Expired THEN 0 ELSE @ - SliceCost]
    BY <1>2 DEF TicketsPaid
  <2>2. Expired <=> ~(tickets[current] >= SliceCost)
    BY <1>4 DEF Expired
  <2>3. left \in Nat
    BY <1>4
  <2> QED
    BY <2>1, <2>2, <2>3
<1>7. QueueOf!Charged = <<queues, left>>
  BY <1>4, <1>5 DEF QueueOf!Charged, Demoted, Expired
<1> HIDE DEF left
<1>8. OrderInv'
  BY <1>3, <1>4, <1>6 DEF OrderInv
<1> QED
  BY <1>1, <1>3, <1>5, <1>6, <1>7, <1>8 DEF QueueOf!Slice

\* The current process moves to the front of the next queue.
LEMMA OrderDemoted ==
  ASSUME SchedInv, OrderInv, sched_update, current \in added, Demoted
  PROVE  OrderInv' /\ QueueOf!Slice
<1> DEFINE c == current
           q == priority[c]
           s == queues[q]
           k == QueueOf!Position(s, c)
           t == QueueOf!RemoveAt(s, k)
           v == <<c>> \o queues[q + 1]
           R == [queues EXCEPT ![q] = t, ![q + 1] = v]
<1>1. /\ head \in [Priority -> Link] /\ next \in [Pid -> Link]
      /\ priority \in [Pid -> Priority] /\ added \subseteq Pid
      /\ c \in Pid /\ c \in added /\ c # NULL /\ Linked
      /\ tickets \in [Pid -> Nat] /\ queues \in [Priority -> Seq(Pid)]
  BY PidFacts DEF SchedInv, ListsInv, OrderInv, Order
<1>2. q \in Priority /\ q + 1 \in Priority /\ q + 1 # q /\ q < Queues - 1
  <2>1. q \in Priority /\ q < Queues - 1
    BY <1>1 DEF Demoted
  <2> QED
    BY <2>1, QueuesAssumption DEF Priority
<1>3. /\ head' = HeadPaid /\ next' = NextPaid /\ priority' = PriorityPaid
      /\ tickets' = [tickets EXCEPT ![c] = StartingTickets]
      /\ current' = Successor(head', next', priority') /\ added' = added
  <2>1. ~LostHead /\ ~LostEntry
    BY <1>1, CurrentIsFound DEF SchedInv
  <2> QED
    BY <1>1, <2>1 DEF sched_update, TicketsPaid
<1>4. ListsInv'
  BY <1>3, Demotion DEF SchedInv
<1>5. /\ head' = [head EXCEPT ![q] = IF head[q] = c THEN next[c] ELSE head[q],
                             ![q + 1] = c]
      /\ priority' = [priority EXCEPT ![c] = q + 1]
      /\ next' = [x \in Pid |->
                   IF x = c THEN head[q + 1]
                   ELSE IF x \in Before /\ head[q] # c THEN next[c] ELSE next[x]]
  BY <1>1, <1>2, <1>3 DEF HeadPaid, NextPaid, PriorityPaid
<1>6. \A r \in Priority : /\ queues[r] \in Seq(Pid) /\ IsList(queues[r], head[r], next)
                          /\ Range(queues[r]) = {p \in added : priority[p] = r}
  BY <1>1 DEF OrderInv, Order
<1>7. s \in Seq(Pid) /\ IsInjective(s) /\ c \in Range(s) /\ IsList(s, head[q], next)
  BY <1>1, <1>2, <1>6 DEF IsList
\* The only links that change are those of c and of the entry before it.
<1>10. \A p \in added : p # c => next'[p] = IF next[p] = c THEN next[c] ELSE next[p]
  <2> SUFFICES ASSUME NEW p \in added, p # c
               PROVE  next'[p] = IF next[p] = c THEN next[c] ELSE next[p]
    OBVIOUS
  <2>1. p \in Pid /\ next'[p] = IF p \in Before /\ head[q] # c THEN next[c] ELSE next[p]
    BY <1>1, <1>5
  <2>2. CASE head[q] = c
    <3>1. next[p] # c
      BY <1>1, <2>2 DEF Linked
    <3> QED
      BY <2>1, <2>2, <3>1
  <2>3. CASE head[q] # c
    <3>1. PICK b \in added : b # c /\ next[b] = c /\ Before = {b}
      BY <1>1, <2>3, CurrentIsFound DEF SchedInv
    <3>2. next[p] = c <=> p = b
      BY <1>1, <3>1 DEF Linked
    <3> QED
      BY <2>1, <2>3, <3>1, <3>2
  <2> QED
    BY <2>2, <2>3
<1> HIDE DEF k, s, q
<1>11. t \in Seq(Pid) /\ IsList(t, head'[q], next') /\ Range(t) = Range(s) \ {c}
  <2> DEFINE h == head[q]
             n == next
             m == next'
             g == IF h = c THEN n[c] ELSE h
  <2>1. head'[q] = g
    BY <1>1, <1>2, <1>5
  <2>2. \A x \in Range(s) : x # c => m[x] = IF n[x] = c THEN n[c] ELSE n[x]
    <3>1. Range(s) \subseteq added
      BY <1>2, <1>6 DEF s
    <3> QED
      BY <1>10, <3>1
  <2>3. s \in Seq(Pid) /\ IsList(s, h, n) /\ c \in Range(s) /\ c # NULL
    BY <1>1, <1>7
  <2> HIDE DEF h, n, m
  <2>4. t \in Seq(Pid) /\ IsList(t, g, m) /\ Range(t) = Range(s) \ {c}
    <3> HIDE DEF c
    <3> QED
      BY <2>2, <2>3, ProcessWithout DEF k
  <2> HIDE DEF g
  <2> QED
    BY <2>1, <2>4 DEF m
<1>12. v \in Seq(Pid) /\ IsList(v, c, next') /\ Range(v) = Range(queues[q + 1]) \cup {c}
  <2> DEFINE w == queues[q + 1]
  <2>1. w \in Seq(Pid) /\ IsList(w, head[q + 1], next)
        /\ Range(w) = {p \in added : priority[p] = q + 1}
    BY <1>2, <1>6
  <2>2. c \notin Range(w)
    BY <1>2, <2>1 DEF q
  <2>3. ASSUME NEW x \in Range(w) PROVE next'[x] = next[x]
    <3>1. x \in added /\ x # c /\ priority[x] = q + 1
      BY <2>1, <2>2
    <3>2. next[x] # c
      BY <1>1, <1>2, <3>1 DEF Linked, q
    <3> QED
      BY <1>10, <3>1, <3>2
  <2>4. next'[c] = head[q + 1]
    BY <1>1, <1>5
  <2> DEFINE h == head[q + 1]
             n == next
             m == next'
             x == <<c>> \o w
  <2>5. /\ w \in Seq(Pid) /\ IsList(w, h, n) /\ m[c] = h
        /\ \A y \in Range(w) : m[y] = n[y]
    BY <2>1, <2>3, <2>4
  <2> HIDE DEF w, h, n, m
  <2>6. x \in Seq(Pid) /\ IsList(x, c, m) /\ Range(x) = Range(w) \cup {c}
    <3>1. c \in Pid /\ c \notin Range(w)
      BY <1>1, <2>2
    <3> HIDE DEF c
    <3> QED
      BY <2>5, <3>1, ListPrepended
  <2> HIDE DEF x
  <2>7. x = v
    BY DEF x, w
  <2> QED
    BY <2>6, <2>7 DEF w, m
<1>13. /\ R[q] = t /\ R[q + 1] = v
       /\ \A r \in Priority : r \notin {q, q + 1} => R[r] = queues[r]
  BY <1>1, <1>2
<1>14. R \in [Priority -> Seq(Pid)]
  BY <1>1, <1>11, <1>12
<1>15. QueueOf!MovedDown(q) = R
  BY <1>1, <1>2 DEF QueueOf!MovedDown, k, s
<1> HIDE DEF t, v, R
<1>16. Order(R, head', next', priority', added')
  <2> SUFFICES ASSUME NEW r \in Priority
               PROVE  /\ IsList(R[r], head'[r], next')
                      /\ Range(R[r]) = {p \in added' : priority'[p] = r}
    BY <1>14 DEF Order
  <2>1. priority'[c] = q + 1 /\ \A p \in added : p # c => priority'[p] = priority[p]
    BY <1>1, <1>5
  <2>2. CASE r = q
    <3>1. Range(s) = {p \in added : priority[p] = q}
      BY <1>2, <1>6 DEF s
    <3>2. Range(t) = {p \in added' : priority'[p] = q}
      BY <1>1, <1>2, <1>3, <1>11, <2>1, <3>1
    <3> QED
      BY <1>11, <1>13, <2>2, <3>2
  <2>3. CASE r = q + 1
    <3>1. head'[q + 1] = c
      BY <1>1, <1>2, <1>5
    <3>2. Range(queues[q + 1]) = {p \in added : priority[p] = q + 1}
      BY <1>2, <1>6
    <3>3. Range(v) = {p \in added' : priority'[p] = q + 1}
      BY <1>1, <1>3, <1>12, <2>1, <3>2
    <3> QED
      BY <1>12, <1>13, <2>3, <3>1, <3>3
  <2>4. CASE r \notin {q, q + 1}
    <3>1. head'[r] = head[r] /\ R[r] = queues[r]
      BY <1>1, <1>5, <1>13, <2>4
    <3>2. priority[c] = q
      BY DEF q
    <3>3. ASSUME NEW x \in Range(queues[r]) PROVE next'[x] = next[x]
      <4>1. x \in added /\ x # c /\ priority[x] = r
        BY <1>6, <2>4, <3>2
      <4>2. next[x] # c
        BY <1>1, <2>4, <3>2, <4>1 DEF Linked
      <4> QED
        BY <1>10, <4>1, <4>2
    <3>4. IsList(queues[r], head[r], next')
      BY <1>6, <3>3, ListStays
    <3>5. Range(queues[r]) = {p \in added' : priority'[p] = r}
      BY <1>1, <1>3, <1>6, <2>1, <2>4, <3>2
    <3> QED
      BY <3>1, <3>4, <3>5
  <2> QED
    BY <2>2, <2>3, <2>4
<1>17. queues' = R
  BY <1>16, OrderIs DEF queues
<1>18. OrderInv'
  BY <1>1, <1>3, <1>16, <1>17, TicketsAssumption DEF OrderInv
\* What the step is in terms of the queues.
<1>19. QueueOf!LevelOf(queues, c) = q
  <2>1. Order(queues, head, next, priority, added)
    BY DEF OrderInv
  <2> QED
    BY <1>1, <2>1, NextRunning DEF q
<1>20. QueueOf!Charged = <<R, StartingTickets>>
  <2>1. ~(tickets[c] >= SliceCost)
    <3>1. tickets[c] \in Nat /\ SliceCost \in Nat
      BY <1>1, TicketsAssumption
    <3> QED
      BY <3>1 DEF Demoted, Expired
  <2> QED
    BY <1>2, <1>15, <1>19, <2>1 DEF QueueOf!Charged
<1>21. /\ current' = IF QueueOf!Top(queues') = QueueOf!LevelOf(queues', c)
                     THEN QueueOf!Behind(queues'[QueueOf!Top(queues')], c)
                     ELSE queues'[QueueOf!Top(queues')][1]
  <2>1. Order(queues', head', next', priority', added) /\ priority' \in [Pid -> Priority]
    BY <1>3, <1>4, <1>16, <1>17 DEF ListsInv
  <2> QED
    BY <1>1, <1>3, <2>1, NextRunning
<1> QED
  BY <1>1, <1>3, <1>17, <1>18, <1>20, <1>21 DEF QueueOf!Slice

\* No process is in a queue before sched_init.
LEMMA InitOrder == Init => OrderInv /\ QueueOf!Init
<1> SUFFICES ASSUME Init PROVE OrderInv /\ QueueOf!Init
  OBVIOUS
<1>1. /\ head = [q \in Priority |-> NULL] /\ tickets = [p \in Pid |-> 0]
      /\ current = NULL /\ added = {}
  BY DEF Init
<1> DEFINE R == [q \in Priority |-> <<>>]
<1>2. Order(R, head, next, priority, added)
  <2>1. IsList(<<>>, NULL, next) /\ Range(<<>>) = {}
    BY DEF IsList, IsInjective, Range
  <2>2. R \in [Priority -> Seq(Pid)]
    OBVIOUS
  <2> QED
    BY <1>1, <2>1, <2>2 DEF Order
<1>3. queues = R
  BY <1>2, OrderIs DEF queues
<1>4. QueueOf!Init
  BY <1>1, <1>3 DEF QueueOf!Init, QueueOf!Level, Priority
<1> QED
  BY <1>1, <1>2, <1>3, <1>4 DEF OrderInv

\* Each step keeps the lists in order, and is a step of the queues or none.
LEMMA NextOrder ==
  ASSUME EarlyCommands = FALSE, SchedInv, OrderInv, [Next]_vars
  PROVE  OrderInv' /\ [QueueOf!Next]_(QueueOf!vars)
<1>1. CASE UNCHANGED vars
  BY <1>1 DEF vars, lists, OrderInv, Order, IsList, queues, QueueOf!vars
<1>2. CASE sched_init
  BY <1>2, OrderInit DEF QueueOf!vars
<1>3. ASSUME NEW pid \in Pid, StartProcess(pid) PROVE OrderInv' /\ QueueOf!Next
  BY <1>3, OrderAdmit DEF StartProcess, QueueOf!Next
<1>4. CASE sched_update
  <2>1. current = NULL \/ current \in added
    BY DEF SchedInv
  <2>2. OrderInv' /\ QueueOf!Slice
    BY <1>4, <2>1, OrderIdle, OrderPaid, OrderDemoted
  <2> QED
    BY <2>2 DEF QueueOf!Next
<1> QED
  BY <1>1, <1>2, <1>3, <1>4 DEF Next

\* The linked lists of sched.c are the queues of a multi-level feedback queue:
\* sched_addpid and sched_update do to them, in every order of timer interrupts
\* and new processes after sched_init, what Mlfq says and nothing else.
THEOREM SchedIsMlfq ==
  ASSUME EarlyCommands = FALSE
  PROVE  Spec => SchedImplementsMlfq
<1>1. Init => SchedInv /\ OrderInv /\ QueueOf!Init
  BY InitSchedInv, InitOrder
<1>2. SchedInv /\ OrderInv /\ [Next]_vars
        => SchedInv' /\ OrderInv' /\ [QueueOf!Next]_(QueueOf!vars)
  BY NextOrder, NextSchedInv
<1> QED
  BY <1>1, <1>2, PTL DEF Spec, SchedImplementsMlfq, QueueOf!Spec
-----------------------------------------------------------------------------
(* The process table with the scheduler. *)

\* The links are processes or null, whatever happened during boot.
LinkTypes ==
  /\ head \in [Priority -> Link]
  /\ next \in [Pid -> Link]
  /\ priority \in [Pid -> Priority]
  /\ added \subseteq Pid
  /\ current \in Link

\* Pages: who has one, and that no two have the same.
PagesInv ==
  /\ state \in [Slot -> States]
  /\ memory \in [Slot -> PagePool \cup {NoPage}]
  /\ lent \subseteq PagePool
  /\ \A i \in Slot : state[i] = "UNUSED" <=> memory[i] = NoPage
  /\ \A i, j \in Slot : memory[i] = memory[j] /\ memory[i] # NoPage => i = j
  /\ \A i \in Slot : memory[i] # NoPage => memory[i] \in lent
  /\ ~early => lent = {memory[i] : i \in Slot} \ {NoPage}

\* Table and queues.
QueuesInv ==
  /\ booted => table_ready
  /\ ~table_ready => state[0] = "UNUSED"
  /\ booted \/ ~early => ListsInv
  /\ booted => \A i \in added : state[i] = "RUNNABLE"
  /\ ~early => /\ ~booted => added = {}
               /\ \A i \in Pid : state[i] = "RUNNABLE" => i \in added
               /\ current \in added \cup {NULL}
  /\ PanicOnlyWhenStale

\* The inductive invariant.
ProcessInv == LinkTypes /\ PagesInv /\ QueuesInv
-----------------------------------------------------------------------------
(* Facts about the operators. *)

\* The slots are the pids and slot 0.
LEMMA SlotFacts ==
  /\ 0 \in Slot /\ Pid \subseteq Slot /\ 0 \notin Pid
  /\ \A i \in Slot : i = 0 \/ i \in Pid
  BY MaxProcessesAssumption DEF Slot, Pid

\* A pid that process_get_next_free_pid finds is free.
LEMMA FreePid ==
  ASSUME NextFreePid > 0
  PROVE  NextFreePid \in Pid /\ state[NextFreePid] = "UNUSED"
<1> DEFINE free == {i \in Pid : state[i] = "UNUSED"}
<1>1. free # {} /\ NextFreePid = Min(free)
  BY DEF NextFreePid
<1>2. free \subseteq Nat
  BY PidFacts
<1> HIDE DEF free
<1>3. \E n \in free : \A m \in free : n <= m
  BY <1>1, <1>2, LeastOf
<1>4. Min(free) \in free
  BY <1>3 DEF Min
<1> QED
  BY <1>1, <1>4 DEF free

\* Whatever the lists look like, a timer interrupt keeps their types.
LEMMA UpdateTypes ==
  ASSUME LinkTypes, sched_update
  PROVE  LinkTypes' /\ UNCHANGED <<booted, added>>
<1>1. UNCHANGED <<booted, added>>
  BY DEF sched_update
<1>2. ASSUME NEW h \in [Priority -> Link], NEW default \in Link
      PROVE  Highest(h, default) \in Link
  BY HighestIsHead
<1>3. CASE current = NULL
  <2>1. current' = Highest(head, NULL) /\ UNCHANGED <<head, next, priority>>
    BY <1>3 DEF sched_update, lists
  <2> QED
    BY <1>1, <1>2, <2>1 DEF LinkTypes, Link
<1>4. CASE current # NULL /\ (LostHead \/ LostEntry)
  <2>1. UNCHANGED <<head, next, priority, current>>
    BY <1>4 DEF sched_update, lists
  <2> QED
    BY <1>1, <2>1 DEF LinkTypes
<1>5. CASE current # NULL /\ ~LostHead /\ ~LostEntry
  <2>1. /\ head' = HeadPaid /\ next' = NextPaid /\ priority' = PriorityPaid
        /\ current' = Successor(HeadPaid, NextPaid, PriorityPaid)
    BY <1>5 DEF sched_update
  <2>2. /\ current \in Pid /\ priority[current] \in Priority
        /\ next[current] \in Link
    BY <1>5 DEF LinkTypes, Link
  <2>3. /\ HeadPaid \in [Priority -> Link] /\ NextPaid \in [Pid -> Link]
        /\ PriorityPaid \in [Pid -> Priority]
    <3>1. CASE Demoted
      <4>1. priority[current] + 1 \in Priority
        BY <2>2, <3>1, QueuesAssumption DEF Demoted, Priority
      <4>2. HeadPaid \in [Priority -> Link]
        BY <2>2, <3>1, <4>1 DEF HeadPaid, LinkTypes, Link
      <4>3. NextPaid \in [Pid -> Link]
        BY <2>2, <3>1, <4>1 DEF NextPaid, LinkTypes
      <4>4. PriorityPaid \in [Pid -> Priority]
        BY <2>2, <3>1, <4>1 DEF PriorityPaid, LinkTypes
      <4> QED
        BY <4>2, <4>3, <4>4
    <3>2. CASE ~Demoted
      BY <3>2 DEF HeadPaid, NextPaid, PriorityPaid, LinkTypes
    <3> QED
      BY <3>1, <3>2
  <2>4. Successor(HeadPaid, NextPaid, PriorityPaid) \in Link
    BY <1>2, <2>2, <2>3 DEF Successor, LinkTypes
  <2> QED
    BY <1>1, <2>1, <2>3, <2>4 DEF LinkTypes
<1> QED
  BY <1>3, <1>4, <1>5

\* A current process that is in no list changes none: where it would be moved
\* to another queue, sched_update panics.
LEMMA UpdateStale ==
  ASSUME ListsInv, current \in Pid, current \notin added, sched_update
  PROVE  /\ ListsInv' /\ UNCHANGED <<added, booted>>
         /\ panicked' = panicked \/ current' = current
<1> DEFINE q == priority[current]
<1>1. UNCHANGED <<booted, added>> /\ current # NULL
  BY PidFacts DEF sched_update
<1>2. ASSUME Demoted PROVE LostHead \/ LostEntry
  <2>1. q \in Priority
    BY DEF ListsInv
  <2>2. CASE head[q] = NULL
    BY <1>2, <2>2 DEF LostHead
  <2>3. CASE head[q] # NULL
    <3>1. head[q] \in added /\ Closed(added) /\ added \in SUBSET Pid
      BY <2>1, <2>3 DEF ListsInv, Linked, Closed
    <3>2. Chain(head[q]) \subseteq added
      BY <3>1, ChainWithin
    <3>3. Links = {}
      BY <1>1, <3>2 DEF Links, ListsInv, Linked
    <3> QED
      BY <1>2, <2>3, <3>1, <3>3 DEF LostEntry
  <2> QED
    BY <2>2, <2>3
<1>3. CASE LostHead \/ LostEntry
  <2>1. UNCHANGED <<head, next, priority, current>>
    BY <1>1, <1>3 DEF sched_update, lists
  <2> QED
    BY <1>1, <2>1, ListsKept
<1>4. CASE ~LostHead /\ ~LostEntry
  <2>1. UNCHANGED <<head, next, priority, panicked>>
    BY <1>1, <1>2, <1>4 DEF sched_update, HeadPaid, NextPaid, PriorityPaid
  <2> QED
    BY <1>1, <2>1, ListsKept
<1> QED
  BY <1>3, <1>4
-----------------------------------------------------------------------------
(* The steps. *)

\* No list, no process and no page at the start.
LEMMA InitProcessInv == ProcessInit => ProcessInv
<1> SUFFICES ASSUME ProcessInit PROVE ProcessInv
  OBVIOUS
<1>1. SchedInv /\ Init
  BY InitSchedInv DEF ProcessInit
<1>2. LinkTypes /\ ListsInv /\ added = {} /\ current = NULL /\ ~booted
  BY <1>1 DEF SchedInv, ListsInv, LinkTypes, Init, Link
<1>3. /\ state = [i \in Slot |-> "UNUSED"] /\ memory = [i \in Slot |-> NoPage]
      /\ lent = {} /\ ~early /\ ~table_ready
  BY DEF ProcessInit
<1>4. PagesInv
  BY <1>3 DEF PagesInv, States
<1>5. PanicOnlyWhenStale
  BY <1>1 DEF Init, PanicOnlyWhenStale, SanityChecks
<1>6. QueuesInv
  BY <1>2, <1>3, <1>5, SlotFacts DEF QueuesInv
<1> QED
  BY <1>2, <1>4, <1>6 DEF ProcessInv

\* process_init blanks every slot, takes one page and leaves the queues alone.
LEMMA ProcessInitStep == ProcessInv /\ process_init => ProcessInv'
<1> SUFFICES ASSUME ProcessInv, process_init PROVE ProcessInv'
  OBVIOUS
<1>1. /\ Running /\ ~table_ready /\ table_ready'
      /\ UNCHANGED <<head, next, priority, added, current, booted, panicked, early>>
      /\ state' = [i \in Slot |-> IF i = 0 THEN "RUNNABLE" ELSE "UNUSED"]
  BY DEF process_init, vars, lists
<1>2. PICK p \in PagePool \ lent :
        memory' = [Blanked EXCEPT ![0] = p] /\ lent' = lent \cup {p}
  BY DEF process_init, process_init_process, FreePage
<1>3. memory' = [i \in Slot |-> IF i = 0 THEN p ELSE NoPage] /\ p # NoPage
  BY <1>2, PagePoolAssumption DEF Blanked
<1>4. LinkTypes'
  BY <1>1 DEF ProcessInv, LinkTypes
<1>5. ~booted
  BY <1>1 DEF ProcessInv, QueuesInv
<1>6. ASSUME ~early PROVE lent = {}
  <2>1. \A i \in Slot : state[i] = "UNUSED"
    BY <1>1, <1>5, <1>6, SlotFacts DEF ProcessInv, QueuesInv, PagesInv, States
  <2> QED
    BY <1>6, <2>1 DEF ProcessInv, PagesInv
<1>7. PagesInv'
  <2>1. /\ state' \in [Slot -> States]
        /\ memory' \in [Slot -> PagePool \cup {NoPage}]
        /\ lent' \subseteq PagePool
    BY <1>1, <1>2, <1>3, ZenonT(40) DEF ProcessInv, PagesInv, States
  <2>2. /\ \A i \in Slot : state'[i] = "UNUSED" <=> memory'[i] = NoPage
        /\ \A i, j \in Slot :
             memory'[i] = memory'[j] /\ memory'[i] # NoPage => i = j
        /\ \A i \in Slot : memory'[i] # NoPage => memory'[i] \in lent'
    BY <1>1, <1>2, <1>3
  <2>3. ~early' => lent' = {memory'[i] : i \in Slot} \ {NoPage}
    BY <1>1, <1>2, <1>3, <1>6, SlotFacts
  <2> QED
    BY <2>1, <2>2, <2>3 DEF PagesInv
<1>8. QueuesInv'
  <2>1. \A i \in Pid : state'[i] = "UNUSED"
    BY <1>1, SlotFacts
  <2>2. ~early => ListsInv'
    BY <1>1, ListsKept DEF ProcessInv, QueuesInv
  <2>3. PanicOnlyWhenStale'
    BY <1>1 DEF Running, PanicOnlyWhenStale, SanityChecks
  <2> QED
    BY <1>1, <1>5, <2>1, <2>2, <2>3 DEF ProcessInv, QueuesInv
<1> QED
  BY <1>4, <1>7, <1>8 DEF ProcessInv

\* process_init without memory: the boot ends there.
LEMMA ProcessInitPanics == ProcessInv /\ process_init_panics => ProcessInv'
<1> SUFFICES ASSUME ProcessInv, process_init_panics PROVE ProcessInv'
  OBVIOUS
<1>1. /\ Running /\ ~table_ready /\ ~table_ready'
      /\ UNCHANGED <<head, next, priority, added, current, booted, early, lent>>
      /\ state' = [i \in Slot |-> "UNUSED"]
      /\ memory' = [i \in Slot |-> NoPage]
  BY DEF process_init_panics, process_init_process_panics, lists, Blanked
<1>2. panicked' \in {"memory leak", "out of memory"}
  BY DEF process_init_panics, process_init_process_panics
<1>3. ~booted
  BY <1>1 DEF ProcessInv, QueuesInv
<1>4. ASSUME ~early PROVE lent = {}
  <2>1. \A i \in Slot : state[i] = "UNUSED"
    BY <1>1, <1>3, <1>4, SlotFacts DEF ProcessInv, QueuesInv, PagesInv, States
  <2> QED
    BY <1>4, <2>1 DEF ProcessInv, PagesInv
<1>5. LinkTypes' /\ PagesInv'
  BY <1>1, <1>4 DEF ProcessInv, LinkTypes, PagesInv, States
<1>6. QueuesInv'
  <2>1. ~early => ListsInv'
    BY <1>1, ListsKept DEF ProcessInv, QueuesInv
  <2>2. PanicOnlyWhenStale'
    BY <1>2 DEF PanicOnlyWhenStale, SanityChecks
  <2> QED
    BY <1>1, <1>3, <2>1, <2>2, SlotFacts DEF ProcessInv, QueuesInv
<1> QED
  BY <1>5, <1>6 DEF ProcessInv

\* sched_init empties the queues, whoever is in them and whoever is current.
LEMMA BootSchedulerStep == ProcessInv /\ BootScheduler => ProcessInv'
<1> SUFFICES ASSUME ProcessInv, BootScheduler PROVE ProcessInv'
  OBVIOUS
<1>1. /\ Running /\ table_ready /\ table_ready' /\ ~booted /\ booted'
      /\ head' = [q \in Priority |-> NULL] /\ added' = {}
      /\ UNCHANGED <<next, priority, current, panicked, state, memory, lent, early>>
  BY DEF BootScheduler, sched_init, table
<1>2. LinkTypes'
  BY <1>1 DEF ProcessInv, LinkTypes, Link
<1>3. PagesInv'
  BY <1>1 DEF ProcessInv, PagesInv
<1>4. ListsInv'
  BY <1>1, <1>2 DEF LinkTypes, ListsInv, Linked, NoneLost
<1>5. PanicOnlyWhenStale'
  BY <1>1 DEF Running, PanicOnlyWhenStale, SanityChecks
<1> QED
  BY <1>1, <1>2, <1>3, <1>4, <1>5 DEF ProcessInv, QueuesInv

\* process_execve: the free slot gets a page nobody has and joins the queues.
LEMMA ExecveStep ==
  ASSUME ProcessInv, NEW name, process_execve(name)
  PROVE  ProcessInv'
<1> DEFINE pid == NextFreePid
<1>1. /\ Running /\ pid \in Pid /\ pid \in Slot /\ state[pid] = "UNUSED"
      /\ sched_addpid(pid)
      /\ state' = [state EXCEPT ![pid] = "RUNNABLE"]
      /\ early' = (early \/ ~booted)
      /\ UNCHANGED table_ready
  BY FreePid, SlotFacts DEF process_execve
<1>2. PICK p \in PagePool \ lent :
        memory' = [memory EXCEPT ![pid] = p] /\ lent' = lent \cup {p}
  BY DEF process_execve, process_init_process, FreePage
<1> HIDE DEF pid
<1>3. /\ added' = added \cup {pid}
      /\ priority' = [priority EXCEPT ![pid] = 0]
      /\ next' = [next EXCEPT ![pid] = head[0]]
      /\ head' = [head EXCEPT ![0] = pid]
      /\ UNCHANGED <<current, booted, panicked>>
  BY <1>1 DEF sched_addpid
<1>4. LinkTypes'
  BY <1>1, <1>3, PidFacts DEF ProcessInv, LinkTypes, Link
<1>5. PagesInv'
  <2>1. p # NoPage /\ p \in PagePool /\ p \notin lent /\ memory[pid] = NoPage
    BY <1>1, <1>2, PagePoolAssumption DEF ProcessInv, PagesInv
  <2>2. /\ state' \in [Slot -> States]
        /\ memory' \in [Slot -> PagePool \cup {NoPage}]
        /\ lent' \subseteq PagePool
    BY <1>1, <1>2 DEF ProcessInv, PagesInv, States
  <2>3. \A i \in Slot : /\ state'[i] = (IF i = pid THEN "RUNNABLE" ELSE state[i])
                        /\ memory'[i] = (IF i = pid THEN p ELSE memory[i])
    BY <1>1, <1>2 DEF ProcessInv, PagesInv
  <2>4. /\ \A i \in Slot : state'[i] = "UNUSED" <=> memory'[i] = NoPage
        /\ \A i, j \in Slot :
             memory'[i] = memory'[j] /\ memory'[i] # NoPage => i = j
        /\ \A i \in Slot : memory'[i] # NoPage => memory'[i] \in lent'
    BY <1>1, <1>2, <2>1, <2>3 DEF ProcessInv, PagesInv
  <2>5. ~early' => lent' = {memory'[i] : i \in Slot} \ {NoPage}
    <3> SUFFICES ASSUME ~early'
                 PROVE  lent \cup {p} = {memory'[i] : i \in Slot} \ {NoPage}
      BY <1>2
    <3>1. lent = {memory[i] : i \in Slot} \ {NoPage}
      BY <1>1 DEF ProcessInv, PagesInv
    <3> QED
      BY <1>1, <2>1, <2>3, <3>1
  <2> QED
    BY <2>2, <2>4, <2>5 DEF PagesInv
<1>6. QueuesInv'
  <2>1. CASE booted
    <3>1. ListsInv /\ pid \notin added
      BY <1>1, <2>1 DEF ProcessInv, QueuesInv
    <3>2. ListsInv'
      BY <1>1, <3>1, AddPid
    <3>3. /\ \A i \in added' : state'[i] = "RUNNABLE"
          /\ \A i \in Pid : i # pid => state'[i] = state[i]
      BY <1>1, <1>3, <2>1, SlotFacts DEF ProcessInv, QueuesInv, PagesInv, LinkTypes
    <3>4. PanicOnlyWhenStale'
      BY <1>1, <1>3 DEF Running, PanicOnlyWhenStale, SanityChecks
    <3> QED
      BY <1>1, <1>3, <2>1, <3>2, <3>3, <3>4 DEF ProcessInv, QueuesInv
  <2>2. CASE ~booted
    <3>1. early' /\ ~booted'
      BY <1>1, <1>3, <2>2
    <3>2. ~table_ready' => state'[0] = "UNUSED"
      BY <1>1, SlotFacts DEF ProcessInv, QueuesInv, PagesInv
    <3>3. PanicOnlyWhenStale'
      BY <3>1 DEF PanicOnlyWhenStale
    <3> QED
      BY <3>1, <3>2, <3>3 DEF QueuesInv
  <2> QED
    BY <2>1, <2>2
<1> QED
  BY <1>4, <1>5, <1>6 DEF ProcessInv

\* A timer interrupt, with a current process of the queues, with none, or with
\* one that sched_init left behind.
LEMMA TickStep == ProcessInv /\ Tick => ProcessInv'
<1> SUFFICES ASSUME ProcessInv, Tick PROVE ProcessInv'
  OBVIOUS
<1>1. /\ sched_update /\ Running
      /\ UNCHANGED <<state, memory, lent, early, table_ready>>
  BY DEF Tick, table, sched_update
<1>2. LinkTypes' /\ UNCHANGED <<booted, added>>
  BY <1>1, UpdateTypes DEF ProcessInv
<1>3. PagesInv'
  BY <1>1 DEF ProcessInv, PagesInv
<1>4. PanicOnlyWhenStale' <=>
        (panicked' \in SanityChecks => early /\ (booted => current' \notin added))
  BY <1>1, <1>2 DEF PanicOnlyWhenStale
<1>5. panicked \notin SanityChecks
  BY <1>1 DEF Running, SanityChecks
<1> SUFFICES QueuesInv'
  BY <1>2, <1>3 DEF ProcessInv
<1>6. CASE ~booted /\ early
  BY <1>1, <1>2, <1>4, <1>6 DEF ProcessInv, QueuesInv
<1>7. CASE booted \/ ~early
  <2>1. ListsInv
    BY <1>7 DEF ProcessInv, QueuesInv
  <2>2. CASE current \in added \cup {NULL}
    <3>1. /\ ListsInv' /\ current' \in added \cup {NULL}
          /\ UNCHANGED panicked
      BY <1>1, <2>1, <2>2, UpdateIdle, UpdateRunning
    <3> QED
      BY <1>1, <1>2, <1>4, <1>5, <3>1 DEF ProcessInv, QueuesInv
  <2>3. CASE current \notin added \cup {NULL}
    <3>1. early /\ current \in Pid
      BY <2>3 DEF ProcessInv, QueuesInv, LinkTypes, Link
    <3>2. ListsInv' /\ (panicked' = panicked \/ current' = current)
      BY <1>1, <2>1, <2>3, <3>1, UpdateStale
    <3> QED
      BY <1>1, <1>2, <1>4, <1>5, <2>3, <3>1, <3>2 DEF ProcessInv, QueuesInv
  <2> QED
    BY <2>2, <2>3
<1> QED
  BY <1>6, <1>7

\* Every step of the kernel's processes keeps the invariant.
LEMMA NextProcessInv == ProcessInv /\ [ProcessNext]_allvars => ProcessInv'
<1> SUFFICES ASSUME ProcessInv, [ProcessNext]_allvars PROVE ProcessInv'
  OBVIOUS
<1>1. ASSUME UNCHANGED <<head, next, priority, added, current, booted, panicked,
                         state, memory, lent, early, table_ready>>
      PROVE  ProcessInv'
  <2>1. ListsInv => ListsInv'
    BY <1>1, ListsKept
  <2>2. LinkTypes' /\ PagesInv'
    BY <1>1 DEF ProcessInv, LinkTypes, PagesInv
  <2>3. PanicOnlyWhenStale'
    BY <1>1 DEF ProcessInv, QueuesInv, PanicOnlyWhenStale
  <2> QED
    BY <1>1, <2>1, <2>2, <2>3 DEF ProcessInv, QueuesInv
<1>2. CASE UNCHANGED allvars \/ Message \/ Stopped \/ \E i \in Slot : process_kill(i)
  BY <1>1, <1>2 DEF allvars, Message, Stopped, process_kill, vars, lists, table
<1>3. ASSUME NEW name \in ProgramNames, process_execve(name) PROVE ProcessInv'
  BY <1>3, ExecveStep
<1>4. ASSUME NEW name \in ProgramNames, process_execve_panics(name)
      PROVE  ProcessInv'
  <2>1. /\ UNCHANGED <<head, next, priority, added, current, booted, state,
                       memory, lent, early, table_ready>>
        /\ panicked' \in {"memory leak", "out of memory"}
    BY <1>4 DEF process_execve_panics, process_init_process_panics, lists
  <2>2. ListsInv => ListsInv'
    BY <2>1, ListsKept
  <2>3. PanicOnlyWhenStale'
    BY <2>1 DEF PanicOnlyWhenStale, SanityChecks
  <2>4. LinkTypes'
    BY <2>1 DEF ProcessInv, LinkTypes
  <2>5. UNCHANGED <<state, memory, lent, early>>
    BY <2>1
  <2>6. PagesInv'
    BY <2>5 DEF ProcessInv, PagesInv
  <2> QED
    BY <2>1, <2>2, <2>3, <2>4, <2>6 DEF ProcessInv, QueuesInv
<1> QED
  BY <1>2, <1>3, <1>4, ProcessInitStep, ProcessInitPanics, BootSchedulerStep,
     TickStep
     DEF ProcessNext, TableNext
-----------------------------------------------------------------------------
(* The theorems. *)

\* process_execve and the scheduler agree on who is to run: once sched_init has
\* run, the queues hold exactly the processes started since, each linked once
\* and RUNNABLE in the table; all of the table, unless a program was started
\* during boot.
THEOREM ProcessTableMatchesScheduler == ProcessSpec => []TableMatchesScheduler
<1>1. ProcessInv => TableMatchesScheduler
  <2> SUFFICES ASSUME ProcessInv, booted PROVE TableMatchesScheduler
    BY DEF TableMatchesScheduler
  <2>1. ListsInv
    BY DEF ProcessInv, QueuesInv
  <2>2. ASSUME NEW q \in Priority PROVE Chain(head[q]) \subseteq added
    <3>1. Closed(added) /\ added \in SUBSET Pid
          /\ (head[q] # NULL => head[q] \in added)
      BY <2>1 DEF ListsInv, Linked, Closed
    <3> QED
      BY <3>1, ChainWithin
  <2>3. \A i \in Pid : i \in added <=> \E q \in Priority : i \in Chain(head[q])
    BY <2>1, <2>2 DEF ListsInv, NoneLost
  <2>4. Linked
    BY <2>1 DEF ListsInv
  <2> QED
    BY <2>3, <2>4 DEF TableMatchesScheduler, ProcessInv, QueuesInv
<1> QED
  BY InitProcessInv, NextProcessInv, <1>1, PTL DEF ProcessSpec

\* Every process has a page of its own, no free slot has one, and none is lost
\* but those of programs that process_init forgot.
THEOREM ProcessesHaveOwnPages == ProcessSpec => []EachProcessOnePage
<1>1. ProcessInv => EachProcessOnePage
  BY DEF ProcessInv, PagesInv, EachProcessOnePage
<1> QED
  BY InitProcessInv, NextProcessInv, <1>1, PTL DEF ProcessSpec

\* The sanity checks of sched_update (sched.c:127, 147) fail only after a
\* program was started during boot, and then only for a current process that
\* is in no queue.
THEOREM ProcessPanicsOnlyWhenStale == ProcessSpec => []PanicOnlyWhenStale
<1>1. ProcessInv => PanicOnlyWhenStale
  BY DEF ProcessInv, QueuesInv
<1> QED
  BY InitProcessInv, NextProcessInv, <1>1, PTL DEF ProcessSpec
-----------------------------------------------------------------------------
(* Least elements, powers of two. *)

\* Min is the least element,
LEMMA MinOf ==
  ASSUME NEW S \in SUBSET Nat, S # {}
  PROVE  Min(S) \in S /\ \A x \in S : Min(S) <= x
BY LeastOf DEF Min

\* the only one of them that is below all.
LEMMA MinIs ==
  ASSUME NEW S \in SUBSET Nat, NEW m \in S, \A x \in S : m <= x
  PROVE  Min(S) = m
<1>1. Min(S) \in S /\ Min(S) <= m
  BY MinOf
<1>2. m <= Min(S) /\ m \in Nat /\ Min(S) \in Nat
  BY <1>1
<1> QED
  BY <1>1, <1>2

\* A set with one more element has twice the subsets.
LEMMA SubsetsDouble ==
  ASSUME NEW S, IsFiniteSet(S), NEW x, x \notin S
  PROVE  Cardinality(SUBSET (S \cup {x})) = 2 * Cardinality(SUBSET S)
<1> DEFINE A == SUBSET S
           f == [T \in A |-> T \cup {x}]
           B == {T \cup {x} : T \in A}
<1>1. f \in Bijection(A, B)
  <2>1. f \in [A -> B]
    OBVIOUS
  <2>2. \A T, U \in A : f[T] = f[U] => T = U
    <3> SUFFICES ASSUME NEW T \in A, NEW U \in A, T \cup {x} = U \cup {x} PROVE T = U
      OBVIOUS
    <3>1. x \notin T /\ x \notin U
      OBVIOUS
    <3>2. \A y : y \in T <=> y \in T \cup {x} /\ y # x
      BY <3>1
    <3>3. \A y : y \in U <=> y \in U \cup {x} /\ y # x
      BY <3>1
    <3> QED
      BY <3>2, <3>3
  <2>3. \A U \in B : \E T \in A : f[T] = U
    OBVIOUS
  <2> HIDE DEF f, A, B
  <2> QED
    BY <2>1, <2>2, <2>3 DEF Bijection, Injection, Surjection, IsInjective
<1>2. IsFiniteSet(A) /\ Cardinality(A) \in Nat
  BY FS_SUBSET, FS_CardinalityType
<1>3. SUBSET (S \cup {x}) = A \cup B
  <2>1. ASSUME NEW T \in SUBSET (S \cup {x}) PROVE T \in A \cup B
    <3>1. CASE x \notin T
      BY <3>1
    <3>2. CASE x \in T
      <4>1. T \ {x} \in A /\ T = (T \ {x}) \cup {x}
        BY <3>2
      <4> QED
        BY <4>1
    <3> QED
      BY <3>1, <3>2
  <2>2. ASSUME NEW T \in A \cup B PROVE T \in SUBSET (S \cup {x})
    OBVIOUS
  <2> QED
    BY <2>1, <2>2
<1>4. A \cap B = {}
  OBVIOUS
<1> HIDE DEF A, B, f
<1>5. ExistsBijection(A, B)
  BY <1>1 DEF ExistsBijection
<1>6. IsFiniteSet(B) /\ Cardinality(B) = Cardinality(A)
  BY <1>2, <1>5, FS_Bijection
<1>7. Cardinality(A \cup B) = Cardinality(A) + Cardinality(B) - Cardinality(A \cap B)
  BY <1>2, <1>6, FS_Union
<1>8. Cardinality(A \cap B) = 0
  BY <1>4, FS_EmptySet
<1> DEFINE a == Cardinality(A)
           b == Cardinality(B)
           c == Cardinality(A \cup B)
           d == Cardinality(A \cap B)
<1>9. a \in Nat /\ b = a /\ c = a + b - d /\ d = 0
  BY <1>2, <1>6, <1>7, <1>8
<1>10. Cardinality(SUBSET (S \cup {x})) = c /\ Cardinality(SUBSET S) = a
  BY <1>3 DEF A
<1> HIDE DEF a, b, c, d
<1>11. c = 2 * a
  BY <1>9
<1> QED
  BY <1>10, <1>11

\* The powers of two.
LEMMA Powers ==
  ASSUME NEW n \in Nat
  PROVE  2 ^ n \in Nat /\ 2 ^ (n + 1) = 2 * 2 ^ n /\ 2 ^ 0 = 1
<1>1. IsFiniteSet(1 .. n) /\ Cardinality(1 .. n) = n
      /\ IsFiniteSet(1 .. n + 1) /\ Cardinality(1 .. n + 1) = n + 1
  <2>1. 1 \in Int /\ n \in Int /\ n + 1 \in Int
    OBVIOUS
  <2>2. /\ IsFiniteSet(1 .. n) /\ Cardinality(1 .. n) = IF 1 > n THEN 0 ELSE n - 1 + 1
        /\ IsFiniteSet(1 .. n + 1)
        /\ Cardinality(1 .. n + 1) = IF 1 > n + 1 THEN 0 ELSE n + 1 - 1 + 1
    BY <2>1, FS_Interval
  <2>3. (IF 1 > n THEN 0 ELSE n - 1 + 1) = n /\ (IF 1 > n + 1 THEN 0 ELSE n + 1 - 1 + 1) = n + 1
    OBVIOUS
  <2> QED
    BY <2>2, <2>3
<1> DEFINE a == Cardinality(SUBSET (1 .. n))
           b == Cardinality(SUBSET (1 .. n + 1))
<1>2. a = 2 ^ n /\ IsFiniteSet(SUBSET (1 .. n))
  BY <1>1, FS_SUBSET
<1>3. b = 2 ^ (n + 1)
  BY <1>1, FS_SUBSET
<1>4. a \in Nat
  BY <1>2, FS_CardinalityType
<1>5. 1 .. n + 1 = (1 .. n) \cup {n + 1} /\ n + 1 \notin 1 .. n
  OBVIOUS
<1>6. b = 2 * a
  BY <1>1, <1>5, SubsetsDouble
<1>7. 2 ^ 0 = 1
  OBVIOUS
<1> HIDE DEF a, b
<1> QED
  BY <1>2, <1>3, <1>4, <1>6, <1>7

\* What holds of 0 and of the successor of what it holds of, holds.
LEMMA Successors ==
  ASSUME NEW P, 0 \in P, \A k \in Nat : k \in P => k + 1 \in P
  PROVE  \A k \in Nat : k \in P
<1> SUFFICES ASSUME NEW a \in Nat, a \notin P PROVE FALSE
  OBVIOUS
<1> DEFINE D == Nat \ P
<1>1. D \in SUBSET Nat /\ a \in D
  OBVIOUS
<1>2. \A k \in Nat : k \in D <=> k \notin P
  OBVIOUS
<1> HIDE DEF D
<1>3. PICK m \in D : \A x \in D : m <= x
  BY <1>1, LeastOf
<1>4. m \in Nat /\ m # 0
  BY <1>1, <1>2, <1>3
<1>5. m - 1 \in Nat /\ (m - 1) + 1 = m /\ m - 1 \notin D
  BY <1>3, <1>4
<1> QED
  BY <1>2, <1>3, <1>4, <1>5

\* r starts with a and goes on from value to value as F says.
Follows(r, N, F, a) == r[0] = a /\ \A k \in 1 .. N : r[k] = F[<<k, r[k - 1]>>]

\* There is such a function.
LEMMA Recursion ==
  ASSUME NEW N \in Nat, NEW S, NEW F \in [(1 .. N) \X S -> S], NEW a \in S
  PROVE  \E r \in [0 .. N -> S] : Follows(r, N, F, a)
<1> DEFINE Good(n) == \E r \in [0 .. n -> S] :
                        r[0] = a /\ \A k \in 1 .. n : r[k] = F[<<k, r[k - 1]>>]
           P == {n \in Nat : n <= N => Good(n)}
<1>1. \A n \in Nat : n \in P <=> (n <= N => Good(n))
  OBVIOUS
<1>2. 0 \in P
  <2>1. [k \in 0 .. 0 |-> a] \in [0 .. 0 -> S] /\ 1 .. 0 = {}
    OBVIOUS
  <2>2. [k \in 0 .. 0 |-> a][0] = a
    OBVIOUS
  <2>3. Good(0)
    BY <2>1, <2>2
  <2> QED
    BY <1>1, <2>3
<1>3. ASSUME NEW n \in Nat, n \in P PROVE n + 1 \in P
  <2> SUFFICES ASSUME n + 1 <= N PROVE Good(n + 1)
    BY <1>1
  <2>1. Good(n) /\ n + 1 \in 1 .. N
    BY <1>1, <1>3
  <2>2. PICK r \in [0 .. n -> S] : r[0] = a /\ \A k \in 1 .. n : r[k] = F[<<k, r[k - 1]>>]
    BY <2>1
  <2> DEFINE t == [k \in 0 .. n + 1 |-> IF k = n + 1 THEN F[<<n + 1, r[n]>>] ELSE r[k]]
  <2>3. r[n] \in S /\ F[<<n + 1, r[n]>>] \in S
    BY <2>1
  <2>4. t \in [0 .. n + 1 -> S]
    BY <2>3
  <2>5. \A k \in 0 .. n : t[k] = r[k]
    OBVIOUS
  <2>6. t[n + 1] = F[<<n + 1, r[n]>>]
    OBVIOUS
  <2> HIDE DEF t
  <2>7. t[0] = a
    BY <2>2, <2>5
  <2>8. ASSUME NEW k \in 1 .. n + 1 PROVE t[k] = F[<<k, t[k - 1]>>]
    <3>1. k - 1 \in 0 .. n /\ t[k - 1] = r[k - 1]
      BY <2>5
    <3>2. CASE k = n + 1
      BY <2>6, <3>1, <3>2
    <3>3. CASE k # n + 1
      <4>1. k \in 1 .. n /\ k \in 0 .. n
        BY <3>3
      <4> QED
        BY <2>2, <2>5, <3>1, <4>1
    <3> QED
      BY <3>2, <3>3
  <2> QED
    BY <2>4, <2>7, <2>8
<1> HIDE DEF P
<1>4. N \in P
  BY <1>2, <1>3, Successors
<1> QED
  BY <1>1, <1>4 DEF Follows

\* Two functions that start alike and go on alike are alike.
LEMMA SameRun ==
  ASSUME NEW n \in Nat, NEW p, NEW r, p[0] = r[0],
         \A k \in Nat : k < n /\ p[k] = r[k] => p[k + 1] = r[k + 1]
  PROVE  \A k \in 0 .. n : p[k] = r[k]
<1> SUFFICES ASSUME NEW a \in 0 .. n, p[a] # r[a] PROVE FALSE
  OBVIOUS
<1> DEFINE D == {k \in 0 .. n : p[k] # r[k]}
<1>1. D \in SUBSET Nat /\ a \in D
  OBVIOUS
<1>2. \A k \in D : k \in 0 .. n /\ p[k] # r[k]
  OBVIOUS
<1>3. \A k \in 0 .. n : k \notin D => p[k] = r[k]
  OBVIOUS
<1> HIDE DEF D
<1>4. PICK m \in D : \A x \in D : m <= x
  BY <1>1, LeastOf
<1>5. m \in 0 .. n /\ m # 0
  BY <1>2, <1>4
<1>6. m - 1 \in 0 .. n /\ m - 1 \notin D /\ m - 1 \in Nat /\ m - 1 < n /\ (m - 1) + 1 = m
  BY <1>4, <1>5
<1> QED
  BY <1>2, <1>3, <1>4, <1>6
-----------------------------------------------------------------------------
(* Digits. *)

\* r holds what is left of number after each of k rounds.
Divided(r, number, base, k) ==
  r = [i \in 0 .. k |-> IF i = 0 THEN number ELSE r[i - 1] \div base]

\* There is such a function,
LEMMA DividedExists ==
  ASSUME NEW number \in Nat, NEW base \in Nat \ {0}, NEW k \in Nat
  PROVE  \E r : Divided(r, number, base, k)
<1> DEFINE S == Nat
           F == [p \in (1 .. k) \X S |-> p[2] \div base]
<1>1. F \in [(1 .. k) \X S -> S] /\ number \in S
  OBVIOUS
<1>2. \A p \in (1 .. k) \X S : F[p] = p[2] \div base
  OBVIOUS
<1> HIDE DEF F, S
<1>3. PICK r \in [0 .. k -> S] : Follows(r, k, F, number)
  BY <1>1, Recursion
<1>4. ASSUME NEW i \in 1 .. k PROVE r[i] = r[i - 1] \div base
  <2>1. i - 1 \in 0 .. k
    OBVIOUS
  <2>2. <<i, r[i - 1]>> \in (1 .. k) \X S
    BY <2>1
  <2>3. r[i] = F[<<i, r[i - 1]>>]
    BY <1>3 DEF Follows
  <2> QED
    BY <1>2, <2>2, <2>3
<1> QED
  BY <1>3, <1>4 DEF Divided, Follows

\* and Remaining takes what is left from one.
LEMMA RemainingDivided ==
  ASSUME NEW number \in Nat, NEW base \in Nat \ {0}, NEW k \in Nat
  PROVE  \E r : Divided(r, number, base, k) /\ Remaining(number, base, k) = r[k]
<1>1. Divided(CHOOSE r : Divided(r, number, base, k), number, base, k)
  BY DividedExists
<1> QED
  BY <1>1 DEF Remaining, Divided

\* A round divides what is left.
LEMMA RemainingSteps ==
  ASSUME NEW number \in Nat, NEW base \in Nat \ {0}, NEW k \in Nat
  PROVE  /\ Remaining(number, base, 0) = number
         /\ Remaining(number, base, k + 1) = Remaining(number, base, k) \div base
<1>1. PICK z : Divided(z, number, base, 0) /\ Remaining(number, base, 0) = z[0]
  BY RemainingDivided
<1>2. PICK r : Divided(r, number, base, k) /\ Remaining(number, base, k) = r[k]
  BY RemainingDivided
<1>3. k + 1 \in Nat
  OBVIOUS
<1>4. PICK s : Divided(s, number, base, k + 1) /\ Remaining(number, base, k + 1) = s[k + 1]
  BY <1>3, RemainingDivided
<1>5. z[0] = number /\ r[0] = number /\ s[0] = number
  BY <1>1, <1>2, <1>4 DEF Divided
<1>6. \A i \in Nat : i < k => r[i + 1] = r[i] \div base
  <2> SUFFICES ASSUME NEW i \in Nat, i < k PROVE r[i + 1] = r[i] \div base
    OBVIOUS
  <2>1. i + 1 \in 0 .. k /\ i + 1 # 0 /\ (i + 1) - 1 = i
    OBVIOUS
  <2> QED
    BY <1>2, <2>1 DEF Divided
<1>7. \A i \in Nat : i <= k => s[i + 1] = s[i] \div base
  <2> SUFFICES ASSUME NEW i \in Nat, i <= k PROVE s[i + 1] = s[i] \div base
    OBVIOUS
  <2>1. i + 1 \in 0 .. k + 1 /\ i + 1 # 0 /\ (i + 1) - 1 = i
    OBVIOUS
  <2> QED
    BY <1>4, <2>1 DEF Divided
<1>8. \A i \in 0 .. k : r[i] = s[i]
  <2>1. \A i \in Nat : i < k /\ r[i] = s[i] => r[i + 1] = s[i + 1]
    BY <1>6, <1>7
  <2> QED
    BY <2>1, <1>5, SameRun
<1>9. r[k] = s[k] /\ s[k + 1] = s[k] \div base
  BY <1>7, <1>8
<1> QED
  BY <1>1, <1>2, <1>4, <1>5, <1>9

\* The bases printf knows,
Radix == {2, 10, 16}

\* and a step of a division by one.
LEMMA Division ==
  ASSUME NEW n \in Nat, NEW b \in Radix
  PROVE  /\ b \in Nat \ {0} /\ n \div b \in Nat /\ n % b \in 0 .. b - 1
         /\ 2 * (n \div b) <= n
         /\ n < b <=> n \div b = 0
         /\ n < b => n % b = n
<1>1. CASE b = 2
  BY <1>1
<1>2. CASE b = 10
  BY <1>2
<1>3. CASE b = 16
  BY <1>3
<1> QED
  BY <1>1, <1>2, <1>3 DEF Radix

\* What is left is a number, and the first round may be taken for itself.
LEMMA RemainingShift ==
  ASSUME NEW n \in Nat, NEW b \in Radix, NEW k \in Nat
  PROVE  /\ Remaining(n, b, k) \in Nat
         /\ Remaining(n, b, k + 1) = Remaining(n \div b, b, k)
<1> DEFINE h == n \div b
           P == {j \in Nat : Remaining(n, b, j) \in Nat
                             /\ Remaining(n, b, j + 1) = Remaining(h, b, j)}
<1>1. h \in Nat /\ b \in Nat \ {0}
  BY Division
<1>2. \A j \in Nat : j \in P <=> /\ Remaining(n, b, j) \in Nat
                                 /\ Remaining(n, b, j + 1) = Remaining(h, b, j)
  OBVIOUS
<1>3. 0 \in P
  <2>1. 0 \in Nat /\ 0 + 1 = 1
    OBVIOUS
  <2>2. Remaining(n, b, 0) = n /\ Remaining(n, b, 0 + 1) = Remaining(n, b, 0) \div b
    BY <1>1, <2>1, RemainingSteps
  <2>3. Remaining(h, b, 0) = h
    BY <1>1, <2>1, RemainingSteps
  <2> QED
    BY <1>2, <2>1, <2>2, <2>3
<1>4. ASSUME NEW j \in Nat, j \in P PROVE j + 1 \in P
  <2>1. Remaining(n, b, j) \in Nat /\ Remaining(n, b, j + 1) = Remaining(h, b, j)
    BY <1>2, <1>4
  <2>2. Remaining(n, b, j + 1) = Remaining(n, b, j) \div b
    BY <1>1, RemainingSteps
  <2>3. j + 1 \in Nat
    OBVIOUS
  <2>4. Remaining(n, b, (j + 1) + 1) = Remaining(n, b, j + 1) \div b
    BY <1>1, <2>3, RemainingSteps
  <2>5. Remaining(h, b, j + 1) = Remaining(h, b, j) \div b
    BY <1>1, RemainingSteps
  <2>6. Remaining(n, b, j + 1) \in Nat
    BY <2>1, <2>2, Division
  <2> QED
    BY <1>2, <2>1, <2>3, <2>4, <2>5, <2>6
<1> HIDE DEF P
<1>5. k \in P
  BY <1>3, <1>4, Successors
<1> QED
  BY <1>2, <1>5

\* Nothing is left of a number after as many rounds as it has binary digits.
LEMMA RemainingSmall ==
  ASSUME NEW b \in Radix, NEW k \in Nat, NEW n \in Nat, n < 2 ^ k
  PROVE  Remaining(n, b, k) = 0
<1> DEFINE P == {j \in Nat : \A m \in Nat : m < 2 ^ j => Remaining(m, b, j) = 0}
<1>1. \A j \in Nat : j \in P <=> \A m \in Nat : m < 2 ^ j => Remaining(m, b, j) = 0
  OBVIOUS
<1>2. 0 \in P
  <2>1. 2 ^ 0 = 1 /\ 0 \in Nat
    BY Powers
  <2>2. ASSUME NEW m \in Nat, m < 2 ^ 0 PROVE Remaining(m, b, 0) = 0
    <3>1. m = 0
      BY <2>1, <2>2
    <3>2. b \in Nat \ {0}
      BY Division
    <3>3. Remaining(m, b, 0) = m
      BY <2>1, <3>2, RemainingSteps
    <3> QED
      BY <3>1, <3>3
  <2> QED
    BY <1>1, <2>1, <2>2
<1>3. ASSUME NEW j \in Nat, j \in P PROVE j + 1 \in P
  <2>1. j + 1 \in Nat /\ 2 ^ j \in Nat /\ 2 ^ (j + 1) = 2 * 2 ^ j
    BY Powers
  <2>2. ASSUME NEW m \in Nat, m < 2 ^ (j + 1) PROVE Remaining(m, b, j + 1) = 0
    <3>1. m \div b \in Nat /\ 2 * (m \div b) <= m
      BY Division
    <3> DEFINE h == m \div b
               e == 2 ^ j
    <3>2. h \in Nat /\ 2 * h <= m /\ e \in Nat /\ m < 2 * e
      BY <2>1, <2>2, <3>1
    <3>3. Remaining(m, b, j + 1) = Remaining(h, b, j)
      BY RemainingShift
    <3> HIDE DEF h, e
    <3>4. h < e
      BY <3>2
    <3>5. h < 2 ^ j
      BY <3>4 DEF e
    <3> QED
      BY <1>1, <1>3, <3>2, <3>3, <3>5
  <2> QED
    BY <1>1, <2>1, <2>2
<1> HIDE DEF P
<1>4. k \in P
  BY <1>2, <1>3, Successors
<1> QED
  BY <1>1, <1>4

\* A number is less than two to it.
LEMMA PowersGrow ==
  ASSUME NEW n \in Nat
  PROVE  n < 2 ^ n
<1> DEFINE P == {j \in Nat : j < 2 ^ j}
<1>1. \A j \in Nat : j \in P <=> j < 2 ^ j
  OBVIOUS
<1>2. 0 \in P
  BY <1>1, Powers
<1>3. ASSUME NEW j \in Nat, j \in P PROVE j + 1 \in P
  <2> DEFINE e == 2 ^ j
  <2>1. e \in Nat /\ 2 ^ (j + 1) = 2 * e
    BY Powers
  <2>2. j < e
    BY <1>1, <1>3
  <2> HIDE DEF e
  <2>3. j + 1 < 2 * e /\ j + 1 \in Nat
    BY <2>1, <2>2
  <2>4. j + 1 < 2 ^ (j + 1)
    BY <2>1, <2>3
  <2> QED
    BY <1>1, <2>3, <2>4
<1> HIDE DEF P
<1>4. n \in P
  BY <1>2, <1>3, Successors
<1> QED
  BY <1>1, <1>4

\* The number of digits, and the digits.
Width(n, b) == Min({k \in Nat \ {0} : Remaining(n, b, k) = 0})
Digits(n, b) ==
  [i \in 1 .. Width(n, b) |->
     numtochar[(Remaining(n, b, Width(n, b) - i) % b) + 1]]

\* Nothing is left after that many rounds, and something before.
LEMMA WidthFacts ==
  ASSUME NEW n \in Nat, NEW b \in Radix
  PROVE  /\ Width(n, b) \in Nat \ {0}
         /\ Remaining(n, b, Width(n, b)) = 0
         /\ \A k \in Nat \ {0} : Remaining(n, b, k) = 0 => Width(n, b) <= k
<1> DEFINE W == {k \in Nat \ {0} : Remaining(n, b, k) = 0}
<1>1. W \in SUBSET Nat
  OBVIOUS
<1>2. W # {}
  <2>1. n + 1 \in Nat \ {0} /\ n < 2 ^ (n + 1)
    <3>1. n < 2 ^ n /\ 2 ^ n \in Nat /\ 2 ^ (n + 1) = 2 * 2 ^ n
      BY Powers, PowersGrow
    <3> DEFINE e == 2 ^ n
    <3>2. n < e /\ e \in Nat /\ 2 ^ (n + 1) = 2 * e
      BY <3>1
    <3> HIDE DEF e
    <3> QED
      BY <3>2
  <2>2. Remaining(n, b, n + 1) = 0
    BY <2>1, RemainingSmall
  <2> QED
    BY <2>1, <2>2
<1>3. Min(W) \in W /\ \A k \in W : Min(W) <= k
  BY <1>1, <1>2, MinOf
<1> QED
  BY <1>3 DEF Width

\* A digit more than what is left without the last one.
LEMMA WidthSteps ==
  ASSUME NEW n \in Nat, NEW b \in Radix
  PROVE  /\ n < b => Width(n, b) = 1
         /\ ~(n < b) => Width(n, b) = Width(n \div b, b) + 1
<1> DEFINE h == n \div b
           w == Width(n, b)
           v == Width(h, b)
<1>1. h \in Nat /\ (n < b <=> h = 0) /\ b \in Nat \ {0}
  BY Division
<1>2. Remaining(n, b, 0) = n /\ Remaining(n, b, 0 + 1) = Remaining(n, b, 0) \div b
  BY <1>1, RemainingSteps
<1>3. Remaining(n, b, 1) = h
  BY <1>2
<1>4. /\ w \in Nat \ {0} /\ Remaining(n, b, w) = 0
      /\ \A k \in Nat \ {0} : Remaining(n, b, k) = 0 => w <= k
  BY WidthFacts
<1>5. /\ v \in Nat \ {0} /\ Remaining(h, b, v) = 0
      /\ \A k \in Nat \ {0} : Remaining(h, b, k) = 0 => v <= k
  BY <1>1, WidthFacts
<1>6. \A k \in Nat : Remaining(n, b, k + 1) = Remaining(h, b, k)
  BY RemainingShift
<1> HIDE DEF h, w, v
<1>7. ASSUME n < b PROVE w = 1
  <2>1. Remaining(n, b, 1) = 0 /\ 1 \in Nat \ {0}
    BY <1>1, <1>3, <1>7
  <2>2. w <= 1 /\ w \in Nat \ {0}
    BY <1>4, <2>1
  <2> QED
    BY <2>2
<1>8. ASSUME ~(n < b) PROVE w = v + 1
  <2>1. Remaining(n, b, 1) # 0
    BY <1>1, <1>3, <1>8
  <2>2. w # 1
    BY <1>4, <2>1
  <2>3. w - 1 \in Nat \ {0} /\ w - 1 \in Nat /\ (w - 1) + 1 = w
    BY <1>4, <2>2
  <2>4. Remaining(h, b, w - 1) = 0
    BY <1>4, <1>6, <2>3
  <2>5. v <= w - 1
    BY <1>5, <2>3, <2>4
  <2>6. v + 1 \in Nat \ {0} /\ v \in Nat
    BY <1>5
  <2>7. Remaining(n, b, v + 1) = 0
    BY <1>5, <1>6, <2>6
  <2>8. w <= v + 1
    BY <1>4, <2>6, <2>7
  <2> QED
    BY <1>4, <2>5, <2>6, <2>8
<1> QED
  BY <1>7, <1>8 DEF h, v, w

\* The digits are those of what is left without the last one, and that one.
LEMMA DigitsSteps ==
  ASSUME NEW n \in Nat, NEW b \in Radix
  PROVE  Digits(n, b) = IF n < b THEN <<numtochar[n + 1]>>
                        ELSE Append(Digits(n \div b, b), numtochar[(n % b) + 1])
<1> DEFINE h == n \div b
           w == Width(n, b)
           v == Width(h, b)
<1>1. h \in Nat /\ (n < b => n % b = n) /\ b \in Nat \ {0}
  BY Division
<1>2. w \in Nat \ {0} /\ v \in Nat \ {0}
  BY <1>1, WidthFacts
<1>3. (n < b => w = 1) /\ (~(n < b) => w = v + 1)
  BY WidthSteps
<1>4. Remaining(n, b, 0) = n
  BY <1>1, RemainingSteps
<1>5. \A k \in Nat : Remaining(n, b, k + 1) = Remaining(h, b, k)
  BY RemainingShift
<1> DEFINE dig == [i \in 1 .. w |-> numtochar[(Remaining(n, b, w - i) % b) + 1]]
           rest == [i \in 1 .. v |-> numtochar[(Remaining(h, b, v - i) % b) + 1]]
           last == numtochar[(n % b) + 1]
<1>6. Digits(n, b) = dig /\ Digits(h, b) = rest
  BY DEF Digits
<1>7. dig[w] = last
  <2>1. w \in 1 .. w /\ w - w = 0
    BY <1>2
  <2> QED
    BY <1>4, <2>1
<1> HIDE DEF h, w, v
<1>8. ASSUME n < b PROVE dig = <<numtochar[n + 1]>>
  <2>1. w = 1 /\ last = numtochar[n + 1]
    BY <1>1, <1>3, <1>8
  <2>2. 1 .. w = {1} /\ dig[1] = numtochar[n + 1]
    BY <1>7, <2>1
  <2>3. dig = [i \in 1 .. 1 |-> dig[i]] /\ Len(dig) = 1 /\ dig \in Seq({numtochar[n + 1]})
    BY <2>1, <2>2
  <2> HIDE DEF dig
  <2> QED
    BY <2>2, <2>3
<1>9. ASSUME ~(n < b) PROVE dig = Append(rest, last)
  <2>1. w = v + 1
    BY <1>3, <1>9
  <2>2. \A i \in 1 .. v : dig[i] = rest[i]
    <3> SUFFICES ASSUME NEW i \in 1 .. v PROVE dig[i] = rest[i]
      OBVIOUS
    <3>1. v - i \in Nat /\ w - i = (v - i) + 1 /\ i \in 1 .. w
      BY <1>2, <2>1
    <3>2. Remaining(n, b, w - i) = Remaining(h, b, v - i)
      BY <1>5, <3>1
    <3>3. dig[i] = numtochar[(Remaining(n, b, w - i) % b) + 1]
      BY <3>1
    <3> QED
      BY <3>2, <3>3
  <2>3. DOMAIN dig = 1 .. v + 1 /\ DOMAIN rest = 1 .. v /\ dig[v + 1] = last
    BY <1>7, <2>1
  <2>4. dig = [i \in 1 .. v + 1 |-> dig[i]] /\ rest = [i \in 1 .. v |-> rest[i]]
    BY <2>1
  <2> HIDE DEF dig, rest, last
  <2>5. Len(rest) = v
    BY <1>2, <2>4
  <2>6. Append(rest, last) = [i \in 1 .. v + 1 |-> IF i = v + 1 THEN last ELSE rest[i]]
    BY <2>4, <2>5, <1>2
  <2>7. \A i \in 1 .. v + 1 : dig[i] = IF i = v + 1 THEN last ELSE rest[i]
    BY <1>2, <2>2, <2>3
  <2> QED
    BY <2>4, <2>6, <2>7
<1> HIDE DEF dig, rest, last
<1> QED
  BY <1>6, <1>8, <1>9 DEF h, last

\* The numeral of a number are its digits.
LEMMA NumeralDigits ==
  ASSUME NEW number \in Nat, NEW b \in Radix
  PROVE  Numeral(number, b) = Digits(number, b)
<1> DEFINE Step(f) == [n \in 0 .. number |->
                         IF n < b THEN <<numtochar[n + 1]>>
                         ELSE Append(f[n \div b], numtochar[(n % b) + 1])]
           g == [n \in 0 .. number |-> Digits(n, b)]
<1>1. g = Step(g)
  <2>1. ASSUME NEW n \in 0 .. number
        PROVE  g[n] = IF n < b THEN <<numtochar[n + 1]>>
                      ELSE Append(g[n \div b], numtochar[(n % b) + 1])
    <3>1. n \in Nat /\ n <= number
      OBVIOUS
    <3>2. n \div b \in Nat /\ 2 * (n \div b) <= n
      BY <3>1, Division
    <3>3. n \div b \in 0 .. number
      <4> DEFINE h == n \div b
      <4> HIDE DEF h
      <4>1. h \in Nat /\ 2 * h <= n => h \in 0 .. number
        BY <3>1
      <4> QED
        BY <3>2, <4>1 DEF h
    <3>4. g[n] = Digits(n, b) /\ g[n \div b] = Digits(n \div b, b)
      BY <3>3
    <3> QED
      BY <3>1, <3>4, DigitsSteps
  <2> QED
    BY <2>1
<1> DEFINE f == CHOOSE x : x = Step(x)
<1>2. f = Step(f)
  BY <1>1
<1>3. Numeral(number, b) = f[number]
  BY DEF Numeral
<1> HIDE DEF f
<1> DEFINE D == {n \in 0 .. number : f[n] # Digits(n, b)}
<1>4. D \in SUBSET Nat
  OBVIOUS
<1>5. \A n \in 0 .. number : n \in D <=> f[n] # Digits(n, b)
  OBVIOUS
<1>6. \A n \in D : n \in 0 .. number
  OBVIOUS
<1> HIDE DEF D
<1>7. D = {}
  <2> SUFFICES ASSUME D # {} PROVE FALSE
    OBVIOUS
  <2>1. PICK m \in D : \A x \in D : m <= x
    BY <1>4, LeastOf
  <2>2. m \in 0 .. number /\ m \in Nat
    BY <1>6
  <2>3. f[m] = IF m < b THEN <<numtochar[m + 1]>>
               ELSE Append(f[m \div b], numtochar[(m % b) + 1])
    BY <1>2, <2>2
  <2>4. CASE m < b
    BY <2>2, <2>3, <2>4, <1>5, DigitsSteps
  <2>5. CASE ~(m < b)
    <3> DEFINE h == m \div b
    <3>1. h \in Nat /\ 2 * h <= m /\ h # 0
      BY <2>2, <2>5, Division
    <3>2. f[h] = Digits(h, b)
      <4> HIDE DEF h
      <4>1. h \in 0 .. number /\ h < m
        BY <2>2, <3>1
      <4>2. h \notin D
        BY <2>1, <2>2, <4>1
      <4> QED
        BY <1>5, <4>1, <4>2
    <3>3. Digits(m, b) = Append(Digits(h, b), numtochar[(m % b) + 1])
      BY <2>2, <2>5, DigitsSteps
    <3> QED
      BY <1>5, <2>2, <2>3, <2>5, <3>2, <3>3
  <2> QED
    BY <2>4, <2>5
<1>8. number \in 0 .. number
  OBVIOUS
<1> QED
  BY <1>3, <1>5, <1>7, <1>8

\* print_uint_to_string prints them all, if the buffer has a byte for each
\* binary digit.
LEMMA PrintsNumerals ==
  ASSUME NEW size \in Nat \ {0}, NEW number \in Nat, number < 2 ^ size, NEW b \in Radix
  PROVE  print_uint_to_string(number, b, size) = BasePrefix(b) \o Numeral(number, b)
<1>1. Numeral(number, b) = Digits(number, b)
  BY NumeralDigits
<1>2. CASE number = 0
  <2>1. 0 < b
    BY DEF Radix
  <2>2. Digits(0, b) = <<numtochar[0 + 1]>>
    BY <2>1, DigitsSteps
  <2>3. <<numtochar[0 + 1]>> = <<48>>
    BY DEF numtochar
  <2> QED
    BY <1>1, <1>2, <2>2, <2>3 DEF print_uint_to_string
<1>3. CASE number # 0
  <2>1. Remaining(number, b, size) = 0
    BY RemainingSmall
  <2>2. /\ Width(number, b) \in Nat \ {0}
        /\ Remaining(number, b, Width(number, b)) = 0
        /\ \A k \in Nat \ {0} : Remaining(number, b, k) = 0 => Width(number, b) <= k
    BY WidthFacts
  <2> DEFINE w == Width(number, b)
             R == {k \in 1 .. size : Remaining(number, b, k) = 0} \cup {size}
  <2>3. w <= size
    BY <2>1, <2>2
  <2>4. w \in R /\ R \in SUBSET Nat
    BY <2>2, <2>3
  <2>5. \A k \in R : k \in Nat \ {0} /\ Remaining(number, b, k) = 0
    BY <2>1
  <2>6. \A k \in R : w <= k
    BY <2>2, <2>5
  <2>7. Min(R) = w
    <3> HIDE DEF R, w
    <3> QED
      BY <2>4, <2>6, MinIs
  <2>8. Rounds(number, b, size) = w
    BY <2>7 DEF Rounds
  <2> QED
    BY <1>1, <1>3, <2>8 DEF print_uint_to_string, Digits
<1> QED
  BY <1>2, <1>3
-----------------------------------------------------------------------------
(* Rows of rows. *)

\* Row after row is joined to what is there, first to last,
LEMMA Joining ==
  ASSUME NEW X, NEW seqs \in Seq(Seq(X))
  PROVE  \E r \in [0 .. Len(seqs) -> Seq(X)] :
           /\ r[0] = <<>>
           /\ \A k \in 1 .. Len(seqs) : r[k] = r[k - 1] \o seqs[k]
           /\ FlattenSeq(seqs) = r[Len(seqs)]
<1> DEFINE N == Len(seqs)
           F == [p \in (1 .. N) \X Seq(X) |-> p[2] \o seqs[p[1]]]
<1>1. N \in Nat /\ \A k \in 1 .. N : seqs[k] \in Seq(X)
  OBVIOUS
<1>2. F \in [(1 .. N) \X Seq(X) -> Seq(X)]
  BY <1>1
<1>3. \A p \in (1 .. N) \X Seq(X) : F[p] = p[2] \o seqs[p[1]]
  OBVIOUS
<1>4. <<>> \in Seq(X)
  OBVIOUS
<1> HIDE DEF F
<1>5. PICK r \in [0 .. N -> Seq(X)] : Follows(r, N, F, <<>>)
  <2> HIDE DEF N
  <2> QED
    BY <1>1, <1>2, <1>4, Recursion
<1>6. r[0] = <<>> /\ \A k \in 1 .. N : r[k] = r[k - 1] \o seqs[k]
  <2>1. r[0] = <<>>
    BY <1>5 DEF Follows
  <2>2. ASSUME NEW k \in 1 .. N PROVE r[k] = r[k - 1] \o seqs[k]
    <3>1. r[k] = F[<<k, r[k - 1]>>]
      BY <1>5 DEF Follows
    <3>2. k - 1 \in 0 .. N
      BY <1>1
    <3>3. r[k - 1] \in Seq(X)
      BY <3>2
    <3>4. <<k, r[k - 1]>> \in (1 .. N) \X Seq(X)
      BY <3>3
    <3> QED
      BY <1>3, <3>1, <3>4
  <2> QED
    BY <2>1, <2>2
<1>7. FlattenSeq(seqs) = r[N]
  <2>1. CASE N = 0
    <3>1. seqs = <<>>
      BY <2>1
    <3> QED
      BY <1>5, <2>1, <3>1 DEF FlattenSeq
  <2>2. CASE N # 0
    <3> DEFINE Step(f) == [i \in 1 .. N |-> IF i = 1 THEN seqs[i] ELSE f[i - 1] \o seqs[i]]
               g == [i \in 1 .. N |-> r[i]]
               f == CHOOSE x : x = Step(x)
    <3>1. g = Step(g)
      <4>1. ASSUME NEW i \in 1 .. N
            PROVE  g[i] = IF i = 1 THEN seqs[i] ELSE g[i - 1] \o seqs[i]
        <5>1. CASE i = 1
          <6>1. 1 \in 1 .. N /\ 1 - 1 = 0
            BY <5>1
          <6>2. r[1] = r[0] \o seqs[1]
            BY <1>6, <6>1
          <6>3. r[1] = <<>> \o seqs[1] /\ seqs[1] \in Seq(X)
            BY <1>1, <1>6, <6>1, <6>2
          <6> QED
            BY <5>1, <6>3
        <5>2. CASE i # 1
          <6>1. i - 1 \in 1 .. N
            BY <1>1, <5>2
          <6> QED
            BY <1>6, <5>2, <6>1
        <5> QED
          BY <5>1, <5>2
      <4> QED
        BY <4>1
    <3>2. f = Step(f)
      BY <3>1
    <3>3. FlattenSeq(seqs) = f[N]
      BY <2>2 DEF FlattenSeq
    <3> HIDE DEF f
    <3>4. \A i \in 1 .. N : f[i] = IF i = 1 THEN seqs[i] ELSE f[i - 1] \o seqs[i]
      BY <3>2
    <3> HIDE DEF N
    <3> DEFINE P == {k \in Nat : k + 1 <= N => f[k + 1] = r[k + 1]}
    <3>5. \A k \in Nat : k \in P <=> (k + 1 <= N => f[k + 1] = r[k + 1])
      OBVIOUS
    <3>6. 0 \in P
      <4>1. 1 \in 1 .. N /\ 1 - 1 = 0 /\ seqs[1] \in Seq(X)
        BY <1>1, <2>2
      <4>2. f[1] = seqs[1]
        BY <3>4, <4>1
      <4>3. r[1] = r[0] \o seqs[1]
        BY <1>6, <4>1
      <4>4. r[1] = seqs[1]
        BY <1>6, <4>1, <4>3
      <4> QED
        BY <3>5, <4>2, <4>4
    <3>7. ASSUME NEW k \in Nat, k \in P PROVE k + 1 \in P
      <4> SUFFICES ASSUME k + 2 <= N PROVE f[k + 2] = r[k + 2]
        BY <3>5
      <4>1. k + 2 \in 1 .. N /\ k + 2 # 1 /\ (k + 2) - 1 = k + 1 /\ k + 1 <= N
        BY <1>1
      <4>2. f[k + 1] = r[k + 1]
        BY <3>5, <3>7, <4>1
      <4>3. f[k + 2] = f[k + 1] \o seqs[k + 2]
        BY <3>4, <4>1
      <4>4. r[k + 2] = r[k + 1] \o seqs[k + 2]
        BY <1>6, <4>1
      <4> QED
        BY <4>2, <4>3, <4>4
    <3> HIDE DEF P
    <3>8. N - 1 \in Nat /\ (N - 1) + 1 = N
      BY <1>1, <2>2
    <3>9. N - 1 \in P
      BY <3>6, <3>7, <3>8, Successors
    <3> QED
      BY <3>3, <3>5, <3>8, <3>9
  <2> QED
    BY <2>1, <2>2
<1> QED
  BY <1>6, <1>7

\* and what is still to be joined gets shorter by a row each time.
LEMMA StillToJoin ==
  ASSUME NEW X, NEW seqs \in Seq(Seq(X))
  PROVE  \E s \in [0 .. Len(seqs) -> Seq(X)] :
           /\ s[0] = FlattenSeq(seqs)
           /\ s[Len(seqs)] = <<>>
           /\ \A k \in 1 .. Len(seqs) : s[k - 1] = seqs[k] \o s[k]
<1> DEFINE N == Len(seqs)
           F == [p \in (1 .. N) \X Seq(X) |-> seqs[N - p[1] + 1] \o p[2]]
<1>1. N \in Nat /\ \A k \in 1 .. N : seqs[k] \in Seq(X)
  OBVIOUS
<1>2. F \in [(1 .. N) \X Seq(X) -> Seq(X)]
  <2> SUFFICES ASSUME NEW p \in (1 .. N) \X Seq(X)
               PROVE  seqs[N - p[1] + 1] \o p[2] \in Seq(X)
    OBVIOUS
  <2>1. p[1] \in 1 .. N /\ p[2] \in Seq(X)
    OBVIOUS
  <2>2. N - p[1] + 1 \in 1 .. N
    BY <1>1, <2>1
  <2> QED
    BY <1>1, <2>1, <2>2
<1>3. \A p \in (1 .. N) \X Seq(X) : F[p] = seqs[N - p[1] + 1] \o p[2]
  OBVIOUS
<1>4. <<>> \in Seq(X)
  OBVIOUS
<1> HIDE DEF F
<1>5. PICK u \in [0 .. N -> Seq(X)] : Follows(u, N, F, <<>>)
  <2> HIDE DEF N
  <2> QED
    BY <1>1, <1>2, <1>4, Recursion
<1>6. PICK r \in [0 .. N -> Seq(X)] :
        /\ r[0] = <<>>
        /\ \A k \in 1 .. N : r[k] = r[k - 1] \o seqs[k]
        /\ FlattenSeq(seqs) = r[N]
  BY Joining
<1> DEFINE s == [k \in 0 .. N |-> u[N - k]]
<1> HIDE DEF N
<1>7. s \in [0 .. N -> Seq(X)]
  BY <1>1
<1>8. s[N] = <<>>
  <2>1. N - N = 0 /\ N \in 0 .. N
    BY <1>1
  <2> QED
    BY <1>5, <2>1 DEF Follows
<1>9. ASSUME NEW k \in 1 .. N PROVE s[k - 1] = seqs[k] \o s[k]
  <2> DEFINE j == N - (k - 1)
  <2>1. j \in 1 .. N /\ j - 1 = N - k /\ N - j + 1 = k /\ k - 1 \in 0 .. N /\ j - 1 \in 0 .. N
    BY <1>1
  <2>2. s[k - 1] = u[j] /\ s[k] = u[j - 1]
    BY <2>1
  <2> HIDE DEF j, s
  <2>3. u[j] = F[<<j, u[j - 1]>>]
    BY <1>5, <2>1 DEF Follows
  <2>4. <<j, u[j - 1]>> \in (1 .. N) \X Seq(X)
    BY <2>1
  <2>5. u[j] = seqs[N - j + 1] \o u[j - 1]
    BY <1>3, <2>3, <2>4
  <2> QED
    BY <2>1, <2>2, <2>5
<1> HIDE DEF s
<1> DEFINE P == {k \in Nat : k <= N => r[k] \o s[k] = s[0]}
<1>10. \A k \in Nat : k \in P <=> (k <= N => r[k] \o s[k] = s[0])
  OBVIOUS
<1>11. 0 \in P
  <2>1. s[0] \in Seq(X)
    BY <1>1, <1>7
  <2>2. <<>> \o s[0] = s[0]
    BY <2>1
  <2>3. r[0] \o s[0] = s[0] /\ 0 \in Nat
    BY <1>6, <2>2
  <2> QED
    BY <1>10, <2>3
<1>12. ASSUME NEW k \in Nat, k \in P PROVE k + 1 \in P
  <2> SUFFICES ASSUME k + 1 <= N PROVE r[k + 1] \o s[k + 1] = s[0]
    <3>1. k + 1 \in Nat
      OBVIOUS
    <3>2. k + 1 \in P <=> (k + 1 <= N => r[k + 1] \o s[k + 1] = s[0])
      BY <1>10, <3>1
    <3> QED
      BY <3>2
  <2>1. k + 1 \in 1 .. N /\ k \in 0 .. N /\ k + 1 \in 0 .. N /\ (k + 1) - 1 = k
    BY <1>1
  <2>2. r[k] \o s[k] = s[0]
    BY <1>10, <1>12, <2>1
  <2>3. r[k + 1] = r[k] \o seqs[k + 1]
    BY <1>6, <2>1
  <2>4. s[k] = seqs[k + 1] \o s[k + 1]
    BY <1>9, <2>1
  <2>5. r[k] \in Seq(X) /\ seqs[k + 1] \in Seq(X) /\ s[k + 1] \in Seq(X)
    <3>1. r[k] \in Seq(X)
      BY <2>1
    <3>2. seqs[k + 1] \in Seq(X)
      BY <1>1, <2>1
    <3>3. s[k + 1] \in Seq(X)
      BY <1>7, <2>1
    <3> QED
      BY <3>1, <3>2, <3>3
  <2>6. (r[k] \o seqs[k + 1]) \o s[k + 1] = r[k] \o (seqs[k + 1] \o s[k + 1])
    <3> DEFINE a == r[k]
               b == seqs[k + 1]
               c == s[k + 1]
    <3>1. a \in Seq(X) /\ b \in Seq(X) /\ c \in Seq(X)
      BY <2>5
    <3> HIDE DEF a, b, c
    <3>2. (a \o b) \o c = a \o (b \o c)
      BY <3>1, ConcatAssociative
    <3> QED
      BY <3>2 DEF a, b, c
  <2> QED
    BY <2>2, <2>3, <2>4, <2>6
<1> HIDE DEF P
<1>13. N \in P
  BY <1>1, <1>11, <1>12, Successors
<1>14. r[N] = s[0]
  <2>0. N \in Nat /\ N <= N /\ N \in 0 .. N
    BY <1>1
  <2>2. r[N] \o s[N] = s[0]
    BY <1>10, <1>13, <2>0
  <2>3. r[N] \in Seq(X)
    BY <2>0
  <2>1. r[N] \o <<>> = s[0] /\ r[N] \in Seq(X)
    BY <1>8, <2>2, <2>3
  <2> QED
    BY <2>1
<1> QED
  BY <1>6, <1>7, <1>8, <1>9, <1>14 DEF N

\* Only the first rows count for what they give.
LEMMA JoiningTo ==
  ASSUME NEW X, NEW seqs \in Seq(Seq(X)), NEW r, r[0] = <<>>,
         \A k \in 1 .. Len(seqs) : r[k] = r[k - 1] \o seqs[k],
         NEW m \in 0 .. Len(seqs)
  PROVE  FlattenSeq(SubSeq(seqs, 1, m)) = r[m]
<1> DEFINE t == SubSeq(seqs, 1, m)
<1>1. m \in Nat /\ t \in Seq(Seq(X)) /\ Len(t) = m /\ \A k \in 1 .. m : t[k] = seqs[k]
  OBVIOUS
<1> HIDE DEF t
<1>2. PICK q \in [0 .. m -> Seq(X)] :
        /\ q[0] = <<>>
        /\ \A k \in 1 .. m : q[k] = q[k - 1] \o t[k]
        /\ FlattenSeq(t) = q[m]
  BY <1>1, Joining
<1>3. ASSUME NEW k \in Nat, k < m, q[k] = r[k] PROVE q[k + 1] = r[k + 1]
  <2>1. k + 1 \in 1 .. m /\ k + 1 \in 1 .. Len(seqs) /\ (k + 1) - 1 = k
    BY <1>1, <1>3
  <2>2. q[k + 1] = q[k] \o t[k + 1]
    BY <1>2, <2>1
  <2>3. r[k + 1] = r[k] \o seqs[k + 1]
    BY <2>1
  <2>4. t[k + 1] = seqs[k + 1]
    BY <1>1, <2>1
  <2>5. q[k] = r[k]
    BY <1>3
  <2>6. q[k] \o t[k + 1] = r[k] \o seqs[k + 1]
    BY <2>4, <2>5
  <2> QED
    BY <2>2, <2>3, <2>6
<1>4. \A k \in 0 .. m : q[k] = r[k]
  <2>1. \A k \in Nat : k < m /\ q[k] = r[k] => q[k + 1] = r[k + 1]
    BY <1>3
  <2>2. q[0] = r[0]
    BY <1>2
  <2>3. m \in Nat
    BY <1>1
  <2> QED
    BY ONLY <2>1, <2>2, <2>3, SameRun, ZenonT(40)
<1>5. m \in 0 .. m
  BY <1>1
<1> QED
  BY <1>2, <1>4, <1>5 DEF t

-----------------------------------------------------------------------------
(* The loop of printf. *)

\* The state before the loop, and a pass of its condition.
Begun(format, args) ==
  [format |-> format, args |-> args, out |-> <<>>, errors |-> {}, running |-> TRUE]
Pass(q) == IF q.running /\ q.format # <<>> THEN Round(q) ELSE q

\* What goes through the states of the loop ends where printf ends.
LEMMA PrintfRuns ==
  ASSUME NEW format, NEW args, Len(format) \in Nat, NEW g,
         g[0] = Begun(format, args),
         \A k \in 1 .. Len(format) : g[k] = Pass(g[k - 1])
  PROVE  printf(format, args) = g[Len(format)]
<1> DEFINE N == Len(format)
           Step(f) == [k \in 0 .. N |-> IF k = 0 THEN Begun(format, args) ELSE Pass(f[k - 1])]
           h == [k \in 0 .. N |-> g[k]]
           f == CHOOSE x : x = Step(x)
<1>1. h = Step(h)
  <2>1. ASSUME NEW k \in 0 .. N
        PROVE  h[k] = IF k = 0 THEN Begun(format, args) ELSE Pass(h[k - 1])
    <3>1. CASE k = 0
      BY <3>1
    <3>2. CASE k # 0
      <4>1. k \in 1 .. N /\ k - 1 \in 0 .. N
        BY <3>2
      <4>2. h[k] = g[k] /\ h[k - 1] = g[k - 1]
        BY <4>1
      <4> QED
        BY <3>2, <4>1, <4>2
    <3> QED
      BY <3>1, <3>2
  <2> QED
    BY <2>1
<1>2. f = Step(f)
  BY <1>1
<1>3. printf(format, args) = f[N]
  BY DEF printf, Begun, Pass
<1> HIDE DEF f
<1>4. f[0] = g[0]
  BY <1>2
<1>5. \A k \in Nat : k < N /\ f[k] = g[k] => f[k + 1] = g[k + 1]
  <2> SUFFICES ASSUME NEW k \in Nat, k < N, f[k] = g[k] PROVE f[k + 1] = g[k + 1]
    OBVIOUS
  <2>1. k + 1 \in 0 .. N /\ k + 1 # 0 /\ (k + 1) - 1 = k /\ k + 1 \in 1 .. N
    OBVIOUS
  <2>2. f[k + 1] = Pass(f[k])
    BY <1>2, <2>1
  <2>3. g[k + 1] = Pass(g[k])
    BY <2>1
  <2> QED
    BY <2>2, <2>3
<1>6. N \in Nat /\ N \in 0 .. N
  OBVIOUS
<1> HIDE DEF N
<1>7. \A k \in 0 .. N : f[k] = g[k]
  BY ONLY <1>4, <1>5, <1>6, SameRun
<1> QED
  BY <1>3, <1>6, <1>7 DEF N

\* Items whose values printf is made for.
SoundItems ==
  [type : {"char"}, value : (1 .. 255) \ {Percent}]
    \cup [type : {"percent", "null"}, value : {0}]
    \cup [type : {"s"}, value : Seq(1 .. 255)]
    \cup [type : {"c"}, value : 1 .. 255]
    \cup [type : {"d", "x", "b"}, value : 0 .. 2 ^ PRINTF_BUFFER_SIZE - 1]
    \cup [type : {"unknown"}, value : (1 .. 255) \ Conversions]

\* The items callers have are.
LEMMA ItemsSound == Items \subseteq SoundItems
<1> DEFINE M == 0 .. 2 ^ PRINTF_BUFFER_SIZE - 1
<1>1. Numbers \subseteq M
  BY WidthAssumption
<1> HIDE DEF M
<1> SUFFICES ASSUME NEW it \in Items PROVE it \in SoundItems
  OBVIOUS
<1>2. CASE it \in [type : {"char"}, value : Characters]
  BY <1>2, TextAssumption, ZenonT(40) DEF SoundItems
<1>3. CASE it \in [type : {"percent", "null"}, value : {0}]
  BY <1>3 DEF SoundItems
<1>4. CASE it \in [type : {"s"}, value : Strings]
  BY <1>4, TextAssumption DEF SoundItems
<1>5. CASE it \in [type : {"c"}, value : Characters]
  BY <1>5, TextAssumption, ZenonT(40) DEF SoundItems
<1>6. CASE it \in [type : {"d", "x", "b"}, value : Numbers]
  <2>1. it \in [type : {"d", "x", "b"}, value : M]
    BY <1>1, <1>6
  <2> QED
    BY <2>1 DEF SoundItems, M
<1>7. CASE it \in [type : {"unknown"}, value : Characters \ Conversions]
  BY <1>7, TextAssumption, ZenonT(40) DEF SoundItems
<1> QED
  BY <1>2, <1>3, <1>4, <1>5, <1>6, <1>7 DEF Items

\* The bytes of strings.
Byte == 1 .. 255

\* A percent sign is one, and none is 0.
LEMMA ByteFacts == Percent \in Byte /\ Byte \subseteq Nat /\ 0 \notin Byte
BY DEF Byte, Percent

\* The letters differ, and none is a percent sign.
LEMMA LetterFacts ==
  /\ DOMAIN Letter = {"s", "c", "d", "x", "b"}
  /\ \A t \in DOMAIN Letter : Letter[t] \in Byte /\ Letter[t] # Percent
  /\ \A t, u \in DOMAIN Letter : Letter[t] = Letter[u] => t = u
  /\ Conversions \ {Percent} = {Letter[t] : t \in DOMAIN Letter}
<1>1. DOMAIN Letter = {"s", "c", "d", "x", "b"}
  BY DEF Letter
<1>2. /\ Letter["s"] = 115 /\ Letter["c"] = 99 /\ Letter["d"] = 100
      /\ Letter["x"] = 120 /\ Letter["b"] = 98
  BY DEF Letter
<1>3. \A t \in DOMAIN Letter : Letter[t] \in Byte /\ Letter[t] # Percent
  BY <1>1, <1>2 DEF Percent, Byte
<1>4. \A t, u \in DOMAIN Letter : Letter[t] = Letter[u] => t = u
  BY <1>1, <1>2
<1> QED
  BY <1>1, <1>3, <1>4 DEF Conversions

\* The characters of conversions.
LEMMA ConversionFacts == Conversions = {115, 99, 100, 120, 98, 37} /\ 0 \notin Conversions
<1>1. DOMAIN Letter = {"s", "c", "d", "x", "b"}
  BY LetterFacts
<1>2. /\ Letter["s"] = 115 /\ Letter["c"] = 99 /\ Letter["d"] = 100
      /\ Letter["x"] = 120 /\ Letter["b"] = 98
  BY DEF Letter
<1>3. {Letter[t] : t \in DOMAIN Letter} = {115, 99, 100, 120, 98}
  BY <1>1, <1>2
<1> QED
  BY <1>3 DEF Conversions, Percent

\* A state of the loop, and what a round that prints text makes of it.
On(r) == r = TRUE
Looping(f, a, o, e, r) == [format |-> f, args |-> a, out |-> o, errors |-> e, running |-> r]

\* What a round that prints text leaves.
LEMMA PrintsLeaves ==
  ASSUME NEW f, NEW a, NEW o, NEW e, NEW r, NEW text, NEW n \in Nat
  PROVE  Prints(Looping(f, a, o, e, r), text, n)
         = Looping(SubSeq(f, n + 1, Len(f)), a, o \o text, e, r)
<1> DEFINE p == Looping(f, a, o, e, r)
           x == o \o text
           y == SubSeq(f, n + 1, Len(f))
<1> HIDE DEF x, y
<1>1. p.out = o /\ p.format = f
  BY DEF Looping
<1>2. [p EXCEPT !.out = x] = Looping(f, a, x, e, r)
  BY DEF Looping
<1>3. [Looping(f, a, x, e, r) EXCEPT !.format = y] = Looping(y, a, x, e, r)
  BY DEF Looping
<1>4. Prints(p, text, n) = [p EXCEPT !.out = x, !.format = y]
  <2>1. Prints(p, text, n) = [p EXCEPT !.out = p.out \o text,
                                       !.format = SubSeq(p.format, n + 1, Len(p.format))]
    BY DEF Prints
  <2> HIDE DEF p
  <2> QED
    BY <1>1, <2>1 DEF x, y
<1> HIDE DEF p
<1>5. [p EXCEPT !.out = x, !.format = y] = [[p EXCEPT !.out = x] EXCEPT !.format = y]
  OBVIOUS
<1>6. Prints(p, text, n) = Looping(y, a, x, e, r)
  BY ONLY <1>2, <1>3, <1>4, <1>5
<1> QED
  BY <1>6 DEF p, x, y

\* A conversion is the one of its letter.
LEMMA ConversionRound ==
  ASSUME NEW t \in DOMAIN Letter, NEW v, NEW rest \in Seq(Byte), NEW rargs, NEW X,
         v \in X, rargs \in Seq(X), NEW o,
         NEW e, NEW r, On(r)
  PROVE  Pass(Looping(<<Percent, Letter[t]>> \o rest, <<v>> \o rargs, o, e, r))
         = Looping(rest, rargs, o \o Converted(t, v), e, r)
<1> DEFINE f == <<Percent, Letter[t]>> \o rest
           a == <<v>> \o rargs
           c == o \o Converted(t, v)
           p == Looping(f, a, o, e, r)
<1>1. Letter[t] \in Byte /\ Letter[t] # Percent /\ Letter[t] \in Conversions \ {Percent}
  BY LetterFacts
<1>2. /\ Len(f) = Len(rest) + 2 /\ f[1] = Percent /\ f[2] = Letter[t]
      /\ SubSeq(f, 2 + 1, Len(f)) = rest
  BY <1>1, ByteFacts
<1>3. Head(a) = v /\ Tail(a) = rargs
  OBVIOUS
<1>4. (CHOOSE u \in DOMAIN Letter : Letter[u] = Letter[t]) = t
  BY LetterFacts
<1> HIDE DEF f, a, c
<1>5. p.format = f /\ p.args = a /\ p.running = TRUE
  BY DEF Looping, On
<1>6. f # <<>> /\ Len(f) > 1
  BY <1>2
<1>7. Prints(p, Converted(t, v), 2) = Looping(SubSeq(f, 2 + 1, Len(f)), a, c, e, r)
  BY ONLY PrintsLeaves DEF c
<1>8. [Looping(rest, a, c, e, r) EXCEPT !.args = rargs] = Looping(rest, rargs, c, e, r)
  BY ONLY DEF Looping
<1>9. Looping(rest, a, c, e, r).args = a
  BY DEF Looping
<1> HIDE DEF p
<1>10. NextChar(p) = Letter[t]
  BY <1>2, <1>5, <1>6 DEF NextChar
<1>11. Round(p) = conversion(p)
  BY <1>1, <1>2, <1>5, <1>10 DEF Round
<1>12. conversion(p) = [Prints(p, Converted(t, v), 2) EXCEPT !.args = Tail(@)]
  BY <1>3, <1>4, <1>5, <1>10 DEF conversion
<1>13. conversion(p) = [Looping(rest, a, c, e, r) EXCEPT !.args = rargs]
  BY <1>2, <1>3, <1>7, <1>9, <1>12
<1>14. Pass(p) = Round(p)
  BY <1>5, <1>6 DEF Pass
<1> QED
  BY <1>8, <1>11, <1>13, <1>14 DEF p, f, a, c

\* Every other item that is no bad escape stands for a character,
LEMMA CharacterRound ==
  ASSUME NEW v \in Byte, v # Percent, NEW rest \in Seq(Byte), NEW a, NEW o,
         NEW e, NEW r, On(r)
  PROVE  Pass(Looping(<<v>> \o rest, a, o, e, r)) = Looping(rest, a, o \o <<v>>, e, r)
<1> DEFINE f == <<v>> \o rest
           c == o \o <<v>>
           p == Looping(f, a, o, e, r)
<1>1. f[1] = v /\ f # <<>> /\ SubSeq(f, 1 + 1, Len(f)) = rest
  OBVIOUS
<1> HIDE DEF f, c
<1>2. p.format = f /\ p.running = TRUE
  BY DEF Looping, On
<1>3. Prints(p, <<v>>, 1) = Looping(SubSeq(f, 1 + 1, Len(f)), a, c, e, r)
  BY ONLY PrintsLeaves DEF c
<1> HIDE DEF p
<1>4. Round(p) = Prints(p, <<v>>, 1)
  BY <1>1, <1>2 DEF Round
<1>5. Pass(p) = Round(p)
  BY <1>1, <1>2 DEF Pass
<1> QED
  BY <1>1, <1>3, <1>4, <1>5 DEF p, f, c

\* a percent sign written twice for itself.
LEMMA PercentRound ==
  ASSUME NEW rest \in Seq(Byte), NEW a, NEW o,
         NEW e, NEW r, On(r)
  PROVE  Pass(Looping(<<Percent, Percent>> \o rest, a, o, e, r))
         = Looping(rest, a, o \o <<Percent>>, e, r)
<1> DEFINE f == <<Percent, Percent>> \o rest
           c == o \o <<Percent>>
           p == Looping(f, a, o, e, r)
<1>1. /\ f[1] = Percent /\ f[2] = Percent /\ f # <<>> /\ Len(f) > 1
      /\ SubSeq(f, 2 + 1, Len(f)) = rest
  BY ByteFacts
<1> HIDE DEF f, c
<1>2. p.format = f /\ p.running = TRUE
  BY DEF Looping, On
<1>3. Prints(p, <<Percent>>, 2) = Looping(SubSeq(f, 2 + 1, Len(f)), a, c, e, r)
  BY ONLY PrintsLeaves DEF c
<1> HIDE DEF p
<1>4. NextChar(p) = Percent
  BY <1>1, <1>2 DEF NextChar
<1>5. Round(p) = Prints(p, <<Percent>>, 2)
  BY <1>1, <1>2, <1>4 DEF Round
<1>6. Pass(p) = Round(p)
  BY <1>1, <1>2 DEF Pass
<1> QED
  BY <1>1, <1>3, <1>5, <1>6 DEF p, f, c

\* Nothing follows the percent sign.
Short(f) == Len(f) = 1

\* What is printed then, and a loop that was left with text printed.
Told(f, o) == IF Short(f) THEN o ELSE Append(o, f[2])
Ended(q, text) == q.out = text /\ q.errors # {} /\ q.running = FALSE

\* A bad escape is reported, and the loop left.
LEMMA BadRound ==
  ASSUME NEW f \in Seq(Byte), f # <<>>, f[1] = Percent,
         Short(f) \/ f[2] \notin Conversions,
         NEW a, NEW o, NEW e, NEW r, On(r)
  PROVE  Ended(Pass(Looping(f, a, o, e, r)), Told(f, o))
<1> DEFINE p == Looping(f, a, o, e, r)
           n == NextChar(p)
           q == bad_escape(p)
<1>1. p.format = f /\ p.out = o /\ p.errors = e
  BY ONLY DEF Looping
<1>2. p.running = r
  BY ONLY DEF Looping
<1>3. \A x, y, z : LET t == [p EXCEPT !.errors = x, !.out = y, !.running = z]
                   IN  t.errors = x /\ t.out = y /\ t.running = z
  BY ONLY DEF Looping
<1> HIDE DEF p
<1> DEFINE L == Len(f)
<1>4. L \in Nat /\ L # 0 /\ (L = 1 \/ f[2] \notin Conversions)
  BY DEF Short
<1>5. 2 \in 1 .. L => f[2] # 0
  <2> DEFINE w == f[2]
  <2>1. 2 \in 1 .. L => w \in Byte
    BY ONLY f \in Seq(Byte), ElementOfSeq DEF L, w
  <2> HIDE DEF w
  <2>2. w \in Byte => w # 0
    BY ByteFacts
  <2> QED
    BY <2>1, <2>2 DEF w
<1>6. n = IF L > 1 THEN f[2] ELSE 0
  BY ONLY <1>1 DEF NextChar
<1> HIDE DEF n, L
<1>7. (n = 0 <=> L = 1) /\ (L # 1 => n = f[2]) /\ n \notin Conversions
  <2>1. CASE L = 1
    BY <1>6, <2>1, ConversionFacts
  <2>2. CASE L # 1
    <3>1. L > 1 /\ 2 \in 1 .. L
      BY ONLY <1>4, <2>2
    <3>2. n = f[2]
      BY <1>6, <3>1
    <3>3. f[2] # 0
      BY ONLY <1>5, <3>1
    <3> QED
      BY <1>4, <2>2, <3>1, <3>2, <3>3
  <2> QED
    BY <2>1, <2>2
<1>8. Percent \in Conversions
  BY DEF Conversions
<1>9. Round(p) = q
  BY <1>1, <1>7, <1>8 DEF Round, n
<1>10. Pass(p) = Round(p)
  BY <1>1, <1>2 DEF Pass, On
<1>11. q = [p EXCEPT !.errors = p.errors \cup {n},
                     !.out = IF n = 0 THEN p.out ELSE Append(p.out, n),
                     !.running = FALSE]
  BY DEF bad_escape, n
<1> DEFINE x == e \cup {n}
           y == IF n = 0 THEN o ELSE Append(o, n)
<1>12. q = [p EXCEPT !.errors = x, !.out = y, !.running = FALSE]
  BY <1>1, <1>11
<1> HIDE DEF q, x, y
<1>13. q.errors = x /\ q.out = y /\ q.running = FALSE
  BY <1>3, <1>12
<1>14. x # {}
  BY DEF x
<1>15. y = IF L = 1 THEN o ELSE Append(o, f[2])
  BY <1>7 DEF y
<1> QED
  BY <1>9, <1>10, <1>13, <1>14, <1>15 DEF p, L, Short, Told, Ended

\* What the items of one type are.
LEMMA SoundFacts ==
  ASSUME NEW it \in SoundItems
  PROVE  /\ it.type \in {"char", "percent", "null", "s", "c", "d", "x", "b", "unknown"}
         /\ it.type = "char" => it.value \in Byte \ {Percent}
         /\ it.type = "s" => it.value \in Seq(Byte)
         /\ it.type = "c" => it.value \in Byte
         /\ it.type \in {"d", "x", "b"} => it.value \in 0 .. 2 ^ PRINTF_BUFFER_SIZE - 1
         /\ it.type = "unknown" => it.value \in Byte \ Conversions
<1> DEFINE M == 0 .. 2 ^ PRINTF_BUFFER_SIZE - 1
<1>1. \/ it \in [type : {"char"}, value : Byte \ {Percent}]
      \/ it \in [type : {"percent", "null"}, value : {0}]
      \/ it \in [type : {"s"}, value : Seq(Byte)]
      \/ it \in [type : {"c"}, value : Byte]
      \/ it \in [type : {"d", "x", "b"}, value : M]
      \/ it \in [type : {"unknown"}, value : Byte \ Conversions]
  BY DEF SoundItems, Byte
<1> HIDE DEF M
<1>2. CASE it \in [type : {"char"}, value : Byte \ {Percent}]
  BY <1>2
<1>3. CASE it \in [type : {"percent", "null"}, value : {0}]
  BY <1>3
<1>4. CASE it \in [type : {"s"}, value : Seq(Byte)]
  BY <1>4
<1>5. CASE it \in [type : {"c"}, value : Byte]
  BY <1>5
<1>6. CASE it \in [type : {"d", "x", "b"}, value : M]
  <2>1. it.type \in {"d", "x", "b"} /\ it.value \in M
    BY <1>6
  <2> QED
    BY <2>1 DEF M
<1>7. CASE it \in [type : {"unknown"}, value : Byte \ Conversions]
  BY <1>7
<1> QED
  BY <1>1, <1>2, <1>3, <1>4, <1>5, <1>6, <1>7

\* A conversion prints what its item stands for.
LEMMA ConvertedMeaning ==
  ASSUME NEW it \in SoundItems, it.type \in DOMAIN Letter
  PROVE  Converted(it.type, it.value) = Meaning(it)
<1>1. it.type \in {"s", "c", "d", "x", "b"}
  BY LetterFacts
<1>2. CASE it.type = "s"
  BY <1>2 DEF Converted, Meaning
<1>3. CASE it.type = "c"
  BY <1>3 DEF Converted, Meaning
<1>4. CASE it.type \in {"d", "x", "b"}
  <2> DEFINE v == it.value
             b == Base[it.type]
  <2>1. v \in 0 .. 2 ^ PRINTF_BUFFER_SIZE - 1
    BY <1>4, SoundFacts
  <2>2. PRINTF_BUFFER_SIZE \in Nat \ {0}
    BY WidthAssumption
  <2>3. v \in Nat /\ v < 2 ^ PRINTF_BUFFER_SIZE
    <3> DEFINE e == 2 ^ PRINTF_BUFFER_SIZE
    <3>1. e \in Nat /\ v \in 0 .. e - 1
      BY <2>1, <2>2, Powers
    <3> HIDE DEF e, v
    <3>2. v \in Nat /\ v < e
      BY <3>1
    <3> QED
      BY <3>2 DEF e
  <2>4. b \in Radix
    BY <1>4 DEF Base, Radix
  <2>5. Converted(it.type, v) = print_uint_to_string(v, b, PRINTF_BUFFER_SIZE)
    BY <1>4 DEF Converted
  <2>6. Meaning(it) = BasePrefix(b) \o Numeral(v, b)
    BY <1>4 DEF Meaning
  <2> HIDE DEF b, v
  <2>7. print_uint_to_string(v, b, PRINTF_BUFFER_SIZE) = BasePrefix(b) \o Numeral(v, b)
    BY <2>2, <2>3, <2>4, PrintsNumerals
  <2> QED
    BY <2>5, <2>6, <2>7 DEF v
<1> QED
  BY <1>1, <1>2, <1>3, <1>4

\* Rows of bytes are rows of numbers.
LEMMA WiderRows ==
  ASSUME NEW S, NEW T, NEW s \in Seq(S), S \subseteq T
  PROVE  s \in Seq(T)
<1> DEFINE n == Len(s)
<1>1. n \in Nat /\ s \in [1 .. n -> S]
  OBVIOUS
<1> HIDE DEF n
<1>2. s \in [1 .. n -> T]
  BY <1>1
<1> QED
  BY <1>1, <1>2

\* Numerals are rows of numbers.
LEMMA NumeralType ==
  ASSUME NEW v \in Nat, NEW b \in Radix
  PROVE  Numeral(v, b) \in Seq(Nat)
<1>1. Numeral(v, b) = Digits(v, b)
  BY NumeralDigits
<1> DEFINE w == Width(v, b)
<1>2. w \in Nat
  BY WidthFacts
<1>3. \A i \in 1 .. w : numtochar[(Remaining(v, b, w - i) % b) + 1] \in Nat
  <2> SUFFICES ASSUME NEW i \in 1 .. w
               PROVE  numtochar[(Remaining(v, b, w - i) % b) + 1] \in Nat
    OBVIOUS
  <2> DEFINE d == Remaining(v, b, w - i)
  <2> HIDE DEF w
  <2>1. w - i \in Nat
    BY <1>2
  <2>2. d \in Nat
    BY <2>1, RemainingShift
  <2> HIDE DEF d
  <2>3. d % b \in 0 .. b - 1
    BY <2>2, Division
  <2>4. (d % b) + 1 \in 1 .. 16
    <3> DEFINE x == d % b
    <3>1. x \in 0 .. b - 1
      BY <2>3
    <3> HIDE DEF x
    <3>2. x + 1 \in 1 .. 16
      BY <3>1 DEF Radix
    <3> QED
      BY <3>2 DEF x
  <2>5. \A k \in 1 .. 16 : numtochar[k] \in Nat
    BY DEF numtochar
  <2> QED
    BY <2>4, <2>5 DEF d
<1>4. Digits(v, b) \in Seq(Nat)
  <2>1. Digits(v, b) = [i \in 1 .. w |-> numtochar[(Remaining(v, b, w - i) % b) + 1]]
    BY DEF Digits
  <2> HIDE DEF w
  <2> QED
    BY <1>2, <1>3, <2>1
<1> QED
  BY <1>1, <1>4

\* What an item stands for is a row of numbers.
LEMMA MeaningType ==
  ASSUME NEW it \in SoundItems
  PROVE  Meaning(it) \in Seq(Nat)
<1>1. CASE it.type \in {"char", "c", "unknown"}
  <2>1. it.value \in Byte
    BY <1>1, SoundFacts
  <2>2. Meaning(it) = <<it.value>>
    BY <1>1 DEF Meaning
  <2> DEFINE v == it.value
  <2>3. v \in Nat
    BY <2>1, ByteFacts
  <2> HIDE DEF v
  <2>4. <<v>> \in Seq(Nat)
    BY <2>3
  <2> QED
    BY <2>2, <2>4 DEF v
<1>2. CASE it.type = "percent"
  BY <1>2 DEF Meaning, Percent
<1>3. CASE it.type = "null"
  BY <1>3 DEF Meaning
<1>4. CASE it.type = "s"
  <2>1. it.value \in Seq(Byte)
    BY <1>4, SoundFacts
  <2> DEFINE v == it.value
  <2>2. Meaning(it) = v
    BY <1>4 DEF Meaning
  <2>3. v \in Seq(Byte)
    BY <2>1
  <2> HIDE DEF v
  <2>4. v \in Seq(Nat)
    <3> DEFINE S == Byte
               T == Nat
    <3>1. S \subseteq T /\ v \in Seq(S)
      BY <2>3, ByteFacts
    <3> HIDE DEF S, T
    <3>2. v \in Seq(T)
      BY <3>1, WiderRows
    <3> QED
      BY <3>2 DEF T
  <2> QED
    BY <2>2, <2>4
<1>5. CASE it.type \in {"d", "x", "b"}
  <2> DEFINE v == it.value
             b == Base[it.type]
             B == BasePrefix(b)
             D == Numeral(v, b)
  <2>1. v \in 0 .. 2 ^ PRINTF_BUFFER_SIZE - 1
    BY <1>5, SoundFacts
  <2>2. v \in Nat
    <3> DEFINE e == 2 ^ PRINTF_BUFFER_SIZE
    <3>1. e \in Nat /\ v \in 0 .. e - 1
      BY <2>1, WidthAssumption, Powers
    <3> HIDE DEF e, v
    <3> QED
      BY <3>1
  <2>3. b \in Radix
    BY <1>5 DEF Base, Radix
  <2>4. Meaning(it) = B \o D
    BY <1>5 DEF Meaning
  <2> HIDE DEF b, v
  <2>5. B \in Seq(Nat)
    BY DEF BasePrefix
  <2>6. D \in Seq(Nat)
    BY <2>2, <2>3, NumeralType
  <2> HIDE DEF B, D
  <2>7. B \o D \in Seq(Nat)
    BY <2>5, <2>6
  <2> QED
    BY <2>4, <2>7
<1> QED
  BY <1>1, <1>2, <1>3, <1>4, <1>5, SoundFacts

\* A spelling takes one or two characters.
LEMMA SpellingType ==
  ASSUME NEW it \in SoundItems
  PROVE  Spelling(it) \in Seq(Byte) /\ Len(Spelling(it)) \in 1 .. 2
<1>1. CASE it.type = "char"
  <2>1. it.value \in Byte /\ Spelling(it) = <<it.value>>
    BY <1>1, SoundFacts DEF Spelling
  <2> DEFINE v == it.value
  <2> HIDE DEF v
  <2>2. v \in Byte => <<v>> \in Seq(Byte) /\ Len(<<v>>) = 1
    OBVIOUS
  <2> QED
    BY <2>1, <2>2 DEF v
<1>2. CASE it.type \in {"percent", "null"}
  <2>1. Spelling(it) = <<Percent, Percent>> \/ Spelling(it) = <<Percent>>
    BY <1>2 DEF Spelling
  <2>2. /\ <<Percent, Percent>> \in Seq(Byte) /\ Len(<<Percent, Percent>>) = 2
        /\ <<Percent>> \in Seq(Byte) /\ Len(<<Percent>>) = 1
    BY ByteFacts
  <2>3. Len(Spelling(it)) \in {1, 2} /\ Spelling(it) \in Seq(Byte)
    BY <2>1, <2>2
  <2> QED
    BY <2>3
<1>3. CASE it.type = "unknown"
  <2>1. it.value \in Byte /\ Spelling(it) = <<Percent, it.value>>
    BY <1>3, SoundFacts DEF Spelling
  <2> DEFINE v == it.value
  <2> HIDE DEF v
  <2>2. v \in Byte => <<Percent, v>> \in Seq(Byte) /\ Len(<<Percent, v>>) = 2
    BY ByteFacts
  <2> QED
    BY <2>1, <2>2 DEF v
<1>4. CASE it.type \in DOMAIN Letter
  <2> DEFINE v == Letter[it.type]
  <2>1. v \in Byte
    BY <1>4, LetterFacts
  <2>2. Spelling(it) = <<Percent, v>>
    BY <1>4, LetterFacts DEF Spelling
  <2> HIDE DEF v
  <2>3. <<Percent, v>> \in Seq(Byte) /\ Len(<<Percent, v>>) = 2
    BY <2>1, ByteFacts
  <2> QED
    BY <2>2, <2>3
<1> QED
  BY <1>1, <1>2, <1>3, <1>4, SoundFacts, LetterFacts

\* A round takes an item that is no bad escape, with its argument, and prints
\* what it stands for.
LEMMA GoodRound ==
  ASSUME NEW it \in SoundItems, ~Bad(it), NEW rest \in Seq(Byte),
         NEW X, it.value \in X, NEW rargs \in Seq(X), NEW o, NEW e, NEW r, On(r)
  PROVE  Pass(Looping(Spelling(it) \o rest, Passed(it) \o rargs, o, e, r))
         = Looping(rest, rargs, o \o Meaning(it), e, r)
<1>1. it.type \in {"char", "percent", "s", "c", "d", "x", "b"}
  BY SoundFacts DEF Bad
<1>2. <<>> \o rargs = rargs
  OBVIOUS
<1>3. CASE it.type = "char"
  <2>1. it.value \in Byte \ {Percent}
    BY <1>3, SoundFacts
  <2>2. Spelling(it) = <<it.value>> /\ Meaning(it) = <<it.value>>
    BY <1>3 DEF Spelling, Meaning
  <2>3. Passed(it) = <<>>
    BY <1>3, LetterFacts DEF Passed
  <2> DEFINE v == it.value
  <2> HIDE DEF v
  <2>4. v \in Byte /\ v # Percent =>
          Pass(Looping(<<v>> \o rest, rargs, o, e, r)) = Looping(rest, rargs, o \o <<v>>, e, r)
    BY ONLY rest \in Seq(Byte), On(r), CharacterRound
  <2> QED
    BY <1>2, <2>1, <2>2, <2>3, <2>4 DEF v
<1>4. CASE it.type = "percent"
  <2>1. Spelling(it) = <<Percent, Percent>> /\ Meaning(it) = <<Percent>>
    BY <1>4 DEF Spelling, Meaning
  <2>2. Passed(it) = <<>>
    BY <1>4, LetterFacts DEF Passed
  <2>3. Pass(Looping(<<Percent, Percent>> \o rest, rargs, o, e, r))
        = Looping(rest, rargs, o \o <<Percent>>, e, r)
    BY ONLY rest \in Seq(Byte), On(r), PercentRound
  <2> QED
    BY <1>2, <2>1, <2>2, <2>3
<1>5. CASE it.type \in DOMAIN Letter
  <2> DEFINE t == it.type
             v == it.value
  <2>1. Spelling(it) = <<Percent, Letter[t]>> /\ Passed(it) = <<v>>
    BY <1>5, LetterFacts DEF Spelling, Passed
  <2>2. Converted(t, v) = Meaning(it)
    BY <1>5, ConvertedMeaning
  <2>3. t \in DOMAIN Letter /\ v \in X
    BY <1>5
  <2> HIDE DEF t, v
  <2>4. Pass(Looping(<<Percent, Letter[t]>> \o rest, <<v>> \o rargs, o, e, r))
        = Looping(rest, rargs, o \o Converted(t, v), e, r)
    BY ONLY <2>3, rest \in Seq(Byte), rargs \in Seq(X), On(r), ConversionRound
  <2> QED
    BY <2>1, <2>2, <2>4
<1> QED
  BY <1>1, <1>3, <1>4, <1>5, LetterFacts

\* A bad escape is the last item a round takes.
LEMMA LastRound ==
  ASSUME NEW it \in SoundItems, Bad(it), NEW rest \in Seq(Byte),
         it.type = "null" => rest = <<>>,
         NEW a, NEW o \in Seq(Nat), NEW e, NEW r, On(r)
  PROVE  Ended(Pass(Looping(Spelling(it) \o rest, a, o, e, r)), o \o Meaning(it))
<1> DEFINE f == Spelling(it) \o rest
           q == Pass(Looping(f, a, o, e, r))
<1>1. CASE it.type = "null"
  <2>1. f = <<Percent>> /\ Meaning(it) = <<>>
    BY <1>1 DEF Spelling, Meaning, Percent
  <2>2. f \in Seq(Byte) /\ f # <<>> /\ f[1] = Percent /\ Short(f)
    BY <2>1, ByteFacts DEF Short
  <2> HIDE DEF f
  <2>3. Ended(q, Told(f, o))
    BY ONLY <2>2, On(r), BadRound DEF q
  <2>4. o \o Meaning(it) = o
    BY <2>1
  <2>5. Told(f, o) = o
    BY <2>2 DEF Told
  <2> QED
    BY <2>3, <2>4, <2>5 DEF f
<1>2. CASE it.type = "unknown"
  <2> DEFINE v == it.value
  <2>1. Spelling(it) = <<Percent, v>> /\ Meaning(it) = <<v>>
    BY <1>2 DEF Spelling, Meaning
  <2>2. v \in Byte \ Conversions
    BY <1>2, SoundFacts
  <2>3. f = <<Percent, v>> \o rest
    BY <2>1
  <2> HIDE DEF v, f
  <2>4. f \in Seq(Byte) /\ f # <<>> /\ f[1] = Percent /\ f[2] = v /\ Len(f) > 1
    BY <2>2, <2>3, ByteFacts
  <2>5. f[2] \notin Conversions /\ ~Short(f)
    BY <2>2, <2>4 DEF Short
  <2>6. Ended(q, Told(f, o))
    BY ONLY <2>4, <2>5, On(r), BadRound DEF q
  <2>7. v \in Nat
    BY <2>2, ByteFacts
  <2>8. Append(o, v) = o \o <<v>>
    BY ONLY o \in Seq(Nat), <2>7, AppendIsConcat
  <2>9. Told(f, o) = Append(o, v)
    BY <2>4, <2>5 DEF Told
  <2> QED
    BY <2>1, <2>6, <2>8, <2>9 DEF f
<1> QED
  BY <1>1, <1>2 DEF Bad

\* What a row of items is for the loop: s and a what is left of format and
\* arguments after each item, r what is printed by then.
Rows(f, s, a, r) ==
  /\ s[0] = FlattenSeq([i \in DOMAIN f |-> Spelling(f[i])])
  /\ s[Len(f)] = <<>> /\ a[Len(f)] = <<>>
  /\ a[0] = FlattenSeq([i \in DOMAIN f |-> Passed(f[i])])
  /\ r[0] = <<>>
  /\ \A k \in 1 .. Len(f) :
       /\ s[k - 1] = Spelling(f[k]) \o s[k]
       /\ a[k - 1] = Passed(f[k]) \o a[k]
       /\ r[k] = r[k - 1] \o Meaning(f[k])
  /\ \A m \in 0 .. Len(f) : TextOf(SubSeq(f, 1, m)) = r[m]

\* Every row of items has such rows.
LEMMA RowsExist ==
  ASSUME NEW f \in Seq(SoundItems)
  PROVE  \E s \in [0 .. Len(f) -> Seq(Byte)],
            a \in [0 .. Len(f) -> Seq({f[i].value : i \in DOMAIN f})],
            r \in [0 .. Len(f) -> Seq(Nat)] : Rows(f, s, a, r)
<1> DEFINE N == Len(f)
           X == {f[i].value : i \in DOMAIN f}
           sp == [i \in DOMAIN f |-> Spelling(f[i])]
           ps == [i \in DOMAIN f |-> Passed(f[i])]
           ms == [i \in DOMAIN f |-> Meaning(f[i])]
<1>1. N \in Nat /\ DOMAIN f = 1 .. N /\ \A i \in 1 .. N : f[i] \in SoundItems
  OBVIOUS
<1>2. sp \in Seq(Seq(Byte)) /\ Len(sp) = N
  <2>1. \A i \in 1 .. N : Spelling(f[i]) \in Seq(Byte)
    BY <1>1, SpellingType
  <2> QED
    BY <1>1, <2>1
<1>3. ps \in Seq(Seq(X)) /\ Len(ps) = N
  <2>1. ASSUME NEW i \in 1 .. N PROVE Passed(f[i]) \in Seq(X)
    <3> DEFINE v == f[i].value
    <3>1. v \in X
      BY <1>1
    <3>2. Passed(f[i]) = <<v>> \/ Passed(f[i]) = <<>>
      BY DEF Passed
    <3> HIDE DEF v, X
    <3>3. <<v>> \in Seq(X) /\ <<>> \in Seq(X)
      BY <3>1
    <3> QED
      BY <3>2, <3>3
  <2> HIDE DEF X
  <2> QED
    BY <1>1, <2>1
<1>4. ms \in Seq(Seq(Nat)) /\ Len(ms) = N
  <2>1. \A i \in 1 .. N : Meaning(f[i]) \in Seq(Nat)
    BY <1>1, MeaningType
  <2> QED
    BY <1>1, <2>1
<1>5. /\ \A i \in 1 .. N : sp[i] = Spelling(f[i])
      /\ \A i \in 1 .. N : ps[i] = Passed(f[i])
      /\ \A i \in 1 .. N : ms[i] = Meaning(f[i])
  BY <1>1
<1>6. PICK s \in [0 .. N -> Seq(Byte)] :
        s[0] = FlattenSeq(sp) /\ s[N] = <<>> /\ \A k \in 1 .. N : s[k - 1] = sp[k] \o s[k]
  <2> DEFINE B == Byte
  <2>1. sp \in Seq(Seq(B)) /\ Len(sp) = N
    BY <1>2
  <2> HIDE DEF sp, N, B
  <2>2. \E s \in [0 .. Len(sp) -> Seq(B)] :
          /\ s[0] = FlattenSeq(sp)
          /\ s[Len(sp)] = <<>>
          /\ \A k \in 1 .. Len(sp) : s[k - 1] = sp[k] \o s[k]
    BY ONLY <2>1, StillToJoin, Zenon
  <2>3. \E s \in [0 .. N -> Seq(B)] :
          s[0] = FlattenSeq(sp) /\ s[N] = <<>> /\ \A k \in 1 .. N : s[k - 1] = sp[k] \o s[k]
    BY ONLY <2>1, <2>2, Zenon
  <2> QED
    BY <2>3 DEF B
<1>7. PICK a \in [0 .. N -> Seq(X)] :
        a[0] = FlattenSeq(ps) /\ a[N] = <<>> /\ \A k \in 1 .. N : a[k - 1] = ps[k] \o a[k]
  <2> HIDE DEF ps, N, X
  <2> QED
    BY <1>3, StillToJoin
<1>8. PICK r \in [0 .. N -> Seq(Nat)] :
        r[0] = <<>> /\ (\A k \in 1 .. N : r[k] = r[k - 1] \o ms[k]) /\ FlattenSeq(ms) = r[N]
  <2> HIDE DEF ms, N
  <2> QED
    BY <1>4, Joining
<1>9. ASSUME NEW m \in 0 .. N PROVE TextOf(SubSeq(f, 1, m)) = r[m]
  <2>1. FlattenSeq(SubSeq(ms, 1, m)) = r[m]
    <3> HIDE DEF ms, N
    <3> QED
      BY <1>4, <1>8, JoiningTo
  <2> DEFINE q == SubSeq(f, 1, m)
             t == SubSeq(ms, 1, m)
             u == [i \in DOMAIN q |-> Meaning(q[i])]
  <2>2. /\ DOMAIN q = 1 .. m /\ \A i \in 1 .. m : q[i] = f[i]
    BY <1>1
  <2>3. t = [i \in 1 .. m |-> t[i]] /\ \A i \in 1 .. m : t[i] = ms[i]
    <3> HIDE DEF ms, N
    <3> QED
      BY <1>4
  <2>4. \A i \in 1 .. m : ms[i] = Meaning(f[i])
    BY <1>1, <1>5
  <2> HIDE DEF q, t, ms
  <2>5. u = [i \in 1 .. m |-> t[i]]
    BY <2>2, <2>3, <2>4
  <2>6. u = t
    BY <2>3, <2>5
  <2>7. TextOf(q) = FlattenSeq(u)
    BY DEF TextOf
  <2> QED
    BY <2>1, <2>6, <2>7 DEF q, t
<1>10. Rows(f, s, a, r)
  <2>1. \A k \in 1 .. N : /\ s[k - 1] = Spelling(f[k]) \o s[k]
                          /\ a[k - 1] = Passed(f[k]) \o a[k]
                          /\ r[k] = r[k - 1] \o Meaning(f[k])
    <3> HIDE DEF sp, ps, ms, N
    <3> QED
      BY <1>5, <1>6, <1>7, <1>8
  <2> QED
    BY <1>6, <1>7, <1>8, <1>9, <2>1 DEF Rows
<1> QED
  BY <1>10

\* The format has a character at least for each item.
LEMMA RowsLong ==
  ASSUME NEW f \in Seq(SoundItems), NEW s \in [0 .. Len(f) -> Seq(Byte)], NEW a, NEW r,
         Rows(f, s, a, r)
  PROVE  Len(s[0]) \in Nat /\ Len(f) <= Len(s[0])
<1> DEFINE N == Len(f)
           l == [k \in 0 .. N |-> Len(s[k])]
           P == {j \in Nat : j <= N => j <= l[N - j]}
<1>1. N \in Nat /\ \A k \in 1 .. N : f[k] \in SoundItems
  OBVIOUS
<1>2. \A k \in 0 .. N : l[k] \in Nat
  OBVIOUS
<1>3. ASSUME NEW k \in 1 .. N PROVE l[k - 1] >= l[k] + 1
  <2>1. s[k - 1] = Spelling(f[k]) \o s[k]
    BY DEF Rows
  <2>2. Spelling(f[k]) \in Seq(Byte) /\ Len(Spelling(f[k])) \in 1 .. 2
    BY <1>1, SpellingType
  <2>3. k - 1 \in 0 .. N /\ k \in 0 .. N
    BY <1>1
  <2>4. s[k] \in Seq(Byte)
    BY <2>3
  <2> DEFINE x == Spelling(f[k])
             y == s[k]
  <2>5. l[k - 1] = Len(x \o y) /\ l[k] = Len(y)
    BY <2>1, <2>3
  <2> HIDE DEF x, y, l
  <2>6. x \in Seq(Byte) /\ y \in Seq(Byte) /\ Len(x) \in 1 .. 2
    BY <2>2, <2>4 DEF x, y
  <2>7. Len(x \o y) = Len(x) + Len(y) /\ Len(y) \in Nat
    BY <2>6
  <2> DEFINE m == Len(x)
             n == Len(y)
  <2>8. m \in 1 .. 2 /\ n \in Nat /\ l[k - 1] = m + n /\ l[k] = n
    BY <2>5, <2>6, <2>7
  <2> HIDE DEF m, n
  <2> QED
    BY <2>8
<1>4. l[0] = Len(s[0])
  BY <1>1
<1> HIDE DEF l, N
<1>5. \A j \in Nat : j \in P <=> (j <= N => j <= l[N - j])
  OBVIOUS
<1>6. 0 \in P
  <2>1. N - 0 = N /\ N \in 0 .. N
    BY <1>1
  <2>2. l[N] \in Nat
    BY <1>2, <2>1
  <2> QED
    BY <1>5, <2>1, <2>2
<1>7. ASSUME NEW j \in Nat, j \in P PROVE j + 1 \in P
  <2> SUFFICES ASSUME j + 1 <= N PROVE j + 1 <= l[N - (j + 1)]
    <3>1. j + 1 \in Nat
      OBVIOUS
    <3> QED
      BY <1>5, <3>1
  <2>1. N - j \in 1 .. N /\ (N - j) - 1 = N - (j + 1) /\ j <= N
        /\ N - j \in 0 .. N /\ N - (j + 1) \in 0 .. N
    BY <1>1
  <2>2. j <= l[N - j]
    BY <1>5, <1>7, <2>1
  <2>3. l[N - (j + 1)] >= l[N - j] + 1
    BY <1>3, <2>1
  <2>4. l[N - j] \in Nat /\ l[N - (j + 1)] \in Nat
    BY <1>2, <2>1
  <2> QED
    BY <2>2, <2>3, <2>4
<1> HIDE DEF P
<1>8. N \in P /\ N - N = 0 /\ 0 \in 0 .. N
  BY <1>1, <1>6, <1>7, Successors
<1>9. N <= l[0] /\ l[0] \in Nat
  BY <1>1, <1>2, <1>5, <1>8
<1> QED
  BY <1>4, <1>9 DEF N

\* printf prints the text of its items up to the first bad escape.
LEMMA PrintfPrints ==
  ASSUME NEW f \in Seq(SoundItems), \A i \in 1 .. Len(f) - 1 : f[i].type # "null"
  PROVE  /\ Call(f).out = TextOf(Reached(f))
         /\ Call(f).errors # {} <=> \E i \in DOMAIN f : Bad(f[i])
<1> DEFINE N == Len(f)
           X == {f[i].value : i \in DOMAIN f}
           yes == TRUE
           none == {}
<1>1. N \in Nat /\ DOMAIN f = 1 .. N /\ \A i \in 1 .. N : f[i] \in SoundItems
  OBVIOUS
<1>2. PICK s \in [0 .. N -> Seq(Byte)], a \in [0 .. N -> Seq(X)], r \in [0 .. N -> Seq(Nat)] :
        Rows(f, s, a, r)
  BY RowsExist
<1>3. Len(s[0]) \in Nat /\ N <= Len(s[0])
  BY <1>2, RowsLong
<1> DEFINE good(k) == Looping(s[k], a[k], r[k], none, yes)
           L == Len(s[0])
           bad == {i \in DOMAIN f : Bad(f[i])}
           m == Min(bad \cup {N})
<1>4. Call(f) = printf(s[0], a[0])
  BY <1>2 DEF Rows, Call
<1>5. good(0) = Begun(s[0], a[0])
  BY <1>2 DEF Rows, Looping, Begun
<1>6. On(yes)
  BY DEF On
<1>7. ASSUME NEW k \in 1 .. N, ~Bad(f[k]) PROVE good(k) = Pass(good(k - 1))
  <2>1. k - 1 \in 0 .. N /\ k \in 0 .. N
    BY <1>1
  <2>2. s[k] \in Seq(Byte) /\ a[k] \in Seq(X)
    <3> HIDE DEF X
    <3> QED
      BY <2>1
  <2>3. f[k] \in SoundItems /\ f[k].value \in X
    BY <1>1
  <2>4. /\ s[k - 1] = Spelling(f[k]) \o s[k]
        /\ a[k - 1] = Passed(f[k]) \o a[k]
        /\ r[k] = r[k - 1] \o Meaning(f[k])
    BY <1>2 DEF Rows
  <2> DEFINE it == f[k]
             rest == s[k]
             ra == a[k]
             o == r[k - 1]
  <2>5. rest \in Seq(Byte) /\ ra \in Seq(X) /\ it \in SoundItems /\ it.value \in X /\ ~Bad(it)
    BY <1>7, <2>2, <2>3
  <2> HIDE DEF it, rest, ra, o, X, yes, none
  <2>6. Pass(Looping(Spelling(it) \o rest, Passed(it) \o ra, o, none, yes))
        = Looping(rest, ra, o \o Meaning(it), none, yes)
    BY ONLY <1>6, <2>5, GoodRound
  <2> QED
    BY <2>4, <2>6 DEF it, rest, ra, o
<1>8. ASSUME NEW k \in 1 .. N, Bad(f[k]) PROVE Ended(Pass(good(k - 1)), r[k])
  <2>1. k - 1 \in 0 .. N /\ k \in 0 .. N
    BY <1>1
  <2>2. s[k] \in Seq(Byte) /\ r[k - 1] \in Seq(Nat)
    BY <2>1
  <2>3. f[k] \in SoundItems
    BY <1>1
  <2>4. /\ s[k - 1] = Spelling(f[k]) \o s[k]
        /\ r[k] = r[k - 1] \o Meaning(f[k])
    BY <1>2 DEF Rows
  <2>5. f[k].type = "null" => s[k] = <<>>
    <3> SUFFICES ASSUME f[k].type = "null" PROVE s[k] = <<>>
      OBVIOUS
    <3>1. k \notin 1 .. N - 1
      OBVIOUS
    <3>2. k = N
      <4> HIDE DEF N
      <4> QED
        BY <1>1, <3>1
    <3> QED
      BY <1>2, <3>2 DEF Rows
  <2> DEFINE it == f[k]
             rest == s[k]
             ra == a[k - 1]
             o == r[k - 1]
  <2>6. /\ rest \in Seq(Byte) /\ it \in SoundItems /\ Bad(it) /\ o \in Seq(Nat)
        /\ it.type = "null" => rest = <<>>
    BY <1>8, <2>2, <2>3, <2>5
  <2> HIDE DEF it, rest, ra, o, yes, none
  <2>7. Ended(Pass(Looping(Spelling(it) \o rest, ra, o, none, yes)), o \o Meaning(it))
    BY ONLY <1>6, <2>6, LastRound
  <2> QED
    BY <2>4, <2>7 DEF it, rest, ra, o
<1>9. bad \cup {N} \in SUBSET Nat /\ bad \cup {N} # {} /\ \A i \in DOMAIN f : i \in bad <=> Bad(f[i])
  BY <1>1
<1>10. m \in bad \cup {N} /\ \A i \in bad \cup {N} : m <= i
  BY <1>9, MinOf
<1>11. Reached(f) = SubSeq(f, 1, m)
  BY DEF Reached
<1> HIDE DEF m, yes, none
<1>12. m \in 0 .. N /\ \A i \in 1 .. N : i < m => ~Bad(f[i])
  <2>1. m \in bad \/ m = N
    BY <1>10
  <2>2. m \in 0 .. N
    BY <1>1, <2>1
  <2>3. ASSUME NEW i \in 1 .. N, i < m PROVE ~Bad(f[i])
    <3> SUFFICES ASSUME Bad(f[i]) PROVE FALSE
      OBVIOUS
    <3>1. i \in bad
      BY <1>1, <1>9
    <3>2. m <= i
      BY <1>10, <3>1
    <3> QED
      BY <1>1, <2>2, <2>3, <3>2
  <2> QED
    BY <2>2, <2>3
<1>13. TextOf(Reached(f)) = r[m]
  BY <1>2, <1>11, <1>12 DEF Rows
<1>14. CASE bad # {}
  <2>1. m \in bad
    <3>1. PICK i \in bad : TRUE
      BY <1>14
    <3>2. m <= i /\ i \in 1 .. N
      BY <1>1, <1>10, <3>1
    <3>3. CASE m = N
      BY <1>1, <3>1, <3>2, <3>3
    <3> QED
      BY <1>10, <3>3
  <2>2. m \in 1 .. N /\ Bad(f[m])
    BY <1>1, <1>9, <2>1
  <2> DEFINE E == Pass(good(m - 1))
  <2>3. Ended(E, r[m])
    BY <1>8, <2>2
  <2> HIDE DEF good, E
  <2>4. Pass(E) = E
    BY <2>3 DEF Pass, Ended
  <2> DEFINE g == [k \in 0 .. L |-> IF k < m THEN good(k) ELSE E]
  <2>5. g[0] = Begun(s[0], a[0])
    BY <1>3, <1>5, <2>2 DEF good
  <2>6. ASSUME NEW k \in 1 .. L PROVE g[k] = Pass(g[k - 1])
    <3>1. k \in 0 .. L /\ k - 1 \in 0 .. L
      BY <1>3
    <3> HIDE DEF L
    <3>2. CASE k < m
      <4>1. k \in 1 .. N /\ k - 1 < m /\ ~Bad(f[k])
        BY <1>12, <2>2, <3>2
      <4>2. g[k] = good(k) /\ g[k - 1] = good(k - 1)
        BY <3>1, <3>2, <4>1
      <4>3. good(k) = Pass(good(k - 1))
        BY <1>7, <4>1
      <4> QED
        BY <4>2, <4>3
    <3>3. CASE k = m
      <4>1. k - 1 < m /\ ~(k < m)
        BY <2>2, <3>3
      <4> QED
        BY <3>1, <3>3, <4>1 DEF E
    <3>4. CASE ~(k < m) /\ k # m
      <4>1. ~(k - 1 < m)
        BY <2>2, <3>4
      <4> QED
        BY <2>4, <3>1, <3>4, <4>1
    <3> QED
      BY <3>2, <3>3, <3>4
  <2>7. g[L] = E
    <3> HIDE DEF L
    <3>1. L \in 0 .. L /\ ~(L < m)
      BY <1>1, <1>3, <2>2 DEF L
    <3> QED
      BY <3>1
  <2> HIDE DEF g
  <2>8. printf(s[0], a[0]) = g[L]
    BY <1>3, <2>5, <2>6, PrintfRuns
  <2>9. Call(f).out = r[m] /\ Call(f).errors # {}
    BY <1>4, <2>3, <2>7, <2>8 DEF Ended
  <2> QED
    BY <1>9, <1>13, <1>14, <2>2, <2>9, <1>1
<1>15. CASE bad = {}
  <2>1. m = N /\ \A i \in 1 .. N : ~Bad(f[i])
    BY <1>1, <1>9, <1>10, <1>15
  <2>2. s[N] = <<>>
    BY <1>2 DEF Rows
  <2>3. good(N).format = <<>> /\ good(N).out = r[N] /\ good(N).errors = none
    BY <2>2 DEF Looping
  <2> HIDE DEF good
  <2>4. Pass(good(N)) = good(N)
    BY <2>3 DEF Pass
  <2> DEFINE g == [k \in 0 .. L |-> IF k < N THEN good(k) ELSE good(N)]
  <2>5. g[0] = Begun(s[0], a[0])
    <3>1. 0 \in 0 .. L
      BY <1>3
    <3>2. CASE N = 0
      BY <1>5, <3>1, <3>2
    <3>3. CASE N # 0
      BY <1>1, <1>5, <3>1, <3>3
    <3> QED
      BY <3>2, <3>3
  <2>6. ASSUME NEW k \in 1 .. L PROVE g[k] = Pass(g[k - 1])
    <3>1. k \in 0 .. L /\ k - 1 \in 0 .. L
      BY <1>3
    <3> HIDE DEF L
    <3>2. CASE k <= N
      <4>1. k \in 1 .. N /\ k - 1 < N /\ ~Bad(f[k])
        BY <1>1, <2>1, <3>2
      <4>2. g[k] = good(k)
        BY <1>1, <3>1, <3>2
      <4>3. g[k - 1] = good(k - 1)
        BY <3>1, <4>1
      <4>4. good(k) = Pass(good(k - 1))
        BY <1>7, <4>1
      <4> QED
        BY <4>2, <4>3, <4>4
    <3>3. CASE ~(k <= N)
      <4>1. ~(k - 1 < N) /\ ~(k < N)
        BY <1>1, <3>3
      <4> QED
        BY <2>4, <3>1, <4>1
    <3> QED
      BY <3>2, <3>3
  <2>7. g[L] = good(N)
    <3> HIDE DEF L
    <3>1. L \in 0 .. L /\ ~(L < N)
      BY <1>1, <1>3 DEF L
    <3> QED
      BY <3>1
  <2> HIDE DEF g
  <2>8. printf(s[0], a[0]) = g[L]
    BY <1>3, <2>5, <2>6, PrintfRuns
  <2>9. Call(f).out = r[m] /\ Call(f).errors = {}
    BY <1>4, <2>1, <2>3, <2>7, <2>8 DEF none
  <2> QED
    BY <1>1, <1>13, <2>1, <2>9
<1> QED
  BY <1>14, <1>15

-----------------------------------------------------------------------------
(* Strings in memory. *)

\* The D bytes of m hold the string s at p.
Holds(m, D, p, s) ==
  /\ p \in 1 .. D /\ p + Len(s) <= D
  /\ \A k \in 1 .. Len(s) : m[p + k - 1] = s[k]
  /\ m[p + Len(s)] = 0

\* The zero byte behind the string is the first one.
LEMMA FirstZero ==
  ASSUME NEW D \in Nat, NEW m \in [1 .. D -> Nat], NEW p, NEW s \in Seq(Byte), Holds(m, D, p, s)
  PROVE  /\ ZerosFrom(m, p) \in SUBSET Nat
         /\ Len(s) \in ZerosFrom(m, p)
         /\ \A z \in ZerosFrom(m, p) : Len(s) <= z
<1> DEFINE n == Len(s)
           Z == ZerosFrom(m, p)
<1>1. /\ p \in 1 .. D /\ p + n <= D /\ n \in Nat /\ m[p + n] = 0
      /\ \A k \in 1 .. n : m[p + k - 1] = s[k]
  BY DEF Holds
<1>2. \A k \in 1 .. n : s[k] # 0
  <2> SUFFICES ASSUME NEW k \in 1 .. n PROVE s[k] # 0
    OBVIOUS
  <2>1. s[k] \in Byte
    BY ElementOfSeq
  <2> QED
    BY <2>1, ByteFacts
<1> HIDE DEF n
<1>3. DOMAIN m = 1 .. D
  OBVIOUS
<1>4. \A z : z \in Z <=> \E b \in 1 .. D : b >= p /\ m[b] = 0 /\ z = b - p
  BY <1>3 DEF ZerosFrom
<1> HIDE DEF Z
<1>5. Z \in SUBSET Nat
  BY <1>1, <1>4
<1>6. n \in Z
  <2>1. p + n \in 1 .. D /\ p + n >= p /\ n = (p + n) - p
    BY <1>1
  <2> QED
    BY <1>1, <1>4, <2>1
<1>7. ASSUME NEW z \in Z, ~(n <= z) PROVE FALSE
  <2>1. PICK b \in 1 .. D : b >= p /\ m[b] = 0 /\ z = b - p
    BY <1>4
  <2>2. z + 1 \in 1 .. n /\ p + (z + 1) - 1 = b
    BY <1>1, <1>7, <2>1
  <2>3. m[p + (z + 1) - 1] = s[z + 1]
    BY <1>1, <2>2
  <2> QED
    BY <1>2, <2>1, <2>2, <2>3
<1> QED
  BY <1>5, <1>6, <1>7 DEF n, Z

\* The string found at p.
LEMMA StringHeld ==
  ASSUME NEW D \in Nat, NEW m \in [1 .. D -> Nat], NEW p, NEW s \in Seq(Byte), Holds(m, D, p, s)
  PROVE  strlen(m, p) = Len(s) /\ StringFrom(m, p) = s
<1> DEFINE n == Len(s)
           Z == ZerosFrom(m, p)
<1>1. Z \in SUBSET Nat /\ n \in Z /\ \A z \in Z : n <= z
  BY FirstZero
<1>2. Min(Z) = n
  <2> HIDE DEF n, Z
  <2> QED
    BY <1>1, MinIs
<1>3. strlen(m, p) = n
  BY <1>2 DEF strlen
<1>4. \A k \in 1 .. n : m[p + k - 1] = s[k]
  BY DEF Holds
<1>5. s = [k \in 1 .. n |-> s[k]]
  OBVIOUS
<1> HIDE DEF n
<1>6. StringFrom(m, p) = [k \in 1 .. n |-> s[k]]
  BY <1>3, <1>4 DEF StringFrom
<1> QED
  BY <1>3, <1>5, <1>6 DEF n

\* What Put writes and leaves.
LEMMA PutFacts ==
  ASSUME NEW D \in Nat, NEW m \in [1 .. D -> Nat], NEW p \in 1 .. D, NEW s \in Seq(Nat)
  PROVE  /\ Put(m, p, s) \in [1 .. D -> Nat]
         /\ \A k \in 1 .. Len(s) : p + k - 1 <= D => Put(m, p, s)[p + k - 1] = s[k]
         /\ \A x \in 1 .. D : x < p \/ x >= p + Len(s) => Put(m, p, s)[x] = m[x]
<1> DEFINE n == Len(s)
           q == Put(m, p, s)
<1>1. n \in Nat /\ DOMAIN s = 1 .. n /\ (\A k \in 1 .. n : s[k] \in Nat) /\ DOMAIN m = 1 .. D
  OBVIOUS
<1> HIDE DEF n
<1>2. q = [x \in 1 .. D |-> IF x - p + 1 \in 1 .. n THEN s[x - p + 1] ELSE m[x]]
  BY <1>1 DEF Put
<1> HIDE DEF q
<1>3. q \in [1 .. D -> Nat]
  BY <1>1, <1>2
<1>4. ASSUME NEW k \in 1 .. n, p + k - 1 <= D PROVE q[p + k - 1] = s[k]
  <2>1. p + k - 1 \in 1 .. D /\ (p + k - 1) - p + 1 = k
    BY <1>1, <1>4
  <2> QED
    BY <1>2, <2>1
<1>5. ASSUME NEW x \in 1 .. D, x < p \/ x >= p + n PROVE q[x] = m[x]
  <2>1. x - p + 1 \notin 1 .. n
    BY <1>1, <1>5
  <2> QED
    BY <1>2, <2>1
<1> QED
  BY <1>3, <1>4, <1>5 DEF n, q

\* q is m once the string s has been written at p.
Wrote(m, D, p, s, q) ==
  /\ q \in [1 .. D -> Nat]
  /\ Holds(q, D, p, s)
  /\ \A x \in 1 .. D : x < p \/ x > p + Len(s) => q[x] = m[x]

\* A string put somewhere is there, and nothing else has changed.
LEMMA StringPut ==
  ASSUME NEW D \in Nat, NEW m \in [1 .. D -> Nat], NEW p \in 1 .. D, NEW s \in Seq(Byte),
         p + Len(s) <= D
  PROVE  Wrote(m, D, p, s, Put(m, p, s \o <<0>>))
<1> DEFINE n == Len(s)
           t == s \o <<0>>
<1>1. n \in Nat /\ p + n <= D
  OBVIOUS
<1>2. s \in Seq(Nat)
  BY ByteFacts, WiderRows
<1>3. /\ t \in Seq(Nat) /\ Len(t) = n + 1 /\ t[n + 1] = 0
      /\ \A k \in 1 .. n : t[k] = s[k]
  BY <1>2
<1> HIDE DEF n, t
<1> DEFINE q == Put(m, p, t)
<1>4. /\ q \in [1 .. D -> Nat]
      /\ \A k \in 1 .. Len(t) : p + k - 1 <= D => q[p + k - 1] = t[k]
      /\ \A x \in 1 .. D : x < p \/ x >= p + Len(t) => q[x] = m[x]
  BY <1>3, PutFacts
<1> HIDE DEF q
<1>5. \A k \in 1 .. n : q[p + k - 1] = s[k]
  <2> SUFFICES ASSUME NEW k \in 1 .. n PROVE q[p + k - 1] = s[k]
    OBVIOUS
  <2>1. k \in 1 .. Len(t) /\ p + k - 1 <= D
    BY <1>1, <1>3
  <2> QED
    BY <1>3, <1>4, <2>1
<1>6. q[p + n] = 0
  <2>1. n + 1 \in 1 .. Len(t) /\ p + (n + 1) - 1 = p + n
    BY <1>1, <1>3
  <2>2. q[p + (n + 1) - 1] = t[n + 1]
    BY <1>1, <1>4, <2>1
  <2> QED
    BY <1>3, <2>1, <2>2
<1>7. Holds(q, D, p, s)
  BY <1>1, <1>5, <1>6 DEF Holds, n
<1>8. \A x \in 1 .. D : x < p \/ x > p + n => q[x] = m[x]
  <2> SUFFICES ASSUME NEW x \in 1 .. D, x < p \/ x > p + n PROVE q[x] = m[x]
    OBVIOUS
  <2>1. x < p \/ x >= p + Len(t)
    BY <1>1, <1>3
  <2> QED
    BY <1>4, <2>1
<1> QED
  BY <1>4, <1>7, <1>8 DEF Wrote, q, t, n

\* A string stays where nothing is written.
LEMMA StringKept ==
  ASSUME NEW D \in Nat, NEW m, NEW q, NEW p, NEW s \in Seq(Byte), Holds(m, D, p, s),
         \A x \in 1 .. D : x >= p /\ x <= p + Len(s) => q[x] = m[x]
  PROVE  Holds(q, D, p, s)
<1> DEFINE n == Len(s)
<1>1. /\ p \in 1 .. D /\ p + n <= D /\ n \in Nat /\ m[p + n] = 0
      /\ \A k \in 1 .. n : m[p + k - 1] = s[k]
      /\ \A x \in 1 .. D : x >= p /\ x <= p + n => q[x] = m[x]
  BY DEF Holds
<1> HIDE DEF n
<1>2. \A k \in 1 .. n : q[p + k - 1] = s[k]
  <2> SUFFICES ASSUME NEW k \in 1 .. n PROVE q[p + k - 1] = s[k]
    OBVIOUS
  <2>1. p + k - 1 \in 1 .. D /\ p + k - 1 >= p /\ p + k - 1 <= p + n
    BY <1>1
  <2> QED
    BY <1>1, <2>1
<1>3. p + n \in 1 .. D /\ p + n >= p /\ p + n <= p + n
  BY <1>1
<1>4. q[p + n] = 0
  BY <1>1, <1>3
<1> QED
  BY <1>1, <1>2, <1>4 DEF Holds, n

\* Not more than the first n characters.
Cut(s, n) == IF Len(s) <= n THEN s ELSE SubSeq(s, 1, n)

\* They are a string.
LEMMA CutFacts ==
  ASSUME NEW s \in Seq(Byte), NEW n \in Nat
  PROVE  /\ Cut(s, n) \in Seq(Byte)
         /\ Len(Cut(s, n)) = IF Len(s) <= n THEN Len(s) ELSE n
         /\ \A k \in 1 .. Len(Cut(s, n)) : Cut(s, n)[k] = s[k]
<1>1. CASE Len(s) <= n
  BY <1>1 DEF Cut
<1>2. CASE ~(Len(s) <= n)
  <2> DEFINE l == Len(s)
             c == SubSeq(s, 1, n)
  <2>1. l \in Nat /\ ~(l <= n)
    BY <1>2
  <2>2. c \in Seq(Byte) /\ Len(c) = n /\ \A k \in 1 .. n : c[k] = s[k]
    BY <1>2
  <2>3. Cut(s, n) = c
    BY <1>2 DEF Cut
  <2> HIDE DEF c
  <2> QED
    BY <1>2, <2>2, <2>3
<1> QED
  BY <1>1, <1>2

\* strcpy copies not more than dst_size characters, and a zero byte.
LEMMA Copied ==
  ASSUME NEW D \in Nat, NEW m \in [1 .. D -> Nat], NEW src, NEW s \in Seq(Byte),
         Holds(m, D, src, s), NEW dst \in 1 .. D, NEW size \in Nat,
         dst + Len(Cut(s, size)) <= D
  PROVE  Wrote(m, D, dst, Cut(s, size), strcpy(m, dst, src, size))
<1> DEFINE l == Len(s)
           c == Cut(s, size)
           n == Len(c)
           Z == ZerosFrom(m, src)
<1>1. l \in Nat /\ \A k \in 1 .. l : m[src + k - 1] = s[k]
  BY DEF Holds
<1>2. /\ c \in Seq(Byte) /\ n = (IF l <= size THEN l ELSE size) /\ n \in Nat
      /\ \A k \in 1 .. n : c[k] = s[k]
  BY CutFacts
<1>3. Z \in SUBSET Nat /\ l \in Z /\ \A z \in Z : l <= z
  BY FirstZero
<1>4. c = [k \in 1 .. n |-> c[k]]
  BY <1>2
<1>5. dst + Len(c) <= D
  OBVIOUS
<1> HIDE DEF l, Z, c
<1>6. Min(Z \cup {size}) = n
  <2> HIDE DEF n
  <2> DEFINE W == Z \cup {size}
  <2>1. W \in SUBSET Nat /\ n \in W /\ \A z \in W : n <= z
    BY <1>1, <1>2, <1>3
  <2> HIDE DEF W
  <2>2. Min(W) = n
    BY <2>1, MinIs
  <2> QED
    BY <2>2 DEF W
<1>7. [k \in 1 .. n |-> m[src + k - 1]] = c
  <2> HIDE DEF n
  <2>1. \A k \in 1 .. n : m[src + k - 1] = c[k]
    BY <1>1, <1>2
  <2> QED
    BY <1>4, <2>1
<1>8. strcpy(m, dst, src, size) = Put(m, dst, c \o <<0>>)
  BY <1>6, <1>7 DEF strcpy, Z
<1>9. Wrote(m, D, dst, c, Put(m, dst, c \o <<0>>))
  BY <1>2, <1>5, StringPut
<1> QED
  BY <1>8, <1>9 DEF c

\* Filled up with blanks to length - 1 characters.
Padded(s, length) ==
  IF Len(s) >= length THEN s ELSE s \o [i \in 1 .. length - Len(s) - 1 |-> Blank]

\* rpad does that, in place.
LEMMA Filled ==
  ASSUME NEW D \in Nat, NEW m \in [1 .. D -> Nat], NEW p, NEW s \in Seq(Byte),
         Holds(m, D, p, s), NEW length \in Nat, p + length - 1 <= D
  PROVE  /\ rpad(m, p, Blank, length) \in [1 .. D -> Nat]
         /\ Padded(s, length) \in Seq(Byte)
         /\ Holds(rpad(m, p, Blank, length), D, p, Padded(s, length))
         /\ \A x \in 1 .. D : x < p \/ x >= p + length =>
              rpad(m, p, Blank, length)[x] = m[x]
<1> DEFINE n == Len(s)
<1>1. n \in Nat /\ strlen(m, p) = n /\ p \in 1 .. D /\ p + n <= D
  <2>1. strlen(m, p) = n
    BY StringHeld
  <2>2. p \in 1 .. D /\ p + n <= D
    BY DEF Holds
  <2> QED
    BY <2>1, <2>2
<1>2. \A k \in 1 .. n : m[p + k - 1] = s[k]
  BY DEF Holds
<1>3. CASE n >= length
  BY <1>1, <1>3 DEF rpad, Padded
<1>4. CASE ~(n >= length)
  <2> DEFINE b == [i \in 1 .. length - n - 1 |-> Blank]
             l == Len(b)
             q == Put(m, p + n, b \o <<0>>)
             t == s \o b
  <2>1. rpad(m, p, Blank, length) = q /\ Padded(s, length) = t
    BY <1>1, <1>4 DEF rpad, Padded
  <2> HIDE DEF n
  <2>2. length - n - 1 \in Nat
    BY <1>1, <1>4
  <2>3. b \in Seq(Byte) /\ l = length - n - 1
    BY <2>2 DEF Blank, Byte
  <2> HIDE DEF b
  <2>4. p + n \in 1 .. D /\ (p + n) + l <= D /\ l \in Nat
    <3> HIDE DEF l
    <3> QED
      BY <1>1, <2>2, <2>3
  <2>5. /\ q \in [1 .. D -> Nat]
        /\ Holds(q, D, p + n, b)
        /\ \A x \in 1 .. D : x < p + n \/ x > (p + n) + Len(b) => q[x] = m[x]
    BY <2>3, <2>4, StringPut DEF Wrote
  <2> HIDE DEF q
  <2>6. (\A k \in 1 .. l : q[(p + n) + k - 1] = b[k]) /\ q[(p + n) + l] = 0
    BY <2>5 DEF Holds
  <2>7. /\ t \in Seq(Byte) /\ Len(t) = n + l
        /\ \A k \in 1 .. n : t[k] = s[k]
        /\ \A k \in 1 .. l : t[n + k] = b[k]
    BY <2>3 DEF n
  <2> HIDE DEF t, l
  <2>8. ASSUME NEW k \in 1 .. n + l PROVE q[p + k - 1] = t[k]
    <3>1. CASE k <= n
      <4>1. k \in 1 .. n /\ p + k - 1 \in 1 .. D /\ p + k - 1 < p + n
        BY <1>1, <2>4, <3>1
      <4>2. q[p + k - 1] = m[p + k - 1]
        BY <2>5, <4>1
      <4> QED
        BY <1>2, <2>7, <4>1, <4>2 DEF n
    <3>2. CASE ~(k <= n)
      <4> DEFINE j == k - n
      <4>1. j \in 1 .. l /\ n + j = k /\ (p + n) + j - 1 = p + k - 1
        BY <1>1, <2>4, <3>2
      <4> HIDE DEF j
      <4> QED
        BY <2>6, <2>7, <4>1
    <3> QED
      BY <3>1, <3>2
  <2>9. q[p + (n + l)] = 0 /\ p + (n + l) <= D
    <3>1. p + (n + l) = (p + n) + l
      BY <1>1, <2>4
    <3> QED
      BY <2>4, <2>6, <3>1
  <2>10. Holds(q, D, p, t)
    BY <1>1, <2>7, <2>8, <2>9 DEF Holds
  <2>11. ASSUME NEW x \in 1 .. D, x < p \/ x >= p + length PROVE q[x] = m[x]
    <3>1. x < p + n \/ x > (p + n) + l
      BY <1>1, <2>3, <2>4, <2>11
    <3> QED
      BY <2>5, <3>1 DEF l
  <2> QED
    BY <2>1, <2>5, <2>7, <2>10, <2>11
<1> QED
  BY <1>3, <1>4

\* q is m once the string t has taken the place of the one at p, within length.
PaddedTo(m, D, p, length, t, q) ==
  /\ q \in [1 .. D -> Nat]
  /\ t \in Seq(Byte)
  /\ Holds(q, D, p, t)
  /\ \A x \in 1 .. D : x < p \/ x >= p + length => q[x] = m[x]

\* That is what rpad does.
LEMMA RpadPads ==
  ASSUME NEW D \in Nat, NEW m \in [1 .. D -> Nat], NEW p, NEW s \in Seq(Byte),
         Holds(m, D, p, s), NEW length \in Nat, p + length - 1 <= D
  PROVE  PaddedTo(m, D, p, length, Padded(s, length), rpad(m, p, Blank, length))
BY Filled DEF PaddedTo

-----------------------------------------------------------------------------
(* What printf is asked to print. *)

\* What callers have printed is a row of items that printf is made for.
LEMMA FormatsSound ==
  ASSUME NEW f \in Formats
  PROVE  f \in Seq(SoundItems) /\ \A i \in 1 .. Len(f) - 1 : f[i].type # "null"
<1>1. PICK m \in 0 .. MaxItems : f \in [1 .. m -> Items]
  BY DEF Formats, SeqOf
<1>2. m \in Nat
  BY TextAssumption
<1>3. f \in [1 .. m -> SoundItems]
  BY <1>1, ItemsSound
<1>4. f \in Seq(SoundItems)
  BY <1>2, <1>3
<1> QED
  BY <1>4 DEF Formats

\* The message, in every reachable state.
MessageInv == message = NoMessage \/ message \in Formats

\* Such a message is printed as it is meant.
LEMMA SoundMessage == MessageInv => PrintsItsItems
<1> SUFFICES ASSUME MessageInv PROVE PrintsItsItems
  OBVIOUS
<1>1. message \in Seq(SoundItems) /\ \A i \in 1 .. Len(message) - 1 : message[i].type # "null"
  <2>1. CASE message = NoMessage
    <3> DEFINE e == <<>>
    <3>1. e \in Seq(SoundItems) /\ 1 .. Len(e) - 1 = {}
      OBVIOUS
    <3>2. message = e
      BY <2>1 DEF NoMessage
    <3> HIDE DEF e
    <3> QED
      BY <3>1, <3>2
  <2>2. CASE message \in Formats
    BY <2>2, FormatsSound
  <2> QED
    BY <2>1, <2>2 DEF MessageInv
<1> QED
  BY <1>1, PrintfPrints DEF PrintsItsItems

\* In every reachable state printf, asked for any row of characters and
\* conversions, prints their text.
THEOREM ProcessPrintsItsItems == ProcessSpec => []PrintsItsItems
<1>1. ProcessInit => MessageInv
  BY DEF ProcessInit, MessageInv
<1>2. MessageInv /\ [ProcessNext]_allvars => MessageInv'
  <2> SUFFICES ASSUME MessageInv, [ProcessNext]_allvars PROVE MessageInv'
    OBVIOUS
  <2>1. message' = NoMessage \/ message' \in Formats \/ message' = message
    BY DEF ProcessNext, Message, allvars
  <2>2. Formats' = Formats /\ NoMessage' = NoMessage
    OBVIOUS
  <2> QED
    BY <2>1, <2>2 DEF MessageInv
<1> QED
  BY <1>1, <1>2, SoundMessage, PTL DEF ProcessSpec

-----------------------------------------------------------------------------
(* The names in the structs. *)

\* A row behind another.
LEMMA RowBehind ==
  ASSUME NEW m \in Seq(Nat), NEW t \in Seq(Nat)
  PROVE  /\ m \o t \in Seq(Nat) /\ Len(m \o t) = Len(m) + Len(t) /\ Len(t) \in Nat
         /\ \A x \in 1 .. Len(m) : (m \o t)[x] = m[x]
         /\ \A k \in 1 .. Len(t) : (m \o t)[Len(m) + k] = t[k]
OBVIOUS

\* A string, or a row of bytes, behind another: what stays in its place and
\* what is behind it.
LEMMA Behind ==
  ASSUME NEW D \in Nat, NEW m \in [1 .. D -> Nat], NEW t \in Seq(Nat)
  PROVE  /\ m \o t \in [1 .. D + Len(t) -> Nat]
         /\ \A x \in 1 .. D : (m \o t)[x] = m[x]
         /\ \A k \in 1 .. Len(t) : (m \o t)[D + k] = t[k]
<1>1. m \in Seq(Nat) /\ Len(m) = D
  OBVIOUS
<1> DEFINE q == m \o t
           n == Len(t)
<1>2. /\ q \in Seq(Nat) /\ Len(q) = D + n /\ n \in Nat
      /\ \A x \in 1 .. D : q[x] = m[x]
      /\ \A k \in 1 .. n : q[D + k] = t[k]
  BY <1>1, RowBehind
<1> HIDE DEF q, n
<1>3. q \in [1 .. D + n -> Nat]
  BY <1>2
<1> QED
  BY <1>2, <1>3 DEF q, n

\* A string behind D bytes, with its zero byte.
LEMMA StringBehind ==
  ASSUME NEW D \in Nat, NEW m \in [1 .. D -> Nat], NEW s \in Seq(Byte)
  PROVE  /\ m \o s \o <<0>> \in [1 .. D + Len(s) + 1 -> Nat]
         /\ \A x \in 1 .. D : (m \o s \o <<0>>)[x] = m[x]
         /\ Holds(m \o s \o <<0>>, D + Len(s) + 1, D + 1, s)
<1> DEFINE n == Len(s)
           b == m \o s
           z == <<0>>
           q == b \o z
           E == D + n
<1>1. n \in Nat /\ E \in Nat
  OBVIOUS
<1>2. s \in Seq(Nat)
  BY ByteFacts, WiderRows
<1>3. /\ b \in [1 .. E -> Nat]
      /\ \A x \in 1 .. D : b[x] = m[x]
      /\ \A k \in 1 .. n : b[D + k] = s[k]
  BY <1>2, Behind
<1>4. z \in Seq(Nat) /\ Len(z) = 1 /\ z[1] = 0
  OBVIOUS
<1> HIDE DEF b, z
<1>5. /\ q \in [1 .. E + Len(z) -> Nat]
      /\ \A x \in 1 .. E : q[x] = b[x]
      /\ \A k \in 1 .. Len(z) : q[E + k] = z[k]
  <2> HIDE DEF E
  <2> QED
    BY <1>1, <1>3, <1>4, Behind
<1> HIDE DEF q, n
<1>6. \A x \in 1 .. D : q[x] = m[x]
  BY <1>1, <1>3, <1>5
<1>7. \A k \in 1 .. n : q[(D + 1) + k - 1] = s[k]
  <2> SUFFICES ASSUME NEW k \in 1 .. n PROVE q[(D + 1) + k - 1] = s[k]
    OBVIOUS
  <2>1. (D + 1) + k - 1 = D + k /\ D + k \in 1 .. E
    BY <1>1
  <2> QED
    BY <1>3, <1>5, <2>1
<1>8. q[(D + 1) + n] = 0
  <2>1. (D + 1) + n = E + 1 /\ 1 \in 1 .. Len(z)
    BY <1>1, <1>4
  <2>2. q[E + 1] = z[1]
    BY <1>5, <2>1
  <2> QED
    BY <1>4, <2>1, <2>2
<1>9. D + 1 \in 1 .. D + n + 1 /\ (D + 1) + n <= D + n + 1
  BY <1>1
<1>10. q \in [1 .. D + n + 1 -> Nat]
  BY <1>4, <1>5
<1> QED
  BY <1>6, <1>7, <1>8, <1>9, <1>10 DEF Holds, q, b, z, n

\* The sizes of the buffers.
LEMMA SizeFacts ==
  /\ ProcessNameSize \in Nat \ {0} /\ StateColumn \in Nat \ {0} /\ PrintBufferSize \in Nat
  /\ PrintBufferSize > ProcessNameSize + 1 /\ PrintBufferSize >= StateColumn
  /\ StructSize = ProcessNameSize + 2
BY NamesAssumption DEF StructSize

\* A struct holds the name it has been given, cut to the size of its array.
LEMMA NameGiven ==
  ASSUME NEW bytes \in [1 .. StructSize -> Nat], NEW s \in Seq(Byte)
  PROVE  /\ Named(bytes, s) \in [1 .. StructSize -> Nat]
         /\ Holds(Named(bytes, s), StructSize, 1, Cut(s, ProcessNameSize))
<1> DEFINE S == StructSize
           P == ProcessNameSize
           n == Len(s)
           D == S + n + 1
           m == bytes \o s \o <<0>>
           c == Cut(s, P)
           q == strcpy(m, 1, S + 1, P)
           t == SubSeq(q, 1, S)
<1>1. S = P + 2 /\ P \in Nat /\ n \in Nat /\ S \in Nat
  BY SizeFacts
<1>2. m \in [1 .. D -> Nat] /\ Holds(m, D, S + 1, s)
  <2> HIDE DEF S
  <2>1. bytes \in [1 .. S -> Nat]
    BY DEF S
  <2> QED
    BY <1>1, <2>1, StringBehind
<1>3. c \in Seq(Byte) /\ Len(c) <= P /\ Len(c) \in Nat
  <2>1. c \in Seq(Byte) /\ Len(c) = IF n <= P THEN n ELSE P
    BY <1>1, CutFacts
  <2> HIDE DEF c
  <2> QED
    BY <1>1, <2>1
<1>4. Named(bytes, s) = t
  BY DEF Named
<1> HIDE DEF S, P, n, m, c
<1>5. D \in Nat /\ 1 \in 1 .. D /\ 1 + Len(c) <= D /\ S <= D
  BY <1>1, <1>3
<1> HIDE DEF D
<1>6. q \in [1 .. D -> Nat] /\ Holds(q, D, 1, c)
  <2>1. 1 + Len(Cut(s, P)) <= D
    BY <1>5 DEF c
  <2>2. S + 1 \in Nat
    BY <1>1
  <2> QED
    BY <1>1, <1>2, <1>5, <2>1, Copied DEF c, Wrote
<1> HIDE DEF q
<1>7. t \in [1 .. S -> Nat] /\ \A k \in 1 .. S : t[k] = q[k]
  <2>1. q \in Seq(Nat) /\ Len(q) = D
    BY <1>5, <1>6
  <2>2. t = [k \in 1 .. S |-> q[k]]
    BY <1>1, <1>5, <2>1
  <2> HIDE DEF t
  <2>3. \A k \in 1 .. S : q[k] \in Nat
    BY <1>1, <1>5, <1>6
  <2> QED
    BY <2>2, <2>3
<1> HIDE DEF t
<1>8. Holds(q, S, 1, c)
  BY <1>1, <1>3, <1>6 DEF Holds
<1>9. Holds(t, S, 1, c)
  <2>1. \A x \in 1 .. S : x >= 1 /\ x <= 1 + Len(c) => t[x] = q[x]
    BY <1>7
  <2> QED
    BY <1>1, <1>3, <1>8, <2>1, StringKept
<1> QED
  BY <1>4, <1>7, <1>9 DEF S, c, P

\* Every struct in use holds the name its process was started with, cut to the
\* size of the array.
NamesInv ==
  /\ struct \in [Slot -> [1 .. StructSize -> Nat]]
  /\ given \in [Slot -> Seq(Byte)]
  /\ state \in [Slot -> States]
  /\ \A i \in Slot : state[i] # "UNUSED" =>
       Holds(struct[i], StructSize, 1, Cut(given[i], ProcessNameSize))

\* A name that is given to a slot is there, whatever the structs were.
LEMMA GivenTo ==
  ASSUME NamesInv, NEW i \in Slot, NEW s \in Seq(Byte),
         NEW structs \in [Slot -> [1 .. StructSize -> Nat]], Cleared(i, s, structs)
  PROVE  /\ struct' \in [Slot -> [1 .. StructSize -> Nat]]
         /\ given' \in [Slot -> Seq(Byte)]
         /\ Holds(struct'[i], StructSize, 1, Cut(given'[i], ProcessNameSize))
         /\ \A j \in Slot : j # i => struct'[j] = structs[j] /\ given'[j] = given[j]
<1> DEFINE c == Named(structs[i], s)
<1>1. c \in [1 .. StructSize -> Nat] /\ Holds(c, StructSize, 1, Cut(s, ProcessNameSize))
  BY NameGiven
<1>2. struct' = [structs EXCEPT ![i] = c] /\ given' = [given EXCEPT ![i] = s]
  BY DEF Cleared
<1>3. given \in [Slot -> Seq(Byte)]
  BY DEF NamesInv
<1> HIDE DEF c
<1>4. struct'[i] = c /\ given'[i] = s
  BY <1>2, <1>3
<1>5. struct' \in [Slot -> [1 .. StructSize -> Nat]]
  BY <1>1, <1>2
<1>6. given' \in [Slot -> Seq(Byte)]
  BY <1>2, <1>3
<1>7. \A j \in Slot : j # i => struct'[j] = structs[j] /\ given'[j] = given[j]
  BY <1>2, <1>3
<1> QED
  BY <1>1, <1>4, <1>5, <1>6, <1>7

\* It holds at the start, when no slot is in use.
LEMMA InitNamesInv == ProcessInit => NamesInv
<1> SUFFICES ASSUME ProcessInit PROVE NamesInv
  OBVIOUS
<1>1. Zeros(StructSize) \in [1 .. StructSize -> Nat]
  BY DEF Zeros
<1>2. struct \in [Slot -> [1 .. StructSize -> Nat]]
  BY <1>1 DEF ProcessInit
<1>3. given \in [Slot -> Seq(Byte)]
  BY DEF ProcessInit
<1>4. state \in [Slot -> States] /\ \A i \in Slot : state[i] = "UNUSED"
  BY DEF ProcessInit, States
<1> QED
  BY <1>2, <1>3, <1>4 DEF NamesInv

\* The names that are given are rows of bytes.
LEMMA GivenNames == IdleName \in Seq(Byte) /\ ProgramNames \subseteq Seq(Byte)
BY NamesAssumption DEF Byte

\* Every step keeps it.
LEMMA NextNamesInv == NamesInv /\ [ProcessNext]_allvars => NamesInv'
<1> SUFFICES ASSUME NamesInv, [ProcessNext]_allvars PROVE NamesInv'
  OBVIOUS
<1>1. ASSUME UNCHANGED <<state, struct, given>> PROVE NamesInv'
  BY <1>1 DEF NamesInv
<1>3. WithPids \in [Slot -> [1 .. StructSize -> Nat]]
  <2> SUFFICES ASSUME NEW i \in Slot
               PROVE  [struct[i] EXCEPT ![ProcessNameSize + 1] = i, ![ProcessNameSize + 2] = 0]
                        \in [1 .. StructSize -> Nat]
    BY DEF WithPids
  <2>1. struct[i] \in [1 .. StructSize -> Nat] /\ i \in Nat
    BY DEF NamesInv, Slot
  <2> QED
    BY <2>1
<1>4. ASSUME Cleared(0, IdleName, WithPids), state' \in [Slot -> States],
             \A j \in Slot : j # 0 => state'[j] = "UNUSED"
      PROVE  NamesInv'
  <2>1. /\ struct' \in [Slot -> [1 .. StructSize -> Nat]]
        /\ given' \in [Slot -> Seq(Byte)]
        /\ Holds(struct'[0], StructSize, 1, Cut(given'[0], ProcessNameSize))
    BY <1>3, <1>4, GivenNames, SlotFacts, GivenTo
  <2> QED
    BY <1>4, <2>1 DEF NamesInv
<1>5. ASSUME NEW s \in ProgramNames, NextFreePid > 0, Cleared(NextFreePid, s, struct),
             state' \in [Slot -> States],
             \A j \in Slot : j # NextFreePid => state'[j] = state[j]
      PROVE  NamesInv'
  <2> DEFINE i == NextFreePid
  <2>1. i \in Slot
    BY <1>5, FreePid, SlotFacts
  <2>2. s \in Seq(Byte)
    BY GivenNames
  <2>3. struct \in [Slot -> [1 .. StructSize -> Nat]]
    BY DEF NamesInv
  <2> HIDE DEF i
  <2>4. /\ struct' \in [Slot -> [1 .. StructSize -> Nat]]
        /\ given' \in [Slot -> Seq(Byte)]
        /\ Holds(struct'[i], StructSize, 1, Cut(given'[i], ProcessNameSize))
        /\ \A j \in Slot : j # i => struct'[j] = struct[j] /\ given'[j] = given[j]
    BY <1>5, <2>1, <2>2, <2>3, GivenTo DEF i
  <2>5. ASSUME NEW j \in Slot, state'[j] # "UNUSED"
        PROVE  Holds(struct'[j], StructSize, 1, Cut(given'[j], ProcessNameSize))
    <3>1. CASE j = i
      BY <2>4, <3>1
    <3>2. CASE j # i
      <4>1. struct'[j] = struct[j] /\ given'[j] = given[j] /\ state[j] # "UNUSED"
        BY <1>5, <2>4, <2>5, <3>2 DEF i
      <4> QED
        BY <4>1 DEF NamesInv
    <3> QED
      BY <3>1, <3>2
  <2> QED
    BY <1>5, <2>4, <2>5 DEF NamesInv
<1>6. CASE process_init
  <2>1. Cleared(0, IdleName, WithPids)
    BY <1>6 DEF process_init, process_init_process
  <2>2. state' = [i \in Slot |-> IF i = 0 THEN "RUNNABLE" ELSE "UNUSED"]
    BY <1>6 DEF process_init
  <2> QED
    BY <1>4, <2>1, <2>2 DEF States
<1>7. CASE process_init_panics
  <2>1. Cleared(0, IdleName, WithPids)
    BY <1>7 DEF process_init_panics, process_init_process_panics
  <2>2. state' = [i \in Slot |-> "UNUSED"]
    BY <1>7 DEF process_init_panics
  <2> QED
    BY <1>4, <2>1, <2>2 DEF States
<1>8. ASSUME NEW s \in ProgramNames, process_execve(s) PROVE NamesInv'
  <2>1. NextFreePid > 0 /\ Cleared(NextFreePid, s, struct)
        /\ state' = [state EXCEPT ![NextFreePid] = "RUNNABLE"]
    BY <1>8 DEF process_execve, process_init_process
  <2>2. state \in [Slot -> States]
    BY DEF NamesInv
  <2> QED
    BY <1>5, <2>1, <2>2 DEF States
<1>9. ASSUME NEW s \in ProgramNames, process_execve_panics(s) PROVE NamesInv'
  <2>1. NextFreePid > 0 /\ Cleared(NextFreePid, s, struct) /\ state' = state
    BY <1>9 DEF process_execve_panics, process_init_process_panics
  <2>2. state \in [Slot -> States]
    BY DEF NamesInv
  <2> QED
    BY <1>5, <2>1, <2>2
<1>10. CASE BootScheduler \/ Tick \/ Stopped \/ Message
  <2>1. UNCHANGED <<state, struct, given>>
    BY <1>10 DEF BootScheduler, Tick, Stopped, Message, table, names
  <2> QED
    BY <1>1, <2>1
<1>11. ASSUME NEW i \in Slot, process_kill(i) PROVE NamesInv'
  <2>1. UNCHANGED <<state, struct, given>>
    BY <1>11 DEF process_kill, names
  <2> QED
    BY <1>1, <2>1
<1>12. CASE UNCHANGED allvars
  <2>1. UNCHANGED <<state, struct, given>>
    BY <1>12 DEF allvars, table, names
  <2> QED
    BY <1>1, <2>1
<1> QED
  BY <1>6, <1>7, <1>8, <1>9, <1>10, <1>11, <1>12 DEF ProcessNext, TableNext

-----------------------------------------------------------------------------
(* The lines of the listing. *)

\* The length of a padded string.
LEMMA PaddedFacts ==
  ASSUME NEW s \in Seq(Byte), NEW length \in Nat
  PROVE  /\ Padded(s, length) \in Seq(Byte)
         /\ Len(Padded(s, length)) = IF Len(s) >= length THEN Len(s) ELSE length - 1
<1> DEFINE n == Len(s)
<1>1. n \in Nat
  OBVIOUS
<1>2. CASE n >= length
  BY <1>2 DEF Padded
<1>3. CASE ~(n >= length)
  <2> DEFINE b == [i \in 1 .. length - n - 1 |-> Blank]
             t == s \o b
  <2>1. Padded(s, length) = t
    BY <1>3 DEF Padded
  <2>2. length - n - 1 \in Nat
    BY <1>1, <1>3
  <2>3. b \in Seq(Byte) /\ Len(b) = length - n - 1
    <3> HIDE DEF n
    <3> QED
      BY <2>2 DEF Blank, Byte
  <2> HIDE DEF b
  <2>4. t \in Seq(Byte) /\ Len(t) = n + Len(b)
    BY <2>3
  <2> HIDE DEF t, n
  <2>5. Len(t) = length - 1
    BY <1>1, <2>2, <2>3, <2>4
  <2> QED
    BY <1>3, <2>1, <2>4, <2>5 DEF n
<1> QED
  BY <1>2, <1>3

\* strcpy copies a string that is not longer than dst_size.
LEMMA CopiedWhole ==
  ASSUME NEW D \in Nat, NEW m \in [1 .. D -> Nat], NEW src \in 1 .. D, NEW s \in Seq(Byte),
         Holds(m, D, src, s), NEW dst \in 1 .. D, NEW size \in Nat,
         Len(s) <= size, dst + Len(s) <= D
  PROVE  Wrote(m, D, dst, s, strcpy(m, dst, src, size))
<1>1. Cut(s, size) = s
  BY DEF Cut
<1>2. dst + Len(Cut(s, size)) <= D
  BY <1>1
<1>3. Wrote(m, D, dst, Cut(s, size), strcpy(m, dst, src, size))
  BY <1>2, Copied
<1> QED
  BY <1>1, <1>3

\* The memory of a line: the struct, the two buffers of process_printlist and
\* the name of the state, once the names are copied and padded.
RowMemory(st, t, S, B, P, C) ==
  LET start == st \o Zeros(2 * B) \o t \o <<0>>
      copied == strcpy(strcpy(start, S + 1, 1, B), S + 1 + B, S + 1 + B + B, B)
  IN  rpad(rpad(copied, S + 1, Blank, P), S + 1 + B, Blank, C)

\* A struct with the name c and the name t of its state fit their buffers.
Fit(st, c, t, S, B, P, C) ==
  /\ S \in Nat /\ B \in Nat /\ P \in Nat /\ C \in Nat
  /\ c \in Seq(Byte) /\ t \in Seq(Byte)
  /\ st \in [1 .. S -> Nat] /\ Holds(st, S, 1, c)
  /\ P < B /\ C <= B /\ Len(c) <= P /\ Len(t) < B /\ Len(t) <= C

\* The two names are printed, each cut and padded in a buffer of its own.
LEMMA RowBuffers ==
  ASSUME NEW st, NEW c, NEW t, NEW S, NEW B, NEW P, NEW C, Fit(st, c, t, S, B, P, C)
  PROVE  /\ StringFrom(RowMemory(st, t, S, B, P, C), S + 1) = Padded(c, P)
         /\ StringFrom(RowMemory(st, t, S, B, P, C), S + 1 + B) = Padded(t, C)
<1> DEFINE l == Len(c)
           n == Len(t)
           z == Zeros(2 * B)
           E == S + 2 * B
           D == E + n + 1
           m == st \o z
           start == m \o t \o <<0>>
           x == S + 1
           y == S + 1 + B
           w == S + 1 + B + B
           c1 == strcpy(start, x, 1, B)
           c2 == strcpy(c1, y, w, B)
           p1 == rpad(c2, x, Blank, P)
           p2 == rpad(p1, y, Blank, C)
           c3 == Padded(c, P)
           t3 == Padded(t, C)
<1> /\ S \in Nat /\ B \in Nat /\ P \in Nat /\ C \in Nat
    /\ c \in Seq(Byte) /\ t \in Seq(Byte)
    /\ st \in [1 .. S -> Nat] /\ Holds(st, S, 1, c)
    /\ P < B /\ C <= B /\ Len(c) <= P /\ Len(t) < B /\ Len(t) <= C
  BY DEF Fit
<1>1. l \in Nat /\ n \in Nat /\ l <= P /\ n < B /\ n <= C
  OBVIOUS
<1>2. z \in Seq(Nat) /\ Len(z) = 2 * B
  <2> DEFINE b == 2 * B
  <2>1. b \in Nat
    OBVIOUS
  <2> HIDE DEF b
  <2>2. Zeros(b) \in Seq(Nat) /\ Len(Zeros(b)) = b
    BY <2>1 DEF Zeros
  <2> QED
    BY <2>2 DEF b
<1> HIDE DEF z
<1>3. /\ m \in [1 .. E -> Nat]
      /\ \A k \in 1 .. S : m[k] = st[k]
  BY <1>2, Behind
<1> HIDE DEF m
<1>4. E \in Nat
  OBVIOUS
<1> HIDE DEF E
<1>5. /\ start \in [1 .. D -> Nat]
      /\ \A k \in 1 .. E : start[k] = m[k]
      /\ Holds(start, D, E + 1, t)
  BY <1>3, <1>4, StringBehind
<1> HIDE DEF start
<1>6. /\ D \in Nat /\ S <= D /\ E + 1 = w
      /\ x \in 1 .. D /\ y \in 1 .. D /\ x + l <= D /\ y + n <= D /\ x + P - 1 <= D /\ y + C - 1 <= D
      /\ 1 + l <= S
  <2>1. 1 + l <= S
    BY DEF Holds
  <2> HIDE DEF l, n
  <2> QED
    BY <1>1, <2>1 DEF E
<1>7. Holds(st, D, 1, c)
  <2>1. /\ 1 \in 1 .. S /\ st[1 + l] = 0
        /\ \A k \in 1 .. l : st[1 + k - 1] = c[k]
    BY DEF Holds
  <2>2. 1 \in 1 .. D /\ 1 + l <= D
    <3> HIDE DEF l, D
    <3> QED
      BY <1>1, <1>6
  <2> QED
    BY <2>1, <2>2 DEF Holds
<1>8. Holds(start, D, 1, c)
  <2>1. ASSUME NEW k \in 1 .. D, k >= 1, k <= 1 + l PROVE start[k] = st[k]
    <3>1. k \in 1 .. S /\ k \in 1 .. E
      <4> HIDE DEF l, D
      <4> QED
        BY <1>1, <1>4, <1>6, <2>1 DEF E
    <3> QED
      BY <1>3, <1>5, <3>1
  <2> HIDE DEF D
  <2> QED
    BY <1>6, <1>7, <2>1, StringKept
<1>9. l <= B /\ n <= B
  <2> HIDE DEF l, n
  <2> QED
    BY <1>1
<1>10. Holds(start, D, w, t)
  BY <1>5, <1>6
<1> HIDE DEF D, x, y, w
<1>11. /\ c1 \in [1 .. D -> Nat]
       /\ Holds(c1, D, x, c)
       /\ \A k \in 1 .. D : k < x \/ k > x + Len(c) => c1[k] = start[k]
  <2>1. Len(c) <= B /\ x + Len(c) <= D /\ 1 \in 1 .. D
    BY <1>6, <1>8, <1>9 DEF Holds
  <2>2. Wrote(start, D, x, c, c1)
    BY <1>5, <1>6, <1>8, <2>1, CopiedWhole
  <2> HIDE DEF c1
  <2> QED
    BY <2>2 DEF Wrote
<1> HIDE DEF c1
<1>12. y = x + B /\ w = y + B /\ x \in Nat
  BY DEF x, y, w
<1>13. Holds(c1, D, w, t)
  <2>1. ASSUME NEW k \in 1 .. D, k >= w, k <= w + Len(t) PROVE c1[k] = start[k]
    <3>1. k > x + l
      <4> HIDE DEF l
      <4> QED
        BY <1>1, <1>12, <2>1
    <3> QED
      BY <1>11, <3>1
  <2> QED
    BY <1>6, <1>10, <2>1, StringKept
<1>14. /\ c2 \in [1 .. D -> Nat]
       /\ Holds(c2, D, y, t)
       /\ \A k \in 1 .. D : k < y \/ k > y + Len(t) => c2[k] = c1[k]
  <2>1. Len(t) <= B /\ y + Len(t) <= D /\ w \in 1 .. D
    BY <1>6, <1>9, <1>10 DEF Holds
  <2>2. Wrote(c1, D, y, t, c2)
    BY <1>6, <1>11, <1>13, <2>1, CopiedWhole
  <2> HIDE DEF c2
  <2> QED
    BY <2>2 DEF Wrote
<1> HIDE DEF c2
<1>15. Holds(c2, D, x, c)
  <2>1. ASSUME NEW k \in 1 .. D, k >= x, k <= x + Len(c) PROVE c2[k] = c1[k]
    <3>1. k < y
      <4> HIDE DEF l
      <4>1. k <= x + l
        BY <2>1 DEF l
      <4> QED
        BY <1>1, <1>12, <2>1, <4>1
    <3> QED
      BY <1>14, <3>1
  <2> QED
    BY <1>6, <1>11, <2>1, StringKept
<1>16. /\ p1 \in [1 .. D -> Nat] /\ c3 \in Seq(Byte)
       /\ Holds(p1, D, x, c3)
       /\ \A k \in 1 .. D : k < x \/ k >= x + P => p1[k] = c2[k]
  <2>1. x + P - 1 <= D /\ D \in Nat /\ P \in Nat /\ c \in Seq(Byte) /\ c2 \in [1 .. D -> Nat]
    BY <1>6, <1>14
  <2>2. PaddedTo(c2, D, x, P, c3, p1)
    BY <2>1, <1>15, RpadPads
  <2> HIDE DEF p1, c3
  <2> QED
    BY <2>2 DEF PaddedTo
<1> HIDE DEF p1
<1>17. Holds(p1, D, y, t)
  <2>1. ASSUME NEW k \in 1 .. D, k >= y, k <= y + Len(t) PROVE p1[k] = c2[k]
    <3>1. k >= x + P
      BY <1>12, <2>1
    <3> QED
      BY <1>16, <3>1
  <2> QED
    BY <1>6, <1>14, <2>1, StringKept
<1>18. /\ p2 \in [1 .. D -> Nat] /\ t3 \in Seq(Byte)
       /\ Holds(p2, D, y, t3)
       /\ \A k \in 1 .. D : k < y \/ k >= y + C => p2[k] = p1[k]
  <2>1. y + C - 1 <= D /\ D \in Nat /\ C \in Nat /\ t \in Seq(Byte) /\ p1 \in [1 .. D -> Nat]
    BY <1>6, <1>16
  <2>2. PaddedTo(p1, D, y, C, t3, p2)
    BY <2>1, <1>17, RpadPads
  <2> HIDE DEF p2, t3
  <2> QED
    BY <2>2 DEF PaddedTo
<1> HIDE DEF p2
<1>19. Len(c3) <= P /\ Len(c3) \in Nat
  <2>1. Len(c3) = IF l >= P THEN l ELSE P - 1
    BY PaddedFacts
  <2> HIDE DEF l, c3
  <2> QED
    BY <1>1, <2>1
<1>20. Holds(p2, D, x, c3)
  <2> HIDE DEF c3
  <2>1. ASSUME NEW k \in 1 .. D, k >= x, k <= x + Len(c3) PROVE p2[k] = p1[k]
    <3>1. k < y
      BY <1>12, <1>19, <2>1
    <3> QED
      BY <1>18, <3>1
  <2> QED
    BY <1>6, <1>16, <2>1, StringKept
<1>21. StringFrom(p2, x) = c3 /\ StringFrom(p2, y) = t3
  <2> HIDE DEF c3, t3
  <2> QED
    BY <1>6, <1>16, <1>18, <1>20, StringHeld
<1>22. RowMemory(st, t, S, B, P, C) = p2
  BY DEF RowMemory, p2, p1, c2, c1, x, y, w, start, m, z
<1> QED
  BY <1>21, <1>22 DEF x, y

\* The items of a line: a character, a string and a number.
Plain(v) == [type |-> "char", value |-> v]
Text(v) == [type |-> "s", value |-> v]
Number(v) == [type |-> "d", value |-> v]

\* They are sound, and how they are spelled and what they mean.
LEMMA PlainItem ==
  ASSUME NEW v \in Byte \ {Percent}
  PROVE  /\ Plain(v) \in SoundItems /\ ~Bad(Plain(v))
         /\ Spelling(Plain(v)) = <<v>> /\ Passed(Plain(v)) = <<>> /\ Meaning(Plain(v)) = <<v>>
<1>1. Plain(v) \in SoundItems
  BY DEF Plain, SoundItems, Byte
<1>2. Plain(v).type = "char" /\ Plain(v).value = v
  BY DEF Plain
<1> DEFINE it == Plain(v)
<1> HIDE DEF it
<1>3. it.type = "char" /\ it.value = v
  BY <1>2 DEF it
<1>4. ~Bad(it) /\ Spelling(it) = <<v>> /\ Meaning(it) = <<v>>
  BY <1>3 DEF Bad, Spelling, Meaning
<1>5. Passed(it) = <<>>
  BY <1>3, LetterFacts DEF Passed
<1> QED
  BY <1>1, <1>4, <1>5 DEF it

\* A string takes an argument,
LEMMA TextItem ==
  ASSUME NEW v \in Seq(Byte)
  PROVE  /\ Text(v) \in SoundItems /\ ~Bad(Text(v))
         /\ Spelling(Text(v)) = <<37, 115>> /\ Passed(Text(v)) = <<v>> /\ Meaning(Text(v)) = v
<1>1. Text(v) \in SoundItems
  BY DEF Text, SoundItems, Byte
<1>2. Text(v).type = "s" /\ Text(v).value = v
  BY DEF Text
<1> DEFINE it == Text(v)
<1> HIDE DEF it
<1>3. it.type = "s" /\ it.value = v
  BY <1>2 DEF it
<1>4. ~Bad(it) /\ Meaning(it) = v
  BY <1>3 DEF Bad, Meaning
<1>5. Passed(it) = <<v>>
  BY <1>3, LetterFacts DEF Passed
<1>6. Spelling(it) = <<Percent, Letter[it.type]>>
  BY <1>3 DEF Spelling
<1>7. Letter["s"] = 115
  BY DEF Letter
<1> QED
  BY <1>1, <1>3, <1>4, <1>5, <1>6, <1>7 DEF it, Percent

\* and so does a number.
LEMMA NumberItem ==
  ASSUME NEW v \in Nat, v < 2 ^ PRINTF_BUFFER_SIZE
  PROVE  /\ Number(v) \in SoundItems /\ ~Bad(Number(v))
         /\ Spelling(Number(v)) = <<37, 100>> /\ Passed(Number(v)) = <<v>>
         /\ Meaning(Number(v)) = Numeral(v, 10)
<1>1. Number(v) \in SoundItems
  <2> DEFINE e == 2 ^ PRINTF_BUFFER_SIZE
             M == 0 .. 2 ^ PRINTF_BUFFER_SIZE - 1
  <2>1. v \in M
    <3>1. e \in Nat /\ v < e
      BY Powers, WidthAssumption
    <3> HIDE DEF e
    <3>2. v \in 0 .. e - 1
      BY <3>1
    <3> QED
      BY <3>2 DEF e
  <2> HIDE DEF M
  <2>2. Number(v) \in [type : {"d", "x", "b"}, value : M]
    BY <2>1 DEF Number
  <2> QED
    BY <2>2 DEF SoundItems, M
<1>2. Number(v).type = "d" /\ Number(v).value = v
  BY DEF Number
<1> DEFINE it == Number(v)
<1> HIDE DEF it
<1>3. it.type = "d" /\ it.value = v
  BY <1>2 DEF it
<1>4. ~Bad(it) /\ Meaning(it) = BasePrefix(Base["d"]) \o Numeral(v, Base["d"])
  BY <1>3 DEF Bad, Meaning
<1>5. Passed(it) = <<v>>
  BY <1>3, LetterFacts DEF Passed
<1>6. Spelling(it) = <<Percent, Letter[it.type]>>
  BY <1>3 DEF Spelling
<1>7. Letter["d"] = 100
  BY DEF Letter
<1>8. Base["d"] = 10
  BY DEF Base
<1>9. BasePrefix(10) = <<>>
  BY DEF BasePrefix
<1>10. Meaning(it) = Numeral(v, 10)
  <2> DEFINE n == Numeral(v, 10)
  <2>1. n \in Seq(Nat)
    BY NumeralType DEF Radix
  <2> HIDE DEF n
  <2>2. <<>> \o n = n
    BY <2>1
  <2> QED
    BY <1>4, <1>8, <1>9, <2>2 DEF n
<1> QED
  BY <1>1, <1>3, <1>4, <1>5, <1>6, <1>7, <1>10 DEF it, Percent

\* A line, item by item.
RowItems(i, n, t) ==
  <<Number(i), Plain(32), Plain(124), Plain(32), Text(n),
    Plain(32), Plain(124), Plain(32), Text(t)>>

\* Joining rows of numbers.
LEMMA JoinThree ==
  ASSUME NEW x \in Seq(Nat)
  PROVE  ((x \o <<32>>) \o <<124>>) \o <<32>> = x \o <<32, 124, 32>>
OBVIOUS

\* x is y without its first n elements.
Ending(x, y, n) == Len(x) = Len(y) - n /\ \A k \in 1 .. Len(x) : x[k] = y[n + k]

\* So is x, a row over X.
EndsAt(x, y, X, n) == x \in Seq(X) /\ Ending(x, y, n)

\* Rows of one and of two elements.
One(v) == <<v>>
Two(u, v) == <<u, v>>

\* Putting the one before in front,
LEMMA EndingOne ==
  ASSUME NEW X, NEW y \in Seq(X), NEW m \in 1 .. Len(y), NEW x, EndsAt(x, y, X, m)
  PROVE  EndsAt(One(y[m]) \o x, y, X, m - 1)
<1> DEFINE v == y[m]
           z == One(v) \o x
<1> v \in X /\ x \in Seq(X) /\ Ending(x, y, m)
  BY DEF EndsAt
<1> HIDE DEF v
<1> DEFINE l == Len(x)
           n == m - 1
<1>0. m = n + 1 /\ n \in Nat
  OBVIOUS
<1> HIDE DEF n
<1>1. l \in Nat /\ l = Len(y) - (n + 1) /\ \A k \in 1 .. l : x[k] = y[(n + 1) + k]
  BY <1>0 DEF Ending
<1>2. Len(y) \in Nat
  OBVIOUS
<1>3. z \in Seq(X) /\ Len(z) = l + 1 /\ z[1] = v /\ \A k \in 1 .. l : z[1 + k] = x[k]
  BY DEF One
<1> HIDE DEF l, z
<1>4. ASSUME NEW k \in 1 .. Len(z) PROVE z[k] = y[n + k]
  <2>1. CASE k = 1
    BY <1>0, <1>3, <2>1 DEF v
  <2>2. CASE k # 1
    <3> DEFINE j == k - 1
    <3>1. j \in 1 .. l /\ 1 + j = k /\ (n + 1) + j = n + k
      BY <1>0, <1>1, <1>3, <1>4, <2>2
    <3> HIDE DEF j
    <3> QED
      BY <1>1, <1>3, <3>1
  <2> QED
    BY <2>1, <2>2
<1>5. Len(z) = Len(y) - n
  BY <1>0, <1>1, <1>2, <1>3
<1> QED
  BY <1>3, <1>4, <1>5 DEF Ending, EndsAt, n, v, z

\* and the two before.
LEMMA EndingTwo ==
  ASSUME NEW X, NEW y \in Seq(X), NEW m \in 2 .. Len(y), NEW x, EndsAt(x, y, X, m)
  PROVE  EndsAt(Two(y[m - 1], y[m]) \o x, y, X, m - 2)
<1> DEFINE w == One(y[m]) \o x
           n == m - 1
           u == y[n]
           v == y[m]
<1>1. n \in 1 .. Len(y) /\ n - 1 = m - 2 /\ m \in 1 .. Len(y)
  OBVIOUS
<1>2. EndsAt(w, y, X, n)
  BY <1>1, EndingOne
<1>3. u \in X /\ v \in X /\ x \in Seq(X)
  BY <1>1 DEF EndsAt
<1> HIDE DEF n
<1>4. EndsAt(One(y[n]) \o w, y, X, n - 1)
  <2> HIDE DEF w
  <2> QED
    BY <1>1, <1>2, EndingOne
<1> HIDE DEF u, v
<1>5. One(u) \o (One(v) \o x) = Two(u, v) \o x
  <2> DEFINE b == One(v) \o x
             p == One(u) \o b
             q == Two(u, v) \o x
             l == Len(x)
  <2>1. l \in Nat
    BY <1>3
  <2>2. b \in Seq(X) /\ Len(b) = l + 1 /\ b[1] = v /\ \A k \in 1 .. l : b[k + 1] = x[k]
    BY <1>3 DEF One
  <2>3. /\ q \in Seq(X) /\ Len(q) = l + 2 /\ q[1] = u /\ q[2] = v
        /\ \A k \in 1 .. l : q[k + 2] = x[k]
    BY <1>3 DEF Two
  <2> HIDE DEF b
  <2>4. p \in Seq(X) /\ Len(p) = Len(b) + 1 /\ p[1] = u /\ \A k \in 1 .. Len(b) : p[k + 1] = b[k]
    BY <1>3, <2>2 DEF One
  <2> HIDE DEF p, q, l
  <2>5. ASSUME NEW k \in 1 .. l + 2 PROVE p[k] = q[k]
    <3>1. CASE k = 1
      BY <2>3, <2>4, <3>1
    <3>2. CASE k = 2
      <4>1. 1 \in 1 .. Len(b) /\ 1 + 1 = 2
        BY <2>1, <2>2
      <4>2. p[1 + 1] = b[1]
        BY <2>4, <4>1
      <4> QED
        BY <2>2, <2>3, <3>2, <4>1, <4>2
    <3>3. CASE k > 2
      <4> DEFINE j == k - 2
      <4>1. j \in 1 .. l /\ j + 2 = k /\ j + 1 \in 1 .. Len(b) /\ (j + 1) + 1 = k
        BY <2>1, <2>2, <3>3
      <4> HIDE DEF j
      <4>2. p[(j + 1) + 1] = b[j + 1] /\ b[j + 1] = x[j] /\ q[j + 2] = x[j]
        BY <2>2, <2>3, <2>4, <4>1
      <4> QED
        BY <4>1, <4>2
    <3> QED
      BY <2>1, <3>1, <3>2, <3>3
  <2>6. p = [k \in 1 .. l + 2 |-> p[k]] /\ q = [k \in 1 .. l + 2 |-> q[k]]
    <3>1. Len(p) = l + 2
      BY <2>1, <2>2, <2>4
    <3>2. p = [k \in 1 .. Len(p) |-> p[k]] /\ q = [k \in 1 .. Len(q) |-> q[k]]
      BY <2>3, <2>4
    <3> QED
      BY <2>3, <3>1, <3>2
  <2>7. p = q
    BY <2>5, <2>6
  <2> QED
    BY <2>7 DEF p, q, b
<1> QED
  BY <1>1, <1>4, <1>5 DEF u, v, w, n

\* Without its first 0 elements it is the row itself.
LEMMA EndingAll ==
  ASSUME NEW X, NEW y \in Seq(X), NEW x \in Seq(X), Ending(x, y, 0)
  PROVE  x = y
<1> DEFINE l == Len(x)
           m == Len(y)
<1>1. x = [k \in 1 .. l |-> x[k]] /\ y = [k \in 1 .. m |-> y[k]] /\ l \in Nat /\ m \in Nat
  OBVIOUS
<1>2. l = m - 0 /\ \A k \in 1 .. l : x[k] = y[0 + k]
  BY DEF Ending
<1> HIDE DEF l, m
<1>3. ASSUME NEW k \in 1 .. l PROVE x[k] = y[k]
  <2>1. 0 + k = k
    BY <1>1
  <2> QED
    BY <1>2, <2>1
<1>4. l = m
  BY <1>1, <1>2
<1> QED
  BY <1>1, <1>3, <1>4

\* What is printed for a line, and the line.
Printed(i, n, t) == printf(RowFormat, <<i, n, t>>).out
Line(i, n, t) == Numeral(i, 10) \o <<32, 124, 32>> \o n \o <<32, 124, 32>> \o t

\* What printf makes of the format and the arguments of a line.
LEMMA RowPrinted ==
  ASSUME NEW i \in Nat, i < 2 ^ PRINTF_BUFFER_SIZE, NEW n \in Seq(Byte), NEW t \in Seq(Byte)
  PROVE  Printed(i, n, t) = Line(i, n, t)
<1> DEFINE f == RowItems(i, n, t)
           d == Numeral(i, 10)
           X == {f[k].value : k \in DOMAIN f}
<1>1. 32 \in Byte \ {Percent} /\ 124 \in Byte \ {Percent}
  BY DEF Byte, Percent
<1>2. /\ f[1] = Number(i) /\ f[2] = Plain(32) /\ f[3] = Plain(124) /\ f[4] = Plain(32)
      /\ f[5] = Text(n) /\ f[6] = Plain(32) /\ f[7] = Plain(124) /\ f[8] = Plain(32)
      /\ f[9] = Text(t) /\ Len(f) = 9 /\ DOMAIN f = 1 .. 9
  BY DEF RowItems
<1>3. f \in Seq(SoundItems)
  <2>1. /\ Number(i) \in SoundItems /\ Plain(32) \in SoundItems /\ Plain(124) \in SoundItems
        /\ Text(n) \in SoundItems /\ Text(t) \in SoundItems
    BY <1>1, NumberItem, PlainItem, TextItem
  <2> QED
    BY <2>1 DEF RowItems
<1>4. ~\E k \in DOMAIN f : Bad(f[k])
  <2>1. /\ ~Bad(Number(i)) /\ ~Bad(Plain(32)) /\ ~Bad(Plain(124))
        /\ ~Bad(Text(n)) /\ ~Bad(Text(t))
    BY <1>1, NumberItem, PlainItem, TextItem
  <2> HIDE DEF f
  <2> QED
    BY <1>2, <2>1
<1> HIDE DEF f
<1>5. \A k \in 1 .. Len(f) - 1 : f[k].type # "null"
  BY <1>2, <1>4 DEF Bad
<1>6. Call(f).out = TextOf(Reached(f))
  BY <1>3, <1>5, PrintfPrints
<1>7. PICK s \in [0 .. Len(f) -> Seq(Byte)], a \in [0 .. Len(f) -> Seq(X)],
           r \in [0 .. Len(f) -> Seq(Nat)] : Rows(f, s, a, r)
  BY <1>3, RowsExist
<1>8. Call(f) = printf(s[0], a[0])
  BY <1>7 DEF Rows, Call
<1> DEFINE step(j, k) == /\ s[j] = Spelling(f[k]) \o s[k]
                         /\ a[j] = Passed(f[k]) \o a[k]
                         /\ r[k] = r[j] \o Meaning(f[k])
<1>9. /\ step(0, 1) /\ step(1, 2) /\ step(2, 3) /\ step(3, 4) /\ step(4, 5) /\ step(5, 6)
      /\ step(6, 7) /\ step(7, 8) /\ step(8, 9)
  <2>1. \A k \in 1 .. 9 : step(k - 1, k)
    BY <1>2, <1>7 DEF Rows
  <2> HIDE DEF step
  <2> QED
    BY <2>1
<1>10. s[9] = <<>> /\ a[9] = <<>> /\ r[0] = <<>>
  BY <1>2, <1>7 DEF Rows
<1>11. /\ Spelling(Number(i)) = <<37, 100>> /\ Spelling(Plain(32)) = <<32>>
       /\ Spelling(Plain(124)) = <<124>>
       /\ Spelling(Text(n)) = <<37, 115>> /\ Spelling(Text(t)) = <<37, 115>>
  BY <1>1, NumberItem, PlainItem, TextItem
<1>12. s[0] = RowFormat
  <2> DEFINE y == RowFormat
             S == Nat
  <2>1. Len(y) = 12 /\ y \in Seq(S)
    BY DEF RowFormat, Letter, Percent
  <2>2. EndsAt(s[9], y, S, 12)
    BY <1>10, <2>1 DEF Ending, EndsAt
  <2>3. /\ Spelling(f[1]) = Two(y[1], y[2]) /\ Spelling(f[2]) = One(y[3])
        /\ Spelling(f[3]) = One(y[4]) /\ Spelling(f[4]) = One(y[5])
        /\ Spelling(f[5]) = Two(y[6], y[7]) /\ Spelling(f[6]) = One(y[8])
        /\ Spelling(f[7]) = One(y[9]) /\ Spelling(f[8]) = One(y[10])
        /\ Spelling(f[9]) = Two(y[11], y[12])
    BY <1>2, <1>11 DEF RowFormat, Letter, Percent, One, Two
  <2> HIDE DEF y, S
  <2>4. /\ 12 \in 2 .. Len(y) /\ 10 \in 1 .. Len(y) /\ 9 \in 1 .. Len(y) /\ 8 \in 1 .. Len(y)
        /\ 7 \in 2 .. Len(y) /\ 5 \in 1 .. Len(y) /\ 4 \in 1 .. Len(y) /\ 3 \in 1 .. Len(y)
        /\ 2 \in 2 .. Len(y)
    BY <2>1
  <2>5. EndsAt(s[8], y, S, 10)
    <3>1. s[8] = Two(y[11], y[12]) \o s[9]
      BY <1>9, <2>3
    <3>2. EndsAt(Two(y[12 - 1], y[12]) \o s[9], y, S, 12 - 2)
      BY <2>1, <2>4, <2>2, EndingTwo
    <3> QED
      BY <3>1, <3>2
  <2>6. EndsAt(s[7], y, S, 9)
    <3>1. s[7] = One(y[10]) \o s[8]
      BY <1>9, <2>3
    <3>2. EndsAt(One(y[10]) \o s[8], y, S, 10 - 1)
      BY <2>1, <2>4, <2>5, EndingOne
    <3> QED
      BY <3>1, <3>2
  <2>7. EndsAt(s[6], y, S, 8)
    <3>1. s[6] = One(y[9]) \o s[7]
      BY <1>9, <2>3
    <3>2. EndsAt(One(y[9]) \o s[7], y, S, 9 - 1)
      BY <2>1, <2>4, <2>6, EndingOne
    <3> QED
      BY <3>1, <3>2
  <2>8. EndsAt(s[5], y, S, 7)
    <3>1. s[5] = One(y[8]) \o s[6]
      BY <1>9, <2>3
    <3>2. EndsAt(One(y[8]) \o s[6], y, S, 8 - 1)
      BY <2>1, <2>4, <2>7, EndingOne
    <3> QED
      BY <3>1, <3>2
  <2>9. EndsAt(s[4], y, S, 5)
    <3>1. s[4] = Two(y[6], y[7]) \o s[5]
      BY <1>9, <2>3
    <3>2. EndsAt(Two(y[7 - 1], y[7]) \o s[5], y, S, 7 - 2)
      BY <2>1, <2>4, <2>8, EndingTwo
    <3> QED
      BY <3>1, <3>2
  <2>10. EndsAt(s[3], y, S, 4)
    <3>1. s[3] = One(y[5]) \o s[4]
      BY <1>9, <2>3
    <3>2. EndsAt(One(y[5]) \o s[4], y, S, 5 - 1)
      BY <2>1, <2>4, <2>9, EndingOne
    <3> QED
      BY <3>1, <3>2
  <2>11. EndsAt(s[2], y, S, 3)
    <3>1. s[2] = One(y[4]) \o s[3]
      BY <1>9, <2>3
    <3>2. EndsAt(One(y[4]) \o s[3], y, S, 4 - 1)
      BY <2>1, <2>4, <2>10, EndingOne
    <3> QED
      BY <3>1, <3>2
  <2>12. EndsAt(s[1], y, S, 2)
    <3>1. s[1] = One(y[3]) \o s[2]
      BY <1>9, <2>3
    <3>2. EndsAt(One(y[3]) \o s[2], y, S, 3 - 1)
      BY <2>1, <2>4, <2>11, EndingOne
    <3> QED
      BY <3>1, <3>2
  <2>13. EndsAt(s[0], y, S, 0)
    <3>1. s[0] = Two(y[1], y[2]) \o s[1]
      BY <1>9, <2>3
    <3>2. EndsAt(Two(y[2 - 1], y[2]) \o s[1], y, S, 2 - 2)
      BY <2>1, <2>4, <2>12, EndingTwo
    <3> QED
      BY <3>1, <3>2
  <2> QED
    BY <2>1, <2>13, EndingAll DEF y, EndsAt
<1>13. /\ Passed(Number(i)) = <<i>> /\ Passed(Plain(32)) = <<>> /\ Passed(Plain(124)) = <<>>
       /\ Passed(Text(n)) = <<n>> /\ Passed(Text(t)) = <<t>>
  BY <1>1, NumberItem, PlainItem, TextItem
<1>14. a[0] = <<i, n, t>>
  <2> DEFINE y == <<i, n, t>>
  <2>1. i \in X /\ n \in X /\ t \in X
    <3>1. f[1].value = i /\ f[5].value = n /\ f[9].value = t
      <4>1. Number(i).value = i /\ Text(n).value = n /\ Text(t).value = t
        BY DEF Number, Text
      <4> QED
        BY <1>2, <4>1
    <3>2. 1 \in DOMAIN f /\ 5 \in DOMAIN f /\ 9 \in DOMAIN f
      BY <1>2
    <3>3. f[1].value \in X /\ f[5].value \in X /\ f[9].value \in X
      BY <3>2
    <3> HIDE DEF X
    <3> QED
      BY <3>1, <3>3
  <2> HIDE DEF X
  <2>2. y \in Seq(X) /\ Len(y) = 3
    BY <2>1
  <2> DEFINE none == <<>>
  <2>3. /\ Passed(f[1]) = One(y[1]) /\ Passed(f[2]) = none /\ Passed(f[3]) = none
        /\ Passed(f[4]) = none /\ Passed(f[5]) = One(y[2]) /\ Passed(f[6]) = none
        /\ Passed(f[7]) = none /\ Passed(f[8]) = none /\ Passed(f[9]) = One(y[3])
    BY <1>2, <1>13 DEF One
  <2> HIDE DEF y
  <2>4. EndsAt(a[9], y, X, 3)
    BY <1>10, <2>2 DEF Ending, EndsAt
  <2>5. 3 \in 1 .. Len(y) /\ 2 \in 1 .. Len(y) /\ 1 \in 1 .. Len(y)
    BY <2>2
  <2>6. \A x \in Seq(X) : none \o x = x
    OBVIOUS
  <2> HIDE DEF none
  <2>7. EndsAt(a[8], y, X, 2)
    <3>1. a[8] = One(y[3]) \o a[9]
      BY <1>9, <2>3
    <3>2. EndsAt(One(y[3]) \o a[9], y, X, 3 - 1)
      BY <2>2, <2>4, <2>5, EndingOne
    <3> QED
      BY <3>1, <3>2
  <2>8. a[5] = a[8]
    <3>1. a[7] = none \o a[8] /\ a[6] = none \o a[7] /\ a[5] = none \o a[6]
      BY <1>9, <2>3
    <3> QED
      BY <2>6, <2>7, <3>1 DEF EndsAt
  <2>9. EndsAt(a[4], y, X, 1)
    <3>1. a[4] = One(y[2]) \o a[8]
      BY <1>9, <2>3, <2>8
    <3>2. EndsAt(One(y[2]) \o a[8], y, X, 2 - 1)
      BY <2>2, <2>7, <2>5, EndingOne
    <3> QED
      BY <3>1, <3>2
  <2>10. a[1] = a[4]
    <3>1. a[3] = none \o a[4] /\ a[2] = none \o a[3] /\ a[1] = none \o a[2]
      BY <1>9, <2>3
    <3> QED
      BY <2>6, <2>9, <3>1 DEF EndsAt
  <2>11. EndsAt(a[0], y, X, 0)
    <3>1. a[0] = One(y[1]) \o a[4]
      BY <1>9, <2>3, <2>10
    <3>2. EndsAt(One(y[1]) \o a[4], y, X, 1 - 1)
      BY <2>2, <2>9, <2>5, EndingOne
    <3> QED
      BY <3>1, <3>2
  <2> QED
    BY <2>2, <2>11, EndingAll DEF y, EndsAt
<1>15. /\ Meaning(Number(i)) = d /\ Meaning(Plain(32)) = <<32>> /\ Meaning(Plain(124)) = <<124>>
       /\ Meaning(Text(n)) = n /\ Meaning(Text(t)) = t
  BY <1>1, NumberItem, PlainItem, TextItem
<1>16. r[9] = d \o <<32, 124, 32>> \o n \o <<32, 124, 32>> \o t
  <2>1. d \in Seq(Nat)
    BY NumeralType DEF Radix
  <2>2. n \in Seq(Nat)
    BY ByteFacts, WiderRows
  <2> DEFINE none == <<>>
             blank == <<32>>
             bar == <<124>>
             gap == <<32, 124, 32>>
  <2>3. /\ Meaning(f[1]) = d /\ Meaning(f[2]) = blank /\ Meaning(f[3]) = bar
        /\ Meaning(f[4]) = blank /\ Meaning(f[5]) = n /\ Meaning(f[6]) = blank
        /\ Meaning(f[7]) = bar /\ Meaning(f[8]) = blank /\ Meaning(f[9]) = t
    BY <1>2, <1>15
  <2>4. r[0] = none
    BY <1>10
  <2>5. none \o d = d
    <3> HIDE DEF d
    <3> QED
      BY <2>1
  <2>6. \A x \in Seq(Nat) : ((x \o blank) \o bar) \o blank = x \o gap /\ x \o gap \in Seq(Nat)
    BY JoinThree
  <2> HIDE DEF d, none, blank, bar, gap
  <2>7. r[1] = d
    BY <1>9, <2>3, <2>4, <2>5
  <2>8. r[4] = ((d \o blank) \o bar) \o blank
    BY <1>9, <2>3, <2>7, ZenonT(40)
  <2>9. r[4] = d \o gap /\ d \o gap \in Seq(Nat)
    BY <2>1, <2>6, <2>8
  <2> DEFINE u == (d \o gap) \o n
  <2>10. u \in Seq(Nat)
    BY <2>2, <2>9
  <2>11. r[5] = u
    BY <1>9, <2>3, <2>9
  <2> HIDE DEF u
  <2>12. r[8] = ((u \o blank) \o bar) \o blank
    BY <1>9, <2>3, <2>11, ZenonT(40)
  <2>13. r[8] = u \o gap
    BY <2>6, <2>10, <2>12
  <2>14. r[9] = (u \o gap) \o t
    BY <1>9, <2>3, <2>13
  <2> QED
    BY <2>14 DEF u, gap
<1>17. TextOf(Reached(f)) = r[9]
  <2>1. TextOf(SubSeq(f, 1, 9)) = r[9]
    <3>1. \A m \in 0 .. Len(f) : TextOf(SubSeq(f, 1, m)) = r[m]
      BY ONLY <1>7, Zenon DEF Rows
    <3>2. 9 \in 0 .. Len(f)
      BY <1>2
    <3> QED
      BY ONLY <3>1, <3>2, Zenon
  <2>2. {k \in DOMAIN f : Bad(f[k])} \cup {Len(f)} = {9}
    BY <1>2, <1>4
  <2> DEFINE W == {9}
  <2>3. W \in SUBSET Nat /\ 9 \in W /\ \A z \in W : 9 <= z
    OBVIOUS
  <2> HIDE DEF W
  <2>4. Min(W) = 9
    BY <2>3, MinIs
  <2>5. Reached(f) = SubSeq(f, 1, 9)
    BY <2>2, <2>4 DEF Reached, W
  <2> QED
    BY <2>1, <2>5
<1> QED
  BY <1>6, <1>8, <1>12, <1>14, <1>16, <1>17 DEF Printed, Line

\* Cutting and padding a name is what the column is.
LEMMA ColumnPadded ==
  ASSUME NEW s \in Seq(Byte), NEW n \in Nat
  PROVE  Padded(Cut(s, n), n) = Column(s, n)
<1> DEFINE l == Len(s)
<1>1. l \in Nat
  OBVIOUS
<1>2. CASE l < n
  <2>1. Cut(s, n) = s
    <3>1. l <= n
      <4> HIDE DEF l
      <4> QED
        BY <1>1, <1>2
    <3> QED
      BY <3>1 DEF Cut
  <2>2. ~(l >= n) /\ n - l - 1 = n - 1 - l
    <3> HIDE DEF l
    <3> QED
      BY <1>1, <1>2
  <2>3. [i \in 1 .. n - l - 1 |-> Blank] = [i \in 1 .. n - 1 - l |-> Blank]
    BY <2>2
  <2>4. Padded(s, n) = s \o [i \in 1 .. n - l - 1 |-> Blank]
    BY <2>2 DEF Padded
  <2>5. Column(s, n) = s \o [i \in 1 .. n - 1 - l |-> Blank]
    BY <2>2 DEF Column
  <2> QED
    BY <2>1, <2>3, <2>4, <2>5
<1>3. CASE l = n
  <2> DEFINE c == SubSeq(s, 1, n)
  <2>1. c = [k \in 1 .. n |-> s[k]]
    BY <1>3
  <2>2. s = [k \in 1 .. l |-> s[k]]
    OBVIOUS
  <2>3. Column(s, n) = c
    BY <1>3 DEF Column
  <2>4. Cut(s, n) = s
    BY <1>3 DEF Cut
  <2>5. Padded(s, n) = s
    BY <1>3 DEF Padded
  <2> HIDE DEF c, l
  <2> QED
    BY <1>3, <2>1, <2>2, <2>3, <2>4, <2>5
<1>4. CASE l > n
  <2> DEFINE c == SubSeq(s, 1, n)
  <2>1. Len(c) = n
    BY <1>4
  <2>2. Column(s, n) = c
    BY <1>4 DEF Column
  <2>3. Cut(s, n) = c
    BY <1>4 DEF Cut
  <2> HIDE DEF c
  <2>4. Padded(c, n) = c
    BY <2>1 DEF Padded
  <2> QED
    BY <2>2, <2>3, <2>4
<1> QED
  <2> HIDE DEF l
  <2> QED
    BY <1>1, <1>2, <1>3, <1>4

\* So is padding a string that is not longer than it.
LEMMA ColumnWhole ==
  ASSUME NEW s \in Seq(Byte), NEW n \in Nat, Len(s) <= n
  PROVE  Padded(s, n) = Column(s, n)
<1>1. Cut(s, n) = s
  BY DEF Cut
<1> QED
  BY <1>1, ColumnPadded

\* The line of a slot in use.
LEMMA RowShows ==
  ASSUME NamesInv, NEW i \in Slot, state[i] # "UNUSED"
  PROVE  Row(i) = Numeral(i, 10) \o <<32, 124, 32>> \o Column(given[i], ProcessNameSize)
                    \o <<32, 124, 32>> \o Column(StateNames[state[i]], StateColumn)
<1> DEFINE S == StructSize
           B == PrintBufferSize
           P == ProcessNameSize
           C == StateColumn
           st == struct[i]
           g == given[i]
           c == Cut(g, P)
           t == StateNames[state[i]]
           n == Column(g, P)
           u == Column(t, C)
           padded == RowMemory(st, t, S, B, P, C)
           first == StringFrom(padded, S + 1)
           second == StringFrom(padded, S + 1 + B)
<1>1. /\ S \in Nat /\ B \in Nat /\ P \in Nat /\ C \in Nat /\ P < B /\ C <= B
  BY SizeFacts
<1>2. g \in Seq(Byte) /\ st \in [1 .. S -> Nat] /\ Holds(st, S, 1, c)
  BY DEF NamesInv
<1>3. t \in Seq(Byte) /\ Len(t) <= C /\ Len(t) < B
  <2>1. state[i] = "RUNNABLE"
    BY DEF NamesInv, States
  <2>2. "RUNNABLE" \in DOMAIN StateNames
    BY NamesAssumption
  <2> QED
    BY <2>1, <2>2, NamesAssumption DEF Byte
<1>4. c \in Seq(Byte) /\ Len(c) <= P
  <2>1. c \in Seq(Byte) /\ Len(c) = IF Len(g) <= P THEN Len(g) ELSE P
    BY <1>1, <1>2, CutFacts
  <2> DEFINE l == Len(g)
             m == Len(c)
  <2>2. l \in Nat /\ m = IF l <= P THEN l ELSE P
    BY <1>2, <2>1
  <2> HIDE DEF l, m
  <2>3. m <= P
    BY <1>1, <2>2
  <2> QED
    BY <2>1, <2>3 DEF m
<1>5. i \in Nat /\ i < 2 ^ PRINTF_BUFFER_SIZE
  <2> DEFINE e == 2 ^ PRINTF_BUFFER_SIZE
  <2>1. e \in Nat
    BY Powers, WidthAssumption
  <2>2. MaxProcesses <= e
    BY PidAssumption
  <2> HIDE DEF e
  <2>3. i \in Nat /\ i < e
    BY <2>1, <2>2, MaxProcessesAssumption DEF Slot
  <2> QED
    BY <2>3 DEF e
<1>6. Row(i) = printf(RowFormat, <<i, first, second>>).out
  BY DEF Row, RowMemory
<1>7. Padded(c, P) = n /\ Padded(t, C) = u
  BY <1>1, <1>2, <1>3, ColumnPadded, ColumnWhole
<1>8. Padded(c, P) \in Seq(Byte) /\ Padded(t, C) \in Seq(Byte)
  BY <1>1, <1>3, <1>4, PaddedFacts
<1> HIDE DEF S, B, P, C, st, c, t, g
<1>9. first = Padded(c, P) /\ second = Padded(t, C)
  <2>1. /\ StringFrom(RowMemory(st, t, S, B, P, C), S + 1) = Padded(c, P)
        /\ StringFrom(RowMemory(st, t, S, B, P, C), S + 1 + B) = Padded(t, C)
    <3>1. Fit(st, c, t, S, B, P, C)
      BY <1>1, <1>2, <1>3, <1>4 DEF Fit
    <3> HIDE DEF padded, first, second, n, u
    <3> QED
      BY <3>1, RowBuffers
  <2> QED
    BY <2>1
<1> HIDE DEF first, second, n, u
<1>10. n \in Seq(Byte) /\ u \in Seq(Byte)
  BY <1>7, <1>8
<1>11. Row(i) = Printed(i, n, u)
  BY <1>6, <1>7, <1>9 DEF Printed
<1>12. Printed(i, n, u) = Line(i, n, u)
  BY <1>5, <1>10, RowPrinted
<1> QED
  BY <1>11, <1>12 DEF Line, n, u, g, P, t, C

\* In every reachable state the listing shows, for each process in use, its
\* index, the start of the name it was given, and its state.
THEOREM ProcessListingShowsNames == ProcessSpec => []ListingShowsNames
<1>1. NamesInv => ListingShowsNames
  <2> SUFFICES ASSUME NamesInv PROVE ListingShowsNames
    OBVIOUS
  <2>1. \A i \in {j \in Slot : state[j] # "UNUSED"} :
          Row(i) = Numeral(i, 10) \o <<32, 124, 32>> \o Column(given[i], ProcessNameSize)
                     \o <<32, 124, 32>> \o Column(StateNames[state[i]], StateColumn)
    BY RowShows
  <2> QED
    BY <2>1, Zenon DEF ListingShowsNames, process_printlist
<1> QED
  BY <1>1, InitNamesInv, NextNamesInv, PTL DEF ProcessSpec
=============================================================================
