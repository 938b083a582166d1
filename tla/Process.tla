------------------------------- MODULE Process -------------------------------
(***************************************************************************)
(* The process table, kernel/drivers/process/process.c, together with the  *)
(* scheduler it feeds.  process_execve runs inside the shell, hence inside *)
(* an interrupt handler; process_init and sched_init are one step of the   *)
(* boot code each, between which handlers run.  The file system appears as *)
(* the answer of fs_file_exists: reading the first sector of a file that   *)
(* exists always succeeds.  Names are rows of bytes, copied into the        *)
(* structs by strcpy and printed from there by process_printlist.          *)
(***************************************************************************)
EXTENDS Sched, Printf, FiniteSets

CONSTANTS PagePool,         \* bound: the pages pmem has left for processes
          MaxKills,         \* bound: processes marked as killed at a time
          NoPage,           \* a null process_memory_start
          ProcessNameSize,  \* PROCESS_NAME_SIZE, 16, also the name's column
          StateColumn,      \* 12, the column of the state
          PrintBufferSize,  \* PRINT_BUFFER_SIZE
          ProgramNames,     \* the file names given to process_execve
          IdleName,         \* "Idle"
          StateNames        \* process_state_to_str

ASSUME PagePoolAssumption == IsFiniteSet(PagePool) /\ NoPage \notin PagePool
ASSUME MaxKillsAssumption == MaxKills \in Nat
ASSUME NamesAssumption ==
  /\ ProcessNameSize \in Nat \ {0} /\ StateColumn \in Nat \ {0}
  /\ PrintBufferSize \in Nat
  /\ PrintBufferSize > ProcessNameSize + 1 /\ PrintBufferSize >= StateColumn
  /\ ProgramNames \subseteq Seq(1 .. 255) /\ IdleName \in Seq(1 .. 255)
  /\ "RUNNABLE" \in DOMAIN StateNames
  /\ \A t \in DOMAIN StateNames :
       /\ StateNames[t] \in Seq(1 .. 255)
       /\ Len(StateNames[t]) <= StateColumn
       /\ Len(StateNames[t]) < PrintBufferSize
ASSUME PidAssumption == MaxProcesses <= 2 ^ PRINTF_BUFFER_SIZE  \* pids are ints

Slot == 0 .. MaxProcesses - 1    \* indices of processes[]
States == {"UNUSED", "RUNNABLE"}

VARIABLES
  state,       \* processes[i].state
  struct,      \* processes[i].name and the low bytes of pid behind it
  memory,      \* processes[i].process_memory_start
  killed,      \* processes[i].killed
  given,       \* history: the name each process was started with
  lent,        \* history: pages pmem lent to processes
  early,       \* history: a program was started before sched_init ran
  table_ready  \* process_init has run

names == <<struct, given>>
table == <<state, names, memory, killed, lent, early>>
allvars == <<vars, table, table_ready, message>>

\* The bytes of name[] and of pid: the table is too short for more than the
\* lowest byte of pid to be other than zero.
StructSize == ProcessNameSize + 2
Zeros(n) == [i \in 1 .. n |-> 0]

ProcessInit ==
  /\ Init
  /\ state = [i \in Slot |-> "UNUSED"]
  /\ struct = [i \in Slot |-> Zeros(StructSize)]
  /\ given = [i \in Slot |-> <<>>]
  /\ memory = [i \in Slot |-> NoPage]
  /\ killed = [i \in Slot |-> 0]
  /\ lent = {}
  /\ early = FALSE
  /\ table_ready = FALSE
  /\ message = NoMessage
-----------------------------------------------------------------------------
FreePage(p) == p \in PagePool \ lent

\* pmem_alloc out of pages (it may give up with one page still free).
NoMemory == Cardinality(PagePool \ lent) <= 1

\* The struct once strcpy has copied a name, which the caller keeps elsewhere,
\* to its start.
Named(bytes, name) ==
  SubSeq(strcpy(bytes \o name \o <<0>>, 1, StructSize + 1, ProcessNameSize),
         1, StructSize)

\* process_init_process up to its check that the slot holds no memory.
Cleared(i, name, structs) ==
  /\ struct' = [structs EXCEPT ![i] = Named(@, name)]
  /\ given' = [given EXCEPT ![i] = name]
  /\ killed' = [killed EXCEPT ![i] = 0]

\* process_init_process: the slot gets a page,
process_init_process(i, name, structs, mem) ==
  /\ Cleared(i, name, structs)
  /\ mem[i] = NoPage
  /\ \E p \in PagePool :
       /\ FreePage(p)
       /\ memory' = [mem EXCEPT ![i] = p]
       /\ lent' = lent \cup {p}

\* or it panics: the slot's memory was never given back, or there is none.
process_init_process_panics(i, name, structs, mem) ==
  /\ Cleared(i, name, structs)
  /\ mem[i] # NoPage \/ NoMemory
  /\ panicked' = IF mem[i] # NoPage THEN "memory leak" ELSE "out of memory"
  /\ memory' = mem
  /\ UNCHANGED <<lists, tickets, current, booted, added, lent, early>>

\* process_init: the pids, every slot blanked, then the idle process.
WithPids == [i \in Slot |-> [struct[i] EXCEPT ![ProcessNameSize + 1] = i,
                                             ![ProcessNameSize + 2] = 0]]
Blanked == [i \in Slot |-> NoPage]

process_init ==
  /\ Running /\ ~table_ready
  /\ process_init_process(0, IdleName, WithPids, Blanked)
  /\ state' = [i \in Slot |-> IF i = 0 THEN "RUNNABLE" ELSE "UNUSED"]
  /\ table_ready' = TRUE
  /\ UNCHANGED <<vars, early>>

process_init_panics ==
  /\ Running /\ ~table_ready
  /\ process_init_process_panics(0, IdleName, WithPids, Blanked)
  /\ state' = [i \in Slot |-> "UNUSED"]
  /\ UNCHANGED table_ready

BootScheduler == table_ready /\ sched_init /\ UNCHANGED <<table, table_ready>>

\* process_get_next_free_pid, -1 when the table is full.
NextFreePid ==
  LET free == {i \in Pid : state[i] = "UNUSED"}
  IN  IF free = {} THEN -1 ELSE Min(free)

\* process_execve of a file that exists, with a free slot (without either it
\* returns and changes nothing).
process_execve(name) ==
  /\ Running /\ (booted \/ EarlyCommands)
  /\ NextFreePid > 0
  /\ process_init_process(NextFreePid, name, struct, memory)
  /\ state' = [state EXCEPT ![NextFreePid] = "RUNNABLE"]
  /\ sched_addpid(NextFreePid)
  /\ early' = (early \/ ~booted)
  /\ UNCHANGED table_ready

process_execve_panics(name) ==
  /\ Running /\ (booted \/ EarlyCommands)
  /\ NextFreePid > 0
  /\ process_init_process_panics(NextFreePid, name, struct, memory)
  /\ UNCHANGED <<state, table_ready>>

MayKill(i) == Cardinality({j \in Slot \ {i} : killed[j] = 1}) < MaxKills

\* process_kill with a bug: the slot is released and keeps its page.
process_kill_Releases(i) ==
  /\ Running /\ table_ready /\ MayKill(i)
  /\ killed' = [killed EXCEPT ![i] = 1]
  /\ state' = [state EXCEPT ![i] = "UNUSED"]
  /\ UNCHANGED <<vars, names, memory, lent, early, table_ready>>

\* process_kill only marks the process.
process_kill(i) ==
  /\ Running /\ table_ready /\ MayKill(i)
  /\ killed' = [killed EXCEPT ![i] = 1]
  /\ UNCHANGED <<vars, state, names, memory, lent, early, table_ready>>

Tick == sched_update /\ UNCHANGED <<table, table_ready>>

Stopped == ~Running /\ UNCHANGED <<vars, table, table_ready>>

\* The line process_printlist prints for a slot: the name and the state copied
\* to its buffers and padded there.  The time, always 0, and the address of
\* the page, behind them, are left out.
RowFormat == <<Percent, Letter.d, 32, 124, 32, Percent, Letter.s,
               32, 124, 32, Percent, Letter.s>>
Row(i) ==
  LET buf_name == StructSize + 1
      buf_state == buf_name + PrintBufferSize
      text == buf_state + PrintBufferSize
      start == struct[i] \o Zeros(2 * PrintBufferSize)
                         \o StateNames[state[i]] \o <<0>>
      copied == strcpy(strcpy(start, buf_name, 1, PrintBufferSize),
                       buf_state, text, PrintBufferSize)
      padded == rpad(rpad(copied, buf_name, Blank, ProcessNameSize),
                     buf_state, Blank, StateColumn)
  IN  printf(RowFormat, <<i, StringFrom(padded, buf_name),
                             StringFrom(padded, buf_state)>>).out

\* process_printlist: the lines of the slots in use.
process_printlist ==
  [i \in {j \in Slot : state[j] # "UNUSED"} |-> Row(i)]

TableNext ==
  \/ process_init
  \/ process_init_panics
  \/ BootScheduler
  \/ \E name \in ProgramNames : process_execve(name)
  \/ \E name \in ProgramNames : process_execve_panics(name)
  \/ \E i \in Slot : process_kill(i)
  \/ Tick
  \/ Stopped

\* Other parts of the kernel print; bound: one message, before the table is
\* used, which printf does not touch.
Message ==
  /\ ~table_ready /\ lent = {} /\ message = NoMessage
  /\ message' \in Formats
  /\ UNCHANGED <<vars, table, table_ready>>

ProcessNext ==
  \/ TableNext /\ message' = NoMessage
  \/ Message

ProcessSpec == ProcessInit /\ [][ProcessNext]_allvars
-----------------------------------------------------------------------------
(* Properties. *)

\* Once the kernel is up, the processes of the table are the entries of the
\* scheduler's queues, and the processor is given only to a process of the
\* table, unless a program was started during boot.  In any case the queues
\* hold what was started since sched_init, each process linked once.
TableMatchesScheduler ==
  booted =>
    /\ Linked
    /\ \A i \in Pid : i \in added <=> \E q \in Priority : i \in Chain(head[q])
    /\ \A i \in added : state[i] = "RUNNABLE"
    /\ ~early => /\ \A i \in Pid : state[i] = "RUNNABLE" => i \in added
                 /\ current # NULL => current \in added

\* Each process has a page of its own and a free slot has none: a slot is
\* never reused with its old memory.  No page is lost, unless process_init
\* blanked the entry of a program started during boot.
EachProcessOnePage ==
  table_ready =>
    /\ \A i \in Slot : state[i] = "UNUSED" <=> memory[i] = NoPage
    /\ \A i, j \in Slot : i # j /\ memory[i] = memory[j] => memory[i] = NoPage
    /\ ~early => lent = {memory[i] : i \in Slot} \ {NoPage}

\* The checks of sched_update fail, or its search does not end, only when a
\* program was started before sched_init; after sched_init only for a current
\* process that sched_init left behind, which is in no queue.
PanicOnlyWhenStale ==
  panicked \in SanityChecks => early /\ (booted => current \notin added)

\* Cut to n characters, or filled up to n - 1.
Column(s, n) ==
  IF Len(s) >= n THEN SubSeq(s, 1, n)
  ELSE s \o [i \in 1 .. n - 1 - Len(s) |-> Blank]

\* The listing shows every process in use by its index, the first characters
\* of the name it was started with, and its state, in columns: although a
\* name may fill its array to the last byte, so that it ends in the pid, and
\* whatever older name was in the slot before (process.c:85).
ListingShowsNames ==
  process_printlist =
    [i \in {j \in Slot : state[j] # "UNUSED"} |->
       Numeral(i, 10) \o <<32, 124, 32>> \o Column(given[i], ProcessNameSize)
         \o <<32, 124, 32>> \o Column(StateNames[state[i]], StateColumn)]
=============================================================================
