------------------------------ MODULE PmemIrq ------------------------------
(***************************************************************************)
(* Pmem, and pmem_alloc as it runs during boot, once                       *)
(* pic_set_interrupt_masks has executed sti: the boot code can be          *)
(* interrupted between any two of its memory accesses, and the keyboard    *)
(* and timer handlers (which run to completion, through interrupt gates)   *)
(* allocate pages themselves: the input buffer on the first key, process   *)
(* images and heap pages through shell commands.  Handlers never free a    *)
(* page.                                                                   *)
(*                                                                         *)
(* The steps begin on what pmem_initialize leaves, with variables of their *)
(* own.  A page is named by its record: PmemProofs shows the two           *)
(* correspond.                                                             *)
(***************************************************************************)
EXTENDS Pmem, FiniteSets, FiniteSetsExt

CONSTANTS MaxRecords,  \* bound: records of the maps taken step by step
          MaxIrqPages  \* bound: pages the handlers take during boot

ASSUME MaxRecordsAssumption == MaxRecords \in Nat
ASSUME MaxIrqPagesAssumption == MaxIrqPages \in Nat

RecordNumber == 0 .. size - 1

VARIABLES
  pos,        \* pmem_curr_alloc_record
  marks,      \* the record bytes
  pc,         \* where the boot code is inside pmem_alloc; "calls" in Pmem
  start,      \* its local start_record
  tmp,        \* the register of ++pmem_curr_alloc_record
  mine,       \* its local record_ptr, as a record number
  boot_held,  \* history: how often the boot code was lent each page
  irq_held,   \* history: how often handlers were lent each page
  stuck       \* "no"; "oom", "freed": panics; "spin": an endless search

locals == <<start, tmp, mine>>
held == <<boot_held, irq_held>>
steps == <<pos, marks, pc, locals, held, stuck>>
allvars == <<vars, steps>>

IrqInit ==
  /\ Init
  /\ pos = 0 /\ marks = <<>>
  /\ pc = "calls"
  /\ start = 0 /\ tmp = 0 /\ mine = 0
  /\ boot_held = <<>> /\ irq_held = <<>>
  /\ stuck = "no"

OneCall == pc = "calls" /\ Next /\ UNCHANGED steps

\* Right after pmem_initialize.
Begin ==
  /\ pc = "calls" /\ Running /\ initialized /\ size <= MaxRecords
  /\ curr = 0 /\ \A r \in RecordNumber : record[r] = 0
  /\ pos' = curr /\ marks' = record
  /\ pc' = "idle"
  /\ boot_held' = [r \in RecordNumber |-> 0]
  /\ irq_held' = [r \in RecordNumber |-> 0]
  /\ UNCHANGED <<vars, locals, stuck>>

\* The pages in a history, one member for each time a page is out.
Lendings(history) ==
  UNION {{<<p, n>> : n \in 1 .. history[p]} : p \in DOMAIN history}

Boot(from) == stuck = "no" /\ pc = from
-----------------------------------------------------------------------------
(* pmem_alloc in the boot code, one shared access at a time. *)

\* uint32_t start_record = pmem_curr_alloc_record
ReadStart ==
  /\ Boot("idle")
  /\ start' = pos
  /\ pc' = "load"
  /\ UNCHANGED <<pos, marks, tmp, mine, held, stuck>>

\* ++pmem_curr_alloc_record: a load, and a store of the loaded value plus 1
LoadCurr ==
  /\ Boot("load")
  /\ tmp' = pos
  /\ pc' = "store"
  /\ UNCHANGED <<pos, marks, start, mine, held, stuck>>

StoreCurr ==
  /\ Boot("store")
  /\ pos' = tmp + 1
  /\ pc' = "wrap"
  /\ UNCHANGED <<marks, locals, held, stuck>>

\* if(pmem_curr_alloc_record >= pmem_mgr_reserved_size) ... = 0: the test and
\* the store.
WrapTest ==
  /\ Boot("wrap")
  /\ pc' = IF pos >= size THEN "zero" ELSE "test"
  /\ UNCHANGED <<pos, marks, locals, held, stuck>>

WrapStore ==
  /\ Boot("zero")
  /\ pos' = 0
  /\ pc' = "test"
  /\ UNCHANGED <<marks, locals, held, stuck>>

\* while(start_record != pmem_curr_alloc_record), else panic
LoopTest ==
  /\ Boot("test")
  /\ IF start # pos THEN pc' = "look" /\ UNCHANGED stuck
                     ELSE stuck' = "oom" /\ UNCHANGED pc
  /\ UNCHANGED <<pos, marks, locals, held>>

\* record_ptr = start of records + pmem_curr_alloc_record
TakeRecordPtr ==
  /\ Boot("look")
  /\ mine' = pos
  /\ pc' = "examine"
  /\ UNCHANGED <<pos, marks, start, tmp, held, stuck>>

\* Examine with a bug: the record is not looked at.
Examine_Unchecked ==
  /\ Boot("examine")
  /\ pc' = "mark"
  /\ UNCHANGED <<pos, marks, locals, held, stuck>>

\* if(*record_ptr == 0x00), else on to the next record
Examine ==
  /\ Boot("examine")
  /\ pc' = IF marks[mine] = 0 THEN "mark" ELSE "load"
  /\ UNCHANGED <<pos, marks, locals, held, stuck>>

\* Mark with a bug: the record stays free.
Mark_Forgotten ==
  /\ Boot("mark")
  /\ pc' = "return"
  /\ UNCHANGED <<pos, marks, locals, held, stuck>>

\* *record_ptr = 0x1
Mark ==
  /\ Boot("mark")
  /\ marks' = [marks EXCEPT ![mine] = 1]
  /\ pc' = "return"
  /\ UNCHANGED <<pos, locals, held, stuck>>

\* return pmem_entry_to_ptr(pmem_curr_alloc_record), a fresh read of it
ReturnPage ==
  /\ Boot("return")
  /\ boot_held' = [boot_held EXCEPT ![pos] = @ + 1]
  /\ pc' = "idle"
  /\ UNCHANGED <<pos, marks, locals, irq_held, stuck>>

\* pmem_free in the boot code.  Its one shared access is to the record of a
\* page the boot code holds; it panics when that record is free.
FreePage ==
  /\ Boot("idle")
  /\ \E p \in {r \in RecordNumber : boot_held[r] > 0} :
       /\ stuck' = IF marks[p] = 1 THEN "no" ELSE "freed"
       /\ marks' = [marks EXCEPT ![p] = 0]
       /\ boot_held' = [boot_held EXCEPT ![p] = @ - 1]
  /\ UNCHANGED <<pos, pc, locals, irq_held>>
-----------------------------------------------------------------------------
(* pmem_alloc in a handler: all of it in one step. *)

\* The handler's search visits pos + 1, pos + 2, ... cyclically, until it
\* is back at pos.  When it interrupts StoreCurr before WrapStore, pos is
\* size, which the search never meets again.
Searched ==
  IF pos < size THEN [k \in 1 .. size - 1 |-> (pos + k) % size]
                 ELSE [k \in 1 .. size |-> k - 1]

FreeSteps == {k \in DOMAIN Searched : marks[Searched[k]] = 0}

IrqAlloc ==
  /\ stuck = "no" /\ pc # "calls"
  /\ Cardinality(Lendings(irq_held)) < MaxIrqPages
  /\ \/ /\ FreeSteps # {}
        /\ LET p == Searched[Min(FreeSteps)]
           IN  /\ pos' = p
               /\ marks' = [marks EXCEPT ![p] = 1]
               /\ irq_held' = [irq_held EXCEPT ![p] = @ + 1]
        /\ UNCHANGED stuck
     \/ /\ FreeSteps = {}
        /\ stuck' = IF pos < size THEN "oom" ELSE "spin"
        /\ UNCHANGED <<pos, marks, irq_held>>
  /\ UNCHANGED <<pc, locals, boot_held>>

Stuck == stuck # "no" /\ UNCHANGED steps

StepNext ==
  /\ \/ ReadStart \/ LoadCurr \/ StoreCurr \/ WrapTest \/ WrapStore
     \/ LoopTest \/ TakeRecordPtr \/ Examine \/ Mark \/ ReturnPage
     \/ FreePage
     \/ IrqAlloc
     \/ Stuck
  /\ UNCHANGED vars

IrqNext == OneCall \/ Begin \/ StepNext

IrqSpec == IrqInit /\ [][IrqNext]_allvars
-----------------------------------------------------------------------------
(* Properties. *)

Marked == {r \in RecordNumber : marks[r] = 1}

\* With a single allocation by a handler (the input buffer, the only one when
\* no shell command is typed during boot) the two searches never mark the
\* same record: as many records are marked as pages were lent.  And wherever
\* the handler moves pmem_curr_alloc_record, the interrupted search looks only
\* at records that exist.
NoOvercommit ==
  /\ pc # "calls" =>
       Cardinality(Lendings(boot_held)) + Cardinality(Lendings(irq_held))
         = Cardinality(Marked) - (IF pc = "return" THEN 1 ELSE 0)
  /\ pc \in {"look", "return"} => pos \in RecordNumber

\* A handler inside pmem_alloc can make it return the handler's page, but the
\* boot code never gets the same page twice: not while it holds it, and not
\* because of records the interrupted search left behind.
BootPagesDistinct == \A p \in DOMAIN boot_held : boot_held[p] <= 1
=============================================================================
