------------------------------ MODULE FlatDisk ------------------------------
(***************************************************************************)
(* What a disk promises: a row of bytes, written and read by address, and  *)
(* an error for every access that is not inside it.  It may fail for good  *)
(* (the kernel panics).                                                    *)
(***************************************************************************)
EXTENDS Integers, Sequences, FiniteSets

CONSTANT Byte

VARIABLES disk,     \* the bytes by address; an empty function: no disk
          answer,   \* the last access: see Answer
          down      \* the kernel has panicked

vars == <<disk, answer, down>>

Size == Cardinality(DOMAIN disk)

Init == /\ disk = <<>> /\ down = FALSE
        /\ answer = [call |-> "none"]

\* A new disk, with whatever bytes it had.
Create == /\ ~down /\ DOMAIN disk = {}
          /\ DOMAIN disk' # {}
          /\ \A a \in DOMAIN disk' : a \in Nat /\ disk'[a] \in Byte
          /\ \A a \in DOMAIN disk' : \A b \in 0 .. a : b \in DOMAIN disk'
          /\ UNCHANGED <<answer, down>>

Destroy == /\ ~down /\ DOMAIN disk # {}
           /\ DOMAIN disk' = {}
           /\ UNCHANGED <<answer, down>>

Inside(start, n) == start + n <= Size

\* The last access: where it ends, whether it was accepted, and then the bytes
\* it moved; so which access it was can be told from the answer.
Answer(call, start, n, ok, data) ==
  [call |-> call, end |-> start + n, ok |-> ok,
   data |-> IF ok THEN data ELSE <<>>]

Write(start, data) ==
  /\ ~down /\ DOMAIN disk # {}
  /\ answer' = Answer("write", start, Len(data), Inside(start, Len(data)), data)
  /\ IF Inside(start, Len(data))
     THEN disk' = [a \in DOMAIN disk |->
                     IF a - start + 1 \in DOMAIN data
                     THEN data[a - start + 1] ELSE disk[a]]
     ELSE UNCHANGED disk
  /\ UNCHANGED down

Read(start, n) ==
  /\ ~down /\ DOMAIN disk # {}
  /\ answer' = Answer("read", start, n, Inside(start, n),
                      [i \in 1 .. n |-> disk[start + i - 1]])
  /\ UNCHANGED <<disk, down>>

Fail == ~down /\ down' = TRUE /\ DOMAIN disk' = {} /\ UNCHANGED answer

CONSTANTS Start, Data, Length   \* the accesses callers make

Next == \/ Create \/ Destroy \/ Fail
        \/ \E start \in Start, data \in Data : Write(start, data)
        \/ \E start \in Start, n \in Length : Read(start, n)

Spec == Init /\ [][Next]_vars
=============================================================================
