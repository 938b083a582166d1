----------------------------- MODULE FileStore -----------------------------
(***************************************************************************)
(* What the file system gives the kernel and the shell: files by name,     *)
(* written once, read back as they were written.  It may refuse a file for *)
(* lack of space, and it may fail for good (the kernel panics).  Two       *)
(* promises are weaker than a caller would like: of a file of more than    *)
(* Whole bytes it keeps some Whole bytes of its data, and it may lose a    *)
(* file in silence when it holds MaxFiles files.                           *)
(***************************************************************************)
EXTENDS Naturals, FiniteSets, Sequences, SequencesExt

CONSTANTS Name, Contents,   \* what callers name their files and write into them
          Whole, MaxFiles

VARIABLES files,    \* the contents of each file that exists
          answer,   \* what the last call returned
          down      \* the kernel has panicked

vars == <<files, answer, down>>

Empty == [n \in {} |-> <<>>]

Init == files = Empty /\ answer = [call |-> "none"] /\ down = FALSE

Clear == /\ ~down
         /\ files' = Empty /\ answer' = [call |-> "none"]
         /\ UNCHANGED down

Answers(call, n, ok) ==
  answer'.call = call /\ answer'.name = n /\ answer'.ok = ok

\* What may be left of a text.
Kept(text) ==
  IF Len(text) <= Whole THEN {text} ELSE [1 .. Whole -> ToSet(text)]

Write(n, text) ==
  /\ ~down
  /\ \/ /\ n \notin DOMAIN files /\ Cardinality(DOMAIN files) < MaxFiles
        /\ \E kept \in Kept(text) :
             files' = [m \in DOMAIN files \cup {n} |->
                         IF m = n THEN kept ELSE files[m]]
        /\ Answers("write", n, TRUE)
     \/ /\ n \notin DOMAIN files /\ Cardinality(DOMAIN files) = MaxFiles
        /\ Answers("write", n, TRUE) /\ UNCHANGED files
     \/ Answers("write", n, FALSE) /\ UNCHANGED files
  /\ UNCHANGED down

Exists(n) ==
  /\ ~down
  /\ Answers("exists", n, n \in DOMAIN files)
  /\ UNCHANGED <<files, down>>

\* The caller's buffer starts with the file.
Read(n) ==
  /\ ~down
  /\ \/ /\ n \in DOMAIN files
        /\ Answers("read", n, TRUE)
        /\ IsPrefix(files[n], answer'.buffer)
     \/ n \notin DOMAIN files /\ Answers("read", n, FALSE)
  /\ UNCHANGED <<files, down>>

\* Only the start of a file can be read.
ReadRest(n) ==
  /\ ~down
  /\ Answers("read_rest", n, FALSE)
  /\ UNCHANGED <<files, down>>

Fail == ~down /\ down' = TRUE /\ UNCHANGED <<files, answer>>

Next == \/ Clear \/ Fail
        \/ \E n \in Name : Exists(n) \/ Read(n) \/ ReadRest(n)
        \/ \E n \in Name, text \in Contents : Write(n, text)

Spec == Init /\ [][Next]_vars
=============================================================================
