------------------------------- MODULE Shell -------------------------------
(***************************************************************************)
(* The command line of kernel/shell/shell.c: how shell_execute_command     *)
(* cuts the line into arguments and finds the command.  A line is the row  *)
(* of characters in front of the zero byte that Enter puts into            *)
(* command_buffer.                                                         *)
(***************************************************************************)
EXTENDS Naturals, Sequences, SequencesExt, FiniteSetsExt

Space == " "
Quote == "'"
Enter == "enter"
Shift == "shift"       \* any key without a character: a release, a modifier
NUL == "nul"

\* scan_to_ascii: a key stands for the scan code that the table maps to it.
scan_to_ascii(key) == IF key = Shift THEN NUL ELSE key

\* SplitStep with a bug: blanks inside quotes end an argument too.
SplitStep_NoQuotes(line, s, i) ==
  CASE line[i] = Quote -> [s EXCEPT !.quoted = ~@]
    [] line[i] = Space -> [s EXCEPT !.cuts = @ \cup {i}, !.fresh = TRUE]
    [] OTHER -> IF s.fresh THEN [s EXCEPT !.starts = Append(@, i), !.fresh = FALSE]
                           ELSE s

\* The loop body: insideDQuoteState, newStringState, the blanks overwritten
\* with zero bytes and the places c_argv points to.
SplitStep(line, s, i) ==
  CASE line[i] = Quote -> [s EXCEPT !.quoted = ~@]
    [] line[i] = Space ->
         IF s.quoted THEN s
         ELSE [s EXCEPT !.cuts = @ \cup {i}, !.fresh = TRUE]
    [] OTHER -> IF s.fresh THEN [s EXCEPT !.starts = Append(@, i), !.fresh = FALSE]
                           ELSE s

Split(line) ==
  LET after[i \in 0 .. Len(line)] ==
        IF i = 0
        THEN [quoted |-> FALSE, fresh |-> FALSE, cuts |-> {}, starts |-> <<1>>]
        ELSE SplitStep(line, after[i - 1], i)
  IN  after[Len(line)]

\* The string at place i of working_buffer: up to the next zero byte.
StringAt(line, i, cuts) ==
  SubSeq(line, i, Min({c \in cuts : c >= i} \cup {Len(line) + 1}) - 1)

\* c_argv with its c_argc strings.
Argv(line) ==
  LET s == Split(line)
  IN  [k \in DOMAIN s.starts |-> StringAt(line, s.starts[k], s.cuts)]

\* shell_cmds, each name abbreviated to a letter.  "p" stands for the commands
\* that only print: slabinfo, free, ps, exec and sched.
shell_cmds == [ls |-> <<"l">>, write |-> <<"w">>, read |-> <<"r">>,
               execbg |-> <<"x">>, print |-> <<"p">>]

\* The command argv[0] names.
CommandOf(argv) ==
  LET match == {c \in DOMAIN shell_cmds : shell_cmds[c] = argv[1]}
  IN  IF match = {} THEN "unknown" ELSE CHOOSE c \in match : TRUE
-----------------------------------------------------------------------------
(* The arguments, defined without the loop. *)

Separator(line, i) ==
  /\ line[i] = Space
  /\ Cardinality({j \in 1 .. i - 1 : line[j] = Quote}) % 2 = 0

\* The numbers of S in ascending order.
Ascending(S) ==
  [k \in 1 .. Cardinality(S) |->
     CHOOSE i \in S : Cardinality({j \in S : j < i}) = k - 1]

\* The pieces of the line between its separators.
Pieces(line) ==
  LET ends == Ascending({i \in DOMAIN line : Separator(line, i)}
                          \cup {Len(line) + 1})
  IN  [k \in DOMAIN ends |->
         SubSeq(line, (IF k = 1 THEN 0 ELSE ends[k - 1]) + 1, ends[k] - 1)]

\* The places of its letters.
LettersOf(p) == {i \in DOMAIN p : p[i] \notin {Space, Quote}}

\* The first piece is argv[0], whatever it holds.  Of the others the ones with
\* a letter are arguments, from their first letter on: an opening quote goes,
\* a closing one stays.
Arguments(line) ==
  LET pieces == Pieces(line)
      rest == Ascending({k \in DOMAIN pieces \ {1} : LettersOf(pieces[k]) # {}})
  IN  <<pieces[1]>>
        \o [k \in DOMAIN rest |->
              LET p == pieces[rest[k]]
              IN  SubSeq(p, Min(LettersOf(p)), Len(p))]
=============================================================================
