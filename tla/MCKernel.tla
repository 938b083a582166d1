------------------------------ MODULE MCKernel ------------------------------
(***************************************************************************)
(* A small machine and a user who types commands, blanks and quotes.       *)
(***************************************************************************)
EXTENDS Kernel

\* ls; write with two arguments, with too few, with too many, and on past the
\* end of the buffer; read of the file written, of one that is not there and
\* without a name; execbg with and without a name; one that prints.
MCCommands ==
  {<<"l">>, <<"p">>, <<"w", " ", "a", " ", "b", " ", "b", " ", "b">>,
   <<"r", " ", "a">>, <<"r", " ", "b">>, <<"x", " ", "a">>, <<"x", " ", "b">>}

\* Blanks in front, in a row and inside quotes; quotes around an argument,
\* inside one and left open.
MCQuoted ==
  {<<" ", " ", "b">>, <<"'", " ", "b", "'", " ", "b">>,
   <<"b", " ", "'", "b", " ", "'", "b">>}

MCLines == MCCommands \cup MCQuoted

MCStartFile == <<"b">>
=============================================================================
