------------------------------ MODULE MCFat16 ------------------------------
(***************************************************************************)
(* A disk of six clusters of 2 bytes, in two sectors of the table, with    *)
(* four entries in two sectors of the directory; names of 1 + 1 letters.   *)
(***************************************************************************)
EXTENDS Fat16Irq

\* "a.c", "ax.c", which is cut to "a.c", "b.b", "c.a" and "d": no native name
\* is above or equal to another one in every character.
MCNames == {<<97, 46, 99>>, <<97, 120, 46, 99>>, <<98, 46, 98>>,
            <<99, 46, 97>>, <<100>>}
MCHandlerNames == {<<97, 46, 99>>, <<98, 46, 98>>, <<99, 46, 97>>}
MCStart == <<97, 46, 99>>

\* Pages full of zeroes, pages without any, and two in between.
MCOldTaken == {{}, Cluster, {0, 1, 2}, {0, 3}}
=============================================================================
