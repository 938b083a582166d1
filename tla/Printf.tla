------------------------------- MODULE Printf -------------------------------
(***************************************************************************)
(* printf of kernel/libc/stdlib.c: one operator per branch of its loop, on *)
(* what is left of the format and of the arguments and what has been       *)
(* printed.  The caller's meaning is a row of items: characters, and       *)
(* conversions with their arguments; printf sees their spelling, the       *)
(* format string and the list of arguments.                                *)
(***************************************************************************)
EXTENDS Libc

CONSTANTS PRINTF_BUFFER_SIZE,  \* bytes for digits, as many as an int has bits
          Characters,          \* what callers print besides conversions
          Strings,             \* the strings callers print
          Numbers,             \* the numbers callers print
          MaxItems             \* bound: items in one format

Percent == 37
Letter == [s |-> 115, c |-> 99, d |-> 100, x |-> 120, b |-> 98]
Conversions == {Letter[t] : t \in DOMAIN Letter} \cup {Percent}
Base == [d |-> 10, x |-> 16, b |-> 2]

ASSUME WidthAssumption ==
  /\ PRINTF_BUFFER_SIZE \in Nat \ {0}
  /\ Numbers \subseteq 0 .. 2 ^ PRINTF_BUFFER_SIZE - 1
ASSUME TextAssumption ==
  /\ Characters \subseteq (1 .. 255) \ {Percent}
  /\ Strings \subseteq Seq(1 .. 255)
  /\ MaxItems \in Nat
-----------------------------------------------------------------------------
\* The state of the loop: format and args are what is left of them, errors
\* what std_error got.

NextChar(p) == IF Len(p.format) > 1 THEN p.format[2] ELSE 0

\* The round prints text and goes on behind n characters of the format.
Prints(p, text, n) ==
  [p EXCEPT !.out = @ \o text, !.format = SubSeq(@, n + 1, Len(@))]

\* %s, %c, %d, %x and %b take an argument.
Converted(t, arg) ==
  CASE t = "s" -> arg
    [] t = "c" -> <<arg>>
    [] OTHER -> print_uint_to_string(arg, Base[t], PRINTF_BUFFER_SIZE)

conversion(p) ==
  LET t == CHOOSE u \in DOMAIN Letter : Letter[u] = NextChar(p)
  IN  [Prints(p, Converted(t, Head(p.args)), 2) EXCEPT !.args = Tail(@)]

\* "next character is null" and "Unknown escape sequence" leave the loop.
bad_escape(p) ==
  [p EXCEPT !.errors = @ \cup {NextChar(p)},
            !.out = IF NextChar(p) = 0 THEN @ ELSE Append(@, NextChar(p)),
            !.running = FALSE]

Round(p) ==
  CASE p.format[1] # Percent -> Prints(p, <<p.format[1]>>, 1)
    [] p.format[1] = Percent /\ NextChar(p) = Percent ->
         Prints(p, <<Percent>>, 2)
    [] p.format[1] = Percent /\ NextChar(p) \in Conversions \ {Percent} ->
         conversion(p)
    [] OTHER -> bad_escape(p)

\* The loop; every round takes a character of the format or is the last one.
printf(format, args) ==
  LET p[k \in 0 .. Len(format)] ==
        IF k = 0 THEN [format |-> format, args |-> args, out |-> <<>>,
                       errors |-> {}, running |-> TRUE]
        ELSE LET q == p[k - 1]
             IN  IF q.running /\ q.format # <<>> THEN Round(q) ELSE q
  IN  p[Len(format)]
-----------------------------------------------------------------------------
(* What callers mean. *)

Items == [type : {"char"}, value : Characters]
           \cup [type : {"percent", "null"}, value : {0}]
           \cup [type : {"s"}, value : Strings]
           \cup [type : {"c"}, value : Characters]
           \cup [type : {"d", "x", "b"}, value : Numbers]
           \cup [type : {"unknown"}, value : Characters \ Conversions]

\* The spelling of an item in a format string.
Spelling(item) ==
  CASE item.type = "char" -> <<item.value>>
    [] item.type = "percent" -> <<Percent, Percent>>
    [] item.type = "null" -> <<Percent>>
    [] item.type = "unknown" -> <<Percent, item.value>>
    [] OTHER -> <<Percent, Letter[item.type]>>

\* The arguments an item takes.
Passed(item) == IF item.type \in DOMAIN Letter THEN <<item.value>> ELSE <<>>

\* The call a row of items is written as.
Call(items) == printf(FlattenSeq([i \in DOMAIN items |-> Spelling(items[i])]),
                      FlattenSeq([i \in DOMAIN items |-> Passed(items[i])]))

\* A lone percent sign can only be the end of a format.
Formats == {f \in SeqOf(Items, MaxItems) :
              \A i \in 1 .. Len(f) - 1 : f[i].type # "null"}

\* The numeral of a number in a base: the numeral of what is left without its
\* last digit, and that digit.
Numeral(number, base) ==
  LET of[n \in 0 .. number] ==
        IF n < base THEN <<numtochar[n + 1]>>
        ELSE Append(of[n \div base], numtochar[(n % base) + 1])
  IN  of[number]

\* What an item stands for.
Meaning(item) ==
  CASE item.type \in {"char", "c", "unknown"} -> <<item.value>>
    [] item.type = "percent" -> <<Percent>>
    [] item.type = "null" -> <<>>
    [] item.type = "s" -> item.value
    [] OTHER -> BasePrefix(Base[item.type])
                  \o Numeral(item.value, Base[item.type])

\* The items up to the first bad escape: printf stops there.
Bad(item) == item.type \in {"null", "unknown"}
Reached(items) ==
  LET bad == {i \in DOMAIN items : Bad(items[i])}
  IN  SubSeq(items, 1, Min(bad \cup {Len(items)}))

\* The text of a row of items.
TextOf(items) == FlattenSeq([i \in DOMAIN items |-> Meaning(items[i])])

VARIABLE message    \* history: what printf has just been asked to print

NoMessage == <<>>

\* printf prints the text of its items, one after another: every number in
\* full, in its base and without leading zeros (a number of as many binary
\* digits as an int has bits just fits the buffer), every argument taken by
\* its own conversion, and nothing behind a bad escape, which is reported
\* (stdlib.c:160).
PrintsItsItems ==
  /\ Call(message).out = TextOf(Reached(message))
  /\ Call(message).errors # {} <=> \E i \in DOMAIN message : Bad(message[i])
=============================================================================
