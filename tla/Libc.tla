-------------------------------- MODULE Libc --------------------------------
(***************************************************************************)
(* The string and memory functions of kernel/libc/string.c and the number  *)
(* conversions of stdlib.c, as operators.  A memory is a function from     *)
(* addresses to bytes; a function that writes returns the memory after it. *)
(***************************************************************************)
EXTENDS Integers, Sequences, SequencesExt, FiniteSetsExt

Blank == 32
Dot == 46

\* How far the zero bytes at or behind address p are from it.
ZerosFrom(m, p) == {a - p : a \in {b \in DOMAIN m : b >= p /\ m[b] = 0}}

strlen(m, p) == Min(ZerosFrom(m, p))

\* The characters of the string at p.
StringFrom(m, p) == [i \in 1 .. strlen(m, p) |-> m[p + i - 1]]

\* The memory once the bytes of s are at p and behind it.
Put(m, p, s) ==
  [a \in DOMAIN m |-> IF a - p + 1 \in DOMAIN s THEN s[a - p + 1] ELSE m[a]]

\* strcpy with a bug: no zero byte behind a name that fills the destination.
strcpy_Unended(m, dst, src, dst_size) ==
  LET n == Min(ZerosFrom(m, src) \cup {dst_size})
      copied == [i \in 1 .. n |-> m[src + i - 1]]
  IN  Put(m, dst, IF n = dst_size THEN copied ELSE Append(copied, 0))

\* The loop stops at the zero byte of src or after dst_size characters; the
\* zero byte is then written at dst[i], which may be dst[dst_size].
strcpy(m, dst, src, dst_size) ==
  LET n == Min(ZerosFrom(m, src) \cup {dst_size})
  IN  Put(m, dst, [i \in 1 .. n |-> m[src + i - 1]] \o <<0>>)

\* Fills the string up to length - 1 characters and a zero byte, unless it is
\* that long already.
rpad(m, str, pad_char, length) ==
  LET n == strlen(m, str)
  IN  IF n >= length THEN m
      ELSE Put(m, str + n, [i \in 1 .. length - n - 1 |-> pad_char] \o <<0>>)

\* On rows of bytes of one length.  The second test repeats the first one with
\* the operands exchanged, and so never succeeds.
memcmp(a, b) ==
  LET differing == {i \in DOMAIN a : a[i] < b[i] \/ b[i] > a[i]}
  IN  IF differing = {} THEN 0
      ELSE IF a[Min(differing)] < b[Min(differing)] THEN -1 ELSE 1

eswap_uint16(n) == (n % 256) * 256 + n \div 256
-----------------------------------------------------------------------------
(* print_uint_to_string. *)

numtochar == <<48, 49, 50, 51, 52, 53, 54, 55, 56, 57, 65, 66, 67, 68, 69, 70>>

\* The characters std_print gets before the digits: "0b" or "0x".
BasePrefix(base) ==
  CASE base = 2 -> <<48, 98>>
    [] base = 16 -> <<48, 120>>
    [] OTHER -> <<>>

\* number after k rounds of number /= base.
Remaining(number, base, k) ==
  LET r[i \in 0 .. k] == IF i = 0 THEN number ELSE r[i - 1] \div base
  IN  r[k]

\* Rounds with a bug: it keeps one byte of the buffer for a final zero.
Rounds_KeepsOne(number, base, size) ==
  Min({k \in 1 .. size - 1 : Remaining(number, base, k) = 0} \cup {size - 1})

\* How often the loop runs: until nothing remains or the buffer is full.
Rounds(number, base, size) ==
  Min({k \in 1 .. size : Remaining(number, base, k) = 0} \cup {size})

\* The digits in the order they are printed, from a buffer of size bytes.
print_uint_to_string(number, base, size) ==
  BasePrefix(base) \o
    IF number = 0 THEN <<48>>
    ELSE LET n == Rounds(number, base, size)
         IN  [i \in 1 .. n |->
                numtochar[(Remaining(number, base, n - i) % base) + 1]]
=============================================================================
