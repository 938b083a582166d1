--------------------------- MODULE DriverProofs ----------------------------
(***************************************************************************)
(* Proofs about the drivers: about Vga for every size of the screen and    *)
(* width of the registers, and about Isr for every size of the stack.      *)
(***************************************************************************)
EXTENDS Vga, Isr, SequenceTheorems, WellFoundedInduction, TLAPS

\* The offsets set_cursor_offset is called with: those of the cells.
CellOffset == {o \in Offset : InRange(o) /\ o \div 2 \in 0 .. Cells - 1}

\* Where the boot code has called print_char for the current character.
Setting == {"set high", "write high", "set low", "write low", "printed"}

\* Registers and locals keep their widths; once print_char has run, the
\* offset in the boot code's local is that of a cell, whatever was read.
CursorInv ==
  /\ pc \in {"idle", "select high", "read high", "select low", "read low",
             "print"} \cup Setting
  /\ high \in 0 .. Byte - 1 /\ low \in 0 .. Byte - 1
  /\ index \in {CURSOR_HIGH, CURSOR_LOW}
  /\ cur_offset \in Nat /\ offset \in Offset /\ count \in 0 .. 2
  /\ pc \in {"select high", "read high", "select low", "read low"} => count = 0
  /\ pc \in Setting => count > 0
  /\ pc # "idle" /\ count > 0 => offset \in CellOffset

\* The video memory as far as an offset reaches, and none of it written
\* behind the screen.
MemoryInv == vidmem = [c \in Offset |-> vidmem[c]] /\ OnlyScreenWritten

\* What an uninterrupted message has written into the registers so far, and
\* the cell before the cursor.
MessageInv ==
  ~hit =>
    /\ pc = "write high" => index = CURSOR_HIGH
    /\ pc = "write low" => index = CURSOR_LOW
    /\ pc \in {"set low", "write low"} \/ (pc = "printed" /\ count = 2) =>
         high = (offset \div 2) \div Byte
    /\ pc = "printed" /\ count = 2 => low = (offset \div 2) % Byte
    /\ /\ pc \in Setting \ {"printed"} \/ (pc = "printed" /\ count = 2)
       /\ character # Newline
       => vidmem[(offset \div 2) - 1] = character

VgaInv == CursorInv /\ MemoryInv /\ MessageInv
-----------------------------------------------------------------------------
(* Arithmetic of offsets. *)

\* Quotient and remainder.
LEMMA DivMod ==
  ASSUME NEW n \in Nat, NEW b \in Nat \ {0}
  PROVE  /\ n \div b \in Nat /\ n % b \in 0 .. b - 1
         /\ n = b * (n \div b) + (n % b)
<1>1. n \div b \in Nat
  OBVIOUS
<1>2. n % b \in 0 .. b - 1
  OBVIOUS
<1>3. n = b * (n \div b) + (n % b)
  OBVIOUS
<1> QED
  BY <1>1, <1>2, <1>3

\* A number below the modulus is its own remainder.
LEMMA ModSmall ==
  ASSUME NEW n \in Nat, NEW b \in Nat \ {0}, n < b
  PROVE  n % b = n
  OBVIOUS

\* The products the screen is made of.
LEMMA ScreenFacts ==
  /\ Rows \in Nat /\ Cols \in Nat \ {0} /\ Byte \in Nat \ {0}
  /\ Cells \in Nat /\ Byte * Byte \in Nat \ {0}
  /\ 2 * Cols <= Cells /\ 2 * Cells < Byte * Byte
  /\ Cols <= Byte /\ Rows < Byte
<1>1. /\ Rows \in Nat /\ Cols \in Nat \ {0} /\ Byte \in Nat \ {0} /\ Rows >= 2
      /\ Cols <= Byte /\ Rows < Byte /\ 2 * Rows * Cols < Byte * Byte
  BY ScreenAssumption
<1>2. Rows * Cols \in Nat /\ Byte * Byte \in Nat
  BY <1>1
<1>3. 2 * Rows * Cols = 2 * (Rows * Cols)
  BY <1>1
<1>4. 2 * Cols <= Rows * Cols
  BY <1>1
<1>5. Byte * Byte # 0
  BY <1>1, <1>2, <1>3
<1> QED
  BY <1>1, <1>2, <1>3, <1>4, <1>5 DEF Cells

\* A row and a column of the screen make a cell of it.
LEMMA RowCol ==
  ASSUME NEW row \in 0 .. Rows - 1, NEW col \in 0 .. Cols - 1
  PROVE  /\ row * Cols + col \in 0 .. Cells - 1
         /\ (row + 1) * Cols \in 0 .. Cells
<1>1. Rows \in Nat /\ Cols \in Nat \ {0}
  BY ScreenFacts
<1>2. /\ row * Cols \in Nat /\ (row + 1) * Cols = row * Cols + Cols
      /\ (row + 1) * Cols <= Rows * Cols
  BY <1>1
<1> DEFINE a == row * Cols
           b == Rows * Cols
           d == (row + 1) * Cols
<1>3. a \in Nat /\ d = a + Cols /\ d <= b
  BY <1>2
<1>4. b \in Nat
  BY <1>1
<1> HIDE DEF a, b, d
<1>5. a + col \in 0 .. b - 1 /\ d \in 0 .. b
  BY <1>1, <1>3, <1>4
<1> QED
  BY <1>5 DEF a, b, d, Cells

\* The row and the column print_char is called with, when it accepts them.
LEMMA Accepted ==
  ASSUME NEW o \in Offset, InRange(o)
  PROVE  /\ offset_to_row(o) \in 0 .. Rows - 1
         /\ offset_to_col(o) \in 0 .. Cols - 1
<1>1. /\ o \in Nat /\ 2 * Cols \in Nat \ {0} /\ Byte \in Nat \ {0}
      /\ Rows \in Nat /\ Cols \in Nat
  BY ScreenFacts DEF Offset
<1> DEFINE q == o \div (2 * Cols)
           r == o % (2 * Cols)
<1>2. q \in Nat /\ r \in Nat
  <2>1. q \in Nat /\ r \in 0 .. 2 * Cols - 1
    BY <1>1, DivMod
  <2> QED
    BY <1>1, <2>1
<1> HIDE DEF q, r
<1>3. q % Byte \in Nat /\ (r \div 2) % Byte \in Nat
  <2>1. r \div 2 \in Nat
    BY <1>2
  <2> QED
    BY <1>1, <1>2, <2>1, DivMod
<1>4. offset_to_row(o) = q % Byte /\ offset_to_col(o) = (r \div 2) % Byte
  BY DEF offset_to_row, offset_to_col, q, r
<1> QED
  BY <1>1, <1>3, <1>4 DEF InRange

\* An even offset below the end of the screen is accepted, as that of its cell.
LEMMA CellAccepted ==
  ASSUME NEW k \in 0 .. Cells - 1
  PROVE  /\ 2 * k \in CellOffset
         /\ offset_to_row(2 * k) * Cols + offset_to_col(2 * k) = k
<1>1. /\ k \in Nat /\ k < Cells /\ Cells = Rows * Cols
      /\ Cols \in Nat \ {0} /\ Rows \in Nat /\ Byte \in Nat \ {0} /\ Cols <= Byte
      /\ Rows < Byte /\ 2 * Cells < Byte * Byte /\ Byte * Byte \in Nat /\ Cells \in Nat
  BY ScreenFacts DEF Cells
<1> DEFINE b == 2 * Cols
           n == 2 * k
           q == n \div b
           r == n % b
<1>2. b \in Nat \ {0} /\ n \in Nat
  BY <1>1
<1>3. q \in Nat /\ r \in 0 .. b - 1 /\ n = b * q + r
  BY <1>2, DivMod
<1>4. q < Rows
  <2> SUFFICES ASSUME Rows <= q PROVE FALSE
    BY <1>1, <1>3
  <2>1. b * Rows <= b * q
    BY <1>1, <1>2, <1>3
  <2>2. b * Rows = 2 * Cells
    BY <1>1
  <2> DEFINE u == b * Rows
             v == b * q
  <2>3. u \in Nat /\ v \in Nat
    BY <1>1, <1>2, <1>3
  <2>4. u <= v /\ n = v + r /\ u = 2 * Cells /\ n = 2 * k
    BY <1>3, <2>1, <2>2
  <2>5. r \in Nat
    BY <1>2, <1>3
  <2> HIDE DEF u, v, n, q, r, b
  <2> QED
    BY <1>1, <2>3, <2>4, <2>5
<1>5. r \div 2 \in 0 .. Cols - 1
  <2>1. r \in Nat /\ r < 2 * Cols
    BY <1>1, <1>3
  <2> HIDE DEF r
  <2> QED
    BY <1>1, <2>1
<1>6. offset_to_row(n) = q % Byte /\ offset_to_col(n) = (r \div 2) % Byte
  BY DEF offset_to_row, offset_to_col
<1>7. n \in Offset /\ n \div 2 = k
  BY <1>1 DEF Offset
<1>8. q % Byte = q /\ (r \div 2) % Byte = r \div 2
  <2> HIDE DEF q, r
  <2> DEFINE h == r \div 2
  <2>1. h \in Nat /\ h < Byte /\ q < Byte /\ q \in Nat
    BY <1>1, <1>3, <1>4, <1>5
  <2> HIDE DEF h
  <2>2. q % Byte = q /\ h % Byte = h
    BY <1>1, <2>1, ModSmall
  <2> QED
    BY <2>2 DEF h
<1>9. q * Cols + (r \div 2) = k
  <2> DEFINE x == Cols * q
  <2>1. x \in Nat /\ b * q = 2 * x /\ q * Cols = x
    BY <1>1, <1>3
  <2>2. 2 * k = 2 * x + r /\ r \in Nat
    BY <1>2, <1>3, <2>1
  <2> HIDE DEF x, q, r
  <2>3. r \div 2 = k - x
    BY <1>1, <2>1, <2>2
  <2> QED
    BY <1>1, <2>1, <2>3
<1> HIDE DEF n, q, r
<1>10. n \in CellOffset
  BY <1>1, <1>4, <1>5, <1>6, <1>7, <1>8 DEF CellOffset, InRange
<1>11. offset_to_row(n) * Cols + offset_to_col(n) = k
  BY <1>6, <1>8, <1>9
<1> QED
  BY <1>10, <1>11 DEF n
-----------------------------------------------------------------------------
(* print_char. *)

\* Twice a number of cells, the last one's end included, fits an offset.
LEMMA Doubled ==
  ASSUME NEW k \in 0 .. Cells
  PROVE  (2 * k) % (Byte * Byte) = 2 * k /\ (2 * k) \div 2 = k
<1>1. 2 * k \in Nat /\ 2 * k < Byte * Byte /\ Byte * Byte \in Nat \ {0}
  BY ScreenFacts
<1> DEFINE n == 2 * k
           b == Byte * Byte
<1>2. n \in Nat /\ b \in Nat \ {0} /\ n < b
  BY <1>1
<1>3. n \div 2 = k
  BY ScreenFacts
<1> HIDE DEF n, b
<1>4. n % b = n
  BY <1>2, ModSmall
<1> QED
  BY <1>3, <1>4 DEF n, b

\* The cell of an offset, and the number of cells up to the cursor behind a
\* character printed there.
CellOf(o) == offset_to_row(o) * Cols + offset_to_col(o)
EndOf(c, o) == IF c = Newline THEN (offset_to_row(o) + 1) * Cols ELSE CellOf(o) + 1

\* print_char stores into a cell of the screen, and the offset behind the
\* character is at most the end of the screen.
LEMMA PrintedWhere ==
  ASSUME NEW c, NEW o \in Offset, InRange(o)
  PROVE  /\ CellOf(o) \in 0 .. Cells - 1 /\ EndOf(c, o) \in 0 .. Cells
         /\ get_offset(offset_to_col(o), offset_to_row(o)) \div 2 = CellOf(o)
         /\ Behind(c, o) = 2 * EndOf(c, o)
<1> DEFINE row == offset_to_row(o)
           col == offset_to_col(o)
<1>1. row \in 0 .. Rows - 1 /\ col \in 0 .. Cols - 1
  BY Accepted
<1> HIDE DEF row, col
<1>2. row * Cols + col \in 0 .. Cells - 1 /\ (row + 1) * Cols \in 0 .. Cells
  BY <1>1, RowCol
<1>3. CellOf(o) = row * Cols + col /\ (c = Newline => EndOf(c, o) = (row + 1) * Cols)
      /\ (c # Newline => EndOf(c, o) = CellOf(o) + 1)
  BY DEF CellOf, EndOf, row, col
<1>4. CellOf(o) \in 0 .. Cells - 1
  BY <1>2, <1>3
<1>5. EndOf(c, o) \in 0 .. Cells
  <2>1. c # Newline => CellOf(o) + 1 \in 0 .. Cells
    BY <1>4, ScreenFacts
  <2> QED
    BY <1>2, <1>3, <2>1
<1>6. get_offset(col, row) = 2 * CellOf(o) /\ get_offset(col, row) \div 2 = CellOf(o)
  <2>1. CellOf(o) \in 0 .. Cells
    BY <1>4, ScreenFacts
  <2>2. get_offset(col, row) = (2 * CellOf(o)) % (Byte * Byte)
    BY <1>3 DEF get_offset
  <2> QED
    BY <2>1, <2>2, Doubled
<1>7. ASSUME c = Newline PROVE Behind(c, o) = 2 * EndOf(c, o)
  <2>1. Behind(c, o) = get_offset(0, row + 1)
    BY <1>7 DEF Behind, row
  <2>2. (row + 1) * Cols + 0 = (row + 1) * Cols
    BY <1>2, ScreenFacts
  <2>3. get_offset(0, row + 1) = (2 * ((row + 1) * Cols)) % (Byte * Byte)
    BY <2>2 DEF get_offset
  <2> QED
    BY <1>2, <1>3, <1>7, <2>1, <2>3, Doubled
<1>8. ASSUME c # Newline PROVE Behind(c, o) = 2 * EndOf(c, o)
  <2>1. Behind(c, o) = get_offset(col, row) + 2
    BY <1>8 DEF Behind, row, col
  <2> QED
    BY <1>3, <1>4, <1>6, <1>8, <2>1, ScreenFacts
<1> QED
  BY <1>4, <1>5, <1>6, <1>7, <1>8 DEF row, col

\* The cursor ends up on a cell, after scrolling if need be.
LEMMA NewOffsetCell ==
  ASSUME NEW c, NEW o \in Offset
  PROVE  /\ NewOffset(c, o) \in CellOffset
         /\ InRange(o) =>
              NewOffset(c, o) \div 2 = IF EndOf(c, o) = Cells THEN Cells - Cols
                                                            ELSE EndOf(c, o)
         /\ InRange(o) => (OutOfBounds(Behind(c, o)) <=> EndOf(c, o) = Cells)
<1>1. CASE ~InRange(o)
  <2>1. NewOffset(c, o) = 0
    BY <1>1 DEF NewOffset
  <2>2. 0 \in 0 .. Cells - 1 /\ 2 * 0 = 0
    BY ScreenFacts
  <2> QED
    BY <1>1, <2>1, <2>2, CellAccepted
<1>2. CASE InRange(o)
  <2> DEFINE e == EndOf(c, o)
             n == IF e = Cells THEN Cells - Cols ELSE e
  <2>1. e \in 0 .. Cells /\ Behind(c, o) = 2 * e
    BY <1>2, PrintedWhere
  <2> HIDE DEF e
  <2>2. OutOfBounds(Behind(c, o)) <=> e = Cells
    BY <2>1, ScreenFacts DEF OutOfBounds
  <2>3. n \in 0 .. Cells - 1 /\ NewOffset(c, o) = 2 * n
    BY <1>2, <2>1, <2>2, ScreenFacts DEF NewOffset
  <2> HIDE DEF n
  <2>4. n \in 0 .. Cells
    BY <2>3, ScreenFacts
  <2>5. NewOffset(c, o) \in CellOffset /\ NewOffset(c, o) \div 2 = n
    BY <2>3, <2>4, CellAccepted, Doubled
  <2> QED
    BY <2>2, <2>5 DEF e, n
<1> QED
  BY <1>1, <1>2

\* A memory as far as an offset reaches, with nothing written behind the
\* screen.
ScreenOnly(m) == /\ m = [x \in Offset |-> m[x]]
                 /\ \A x \in Offset : x >= Cells => m[x] = Other

\* print_char, scrolling included, writes nothing outside the screen.
LEMMA PrintedKeeps ==
  ASSUME NEW m, ScreenOnly(m), NEW c, NEW o \in Offset
  PROVE  ScreenOnly(Printed(m, c, o))
<1>1. CASE ~InRange(o)
  BY <1>1 DEF Printed
<1>2. CASE InRange(o)
  <2> DEFINE n == Stored(m, c, o)
  <2>1. CellOf(o) \in 0 .. Cells - 1
        /\ get_offset(offset_to_col(o), offset_to_row(o)) \div 2 = CellOf(o)
    BY <1>2, PrintedWhere
  <2>2. n = m \/ n = [m EXCEPT ![CellOf(o)] = c]
    BY <2>1 DEF Stored
  <2>3. ScreenOnly(n)
    <3> HIDE DEF n
    <3>1. CellOf(o) \in Nat /\ CellOf(o) < Cells
      BY <2>1, ScreenFacts
    <3>2. DOMAIN m = Offset /\ \A x \in Offset : x \in Nat
      BY ScreenFacts DEF ScreenOnly, Offset
    <3>3. CASE n = [m EXCEPT ![CellOf(o)] = c]
      <4>1. n = [x \in Offset |-> n[x]]
        BY <3>2, <3>3
      <4>2. \A x \in Offset : x >= Cells => x # CellOf(o)
        BY <3>1, <3>2, ScreenFacts
      <4>3. \A x \in Offset : x # CellOf(o) => n[x] = m[x]
        BY <3>2, <3>3
      <4> QED
        BY <4>1, <4>2, <4>3 DEF ScreenOnly
    <3> QED
      BY <2>2, <3>3
  <2> HIDE DEF n
  <2>4. ScreenOnly(Scrolled(n))
    <3>1. DOMAIN n = Offset
      BY <2>3 DEF ScreenOnly
    <3>2. Scrolled(n) = [x \in Offset |->
            IF x < Cells - Cols THEN n[x + Cols] ELSE IF x < Cells THEN Blank ELSE n[x]]
      BY <3>1 DEF Scrolled
    <3>3. Scrolled(n) = [x \in Offset |-> Scrolled(n)[x]]
      BY <3>2
    <3>4. ASSUME NEW x \in Offset, x >= Cells PROVE Scrolled(n)[x] = Other
      <4>1. ~(x < Cells - Cols) /\ ~(x < Cells)
        BY <3>4, ScreenFacts DEF Offset
      <4>2. n[x] = Other
        BY <2>3, <3>4 DEF ScreenOnly
      <4> QED
        BY <3>2, <4>1, <4>2
    <3> QED
      BY <3>3, <3>4 DEF ScreenOnly
  <2>5. Printed(m, c, o) = n \/ Printed(m, c, o) = Scrolled(n)
    BY <1>2 DEF Printed, n
  <2> QED
    BY <2>3, <2>4, <2>5
<1> QED
  BY <1>1, <1>2

\* A printed character stands before the cursor, scrolled or not.
LEMMA PrintedShows ==
  ASSUME NEW m, ScreenOnly(m), NEW c, c # Newline, NEW o \in Offset, InRange(o)
  PROVE  Printed(m, c, o)[(NewOffset(c, o) \div 2) - 1] = c
<1> DEFINE k == CellOf(o)
           n == [m EXCEPT ![k] = c]
<1>1. /\ k \in 0 .. Cells - 1 /\ EndOf(c, o) = k + 1
      /\ get_offset(offset_to_col(o), offset_to_row(o)) \div 2 = k
  BY PrintedWhere DEF EndOf
<1>2. /\ NewOffset(c, o) \div 2 = IF k + 1 = Cells THEN Cells - Cols ELSE k + 1
      /\ OutOfBounds(Behind(c, o)) <=> k + 1 = Cells
  BY <1>1, NewOffsetCell
<1>3. Stored(m, c, o) = n
  BY <1>1 DEF Stored
<1>4. DOMAIN m = Offset /\ DOMAIN n = Offset
  BY DEF ScreenOnly
<1> HIDE DEF k
<1>5. k \in Nat /\ k \in Offset /\ k < Cells
  BY <1>1, ScreenFacts DEF Offset
<1>6. n[k] = c
  BY <1>4, <1>5
<1> HIDE DEF n
<1>7. CASE k + 1 = Cells
  <2>1. Printed(m, c, o) = Scrolled(n)
    BY <1>2, <1>3, <1>7 DEF Printed
  <2> DEFINE x == Cells - Cols - 1
  <2>2. x \in Offset /\ x < Cells - Cols /\ x + Cols = k
    BY <1>5, <1>7, ScreenFacts DEF Offset
  <2>3. (NewOffset(c, o) \div 2) - 1 = x
    BY <1>2, <1>7
  <2> HIDE DEF x
  <2>4. Scrolled(n)[x] = n[x + Cols]
    BY <1>4, <2>2 DEF Scrolled
  <2> QED
    BY <1>6, <2>1, <2>2, <2>3, <2>4
<1>8. CASE k + 1 # Cells
  <2>1. Printed(m, c, o) = n
    BY <1>2, <1>3, <1>8 DEF Printed
  <2>2. (NewOffset(c, o) \div 2) - 1 = k
    BY <1>2, <1>5, <1>8
  <2> QED
    BY <1>6, <2>1, <2>2
<1> QED
  BY <1>7, <1>8
-----------------------------------------------------------------------------
(* vga_clear_screen. *)

\* Any set of natural numbers that is not empty has a least element.
LEMMA LeastNatural ==
  ASSUME NEW S, S \subseteq Nat, S # {}
  PROVE  \E n \in S : \A k \in S : ~(k < n)
<1>1. PICK n \in S : \A k \in S : ~(<<k, n>> \in OpToRel(<, Nat))
  BY WFMin, NatLessThanWellFounded
<1>2. \A k \in S : ~(k < n)
  BY <1>1 DEF OpToRel
<1> QED
  BY <1>2

\* The screen after each of the first n cells.
Clearing(f, n, m) ==
  f = [c \in 0 .. n |-> IF c = 0 THEN m ELSE Printed(f[c - 1], Blank, 2 * (c - 1))]

\* The loop of vga_clear_screen runs through any number of cells.
LEMMA ClearingExists ==
  ASSUME NEW m, NEW n \in Nat
  PROVE  \E f : Clearing(f, n, m)
<1> DEFINE S == {k \in Nat : ~(\E f : Clearing(f, k, m))}
<1> SUFFICES ASSUME S # {} PROVE FALSE
  OBVIOUS
<1>1. PICK k \in S : \A j \in S : ~(j < k)
  BY LeastNatural
<1>2. CASE k = 0
  <2> DEFINE g == [c \in 0 .. 0 |-> m]
  <2>1. \A c \in 0 .. 0 : c = 0
    OBVIOUS
  <2>2. Clearing(g, 0, m)
    BY <2>1 DEF Clearing
  <2> QED
    BY <1>2, <2>2
<1>3. CASE k # 0
  <2>1. k \in Nat /\ k - 1 \in Nat /\ k - 1 < k
    BY <1>3
  <2>2. PICK f : Clearing(f, k - 1, m)
    BY <1>1, <2>1
  <2> DEFINE last == Printed(f[k - 1], Blank, 2 * (k - 1))
             g == [c \in 0 .. k |-> IF c < k THEN f[c] ELSE last]
             F(h, c) == IF c = 0 THEN m ELSE Printed(h[c - 1], Blank, 2 * (c - 1))
  <2>3. \A c \in 0 .. k - 1 : f[c] = F(f, c)
    BY <2>2 DEF Clearing
  <2>4. /\ \A c \in 0 .. k : c < k => g[c] = f[c]
        /\ g[k] = last
    BY <2>1
  <2>5. ASSUME NEW c \in 0 .. k PROVE g[c] = F(g, c)
    <3>1. CASE c < k
      <4>1. c # 0 => c - 1 \in 0 .. k /\ c - 1 < k
        BY <2>1, <3>1
      <4>2. c \in 0 .. k - 1 /\ g[c] = f[c]
        BY <2>1, <2>4, <3>1
      <4>3. c # 0 => g[c - 1] = f[c - 1]
        BY <2>4, <4>1
      <4> QED
        BY <2>3, <4>2, <4>3
    <3>2. CASE ~(c < k)
      <4>1. c = k /\ k # 0 /\ k - 1 \in 0 .. k /\ k - 1 < k
        BY <1>3, <2>1, <3>2
      <4>2. g[k - 1] = f[k - 1]
        BY <2>4, <4>1
      <4> QED
        BY <2>4, <4>1, <4>2
    <3> QED
      BY <3>1, <3>2
  <2>6. g = [c \in 0 .. k |-> g[c]]
    OBVIOUS
  <2> HIDE DEF g
  <2>7. g = [c \in 0 .. k |-> F(g, c)]
    BY <2>5, <2>6
  <2>8. Clearing(g, k, m)
    BY <2>7 DEF Clearing
  <2> QED
    BY <2>8
<1> QED
  BY <1>2, <1>3

\* vga_clear_screen writes nothing outside the screen.
LEMMA ClearedKeeps ==
  ASSUME NEW m, ScreenOnly(m)
  PROVE  ScreenOnly(Cleared(m))
<1> DEFINE f == CHOOSE f : Clearing(f, Cells, m)
           S == {k \in 0 .. Cells : ~ScreenOnly(f[k])}
<1>1. Cells \in Nat
  BY ScreenFacts
<1>2. Clearing(f, Cells, m)
  BY <1>1, ClearingExists
<1>3. Cleared(m) = f[Cells]
  BY DEF Cleared, Clearing
<1> HIDE DEF f
<1>4. \A c \in 0 .. Cells :
        f[c] = IF c = 0 THEN m ELSE Printed(f[c - 1], Blank, 2 * (c - 1))
  BY <1>2 DEF Clearing
<1>5. S = {}
  <2> SUFFICES ASSUME S # {} PROVE FALSE
    OBVIOUS
  <2>1. S \subseteq Nat
    BY <1>1
  <2>2. PICK k \in S : \A j \in S : ~(j < k)
    BY <2>1, LeastNatural
  <2>3. k # 0
    BY <1>4, <2>2
  <2>4. k - 1 \in 0 .. Cells /\ k - 1 < k /\ 2 * (k - 1) \in Offset
    BY <1>1, <2>2, <2>3, ScreenFacts DEF Offset
  <2>5. ScreenOnly(f[k - 1])
    BY <2>2, <2>4
  <2>6. ScreenOnly(Printed(f[k - 1], Blank, 2 * (k - 1)))
    BY <2>4, <2>5, PrintedKeeps
  <2> QED
    BY <1>4, <2>2, <2>3, <2>6
<1> QED
  BY <1>1, <1>3, <1>5
-----------------------------------------------------------------------------
(* The invariant. *)

\* A cell number fits the two registers, and they give it back.
LEMMA Registers ==
  ASSUME NEW o \in Offset
  PROVE  LET k == o \div 2
         IN  /\ k \in Nat
             /\ k \div Byte \in 0 .. Byte - 1 /\ k % Byte \in 0 .. Byte - 1
             /\ (k \div Byte) * Byte + (k % Byte) = k
<1> DEFINE k == o \div 2
           q == k \div Byte
           r == k % Byte
           b == Byte * Byte
<1>1. Byte \in Nat \ {0} /\ b \in Nat /\ o \in Nat /\ o < b
  BY ScreenFacts DEF Offset
<1> HIDE DEF b
<1>2. k \in Nat /\ k <= o
  BY <1>1
<1> HIDE DEF k
<1>3. q \in Nat /\ r \in 0 .. Byte - 1 /\ k = Byte * q + r
  BY <1>1, <1>2, DivMod
<1> HIDE DEF q, r
<1>4. Byte * q = q * Byte
  BY <1>1, <1>3
<1>5. q < Byte
  <2> SUFFICES ASSUME Byte <= q PROVE FALSE
    BY <1>1, <1>3
  <2> DEFINE u == Byte * q
  <2>1. Byte * Byte <= u /\ u \in Nat
    BY <1>1, <1>3
  <2>2. b <= u /\ k = u + r
    BY <1>3, <2>1 DEF b
  <2> HIDE DEF u
  <2> QED
    BY <1>1, <1>2, <1>3, <2>1, <2>2
<1>6. /\ k \in Nat
      /\ q \in 0 .. Byte - 1 /\ r \in 0 .. Byte - 1
      /\ q * Byte + r = k
  BY <1>1, <1>2, <1>3, <1>4, <1>5
<1> QED
  BY <1>6 DEF k, q, r

\* get_cursor_offset returns a uint16_t.
LEMMA FromRegistersType ==
  ASSUME NEW n \in Nat PROVE FromRegisters(n) \in Offset
<1> DEFINE b == Byte * Byte
           x == 2 * n
<1>1. b \in Nat \ {0} /\ x \in Nat
  BY ScreenFacts
<1> HIDE DEF b, x
<1>2. x % b \in 0 .. b - 1
  BY <1>1, DivMod
<1> QED
  BY <1>2 DEF FromRegisters, Offset, b, x

\* MemoryInv, in the form print_char and vga_clear_screen keep.
LEMMA MemoryIsScreenOnly == MemoryInv <=> ScreenOnly(vidmem)
  BY DEF MemoryInv, ScreenOnly, OnlyScreenWritten

\* A blank screen and a cursor on it.
LEMMA InitVgaInv == Init => VgaInv
<1> SUFFICES ASSUME Init PROVE VgaInv
  OBVIOUS
<1>1. /\ start \in 0 .. Cells - 1 /\ high = start \div Byte /\ low = start % Byte
      /\ pc = "idle" /\ index = CURSOR_HIGH /\ cur_offset = 0 /\ offset = 0
      /\ count = 0 /\ hit = FALSE
      /\ vidmem = [c \in Offset |-> IF c < Cells THEN Blank ELSE Other]
  BY DEF Init
<1>2. high \in 0 .. Byte - 1 /\ low \in 0 .. Byte - 1
  <2>1. 2 * start \in Offset /\ (2 * start) \div 2 = start
    BY <1>1, ScreenFacts DEF Offset
  <2> QED
    BY <1>1, <2>1, Registers
<1>3. 0 \in Offset
  BY ScreenFacts DEF Offset
<1>4. CursorInv
  BY <1>1, <1>2, <1>3 DEF CursorInv, Setting
<1>5. MemoryInv
  <2>1. vidmem = [c \in Offset |-> vidmem[c]]
    BY <1>1
  <2>2. \A c \in Offset : c >= Cells => ~(c < Cells)
    BY ScreenFacts DEF Offset
  <2> QED
    BY <1>1, <2>1, <2>2 DEF MemoryInv, OnlyScreenWritten
<1>6. MessageInv
  BY <1>1 DEF MessageInv, Setting
<1> QED
  BY <1>4, <1>5, <1>6 DEF VgaInv

\* The boot code takes up a character.
LEMMA NextCharacterStep ==
  ASSUME VgaInv, NEW c, NextCharacter(c) PROVE VgaInv'
<1>1. /\ pc \in {"idle", "printed"} /\ pc' = IF pc = "idle" THEN "select high" ELSE "print"
      /\ hit' = (pc # "idle" /\ hit)
      /\ count' = IF pc = "idle" THEN 0 ELSE count
      /\ UNCHANGED <<vidmem, index, high, low, cur_offset, offset>>
  BY DEF NextCharacter, registers
<1>2. CursorInv'
  <2>1. ~(0 > 0) /\ 0 \in 0 .. 2
    OBVIOUS
  <2>2. CASE pc = "idle"
    <3>1. pc' = "select high" /\ count' = 0
      BY <1>1, <2>2
    <3> QED
      BY <1>1, <2>1, <3>1 DEF VgaInv, CursorInv, Setting
  <2>3. CASE pc = "printed"
    <3>1. pc' = "print" /\ count' = count /\ count > 0 /\ offset \in CellOffset
      BY <1>1, <2>3 DEF VgaInv, CursorInv, Setting
    <3> QED
      BY <1>1, <3>1 DEF VgaInv, CursorInv, Setting
  <2> QED
    BY <1>1, <2>2, <2>3
<1>3. MemoryInv'
  BY <1>1 DEF VgaInv, MemoryInv, OnlyScreenWritten
<1>4. MessageInv'
  BY <1>1 DEF MessageInv, Setting
<1> QED
  BY <1>2, <1>3, <1>4 DEF VgaInv

\* get_cursor_offset, whatever the registers say.
LEMMA GetStep == VgaInv /\ get_cursor_offset => VgaInv'
<1> SUFFICES ASSUME VgaInv, get_cursor_offset PROVE VgaInv'
  OBVIOUS
<1>1. CursorInv /\ MemoryInv /\ UNCHANGED <<vidmem, character, count, hit>>
  BY DEF VgaInv, get_cursor_offset
<1>2. MemoryInv'
  BY <1>1 DEF MemoryInv, OnlyScreenWritten
<1>3. /\ pc \in {"select high", "read high", "select low", "read low"}
      /\ pc' \in {"read high", "select low", "read low", "print"}
  BY DEF get_cursor_offset, At
<1>4. MessageInv'
  BY <1>3 DEF MessageInv, Setting
<1>5. /\ index' \in {CURSOR_HIGH, CURSOR_LOW}
      /\ high' \in 0 .. Byte - 1 /\ low' \in 0 .. Byte - 1
  BY <1>1 DEF get_cursor_offset, CursorInv, Select, registers
<1>6. io_byte_in \in Nat /\ io_byte_in * Byte \in Nat /\ cur_offset + io_byte_in \in Nat
  <2>1. /\ Byte \in Nat /\ cur_offset \in Nat
        /\ high \in 0 .. Byte - 1 /\ low \in 0 .. Byte - 1
    BY <1>1, ScreenFacts DEF CursorInv
  <2>2. high \in Nat /\ low \in Nat
    BY <2>1
  <2>3. io_byte_in \in Nat
    BY <2>2 DEF io_byte_in
  <2> HIDE DEF io_byte_in
  <2> QED
    BY <2>1, <2>3
<1>7. cur_offset' \in Nat /\ offset' \in Offset
  BY <1>1, <1>6, FromRegistersType DEF get_cursor_offset, CursorInv
<1>8. count = 0
  BY <1>1, <1>3 DEF CursorInv
<1>9. CursorInv'
  <2>1. ~(0 > 0) /\ count' = 0 /\ count' \in 0 .. 2
    BY <1>1, <1>8
  <2> QED
    BY <1>3, <1>5, <1>7, <2>1 DEF CursorInv, Setting
<1> QED
  BY <1>2, <1>4, <1>9 DEF VgaInv

\* print_char: only the first character of a message can be off the screen.
LEMMA PrintStep == VgaInv /\ print_char => VgaInv'
<1> SUFFICES ASSUME VgaInv, print_char PROVE VgaInv'
  OBVIOUS
<1>1. CursorInv /\ MemoryInv
  BY DEF VgaInv
<1>2. /\ pc = "print" /\ vidmem' = Printed(vidmem, character, offset)
      /\ offset' = NewOffset(character, offset)
      /\ pc' = IF InRange(offset) THEN "set high" ELSE "printed"
      /\ count' = IF count < 2 THEN count + 1 ELSE 2
      /\ UNCHANGED <<index, high, low, character, cur_offset, hit>>
  BY DEF print_char, registers
<1>3. offset \in Offset /\ count \in 0 .. 2
  BY <1>1 DEF CursorInv
<1>4. MemoryInv'
  <2>1. ScreenOnly(vidmem')
    BY <1>1, <1>2, <1>3, MemoryIsScreenOnly, PrintedKeeps
  <2> QED
    BY <2>1 DEF MemoryInv, ScreenOnly, OnlyScreenWritten
<1>5. offset' \in CellOffset
  BY <1>2, <1>3, NewOffsetCell
<1>6. count' \in 0 .. 2 /\ count' > 0
  <2>1. \A n \in 0 .. 2 : LET m == IF n < 2 THEN n + 1 ELSE 2
                          IN  m \in 0 .. 2 /\ m > 0
    OBVIOUS
  <2> QED
    BY <1>2, <1>3, <2>1
<1>7. CursorInv'
  BY <1>1, <1>2, <1>5, <1>6 DEF CursorInv, Setting, CellOffset
<1>8. MessageInv'
  <2>1. CASE InRange(offset)
    <3>1. character # Newline => vidmem'[(offset' \div 2) - 1] = character
      BY <1>1, <1>2, <1>3, <2>1, MemoryIsScreenOnly, PrintedShows
    <3>2. pc' = "set high"
      BY <1>2, <2>1
    <3> QED
      BY <1>2, <3>1, <3>2 DEF MessageInv, Setting
  <2>2. CASE ~InRange(offset)
    <3>1. count = 0
      BY <1>1, <1>2, <1>3, <2>2 DEF CursorInv, CellOffset
    <3>2. pc' = "printed" /\ count' # 2
      BY <1>2, <2>2, <3>1
    <3> QED
      BY <3>2 DEF MessageInv, Setting
  <2> QED
    BY <2>1, <2>2
<1> QED
  BY <1>4, <1>7, <1>8 DEF VgaInv

\* set_cursor_offset writes the two halves of a cell number.
LEMMA SetStep == VgaInv /\ set_cursor_offset => VgaInv'
<1> SUFFICES ASSUME VgaInv, set_cursor_offset PROVE VgaInv'
  OBVIOUS
<1>1. /\ CursorInv /\ MemoryInv /\ MessageInv
      /\ UNCHANGED <<vidmem, character, cur_offset, offset, count, hit>>
  BY DEF VgaInv, set_cursor_offset, locals
<1>2. MemoryInv'
  BY <1>1 DEF MemoryInv, OnlyScreenWritten
<1> DEFINE q == (offset \div 2) \div Byte
           r == (offset \div 2) % Byte
<1>3. q \in 0 .. Byte - 1 /\ r \in 0 .. Byte - 1
  BY <1>1, Registers DEF CursorInv
<1>4. q' = q /\ r' = r
  BY <1>1
<1>5. \/ pc = "set high" /\ pc' = "write high" /\ Select(CURSOR_HIGH)
      \/ pc = "write high" /\ pc' = "set low" /\ io_byte_out(q)
      \/ pc = "set low" /\ pc' = "write low" /\ Select(CURSOR_LOW)
      \/ pc = "write low" /\ pc' = "printed" /\ io_byte_out(r)
  BY DEF set_cursor_offset, At
<1> HIDE DEF q, r
<1>6. CursorInv'
  BY <1>1, <1>3, <1>5 DEF CursorInv, Setting, Select, io_byte_out
<1>7. MessageInv'
  <2> SUFFICES ASSUME ~hit' PROVE MessageInv'
    BY DEF MessageInv
  <2>1. ~hit
    BY <1>1
  <2>2. character' # Newline => vidmem'[(offset' \div 2) - 1] = character'
    BY <1>1, <1>5, <2>1 DEF MessageInv, Setting
  <2>3. /\ pc = "write high" => index = CURSOR_HIGH
        /\ pc = "write low" => index = CURSOR_LOW
        /\ pc \in {"set low", "write low"} => high = q
    BY <2>1, <1>1 DEF MessageInv, q
  <2>4. CURSOR_HIGH # CURSOR_LOW
    BY DEF CURSOR_HIGH, CURSOR_LOW
  <2>5. /\ pc' = "write high" => index' = CURSOR_HIGH
        /\ pc' = "write low" => index' = CURSOR_LOW
        /\ pc' \in {"set low", "write low", "printed"} => high' = q
        /\ pc' = "printed" => low' = r
    BY <1>5, <2>3, <2>4 DEF Select, io_byte_out
  <2> QED
    BY <1>4, <2>2, <2>5 DEF MessageInv, q, r
<1> QED
  BY <1>2, <1>6, <1>7 DEF VgaInv

\* A handler prints: whatever message it interrupts is marked as hit.
LEMMA HandlerStep == ASSUME VgaInv, NEW c, Handler(c) PROVE VgaInv'
<1> DEFINE o == FromRegisters(high * Byte + low)
           k == NewOffset(c, o) \div 2
<1>1. CursorInv /\ MemoryInv
  BY DEF VgaInv
<1>2. /\ vidmem' = Printed(vidmem, c, o) /\ index' = CURSOR_LOW
      /\ \/ high' = k \div Byte /\ low' = k % Byte
         \/ UNCHANGED <<high, low>>
      /\ hit' = (hit \/ pc # "idle")
      /\ UNCHANGED <<pc, cur_offset, offset, count>>
  BY DEF Handler, locals
<1>3. o \in Offset
  <2>0. Byte \in Nat /\ high \in 0 .. Byte - 1 /\ low \in 0 .. Byte - 1
    BY <1>1, ScreenFacts DEF CursorInv
  <2>1. high * Byte + low \in Nat
    BY <2>0
  <2> QED
    BY <2>1, FromRegistersType
<1>4. k \div Byte \in 0 .. Byte - 1 /\ k % Byte \in 0 .. Byte - 1
  BY <1>3, NewOffsetCell, Registers DEF CellOffset
<1>5. MemoryInv'
  <2>1. ScreenOnly(vidmem')
    BY <1>1, <1>2, <1>3, MemoryIsScreenOnly, PrintedKeeps
  <2> QED
    BY <2>1 DEF MemoryInv, ScreenOnly, OnlyScreenWritten
<1> HIDE DEF k, o
<1>6. CursorInv'
  BY <1>1, <1>2, <1>4 DEF CursorInv, Setting
<1>7. MessageInv'
  <2>1. ~hit' => pc' = "idle"
    BY <1>2
  <2> QED
    BY <2>1 DEF MessageInv, Setting
<1> QED
  BY <1>5, <1>6, <1>7 DEF VgaInv

\* vga_clear_screen, between messages.
LEMMA ClearStep == VgaInv /\ vga_clear_screen => VgaInv'
<1> SUFFICES ASSUME VgaInv, vga_clear_screen PROVE VgaInv'
  OBVIOUS
<1>1. /\ CursorInv /\ MemoryInv /\ pc = "idle" /\ vidmem' = Cleared(vidmem)
      /\ index' = CURSOR_LOW /\ high' = 0 /\ low' = 0
      /\ UNCHANGED <<pc, cur_offset, offset, count, hit>>
  BY DEF VgaInv, vga_clear_screen, locals
<1>2. MemoryInv'
  <2>1. ScreenOnly(vidmem')
    BY <1>1, MemoryIsScreenOnly, ClearedKeeps
  <2> QED
    BY <2>1 DEF MemoryInv, ScreenOnly, OnlyScreenWritten
<1>3. CursorInv'
  BY <1>1, ScreenFacts DEF CursorInv, Setting
<1>4. MessageInv'
  BY <1>1 DEF MessageInv, Setting
<1> QED
  BY <1>2, <1>3, <1>4 DEF VgaInv

\* Every step keeps the invariant.
LEMMA NextVgaInv == VgaInv /\ [Next]_vars => VgaInv'
<1> SUFFICES ASSUME VgaInv, [Next]_vars PROVE VgaInv'
  OBVIOUS
<1>1. CASE UNCHANGED vars
  BY <1>1 DEF vars, registers, locals, VgaInv, CursorInv, MemoryInv, MessageInv,
              OnlyScreenWritten
<1>2. CASE Return
  <2>1. /\ pc = "printed" /\ pc' = "idle"
        /\ UNCHANGED <<vidmem, index, high, low, character, cur_offset, offset, count, hit>>
    BY <1>2 DEF Return, At, registers, locals
  <2> QED
    BY <2>1 DEF VgaInv, CursorInv, MemoryInv, MessageInv, OnlyScreenWritten, Setting
<1> QED
  BY <1>1, <1>2, NextCharacterStep, GetStep, PrintStep, SetStep, HandlerStep, ClearStep
     DEF Next

\* The invariant holds throughout.
LEMMA SpecVgaInv == Spec => []VgaInv
<1>1. Init => VgaInv
  BY InitVgaInv
<1>2. VgaInv /\ [Next]_vars => VgaInv'
  BY NextVgaInv
<1> QED
  BY <1>1, <1>2, PTL DEF Spec

\* For every screen and every width of the registers, however handlers tear
\* the cursor, print_char writes nothing outside the screen (vga.c:96).
THEOREM VgaOnlyScreenWritten == Spec => []OnlyScreenWritten
<1>1. VgaInv => OnlyScreenWritten
  BY DEF VgaInv, MemoryInv
<1> QED
  BY <1>1, SpecVgaInv, PTL

\* For every screen, a message that is not interrupted itself is visible from
\* its second character on, and the cursor behind it is on the screen again,
\* wherever earlier interrupts have left it (vga.c:156-183).
THEOREM VgaMessagesRecover == Spec => []MessagesRecover
<1>1. VgaInv => MessagesRecover
  <2> SUFFICES ASSUME VgaInv, pc = "printed", count = 2, ~hit
               PROVE  /\ Cursor = offset \div 2 /\ Cursor < Cells
                      /\ character # Newline => vidmem[Cursor - 1] = character
    BY DEF MessagesRecover
  <2> DEFINE k == offset \div 2
  <2>1. /\ high = k \div Byte /\ low = k % Byte
        /\ character # Newline => vidmem[k - 1] = character
    BY DEF VgaInv, MessageInv
  <2>2. offset \in CellOffset
    BY DEF VgaInv, CursorInv
  <2>3. offset \in Offset /\ k \in 0 .. Cells - 1
    BY <2>2 DEF CellOffset
  <2>4. (k \div Byte) * Byte + (k % Byte) = k
    BY <2>3, Registers
  <2>5. Cursor = k
    BY <2>1, <2>4 DEF Cursor
  <2>6. k < Cells
    BY <2>3, ScreenFacts
  <2> QED
    BY <2>1, <2>5, <2>6
<1> QED
  BY <1>1, SpecVgaInv, PTL
-----------------------------------------------------------------------------
(* The screen as the last rows of an endless sheet. *)

\* The place behind character c at place p of the sheet.
PlaceBehind(p, c) == IF c = Newline THEN (p \div Cols + 1) * Cols ELSE p + 1

\* f has the places of the characters of t on a sheet printed from place s on.
Sheet(f, t, s) ==
  f = [k \in 0 .. Len(t) |-> IF k = 0 THEN s ELSE PlaceBehind(f[k - 1], t[k])]

\* The cells of m are what t leaves on the sheet from place w on, when it ends
\* at cell u.
Drawn(m, f, t, w, u) ==
  /\ f[Len(t)] = u + w
  /\ \A k \in 1 .. Len(t) : f[k - 1] \in Nat /\ f[k - 1] < u + w
  /\ \A k \in 1 .. Len(t), c \in 0 .. Cells - 1 :
       t[k] # Newline /\ f[k - 1] = c + w => m[c] = t[k]
  /\ \A c \in 0 .. Cells - 1 :
       \/ m[c] = Blank
       \/ \E k \in 1 .. Len(t) : t[k] # Newline /\ f[k - 1] = c + w

\* Cell u is in the local of the boot code and in the registers, as far as they
\* have been read and written.
CursorAt(u) ==
  /\ pc \in Setting \cup {"print"} => offset = 2 * u
  /\ pc \in {"idle", "select high", "read high", "select low", "read low", "printed"} =>
       high = u \div Byte /\ low = u % Byte
  /\ pc \in {"read high", "write high"} => index = CURSOR_HIGH
  /\ pc \in {"read low", "write low"} => index = CURSOR_LOW
  /\ pc \in {"select low", "read low"} => cur_offset = high * Byte
  /\ pc \in {"set low", "write low"} => high = u \div Byte

\* As long as no message was interrupted, the screen shows the sheet from row
\* top on, which is not the first only when the cursor is in the last row.
SheetInv ==
  /\ character \in Characters /\ text \in Seq(Characters) /\ start \in 0 .. Cells - 1
  /\ ~torn =>
       /\ Sheet(Place, text, start)
       /\ \E top \in Nat, u \in 0 .. Cells - 1 :
            /\ Drawn(vidmem, Place, text, top * Cols, u)
            /\ top > 0 => u >= Cells - Cols
            /\ CursorAt(u)

\* A quotient and a remainder are those of the number they make.
LEMMA Quotient ==
  ASSUME NEW b \in Nat, b > 0, NEW q \in Nat, NEW r \in Nat, r < b
  PROVE  (b * q + r) \div b = q
OBVIOUS

\* print_char moves the cursor of a cell as the sheet goes on.
LEMMA PlaceMoves ==
  ASSUME NEW u \in 0 .. Cells - 1, NEW top \in Nat, NEW c
  PROVE  /\ CellOf(2 * u) = u /\ InRange(2 * u) /\ 2 * u \in Offset
         /\ EndOf(c, 2 * u) \in 0 .. Cells /\ EndOf(c, 2 * u) > u
         /\ PlaceBehind(u + top * Cols, c) = EndOf(c, 2 * u) + top * Cols
<1> DEFINE row == offset_to_row(2 * u)
           col == offset_to_col(2 * u)
           w == top * Cols
           v == row * Cols
<1>1. InRange(2 * u) /\ 2 * u \in Offset /\ v + col = u
  BY CellAccepted DEF CellOffset
<1>2. row \in 0 .. Rows - 1 /\ col \in 0 .. Cols - 1
  BY <1>1, Accepted
<1>3. CellOf(2 * u) = u /\ EndOf(c, 2 * u) \in 0 .. Cells
  BY <1>1, PrintedWhere DEF CellOf
<1>4. EndOf(c, 2 * u) = IF c = Newline THEN (row + 1) * Cols ELSE u + 1
  BY <1>3 DEF EndOf
<1>5. /\ Rows \in Nat /\ Cols \in Nat /\ Cols > 0 /\ Cells \in Nat
      /\ row \in Nat /\ col \in Nat /\ col < Cols /\ u \in Nat
  BY <1>2, ScreenFacts
<1> HIDE DEF row, col
<1>6. v \in Nat /\ w \in Nat /\ (row + 1) * Cols = v + Cols
  BY <1>5
<1>7. PlaceBehind(u + w, c) = EndOf(c, 2 * u) + w
  <2>1. CASE c # Newline
    <3> HIDE DEF w, v
    <3>1. u + w + 1 = u + 1 + w
      BY <1>5, <1>6
    <3> QED
      BY <1>4, <2>1, <3>1 DEF PlaceBehind
  <2>2. CASE c = Newline
    <3> DEFINE q == row + top
    <3>1. q \in Nat /\ Cols * q = v + w /\ (q + 1) * Cols = v + w + Cols
      BY <1>5
    <3> HIDE DEF q
    <3>2. (Cols * q + col) \div Cols = q
      BY <1>5, <3>1, Quotient
    <3> HIDE DEF w, v
    <3>3. u + w = Cols * q + col
      <4> DEFINE x == Cols * q
      <4>1. x = v + w
        BY <3>1
      <4> HIDE DEF x
      <4>2. u + w = x + col
        BY <1>1, <1>5, <1>6, <4>1
      <4> QED
        BY <4>2 DEF x
    <3>4. PlaceBehind(u + w, c) = (q + 1) * Cols
      BY <2>2, <3>2, <3>3 DEF PlaceBehind
    <3>5. v + w + Cols = v + Cols + w
      BY <1>5, <1>6
    <3> QED
      BY <1>4, <1>6, <2>2, <3>1, <3>4, <3>5
  <2> QED
    BY <2>1, <2>2
<1> HIDE DEF v
<1>8. EndOf(c, 2 * u) > u
  <2>1. CASE c # Newline
    BY <1>4, <1>5, <2>1
  <2>2. CASE c = Newline
    <3>1. EndOf(c, 2 * u) = v + Cols
      BY <1>4, <1>6, <2>2
    <3> QED
      BY <1>1, <1>5, <1>6, <3>1
  <2> QED
    BY <2>1, <2>2
<1> QED
  BY <1>1, <1>3, <1>7, <1>8 DEF w

\* One more character on the sheet.
LEMMA SheetAppend ==
  ASSUME NEW t \in Seq(Characters), NEW f, NEW s, Sheet(f, t, s), NEW c \in Characters
  PROVE  \E g : /\ Sheet(g, Append(t, c), s)
                /\ \A k \in 0 .. Len(t) : g[k] = f[k]
                /\ g[Len(t) + 1] = PlaceBehind(f[Len(t)], c)
<1> DEFINE n == Len(t)
           tc == Append(t, c)
           g == [k \in 0 .. n + 1 |-> IF k <= n THEN f[k] ELSE PlaceBehind(f[n], c)]
           F(h, k) == IF k = 0 THEN s ELSE PlaceBehind(h[k - 1], tc[k])
<1>1. n \in Nat
  BY LenProperties
<1>2. /\ Len(tc) = n + 1 /\ tc[n + 1] = c
      /\ \A k \in 1 .. n : tc[k] = t[k]
  BY AppendProperties
<1>3. \A k \in 0 .. n : f[k] = IF k = 0 THEN s ELSE PlaceBehind(f[k - 1], t[k])
  BY DEF Sheet
<1> HIDE DEF n, tc
<1>4. /\ \A k \in 0 .. n : g[k] = f[k]
      /\ g[n + 1] = PlaceBehind(f[n], c)
  <2>1. \A k \in 0 .. n : k \in 0 .. n + 1 /\ k <= n
    BY <1>1
  <2>2. n + 1 \in 0 .. n + 1 /\ ~(n + 1 <= n)
    BY <1>1
  <2> QED
    BY <2>1, <2>2
<1>5. g = [k \in 0 .. n + 1 |-> g[k]]
  OBVIOUS
<1> HIDE DEF g
<1>6. ASSUME NEW k \in 0 .. n + 1  PROVE g[k] = F(g, k)
  <2>1. CASE k = n + 1
    <3>1. k # 0 /\ k - 1 = n /\ n \in 0 .. n
      BY <1>1, <2>1
    <3> QED
      BY <1>2, <1>4, <2>1, <3>1
  <2>2. CASE k # n + 1 /\ k # 0
    <3>1. k \in 0 .. n /\ k \in 1 .. n /\ k - 1 \in 0 .. n
      BY <1>1, <2>2
    <3> QED
      BY <1>2, <1>3, <1>4, <2>2, <3>1
  <2>3. CASE k = 0
    <3>1. 0 \in 0 .. n
      BY <1>1
    <3> QED
      BY <1>3, <1>4, <2>3, <3>1
  <2> QED
    BY <2>1, <2>2, <2>3
<1>7. g = [k \in 0 .. n + 1 |-> F(g, k)]
  BY <1>5, <1>6
<1>8. Sheet(g, tc, s)
  BY <1>2, <1>7 DEF Sheet
<1> QED
  BY <1>4, <1>8 DEF n, tc

\* The places on the sheet are determined by the text.
LEMMA SheetUnique ==
  ASSUME NEW t \in Seq(Characters), NEW f, NEW g, NEW s, Sheet(f, t, s), Sheet(g, t, s)
  PROVE  f = g
<1> DEFINE n == Len(t)
           S == {k \in 0 .. n : f[k] # g[k]}
<1>1. n \in Nat
  BY LenProperties
<1>2. /\ \A k \in 0 .. n : f[k] = IF k = 0 THEN s ELSE PlaceBehind(f[k - 1], t[k])
      /\ \A k \in 0 .. n : g[k] = IF k = 0 THEN s ELSE PlaceBehind(g[k - 1], t[k])
      /\ f = [k \in 0 .. n |-> f[k]] /\ g = [k \in 0 .. n |-> g[k]]
  BY DEF Sheet
<1> HIDE DEF n
<1>3. S = {}
  <2> SUFFICES ASSUME S # {} PROVE FALSE
    OBVIOUS
  <2>1. S \subseteq Nat
    BY <1>1
  <2>2. PICK k \in S : \A j \in S : ~(j < k)
    BY <2>1, LeastNatural
  <2>3. k \in 0 .. n /\ f[k] # g[k]
    BY <2>2
  <2>4. k # 0
    BY <1>2, <2>3
  <2>5. k - 1 \in 0 .. n /\ k - 1 < k
    BY <1>1, <2>3, <2>4
  <2>6. f[k - 1] = g[k - 1]
    BY <2>2, <2>5
  <2> QED
    BY <1>2, <2>3, <2>4, <2>6
<1>4. \A k \in 0 .. n : f[k] = g[k]
  BY <1>3
<1> QED
  BY <1>2, <1>4

\* The places of any text.
PlaceOf(t, s) == CHOOSE f : Sheet(f, t, s)

\* They are Place, before and after a step.
LEMMA PlaceIsSheet == Place = PlaceOf(text, start) /\ Place' = PlaceOf(text', start')
BY DEF Place, PlaceOf, Sheet, PlaceBehind

\* Whatever is a sheet of the text is the sheet of it.
LEMMA PlaceOfSheet ==
  ASSUME NEW t \in Seq(Characters), NEW f, NEW s, Sheet(f, t, s)
  PROVE  PlaceOf(t, s) = f
<1>1. Sheet(PlaceOf(t, s), t, s)
  BY DEF PlaceOf
<1> HIDE DEF PlaceOf
<1> QED
  BY <1>1, SheetUnique

\* A character is stored at the cursor, or the line ends there.
LEMMA DrawnStore ==
  ASSUME NEW t \in Seq(Characters), NEW c \in Characters, NEW m, NEW n, NEW f, NEW g,
         NEW w \in Nat, NEW u \in 0 .. Cells - 1, NEW e \in 0 .. Cells, e > u,
         Drawn(m, f, t, w, u),
         \A k \in 0 .. Len(t) : g[k] = f[k], g[Len(t) + 1] = e + w,
         c # Newline => n[u] = c,
         \A x \in 0 .. Cells - 1 : x # u \/ c = Newline => n[x] = m[x]
  PROVE  Drawn(n, g, Append(t, c), w, e)
<1> DEFINE l == Len(t)
           tc == Append(t, c)
<1>1. l \in Nat /\ Cells \in Nat /\ u \in Nat /\ e \in Nat
  BY LenProperties, ScreenFacts
<1>2. /\ Len(tc) = l + 1 /\ tc[l + 1] = c
      /\ \A k \in 1 .. l : tc[k] = t[k]
  BY AppendProperties
<1>3. /\ f[l] = u + w
      /\ \A k \in 1 .. l : f[k - 1] \in Nat /\ f[k - 1] < u + w
      /\ \A k \in 1 .. l, x \in 0 .. Cells - 1 :
           t[k] # Newline /\ f[k - 1] = x + w => m[x] = t[k]
      /\ \A x \in 0 .. Cells - 1 :
           \/ m[x] = Blank
           \/ \E k \in 1 .. l : t[k] # Newline /\ f[k - 1] = x + w
  BY DEF Drawn
<1>4. g[l + 1] = e + w /\ \A k \in 0 .. l : g[k] = f[k]
  OBVIOUS
<1> HIDE DEF l, tc
<1>5. ASSUME NEW k \in 1 .. l + 1
      PROVE  \/ k = l + 1 /\ tc[k] = c /\ g[k - 1] = u + w
             \/ k \in 1 .. l /\ tc[k] = t[k] /\ g[k - 1] = f[k - 1] /\ g[k - 1] < u + w
                /\ g[k - 1] \in Nat
  <2>1. CASE k = l + 1
    <3>1. k - 1 = l /\ l \in 0 .. l
      BY <1>1, <2>1
    <3> QED
      BY <1>2, <1>3, <1>4, <2>1, <3>1
  <2>2. CASE k # l + 1
    <3>1. k \in 1 .. l /\ k - 1 \in 0 .. l
      BY <1>1, <2>2
    <3> QED
      BY <1>2, <1>3, <1>4, <3>1
  <2> QED
    BY <2>1, <2>2
<1>6. ASSUME NEW k \in 1 .. l + 1
      PROVE  g[k - 1] \in Nat /\ g[k - 1] < e + w
  <2>1. u + w \in Nat /\ u + w < e + w
    BY <1>1
  <2>2. g[k - 1] = u + w \/ (g[k - 1] < u + w /\ g[k - 1] \in Nat)
    BY <1>5
  <2> DEFINE y == g[k - 1]
  <2> HIDE DEF y
  <2>3. y \in Nat /\ y < e + w
    BY <1>1, <2>1, <2>2 DEF y
  <2> QED
    BY <2>3 DEF y
<1>7. ASSUME NEW k \in 1 .. l + 1, NEW x \in 0 .. Cells - 1,
             tc[k] # Newline, g[k - 1] = x + w
      PROVE  n[x] = tc[k]
  <2>1. CASE k = l + 1 /\ tc[k] = c /\ g[k - 1] = u + w
    <3>1. x = u
      BY <1>1, <1>7, <2>1
    <3> QED
      BY <1>7, <2>1, <3>1
  <2>2. CASE k \in 1 .. l /\ tc[k] = t[k] /\ g[k - 1] = f[k - 1] /\ g[k - 1] < u + w
    <3>1. x # u
      BY <1>1, <1>7, <2>2
    <3>2. m[x] = t[k]
      BY <1>3, <1>7, <2>2
    <3> QED
      BY <2>2, <3>1, <3>2
  <2> QED
    BY <1>5, <2>1, <2>2
<1>8. ASSUME NEW x \in 0 .. Cells - 1
      PROVE  \/ n[x] = Blank
             \/ \E k \in 1 .. l + 1 : tc[k] # Newline /\ g[k - 1] = x + w
  <2>1. CASE x = u /\ c # Newline
    <3>1. l + 1 \in 1 .. l + 1 /\ (l + 1) - 1 = l /\ l \in 0 .. l
      BY <1>1
    <3>2. tc[l + 1] # Newline /\ g[(l + 1) - 1] = x + w
      BY <1>2, <1>3, <1>4, <2>1, <3>1
    <3> QED
      BY <3>1, <3>2
  <2>2. CASE ~(x = u /\ c # Newline)
    <3>1. n[x] = m[x]
      BY <2>2
    <3>2. ASSUME NEW k \in 1 .. l, t[k] # Newline, f[k - 1] = x + w
          PROVE  \E j \in 1 .. l + 1 : tc[j] # Newline /\ g[j - 1] = x + w
      <4>1. k \in 1 .. l + 1 /\ k - 1 \in 0 .. l
        BY <1>1
      <4> QED
        BY <1>2, <1>4, <3>2, <4>1
    <3> QED
      BY <1>3, <3>1, <3>2
  <2> QED
    BY <2>1, <2>2
<1>9. Drawn(n, g, tc, w, e)
  BY <1>2, <1>4, <1>6, <1>7, <1>8 DEF Drawn
<1> QED
  BY <1>9 DEF tc

\* The screen scrolls: it shows the sheet from the next row on.
LEMMA DrawnScroll ==
  ASSUME NEW t, NEW m, NEW n, NEW f, NEW w \in Nat, Drawn(m, f, t, w, Cells),
         \A x \in 0 .. Cells - 1 :
           n[x] = IF x < Cells - Cols THEN m[x + Cols] ELSE Blank
  PROVE  Drawn(n, f, t, w + Cols, Cells - Cols)
<1>1. Cells \in Nat /\ Cols \in Nat /\ Cols > 0 /\ 2 * Cols <= Cells
  BY ScreenFacts
<1>2. (Cells - Cols) + (w + Cols) = Cells + w
  BY <1>1
<1> DEFINE l == Len(t)
<1>3. /\ f[l] = Cells + w
      /\ \A k \in 1 .. l : f[k - 1] \in Nat /\ f[k - 1] < Cells + w
      /\ \A k \in 1 .. l, x \in 0 .. Cells - 1 :
           t[k] # Newline /\ f[k - 1] = x + w => m[x] = t[k]
      /\ \A x \in 0 .. Cells - 1 :
           \/ m[x] = Blank
           \/ \E k \in 1 .. l : t[k] # Newline /\ f[k - 1] = x + w
  BY DEF Drawn
<1> HIDE DEF l
<1>4. \A x \in 0 .. Cells - 1 : (x + Cols) + w = x + (w + Cols)
  BY <1>1
<1>5. ASSUME NEW k \in 1 .. l, NEW x \in 0 .. Cells - 1,
             t[k] # Newline, f[k - 1] = x + (w + Cols)
      PROVE  n[x] = t[k]
  <2>1. x + (w + Cols) < Cells + w
    BY <1>3, <1>5
  <2>2. x < Cells - Cols /\ x + Cols \in 0 .. Cells - 1
    BY <1>1, <2>1
  <2>3. m[x + Cols] = t[k]
    BY <1>3, <1>4, <1>5, <2>2
  <2> QED
    BY <2>2, <2>3
<1>6. ASSUME NEW x \in 0 .. Cells - 1
      PROVE  \/ n[x] = Blank
             \/ \E k \in 1 .. l : t[k] # Newline /\ f[k - 1] = x + (w + Cols)
  <2>1. CASE x < Cells - Cols
    <3>1. x + Cols \in 0 .. Cells - 1 /\ n[x] = m[x + Cols]
      BY <1>1, <2>1
    <3> QED
      BY <1>3, <1>4, <3>1
  <2>2. CASE ~(x < Cells - Cols)
    BY <2>2
  <2> QED
    BY <2>1, <2>2
<1> QED
  BY <1>2, <1>3, <1>5, <1>6 DEF Drawn, l

\* print_char on a screen that shows the sheet from row top on.
LEMMA PrintedDrawn ==
  ASSUME NEW t \in Seq(Characters), NEW c \in Characters, NEW m, ScreenOnly(m),
         NEW f, NEW s, Sheet(f, t, s), NEW top \in Nat, NEW u \in 0 .. Cells - 1,
         Drawn(m, f, t, top * Cols, u), top > 0 => u >= Cells - Cols
  PROVE  \E g : \E top2 \in Nat, u2 \in 0 .. Cells - 1 :
           /\ Sheet(g, Append(t, c), s)
           /\ Drawn(Printed(m, c, 2 * u), g, Append(t, c), top2 * Cols, u2)
           /\ top2 > 0 => u2 >= Cells - Cols
           /\ NewOffset(c, 2 * u) = 2 * u2
<1> DEFINE w == top * Cols
           e == EndOf(c, 2 * u)
           n == Stored(m, c, 2 * u)
           p == Printed(m, c, 2 * u)
<1>1. /\ CellOf(2 * u) = u /\ InRange(2 * u) /\ 2 * u \in Offset
      /\ e \in 0 .. Cells /\ e > u
      /\ PlaceBehind(u + w, c) = e + w
  BY PlaceMoves
<1>2. w \in Nat /\ (top + 1) * Cols = w + Cols /\ Cells \in Nat /\ Cols \in Nat
      /\ 2 * Cols <= Cells /\ u \in Nat
  BY ScreenFacts
<1>3. PICK g : /\ Sheet(g, Append(t, c), s)
               /\ \A k \in 0 .. Len(t) : g[k] = f[k]
               /\ g[Len(t) + 1] = PlaceBehind(f[Len(t)], c)
  BY SheetAppend
<1>4. g[Len(t) + 1] = e + w
  BY <1>1, <1>3 DEF Drawn
<1>5. /\ DOMAIN m = Offset /\ \A x \in 0 .. Cells - 1 : x \in Offset
      /\ DOMAIN n = Offset
      /\ c # Newline => n[u] = c
      /\ \A x \in 0 .. Cells - 1 : x # u \/ c = Newline => n[x] = m[x]
  <2>1. DOMAIN m = Offset /\ \A x \in 0 .. Cells - 1 : x \in Offset
    BY ScreenFacts, SMTT(30) DEF ScreenOnly, Offset
  <2>2. get_offset(offset_to_col(2 * u), offset_to_row(2 * u)) \div 2 = u
    BY <1>1, PrintedWhere
  <2>3. n = IF c = Newline THEN m ELSE [m EXCEPT ![u] = c]
    BY <2>2 DEF Stored
  <2> HIDE DEF n
  <2> QED
    BY <2>1, <2>3
<1>6. /\ OutOfBounds(Behind(c, 2 * u)) <=> e = Cells
      /\ NewOffset(c, 2 * u) \in CellOffset /\ Behind(c, 2 * u) = 2 * e
  BY <1>1, NewOffsetCell, PrintedWhere
<1> HIDE DEF w, e, n
<1>7. Drawn(n, g, Append(t, c), w, e)
  <2>1. Drawn(m, f, t, w, u) /\ \A k \in 0 .. Len(t) : g[k] = f[k]
    BY <1>3 DEF w
  <2> QED
    BY <1>1, <1>2, <1>4, <1>5, <2>1, DrawnStore
<1>8. CASE e # Cells
  <2>1. p = n /\ NewOffset(c, 2 * u) = 2 * e
    BY <1>1, <1>6, <1>8 DEF Printed, NewOffset, n
  <2>2. e \in 0 .. Cells - 1 /\ (u >= Cells - Cols => e >= Cells - Cols)
    BY <1>1, <1>2, <1>8
  <2> HIDE DEF p
  <2>3. Drawn(p, g, Append(t, c), top * Cols, e)
    BY <1>7, <2>1 DEF w
  <2> QED
    BY <1>3, <2>1, <2>2, <2>3 DEF p
<1>9. CASE e = Cells
  <2> DEFINE v == Cells - Cols
  <2>1. p = Scrolled(n) /\ NewOffset(c, 2 * u) = 2 * v
    <3>1. p = Scrolled(n) /\ NewOffset(c, 2 * u) = 2 * Cells - 2 * Cols
      BY <1>1, <1>6, <1>9 DEF Printed, NewOffset, n
    <3> QED
      BY <1>2, <3>1
  <2>2. v \in 0 .. Cells - 1 /\ v >= Cells - Cols /\ top + 1 \in Nat
    BY <1>2, ScreenFacts
  <2> HIDE DEF p
  <2>3. \A x \in 0 .. Cells - 1 :
          p[x] = IF x < Cells - Cols THEN n[x + Cols] ELSE Blank
    <3>1. \A x \in Offset :
            p[x] = IF x < Cells - Cols THEN n[x + Cols] ELSE IF x < Cells THEN Blank ELSE n[x]
      BY <1>5, <2>1 DEF Scrolled
    <3>2. \A x \in 0 .. Cells - 1 : x < Cells
      BY <1>2
    <3> QED
      BY <1>5, <3>1, <3>2
  <2>4. Drawn(p, g, Append(t, c), w + Cols, v)
    BY <1>2, <1>7, <1>9, <2>3, DrawnScroll
  <2>5. Drawn(p, g, Append(t, c), (top + 1) * Cols, v)
    BY <1>2, <2>4
  <2> HIDE DEF v
  <2>6. top + 1 > 0 => v >= Cells - Cols
    BY <2>2
  <2> QED
    BY <1>3, <2>1, <2>2, <2>5, <2>6 DEF p
<1> QED
  BY <1>8, <1>9

\* Blanks printed into one cell after the other.
LEMMA PrintedBlank ==
  ASSUME NEW m, ScreenOnly(m), NEW k \in 0 .. Cells - 1,
         \A x \in 0 .. k - 1 : m[x] = Blank
  PROVE  \A x \in 0 .. k : Printed(m, Blank, 2 * k)[x] = Blank
<1> DEFINE n == [m EXCEPT ![k] = Blank]
<1>0. Blank # Newline
  BY DEF Blank, Newline
<1>1. /\ CellOf(2 * k) = k /\ InRange(2 * k) /\ 2 * k \in Offset
      /\ EndOf(Blank, 2 * k) = k + 1
  <2>1. CellOf(2 * k) = k /\ InRange(2 * k) /\ 2 * k \in Offset
    BY PlaceMoves
  <2> QED
    BY <1>0, <2>1 DEF EndOf
<1>2. Stored(m, Blank, 2 * k) = n
  <2>1. get_offset(offset_to_col(2 * k), offset_to_row(2 * k)) \div 2 = k
    BY <1>1, PrintedWhere
  <2> QED
    BY <1>0, <2>1 DEF Stored
<1>3. OutOfBounds(Behind(Blank, 2 * k)) <=> k + 1 = Cells
  BY <1>1, NewOffsetCell
<1>4. DOMAIN m = Offset /\ \A x \in 0 .. Cells - 1 : x \in Offset /\ x < Cells
  BY ScreenFacts DEF ScreenOnly, Offset
<1>5. DOMAIN n = Offset /\ \A x \in 0 .. k : n[x] = Blank
  <2>1. \A x \in 0 .. k : x \in Offset /\ (x = k \/ x \in 0 .. k - 1)
    BY <1>4, ScreenFacts
  <2> QED
    BY <1>4, <2>1
<1> HIDE DEF n
<1>6. CASE k + 1 # Cells
  <2>1. Printed(m, Blank, 2 * k) = n
    BY <1>1, <1>2, <1>3, <1>6 DEF Printed
  <2> QED
    BY <1>5, <2>1
<1>7. CASE k + 1 = Cells
  <2>1. Printed(m, Blank, 2 * k) = Scrolled(n)
    BY <1>1, <1>2, <1>3, <1>7 DEF Printed
  <2>2. ASSUME NEW x \in 0 .. k  PROVE Scrolled(n)[x] = Blank
    <3>1. x \in 0 .. Cells - 1 /\ (x < Cells - Cols => x + Cols \in 0 .. k)
      BY <1>7, ScreenFacts
    <3>2. Scrolled(n)[x] = IF x < Cells - Cols THEN n[x + Cols] ELSE Blank
      BY <1>4, <1>5, <3>1 DEF Scrolled
    <3> QED
      BY <1>5, <3>1, <3>2
  <2> QED
    BY <2>1, <2>2
<1> QED
  BY <1>6, <1>7

\* vga_clear_screen leaves a blank screen.
LEMMA ClearedBlank ==
  ASSUME NEW m, ScreenOnly(m)
  PROVE  \A x \in 0 .. Cells - 1 : Cleared(m)[x] = Blank
<1> DEFINE f == CHOOSE f : Clearing(f, Cells, m)
           B(k) == ScreenOnly(f[k]) /\ \A x \in 0 .. k - 1 : f[k][x] = Blank
           S == {k \in 0 .. Cells : ~B(k)}
<1>1. Cells \in Nat
  BY ScreenFacts
<1>2. Clearing(f, Cells, m)
  BY <1>1, ClearingExists
<1>3. Cleared(m) = f[Cells]
  BY DEF Cleared, Clearing
<1> HIDE DEF f
<1>4. \A c \in 0 .. Cells :
        f[c] = IF c = 0 THEN m ELSE Printed(f[c - 1], Blank, 2 * (c - 1))
  BY <1>2 DEF Clearing
<1>5. S = {}
  <2> SUFFICES ASSUME S # {} PROVE FALSE
    OBVIOUS
  <2>1. S \subseteq Nat
    BY <1>1
  <2>2. PICK k \in S : \A j \in S : ~(j < k)
    BY <2>1, LeastNatural
  <2>3. k \in 0 .. Cells /\ ~B(k)
    BY <2>2
  <2>4. k # 0
    <3>1. 0 \in 0 .. Cells /\ 0 .. 0 - 1 = {}
      BY <1>1
    <3>2. f[0] = m
      BY <1>4, <3>1
    <3>3. B(0)
      BY <3>1, <3>2
    <3> QED
      BY <2>3, <3>3
  <2> DEFINE j == k - 1
  <2>5. j \in 0 .. Cells - 1 /\ j \in 0 .. Cells /\ j < k /\ k - 1 = j /\ 2 * j \in Offset
        /\ 0 .. k - 1 = 0 .. j
    BY <1>1, <2>3, <2>4, ScreenFacts DEF Offset
  <2>6. f[k] = Printed(f[j], Blank, 2 * j)
    BY <1>4, <2>3, <2>4
  <2> HIDE DEF j
  <2>7. B(j)
    BY <2>2, <2>5
  <2>8. ScreenOnly(Printed(f[j], Blank, 2 * j))
    BY <2>5, <2>7, PrintedKeeps
  <2>9. \A x \in 0 .. j : Printed(f[j], Blank, 2 * j)[x] = Blank
    BY <2>5, <2>7, PrintedBlank
  <2> QED
    BY <2>3, <2>5, <2>6, <2>8, <2>9
<1>6. Cells \in 0 .. Cells
  BY <1>1
<1>7. B(Cells)
  BY <1>5, <1>6
<1> QED
  BY <1>3, <1>7

\* The two registers of a cell, put together, and its offset.
LEMMA CellRegisters ==
  ASSUME NEW u \in 0 .. Cells - 1
  PROVE  /\ (u \div Byte) * Byte + (u % Byte) = u
         /\ FromRegisters(u) = 2 * u /\ (2 * u) \div 2 = u
<1>1. u \in 0 .. Cells /\ u \in Nat /\ Byte \in Nat \ {0}
  BY ScreenFacts
<1>2. (2 * u) % (Byte * Byte) = 2 * u /\ (2 * u) \div 2 = u
  BY <1>1, Doubled
<1>3. 2 * u \in Offset
  BY CellAccepted DEF CellOffset
<1>4. (((2 * u) \div 2) \div Byte) * Byte + (((2 * u) \div 2) % Byte) = (2 * u) \div 2
  BY <1>3, Registers
<1> QED
  BY <1>2, <1>4 DEF FromRegisters

\* Steps that print nothing.
LEMMA SheetKept ==
  ASSUME SheetInv, UNCHANGED <<vidmem, text, start, torn>>, character' \in Characters,
         \A u \in 0 .. Cells - 1 : CursorAt(u) => CursorAt(u)'
  PROVE  SheetInv'
<1>1. Place' = Place
  BY PlaceIsSheet
<1>2. /\ text \in Seq(Characters) /\ start \in 0 .. Cells - 1
      /\ ~torn =>
           /\ Sheet(Place, text, start)
           /\ \E top \in Nat, u \in 0 .. Cells - 1 :
                /\ Drawn(vidmem, Place, text, top * Cols, u)
                /\ top > 0 => u >= Cells - Cols
                /\ CursorAt(u)
  BY DEF SheetInv
<1>3. ASSUME ~torn
      PROVE  /\ Sheet(Place, text, start)
             /\ \E top \in Nat, u \in 0 .. Cells - 1 :
                  /\ Drawn(vidmem, Place, text, top * Cols, u)
                  /\ top > 0 => u >= Cells - Cols
                  /\ CursorAt(u)'
  <2>1. PICK top \in Nat, u \in 0 .. Cells - 1 :
          /\ Drawn(vidmem, Place, text, top * Cols, u)
          /\ top > 0 => u >= Cells - Cols
          /\ CursorAt(u)
    BY <1>2, <1>3
  <2>2. CursorAt(u)'
    BY <2>1
  <2> QED
    BY <1>2, <1>3, <2>1, <2>2
<1> HIDE DEF Place
<1> QED
  BY <1>1, <1>2, <1>3 DEF SheetInv

\* A character is printed at the cursor.
LEMMA SheetPrinted ==
  ASSUME SheetInv, MemoryInv, NEW c \in Characters, NEW u \in 0 .. Cells - 1,
         NEW top \in Nat, ~torn, torn' = FALSE,
         Drawn(vidmem, Place, text, top * Cols, u), top > 0 => u >= Cells - Cols,
         vidmem' = Printed(vidmem, c, 2 * u), text' = Append(text, c),
         UNCHANGED <<start, character>>,
         \A v \in 0 .. Cells - 1 : NewOffset(c, 2 * u) = 2 * v => CursorAt(v)'
  PROVE  SheetInv'
<1>1. /\ text \in Seq(Characters) /\ start \in 0 .. Cells - 1 /\ character \in Characters
      /\ Sheet(Place, text, start)
  BY DEF SheetInv
<1>2. ScreenOnly(vidmem)
  BY MemoryIsScreenOnly
<1> DEFINE f == Place
           m == Printed(vidmem, c, 2 * u)
           t == Append(text, c)
<1>3. PICK g : \E top2 \in Nat, u2 \in 0 .. Cells - 1 :
         /\ Sheet(g, t, start)
         /\ Drawn(m, g, t, top2 * Cols, u2)
         /\ top2 > 0 => u2 >= Cells - Cols
         /\ NewOffset(c, 2 * u) = 2 * u2
  <2> HIDE DEF Place
  <2> QED
    BY <1>1, <1>2, PrintedDrawn
<1>4. PICK top2 \in Nat, u2 \in 0 .. Cells - 1 :
         /\ Sheet(g, t, start)
         /\ Drawn(m, g, t, top2 * Cols, u2)
         /\ top2 > 0 => u2 >= Cells - Cols
         /\ NewOffset(c, 2 * u) = 2 * u2
  BY <1>3
<1>5. t \in Seq(Characters)
  BY <1>1, AppendProperties
<1>6. Place' = g
  <2>1. PlaceOf(t, start) = g
    BY <1>4, <1>5, PlaceOfSheet
  <2> QED
    BY <2>1, PlaceIsSheet
<1>7. CursorAt(u2)'
  BY <1>4
<1> HIDE DEF Place, f, m, t
<1>8. vidmem' = m /\ text' = t /\ start' = start
  BY DEF m, t
<1>9. \E top3 \in Nat, u3 \in 0 .. Cells - 1 :
         /\ Drawn(m, g, t, top3 * Cols, u3)
         /\ top3 > 0 => u3 >= Cells - Cols
         /\ CursorAt(u3)'
  BY <1>4, <1>7
<1> QED
  BY <1>1, <1>4, <1>5, <1>6, <1>8, <1>9 DEF SheetInv

\* The boot code takes up a character.
LEMMA SheetNextCharacter ==
  ASSUME SheetInv, NEW c \in Characters, NextCharacter(c)
  PROVE  SheetInv'
<1>1. /\ UNCHANGED <<vidmem, text, start, torn>> /\ character' = c
      /\ pc \in {"idle", "printed"} /\ pc' = IF pc = "idle" THEN "select high" ELSE "print"
      /\ UNCHANGED <<index, high, low, cur_offset, offset>>
  BY DEF NextCharacter, registers
<1>2. \A u \in 0 .. Cells - 1 : CursorAt(u) => CursorAt(u)'
  BY <1>1 DEF CursorAt, Setting
<1> QED
  BY <1>1, <1>2, SheetKept

\* get_cursor_offset reads the cursor.
LEMMA SheetGet ==
  ASSUME SheetInv, get_cursor_offset
  PROVE  SheetInv'
<1>1. UNCHANGED <<vidmem, text, start, torn, character>>
  BY DEF get_cursor_offset
<1>2. ASSUME NEW u \in 0 .. Cells - 1, CursorAt(u)
      PROVE  CursorAt(u)'
  <2>1. CASE pc = "select high"
    <3>1. pc' = "read high" /\ index' = CURSOR_HIGH /\ UNCHANGED <<high, low, cur_offset, offset>>
      BY <2>1 DEF get_cursor_offset, At, Select
    <3> QED
      BY <1>2, <2>1, <3>1 DEF CursorAt, Setting
  <2>2. CASE pc = "read high"
    <3>1. /\ pc' = "select low" /\ cur_offset' = io_byte_in * Byte
          /\ UNCHANGED <<index, high, low, offset>>
      BY <2>2 DEF get_cursor_offset, At, registers
    <3>2. io_byte_in = high
      BY <1>2, <2>2 DEF CursorAt, io_byte_in
    <3> QED
      BY <1>2, <2>2, <3>1, <3>2 DEF CursorAt, Setting
  <2>3. CASE pc = "select low"
    <3>1. pc' = "read low" /\ index' = CURSOR_LOW /\ UNCHANGED <<high, low, cur_offset, offset>>
      BY <2>3 DEF get_cursor_offset, At, Select
    <3> QED
      BY <1>2, <2>3, <3>1 DEF CursorAt, Setting
  <2>4. CASE pc = "read low"
    <3>1. pc' = "print" /\ offset' = FromRegisters(cur_offset + io_byte_in)
      BY <2>4 DEF get_cursor_offset, At
    <3>2. io_byte_in = low
      <4>1. index = CURSOR_LOW
        BY <1>2, <2>4 DEF CursorAt
      <4>2. CURSOR_LOW # CURSOR_HIGH
        BY DEF CURSOR_LOW, CURSOR_HIGH
      <4> QED
        BY <4>1, <4>2 DEF io_byte_in
    <3>3. cur_offset = (u \div Byte) * Byte /\ low = u % Byte
      BY <1>2, <2>4 DEF CursorAt
    <3>4. offset' = 2 * u
      BY <3>1, <3>2, <3>3, CellRegisters
    <3> QED
      BY <3>1, <3>4 DEF CursorAt, Setting
  <2> QED
    BY <2>1, <2>2, <2>3, <2>4 DEF get_cursor_offset, At
<1>3. character \in Characters
  BY DEF SheetInv
<1> QED
  BY <1>1, <1>2, <1>3, SheetKept

\* set_cursor_offset writes it back.
LEMMA SheetSet ==
  ASSUME SheetInv, set_cursor_offset
  PROVE  SheetInv'
<1>1. UNCHANGED <<vidmem, text, start, torn, character, cur_offset, offset>>
  BY DEF set_cursor_offset, locals
<1>2. ASSUME NEW u \in 0 .. Cells - 1, CursorAt(u)
      PROVE  CursorAt(u)'
  <2> DEFINE q == (offset \div 2) \div Byte
             r == (offset \div 2) % Byte
  <2>1. \/ pc = "set high" /\ pc' = "write high" /\ Select(CURSOR_HIGH)
        \/ pc = "write high" /\ pc' = "set low" /\ io_byte_out(q)
        \/ pc = "set low" /\ pc' = "write low" /\ Select(CURSOR_LOW)
        \/ pc = "write low" /\ pc' = "printed" /\ io_byte_out(r)
    BY DEF set_cursor_offset, At
  <2>2. offset = 2 * u
    BY <1>2, <2>1 DEF CursorAt, Setting
  <2>3. q = u \div Byte /\ r = u % Byte
    BY <2>2, CellRegisters
  <2> HIDE DEF q, r
  <2>4. CURSOR_LOW # CURSOR_HIGH
    BY DEF CURSOR_LOW, CURSOR_HIGH
  <2>5. /\ pc = "write high" => index = CURSOR_HIGH
        /\ pc = "write low" => index = CURSOR_LOW
        /\ pc \in {"set low", "write low"} => high = q
    BY <1>2, <2>3 DEF CursorAt
  <2>6. /\ pc' = "write high" => index' = CURSOR_HIGH
        /\ pc' = "write low" => index' = CURSOR_LOW
        /\ pc' \in {"set low", "write low", "printed"} => high' = q
        /\ pc' = "printed" => low' = r
        /\ pc' \in {"write high", "set low", "write low", "printed"}
    BY <2>1, <2>4, <2>5 DEF Select, io_byte_out
  <2> QED
    BY <1>1, <2>2, <2>3, <2>6 DEF CursorAt
<1>3. character \in Characters
  BY DEF SheetInv
<1> QED
  BY <1>1, <1>2, <1>3, SheetKept

\* print_char of the boot code.
LEMMA SheetPrint ==
  ASSUME SheetInv, MemoryInv, print_char
  PROVE  SheetInv'
<1>1. /\ pc = "print" /\ vidmem' = Printed(vidmem, character, offset)
      /\ offset' = NewOffset(character, offset)
      /\ pc' = IF InRange(offset) THEN "set high" ELSE "printed"
      /\ text' = Append(text, character)
      /\ UNCHANGED <<character, torn, start>>
  BY DEF print_char
<1>2. /\ text \in Seq(Characters) /\ start \in 0 .. Cells - 1 /\ character \in Characters
  BY DEF SheetInv
<1>3. CASE torn
  <2>1. text' \in Seq(Characters)
    BY <1>1, <1>2, AppendProperties
  <2> QED
    BY <1>1, <1>2, <1>3, <2>1 DEF SheetInv
<1>4. CASE ~torn
  <2>1. PICK top \in Nat, u \in 0 .. Cells - 1 :
          /\ Drawn(vidmem, Place, text, top * Cols, u)
          /\ top > 0 => u >= Cells - Cols
          /\ CursorAt(u)
    BY <1>4 DEF SheetInv
  <2>2. offset = 2 * u
    BY <1>1, <2>1 DEF CursorAt
  <2>3. InRange(2 * u)
    BY CellAccepted DEF CellOffset
  <2>4. pc' = "set high" /\ offset' = NewOffset(character, 2 * u)
    BY <1>1, <2>2, <2>3
  <2>5. \A v \in 0 .. Cells - 1 : NewOffset(character, 2 * u) = 2 * v => CursorAt(v)'
    BY <2>4 DEF CursorAt, Setting
  <2>6. vidmem' = Printed(vidmem, character, 2 * u) /\ torn' = FALSE
    <3>1. torn' = torn
      BY <1>1
    <3>2. torn = FALSE
      BY <1>4 DEF SheetInv
    <3> QED
      BY <1>1, <2>2, <3>1, <3>2
  <2> HIDE DEF Place
  <2> QED
    BY <1>1, <1>2, <1>4, <2>1, <2>5, <2>6, SheetPrinted
<1> QED
  BY <1>3, <1>4

\* A handler prints a character between two messages of the boot code; in the
\* middle of one it tears the message.
LEMMA SheetHandler ==
  ASSUME SheetInv, MemoryInv, NEW c \in Characters, Handler(c)
  PROVE  SheetInv'
<1> DEFINE o == FromRegisters(high * Byte + low)
           n == NewOffset(c, o)
<1>1. /\ vidmem' = Printed(vidmem, c, o) /\ text' = Append(text, c)
      /\ InRange(o) => high' = (n \div 2) \div Byte /\ low' = (n \div 2) % Byte
      /\ torn' = (torn \/ pc # "idle")
      /\ UNCHANGED <<pc, start, character>>
  BY DEF Handler, locals
<1> HIDE DEF o, n
<1>2. /\ text \in Seq(Characters) /\ start \in 0 .. Cells - 1 /\ character \in Characters
  BY DEF SheetInv
<1>3. CASE torn \/ pc # "idle"
  <2>1. text' \in Seq(Characters)
    BY <1>1, <1>2, AppendProperties
  <2>2. torn'
    BY <1>1, <1>3
  <2> QED
    BY <1>1, <1>2, <2>1, <2>2 DEF SheetInv
<1>4. CASE ~torn /\ pc = "idle"
  <2>1. PICK top \in Nat, u \in 0 .. Cells - 1 :
          /\ Drawn(vidmem, Place, text, top * Cols, u)
          /\ top > 0 => u >= Cells - Cols
          /\ CursorAt(u)
    BY <1>4 DEF SheetInv
  <2>2. high = u \div Byte /\ low = u % Byte
    BY <1>4, <2>1 DEF CursorAt
  <2>3. o = 2 * u
    BY <2>2, CellRegisters DEF o
  <2>4. InRange(o)
    BY <2>3, CellAccepted DEF CellOffset
  <2>5. ASSUME NEW v \in 0 .. Cells - 1, NewOffset(c, 2 * u) = 2 * v
        PROVE  CursorAt(v)'
    <3>1. n \div 2 = v
      BY <2>3, <2>5, CellRegisters DEF n
    <3>2. high' = v \div Byte /\ low' = v % Byte /\ pc' = "idle"
      BY <1>1, <1>4, <2>4, <3>1
    <3> QED
      BY <3>2 DEF CursorAt, Setting
  <2>6. torn' = FALSE
    BY <1>1, <1>4
  <2>7. vidmem' = Printed(vidmem, c, 2 * u)
    BY <1>1, <2>3
  <2> HIDE DEF Place
  <2> QED
    BY <1>1, <1>2, <1>4, <2>1, <2>5, <2>6, <2>7, SheetPrinted
<1> QED
  BY <1>3, <1>4

\* The sheet of no text, on a blank screen.
LEMMA SheetEmpty ==
  ASSUME NEW s \in 0 .. Cells - 1, NEW m, \A x \in 0 .. Cells - 1 : m[x] = Blank
  PROVE  /\ Sheet(PlaceOf(<<>>, s), <<>>, s)
         /\ Drawn(m, PlaceOf(<<>>, s), <<>>, 0 * Cols, s)
<1> DEFINE g == [k \in 0 .. 0 |-> s]
<1>1. Len(<<>>) = 0 /\ <<>> \in Seq(Characters)
  OBVIOUS
<1>2. g[0] = s
  OBVIOUS
<1>3. g = [k \in 0 .. 0 |-> IF k = 0 THEN s ELSE PlaceBehind(g[k - 1], <<>>[k])]
  <2>1. \A k \in 0 .. 0 : s = IF k = 0 THEN s ELSE PlaceBehind(g[k - 1], <<>>[k])
    OBVIOUS
  <2> QED
    BY <2>1
<1>4. Sheet(g, <<>>, s)
  BY <1>1, <1>3 DEF Sheet
<1>5. PlaceOf(<<>>, s) = g
  BY <1>1, <1>4, PlaceOfSheet
<1>6. s + 0 * Cols = s
  BY ScreenFacts
<1>7. Drawn(m, g, <<>>, 0 * Cols, s)
  BY <1>1, <1>2, <1>6 DEF Drawn
<1> QED
  BY <1>4, <1>5, <1>7

\* vga_clear_screen begins a new sheet.
LEMMA SheetClear ==
  ASSUME SheetInv, MemoryInv, vga_clear_screen
  PROVE  SheetInv'
<1>1. /\ pc' = "idle" /\ vidmem' = Cleared(vidmem) /\ high' = 0 /\ low' = 0
      /\ start' = 0 /\ text' = <<>> /\ character' = character
  BY DEF vga_clear_screen, locals
<1>2. character \in Characters
  BY DEF SheetInv
<1>3. 0 \in 0 .. Cells - 1 /\ 0 \div Byte = 0 /\ 0 % Byte = 0 /\ 0 \in Nat
  BY ScreenFacts
<1>4. \A x \in 0 .. Cells - 1 : Cleared(vidmem)[x] = Blank
  BY MemoryIsScreenOnly, ClearedBlank
<1>5. CursorAt(0)'
  BY <1>1, <1>3 DEF CursorAt, Setting
<1> DEFINE m == Cleared(vidmem)
<1> HIDE DEF m, Place
<1>6. vidmem' = m /\ \A x \in 0 .. Cells - 1 : m[x] = Blank
  BY <1>1, <1>4 DEF m
<1>7. Place' = PlaceOf(<<>>, 0)
  BY <1>1, PlaceIsSheet
<1>8. /\ Sheet(PlaceOf(<<>>, 0), <<>>, 0)
      /\ Drawn(m, PlaceOf(<<>>, 0), <<>>, 0 * Cols, 0)
  BY <1>3, <1>6, SheetEmpty
<1>9. \E top \in Nat, u \in 0 .. Cells - 1 :
        /\ Drawn(m, PlaceOf(<<>>, 0), <<>>, top * Cols, u)
        /\ top > 0 => u >= Cells - Cols
        /\ CursorAt(u)'
  <2>1. 0 > 0 => 0 >= Cells - Cols
    OBVIOUS
  <2> QED
    BY <1>3, <1>5, <1>8, <2>1
<1>10. <<>> \in Seq(Characters)
  OBVIOUS
<1> HIDE DEF PlaceOf
<1> QED
  BY <1>1, <1>2, <1>3, <1>6, <1>7, <1>8, <1>9, <1>10 DEF SheetInv

\* The first screen and its cursor.
LEMMA SheetInit == Init => SheetInv
<1> SUFFICES ASSUME Init PROVE SheetInv
  OBVIOUS
<1>1. /\ pc = "idle" /\ start \in 0 .. Cells - 1 /\ character = Newline /\ text = <<>>
      /\ high = start \div Byte /\ low = start % Byte
      /\ vidmem = [c \in Offset |-> IF c < Cells THEN Blank ELSE Other]
  BY DEF Init
<1>2. character \in Characters
  BY <1>1 DEF Characters
<1>3. \A x \in 0 .. Cells - 1 : vidmem[x] = Blank
  <2> SUFFICES ASSUME NEW x \in 0 .. Cells - 1 PROVE vidmem[x] = Blank
    OBVIOUS
  <2>1. x \in Offset /\ x < Cells
    BY ScreenFacts DEF Offset
  <2> QED
    BY <1>1, <2>1
<1>4. CursorAt(start)
  BY <1>1 DEF CursorAt, Setting
<1> HIDE DEF Place
<1>5. Place = PlaceOf(<<>>, start)
  BY <1>1, PlaceIsSheet
<1>6. Sheet(Place, text, start) /\ Drawn(vidmem, Place, text, 0 * Cols, start)
  BY <1>1, <1>3, <1>5, SheetEmpty
<1>7. \E top \in Nat, u \in 0 .. Cells - 1 :
        /\ Drawn(vidmem, Place, text, top * Cols, u)
        /\ top > 0 => u >= Cells - Cols
        /\ CursorAt(u)
  <2>1. 0 \in Nat /\ (0 > 0 => start >= Cells - Cols)
    OBVIOUS
  <2> QED
    BY <1>1, <1>4, <1>6, <2>1
<1>8. text \in Seq(Characters)
  BY <1>1
<1> QED
  BY <1>1, <1>2, <1>6, <1>7, <1>8 DEF SheetInv

\* Every step keeps the sheet.
LEMMA SheetStep == VgaInv /\ SheetInv /\ [Next]_vars => SheetInv'
<1> SUFFICES ASSUME VgaInv, SheetInv, [Next]_vars PROVE SheetInv'
  OBVIOUS
<1>0. MemoryInv /\ character \in Characters
  BY DEF VgaInv, SheetInv
<1>1. CASE UNCHANGED vars
  <2>1. UNCHANGED <<vidmem, text, start, torn, character>>
    BY <1>1 DEF vars, locals
  <2>2. \A u \in 0 .. Cells - 1 : CursorAt(u) => CursorAt(u)'
    BY <1>1 DEF vars, registers, locals, CursorAt
  <2> QED
    BY <1>0, <2>1, <2>2, SheetKept
<1>2. CASE Return
  <2>1. UNCHANGED <<vidmem, text, start, torn, character>>
    BY <1>2 DEF Return, locals
  <2>2. pc = "printed" /\ pc' = "idle" /\ UNCHANGED <<high, low>>
    BY <1>2 DEF Return, registers, At
  <2>3. \A u \in 0 .. Cells - 1 : CursorAt(u) => CursorAt(u)'
    BY <2>2 DEF CursorAt, Setting
  <2> QED
    BY <1>0, <2>1, <2>3, SheetKept
<1>3. ASSUME NEW c \in Characters, NextCharacter(c) PROVE SheetInv'
  BY <1>3, SheetNextCharacter
<1>4. ASSUME NEW c \in Characters, Handler(c) PROVE SheetInv'
  BY <1>0, <1>4, SheetHandler
<1>5. CASE get_cursor_offset
  BY <1>0, <1>5, SheetGet
<1>6. CASE print_char
  BY <1>0, <1>6, SheetPrint
<1>7. CASE set_cursor_offset
  BY <1>7, SheetSet
<1>8. CASE vga_clear_screen
  BY <1>0, <1>8, SheetClear
<1> QED
  BY <1>1, <1>2, <1>3, <1>4, <1>5, <1>6, <1>7, <1>8 DEF Next

\* The row of the sheet at the top of the screen follows from where the text
\* ends.
LEMMA TopRow ==
  ASSUME NEW u \in 0 .. Cells - 1, NEW top \in Nat, top > 0 => u >= Cells - Cols
  PROVE  LET end == u + top * Cols
         IN  top = IF end \div Cols >= Rows THEN end \div Cols - Rows + 1 ELSE 0
<1> DEFINE row == offset_to_row(2 * u)
           col == offset_to_col(2 * u)
<1>1. row * Cols + col = u /\ row \in 0 .. Rows - 1 /\ col \in 0 .. Cols - 1
  BY CellAccepted, Accepted DEF CellOffset
<1>2. Rows \in Nat /\ Cols \in Nat /\ Cols > 0 /\ Cells = Rows * Cols
  BY ScreenFacts DEF Cells
<1> HIDE DEF row, col
<1>3. row \in Nat /\ col \in Nat /\ col < Cols /\ row + top \in Nat
  BY <1>1, <1>2
<1>4. (Cols * (row + top) + col) \div Cols = row + top
  BY <1>2, <1>3, Quotient
<1>5. Cols * (row + top) + col = u + top * Cols
  <2>1. Cols * (row + top) = row * Cols + top * Cols
    BY <1>2, <1>3
  <2>2. row * Cols \in Nat /\ top * Cols \in Nat
    BY <1>2, <1>3
  <2> QED
    BY <1>1, <1>3, <2>1, <2>2
<1>6. (u + top * Cols) \div Cols = row + top
  BY <1>4, <1>5
<1>7. ASSUME top > 0 PROVE row = Rows - 1
  <2> SUFFICES ASSUME row # Rows - 1 PROVE FALSE
    OBVIOUS
  <2>1. row + 2 <= Rows
    BY <1>1, <1>2
  <2>2. row * Cols \in Nat /\ Rows * Cols \in Nat /\ (row + 2) * Cols = row * Cols + 2 * Cols
    BY <1>2, <1>3
  <2>3. (row + 2) * Cols <= Rows * Cols
    BY <1>2, <1>3, <2>1
  <2>4. row * Cols + col >= Cells - Cols
    BY <1>1, <1>7
  <2> QED
    BY <1>2, <1>3, <2>2, <2>3, <2>4
<1> DEFINE d == (u + top * Cols) \div Cols
<1>8. d = row + top
  BY <1>6
<1> HIDE DEF d
<1>9. top = IF d >= Rows THEN d - Rows + 1 ELSE 0
  BY <1>1, <1>2, <1>7, <1>8
<1> QED
  BY <1>9 DEF d

\* What the sheet says of a screen between two messages.
LEMMA SheetShown == SheetInv => ScreenShowsText
<1> SUFFICES ASSUME SheetInv, pc = "idle", ~torn
             PROVE  LET end == Place[Len(text)]
                        top == IF end \div Cols >= Rows THEN end \div Cols - Rows + 1 ELSE 0
                    IN  /\ Cursor = end - top * Cols
                        /\ \A c \in 0 .. Cells - 1 :
                             LET shown == {k \in DOMAIN text :
                                             /\ text[k] # Newline
                                             /\ Place[k - 1] = c + top * Cols}
                             IN  IF shown = {} THEN vidmem[c] = Blank
                                               ELSE \A k \in shown : vidmem[c] = text[k]
  BY DEF ScreenShowsText
<1> DEFINE end == Place[Len(text)]
           t == IF end \div Cols >= Rows THEN end \div Cols - Rows + 1 ELSE 0
<1>1. PICK top \in Nat, u \in 0 .. Cells - 1 :
        /\ Drawn(vidmem, Place, text, top * Cols, u)
        /\ top > 0 => u >= Cells - Cols
        /\ CursorAt(u)
  BY DEF SheetInv
<1> HIDE DEF Place
<1>2. high = u \div Byte /\ low = u % Byte
  BY <1>1 DEF CursorAt
<1>3. Cursor = u
  BY <1>2, CellRegisters DEF Cursor
<1>4. end = u + top * Cols
  BY <1>1 DEF Drawn
<1>5. t = top
  BY <1>1, <1>4, TopRow
<1>6. Cursor = end - t * Cols
  <2>1. top * Cols \in Nat
    BY ScreenFacts
  <2> HIDE DEF end, t
  <2> QED
    BY <1>3, <1>4, <1>5, <2>1
<1>7. DOMAIN text = 1 .. Len(text)
  BY LenProperties DEF SheetInv
<1>8. ASSUME NEW c \in 0 .. Cells - 1
      PROVE  LET shown == {k \in DOMAIN text : /\ text[k] # Newline
                                               /\ Place[k - 1] = c + t * Cols}
             IN  IF shown = {} THEN vidmem[c] = Blank
                               ELSE \A k \in shown : vidmem[c] = text[k]
  <2> DEFINE w == top * Cols
  <2>1. /\ \A k \in 1 .. Len(text) :
             text[k] # Newline /\ Place[k - 1] = c + w => vidmem[c] = text[k]
        /\ \/ vidmem[c] = Blank
           \/ \E k \in 1 .. Len(text) : text[k] # Newline /\ Place[k - 1] = c + w
    BY <1>1, <1>8 DEF Drawn
  <2>2. w = t * Cols
    BY <1>5
  <2> HIDE DEF w, t
  <2> QED
    BY <1>7, <2>1, <2>2
<1> QED
  BY <1>6, <1>8

\* For every screen, as long as no handler prints in the middle of a message,
\* the screen is the last rows of all that print_char was given since it was
\* blank, through every wrap and every scroll, and the cursor registers stand
\* behind it (print_char, vga.c:117-138).
THEOREM VgaScreenShowsText == Spec => []ScreenShowsText
<1>1. Init => VgaInv /\ SheetInv
  BY InitVgaInv, SheetInit
<1>2. VgaInv /\ SheetInv /\ [Next]_vars => (VgaInv /\ SheetInv)'
  BY NextVgaInv, SheetStep
<1>3. VgaInv /\ SheetInv => ScreenShowsText
  BY SheetShown
<1> QED
  BY <1>1, <1>2, <1>3, PTL DEF Spec
-----------------------------------------------------------------------------
(* Isr: an interrupt is not noticed by the code it interrupts. *)

\* The upper end of the stack, and what registers and a machine are.
StackTop == 100 + StackWords
RegisterFile ==
  [eax : Int, ebx : Int, ecx : Int, edx : Int, esi : Int, edi : Int, ebp : Int,
   esp : Int, eip : Int, eflags : Int, cs : Int, ss : Int, ds : Int]
Machines == [r : RegisterFile, m : [Stack -> Int]]

\* What the processor finds in the access bytes of the segments.
LEMMA Segments ==
  /\ IsCode(CODE_SEG) /\ Dpl(CODE_SEG) = 0 /\ Rpl(CODE_SEG) = 0
  /\ IsCode(USER_CODE) /\ Dpl(USER_CODE) = 3 /\ Rpl(USER_CODE) = 3
  /\ StackOf(DATA_SEG, 0) /\ Dpl(DATA_SEG) = 0
  /\ StackOf(USER_DATA, 3) /\ Dpl(USER_DATA) = 3
  /\ GateDpl = 3
<1>1. /\ Access(CODE_SEG) = 154 /\ Access(DATA_SEG) = 146
      /\ Access(USER_CODE) = 250 /\ Access(USER_DATA) = 242
  BY DEF Access, gdt, CODE_SEG, DATA_SEG, USER_CODE, USER_DATA
<1>2. Dpl(CODE_SEG) = 0 /\ Dpl(DATA_SEG) = 0 /\ Dpl(USER_CODE) = 3 /\ Dpl(USER_DATA) = 3
  BY <1>1 DEF Dpl
<1>3. Rpl(CODE_SEG) = 0 /\ Rpl(DATA_SEG) = 0 /\ Rpl(USER_CODE) = 3 /\ Rpl(USER_DATA) = 3
  BY DEF Rpl, CODE_SEG, DATA_SEG, USER_CODE, USER_DATA
<1>4. IsCode(CODE_SEG) /\ IsCode(USER_CODE)
  BY <1>1 DEF IsCode, IsSegment, Bit
<1>5. IsData(DATA_SEG) /\ IsData(USER_DATA)
  BY <1>1 DEF IsData, IsSegment, Bit
<1> QED
  BY <1>2, <1>3, <1>4, <1>5 DEF StackOf, GateDpl, GATE_FLAGS

\* What a push changes.
LEMMA PushedFacts ==
  ASSUME NEW M \in Machines, NEW vs \in Seq(Int)
  PROVE  LET N == Pushed(M, vs)
         IN  /\ N \in Machines
             /\ N.r = [M.r EXCEPT !.esp = M.r.esp - Len(vs)]
             /\ \A a \in Stack : a >= M.r.esp => N.m[a] = M.m[a]
             /\ \A k \in 1 .. Len(vs) :
                  M.r.esp - k \in Stack => N.m[M.r.esp - k] = vs[k]
<1> DEFINE l == Len(vs)
           N == Pushed(M, vs)
           s == M.r.esp
<1>1. l \in Nat /\ DOMAIN vs = 1 .. l /\ \A k \in 1 .. l : vs[k] \in Int
  OBVIOUS
<1>2. M.r \in RegisterFile /\ M.m \in [Stack -> Int] /\ s \in Int
  BY DEF Machines, RegisterFile
<1>3. N.r = [M.r EXCEPT !.esp = M.r.esp - l]
  BY DEF Pushed
<1>4. N.m = [a \in Stack |-> IF s - a \in DOMAIN vs THEN vs[s - a] ELSE M.m[a]]
  BY DEF Pushed
<1>5. N = [r |-> N.r, m |-> N.m]
  BY DEF Pushed
<1> HIDE DEF l, N, s
<1>6. N.m \in [Stack -> Int]
  BY <1>1, <1>2, <1>4
<1>7. N.r \in RegisterFile
  <2>1. s - l \in Int /\ N.r = [M.r EXCEPT !.esp = s - l]
    BY <1>1, <1>2, <1>3 DEF s
  <2> QED
    BY <1>2, <2>1 DEF RegisterFile
<1>8. N \in Machines
  BY <1>5, <1>6, <1>7 DEF Machines
<1>9. ASSUME NEW a \in Stack, a >= s PROVE N.m[a] = M.m[a]
  <2>1. a \in Int
    BY StackAssumption DEF Stack
  <2>2. s - a \notin 1 .. l
    BY <1>1, <1>2, <1>9, <2>1
  <2> QED
    BY <1>1, <1>4, <2>2
<1>10. ASSUME NEW k \in 1 .. l, s - k \in Stack PROVE N.m[s - k] = vs[k]
  <2>1. s - (s - k) = k
    BY <1>1, <1>2
  <2> QED
    BY <1>1, <1>4, <1>10, <2>1
<1> QED
  BY <1>3, <1>8, <1>9, <1>10 DEF N, l, s

\* What a C function may change.
LEMMA CcallFacts ==
  ASSUME NEW M \in Machines, NEW n \in Nat
  PROVE  LET N == ccall(M, n)
         IN  /\ N \in Machines
             /\ N.r = [M.r EXCEPT !.ebp = M.r.esp, !.eax = Junk, !.ecx = Junk, !.edx = Junk]
             /\ \A a \in Stack : a >= M.r.esp => N.m[a] = M.m[a]
             /\ ArgumentsAt(M.r.esp, n) \in M.r.esp - 3 .. M.r.esp
<1> DEFINE N == ccall(M, n)
           s == M.r.esp
<1>1. M.r \in RegisterFile /\ M.m \in [Stack -> Int] /\ s \in Int
  BY DEF Machines, RegisterFile
<1>2. N.r = [M.r EXCEPT !.ebp = M.r.esp, !.eax = Junk, !.ecx = Junk, !.edx = Junk]
  BY DEF ccall
<1>3. N.m = [a \in Stack |-> IF a < ArgumentsAt(s, n) THEN Junk ELSE M.m[a]]
  BY DEF ccall
<1>4. N = [r |-> N.r, m |-> N.m]
  BY DEF ccall
<1>5. ArgumentsAt(s, n) \in s - 3 .. s
  BY <1>1 DEF ArgumentsAt, Aligned
<1> HIDE DEF N
<1>6. N.m \in [Stack -> Int]
  BY <1>1, <1>3 DEF Junk
<1>7. N.r \in RegisterFile
  <2>1. Junk \in Int
    BY DEF Junk
  <2>2. M.r.esp \in Int
    BY <1>1
  <2> DEFINE q == [M.r EXCEPT !.ebp = M.r.esp, !.eax = Junk]
  <2>3. q \in RegisterFile
    BY <1>1, <2>1, <2>2 DEF RegisterFile
  <2>4. N.r = [q EXCEPT !.ecx = Junk, !.edx = Junk]
    BY <1>2
  <2> HIDE DEF q
  <2> QED
    BY <2>1, <2>3, <2>4 DEF RegisterFile
<1>8. ASSUME NEW a \in Stack, a >= s PROVE N.m[a] = M.m[a]
  <2>1. a \in Int
    BY StackAssumption DEF Stack
  <2> HIDE DEF s
  <2>2. ~(a < ArgumentsAt(s, n))
    BY <1>1, <1>5, <1>8, <2>1
  <2> QED
    BY <1>3, <2>2
<1> QED
  BY <1>2, <1>4, <1>5, <1>6, <1>7, <1>8 DEF Machines, N

\* Where code runs that may be interrupted, with these registers and this TSS.
BootContext(r, t) ==
  /\ r.eip = BOOT /\ r.cs = CODE_SEG /\ r.ss = DATA_SEG /\ r.ds = DATA_SEG
  /\ r.eflags \in {2, 2 + InterruptFlag}
  /\ r.esp \in 124 .. StackTop
  /\ t.ss0 \in {0, DATA_SEG}
UserContext(r, t) ==
  /\ r.eip \in {USER_A, USER_INT, USER_LOOP}
  /\ r.cs = USER_CODE /\ r.ss = USER_DATA /\ r.ds = USER_DATA
  /\ r.eflags = 2 + InterruptFlag
  /\ t.ss0 = DATA_SEG /\ t.esp0 \in 116 .. StackTop
  /\ r.esp >= t.esp0
Context(r, t) == BootContext(r, t) \/ UserContext(r, t)

\* The stack an interrupt finds, and the words the processor pushes on it.
Outer(r) == r.cs # CODE_SEG
Base(r, t) == IF Outer(r) THEN t.esp0 ELSE r.esp
FrameSize(r) == IF Outer(r) THEN 5 ELSE 3

\* The frame of the interrupted code at F.
Framed(F, m, r) ==
  /\ m[F] = r.eip /\ m[F + 1] = r.cs /\ m[F + 2] = r.eflags
  /\ Outer(r) => m[F + 3] = r.esp /\ m[F + 4] = r.ss

\* Its registers at S.
SavedAt(S, m, r) ==
  /\ m[S] = r.ebp /\ m[S + 1] = r.edi /\ m[S + 2] = r.esi /\ m[S + 3] = r.edx
  /\ m[S + 4] = r.ecx /\ m[S + 5] = r.ebx /\ m[S + 6] = r.eax
SameGeneral(q, r) ==
  /\ q.eax = r.eax /\ q.ebx = r.ebx /\ q.ecx = r.ecx /\ q.edx = r.edx
  /\ q.esi = r.esi /\ q.edi = r.edi /\ q.ebp = r.ebp

\* The interrupts that return, and the words the stubs and the handler have
\* pushed.
Returning == {1, 3, 32, 33, 51}
Vectors == (0 .. 31) \cup {32, 33, 51}
Own(p) == CASE p = "stub" -> 0 [] p = "save" -> 2 [] OTHER -> 9
Registered == {"dispatch", "body", "resume", "cleanup"}
InHandler == {"stub", "save"} \cup Registered

\* The types: no check of the processor has failed.
IsrTypes ==
  /\ cpu \in RegisterFile /\ mem \in [Stack -> Int]
  /\ tss \in [ss0 : Int, esp0 : Int]
  /\ before \in Machines
  /\ part \in {"code", "halted"} \cup InHandler

\* What is true in every part of the handler.
Inside ==
  /\ Context(before.r, tss)
  /\ vector \in Vectors
  /\ cpu.cs = CODE_SEG /\ cpu.ds = before.r.ds
  /\ ~Outer(before.r) => cpu.ss = before.r.ss
  /\ cpu.esp <= Base(before.r, tss) /\ cpu.esp + Own(part) >= 110
  /\ \A a \in Stack : a >= Base(before.r, tss) => mem[a] = before.m[a]
  /\ vector \in Returning =>
       /\ cpu.esp + Own(part) + FrameSize(before.r) = Base(before.r, tss)
       /\ Framed(cpu.esp + Own(part), mem, before.r)

\* Where code may be interrupted it runs on its own segments and stack; in a
\* part of the handler the frame, the vector and the saved registers are where
\* the next part looks for them, and the stack above is that of the
\* interrupted code.
IsrInv ==
  /\ IsrTypes
  /\ part = "code" => Context(cpu, tss)
  /\ part \in InHandler => Inside
  /\ part \in {"stub", "save"} => SameGeneral(cpu, before.r)
  /\ part = "save" => mem[cpu.esp] = vector
  /\ part = "dispatch" => cpu.edi \in Stack /\ mem[cpu.edi] = vector
  /\ part \in Registered => SavedAt(cpu.esp, mem, before.r)
  /\ part \in Registered \ {"dispatch"} => vector \in Returning

\* The processor and its stack.
LEMMA MachineType ==
  ASSUME IsrTypes
  PROVE  Machine \in Machines /\ Machine.r = cpu /\ Machine.m = mem
BY DEF IsrTypes, Machine, Machines

\* What iret makes of the registers: to an outer level, and to the same one.
Back(r, ip, c, f, p, s) ==
  [r EXCEPT !.eip = ip, !.cs = c, !.eflags = f, !.esp = p, !.ss = s]
InnerBack(r, ip, c, f, p) ==
  [r EXCEPT !.eip = ip, !.cs = c, !.eflags = f, !.esp = p]

\* The registers iret changes when it returns to an outer level.
LEMMA OuterRegisters ==
  ASSUME NEW r \in RegisterFile, NEW ip \in Int, NEW c \in Int, NEW f \in Int,
         NEW p \in Int, NEW s \in Int
  PROVE  /\ Back(r, ip, c, f, p, s) \in RegisterFile
         /\ Back(r, ip, c, f, p, s).eip = ip /\ Back(r, ip, c, f, p, s).cs = c
         /\ Back(r, ip, c, f, p, s).eflags = f /\ Back(r, ip, c, f, p, s).esp = p
         /\ Back(r, ip, c, f, p, s).ss = s /\ Back(r, ip, c, f, p, s).ds = r.ds
         /\ SameGeneral(Back(r, ip, c, f, p, s), r)
BY DEF RegisterFile, Back, SameGeneral

\* iret to an outer level.
LEMMA OuterReturn ==
  ASSUME NEW M, NEW q \in RegisterFile, M.r = q, NEW ip, NEW c, NEW f, NEW p, NEW s,
         M.m[M.r.esp + 0] = ip, M.m[M.r.esp + 1] = c, M.m[M.r.esp + 2] = f,
         M.m[M.r.esp + 3] = p, M.m[M.r.esp + 4] = s, Rpl(c) > Rpl(q.cs)
  PROVE  Iret(M).r = Back(q, ip, c, f, p, s)
BY DEF Iret, Back

\* The registers iret changes when it returns to the same level.
LEMMA InnerRegisters ==
  ASSUME NEW r \in RegisterFile, NEW ip \in Int, NEW c \in Int, NEW f \in Int,
         NEW p \in Int
  PROVE  /\ InnerBack(r, ip, c, f, p) \in RegisterFile
         /\ InnerBack(r, ip, c, f, p).eip = ip /\ InnerBack(r, ip, c, f, p).cs = c
         /\ InnerBack(r, ip, c, f, p).eflags = f /\ InnerBack(r, ip, c, f, p).esp = p
         /\ InnerBack(r, ip, c, f, p).ss = r.ss /\ InnerBack(r, ip, c, f, p).ds = r.ds
         /\ SameGeneral(InnerBack(r, ip, c, f, p), r)
BY DEF RegisterFile, InnerBack, SameGeneral

\* iret to the same level.
LEMMA InnerReturn ==
  ASSUME NEW M, NEW q \in RegisterFile, M.r = q, NEW ip, NEW c, NEW f,
         M.m[M.r.esp + 0] = ip, M.m[M.r.esp + 1] = c, M.m[M.r.esp + 2] = f,
         ~(Rpl(M.m[M.r.esp + 1]) > Rpl(M.r.cs))
  PROVE  Iret(M).r = InnerBack(q, ip, c, f, q.esp + 3)
BY DEF Iret, InnerBack, RegisterFile

\* The registers the handler restores.
Restored(r, b, p) ==
  [r EXCEPT !.ebp = b.ebp, !.edi = b.edi, !.esi = b.esi, !.edx = b.edx,
            !.ecx = b.ecx, !.ebx = b.ebx, !.eax = b.eax, !.esp = p]

\* They are those that were saved; the rest stays.
LEMMA RestoredFacts ==
  ASSUME NEW r \in RegisterFile, NEW b \in RegisterFile, NEW p \in Int
  PROVE  /\ Restored(r, b, p) \in RegisterFile
         /\ Restored(r, b, p).esp = p /\ Restored(r, b, p).cs = r.cs
         /\ Restored(r, b, p).ds = r.ds /\ Restored(r, b, p).ss = r.ss
         /\ SameGeneral(Restored(r, b, p), b)
BY DEF RegisterFile, Restored, SameGeneral

\* RegisterFile with the same contents are the same.
LEMMA SameRegisters ==
  ASSUME NEW r \in RegisterFile, NEW q \in RegisterFile, SameGeneral(r, q),
         r.eip = q.eip, r.cs = q.cs, r.eflags = q.eflags, r.esp = q.esp,
         r.ss = q.ss, r.ds = q.ds
  PROVE  r = q
BY DEF RegisterFile, SameGeneral

\* The boot code starts on its own stack.
LEMMA IsrInvInit == IsrInit => IsrInv
<1> SUFFICES ASSUME IsrInit PROVE IsrInv
  OBVIOUS
<1>1. PICK depth \in BootDepths, flags \in {2, 2 + InterruptFlag} :
       cpu = [eax |-> -1, ebx |-> -2, ecx |-> -3, edx |-> -4, esi |-> -5,
              edi |-> -6, ebp |-> -7, esp |-> 100 + StackWords - depth,
              eip |-> BOOT, eflags |-> flags,
              cs |-> CODE_SEG, ss |-> DATA_SEG, ds |-> DATA_SEG]
  BY DEF IsrInit
<1>2. 100 + StackWords - depth \in 124 .. StackTop
  BY StackAssumption DEF StackTop
<1>3. cpu \in RegisterFile
  BY <1>1, <1>2 DEF RegisterFile, InterruptFlag, BOOT, CODE_SEG, DATA_SEG
<1>4. mem \in [Stack -> Int]
  BY DEF IsrInit, Stack
<1>5. tss = [ss0 |-> 0, esp0 |-> 0] /\ part = "code" /\ before = [r |-> cpu, m |-> mem]
  BY DEF IsrInit, Machine
<1>6. IsrTypes
  BY <1>3, <1>4, <1>5 DEF IsrTypes, Machines
<1>7. Context(cpu, tss)
  BY <1>1, <1>2, <1>5 DEF Context, BootContext
<1> QED
  BY <1>5, <1>6, <1>7 DEF IsrInv, InHandler, Registered

\* Three words between others.
LEMMA FrameWords ==
  ASSUME NEW a \in Seq(Int), NEW b \in Seq(Int), Len(b) = 3, NEW c \in Seq(Int),
         NEW g, g = a \o b \o c
  PROVE  /\ g \in Seq(Int) /\ Len(g) = Len(a) + 3 + Len(c)
         /\ \A k \in 1 .. Len(a) : g[k] = a[k]
         /\ \A k \in 1 .. 3 : g[Len(a) + k] = b[k]
<1> DEFINE d == a \o b
           n == Len(a)
<1>0. g = d \o c
  OBVIOUS
<1>1. n \in Nat /\ Len(c) \in Nat
  OBVIOUS
<1>2. /\ d \in Seq(Int) /\ Len(d) = n + 3
      /\ \A i \in 1 .. n + 3 : d[i] = IF i <= n THEN a[i] ELSE b[i - n]
  <2>1. /\ d \in Seq(Int) /\ Len(d) = n + Len(b)
        /\ \A i \in 1 .. n + Len(b) : d[i] = IF i <= n THEN a[i] ELSE b[i - n]
    BY ConcatProperties, Zenon
  <2> QED
    BY <2>1, Zenon
<1> HIDE DEF d, n
<1>3. /\ g \in Seq(Int) /\ Len(g) = n + 3 + Len(c)
      /\ \A i \in 1 .. n + 3 + Len(c) : g[i] = IF i <= n + 3 THEN d[i] ELSE c[i - (n + 3)]
  <2>1. /\ d \o c \in Seq(Int) /\ Len(d \o c) = Len(d) + Len(c)
        /\ \A i \in 1 .. Len(d) + Len(c) :
             (d \o c)[i] = IF i <= Len(d) THEN d[i] ELSE c[i - Len(d)]
    BY <1>2, ConcatProperties, Zenon
  <2> QED
    BY <1>0, <1>2, <2>1, Zenon
<1>4. ASSUME NEW k \in 1 .. n PROVE g[k] = a[k]
  <2>1. k \in 1 .. n + 3 + Len(c) /\ k \in 1 .. n + 3 /\ k <= n /\ k <= n + 3
    BY <1>1
  <2> QED
    BY <1>2, <1>3, <2>1
<1>5. ASSUME NEW k \in 1 .. 3 PROVE g[n + k] = b[k]
  <2> DEFINE i == n + k
  <2>1. /\ i \in 1 .. n + 3 + Len(c) /\ i \in 1 .. n + 3
        /\ i <= n + 3 /\ ~(i <= n) /\ i - n = k
    BY <1>1
  <2> HIDE DEF i
  <2>2. g[i] = d[i]
    BY <1>3, <2>1
  <2>3. d[i] = b[k]
    BY <1>2, <2>1
  <2> QED
    BY <2>2, <2>3 DEF i
<1> QED
  BY <1>3, <1>4, <1>5 DEF n

\* What the processor leaves when it takes an interrupt.
LEMMA TakenFacts ==
  ASSUME IsrTypes, Context(cpu, tss), NEW v \in Vectors, NEW eip \in Int
  PROVE  LET M == Taken(v, eip)
             e == IF v \in PushesError THEN 1 ELSE 0
             F == Base(cpu, tss) - FrameSize(cpu)
         IN  /\ M \in Machines
             /\ M.r.esp = F - e
             /\ M.r.cs = CODE_SEG /\ M.r.ds = cpu.ds /\ SameGeneral(M.r, cpu)
             /\ ~Outer(cpu) => M.r.ss = cpu.ss
             /\ \A a \in Stack : a >= Base(cpu, tss) => M.m[a] = mem[a]
             /\ Framed(F, M.m, [cpu EXCEPT !.eip = eip])
<1> DEFINE outer == Rpl(cpu.cs) # Dpl(CODE_SEG)
           S == IF outer
                THEN [r |-> [cpu EXCEPT !.esp = tss.esp0, !.ss = tss.ss0], m |-> mem]
                ELSE Machine
           frame == (IF outer THEN <<cpu.ss, cpu.esp>> ELSE <<>>)
                      \o <<cpu.eflags, cpu.cs, eip>>
                      \o (IF v \in PushesError THEN <<ErrorCode>> ELSE <<>>)
           P == Pushed(S, frame)
           M == Taken(v, eip)
           e == IF v \in PushesError THEN 1 ELSE 0
           f == FrameSize(cpu)
           F == Base(cpu, tss) - f
<1>1. M = [P EXCEPT !.r.cs = CODE_SEG, !.r.eflags = Disabled(@)]
  BY DEF Taken
<1>2. outer <=> Outer(cpu)
  BY Segments DEF Context, BootContext, UserContext, Outer, USER_CODE, CODE_SEG
<1>3. cpu \in RegisterFile /\ mem \in [Stack -> Int] /\ tss.ss0 \in Int /\ tss.esp0 \in Int
  BY DEF IsrTypes
<1>4. S \in Machines /\ S.m = mem /\ S.r.esp = Base(cpu, tss)
  <2>1. CASE outer
    <3>1. [cpu EXCEPT !.esp = tss.esp0, !.ss = tss.ss0] \in RegisterFile
      BY <1>3 DEF RegisterFile
    <3>2. [cpu EXCEPT !.esp = tss.esp0, !.ss = tss.ss0].esp = tss.esp0
      BY <1>3 DEF RegisterFile
    <3> QED
      BY <1>2, <1>3, <2>1, <3>1, <3>2 DEF Machines, Base
  <2>2. CASE ~outer
    BY <1>2, <2>2, MachineType DEF Base
  <2> QED
    BY <2>1, <2>2
<1>5. /\ S.r.ds = cpu.ds /\ SameGeneral(S.r, cpu) /\ S.r.eflags = cpu.eflags
      /\ ~Outer(cpu) => S.r.ss = cpu.ss
  <2>1. CASE outer
    BY <1>2, <1>3, <2>1 DEF RegisterFile, SameGeneral
  <2>2. CASE ~outer
    BY <1>2, <1>3, <2>2, MachineType DEF RegisterFile, SameGeneral
  <2> QED
    BY <2>1, <2>2
<1> HIDE DEF S, P, M, outer
<1>6. /\ frame \in Seq(Int) /\ Len(frame) = f + e
      /\ frame[f] = eip /\ frame[f - 1] = cpu.cs /\ frame[f - 2] = cpu.eflags
      /\ outer => frame[f - 3] = cpu.esp /\ frame[f - 4] = cpu.ss
  <2> DEFINE a == IF outer THEN <<cpu.ss, cpu.esp>> ELSE <<>>
             b == <<cpu.eflags, cpu.cs, eip>>
             c == IF v \in PushesError THEN <<ErrorCode>> ELSE <<>>
  <2>1. /\ cpu.ss \in Int /\ cpu.esp \in Int /\ cpu.eflags \in Int /\ cpu.cs \in Int
        /\ ErrorCode \in Int
    BY <1>3 DEF RegisterFile, ErrorCode
  <2>2. /\ a \in Seq(Int) /\ Len(a) = f - 3 /\ f \in {3, 5}
        /\ outer => f = 5 /\ a[1] = cpu.ss /\ a[2] = cpu.esp
    <3>1. CASE outer
      BY <1>2, <2>1, <3>1 DEF FrameSize
    <3>2. CASE ~outer
      BY <1>2, <2>1, <3>2 DEF FrameSize
    <3> QED
      BY <3>1, <3>2
  <2>3. /\ b \in Seq(Int) /\ Len(b) = 3
        /\ b[1] = cpu.eflags /\ b[2] = cpu.cs /\ b[3] = eip
    BY <2>1
  <2>4. c \in Seq(Int) /\ Len(c) = e /\ e \in {0, 1}
    <3>1. CASE v \in PushesError
      BY <2>1, <3>1
    <3>2. CASE v \notin PushesError
      BY <2>1, <3>2
    <3> QED
      BY <3>1, <3>2
  <2>5. frame = a \o b \o c
    OBVIOUS
  <2> HIDE DEF a, b, c, e, f, frame
  <2>6. /\ frame \in Seq(Int) /\ Len(frame) = Len(a) + 3 + Len(c)
        /\ \A k \in 1 .. Len(a) : frame[k] = a[k]
        /\ \A k \in 1 .. 3 : frame[Len(a) + k] = b[k]
    <3>1. a \in Seq(Int) /\ b \in Seq(Int) /\ Len(b) = 3 /\ c \in Seq(Int)
      BY <2>2, <2>3, <2>4
    <3>2. frame = a \o b \o c
      BY <2>5
    <3>3. /\ frame \in Seq(Int) /\ Len(frame) = Len(a) + 3 + Len(c)
          /\ \A k \in 1 .. Len(a) : frame[k] = a[k]
          /\ \A k \in 1 .. 3 : frame[Len(a) + k] = b[k]
      <4>1. \A g : g = a \o b \o c =>
              /\ g \in Seq(Int) /\ Len(g) = Len(a) + 3 + Len(c)
              /\ \A k \in 1 .. Len(a) : g[k] = a[k]
              /\ \A k \in 1 .. 3 : g[Len(a) + k] = b[k]
        BY ONLY <3>1, FrameWords, ZenonT(40)
      <4> QED
        BY ONLY <3>2, <4>1, Zenon
    <3> QED
      BY <3>3
  <2>7. frame[(f - 3) + 1] = b[1] /\ frame[(f - 3) + 2] = b[2] /\ frame[(f - 3) + 3] = b[3]
    BY <2>2, <2>6
  <2> QED
    BY <2>2, <2>3, <2>4, <2>6, <2>7
<1> HIDE DEF frame, e, f
<1>7. /\ P \in Machines /\ P.r = [S.r EXCEPT !.esp = Base(cpu, tss) - (f + e)]
      /\ \A a \in Stack : a >= Base(cpu, tss) => P.m[a] = S.m[a]
      /\ \A k \in 1 .. f + e :
           Base(cpu, tss) - k \in Stack => P.m[Base(cpu, tss) - k] = frame[k]
  BY <1>4, <1>6, PushedFacts DEF P
<1>8. /\ M.r = [P.r EXCEPT !.cs = CODE_SEG, !.eflags = Disabled(P.r.eflags)]
      /\ M.m = P.m /\ M = [r |-> M.r, m |-> M.m]
  BY <1>1, <1>7 DEF Machines
<1>9. M \in Machines
  <2>1. P.r \in RegisterFile /\ P.m \in [Stack -> Int]
    BY <1>7 DEF Machines
  <2>2. Disabled(P.r.eflags) \in Int /\ CODE_SEG \in Int
    BY <2>1 DEF Disabled, InterruptFlag, RegisterFile, CODE_SEG
  <2>3. M.r \in RegisterFile
    BY <1>8, <2>1, <2>2 DEF RegisterFile
  <2> QED
    BY <1>8, <2>1, <2>3 DEF Machines
<1>10. /\ f \in {3, 5} /\ e \in {0, 1} /\ Base(cpu, tss) \in 116 .. StackTop
       /\ outer <=> f = 5
  BY <1>2 DEF f, e, FrameSize, Context, BootContext, UserContext, Base, Outer, USER_CODE, CODE_SEG
<1>11. /\ M.r.esp = F - e /\ M.r.cs = CODE_SEG /\ M.r.ds = cpu.ds /\ SameGeneral(M.r, cpu)
       /\ ~Outer(cpu) => M.r.ss = cpu.ss
  <2>1. S.r \in RegisterFile /\ P.r \in RegisterFile
    BY <1>4, <1>7 DEF Machines
  <2>2. M.r = [S.r EXCEPT !.esp = Base(cpu, tss) - (f + e), !.cs = CODE_SEG,
                          !.eflags = Disabled(P.r.eflags)]
    BY <1>7, <1>8, <2>1 DEF RegisterFile
  <2>3. Base(cpu, tss) - (f + e) = F - e
    BY <1>10
  <2> HIDE DEF F
  <2> QED
    BY <1>5, <2>1, <2>2, <2>3 DEF RegisterFile, SameGeneral
<1>12. \A a \in Stack : a >= Base(cpu, tss) => M.m[a] = mem[a]
  BY <1>4, <1>7, <1>8
<1>13. \A j \in 0 .. f - 1 : M.m[F + j] = frame[f - j]
  <2> SUFFICES ASSUME NEW j \in 0 .. f - 1 PROVE M.m[F + j] = frame[f - j]
    OBVIOUS
  <2>1. f - j \in 1 .. f + e /\ Base(cpu, tss) - (f - j) = F + j
    BY <1>10
  <2>2. F + j \in Stack
    BY <1>10, StackAssumption DEF Stack, StackTop
  <2> HIDE DEF F
  <2> QED
    BY <1>7, <1>8, <2>1, <2>2
<1>14. Framed(F, M.m, [cpu EXCEPT !.eip = eip])
  <2>1. M.m[F] = eip /\ M.m[F + 1] = cpu.cs /\ M.m[F + 2] = cpu.eflags
    <3>1. F + 0 = F /\ f - 0 = f /\ {0, 1, 2} \subseteq 0 .. f - 1
      BY <1>10
    <3> HIDE DEF F
    <3> QED
      BY <1>6, <1>13, <3>1
  <2>2. outer => M.m[F + 3] = cpu.esp /\ M.m[F + 4] = cpu.ss
    <3>1. outer => {3, 4} \subseteq 0 .. f - 1
      BY <1>10
    <3> HIDE DEF F
    <3> QED
      BY <1>6, <1>13, <3>1
  <2> HIDE DEF F
  <2>3. [cpu EXCEPT !.eip = eip] = [cpu EXCEPT !.eip = eip] /\ cpu \in RegisterFile
    BY <1>3
  <2> QED
    BY <1>2, <2>1, <2>2, <2>3 DEF Framed, Outer, RegisterFile
<1> QED
  BY <1>9, <1>11, <1>12, <1>14 DEF M, F, e, f

\* An interrupt enters the handler, and no check of the processor stops it.
LEMMA InterruptStep ==
  ASSUME IsrInv, NEW v \in Vectors, NEW eip \in Int, NEW software,
         Interrupt(v, eip, software), Context([cpu EXCEPT !.eip = eip], tss)
  PROVE  IsrInv' /\ part' = "stub"
<1> DEFINE M == Taken(v, eip)
           b == [cpu EXCEPT !.eip = eip]
           F == Base(cpu, tss) - FrameSize(cpu)
<1>1. IsrTypes /\ Context(cpu, tss) /\ part = "code" /\ cpu \in RegisterFile
  BY DEF Interrupt, IsrInv, IsrTypes
<1>2. MayEnter(software)
  <2>1. CASE BootContext(cpu, tss)
    BY <2>1, Segments DEF MayEnter, BootContext
  <2>2. CASE UserContext(cpu, tss)
    <3>1. tss.esp0 \in Stack
      BY <2>2, StackAssumption DEF UserContext, Stack, StackTop
    <3> QED
      BY <2>2, <3>1, Segments DEF MayEnter, UserContext
  <2> QED
    BY <1>1, <2>1, <2>2 DEF Context
<1>3. /\ vector' = v /\ part' = "stub" /\ tss' = tss /\ cpu' = M.r /\ mem' = M.m
      /\ before' = [Machine EXCEPT !.r.eip = eip]
  BY <1>2 DEF Interrupt, Becomes
<1>4. /\ before' = [r |-> b, m |-> mem] /\ before'.r = b /\ before'.m = mem
      /\ b \in RegisterFile
  BY <1>1, <1>3 DEF Machine, RegisterFile
<1>5. /\ M \in Machines
      /\ F - 1 <= M.r.esp /\ M.r.esp <= F /\ (v \notin PushesError => M.r.esp = F)
      /\ M.r.cs = CODE_SEG /\ M.r.ds = cpu.ds /\ SameGeneral(M.r, cpu)
      /\ ~Outer(cpu) => M.r.ss = cpu.ss
      /\ \A a \in Stack : a >= Base(cpu, tss) => M.m[a] = mem[a]
      /\ Framed(F, M.m, b)
  <2> DEFINE e == IF v \in PushesError THEN 1 ELSE 0
  <2>1. F \in Int
    BY <1>1 DEF Base, FrameSize, IsrTypes, RegisterFile
  <2>2. e \in {0, 1} /\ (v \notin PushesError => e = 0)
    OBVIOUS
  <2>3. /\ M \in Machines /\ M.r.esp = F - e
        /\ M.r.cs = CODE_SEG /\ M.r.ds = cpu.ds /\ SameGeneral(M.r, cpu)
        /\ ~Outer(cpu) => M.r.ss = cpu.ss
        /\ \A a \in Stack : a >= Base(cpu, tss) => M.m[a] = mem[a]
        /\ Framed(F, M.m, b)
    BY <1>1, TakenFacts
  <2> HIDE DEF M, e, F, b
  <2> QED
    BY <2>1, <2>2, <2>3
<1>6. /\ b.cs = cpu.cs /\ b.ds = cpu.ds /\ b.ss = cpu.ss /\ b.esp = cpu.esp
      /\ SameGeneral(b, cpu) /\ Base(b, tss) = Base(cpu, tss)
      /\ FrameSize(b) = FrameSize(cpu) /\ (Outer(b) <=> Outer(cpu))
  BY <1>1 DEF RegisterFile, SameGeneral, Base, FrameSize, Outer
<1> HIDE DEF M, b
<1>7. Base(cpu, tss) \in 116 .. StackTop /\ FrameSize(cpu) \in {3, 5}
  BY <1>1 DEF Context, BootContext, UserContext, Base, FrameSize, Outer, USER_CODE, CODE_SEG
<1>8. IsrTypes'
  BY <1>1, <1>3, <1>4, <1>5 DEF IsrTypes, Machines, InHandler
<1>9. Inside'
  <2>1. /\ Context(before'.r, tss') /\ vector' \in Vectors
        /\ cpu'.cs = CODE_SEG /\ cpu'.ds = before'.r.ds
        /\ ~Outer(before'.r) => cpu'.ss = before'.r.ss
    BY <1>3, <1>4, <1>5, <1>6 DEF b
  <2>2. /\ Own(part') = 0 /\ Base(before'.r, tss') = Base(cpu, tss)
        /\ FrameSize(before'.r) = FrameSize(cpu) /\ cpu'.esp = M.r.esp /\ M.r.esp \in Int
    BY <1>3, <1>4, <1>5, <1>6 DEF Own, Machines, RegisterFile
  <2>3. cpu'.esp <= Base(before'.r, tss') /\ cpu'.esp + Own(part') >= 110
    BY <1>5, <1>7, <2>2
  <2>4. vector' \in Returning => v \notin PushesError
    BY <1>3 DEF Returning, PushesError
  <2>5. vector' \in Returning =>
          /\ cpu'.esp + Own(part') = F
          /\ F + FrameSize(before'.r) = Base(before'.r, tss')
    BY <1>5, <1>7, <2>2, <2>4
  <2> HIDE DEF F
  <2>6. vector' \in Returning => Framed(cpu'.esp + Own(part'), mem', before'.r)
    BY <1>3, <1>4, <1>5, <2>5
  <2>7. \A a \in Stack : a >= Base(before'.r, tss') => mem'[a] = before'.m[a]
    BY <1>3, <1>4, <1>5, <2>2
  <2> QED
    BY <2>1, <2>3, <2>5, <2>6, <2>7 DEF Inside
<1>10. SameGeneral(cpu', before'.r)
  BY <1>3, <1>4, <1>5, <1>6 DEF SameGeneral
<1> QED
  BY <1>3, <1>8, <1>9, <1>10 DEF IsrInv, InHandler, Registered

\* Code that is not interrupted.
LEMMA CodeStep ==
  ASSUME IsrInv, load_tss \/ enter_usermode \/ fix_stack
  PROVE  IsrInv' /\ part = "code" /\ part' = "code"
<1>1. IsrTypes /\ part = "code" /\ Context(cpu, tss) /\ cpu \in RegisterFile
  BY DEF IsrInv, IsrTypes, load_tss, enter_usermode, fix_stack
<1>2. CASE load_tss
  <2>1. /\ part' = "code" /\ UNCHANGED <<cpu, mem, vector, before>>
        /\ tss' = [ss0 |-> 16, esp0 |-> 0] /\ cpu.eip = BOOT
    BY <1>1, <1>2 DEF load_tss
  <2>2. Context(cpu, tss)'
    BY <1>1, <2>1 DEF Context, BootContext, UserContext, DATA_SEG, BOOT, USER_A, USER_INT, USER_LOOP
  <2> QED
    BY <1>1, <2>1, <2>2 DEF IsrInv, IsrTypes, InHandler, Registered
<1>3. CASE fix_stack
  <2>1. /\ part' = "code" /\ UNCHANGED <<mem, vector, before, tss>>
        /\ cpu' = [cpu EXCEPT !.esp = cpu.esp + 1, !.eip = USER_INT] /\ cpu.eip = USER_A
    BY <1>1, <1>3 DEF fix_stack
  <2>2. UserContext(cpu, tss) /\ cpu.esp \in Int /\ tss.esp0 \in Int
    BY <1>1, <2>1 DEF Context, BootContext, BOOT, USER_A, RegisterFile, IsrTypes
  <2>3. /\ cpu' \in RegisterFile /\ cpu'.eip = USER_INT /\ cpu'.esp = cpu.esp + 1
        /\ cpu'.cs = cpu.cs /\ cpu'.ss = cpu.ss /\ cpu'.ds = cpu.ds
        /\ cpu'.eflags = cpu.eflags
    <3>1. cpu.esp + 1 \in Int /\ USER_INT \in Int
      BY <2>2 DEF USER_INT
    <3> QED
      BY <1>1, <2>1, <3>1 DEF RegisterFile
  <2>4. UserContext(cpu', tss')
    BY <2>1, <2>2, <2>3 DEF UserContext
  <2> QED
    BY <1>1, <2>1, <2>3, <2>4 DEF IsrInv, IsrTypes, InHandler, Registered, Context
<1>4. CASE enter_usermode
  <2> DEFINE M0 == [r |-> [cpu EXCEPT !.ds = USER_DATA, !.eflags = Disabled(@)], m |-> mem]
             vs == <<USER_DATA, cpu.esp - 1, Disabled(cpu.eflags) + InterruptFlag,
                     USER_CODE, USER_A>>
             M == Pushed(M0, vs)
             C == ccall(M, 1)
             s == cpu.esp
             x == ArgumentsAt(M.r.esp, 1)
  <2>1. /\ cpu.eip = BOOT /\ tss.ss0 # 0
        /\ tss' = [tss EXCEPT !.esp0 = x] /\ UNCHANGED <<vector, before>>
        /\ IF MayReturn(C) THEN Becomes(Iret(C)) /\ part' = "code"
           ELSE part' = "fault" /\ UNCHANGED <<cpu, mem>>
    BY <1>4 DEF enter_usermode
  <2>2. BootContext(cpu, tss)
    BY <1>1, <2>1 DEF Context, UserContext, BOOT, USER_A, USER_INT, USER_LOOP
  <2>3. /\ s \in 124 .. StackTop /\ StackTop = 100 + StackWords /\ StackWords \in Nat
        /\ Disabled(cpu.eflags) + InterruptFlag = 2 + InterruptFlag /\ tss.ss0 = DATA_SEG
    BY <2>1, <2>2, StackAssumption DEF BootContext, Disabled, Enabled, InterruptFlag, StackTop
  <2>4. /\ M0 \in Machines /\ M0.r.esp = s /\ M0.r.ds = USER_DATA /\ M0.r.cs = CODE_SEG
    <3>1. M0.r = [cpu EXCEPT !.ds = USER_DATA, !.eflags = Disabled(cpu.eflags)] /\ M0.m = mem
          /\ M0 = [r |-> M0.r, m |-> M0.m]
      BY <1>1 DEF RegisterFile
    <3>2. cpu.eflags \in Int /\ Disabled(cpu.eflags) \in Int /\ USER_DATA \in Int
      BY <1>1 DEF RegisterFile, Disabled, InterruptFlag, USER_DATA
    <3>3. M0.r \in RegisterFile /\ M0.r.esp = s /\ M0.r.ds = USER_DATA /\ M0.r.cs = cpu.cs
      BY <1>1, <3>1, <3>2 DEF RegisterFile
    <3>4. cpu.cs = CODE_SEG
      BY <2>2 DEF BootContext
    <3> HIDE DEF M0
    <3> QED
      BY <1>1, <3>1, <3>3, <3>4 DEF Machines, IsrTypes
  <2>5. /\ vs \in Seq(Int) /\ Len(vs) = 5 /\ vs[1] = USER_DATA /\ vs[2] = s - 1
        /\ vs[3] = 2 + InterruptFlag /\ vs[4] = USER_CODE /\ vs[5] = USER_A
    BY <2>3 DEF USER_DATA, InterruptFlag, USER_CODE, USER_A
  <2> HIDE DEF M0, vs
  <2>6. /\ M \in Machines /\ M.r = [M0.r EXCEPT !.esp = s - 5]
        /\ \A k \in 1 .. 5 : s - k \in Stack => M.m[s - k] = vs[k]
    <3>1. /\ M \in Machines /\ M.r = [M0.r EXCEPT !.esp = M0.r.esp - Len(vs)]
          /\ \A k \in 1 .. Len(vs) : M0.r.esp - k \in Stack => M.m[M0.r.esp - k] = vs[k]
      BY <2>4, <2>5, PushedFacts
    <3> HIDE DEF M, s
    <3> QED
      BY <2>4, <2>5, <3>1
  <2> HIDE DEF M
  <2>7. M.r.esp = s - 5 /\ M.r.ds = USER_DATA /\ M.r.cs = CODE_SEG
    BY <2>4, <2>6 DEF Machines, RegisterFile
  <2>8. /\ C \in Machines
        /\ C.r = [M.r EXCEPT !.ebp = M.r.esp, !.eax = Junk, !.ecx = Junk, !.edx = Junk]
        /\ \A a \in Stack : a >= M.r.esp => C.m[a] = M.m[a]
        /\ x \in M.r.esp - 3 .. M.r.esp
    BY <2>6, CcallFacts
  <2> HIDE DEF C, x
  <2>9. C.r.esp = s - 5 /\ C.r.ds = USER_DATA /\ C.r.cs = CODE_SEG
    BY <2>6, <2>7, <2>8 DEF Machines, RegisterFile
  <2>10. \A k \in 1 .. 5 : s - k \in Stack /\ C.m[s - k] = vs[k]
    <3> SUFFICES ASSUME NEW k \in 1 .. 5 PROVE s - k \in Stack /\ C.m[s - k] = vs[k]
      OBVIOUS
    <3>1. s - k \in Stack /\ s - k >= s - 5
      BY <2>3 DEF Stack
    <3> HIDE DEF s
    <3> QED
      BY <2>6, <2>7, <2>8, <3>1
  <2>11. /\ C.m[C.r.esp + 0] = USER_A /\ C.m[C.r.esp + 1] = USER_CODE
         /\ C.m[C.r.esp + 2] = 2 + InterruptFlag /\ C.m[C.r.esp + 3] = s - 1
         /\ C.m[C.r.esp + 4] = USER_DATA
         /\ {C.r.esp + k : k \in 0 .. 2} \subseteq Stack
    <3>1. /\ (s - 5) + 0 = s - 5 /\ (s - 5) + 1 = s - 4 /\ (s - 5) + 2 = s - 3
          /\ (s - 5) + 3 = s - 2 /\ (s - 5) + 4 = s - 1
      BY <2>3
    <3>2. /\ C.m[s - 1] = vs[1] /\ C.m[s - 2] = vs[2] /\ C.m[s - 3] = vs[3]
          /\ C.m[s - 4] = vs[4] /\ C.m[s - 5] = vs[5]
          /\ s - 3 \in Stack /\ s - 4 \in Stack /\ s - 5 \in Stack
      BY <2>10
    <3> HIDE DEF s
    <3>3. \A k \in 0 .. 2 : C.r.esp + k \in Stack
      BY <2>9, <3>1, <3>2
    <3> QED
      BY <2>5, <2>9, <3>1, <3>2, <3>3
  <2>12. MayReturn(C)
    BY <2>9, <2>11, Segments DEF MayReturn
  <2>13. /\ part' = "code" /\ cpu' = Iret(C).r /\ mem' = Iret(C).m
    BY <2>1, <2>12 DEF Becomes
  <2>14. Rpl(C.m[C.r.esp + 1]) > Rpl(C.r.cs)
    BY <2>9, <2>11, Segments
  <2>15. /\ Iret(C).r = Back(C.r, USER_A, USER_CODE, 2 + InterruptFlag, s - 1, USER_DATA)
         /\ Iret(C).m = C.m
    BY <2>8, <2>11, <2>14 DEF Iret, Machines, RegisterFile, Back
  <2>16. /\ cpu' \in RegisterFile /\ mem' \in [Stack -> Int]
         /\ cpu'.eip = USER_A /\ cpu'.cs = USER_CODE /\ cpu'.eflags = 2 + InterruptFlag
         /\ cpu'.esp = s - 1 /\ cpu'.ss = USER_DATA /\ cpu'.ds = USER_DATA
    <3>1. s - 1 \in Int /\ USER_A \in Int /\ USER_CODE \in Int /\ 2 + InterruptFlag \in Int
          /\ USER_DATA \in Int
      BY <2>3 DEF USER_A, USER_CODE, InterruptFlag, USER_DATA
    <3>2. C.r \in RegisterFile /\ C.m \in [Stack -> Int]
      BY <2>8 DEF Machines
    <3> HIDE DEF s
    <3> QED
      BY <2>9, <2>13, <2>15, <3>1, <3>2, OuterRegisters
  <2>17. tss' \in [ss0 : Int, esp0 : Int] /\ tss'.ss0 = DATA_SEG /\ tss'.esp0 = x /\ x \in s - 8 .. s - 5
    <3>1. x \in s - 8 .. s - 5 /\ x \in Int
      BY <2>3, <2>7, <2>8
    <3> HIDE DEF s
    <3> QED
      BY <1>1, <2>1, <2>3, <3>1 DEF IsrTypes
  <2>18. UserContext(cpu', tss')
    BY <2>3, <2>16, <2>17 DEF UserContext
  <2> QED
    BY <1>1, <2>1, <2>13, <2>16, <2>17, <2>18 DEF IsrInv, IsrTypes, InHandler, Registered, Context
<1> QED
  BY <1>2, <1>3, <1>4

\* What is above the stack pointer stays: the stack of the interrupted code,
\* the frame and the saved registers.
LEMMA FrameKept ==
  ASSUME IsrTypes, Inside, NEW n \in [Stack -> Int],
         \A a \in Stack : a >= cpu.esp => n[a] = mem[a]
  PROVE  /\ \A a \in Stack : a >= Base(before.r, tss) => n[a] = before.m[a]
         /\ vector \in Returning => Framed(cpu.esp + Own(part), n, before.r)
         /\ Base(before.r, tss) \in 116 .. StackTop /\ cpu.esp \in Int
         /\ FrameSize(before.r) \in {3, 5} /\ (Outer(before.r) <=> FrameSize(before.r) = 5)
<1> DEFINE B == Base(before.r, tss)
           f == FrameSize(before.r)
           o == Own(part)
           s == cpu.esp
<1>1. B \in 116 .. StackTop /\ f \in {3, 5} /\ (Outer(before.r) <=> f = 5)
  BY DEF Inside, Context, BootContext, UserContext, Base, FrameSize, Outer, USER_CODE, CODE_SEG
<1>2. s \in Int /\ o \in {0, 2, 9} /\ s <= B /\ s + o >= 110
  BY DEF IsrTypes, RegisterFile, Inside, Own
<1>3. \A a \in Stack : a >= B => n[a] = before.m[a]
  <2>1. \A a \in Stack : a >= B => a >= s
    BY <1>1, <1>2, StackAssumption DEF Stack
  <2> QED
    BY <2>1 DEF Inside
<1>4. ASSUME vector \in Returning PROVE Framed(s + o, n, before.r)
  <2>1. s + o + f = B /\ Framed(s + o, mem, before.r)
    BY <1>4 DEF Inside
  <2>2. \A k \in 0 .. f - 1 : n[s + o + k] = mem[s + o + k]
    <3> SUFFICES ASSUME NEW k \in 0 .. f - 1 PROVE n[s + o + k] = mem[s + o + k]
      OBVIOUS
    <3> HIDE DEF s, o, f, B
    <3>1. s + o + k \in Stack /\ s + o + k >= s
      <4>1. s + o + k >= 110 /\ s + o + k <= StackTop /\ s + o + k >= s /\ s + o + k \in Int
        <5>1. s + o + f = B
          BY <2>1
        <5>2. StackTop \in Int
          BY StackAssumption DEF StackTop
        <5> QED
          BY <1>1, <1>2, <5>1, <5>2
      <4> QED
        BY <4>1, StackAssumption DEF Stack, StackTop
    <3> QED
      BY <3>1 DEF s
  <2> HIDE DEF s, o, f
  <2>3. /\ n[s + o] = mem[s + o] /\ n[s + o + 1] = mem[s + o + 1]
        /\ n[s + o + 2] = mem[s + o + 2]
    <3>1. s + o + 0 = s + o /\ {0, 1, 2} \subseteq 0 .. f - 1
      BY <1>1, <1>2
    <3> QED
      BY <2>2, <3>1
  <2>4. f = 5 => n[s + o + 3] = mem[s + o + 3] /\ n[s + o + 4] = mem[s + o + 4]
    <3>1. f = 5 => {3, 4} \subseteq 0 .. f - 1
      OBVIOUS
    <3> QED
      BY <2>2, <3>1
  <2> QED
    BY <1>1, <2>1, <2>3, <2>4 DEF Framed
<1> QED
  BY <1>1, <1>2, <1>3, <1>4

\* A push in the handler.
LEMMA PushedHere ==
  ASSUME IsrTypes, NEW vs \in Seq(Int), NEW l, l = Len(vs)
  PROVE  /\ Pushed(Machine, vs) \in Machines
         /\ Pushed(Machine, vs).r = [cpu EXCEPT !.esp = cpu.esp - l]
         /\ \A a \in Stack : a >= cpu.esp => Pushed(Machine, vs).m[a] = mem[a]
         /\ \A k \in 1 .. l :
              cpu.esp - k \in Stack => Pushed(Machine, vs).m[cpu.esp - k] = vs[k]
<1>1. Machine \in Machines /\ Machine.r = cpu /\ Machine.m = mem
  BY MachineType
<1>2. /\ Pushed(Machine, vs) \in Machines
      /\ Pushed(Machine, vs).r = [Machine.r EXCEPT !.esp = Machine.r.esp - Len(vs)]
      /\ \A a \in Stack : a >= Machine.r.esp => Pushed(Machine, vs).m[a] = Machine.m[a]
      /\ \A k \in 1 .. Len(vs) :
           Machine.r.esp - k \in Stack => Pushed(Machine, vs).m[Machine.r.esp - k] = vs[k]
  BY <1>1, PushedFacts
<1> QED
  BY <1>1, <1>2

\* A call in the handler.
LEMMA CalledHere ==
  ASSUME IsrTypes, NEW n \in Nat
  PROVE  /\ ccall(Machine, n) \in Machines
         /\ ccall(Machine, n).r
            = [cpu EXCEPT !.ebp = cpu.esp, !.eax = Junk, !.ecx = Junk, !.edx = Junk]
         /\ \A a \in Stack : a >= cpu.esp => ccall(Machine, n).m[a] = mem[a]
<1>1. Machine \in Machines /\ Machine.r = cpu /\ Machine.m = mem
  BY MachineType
<1>2. /\ ccall(Machine, n) \in Machines
      /\ ccall(Machine, n).r
         = [Machine.r EXCEPT !.ebp = Machine.r.esp, !.eax = Junk, !.ecx = Junk, !.edx = Junk]
      /\ \A a \in Stack : a >= Machine.r.esp => ccall(Machine, n).m[a] = Machine.m[a]
  BY <1>1, CcallFacts
<1> QED
  BY <1>1, <1>2

\* What a call leaves alone.
LEMMA CallKeeps ==
  ASSUME NEW M \in Machines, NEW n \in Nat
  PROVE  /\ ccall(M, n) \in Machines
         /\ ccall(M, n).r.esp = M.r.esp /\ ccall(M, n).r.cs = M.r.cs
         /\ ccall(M, n).r.ds = M.r.ds /\ ccall(M, n).r.ss = M.r.ss
         /\ \A a \in Stack : a >= M.r.esp => ccall(M, n).m[a] = M.m[a]
<1> DEFINE N == ccall(M, n)
<1>1. /\ N \in Machines
      /\ N.r = [M.r EXCEPT !.ebp = M.r.esp, !.eax = Junk, !.ecx = Junk, !.edx = Junk]
      /\ \A a \in Stack : a >= M.r.esp => N.m[a] = M.m[a]
  BY CcallFacts
<1>2. M.r \in RegisterFile
  BY DEF Machines
<1> HIDE DEF N
<1>3. N.r.esp = M.r.esp /\ N.r.cs = M.r.cs /\ N.r.ds = M.r.ds /\ N.r.ss = M.r.ss
  BY <1>1, <1>2 DEF RegisterFile
<1> QED
  BY <1>1, <1>3 DEF N

\* The stubs push an error code where the processor did not, and the vector.
LEMMA StubStep == IsrInv /\ stub => IsrInv' /\ part' = "save"
<1> SUFFICES ASSUME IsrInv, stub PROVE IsrInv' /\ part' = "save"
  OBVIOUS
<1> DEFINE vs == IF vector \in ErrorStubs THEN <<vector>> ELSE <<0, vector>>
           M == Pushed(Machine, vs)
           l == Len(vs)
           s == cpu.esp
<1>1. /\ part = "stub" /\ part' = "save" /\ UNCHANGED <<tss, vector, before>>
      /\ cpu' = M.r /\ mem' = M.m
  BY DEF stub, Goto, Becomes
<1>2. /\ IsrTypes /\ Inside /\ SameGeneral(cpu, before.r)
      /\ vector \in Int
  BY <1>1 DEF IsrInv, InHandler, Inside, Vectors
<1>3. /\ vs \in Seq(Int) /\ l \in {1, 2} /\ vs[l] = vector
      /\ vector \in Returning => l = 2
  BY <1>2 DEF Returning, ErrorStubs
<1>4. /\ M \in Machines /\ M.r = [cpu EXCEPT !.esp = s - l]
      /\ \A a \in Stack : a >= s => M.m[a] = mem[a]
      /\ \A k \in 1 .. l : s - k \in Stack => M.m[s - k] = vs[k]
  BY <1>2, <1>3, PushedHere, ZenonT(40)
<1> HIDE DEF M, vs, l
<1>5. /\ cpu' \in RegisterFile /\ mem' \in [Stack -> Int] /\ cpu'.esp = s - l
      /\ cpu'.cs = cpu.cs /\ cpu'.ds = cpu.ds /\ cpu'.ss = cpu.ss
      /\ SameGeneral(cpu', cpu)
  BY <1>1, <1>2, <1>4 DEF Machines, RegisterFile, IsrTypes, SameGeneral
<1>6. /\ \A a \in Stack : a >= Base(before.r, tss) => mem'[a] = before.m[a]
      /\ vector \in Returning => Framed(s + Own(part), mem', before.r)
      /\ Base(before.r, tss) \in 116 .. StackTop /\ s \in Int
  BY <1>1, <1>2, <1>4, <1>5, FrameKept
<1>7. s <= Base(before.r, tss) /\ s >= 110 /\ Own(part) = 0 /\ Own(part') = 2
  BY <1>1, <1>2, <1>6 DEF Inside, Own
<1>8. mem'[cpu'.esp] = vector
  <2>1. s - l \in Stack /\ l \in 1 .. l
    BY <1>3, <1>6, <1>7, StackAssumption, SMTT(30) DEF Stack, StackTop
  <2> HIDE DEF s
  <2> QED
    BY <1>1, <1>3, <1>4, <1>5, <2>1
<1>9. Inside'
  <2>1. cpu'.esp <= Base(before.r, tss) /\ cpu'.esp + Own(part') >= 110
    BY <1>3, <1>5, <1>6, <1>7
  <2>2. vector \in Returning => cpu'.esp + Own(part') = s + Own(part)
    BY <1>3, <1>5, <1>6, <1>7
  <2> HIDE DEF s
  <2> QED
    BY <1>1, <1>2, <1>5, <1>6, <2>1, <2>2 DEF Inside, s
<1>10. SameGeneral(cpu', before'.r)
  BY <1>1, <1>2, <1>5 DEF SameGeneral
<1>11. IsrTypes'
  BY <1>1, <1>2, <1>5 DEF IsrTypes, InHandler
<1> QED
  BY <1>1, <1>8, <1>9, <1>10, <1>11 DEF IsrInv, InHandler, Registered

\* The registers are saved, and edi points to the vector.
LEMMA SaveStep == IsrInv /\ save => IsrInv' /\ part' = "dispatch"
<1> SUFFICES ASSUME IsrInv, save PROVE IsrInv' /\ part' = "dispatch"
  OBVIOUS
<1> DEFINE M == Pushed(Machine, Saved)
           s == cpu.esp
<1>1. /\ part = "save" /\ part' = "dispatch" /\ UNCHANGED <<tss, vector, before>>
      /\ cpu' = [M EXCEPT !.r.edi = M.r.esp + 7, !.r.ecx = M.r.esp + 8, !.r.ebx = 1].r
      /\ mem' = [M EXCEPT !.r.edi = M.r.esp + 7, !.r.ecx = M.r.esp + 8, !.r.ebx = 1].m
  BY DEF save, Goto, Becomes
<1>2. /\ IsrTypes /\ Inside /\ SameGeneral(cpu, before.r)
      /\ mem[s] = vector
  BY <1>1 DEF IsrInv, InHandler
<1>3. /\ Saved \in Seq(Int) /\ Len(Saved) = 7
      /\ Saved[1] = cpu.eax /\ Saved[2] = cpu.ebx /\ Saved[3] = cpu.ecx /\ Saved[4] = cpu.edx
      /\ Saved[5] = cpu.esi /\ Saved[6] = cpu.edi /\ Saved[7] = cpu.ebp
  BY <1>2 DEF Saved, IsrTypes, RegisterFile
<1>4. /\ M \in Machines /\ M.r = [cpu EXCEPT !.esp = s - 7]
      /\ \A a \in Stack : a >= s => M.m[a] = mem[a]
      /\ \A k \in 1 .. 7 : s - k \in Stack => M.m[s - k] = Saved[k]
  BY <1>2, <1>3, PushedHere
<1> HIDE DEF M
<1>5. cpu' = [M.r EXCEPT !.edi = M.r.esp + 7, !.ecx = M.r.esp + 8, !.ebx = 1] /\ mem' = M.m
  BY <1>1, <1>4 DEF Machines
<1>6. s \in Int /\ M.r \in RegisterFile /\ M.m \in [Stack -> Int] /\ M.r.esp = s - 7
  BY <1>2, <1>4 DEF IsrTypes, RegisterFile, Machines
<1>7. /\ cpu' \in RegisterFile /\ mem' \in [Stack -> Int] /\ cpu'.esp = s - 7 /\ cpu'.edi = s
      /\ cpu'.cs = cpu.cs /\ cpu'.ds = cpu.ds /\ cpu'.ss = cpu.ss
  <2>1. (s - 7) + 7 = s /\ s - 7 \in Int /\ (s - 7) + 8 \in Int
    BY <1>6
  <2>2. M.r.cs = cpu.cs /\ M.r.ds = cpu.ds /\ M.r.ss = cpu.ss
    BY <1>2, <1>4 DEF IsrTypes, RegisterFile
  <2> DEFINE c == (s - 7) + 8
             d == s - 7
  <2>3. cpu' = [M.r EXCEPT !.edi = s, !.ecx = c, !.ebx = 1] /\ M.r.esp = d
    BY <1>5, <1>6, <2>1
  <2>4. s \in Int /\ c \in Int
    BY <1>6
  <2> HIDE DEF s, c, d
  <2>5. /\ cpu' \in RegisterFile /\ cpu'.esp = d /\ cpu'.edi = s
        /\ cpu'.cs = M.r.cs /\ cpu'.ds = M.r.ds /\ cpu'.ss = M.r.ss
    <3>1. M.r \in RegisterFile
      BY <1>6
    <3>2. cpu' \in RegisterFile
      <4> DEFINE q == [M.r EXCEPT !.edi = s]
      <4>1. q \in RegisterFile
        BY <2>4, <3>1 DEF RegisterFile
      <4> HIDE DEF q
      <4> DEFINE t == [q EXCEPT !.ecx = c]
      <4>2. t \in RegisterFile
        BY <2>4, <4>1 DEF RegisterFile
      <4> HIDE DEF t
      <4>3. [t EXCEPT !.ebx = 1] \in RegisterFile
        BY <4>2 DEF RegisterFile
      <4> QED
        BY <2>3, <4>3 DEF q, t
    <3>3. cpu'.esp = d /\ cpu'.edi = s
      BY ONLY <2>3, <2>4, <3>1 DEF RegisterFile
    <3>4. cpu'.cs = M.r.cs /\ cpu'.ds = M.r.ds /\ cpu'.ss = M.r.ss
      BY ONLY <2>3, <2>4, <3>1 DEF RegisterFile
    <3> QED
      BY <3>2, <3>3, <3>4
  <2> QED
    BY <1>5, <1>6, <2>2, <2>5 DEF d
<1>8. /\ \A a \in Stack : a >= Base(before.r, tss) => mem'[a] = before.m[a]
      /\ vector \in Returning => Framed(s + Own(part), mem', before.r)
      /\ Base(before.r, tss) \in 116 .. StackTop
  BY <1>1, <1>2, <1>4, <1>5, <1>7, FrameKept
<1>9. s <= Base(before.r, tss) /\ s + 2 >= 110 /\ Own(part) = 2 /\ Own(part') = 9
  BY <1>1, <1>2, <1>8 DEF Inside, Own
<1>10. cpu'.edi \in Stack /\ mem'[cpu'.edi] = vector
  <2>1. s \in Stack /\ s >= s
    BY <1>6, <1>8, <1>9, StackAssumption DEF Stack, StackTop
  <2> HIDE DEF s
  <2> QED
    BY <1>2, <1>4, <1>5, <1>7, <2>1
<1>11. Inside'
  <2>1. cpu'.esp <= Base(before.r, tss) /\ cpu'.esp + Own(part') >= 110
    BY <1>6, <1>7, <1>8, <1>9
  <2>2. cpu'.esp + Own(part') = s + Own(part)
    BY <1>6, <1>7, <1>9
  <2> HIDE DEF s
  <2> QED
    BY <1>1, <1>2, <1>7, <1>8, <2>1, <2>2 DEF Inside, s
<1>12. SavedAt(cpu'.esp, mem', before'.r)
  <2>1. \A k \in 1 .. 7 : mem'[s - k] = Saved[k]
    <3> SUFFICES ASSUME NEW k \in 1 .. 7 PROVE mem'[s - k] = Saved[k]
      OBVIOUS
    <3> HIDE DEF s
    <3>1. s - k \in Stack
      BY <1>6, <1>8, <1>9, StackAssumption DEF Stack, StackTop
    <3> QED
      BY <1>4, <1>5, <3>1
  <2>2. /\ (s - 7) + 1 = s - 6 /\ (s - 7) + 2 = s - 5 /\ (s - 7) + 3 = s - 4
        /\ (s - 7) + 4 = s - 3 /\ (s - 7) + 5 = s - 2 /\ (s - 7) + 6 = s - 1
    BY <1>6
  <2> HIDE DEF s
  <2>3. /\ mem'[s - 7] = cpu.ebp /\ mem'[s - 6] = cpu.edi /\ mem'[s - 5] = cpu.esi
        /\ mem'[s - 4] = cpu.edx /\ mem'[s - 3] = cpu.ecx /\ mem'[s - 2] = cpu.ebx
        /\ mem'[s - 1] = cpu.eax
    BY <1>3, <2>1
  <2> QED
    BY <1>1, <1>2, <1>7, <2>2, <2>3 DEF SavedAt, SameGeneral
<1>13. IsrTypes'
  BY <1>1, <1>2, <1>7 DEF IsrTypes, InHandler, Registered
<1> QED
  BY <1>1, <1>10, <1>11, <1>12, <1>13 DEF IsrInv, InHandler, Registered

\* A part of the handler that leaves its stack pointer, its segments and what
\* is on the stack alone.
LEMMA PartStep ==
  ASSUME IsrInv, part \in Registered, vector \in Returning,
         part' \in Registered \ {"dispatch"}, UNCHANGED <<tss, vector, before>>,
         cpu' \in RegisterFile, mem' \in [Stack -> Int], cpu'.esp = cpu.esp,
         cpu'.cs = cpu.cs, cpu'.ds = cpu.ds, cpu'.ss = cpu.ss,
         \A a \in Stack : a >= cpu.esp => mem'[a] = mem[a]
  PROVE  IsrInv'
<1> DEFINE s == cpu.esp
<1>1. IsrTypes /\ Inside /\ SavedAt(s, mem, before.r) /\ Own(part) = 9 /\ Own(part') = 9
  BY DEF IsrInv, InHandler, Registered, Own
<1>2. /\ \A a \in Stack : a >= Base(before.r, tss) => mem'[a] = before.m[a]
      /\ Framed(s + 9, mem', before.r)
      /\ Base(before.r, tss) \in 116 .. StackTop /\ s \in Int
      /\ FrameSize(before.r) \in {3, 5}
  BY <1>1, FrameKept
<1>3. /\ s + 9 + FrameSize(before.r) = Base(before.r, tss) /\ s + 9 >= 110
  BY <1>1 DEF Inside
<1>4. Inside'
  BY <1>1, <1>2 DEF Inside
<1>5. SavedAt(s, mem', before.r)
  <2>1. \A k \in 0 .. 6 : mem'[s + k] = mem[s + k]
    <3> SUFFICES ASSUME NEW k \in 0 .. 6 PROVE mem'[s + k] = mem[s + k]
      OBVIOUS
    <3> DEFINE f == FrameSize(before.r)
               B == Base(before.r, tss)
    <3> HIDE DEF s, f, B
    <3>1. s + k \in Stack /\ s + k >= s
      BY <1>2, <1>3, StackAssumption DEF Stack, StackTop, f, B
    <3> QED
      BY <3>1 DEF s
  <2> HIDE DEF s
  <2>2. s + 0 = s
    BY <1>2
  <2>3. /\ mem'[s + 0] = mem[s + 0] /\ mem'[s + 1] = mem[s + 1] /\ mem'[s + 2] = mem[s + 2]
        /\ mem'[s + 3] = mem[s + 3] /\ mem'[s + 4] = mem[s + 4]
        /\ mem'[s + 5] = mem[s + 5] /\ mem'[s + 6] = mem[s + 6]
    BY <2>1
  <2> QED
    BY <1>1, <2>2, <2>3 DEF SavedAt
<1>6. IsrTypes'
  BY <1>1 DEF IsrTypes, InHandler
<1> QED
  BY <1>4, <1>5, <1>6 DEF IsrInv, InHandler, Registered

\* The comparisons lead the vector to its handler, or to the HLT of the others.
LEMMA DispatchStep == IsrInv /\ dispatch => IsrInv' /\ part = "dispatch" /\ part' # "fault"
<1> SUFFICES ASSUME IsrInv, dispatch PROVE IsrInv' /\ part = "dispatch" /\ part' # "fault"
  OBVIOUS
<1> DEFINE number == Load(Machine, cpu.edi)
           c == IF Known(number) THEN number ELSE Compared[Len(Compared)]
           b == IF number \in {1, 3} THEN cpu.ebx ELSE 0
<1>1. /\ part = "dispatch" /\ part' = Target(number) /\ UNCHANGED <<tss, vector, before, mem>>
      /\ cpu' = [cpu EXCEPT !.ecx = c, !.ebx = b]
  BY DEF dispatch, Goto
<1>2. IsrTypes /\ Inside /\ cpu.edi \in Stack /\ mem[cpu.edi] = vector /\ vector \in Int
      /\ cpu \in RegisterFile
  BY <1>1 DEF IsrInv, InHandler, Registered, IsrTypes, Inside, Vectors
<1>3. number = vector
  BY <1>2, MachineType DEF Load
<1>4. c \in Int /\ b \in Int
  <2>1. Compared[Len(Compared)] = 51
    BY DEF Compared
  <2>2. cpu.ebx \in Int
    BY <1>2 DEF RegisterFile
  <2> QED
    BY <1>2, <1>3, <2>1, <2>2
<1> HIDE DEF number, c, b
<1>5. cpu' \in RegisterFile
  <2> DEFINE q == [cpu EXCEPT !.ecx = c]
  <2>1. q \in RegisterFile
    BY <1>2, <1>4 DEF RegisterFile
  <2> HIDE DEF q
  <2>2. [q EXCEPT !.ebx = b] \in RegisterFile
    BY <1>4, <2>1 DEF RegisterFile
  <2> QED
    BY <1>1, <2>2 DEF q
<1>6. cpu'.esp = cpu.esp /\ cpu'.cs = cpu.cs /\ cpu'.ds = cpu.ds /\ cpu'.ss = cpu.ss
  BY <1>1, <1>2 DEF RegisterFile
<1>7. CASE vector \in Returning
  <2>1. part' \in {"resume", "body"}
    BY <1>1, <1>3, <1>7 DEF Target, Returning
  <2> QED
    BY <1>1, <1>2, <1>5, <1>6, <1>7, <2>1, PartStep DEF IsrTypes, Registered
<1>8. CASE vector \notin Returning
  <2>1. part' = "halted"
    BY <1>1, <1>3, <1>8 DEF Target, Returning
  <2> QED
    BY <1>1, <1>2, <1>5, <2>1 DEF IsrInv, IsrTypes, InHandler, Registered
<1> QED
  BY <1>7, <1>8

\* resume calls printf, or not.
LEMMA ResumeStep == IsrInv /\ resume => IsrInv' /\ part = "resume" /\ part' # "fault"
<1> SUFFICES ASSUME IsrInv, resume PROVE IsrInv' /\ part = "resume" /\ part' # "fault"
  OBVIOUS
<1> DEFINE C == ccall(Machine, 3)
<1>1. /\ part = "resume" /\ part' = "cleanup" /\ UNCHANGED <<tss, vector, before>>
      /\ \/ UNCHANGED <<cpu, mem>>
         \/ cpu' = C.r /\ mem' = C.m
  BY DEF resume, Goto, Becomes
<1>2. IsrTypes /\ vector \in Returning /\ cpu \in RegisterFile /\ mem \in [Stack -> Int]
  BY <1>1 DEF IsrInv, IsrTypes, Registered
<1>3. /\ C \in Machines
      /\ C.r = [cpu EXCEPT !.ebp = cpu.esp, !.eax = Junk, !.ecx = Junk, !.edx = Junk]
      /\ \A a \in Stack : a >= cpu.esp => C.m[a] = mem[a]
  BY <1>2, CalledHere
<1> HIDE DEF C
<1>4. /\ cpu' \in RegisterFile /\ mem' \in [Stack -> Int] /\ cpu'.esp = cpu.esp
      /\ cpu'.cs = cpu.cs /\ cpu'.ds = cpu.ds /\ cpu'.ss = cpu.ss
      /\ \A a \in Stack : a >= cpu.esp => mem'[a] = mem[a]
  <2>1. CASE UNCHANGED <<cpu, mem>>
    BY <1>2, <2>1
  <2>2. CASE cpu' = C.r /\ mem' = C.m
    BY <1>2, <1>3, <2>2 DEF Machines, RegisterFile
  <2> QED
    BY <1>1, <2>1, <2>2
<1> QED
  BY <1>1, <1>2, <1>4, PartStep DEF Registered

\* The handlers written in C.
LEMMA BodyStep == IsrInv /\ body => IsrInv' /\ part = "body" /\ part' # "fault"
<1> SUFFICES ASSUME IsrInv, body PROVE IsrInv' /\ part = "body" /\ part' # "fault"
  OBVIOUS
<1> DEFINE P == Pushed(Machine, <<cpu.ebx>>)
           C == ccall(P, 0)
           D == ccall(C, 0)
           s == cpu.esp
           w == Load(D, D.r.esp)
<1>1. /\ part = "body" /\ part' = "resume" /\ UNCHANGED <<tss, vector, before>>
      /\ cpu' = [D EXCEPT !.r.ebx = w, !.r.esp = @ + 1].r
      /\ mem' = [D EXCEPT !.r.ebx = w, !.r.esp = @ + 1].m
  BY DEF body, Goto, Becomes
<1>2. IsrTypes /\ vector \in Returning /\ cpu \in RegisterFile /\ mem \in [Stack -> Int] /\ s \in Int
  BY <1>1 DEF IsrInv, IsrTypes, Registered, RegisterFile
<1>3. /\ P \in Machines /\ P.r = [cpu EXCEPT !.esp = s - 1]
      /\ \A a \in Stack : a >= s => P.m[a] = mem[a]
  <2>1. <<cpu.ebx>> \in Seq(Int) /\ 1 = Len(<<cpu.ebx>>)
    BY <1>2 DEF RegisterFile
  <2> QED
    BY <1>2, <2>1, PushedHere
<1> HIDE DEF P
<1>4. P.r.esp = s - 1 /\ P.r.cs = cpu.cs /\ P.r.ds = cpu.ds /\ P.r.ss = cpu.ss
  BY <1>2, <1>3 DEF RegisterFile
<1>5. /\ C \in Machines /\ C.r.esp = s - 1
      /\ C.r.cs = cpu.cs /\ C.r.ds = cpu.ds /\ C.r.ss = cpu.ss
      /\ \A a \in Stack : a >= s - 1 => C.m[a] = P.m[a]
  <2>1. /\ C \in Machines /\ C.r.esp = P.r.esp /\ C.r.cs = P.r.cs
        /\ C.r.ds = P.r.ds /\ C.r.ss = P.r.ss
        /\ \A a \in Stack : a >= P.r.esp => C.m[a] = P.m[a]
    BY <1>3, CallKeeps, ZenonT(40)
  <2> HIDE DEF C, s
  <2> QED
    BY <1>4, <2>1
<1> HIDE DEF C
<1>6. /\ D \in Machines /\ D.r.esp = s - 1
      /\ D.r.cs = cpu.cs /\ D.r.ds = cpu.ds /\ D.r.ss = cpu.ss
      /\ \A a \in Stack : a >= s - 1 => D.m[a] = C.m[a]
  BY <1>5, CallKeeps
<1> HIDE DEF D
<1>7. w \in Int
  BY <1>6 DEF Load, Machines, Junk
<1> HIDE DEF w
<1>8. cpu' = [D.r EXCEPT !.ebx = w, !.esp = D.r.esp + 1] /\ mem' = D.m
  BY <1>1, <1>6 DEF Machines
<1>9. /\ cpu' \in RegisterFile /\ mem' \in [Stack -> Int] /\ cpu'.esp = s
      /\ cpu'.cs = cpu.cs /\ cpu'.ds = cpu.ds /\ cpu'.ss = cpu.ss
  <2>1. D.r \in RegisterFile /\ D.m \in [Stack -> Int] /\ D.r.esp + 1 = s
    BY <1>2, <1>6 DEF Machines
  <2>2. cpu' = [D.r EXCEPT !.ebx = w, !.esp = s]
    BY <1>8, <2>1
  <2> HIDE DEF s
  <2>3. cpu' \in RegisterFile
    BY <1>2, <1>7, <2>1, <2>2 DEF RegisterFile
  <2>4. cpu'.esp = s /\ cpu'.cs = D.r.cs /\ cpu'.ds = D.r.ds /\ cpu'.ss = D.r.ss
    BY <2>1, <2>2 DEF RegisterFile
  <2> QED
    BY <1>6, <1>8, <2>1, <2>3, <2>4
<1>10. \A a \in Stack : a >= s => mem'[a] = mem[a]
  <2>1. \A a \in Stack : a >= s => a >= s - 1
    BY <1>2, StackAssumption DEF Stack
  <2> HIDE DEF s
  <2> QED
    BY <1>3, <1>5, <1>6, <1>8, <2>1
<1> QED
  BY <1>1, <1>2, <1>9, <1>10, PartStep DEF Registered

\* The registers are restored and the handler returns: all is as before.
LEMMA CleanupStep ==
  ASSUME IsrInv, cleanup
  PROVE  /\ IsrInv' /\ part = "cleanup" /\ part' # "fault"
         /\ cpu' = before.r
         /\ \A a \in Stack : a >= cpu'.esp => mem'[a] = before.m[a]
<1> DEFINE b == before.r
           s == cpu.esp
           Word(k) == Load(Machine, s + k)
           M == [Machine EXCEPT
                   !.r = [cpu EXCEPT !.ebp = Word(0), !.edi = Word(1), !.esi = Word(2),
                                     !.edx = Word(3), !.ecx = Word(4), !.ebx = Word(5),
                                     !.eax = Word(6), !.esp = @ + 9]]
           f == FrameSize(b)
           B == Base(b, tss)
<1>1. /\ part = "cleanup" /\ UNCHANGED <<tss, vector, before>>
      /\ IF MayReturn(M) THEN part' = "code" /\ cpu' = Iret(M).r /\ mem' = Iret(M).m
         ELSE part' = "fault" /\ UNCHANGED <<cpu, mem>>
  BY DEF cleanup, Goto, Becomes
<1>2. /\ IsrTypes /\ Inside /\ vector \in Returning /\ cpu \in RegisterFile
      /\ b \in RegisterFile /\ mem \in [Stack -> Int] /\ Own(part) = 9
      /\ SavedAt(s, mem, b)
  BY <1>1 DEF IsrInv, IsrTypes, InHandler, Registered, Own, Machines
<1>3. /\ s + 9 + f = B /\ Framed(s + 9, mem, b) /\ s + 9 >= 110
      /\ \A a \in Stack : a >= B => mem[a] = before.m[a]
      /\ cpu.cs = CODE_SEG /\ cpu.ds = b.ds /\ (~Outer(b) => cpu.ss = b.ss)
      /\ Context(b, tss)
  BY <1>2 DEF Inside
<1>4. B \in 116 .. StackTop /\ f \in {3, 5} /\ (Outer(b) <=> f = 5) /\ s \in Int /\ StackTop \in Int
      /\ StackTop = 100 + StackWords
  BY <1>2, FrameKept, StackAssumption DEF StackTop
<1>5. \A k \in 0 .. 8 + f : s + k \in Stack
  <2> HIDE DEF s, f, B
  <2> QED
    BY <1>3, <1>4, StackAssumption DEF Stack
<1>6. /\ Word(0) = b.ebp /\ Word(1) = b.edi /\ Word(2) = b.esi /\ Word(3) = b.edx
      /\ Word(4) = b.ecx /\ Word(5) = b.ebx /\ Word(6) = b.eax
  <2>1. \A k \in 0 .. 6 : Word(k) = mem[s + k]
    <3> SUFFICES ASSUME NEW k \in 0 .. 6 PROVE Word(k) = mem[s + k]
      OBVIOUS
    <3>1. k \in 0 .. 8 + f
      BY <1>4
    <3>2. s + k \in Stack
      BY <1>5, <3>1
    <3> QED
      BY <1>2, <3>2, MachineType DEF Load
  <2>2. s + 0 = s
    BY <1>4
  <2> HIDE DEF s, b, Word
  <2> QED
    BY <1>2, <2>1, <2>2 DEF SavedAt
<1> DEFINE q == [cpu EXCEPT !.ebp = b.ebp, !.edi = b.edi, !.esi = b.esi, !.edx = b.edx,
                            !.ecx = b.ecx, !.ebx = b.ebx, !.eax = b.eax, !.esp = s + 9]
<1>7. M.r = q /\ M.m = mem
  <2>1. M = [Machine EXCEPT !.r = q]
    <3> HIDE DEF Word, b
    <3> QED
      BY <1>6
  <2> QED
    BY <2>1 DEF Machine
<1> HIDE DEF M, Word, q
<1>16. q = Restored(cpu, b, s + 9)
  BY DEF q, Restored
<1>8. /\ q \in RegisterFile /\ q.esp = s + 9 /\ q.cs = CODE_SEG /\ q.ds = b.ds /\ q.ss = cpu.ss
      /\ SameGeneral(q, b)
  <2>1. s + 9 \in Int
    BY <1>4
  <2>2. \A p \in Int :
          /\ Restored(cpu, b, p) \in RegisterFile
          /\ Restored(cpu, b, p).esp = p /\ Restored(cpu, b, p).cs = cpu.cs
          /\ Restored(cpu, b, p).ds = cpu.ds /\ Restored(cpu, b, p).ss = cpu.ss
          /\ SameGeneral(Restored(cpu, b, p), b)
    <3> HIDE DEF b
    <3> QED
      BY <1>2, RestoredFacts, Zenon
  <2>3. /\ Restored(cpu, b, s + 9) \in RegisterFile
        /\ Restored(cpu, b, s + 9).esp = s + 9 /\ Restored(cpu, b, s + 9).cs = cpu.cs
        /\ Restored(cpu, b, s + 9).ds = cpu.ds /\ Restored(cpu, b, s + 9).ss = cpu.ss
        /\ SameGeneral(Restored(cpu, b, s + 9), b)
    <3> HIDE DEF b, s
    <3> QED
      BY <2>1, <2>2, Zenon
  <2> HIDE DEF b, s
  <2> QED
    BY <1>3, <1>16, <2>3
<1>9. /\ mem[s + 9] = b.eip /\ mem[s + 9 + 1] = b.cs /\ mem[s + 9 + 2] = b.eflags
      /\ Outer(b) => mem[s + 9 + 3] = b.esp /\ mem[s + 9 + 4] = b.ss
  BY <1>3 DEF Framed
<1>10. Rpl(b.cs) > Rpl(CODE_SEG) <=> Outer(b)
  BY <1>3, Segments DEF Context, BootContext, UserContext, Outer, USER_CODE, CODE_SEG
<1>11. MayReturn(M)
  <2>1. {s + 9 + k : k \in 0 .. 2} \subseteq Stack
    <3>1. \A k \in 0 .. 2 : 9 + k \in 0 .. 8 + f /\ s + (9 + k) = s + 9 + k
      BY <1>4
    <3> HIDE DEF s, f
    <3> QED
      BY <1>5, <3>1
  <2>2. mem[s + 9 + 0] = mem[s + 9]
    BY <1>4
  <2>3. /\ b.cs \in {CODE_SEG, USER_CODE} /\ IsCode(b.cs) /\ Dpl(b.cs) = Rpl(b.cs)
        /\ Rpl(b.cs) >= Rpl(CODE_SEG)
        /\ Outer(b) => StackOf(b.ss, Rpl(b.cs)) /\ Dpl(b.ds) >= Rpl(b.cs)
    BY <1>3, Segments DEF Context, BootContext, UserContext, Outer
  <2> HIDE DEF s, b
  <2>4. /\ {M.r.esp + k : k \in 0 .. 2} \subseteq Stack
        /\ M.m[M.r.esp + 1] = b.cs /\ M.r.cs = CODE_SEG /\ M.r.ds = b.ds
        /\ Outer(b) => M.m[M.r.esp + 4] = b.ss
    BY <1>7, <1>8, <1>9, <2>1
  <2>5. Rpl(M.r.cs) = Rpl(CODE_SEG) /\ Rpl(M.m[M.r.esp + 1]) = Rpl(b.cs)
    BY <2>4, Zenon
  <2>6. ASSUME Rpl(b.cs) > Rpl(CODE_SEG)
        PROVE  StackOf(M.m[M.r.esp + 4], Rpl(b.cs)) /\ Dpl(M.r.ds) >= Rpl(b.cs)
    <3>1. Outer(b)
      BY <1>10, <2>6, Zenon
    <3>2. M.m[M.r.esp + 4] = b.ss /\ M.r.ds = b.ds
      BY <2>4, <3>1, Zenon
    <3> QED
      BY <2>3, <3>1, <3>2
  <2>7. IsCode(M.m[M.r.esp + 1]) /\ Dpl(M.m[M.r.esp + 1]) = Rpl(b.cs)
    BY <2>3, <2>4, Zenon
  <2>8. M.m[M.r.esp + 1] \in {CODE_SEG, USER_CODE}
    BY <2>3, <2>4, Zenon
  <2>9. Rpl(b.cs) >= Rpl(CODE_SEG)
    BY <2>3
  <2> QED
    BY <2>4, <2>5, <2>6, <2>7, <2>8, <2>9, Zenon DEF MayReturn
<1>12. part' = "code" /\ cpu' = Iret(M).r /\ mem' = Iret(M).m
  BY <1>1, <1>11
<1>13. Iret(M).m = mem
  BY <1>7 DEF Iret
<1>14. Iret(M).r = b
  <2>1. /\ b.eip \in Int /\ b.cs \in Int /\ b.eflags \in Int /\ b.esp \in Int /\ b.ss \in Int
    BY <1>2 DEF RegisterFile
  <2>2. /\ s + 9 + 0 = s + 9 /\ M.r = q /\ M.m = mem /\ q.esp = s + 9 /\ q.cs = CODE_SEG
    BY <1>4, <1>7, <1>8
  <2> HIDE DEF s, b
  <2>3. /\ M.m[M.r.esp + 0] = b.eip /\ M.m[M.r.esp + 1] = b.cs
        /\ M.m[M.r.esp + 2] = b.eflags
        /\ Outer(b) => M.m[M.r.esp + 3] = b.esp /\ M.m[M.r.esp + 4] = b.ss
    BY <1>9, <2>2
  <2>4. CASE Outer(b)
    <3>1. Iret(M).r = Back(q, b.eip, b.cs, b.eflags, b.esp, b.ss)
      BY <1>8, <1>10, <2>2, <2>3, <2>4, OuterReturn
    <3>2. /\ Iret(M).r \in RegisterFile
          /\ Iret(M).r.eip = b.eip /\ Iret(M).r.cs = b.cs /\ Iret(M).r.eflags = b.eflags
          /\ Iret(M).r.esp = b.esp /\ Iret(M).r.ss = b.ss /\ Iret(M).r.ds = q.ds
          /\ SameGeneral(Iret(M).r, q)
      BY <1>8, <2>1, <3>1, OuterRegisters
    <3>3. SameGeneral(Iret(M).r, b)
      BY <1>8, <3>2 DEF SameGeneral
    <3> QED
      BY <1>2, <1>8, <3>2, <3>3, SameRegisters DEF b
  <2>5. CASE ~Outer(b)
    <3>1. /\ b.esp = s + 12 /\ b.cs = CODE_SEG /\ b.ss = q.ss
      <4>1. b.esp = B /\ f = 3
        BY <2>5 DEF Base, FrameSize
      <4>2. b.cs = CODE_SEG
        BY <2>5 DEF Outer
      <4>3. b.ss = cpu.ss
        BY <1>3, <2>5
      <4> HIDE DEF B, f
      <4> QED
        BY <1>3, <1>4, <1>8, <4>1, <4>2, <4>3
    <3>2. ~(Rpl(M.m[M.r.esp + 1]) > Rpl(M.r.cs))
      <4>1. Rpl(M.m[M.r.esp + 1]) = Rpl(b.cs) /\ Rpl(M.r.cs) = Rpl(CODE_SEG)
        BY <2>2, <2>3, Zenon
      <4> QED
        BY <1>10, <2>5, <4>1, Zenon
    <3>3. Iret(M).r = InnerBack(q, b.eip, b.cs, b.eflags, q.esp + 3)
      BY <2>2, <2>3, <3>2, <1>8, InnerReturn
    <3>4. q.esp + 3 = s + 12
      BY <1>4, <2>2
    <3>5. Iret(M).r = InnerBack(q, b.eip, b.cs, b.eflags, b.esp)
      BY <3>1, <3>3, <3>4, Zenon
    <3>6. /\ Iret(M).r \in RegisterFile
          /\ Iret(M).r.eip = b.eip /\ Iret(M).r.cs = b.cs /\ Iret(M).r.eflags = b.eflags
          /\ Iret(M).r.esp = b.esp /\ Iret(M).r.ss = q.ss /\ Iret(M).r.ds = q.ds
          /\ SameGeneral(Iret(M).r, q)
      BY <1>8, <2>1, <3>5, InnerRegisters
    <3>7. SameGeneral(Iret(M).r, b)
      BY <1>8, <3>6 DEF SameGeneral
    <3> QED
      BY <1>2, <1>8, <3>1, <3>6, <3>7, SameRegisters DEF b
  <2> QED
    BY <2>4, <2>5 DEF b
<1>15. \A a \in Stack : a >= b.esp => mem[a] = before.m[a]
  <2>1. b.esp \in Int /\ b.esp >= B
    BY <1>2, <1>3 DEF Context, BootContext, UserContext, Base, Outer, RegisterFile
  <2>2. \A a \in Stack : a >= b.esp => a >= B
    BY <1>4, <2>1, StackAssumption DEF Stack
  <2> HIDE DEF b, B
  <2> QED
    BY <1>3, <2>2
<1>17. cpu' = b /\ mem' = mem /\ cpu' \in RegisterFile
  BY <1>2, <1>12, <1>13, <1>14
<1>18. IsrInv'
  BY <1>1, <1>2, <1>3, <1>12, <1>17 DEF IsrInv, IsrTypes, InHandler, Registered
<1> QED
  BY <1>1, <1>12, <1>15, <1>17, <1>18

\* An interrupt comes.
LEMMA EntryStep ==
  ASSUME IsrInv, hardware_interrupt \/ exception \/ system_call
  PROVE  IsrInv' /\ part' = "stub" /\ part = "code"
<1>1. IsrTypes /\ part = "code" /\ Context(cpu, tss) /\ cpu \in RegisterFile
  BY DEF IsrInv, IsrTypes, hardware_interrupt, exception, system_call, Interrupt
<1>2. [cpu EXCEPT !.eip = cpu.eip] = cpu /\ cpu.eip \in Int
  BY <1>1 DEF RegisterFile
<1>3. CASE hardware_interrupt
  <2>1. PICK v \in {32, 33} : Interrupt(v, cpu.eip, FALSE)
    BY <1>3 DEF hardware_interrupt
  <2> QED
    BY <1>1, <1>2, <2>1, InterruptStep DEF Vectors
<1>4. CASE exception
  <2>1. PICK v \in Exceptions : Interrupt(v, BOOT, v \in {1, 3})
    BY <1>4 DEF exception
  <2>2. v \in Vectors
    BY StackAssumption DEF Vectors
  <2>3. cpu.eip = BOOT
    BY <1>4 DEF exception
  <2> QED
    BY <1>1, <1>2, <2>1, <2>2, <2>3, InterruptStep
<1>5. CASE system_call
  <2> DEFINE r == [cpu EXCEPT !.eip = USER_LOOP]
  <2>1. cpu.eip = USER_INT /\ Interrupt(51, USER_LOOP, TRUE)
    BY <1>5 DEF system_call
  <2>2. UserContext(cpu, tss)
    BY <1>1, <2>1 DEF Context, BootContext, BOOT, USER_INT
  <2>3. /\ r.eip = USER_LOOP /\ r.cs = cpu.cs /\ r.ss = cpu.ss /\ r.ds = cpu.ds
        /\ r.eflags = cpu.eflags /\ r.esp = cpu.esp
    BY <1>1 DEF RegisterFile
  <2> HIDE DEF r
  <2>4. Context(r, tss)
    BY <2>2, <2>3 DEF Context, UserContext
  <2>5. 51 \in Vectors /\ USER_LOOP \in Int
    BY DEF Vectors, USER_LOOP
  <2>6. Context([cpu EXCEPT !.eip = USER_LOOP], tss)
    BY <2>4 DEF r
  <2> QED
    BY <1>1, <2>1, <2>5, <2>6, InterruptStep
<1> QED
  BY <1>1, <1>3, <1>4, <1>5

\* Every step keeps the invariant; the one that returns restores everything,
\* and no check of the processor stops one.
LEMMA IsrStep ==
  ASSUME IsrInv, [IsrNext]_isr_vars
  PROVE  /\ IsrInv'
         /\ [/\ part' # "fault"
             /\ part = "cleanup" =>
                  /\ cpu' = before.r
                  /\ \A a \in Stack : a >= cpu'.esp => mem'[a] = before.m[a]]_isr_vars
<1> DEFINE G == /\ part' # "fault"
                /\ part = "cleanup" =>
                     /\ cpu' = before.r
                     /\ \A a \in Stack : a >= cpu'.esp => mem'[a] = before.m[a]
<1> SUFFICES IsrInv' /\ [G]_isr_vars
  OBVIOUS
<1>1. CASE hardware_interrupt \/ exception \/ system_call
  BY <1>1, EntryStep
<1>2. CASE load_tss \/ enter_usermode \/ fix_stack
  BY <1>2, CodeStep
<1>3. CASE stub
  BY <1>3, StubStep DEF stub, Goto
<1>4. CASE save
  BY <1>4, SaveStep DEF save, Goto
<1>5. CASE dispatch
  BY <1>5, DispatchStep
<1>6. CASE body
  BY <1>6, BodyStep
<1>7. CASE resume
  BY <1>7, ResumeStep
<1>8. CASE cleanup
  BY <1>8, CleanupStep
<1>9. CASE Stopped \/ UNCHANGED isr_vars
  <2>1. UNCHANGED isr_vars
    BY <1>9 DEF Stopped
  <2>2. IsrInv'
    BY <2>1 DEF isr_vars, IsrInv, IsrTypes, Inside, Own, InHandler, Registered
  <2> QED
    BY <2>1, <2>2
<1> QED
  BY <1>1, <1>2, <1>3, <1>4, <1>5, <1>6, <1>7, <1>8, <1>9 DEF IsrNext

\* For every stack, and wherever in it the boot code's pointer is: when the
\* handler returns, the registers and the stack in use are what they were
\* when the interrupt came, and no check of the processor fails on the way
\* (interrupt_handler.asm:88, usermode.asm:11).
THEOREM InterruptsAreTransparent == IsrSpec => InterruptTransparent
<1>1. IsrInit => IsrInv
  BY IsrInvInit
<1>2. IsrInv /\ [IsrNext]_isr_vars => IsrInv'
  BY IsrStep
<1>3. IsrInv /\ [IsrNext]_isr_vars =>
        [/\ part' # "fault"
         /\ part = "cleanup" =>
              /\ cpu' = before.r
              /\ \A a \in Stack : a >= cpu'.esp => mem'[a] = before.m[a]]_isr_vars
  BY IsrStep
<1> QED
  BY <1>1, <1>2, <1>3, PTL DEF IsrSpec, InterruptTransparent
=============================================================================
