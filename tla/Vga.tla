--------------------------------- MODULE Vga ---------------------------------
(***************************************************************************)
(* The text screen, kernel/drivers/video/vga.c.  The cursor lives in two   *)
(* byte registers of the display controller, behind one data port and an   *)
(* index port that says which of the two the data port means.              *)
(*                                                                         *)
(* The boot code prints with interrupts on, one step per port access; a    *)
(* handler prints a character in one step, between any two of them.  A     *)
(* screen cell is its character: the colour byte is left out.              *)
(***************************************************************************)
EXTENDS Naturals, Sequences

CONSTANTS Rows, Cols,   \* MAX_ROWS, MAX_COLS
          Byte,         \* 256
          Letters,      \* printable characters
          MaxText       \* bound: characters printed in a behaviour

ASSUME ScreenAssumption ==
  /\ Rows \in Nat /\ Rows >= 2 /\ Cols \in Nat \ {0} /\ Byte \in Nat \ {0}
  /\ Cols <= Byte /\ Rows < Byte
  /\ 2 * Rows * Cols < Byte * Byte

Newline == "newline"
Blank == "blank"
Other == "other"               \* memory that is not the screen's
Characters == Letters \cup {Newline}
Cells == Rows * Cols
Offset == 0 .. Byte * Byte - 1 \* uint16_t
CURSOR_HIGH == 14
CURSOR_LOW == 15

VARIABLES
  vidmem,    \* the cells from VIDEO_ADDRESS on, as far as an offset reaches
  index,     \* REG_SCREEN_CTRL
  high, low, \* the cursor registers
  pc,        \* where the boot code is
  character, cur_offset, offset,   \* its locals
  count,     \* characters of its message so far, up to 2
  hit,       \* history: its message was interrupted
  torn,      \* history: a message was interrupted
  start,     \* history: the cursor when the screen was blank
  text       \* history: the characters printed since

registers == <<index, high, low>>
locals == <<character, cur_offset, offset, count>>
vars == <<vidmem, registers, pc, locals, hit, torn, start, text>>

Init ==
  /\ vidmem = [c \in Offset |-> IF c < Cells THEN Blank ELSE Other]
  /\ index = CURSOR_HIGH
  /\ start \in 0 .. Cells - 1
  /\ high = start \div Byte /\ low = start % Byte
  /\ pc = "idle" /\ character = Newline /\ cur_offset = 0 /\ offset = 0
  /\ count = 0 /\ hit = FALSE /\ torn = FALSE /\ text = <<>>
-----------------------------------------------------------------------------
(* print_char. *)

get_offset(col, row) == (2 * (row * Cols + col)) % (Byte * Byte)

\* The row and column of an offset, as the uint8_t parameters of print_char.
offset_to_row(o) == (o \div (2 * Cols)) % Byte
offset_to_col(o) == ((o % (2 * Cols)) \div 2) % Byte

\* InRange with a bug: the row just below the screen is accepted.
InRange_OffByOne(o) == offset_to_row(o) <= Rows

\* print_char cancels for other values.
InRange(o) == offset_to_col(o) < Cols /\ offset_to_row(o) < Rows

\* The offset behind the character, before scrolling.
Behind(c, o) ==
  IF c = Newline THEN get_offset(0, offset_to_row(o) + 1)
                 ELSE get_offset(offset_to_col(o), offset_to_row(o)) + 2

Stored(m, c, o) ==
  IF c = Newline THEN m
  ELSE [m EXCEPT ![get_offset(offset_to_col(o), offset_to_row(o)) \div 2] = c]

OutOfBounds(o) == o >= 2 * Cells

\* Scrolled with a bug: the last line is not cleared.
Scrolled_LastKept(m) ==
  [c \in DOMAIN m |-> IF c < Cells - Cols THEN m[c + Cols] ELSE m[c]]

\* Every line moves up one, the last one is cleared.
Scrolled(m) ==
  [c \in DOMAIN m |->
     IF c < Cells - Cols THEN m[c + Cols] ELSE IF c < Cells THEN Blank ELSE m[c]]

\* What print_char makes of the screen and returns.
Printed(m, c, o) ==
  IF ~InRange(o) THEN m
  ELSE IF OutOfBounds(Behind(c, o)) THEN Scrolled(Stored(m, c, o))
                                    ELSE Stored(m, c, o)

NewOffset(c, o) ==
  IF ~InRange(o) THEN 0
  ELSE IF OutOfBounds(Behind(c, o)) THEN Behind(c, o) - 2 * Cols
                                    ELSE Behind(c, o)

\* The uint16_t that get_cursor_offset returns.
FromRegisters(cursor) == (2 * cursor) % (Byte * Byte)
-----------------------------------------------------------------------------
(* The boot code. *)

\* A character is taken up, of a new message or of the one being printed.
NextCharacter(c) ==
  /\ pc \in {"idle", "printed"} /\ Len(text) < MaxText
  /\ character' = c
  /\ pc' = IF pc = "idle" THEN "select high" ELSE "print"
  /\ hit' = (pc # "idle" /\ hit)
  /\ count' = IF pc = "idle" THEN 0 ELSE count
  /\ UNCHANGED <<vidmem, registers, cur_offset, offset, torn, start, text>>

\* The data port.
io_byte_in == IF index = CURSOR_HIGH THEN high ELSE low

io_byte_out(b) ==
  IF index = CURSOR_HIGH THEN high' = b /\ UNCHANGED <<index, low>>
                         ELSE low' = b /\ UNCHANGED <<index, high>>

At(step, next) == pc = step /\ pc' = next

Select(register) == index' = register /\ UNCHANGED <<high, low>>

get_cursor_offset ==
  /\ \/ /\ At("select high", "read high") /\ Select(CURSOR_HIGH)
        /\ UNCHANGED <<cur_offset, offset>>
     \/ /\ At("read high", "select low")
        /\ cur_offset' = io_byte_in * Byte
        /\ UNCHANGED <<registers, offset>>
     \/ /\ At("select low", "read low") /\ Select(CURSOR_LOW)
        /\ UNCHANGED <<cur_offset, offset>>
     \/ /\ At("read low", "print")
        /\ offset' = FromRegisters(cur_offset + io_byte_in)
        /\ UNCHANGED <<registers, cur_offset>>
  /\ UNCHANGED <<vidmem, character, count, hit, torn, start, text>>

\* Up to the call of set_cursor_offset, which a cancelled character does not
\* reach.
print_char ==
  /\ pc = "print"
  /\ vidmem' = Printed(vidmem, character, offset)
  /\ offset' = NewOffset(character, offset)
  /\ pc' = IF InRange(offset) THEN "set high" ELSE "printed"
  /\ count' = IF count < 2 THEN count + 1 ELSE 2
  /\ text' = Append(text, character)
  /\ UNCHANGED <<registers, character, cur_offset, hit, torn, start>>

\* set_cursor_offset with a bug: the low register is not selected.
set_cursor_offset_NotSelected ==
  /\ \/ At("set high", "write high") /\ Select(CURSOR_HIGH)
     \/ At("write high", "write low") /\ io_byte_out((offset \div 2) \div Byte)
     \/ At("write low", "printed") /\ io_byte_out((offset \div 2) % Byte)
  /\ UNCHANGED <<vidmem, locals, hit, torn, start, text>>

set_cursor_offset ==
  /\ \/ At("set high", "write high") /\ Select(CURSOR_HIGH)
     \/ At("write high", "set low") /\ io_byte_out((offset \div 2) \div Byte)
     \/ At("set low", "write low") /\ Select(CURSOR_LOW)
     \/ At("write low", "printed") /\ io_byte_out((offset \div 2) % Byte)
  /\ UNCHANGED <<vidmem, locals, hit, torn, start, text>>

\* The end of vga_print_screen_char, after one character, and of
\* vga_print_screen.
Return ==
  /\ At("printed", "idle")
  /\ UNCHANGED <<vidmem, registers, locals, hit, torn, start, text>>

\* A blank into every cell, the last of which scrolls.
Cleared(m) ==
  LET after[c \in 0 .. Cells] ==
        IF c = 0 THEN m ELSE Printed(after[c - 1], Blank, 2 * (c - 1))
  IN  after[Cells]

\* vga_clear_screen, which no code calls.
vga_clear_screen ==
  /\ pc = "idle"
  /\ vidmem' = Cleared(vidmem)
  /\ index' = CURSOR_LOW /\ high' = 0 /\ low' = 0
  /\ start' = 0 /\ text' = <<>> /\ torn' = FALSE
  /\ UNCHANGED <<pc, locals, hit>>
-----------------------------------------------------------------------------
\* vga_print_screen_char in a handler.
Handler(c) ==
  /\ Len(text) < MaxText
  /\ LET o == FromRegisters(high * Byte + low)
         cursor == NewOffset(c, o) \div 2
     IN  /\ vidmem' = Printed(vidmem, c, o)
         /\ index' = CURSOR_LOW
         /\ IF InRange(o) THEN high' = cursor \div Byte /\ low' = cursor % Byte
                          ELSE UNCHANGED <<high, low>>
  /\ text' = Append(text, c)
  /\ hit' = (hit \/ pc # "idle") /\ torn' = (torn \/ pc # "idle")
  /\ UNCHANGED <<pc, locals, start>>

Next ==
  \/ \E c \in Characters : NextCharacter(c) \/ Handler(c)
  \/ get_cursor_offset \/ print_char \/ set_cursor_offset \/ Return
  \/ vga_clear_screen

Spec == Init /\ [][Next]_vars
-----------------------------------------------------------------------------
(* Properties. *)

Cursor == high * Byte + low

\* However the registers are torn, nothing is written outside the screen
\* (print_char, vga.c:96).
OnlyScreenWritten == \A c \in Offset : c >= Cells => vidmem[c] = Other

\* Where the k-th character goes on an endless sheet.
Place ==
  LET place[k \in 0 .. Len(text)] ==
        IF k = 0 THEN start
        ELSE IF text[k] = Newline THEN (place[k - 1] \div Cols + 1) * Cols
        ELSE place[k - 1] + 1
  IN  place

\* Without an interrupt in the middle of a message the screen is the last rows
\* of what has been printed since it was blank, and the cursor stands behind
\* it, on the screen (print_char, vga.c:117-138).
ScreenShowsText ==
  pc = "idle" /\ ~torn =>
    LET end == Place[Len(text)]
        top == IF end \div Cols >= Rows THEN end \div Cols - Rows + 1 ELSE 0
    IN  /\ Cursor = end - top * Cols
        /\ \A c \in 0 .. Cells - 1 :
             LET shown == {k \in DOMAIN text : /\ text[k] # Newline
                                               /\ Place[k - 1] = c + top * Cols}
             IN  IF shown = {} THEN vidmem[c] = Blank
                               ELSE \A k \in shown : vidmem[c] = text[k]

\* A cursor torn off the screen makes vga_print_screen_char drop everything,
\* for ever; a message of two or more characters that is not interrupted
\* itself, such as that of a panic, is on the screen from its second character
\* on (stdlib.c:150).
MessagesRecover ==
  pc = "printed" /\ count = 2 /\ ~hit =>
    /\ Cursor = offset \div 2 /\ Cursor < Cells
    /\ character # Newline => vidmem[Cursor - 1] = character
=============================================================================
