------------------------------- MODULE Serial -------------------------------
(***************************************************************************)
(* The serial port: kernel/drivers/serial/serial.c up to the moment when   *)
(* the log is open, and the write of one character.  The boot code prints, *)
(* initializes the port, and goes on with what StdioRing models.           *)
(* Characters are numbered in the order in which they are given to the     *)
(* port.  The 8250 chip and its 16-byte FIFO are external, modelled by the *)
(* registers that serial.c uses.                                           *)
(***************************************************************************)
EXTENDS Integers, Sequences, SequencesExt

CONSTANTS FifoDepth,     \* characters the chip's transmitter can hold: 16
          EarlyChars     \* bound: characters printed before serial_init

ASSUME FifoAssumption == FifoDepth \in Nat /\ FifoDepth >= 2
ASSUME EarlyCharsAssumption == EarlyChars \in Nat \ {0}

Probe == 174                     \* 0xAE, the byte of the loopback test
Wanted == [low |-> 3, high |-> 0]  \* the divisor for 38400 baud

VARIABLES
  present,   \* there is a chip at the port
  uart,      \* its registers
  wire,      \* history: what it has sent, and at which divisor, since the
             \* start, and from the end of serial_init on since then
  next,      \* the next write of serial_init
  printed,   \* history: number of characters printed
  pc         \* where the boot code is

port == <<present, uart, wire, next>>
-----------------------------------------------------------------------------
(* The chip. *)

Bit(value, n) == (value \div 2 ^ n) % 2 = 1

\* A byte for the transmitter: without its FIFO the chip holds one, and the
\* next one replaces it.
Loaded(u, byte) ==
  CASE ~u.fifo -> <<byte>>
    [] u.fifo /\ Len(u.tx) < FifoDepth -> Append(u.tx, byte)
    [] OTHER -> u.tx

\* io_byte_out: port + 0 and port + 1 are the divisor while DLAB is set.
io_byte_out(u, reg, value) ==
  CASE reg = 0 /\ u.dlab -> [u EXCEPT !.divisor.low = value]
    [] reg = 0 /\ ~u.dlab -> [u EXCEPT !.tx = Loaded(u, value)]
    [] reg = 1 /\ u.dlab -> [u EXCEPT !.divisor.high = value]
    [] reg = 2 -> [u EXCEPT !.fifo = Bit(value, 0),
                            !.tx = IF Bit(value, 2) THEN <<>> ELSE @,
                            !.rx = IF Bit(value, 1) THEN <<>> ELSE @]
    [] reg = 3 -> [u EXCEPT !.dlab = Bit(value, 7)]
    [] reg = 4 -> [u EXCEPT !.loop = Bit(value, 4)]
    [] OTHER -> u

\* A port without a chip reads as 0xFF.
io_byte_in_data == IF present /\ uart.rx # <<>> THEN Head(uart.rx) ELSE 255

\* serial_is_transmit_empty with a bug: the bit of a received byte.
serial_is_transmit_empty_Bit0 == present => uart.rx # <<>>

serial_is_transmit_empty == present => uart.tx = <<>>

\* One character leaves the transmitter, back into the chip when looped.
transmit ==
  /\ present /\ uart.tx # <<>>
  /\ IF uart.loop
       THEN /\ uart' = [uart EXCEPT !.tx = Tail(@),
                                   !.rx = Append(@, Head(uart.tx))]
            /\ UNCHANGED wire
       ELSE /\ uart' = [uart EXCEPT !.tx = Tail(@)]
            /\ wire' = Append(wire, [char |-> Head(uart.tx),
                                     divisor |-> uart.divisor])
  /\ UNCHANGED <<present, next, printed, pc>>
-----------------------------------------------------------------------------
(* serial.c. *)

SerialInit ==
  /\ present \in BOOLEAN
  /\ uart = [dlab |-> FALSE, divisor |-> [low |-> 12, high |-> 0],
             fifo |-> FALSE, loop |-> FALSE, tx |-> <<>>, rx |-> <<>>]
  /\ wire = <<>>
  /\ next = 1 /\ printed = 0
  /\ pc = "early"

\* serial_write in the boot code: the loop that waits,
serial_write_wait(from, to) ==
  /\ pc = from /\ serial_is_transmit_empty
  /\ pc' = to
  /\ UNCHANGED <<port, printed>>

\* and the byte after it, here and in handlers.
serial_write_byte ==
  /\ uart' = io_byte_out(uart, 0, printed + 1)
  /\ printed' = printed + 1
  /\ UNCHANGED <<present, wire, next>>

\* InitWrites with a bug: the FIFO is cleared and not enabled.
InitWrites_NoFifo ==
  <<<<1, 0>>, <<3, 128>>, <<0, 3>>, <<1, 0>>, <<3, 3>>, <<2, 198>>,
    <<4, 11>>, <<4, 30>>, <<0, Probe>>>>

\* The register writes of serial_init up to its test, in their order: DLAB, the
\* divisor (the second "disable interrupts" is its high byte), DLAB off and
\* 8 bits, FIFO enabled and cleared, modem lines, loopback, the test byte.
InitWrites ==
  <<<<1, 0>>, <<3, 128>>, <<0, 3>>, <<1, 0>>, <<3, 3>>, <<2, 199>>,
    <<4, 11>>, <<4, 30>>, <<0, Probe>>>>

serial_init_write ==
  /\ pc = "init" /\ next <= Len(InitWrites)
  /\ uart' = io_byte_out(uart, InitWrites[next][1], InitWrites[next][2])
  /\ next' = next + 1
  /\ UNCHANGED <<present, wire, printed, pc>>

\* The test reads at once, whether or not the byte has come round; when it
\* fails, kernel_init prints so and panics.
serial_init_test ==
  /\ pc = "init" /\ next > Len(InitWrites)
  /\ IF io_byte_in_data = Probe
       THEN /\ uart' = io_byte_out([uart EXCEPT !.rx = Tail(@)], 4, 15)
            /\ wire' = <<>>
            /\ pc' = "idle"
       ELSE UNCHANGED <<uart, wire>> /\ pc' = "error"
  /\ UNCHANGED <<present, next, printed>>

\* Before serial_init has come to its end.
Unlogged == {"early", "early_out", "init", "error", "error_out", "failed"}
-----------------------------------------------------------------------------
CharsUpTo(n) == [i \in 1 .. n |-> i]
Sent == [k \in DOMAIN wire |-> wire[k].char]

\* Once the port is initialized the log has every character given to it, in
\* order, each sent at the divisor serial_init chose, even when a handler
\* prints between the wait and the write of the boot code (serial.c:105): the
\* FIFO takes both.  Of what was printed before serial_init only the last
\* character may be missing, when it was still in the transmitter that
\* serial_init clears (serial.c:57).
LogComplete ==
  /\ present /\ pc = "init" /\ next > Len(InitWrites) =>
       Sent \in {CharsUpTo(EarlyChars), CharsUpTo(EarlyChars - 1)}
  /\ pc \notin Unlogged =>
       /\ Sent \o uart.tx = [i \in 1 .. printed - EarlyChars |-> EarlyChars + i]
       /\ \A k \in DOMAIN wire : wire[k].divisor = Wanted
=============================================================================
