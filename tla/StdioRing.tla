------------------------------ MODULE StdioRing ------------------------------
(***************************************************************************)
(* Standard output: every character goes to the serial log and then to the *)
(* ring buffer of kernel/libc/stdio.c, which is emptied onto the screen by *)
(* every timer interrupt and by stdlib_flushstdio.  The boot code prints   *)
(* and flushes with interrupts enabled; here it takes one step per access  *)
(* to the shared fields and to the port.  An interrupt handler runs to     *)
(* completion: it empties the buffer and, when a key was typed, prints its *)
(* echo.  Handlers run, and the ring is used, once the port is initialized *)
(* and interrupts and pmem are up, which follow it.                        *)
(***************************************************************************)
EXTENDS Serial, FiniteSets

CONSTANTS Size,         \* b_size
          MaxChars,     \* bound: characters printed in all
          MaxShown      \* bound: characters shown before interrupts stop

ASSUME SizeAssumption == Size \in Nat /\ Size >= 2
ASSUME MaxCharsAssumption == MaxChars \in Nat /\ MaxShown \in Nat

Index == 0 .. Size - 1

VARIABLES
  is_init, is_initializing,   \* flags of std_output_buf
  buf,                        \* the bytes at b_addr
  head, tail,                 \* head_ptr and tail_ptr
  caller,                     \* who called io_buffer_flush_to_screen
  next_head,                  \* local next_head_ptr of io_buffer_place
  reg,                        \* the index register of the boot code
  popped,                     \* popped_char of the boot code
  ch,                         \* the character the boot code prints
  raced,                      \* history: the handlers that ran inside a call
  screen,                     \* history: the characters shown
  panicked

ring == <<is_init, is_initializing, buf, head, tail>>
locals == <<caller, next_head, reg, popped, ch>>
vars == <<port, printed, pc, ring, locals, raced, screen, panicked>>

Init ==
  /\ SerialInit
  /\ is_init = FALSE /\ is_initializing = FALSE
  /\ buf = [i \in Index |-> 0]
  /\ head = 0 /\ tail = 0
  /\ caller = "idle"
  /\ next_head = 0 /\ reg = 0 /\ popped = 0 /\ ch = 0
  /\ raced = {} /\ screen = <<>>
  /\ panicked = "none"

Succ(i) == (i + 1) % Size

\* The bytes io_buffer_pop would return, one call after the other.
Content(b, h, t) == [k \in 1 .. (h - t) % Size |-> b[(t + k - 1) % Size]]

At(where) == panicked = "none" /\ pc = where
Goto(where) == pc' = where
-----------------------------------------------------------------------------
(* Before pmem is initialized characters go to the port and the screen. *)

EarlyWait ==
  /\ panicked = "none"
  /\ serial_write_wait("early", "early_out")
       \/ serial_write_wait("error", "error_out")
  /\ UNCHANGED <<ring, locals, screen, panicked>>

EarlyPrint ==
  /\ \/ At("early_out")
        /\ Goto(IF printed + 1 < EarlyChars THEN "early" ELSE "init")
        /\ UNCHANGED panicked
     \/ At("error_out") /\ Goto("failed") /\ panicked' = "serial"
  /\ serial_write_byte
  /\ screen' = Append(screen, printed')
  /\ UNCHANGED <<ring, locals>>

SerialStarts ==
  /\ serial_init_write \/ serial_init_test
  /\ UNCHANGED <<ring, locals, screen, panicked>>
-----------------------------------------------------------------------------
(* std_print_char and io_buffer_place in the boot code. *)

\* printf hands one character to serial_write,
Printf ==
  /\ At("idle") /\ printed < MaxChars
  /\ Goto("wait")
  /\ UNCHANGED <<port, printed, ring, locals, screen, panicked>>

Wait ==
  /\ panicked = "none"
  /\ serial_write_wait("wait", "out")
  /\ UNCHANGED <<ring, locals, screen, panicked>>

\* and then to io_buffer_place.
Out ==
  /\ At("out")
  /\ serial_write_byte
  /\ ch' = printed'
  /\ Goto("check")
  /\ UNCHANGED <<ring, caller, next_head, reg, popped, screen, panicked>>

CheckInit ==
  /\ At("check")
  /\ Goto(IF is_init THEN "look" ELSE "claim")
  /\ UNCHANGED <<ring, locals, screen, panicked>>

Claim ==
  /\ At("claim")
  /\ is_initializing' = TRUE
  /\ Goto("page")
  /\ UNCHANGED <<is_init, buf, head, tail, locals, screen, panicked>>

\* b_addr = pmem_alloc(); is_init = 1; is_initializing = 0
TakePage ==
  /\ At("page")
  /\ buf' = [i \in Index |-> 0]
  /\ is_init' = TRUE /\ is_initializing' = FALSE
  /\ Goto("look")
  /\ UNCHANGED <<head, tail, locals, screen, panicked>>

LookAhead ==
  /\ At("look")
  /\ next_head' = Succ(head)
  /\ Goto("full")
  /\ UNCHANGED <<ring, caller, reg, popped, ch, screen, panicked>>

\* next_head_ptr == tail_ptr: flush to the screen first.
FullTest ==
  /\ At("full")
  /\ IF next_head = tail THEN Goto("empty") /\ caller' = "sanity"
                         ELSE Goto("sanity") /\ UNCHANGED caller
  /\ UNCHANGED <<ring, next_head, reg, popped, ch, screen, panicked>>

\* "next_head_ptr mutated unexpectedly"
SanityTest ==
  /\ At("sanity")
  /\ IF next_head = Succ(head) THEN Goto("index") /\ UNCHANGED panicked
                               ELSE panicked' = "mutated" /\ UNCHANGED pc
  /\ UNCHANGED <<ring, locals, screen>>

\* b_addr[head_ptr] = message[i]: the load of the index and the store.
LoadIndex ==
  /\ At("index")
  /\ reg' = head
  /\ Goto("put")
  /\ UNCHANGED <<ring, caller, next_head, popped, ch, screen,
                 panicked>>

PutChar ==
  /\ At("put")
  /\ buf' = [buf EXCEPT ![reg] = ch]
  /\ Goto("advance")
  /\ UNCHANGED <<is_init, is_initializing, head, tail, locals,
                 screen, panicked>>

AdvanceHead ==
  /\ At("advance")
  /\ head' = next_head
  /\ Goto("overflow")
  /\ UNCHANGED <<is_init, is_initializing, buf, tail, locals,
                 screen, panicked>>

\* OverflowTest with a bug: no check.
OverflowTest_Skipped ==
  /\ At("overflow")
  /\ Goto("idle")
  /\ UNCHANGED <<ring, locals, screen, panicked>>

\* "StdLib IO Buffer overflow!"
OverflowTest ==
  /\ At("overflow")
  /\ IF head = tail THEN panicked' = "overflow" /\ UNCHANGED pc
                    ELSE Goto("idle") /\ UNCHANGED panicked
  /\ UNCHANGED <<ring, locals, screen>>
-----------------------------------------------------------------------------
(* io_buffer_flush_to_screen in the boot code: io_buffer_pop until it      *)
(* returns 0.                                                              *)

\* stdlib_flushstdio, the last thing kernel_main does before user mode.
Flush ==
  /\ At("idle") /\ is_init
  /\ caller' = "user"
  /\ Goto("empty")
  /\ UNCHANGED <<ring, next_head, reg, popped, ch, screen, panicked>>

EmptyTest ==
  /\ At("empty")
  /\ Goto(IF head = tail THEN caller ELSE "pop")
  /\ UNCHANGED <<ring, locals, screen, panicked>>

\* PopChar with a bug: tail_ptr is advanced before the read.
PopChar_Ahead ==
  /\ At("pop")
  /\ popped' = buf[Succ(tail)]
  /\ Goto("load")
  /\ UNCHANGED <<ring, caller, next_head, reg, ch, screen, panicked>>

PopChar ==
  /\ At("pop")
  /\ popped' = buf[tail]
  /\ Goto("load")
  /\ UNCHANGED <<ring, caller, next_head, reg, ch, screen, panicked>>

\* tail_ptr = (tail_ptr + 1) % b_size: a load and a store.
LoadTail ==
  /\ At("load")
  /\ reg' = tail
  /\ Goto("store")
  /\ UNCHANGED <<ring, caller, next_head, popped, ch, screen,
                 panicked>>

StoreTail ==
  /\ At("store")
  /\ tail' = Succ(reg)
  /\ Goto("show")
  /\ UNCHANGED <<is_init, is_initializing, buf, head, locals,
                 screen, panicked>>

\* vga_print_screen_char; a zero byte ends the loop instead.
ShowChar ==
  /\ At("show")
  /\ IF popped = 0 THEN Goto(caller) /\ UNCHANGED screen
                   ELSE Goto("empty") /\ screen' = Append(screen, popped)
  /\ UNCHANGED <<ring, locals, printed, panicked>>
-----------------------------------------------------------------------------
(* Interrupt handlers, in one step each. *)

\* A handler of this kind runs, inside a call on the buffer or between calls.
Interrupt(kind) ==
  /\ panicked = "none"
  /\ pc = "user" \/ Len(screen) < MaxShown
  /\ pc \notin Unlogged
  /\ raced' = IF pc \in {"idle", "wait", "out", "user"} THEN raced
              ELSE raced \cup {kind}

\* Flushed with a bug: the last character stays in the buffer.
Flushed_KeepsLast(t) ==
  LET c == Content(buf, head, t)
      n == IF Len(c) = 0 THEN 0 ELSE Len(c) - 1
  IN  [text |-> SubSeq(c, 1, n), tail |-> (t + n) % Size]

\* io_buffer_flush_to_screen on the bytes between t and head: what it shows
\* and where it leaves tail_ptr.  It stops at a zero byte, having popped it.
Flushed(t) ==
  LET c == Content(buf, head, t)
      zeros == {i \in DOMAIN c : c[i] = 0}
      n == IF zeros = {} THEN Len(c) ELSE Min(zeros)
  IN  [text |-> SubSeq(c, 1, IF zeros = {} THEN n ELSE n - 1),
       tail |-> (t + n) % Size]

\* The timer handler: stdlib_update empties the buffer.
Timer ==
  /\ Interrupt("timer")
  /\ is_init /\ head # tail
  /\ screen' = screen \o Flushed(tail).text
  /\ tail' = Flushed(tail).tail
  /\ UNCHANGED <<is_init, is_initializing, buf, head, locals, panicked>>
  /\ UNCHANGED <<port, printed, pc>>

\* The handler waits for the port while the boot code stands still, so its
\* step may as well begin when the transmitter is empty.
EchoLogged ==
  /\ printed < MaxChars /\ serial_is_transmit_empty
  /\ serial_write_byte

\* The same handler when a key was typed: shell_update echoes it after
\* stdlib_update has flushed; io_buffer_place flushes again if it must.
TimerEcho ==
  /\ Interrupt("echo") /\ ~is_initializing
  /\ EchoLogged
  /\ LET first == IF is_init THEN Flushed(tail) ELSE [text |-> <<>>, tail |-> tail]
         again == IF Succ(head) = first.tail THEN Flushed(first.tail)
                  ELSE [text |-> <<>>, tail |-> first.tail]
         page == IF is_init THEN buf ELSE [i \in Index |-> 0]
     IN  /\ screen' = screen \o first.text \o again.text
         /\ tail' = again.tail
         /\ buf' = [page EXCEPT ![head] = printed']
         /\ panicked' = IF Succ(head) = again.tail THEN "overflow" ELSE "none"
  /\ head' = Succ(head)
  /\ is_init' = TRUE
  /\ UNCHANGED <<is_initializing, pc, locals>>

\* While the boot code takes the buffer's page, the echo bypasses it.
TimerEchoDirect ==
  /\ Interrupt("echo") /\ is_initializing
  /\ EchoLogged
  /\ LET f == IF is_init THEN Flushed(tail) ELSE [text |-> <<>>, tail |-> tail]
     IN  /\ screen' = Append(screen \o f.text, printed')
         /\ tail' = f.tail
  /\ UNCHANGED <<is_init, is_initializing, buf, head, pc, locals, panicked>>

Transmit == transmit /\ UNCHANGED <<ring, locals, raced, screen, panicked>>

\* serial_write goes round its loop.
Spin ==
  /\ pc \in {"early", "error", "wait"} /\ ~serial_is_transmit_empty
  /\ UNCHANGED vars

Stopped == panicked # "none" /\ UNCHANGED vars

RingStep ==
  /\ \/ CheckInit \/ Claim \/ TakePage \/ LookAhead \/ FullTest
     \/ SanityTest \/ LoadIndex \/ PutChar \/ AdvanceHead \/ OverflowTest
     \/ Flush \/ EmptyTest \/ PopChar \/ LoadTail \/ StoreTail \/ ShowChar
  /\ UNCHANGED <<port, printed>>

BootStep ==
  /\ EarlyWait \/ EarlyPrint \/ SerialStarts \/ Printf \/ Wait \/ Out
       \/ RingStep
  /\ UNCHANGED raced

\* User mode with an empty buffer.
Quiet == pc = "user" /\ head = tail /\ UNCHANGED vars

Next == BootStep \/ Transmit \/ Timer \/ TimerEcho \/ TimerEchoDirect
          \/ Spin \/ Stopped \/ Quiet

\* The boot code runs, the timer interrupts again and again, and the chip sends
\* what it holds.
Spec == Init /\ [][Next]_vars
          /\ WF_vars(BootStep) /\ WF_vars(Timer) /\ WF_vars(Transmit)
-----------------------------------------------------------------------------
(* Properties. *)

\* As long as no handler ran inside a call of the boot code on the buffer, what
\* was printed appears on the screen in order, nothing lost and nothing twice:
\* handlers between the calls do no harm.  Nor do the checks of io_buffer_place
\* fail then.
ScreenInOrder ==
  raced = {} => /\ IsPrefix(screen, CharsUpTo(printed))
                /\ panicked \in {"none", "serial"}

\* Everything printed is shown in the end, the character held back in the
\* buffer by a printf that filled it included.
EverythingShown ==
  \A n \in 1 .. MaxChars :
    (printed >= n) ~> (Contains(screen, n) \/ raced # {})

Placing == {"check", "claim", "page", "look", "full", "sanity", "index",
            "put", "advance"}
Flushing == {"empty", "pop", "load", "store", "show"}

\* The characters that are neither on the screen, nor in the buffer, nor in
\* the hands of the boot code.
Lost ==
  {n \in 1 .. printed :
     ~ \/ Contains(screen, n)
       \/ Contains(Content(buf, head, tail), n)
       \/ n = ch /\ (pc \in Placing \/ (caller = "sanity" /\ pc \in Flushing))
       \/ n = popped /\ pc \in {"load", "store", "show"}}

\* Wherever the timer interrupts the boot code, no character is lost in silence:
\* only in an overflow that io_buffer_place is about to report, or when a key is
\* echoed inside one of its calls.  The races of two flushes may still show
\* characters twice or out of order.
LossDetected ==
  Lost # {} => "echo" \in raced \/ (pc = "overflow" /\ head = tail)

\* Nobody waits for the port for ever: the boot code gets past its printing, or
\* stops in a panic, and everything that was given to the port is sent.
LogSent ==
  <>[](/\ pc = "user" \/ panicked # "none"
       /\ present => uart.tx = <<>>)
=============================================================================
