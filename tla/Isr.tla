-------------------------------- MODULE Isr --------------------------------
(***************************************************************************)
(* The way into an interrupt handler and back: the stubs and the common    *)
(* handler of drivers/irq/interrupt_handler.asm, the segments of           *)
(* boot/gdt.asm, the kernel stack of drivers/tss/tss.c, and the entry into *)
(* user mode of drivers/irq/usermode.asm, register by register and word by *)
(* word of the stack.  Addresses count words.  The processor is external;  *)
(* C functions are what the calling convention lets them be.               *)
(***************************************************************************)
EXTENDS Integers, Sequences

CONSTANTS StackWords,   \* words of the stack that are modelled
          BootDepths,   \* where the boot code's stack pointer may be in it
          Exceptions    \* the exceptions the boot code may cause

ASSUME StackAssumption ==
  /\ StackWords \in Nat /\ BootDepths \subseteq Nat
  /\ \A d \in BootDepths : d + 24 <= StackWords   \* user mode and a handler
  /\ Exceptions \subseteq 0 .. 31

VARIABLES
  cpu,       \* the registers
  mem,       \* the stack
  tss,       \* TSS.ss0 and TSS.esp0
  part,        \* "code" that may be interrupted, or a part of the handler
  vector,    \* the interrupt being handled
  before     \* history: registers and stack when it came

isr_vars == <<cpu, mem, tss, part, vector, before>>

Stack == 100 .. 100 + StackWords   \* no address is a vector
Junk == -99                        \* what C code leaves behind

\* Places in the code: of the boot code, and in _enter_usermode.
BOOT == 1
USER_A == 2        \* the label a
USER_INT == 3      \* int 0x33
USER_LOOP == 4
-----------------------------------------------------------------------------
(* Segments: gdt.asm, and the selectors of the code. *)

CODE_SEG == 8
DATA_SEG == 16
USER_CODE == 27       \* 0x1b
USER_DATA == 35       \* 0x23

\* The access bytes.
gdt == <<154, 146, 250, 242, 137>>

Bit(value, mask) == (value \div mask) % 2 = 1
Rpl(selector) == selector % 4
Access(selector) == gdt[selector \div 8]
Dpl(selector) == (Access(selector) \div 32) % 4
IsSegment(selector) == Bit(Access(selector), 128) /\ Bit(Access(selector), 16)
IsCode(selector) == IsSegment(selector) /\ Bit(Access(selector), 8)
IsData(selector) ==
  IsSegment(selector) /\ ~Bit(Access(selector), 8) /\ Bit(Access(selector), 2)

\* irq_interrupt_entry: the flags of every gate, whose selector is CODE_SEG.
GATE_FLAGS == 238
GateDpl == (GATE_FLAGS \div 32) % 4

\* What the processor checks of the stack segment of a privilege level.
StackOf(selector, level) ==
  IsData(selector) /\ Rpl(selector) = level /\ Dpl(selector) = level
-----------------------------------------------------------------------------
(* The processor. *)

InterruptFlag == 512
Enabled(flags) == flags >= InterruptFlag
Disabled(flags) == IF Enabled(flags) THEN flags - InterruptFlag ELSE flags

Machine == [r |-> cpu, m |-> mem]
Becomes(M) == cpu' = M.r /\ mem' = M.m

Pushed(M, values) ==
  LET depth(a) == M.r.esp - a
  IN  [r |-> [M.r EXCEPT !.esp = @ - Len(values)],
       m |-> [a \in Stack |-> IF depth(a) \in DOMAIN values
                              THEN values[depth(a)] ELSE M.m[a]]]

\* A word of memory; below the stack lies what the BIOS has left.
Load(M, a) == IF a \in Stack THEN M.m[a] ELSE Junk

\* The vectors for which the processor pushes an error code.
PushesError == {8, 10, 11, 12, 13, 14, 17}
ErrorCode == -50

\* The registers and the stack once interrupt v is taken, which returns to
\* eip; from user mode the stack is the one the TSS names.
Taken(v, eip) ==
  LET outer == Rpl(cpu.cs) # Dpl(CODE_SEG)
      stack == IF outer
               THEN [r |-> [cpu EXCEPT !.esp = tss.esp0, !.ss = tss.ss0],
                     m |-> mem]
               ELSE Machine
      frame == (IF outer THEN <<cpu.ss, cpu.esp>> ELSE <<>>)
                 \o <<cpu.eflags, cpu.cs, eip>>
                 \o (IF v \in PushesError THEN <<ErrorCode>> ELSE <<>>)
      M == Pushed(stack, frame)
  IN  [M EXCEPT !.r.cs = CODE_SEG, !.r.eflags = Disabled(@)]

\* The checks on the way in: the gate for an int instruction, the kernel's
\* segments, and its stack.
MayEnter(software) ==
  /\ software => Rpl(cpu.cs) <= GateDpl
  /\ IsCode(CODE_SEG)
  /\ Rpl(cpu.cs) # Dpl(CODE_SEG) =>
       StackOf(tss.ss0, Dpl(CODE_SEG)) /\ tss.esp0 \in Stack

\* iret, to the same level or to an outer one.
Iret(M) ==
  LET At(k) == M.m[M.r.esp + k]
      back == [M.r EXCEPT !.eip = At(0), !.cs = At(1), !.eflags = At(2)]
  IN  [M EXCEPT !.r = IF Rpl(At(1)) > Rpl(M.r.cs)
                      THEN [back EXCEPT !.esp = At(3), !.ss = At(4)]
                      ELSE [back EXCEPT !.esp = @ + 3]]

\* Its checks; a data segment of an inner level would be emptied.
MayReturn(M) ==
  LET At(k) == M.m[M.r.esp + k]
      level == Rpl(At(1))
  IN  /\ {M.r.esp + k : k \in 0 .. 2} \subseteq Stack
      /\ At(1) \in {CODE_SEG, USER_CODE}
      /\ level >= Rpl(M.r.cs) /\ IsCode(At(1)) /\ Dpl(At(1)) = level
      /\ level > Rpl(M.r.cs) => StackOf(At(4), level) /\ Dpl(M.r.ds) >= level
-----------------------------------------------------------------------------
(* ccall.inc. *)

Aligned(a) == a - (a % 4)

\* The stack pointer before the arguments are pushed: behind them the stack is
\* aligned to 16 bytes.
ArgumentsAt(esp, n) == Aligned(esp - n) + n

\* A call of a C function with n arguments: it may change eax, ecx, edx and
\* everything below its arguments' end; ebp holds the stack pointer meanwhile.
ccall(M, n) ==
  [r |-> [M.r EXCEPT !.ebp = M.r.esp,
                     !.eax = Junk, !.ecx = Junk, !.edx = Junk],
   m |-> [a \in Stack |->
            IF a < ArgumentsAt(M.r.esp, n) THEN Junk ELSE M.m[a]]]
-----------------------------------------------------------------------------
(* Code that is interrupted. *)

\* The boot code once the IDT is loaded, wherever its stack is; its registers
\* hold different values, none of them an address of the stack.
IsrInit ==
  /\ \E depth \in BootDepths, flags \in {2, 2 + InterruptFlag} :
       cpu = [eax |-> -1, ebx |-> -2, ecx |-> -3, edx |-> -4, esi |-> -5,
              edi |-> -6, ebp |-> -7, esp |-> 100 + StackWords - depth,
              eip |-> BOOT, eflags |-> flags,
              cs |-> CODE_SEG, ss |-> DATA_SEG, ds |-> DATA_SEG]
  /\ mem = [a \in Stack |-> -10 - a]
  /\ tss = [ss0 |-> 0, esp0 |-> 0]
  /\ part = "code"
  /\ vector = 0
  /\ before = Machine

\* Interrupt v comes before the instruction at eip, or is caused by it.
Interrupt(v, eip, software) ==
  /\ part = "code"
  /\ vector' = v
  /\ before' = [Machine EXCEPT !.r.eip = eip]
  /\ IF MayEnter(software) THEN part' = "stub" /\ Becomes(Taken(v, eip))
                           ELSE part' = "fault" /\ UNCHANGED <<cpu, mem>>
  /\ UNCHANGED tss

hardware_interrupt ==
  /\ Enabled(cpu.eflags)
  /\ \E v \in {32, 33} : Interrupt(v, cpu.eip, FALSE)

\* test_run_idt executes int 1 and int 3; other exceptions are bugs of the
\* kernel.
exception ==
  cpu.eip = BOOT /\ \E v \in Exceptions : Interrupt(v, BOOT, v \in {1, 3})

system_call == cpu.eip = USER_INT /\ Interrupt(51, USER_LOOP, TRUE)

\* load_tss: esp0 is set by _enter_usermode, which kernel_main calls later.
load_tss ==
  /\ part = "code" /\ cpu.eip = BOOT /\ tss.ss0 = 0
  /\ tss' = [ss0 |-> 16, esp0 |-> 0]
  /\ UNCHANGED <<cpu, mem, part, vector, before>>

\* _enter_usermode, interrupts disabled: the segments, a frame for iretd with
\* the stack it runs on and the interrupt flag set, and the kernel stack.
enter_usermode ==
  /\ part = "code" /\ cpu.eip = BOOT /\ tss.ss0 # 0
  /\ LET M == Pushed([r |-> [cpu EXCEPT !.ds = USER_DATA, !.eflags = Disabled(@)],
                      m |-> mem],
                     <<USER_DATA, cpu.esp - 1,
                       Disabled(cpu.eflags) + InterruptFlag,
                       USER_CODE, USER_A>>)
         called == ccall(M, 1)
     IN  /\ tss' = [tss EXCEPT !.esp0 = ArgumentsAt(M.r.esp, 1)]
         /\ IF MayReturn(called) THEN Becomes(Iret(called)) /\ part' = "code"
            ELSE part' = "fault" /\ UNCHANGED <<cpu, mem>>
  /\ UNCHANGED <<vector, before>>

\* add esp, 4
fix_stack ==
  /\ part = "code" /\ cpu.eip = USER_A
  /\ cpu' = [cpu EXCEPT !.esp = @ + 1, !.eip = USER_INT]
  /\ UNCHANGED <<mem, tss, part, vector, before>>
-----------------------------------------------------------------------------
(* The handler, interrupts disabled. *)

Goto(from, to) == part = from /\ part' = to /\ UNCHANGED <<tss, vector, before>>

\* error_code_interrupt_handler for these, no_error_code_interrupt_handler for
\* the others.
ErrorStubs == {8, 10, 11, 12, 13, 14}

stub ==
  /\ Goto("stub", "save")
  /\ Becomes(Pushed(Machine, IF vector \in ErrorStubs THEN <<vector>>
                                                     ELSE <<0, vector>>))

Saved == <<cpu.eax, cpu.ebx, cpu.ecx, cpu.edx, cpu.esi, cpu.edi, cpu.ebp>>

\* save with a bug: a register C functions may change is not saved.
save_NotEdx ==
  /\ Goto("save", "dispatch")
  /\ LET M == Pushed(Machine, [Saved EXCEPT ![4] = cpu.ecx])
     IN  Becomes([M EXCEPT !.r.edi = M.r.esp + 7, !.r.ecx = M.r.esp + 8,
                              !.r.ebx = 1])

\* The registers are pushed; edi points to the number and ecx to the error
\* code.  store_interrupt_number restores what it uses.
save ==
  /\ Goto("save", "dispatch")
  /\ LET M == Pushed(Machine, Saved)
     IN  Becomes([M EXCEPT !.r.edi = M.r.esp + 7, !.r.ecx = M.r.esp + 8,
                              !.r.ebx = 1])

\* The comparisons in their order: each loads its number into ecx, from the
\* third on they clear ebx.
Compared == <<1, 3, 13, 14, 32, 33, 51>>
Known(number) == \E k \in DOMAIN Compared : Compared[k] = number

\* Where a number leads: page faults print and HLT, the other exceptions panic.
Target(number) ==
  CASE number \in {1, 3} -> "resume"
    [] number \in {32, 33, 51} -> "body"
    [] OTHER -> "halted"

dispatch ==
  LET number == Load(Machine, cpu.edi)
  IN  /\ Goto("dispatch", Target(number))
      /\ cpu' = [cpu EXCEPT !.ecx = IF Known(number) THEN number
                                   ELSE Compared[Len(Compared)],
                            !.ebx = IF number \in {1, 3} THEN @ ELSE 0]
      /\ UNCHANGED mem

\* .call_timer_handler, .call_keyboard_handler, .call_systemcall_handler: two
\* calls or one, without arguments, around which ebx is saved.
body ==
  /\ Goto("body", "resume")
  /\ LET called == ccall(ccall(Pushed(Machine, <<cpu.ebx>>), 0), 0)
     IN  Becomes([called EXCEPT !.r.ebx = Load(called, called.r.esp),
                                !.r.esp = @ + 1])

\* .resume: printf with three arguments if ebx is 1.  The last one is the word
\* at ecx, which dispatch has overwritten: the message shows a word of low
\* memory where the error code should be.
resume ==
  /\ Goto("resume", "cleanup")
  /\ IF cpu.ebx = 1 THEN Becomes(ccall(Machine, 3))
                    ELSE UNCHANGED <<cpu, mem>>

\* .interrupt_cleanup: the registers, the two words of the stub, iret.
cleanup ==
  /\ LET At(k) == Load(Machine, cpu.esp + k)
         M == [Machine EXCEPT
                 !.r = [cpu EXCEPT !.ebp = At(0), !.edi = At(1), !.esi = At(2),
                                   !.edx = At(3), !.ecx = At(4), !.ebx = At(5),
                                   !.eax = At(6), !.esp = @ + 9]]
     IN  IF MayReturn(M) THEN Goto("cleanup", "code") /\ Becomes(Iret(M))
         ELSE Goto("cleanup", "fault") /\ UNCHANGED <<cpu, mem>>

Stopped == part \in {"halted", "fault"} /\ UNCHANGED isr_vars

IsrNext == hardware_interrupt \/ exception \/ system_call \/ load_tss
          \/ enter_usermode \/ fix_stack
          \/ stub \/ save \/ dispatch \/ body \/ resume \/ cleanup
          \/ Stopped

IsrSpec == IsrInit /\ [][IsrNext]_isr_vars
-----------------------------------------------------------------------------
(* Properties. *)

\* An interrupt is not noticed by the code it interrupts: when the handler
\* returns, every register, the flags, the stack pointer, the segments and the
\* stack in use are what they were, in the boot code and in user mode, wherever
\* the stack happens to be aligned and whatever C code does; and no segment or
\* privilege check of the processor fails on the way in or out
\* (interrupt_handler.asm:88, usermode.asm:11).
InterruptTransparent ==
  [][/\ part' # "fault"
     /\ part = "cleanup" =>
          /\ cpu' = before.r
          /\ \A a \in Stack : a >= cpu'.esp => mem'[a] = before.m[a]]_isr_vars
=============================================================================
