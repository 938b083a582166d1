------------------------------- MODULE Kernel -------------------------------
(***************************************************************************)
(* The kernel from kernel_main to user mode, with its interrupts: the boot *)
(* sequence of kernel_main.c, the dispatch of interrupt_handler.asm, the   *)
(* PIC, the timer, the keyboard and the shell commands.  A handler runs    *)
(* with interrupts off, hence in one step; the boot code takes one step    *)
(* per subsystem (the races inside a call are those of PmemIrq and         *)
(* StdioRing).  Standard input is filled and drained by the same handler,  *)
(* so it is empty between two steps.                                       *)
(*                                                                         *)
(* panic() loops for ever where it is called: in a handler with interrupts *)
(* off, in the boot code with interrupts as they are.                      *)
(***************************************************************************)
EXTENDS Shell, Vmem

CONSTANTS MemoryPages,         \* numbers of pages pmem_initialize may find
          DiskPages,           \* pages of the ramdisk, its pointer page included
          TestPages,           \* pages the self test of the ramdisk uses
          MaxFiles,            \* entries of the root directory
          MaxBlocks,           \* SLAB_MAX_PAGE_COUNT: blocks of 4096 bytes
          MaxProcesses,        \* pids besides 0
          CommandBufferSize,   \* COMMAND_BUFFER_SIZE
          MaxArgs,             \* SHELL_MAX_ARGS
          CountLimit,          \* 2^31: pit_interrupt_count overflows
          Lines,               \* the lines the user types
          StartFile            \* the name of test.bin

ASSUME KernelAssumption ==
  /\ MemoryPages \subseteq Nat
  /\ {DiskPages, TestPages, MaxFiles, MaxBlocks, MaxProcesses, CommandBufferSize,
       MaxArgs, CountLimit} \subseteq Nat \ {0}

INTERRUPT_COUNT == 52
TIMER_IRQ == 0
KEYBOARD_IRQ == 1
NoKey == "none"
Letters == UNION {ToSet(l) : l \in Lines}

VARIABLES
  stage,       \* the call kernel_main makes next
  boot_panic,  \* why the boot code panicked, "none" if it did not
  dead,        \* why a handler never returned, "none" if none did
  ints,        \* the interrupt flag
  idt,         \* the vectors that have an entry in the IDT
  pic_base,    \* the vector of IRQ 0
  unmasked,    \* the IRQs the PIC lets through
  in_service,  \* the IRQs not yet acknowledged
  port,        \* the key waiting in the keyboard's data port
  pit_interrupt_count,
  total, pages,   \* the pages pmem found and those it has left
  stdin_ready,    \* standard input has its page
  mounted,        \* the ramdisk: "none", "test" or "final"
  files,          \* the names in its root directory
  blocks, held,   \* blocks of the heap's largest slab, and those in use
  procs,          \* programs started
  orphans,        \* history: programs process_init forgot
  early,          \* history: a program was started before sched_init
  tss,            \* the TSS: "none", "loaded" or "stack" once esp0 is set
  line            \* command_buffer up to command_buffer_ptr

boot == <<idt, pic_base, unmasked, total, orphans, tss, vm>>
shell == <<stdin_ready, files, blocks, held, line>>
irq == <<in_service, port, pit_interrupt_count>>
vars == <<stage, boot_panic, dead, ints, boot, irq, pages, shell, mounted,
          procs, early>>

Init ==
  /\ stage = "magic" /\ boot_panic = "none" /\ dead = "none"
  /\ ints = FALSE /\ idt = {}
  /\ pic_base = 8 /\ unmasked = {} /\ in_service = {}
  /\ port = NoKey /\ pit_interrupt_count = 0
  /\ total = 0 /\ pages = 0 /\ stdin_ready = FALSE
  /\ mounted = "none" /\ files = {}
  /\ blocks = 0 /\ held = 0 /\ procs = 0 /\ orphans = 0 /\ early = FALSE
  /\ tss = "none" /\ line = <<>>
  /\ VmemInit
-----------------------------------------------------------------------------
(* Interrupts. *)

\* The entries filled with the ISRs.
_setup_idt == 0 .. INTERRUPT_COUNT - 1

\* What common_interrupt_handler does with a vector of the IDT.
Dispatch(vector) ==
  CASE vector \in {1, 3} -> "resume"
    [] vector = 14 -> "halt"
    [] vector = 32 -> "timer"
    [] vector = 33 -> "keyboard"
    [] vector = 51 -> "system call"
    [] OTHER -> "panic"

\* Iret with a bug: the sti before it decides.
Iret_Sti(saved) == TRUE

\* The sti in front of iret lasts for no instruction: iret restores the flag
\* of the interrupted code.
Iret(saved) == saved

\* panic, or the hlt of a page fault, after the cli of the handler.
HandlerDies(why) == dead' = why /\ ints' = FALSE

\* The end of a handler.  kernel_update has called sched_update, whose sanity
\* checks hold unless a program was started before sched_init (Process,
\* PanicOnlyWhenStale).
HandlerReturns ==
  \/ ints' = Iret(ints) /\ UNCHANGED dead
  \/ early /\ HandlerDies("scheduler")

\* An interrupt instruction of the boot code.
SoftInt(vector) ==
  IF vector \in idt /\ Dispatch(vector) \in {"resume", "system call"}
    THEN HandlerReturns ELSE HandlerDies("vector")

\* The PIC delivers an IRQ unless one of the same or a higher priority is
\* being served.
Deliverable(n) ==
  /\ ints /\ n \in unmasked
  /\ \A m \in in_service : n < m

\* Acknowledged with a bug: no command is sent to the PIC.
Acknowledged_Never(n) == in_service \cup {n}

\* pic_acknowledge, and the out of pit_interrupt_handler, come before anything
\* else the handlers do.
Acknowledged(n) == in_service

\* The jo behind the add.
Overflow == pit_interrupt_count + 1 = CountLimit

\* The timer: counts, then kernel_update, with no command to execute.
timer_interrupt ==
  /\ Deliverable(TIMER_IRQ)
  /\ IF pic_base + TIMER_IRQ \notin idt \/ Dispatch(pic_base + TIMER_IRQ) # "timer"
       THEN HandlerDies("vector") /\ UNCHANGED <<pit_interrupt_count, in_service>>
     ELSE IF Overflow
       THEN HandlerDies("tick overflow")
            /\ UNCHANGED <<pit_interrupt_count, in_service>>
     ELSE /\ pit_interrupt_count' = pit_interrupt_count + 1
          /\ in_service' = Acknowledged(TIMER_IRQ)
          /\ HandlerReturns
  /\ UNCHANGED <<stage, boot_panic, boot, port, pages, shell, mounted, procs, early>>
-----------------------------------------------------------------------------
\* sched_init has run.
Initialized == stage \in {"user mode", "system call", "loop"}

(* The shell commands, in the keyboard handler.  left is the number of     *)
(* pages pmem has when the command starts.                                 *)

\* pmem_alloc has a page to give; it may give up with one page left.
CanTake(left, n) == left >= n
MayFail(left, n) == left <= n

Answer(left) ==
  /\ HandlerReturns /\ pages' = left
  /\ UNCHANGED <<files, blocks, held, procs, early>>

Dies(why) ==
  HandlerDies(why) /\ UNCHANGED <<pages, files, blocks, held, procs, early>>

\* What file_exists may answer: on the disk of the self tests anything.  (For
\* names that memcmp tells apart: see Fat16.)
Exists(name) == IF mounted = "test" THEN BOOLEAN ELSE {name \in files}

sh_ls(left) == IF mounted = "none" THEN Dies("ramdisk") ELSE Answer(left)

\* The result of fs_file_write is not looked at.
sh_write(argv, left) ==
  IF Len(argv) < 3 THEN Answer(left)
  ELSE IF mounted = "none" THEN Dies("ramdisk")
  ELSE /\ files' = IF Cardinality(files) < MaxFiles
                     THEN files \cup {argv[2]} ELSE files
       /\ HandlerReturns /\ pages' = left
       /\ UNCHANGED <<blocks, held, procs, early>>

\* malloc(4096), which is one block per page; the block is given back only if
\* the file exists.
sh_read(argv, left) ==
  IF Len(argv) < 2 THEN Answer(left)
  ELSE LET grow == IF held = blocks THEN 1 ELSE 0
       IN  \/ held = MaxBlocks /\ Dies("heap")
           \/ held < MaxBlocks /\ grow = 1 /\ MayFail(left, 1)
                /\ Dies("out of memory")
           \/ /\ held < MaxBlocks /\ CanTake(left, grow)
              /\ IF mounted = "none" THEN Dies("ramdisk")
                 ELSE /\ \E found \in Exists(argv[2]) :
                           held' = IF found THEN held ELSE held + 1
                      /\ blocks' = blocks + grow
                      /\ pages' = left - grow
                      /\ HandlerReturns
                      /\ UNCHANGED <<files, procs, early>>

\* process_execve: Process has the rest of it.
sh_execbg(argv, left) ==
  IF Len(argv) < 2 THEN Answer(left)
  ELSE IF mounted = "none" THEN Dies("ramdisk")
  ELSE \/ FALSE \in Exists(argv[2]) /\ Answer(left)
       \/ /\ TRUE \in Exists(argv[2])
          /\ \/ procs = MaxProcesses /\ Answer(left)
             \/ procs < MaxProcesses /\ MayFail(left, 1) /\ Dies("out of memory")
             \/ /\ procs < MaxProcesses /\ CanTake(left, 1)
                /\ procs' = procs + 1 /\ pages' = left - 1
                /\ early' = (early \/ ~Initialized)
                /\ HandlerReturns
                /\ UNCHANGED <<files, blocks, held>>

shell_execute_command(left) ==
  \E argv \in {Argv(line)} :
    \/ Len(argv) > MaxArgs /\ Dies("overrun")
    \/ /\ Len(argv) <= MaxArgs
       /\ \E command \in {CommandOf(argv)} :
            \/ command = "ls" /\ sh_ls(left)
            \/ command = "write" /\ sh_write(argv, left)
            \/ command = "read" /\ sh_read(argv, left)
            \/ command = "execbg" /\ sh_execbg(argv, left)
            \/ command \in {"print", "unknown"} /\ Answer(left)

\* shell_update, for the one character in standard input.  command_buffer is
\* not checked for its end: what a write behind it destroys is not modelled,
\* the behaviour ends.
shell_update(c, left) ==
  IF Len(line) = CommandBufferSize THEN Dies("overrun") /\ UNCHANGED line
  ELSE IF c = Enter THEN shell_execute_command(left) /\ line' = <<>>
  ELSE Answer(left) /\ line' = Append(line, c)

\* keyboard_interrupt_handler and kernel_update.  The first character makes
\* io_buffer_place take a page for standard input; before pmem is there
\* characters are dropped.
keyboard_interrupt ==
  /\ Deliverable(KEYBOARD_IRQ) /\ port # NoKey
  /\ port' = NoKey
  /\ in_service' = Acknowledged(KEYBOARD_IRQ)
  /\ LET c == scan_to_ascii(port)
         need == IF stdin_ready THEN 0 ELSE 1
     IN  IF c = NUL \/ total = 0
           THEN Answer(pages) /\ UNCHANGED <<stdin_ready, line>>
         ELSE \/ /\ need = 1 /\ MayFail(pages, 1)
                 /\ Dies("out of memory") /\ UNCHANGED <<stdin_ready, line>>
              \/ /\ CanTake(pages, need)
                 /\ stdin_ready' = TRUE
                 /\ shell_update(c, pages - need)
  /\ UNCHANGED <<stage, boot_panic, boot, pit_interrupt_count, mounted>>

\* The user types on towards one of Lines.
KeyPress(key) ==
  /\ port = NoKey /\ KEYBOARD_IRQ \in unmasked /\ dead = "none"
  /\ key \in Letters => \E l \in Lines : IsPrefix(Append(line, key), l)
  /\ port' = key
  /\ UNCHANGED <<stage, boot_panic, dead, ints, boot, in_service,
                 pit_interrupt_count, pages, shell, mounted, procs, early>>
-----------------------------------------------------------------------------
(* The boot code. *)

At(call) == stage = call /\ boot_panic = "none" /\ dead = "none"

\* The rest of the state while the boot code makes a call.
Handlers == UNCHANGED <<irq, stdin_ready, blocks, held, line, early>>

\* panic in the boot code: interrupts stay as they are.
BootPanics(why) ==
  /\ boot_panic' = why
  /\ UNCHANGED <<stage, dead, ints, boot, pages, files, mounted, procs>>

\* kernel_main: the magic number, pmem_set_mbd.
check_magic ==
  /\ At("magic")
  /\ \/ /\ stage' = "serial"
        /\ UNCHANGED <<boot_panic, dead, ints, boot, pages, files, mounted, procs>>
     \/ BootPanics("magic number")
  /\ Handlers

serial_init ==
  /\ At("serial")
  /\ \/ /\ stage' = "idt"
        /\ UNCHANGED <<boot_panic, dead, ints, boot, pages, files, mounted, procs>>
     \/ BootPanics("serial connection")
  /\ Handlers

\* Fills the IDT and loads it; despite its name it enables nothing.
load_and_enable_interrupts ==
  /\ At("idt")
  /\ idt' = _setup_idt
  /\ stage' = "int 1"
  /\ UNCHANGED <<boot_panic, dead, ints, pic_base, unmasked, total, orphans, tss,
                 vm, pages, files, mounted, procs>>
  /\ Handlers

\* test_run_idt: INT 1, INT 3.
test_run_idt ==
  /\ \/ At("int 1") /\ SoftInt(1) /\ stage' = "int 3"
     \/ At("int 3") /\ SoftInt(3) /\ stage' = "pic"
  /\ UNCHANGED <<boot_panic, boot, pages, files, mounted, procs>>
  /\ Handlers

\* pic_remap leaves IRQs 0 to 2 unmasked.
pic_remap ==
  /\ At("pic")
  /\ pic_base' = 32 /\ unmasked' = {0, 1, 2}
  /\ stage' = "masks"
  /\ UNCHANGED <<boot_panic, dead, ints, idt, total, orphans, tss, vm, pages,
                 files, mounted, procs>>
  /\ Handlers

\* This is where interrupts are enabled.
pic_set_interrupt_masks ==
  /\ At("masks")
  /\ unmasked' = {TIMER_IRQ, KEYBOARD_IRQ}
  /\ ints' = TRUE
  /\ stage' = "pit"
  /\ UNCHANGED <<boot_panic, dead, idt, pic_base, total, orphans, tss, vm, pages,
                 files, mounted, procs>>
  /\ Handlers

\* pit_run_tests with a bug: it waits for the interrupt.
pit_run_tests_Waits ==
  /\ At("pit")
  /\ pit_interrupt_count > 0
  /\ stage' = "pmem"
  /\ UNCHANGED <<boot_panic, dead, ints, boot, pages, files, mounted, procs>>
  /\ Handlers

\* pit_initialize, and pit_run_tests, which wants to have seen an interrupt.
pit_run_tests ==
  /\ At("pit")
  /\ \/ /\ pit_interrupt_count > 0
        /\ stage' = "pmem"
        /\ UNCHANGED <<boot_panic, dead, ints, boot, pages, files, mounted, procs>>
     \/ pit_interrupt_count = 0 /\ BootPanics("no timer interrupt")
  /\ Handlers

\* pmem_initialize; the messages of its self test take the page of standard
\* output.
pmem_initialize ==
  /\ At("pmem")
  /\ \E n \in MemoryPages :
       \/ /\ CanTake(n, 1)
          /\ total' = n /\ pages' = n - 1
          /\ stage' = "vmem"
          /\ UNCHANGED <<boot_panic, dead, ints, idt, pic_base, unmasked, orphans,
                         tss, vm, files, mounted, procs>>
       \/ MayFail(n, 1) /\ BootPanics("out of memory")
  /\ Handlers

\* vmem_init, one page at a time.
vmem_init ==
  /\ At("vmem")
  /\ \/ /\ CanTake(pages, 1)
        /\ NewDirectory \/ \E d \in DOMAIN directory : NewTable(d)
        /\ pages' = pages - 1
        /\ UNCHANGED <<stage, boot_panic>>
     \/ /\ vmem_enable_page_dir
        /\ stage' = "vmem tests"
        /\ UNCHANGED <<pages, boot_panic>>
     \/ /\ MayFail(pages, 1) /\ ~TablesBuilt
        /\ boot_panic' = "out of memory"
        /\ UNCHANGED <<stage, vm, pages>>
  /\ UNCHANGED <<dead, ints, idt, pic_base, unmasked, total, orphans, tss, files,
                 mounted, procs>>
  /\ Handlers

vmem_run_tests ==
  /\ At("vmem tests")
  /\ LET good_ptr == VirtualSpace - 1
     IN  IF vmem_get_phys_addr(good_ptr) = good_ptr
           THEN /\ stage' = "ramdisk tests"
                /\ UNCHANGED <<boot_panic, dead, ints, boot, pages, files,
                               mounted, procs>>
           ELSE BootPanics("failed address lookup")
  /\ Handlers

\* ramdisk_init, n pages with those of the caller.  If pmem gives up half way
\* the size is already set, and the block pointers are not.
DiskUp(n, next, kind, names) ==
  /\ \/ /\ CanTake(pages, n)
        /\ pages' = pages - n
        /\ mounted' = kind /\ files' = names
        /\ stage' = next
        /\ UNCHANGED boot_panic
     \/ /\ MayFail(pages, n)
        /\ pages' \in {0, 1} /\ pages' <= pages
        /\ mounted' = "test"
        /\ boot_panic' = "out of memory"
        /\ UNCHANGED <<stage, files>>
  /\ UNCHANGED <<dead, ints, boot, procs>>
  /\ Handlers

\* DiskDown with a bug: the page of the block pointers is not freed.
DiskDown_Leak(n, next) ==
  /\ mounted' = "none" /\ files' = {}
  /\ pages' = pages + n - 1
  /\ stage' = next
  /\ UNCHANGED <<boot_panic, dead, ints, boot, procs>>
  /\ Handlers

\* ramdisk_destroy at the end of a self test, which may fail if a command has
\* written meanwhile.
DiskDown(n, next) ==
  /\ \/ /\ mounted' = "none" /\ files' = {}
        /\ pages' = pages + n
        /\ stage' = next
        /\ UNCHANGED <<boot_panic, dead, ints, boot, procs>>
     \/ files # {} /\ BootPanics("self test")
  /\ Handlers

\* The self tests of the ramdisk and of the file system: each sets up a disk,
\* which the shell may see, and destroys it.  ramdisk_run_tests does so four
\* times; one cycle of TestPages pages stands for the four, and for the two
\* pages of test data held around them.
ramdisk_run_tests ==
  \/ /\ At("ramdisk tests")
     /\ DiskUp(TestPages, "ramdisk tests end", "test", {})
  \/ /\ At("ramdisk tests end")
     /\ DiskDown(TestPages, "fat16 tests")

\* ramdisk_fat16_run_tests with a bug: the disk of the test was to be the disk.
ramdisk_fat16_run_tests_Last ==
  \/ At("fat16 tests") /\ DiskUp(DiskPages, "fat16 tests end", "test", {})
  \/ At("fat16 tests end") /\ DiskDown(DiskPages, "tss")

ramdisk_fat16_run_tests ==
  \/ At("fat16 tests") /\ DiskUp(DiskPages, "fat16 tests end", "test", {})
  \/ At("fat16 tests end") /\ DiskDown(DiskPages, "fat16")

\* ramdisk_fat16_init and fs_load_starting_files.
mount_ramdisk == At("fat16") /\ DiskUp(DiskPages, "tss", "final", {StartFile})

load_tss ==
  /\ At("tss")
  /\ tss' = "loaded"
  /\ stage' = "process"
  /\ UNCHANGED <<boot_panic, dead, ints, idt, pic_base, unmasked, total, orphans,
                 vm, pages, files, mounted, procs>>
  /\ Handlers

\* process_init blanks the table, whoever is in it, and takes the page of the
\* idle process.
process_init ==
  /\ At("process")
  /\ \/ /\ CanTake(pages, 1)
        /\ pages' = pages - 1
        /\ procs' = 0 /\ orphans' = procs
        /\ stage' = "shell"
        /\ UNCHANGED boot_panic
     \/ /\ MayFail(pages, 1)
        /\ procs' = 0 /\ orphans' = procs
        /\ boot_panic' = "out of memory"
        /\ UNCHANGED <<pages, stage>>
  /\ UNCHANGED <<dead, ints, idt, pic_base, unmasked, total, tss, vm, files, mounted>>
  /\ Handlers

\* sched_init, shell_init and stdlib_flushstdio.
shell_init ==
  /\ At("shell")
  /\ stage' = "user mode"
  /\ UNCHANGED <<boot_panic, dead, ints, boot, pages, files, mounted, procs>>
  /\ Handlers

\* cli; esp0 is set; iretd with the interrupt flag set in EFLAGS.
_enter_usermode ==
  /\ At("user mode")
  /\ tss' = "stack"
  /\ ints' = TRUE
  /\ stage' = "system call"
  /\ UNCHANGED <<boot_panic, dead, idt, pic_base, unmasked, total, orphans, vm,
                 pages, files, mounted, procs>>
  /\ Handlers

\* int 0x33, then a loop.
system_call ==
  /\ At("system call")
  /\ SoftInt(51)
  /\ stage' = "loop"
  /\ UNCHANGED <<boot_panic, boot, pages, files, mounted, procs>>
  /\ Handlers

BootStep ==
  \/ check_magic \/ serial_init \/ load_and_enable_interrupts \/ test_run_idt
  \/ pic_remap \/ pic_set_interrupt_masks \/ pit_run_tests \/ pmem_initialize
  \/ vmem_init \/ vmem_run_tests \/ ramdisk_run_tests \/ ramdisk_fat16_run_tests
  \/ mount_ramdisk \/ load_tss \/ process_init \/ shell_init \/ _enter_usermode
  \/ system_call

\* The loop of panic, that of user mode, and the hlt of a page fault.
Spins ==
  /\ stage = "loop" \/ dead # "none" \/ boot_panic # "none"
  /\ UNCHANGED vars

Next ==
  \/ BootStep
  \/ timer_interrupt
  \/ keyboard_interrupt
  \/ \E key \in Letters \cup {Enter, Shift} : KeyPress(key)
  \/ Spins

\* The boot code goes on, and the processor takes the interrupts the PIC has
\* for it.  No fairness of the timer or of the user.
Spec == Init /\ [][Next]_vars /\ WF_vars(BootStep) /\ WF_vars(keyboard_interrupt)
-----------------------------------------------------------------------------
(* Properties. *)

InUserMode == stage \in {"system call", "loop"}

\* Interrupts are enabled only when every IRQ the PIC lets through arrives at a
\* vector with a handler of its own, and in user mode only with a kernel stack
\* in the TSS (interrupt_handler.asm:293 has a sti that runs in the self test,
\* before the PIC is remapped).
InterruptsPrepared ==
  ints => /\ \A n \in unmasked : /\ pic_base + n \in idt
                                 /\ Dispatch(pic_base + n) \in {"timer", "keyboard"}
          /\ InUserMode => tss = "stack"

\* Whatever line has been typed, its arguments are those a reader of the line
\* would expect of blanks and quotes (shell.c:80-98), except for the closing
\* quote.
ArgvMatchesLine == Argv(line) = Arguments(line)

\* No page is lost: what pmem no longer has is in use by a subsystem, or was
\* lent to a program that process_init forgot.
PagesAccounted ==
  total > 0 /\ boot_panic = "none" /\ dead = "none" =>
    total - pages =
      1                                               \* standard output
        + (IF base_ptr THEN 1 ELSE 0)
        + Cardinality({d \in DOMAIN directory : directory[d] # 0})
        + (IF mounted = "none" THEN 0
           ELSE IF stage = "ramdisk tests end" THEN TestPages ELSE DiskPages)
        + (IF stage \in {"shell", "user mode"} \/ InUserMode THEN 1 ELSE 0)
        + (IF stdin_ready THEN 1 ELSE 0)
        + blocks + procs + orphans

\* Once the kernel is in user mode, no key stops it but for a resource that has
\* run out: every command finds its subsystem ready.  (During boot a command
\* that uses files does stop it, and a program started then is unknown to the
\* scheduler, since handlers run shell_update from the
\* moment interrupts are enabled.)
OnlyExhaustionStops ==
  InUserMode =>
    dead \in {"none", "out of memory", "heap", "tick overflow", "overrun"}
               \cup (IF early THEN {"scheduler"} ELSE {})

Observable == <<stage, line, files, blocks, held, procs, pages>>

\* stdlib.h:14 "Causes a kernel panic and immediately stops further
\* processing": nothing happens after a panic in the boot code either.
PanicStops == [][boot_panic # "none" => UNCHANGED Observable]_vars

\* The kernel gets to user mode unless it panics, whatever is typed meanwhile.
BootCompletes == <>(InUserMode \/ boot_panic # "none" \/ dead # "none")

\* Every key pressed is taken by the keyboard handler, unless a handler
\* has panicked: no interrupt is left unacknowledged or masked.
KeysServed == (port # NoKey) ~> (port = NoKey \/ dead # "none")
=============================================================================
