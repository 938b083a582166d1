# A TLA+ model of the koiz-os kernel

koiz-os is a small 32-bit x86 kernel in C. This directory holds TLA+ modules for
the parts of `src/kernel` that keep state, TLC configurations that check them on
small instances, and TLAPS proofs, for instances of any size, about the page allocator,
the heap, the scheduler, the process table, the ramdisk, the standard output buffer, the
serial port, the boot sequence and the screen. `src/old_code` is the previous kernel; it is not built and not modelled.

## The system

The kernel has two contexts and no others.

* **The boot code** (`kernel_main.c`): `kernel_main` calls `pmem_set_mbd`, sets up
  the GDT, IDT, PIC and PIT, then the page allocator, paging, the ramdisk, the file
  system, the heap, the process table and the scheduler, in that order, and ends in
  user mode in an endless loop. `pic_set_interrupt_masks` executes `sti` early: from then on
  everything below runs with interrupts enabled.
* **Interrupt handlers**, through interrupt gates, so one at a time and to
  completion. The keyboard handler puts a character into standard input; the timer
  and system call handlers run `kernel_update` = `stdlib_update`, `shell_update`,
  `sched_update`. Shell commands, and everything they call (`process_execve`, the
  file system, `malloc`, `pmem_alloc`), therefore run inside a handler, possibly in
  the middle of a boot function.

There are no locks. Processes are loaded and scheduled but never run: there is no
context switch.

### Inventory

| Component | State | Operations | What makes it correct |
|---|---|---|---|
| Page allocator, `drivers/memory/pmem.c` | region, record bytes, search position | `pmem_set_mbd`, `pmem_initialize`, `pmem_alloc`, `pmem_free` | a page has one holder; pages lie in available memory; pages can be given back; no early "out of memory" |
| Kernel heap, `libc/malloc.c` | slabs: entries, counters, pages | `malloc`, `free` | counters match entries; blocks disjoint; gives up only when full |
| Scheduler, `drivers/process/sched.c` | linked lists per priority, tickets, current process | `sched_init`, `sched_addpid`, `sched_update` | lists are queues; round robin by priority; no starvation; sanity checks hold |
| Process table, `drivers/process/process.c` | `processes[]` | `process_init`, `process_execve`, `process_kill`, `process_printlist` | agrees with the scheduler; a page and a name per process |
| Standard output, `libc/stdio.c`, `libc/stdlib.c` | ring buffer | `io_buffer_place`, `io_buffer_pop`, `io_buffer_flush_to_screen` | everything shown once, in order; indices in bounds |
| Ramdisk, `drivers/ramdisk/ramdisk.c` | size, block pointers | `ramdisk_init`, `_destroy`, `_read`, `_write` | behaves as one flat array; owns its pages |
| FAT16, `fs/ramdisk_fat16.c`, `fs/fs.c` | two tables, root directory, clusters | init, destroy, exists, read, write | a stored file is found and unchanged |
| Virtual memory, `drivers/memory/vmem.c` | page directory and tables, filled once | `vmem_init`, `vmem_get_phys_addr` | every address is translated to itself |
| Shell, `shell/` | the command line | `shell_update`, `shell_execute_command`, `ls`, `write`, `read`, `execbg` | arguments are what the line says; a command finds its subsystem ready |
| Interrupts and boot, `kernel_main.c`, `drivers/irq/` | interrupt flag, IDT, PIC, tick counter, boot stage | handlers, boot steps | interrupts only when prepared for; the kernel boots; no page and no key is lost |
| Text screen, `drivers/video/vga.c` | cells, cursor registers behind an index port | `vga_print_screen`, `vga_print_screen_char`, `vga_clear_screen` | shows the last rows of the output; writes nowhere else |
| Libc, `libc/string.c`, `libc/stdlib.c` | none | `printf`, `strcpy`, `strlen`, `rpad`, `memcmp`, `eswap_uint16` | a message is what its format means; strings stay inside their arrays |
| Serial port, `drivers/serial/serial.c` | the registers of the chip | `serial_init`, `serial_write` | the log is complete and in order; nobody waits for ever |
| Interrupt entry, `drivers/irq/interrupt_handler.asm`, `usermode.asm`, `boot/gdt.asm`, `drivers/tss/tss.c` | processor registers, stack, segment tables | stubs, common handler, `iret`, `_enter_usermode` | the interrupted code notices nothing; no privilege check fails |
| System calls, self tests | | | only their part in the boot sequence; the four disks `ramdisk_run_tests` sets up and destroys in turn, and its two pages of test data, are one cycle of `TestPages` pages in `Kernel` |

The components meet in these places: everyone takes pages from `pmem_alloc`;
`process_execve` feeds `sched_addpid`; the file system stands on the ramdisk, which
stands on pages; `printf` of both contexts writes the same ring buffer.

### What is hard here

* Boot code and handlers interleave at single memory accesses on the page
  allocator's `pmem_curr_alloc_record` and on the ring buffer's indices.
* Commands can be typed before the structures they use are initialised:
  `process_init` and `sched_init` then reset state already in use.
* Addresses and lengths are `uint32_t` and wrap.
* The screen's cursor is read and written in halves through one port pair.
* The file system is formatted and first written while handlers may write to it.
* The assembly around the handlers: registers C code may change, stack alignment, a
  stack that user mode shares with the kernel.
* Limits: page records, slab entries, ring buffer, process table, root directory,
  clusters.
* Linked lists sharing their entries; a scheduler that must not starve anybody.

Every such place is listed with its line and the properties that watch it under
`hazards` in `PROJECT.json`.

## Modules

| Module | Models | Correspondence |
|---|---|---|
| `PageAllocator` | what a page allocator promises | `lent`: the pages out; `down`: after a panic |
| `Pmem` | `pmem.c`, calls atomic | one variable per global; `record` the bytes at `pmem_main_memory_start`; `holders` is history. Arithmetic is modulo `AddrSpace`. Bytes `pmem_initialize` does not zero are arbitrary |
| `PmemIrq` | extends `Pmem`; `pmem_alloc` one shared access per step, against handlers that allocate in one step | the steps begin right after `pmem_initialize`, on copies of the record bytes (`marks`) and of the search position (`pos`); `pc` is the place in the function; `start`, `tmp`, `mine` its locals and register |
| `PmemProofs` | proofs about `Pmem` and `PmemIrq` | |
| `Malloc` | `malloc.c`: three slabs that grow by pages | `live` and `refused` (the request `malloc` gave up on) are history; `TakeForeignPage` is the rest of the kernel using `pmem_alloc` |
| `MallocProofs` | proofs about `Malloc` | |
| `Mlfq` | a multi-level feedback queue on sequences | |
| `Sched` | `sched.c` on `head`, `next`, `priority`, `tickets` | an entry is its pid, 0 the null pointer; walking a list is `Chain` |
| `SchedRefinement` | `Sched` implements `Mlfq` | the queue of a level is the one sequence that follows the links from its head (`SeqFrom`) |
| `Process` | `process.c`; extends `Sched` and `Printf` | `struct` is the bytes of a name and of the pid behind it; `given`, `lent`, `early` are history. `process_printlist` changes nothing, so it is a state function on `Libc`'s operators |
| `ProcessProofs` | proofs about `Sched` and `Process` | |
| `StdioRing` | extends `Serial`; a character goes to the port and then to the ring buffer: boot code step by step, handlers in one step | characters are numbered in printing order; `screen`, `printed`, `raced` are history |
| `StdioProofs` | proofs about `Serial` and `StdioRing` | |
| `FlatDisk`, `Ramdisk` | a flat array, and `ramdisk.c` scattered over pages | addresses modulo `WordSize` |
| `RamdiskProofs` | proofs about `Ramdisk` | |
| `FileStore`, `Fat16` | a map from names to contents, and `ramdisk_fat16.c` on `Libc`, calls atomic | `fat`, `fat2`, `root`, `data` are the sectors; `answer` is the last result |
| `Fat16Irq` | extends `Fat16`; from a disk that is not mounted, `ramdisk_fat16_format` and the write of the starting file one disk access per step, against shell writes in one step | `pc`, `next`, `sector`, `entry` are the boot code's place and locals; `stray`, `log` are history |
| `Fat16Proofs` | proofs about `Fat16Irq` | |
| `Libc` | the string and number functions as operators; a memory is a function from addresses to bytes | `strcpy(m, dst, src, n)` is the memory after the call |
| `Printf` | `printf` as an operator on the format and the arguments, a recursive function for its loop | `message` (history) is the last format with what its caller means by it |
| `Serial` | `serial.c` and the 8250 chip, one step per port access; extended by `StdioRing` | `uart` is the chip's registers; `wire` is history |
| `Isr` | the assembly from an interrupt to `iret`, `_enter_usermode`, the segments and the TSS | `cpu` and `mem` are registers and stack, in words; C functions change what the calling convention lets them; `before` is history |
| `Shell` | the command line: splitting at blanks and quotes, finding the command | a line is a sequence of characters; `Argv` is the loop of the code, `Arguments` the same without a loop |
| `Vmem` | the page tables and the address translation | `directory` and `tables` are the entries; the address space is `DirEntries * TableEntries * PageBytes` |
| `Kernel` | `kernel_main` to user mode, the interrupt handlers and the shell commands; extends `Shell` and `Vmem` | `stage` is the next call of the boot code; handlers are one step each; `pages`, `blocks`, `procs`, `files` stand for `Pmem`, `Malloc`, `Process` and `Fat16` |
| `Vga` | `vga.c`, one step per port access, handlers in one step | `vidmem` is everything an offset can reach, the screen its first cells; `text`, `start`, `hit`, `torn` are history |
| `KernelProofs`, `DriverProofs` | proofs about `Kernel` with `Vmem`; about `Vga` and `Isr`, which share no variable | |

`Kernel` composes the other components by what their own modules establish of them:
a counter of pages where `Pmem` shows that pages are lent once and refused only when
at most one is left; a counter of blocks and one of programs; a set of names for the
directory. `Malloc`, `Process` and `Fat16` have the details of each call.

`Fat16Irq` has the one file system call of the boot code that handlers can interrupt
(the refinement sees an empty store while that call is taken step by step),
`Isr` the code that `Kernel` takes for granted when it runs a handler in one step, and
`Serial`, `StdioRing` and `Vga` the three places a `printf` of either context ends in.

`MCPmem`, `MCProcess`, `MCRamdisk`, `MCFat16` and `MCKernel` give constants their values. A
definition called `X_Something` and commented "X with a bug" is a faulty variant of
the definition `X` after it; it is used only to show that a property notices it.

In `Kernel` a panic spins where it is called: inside a handler with interrupts off,
which ends everything, in the boot code with interrupts as they are, so that handlers
go on. In every other module a panic ends the behaviour (`Halted`, `Stopped`).

`Pmem` states a type invariant, which its proofs need. In the other modules bounds
that could be missed (array sizes, search positions) are part of the safety properties,
which would also fail on a value of the wrong type.

## Runs

All arithmetic sizes are scaled down; what matters is that the ends, wraps and
limits are met within the bound.

* **pmem** (`Pmem.cfg`): address space 32, blocks of 4; aligned and unaligned
  regions, several regions, holes, a map GRUB left empty, kernels that end before,
  in and behind the region. `TypeOK`, `PagesExclusive` (one holder, and no page
  lent that is marked free), `LayoutSound` (pages whole, available, clear of kernel
  and records, for maps below 4 GiB with room for two blocks), `HeldPagesFreeable`,
  `OutOfMemoryNearlyFull`, and `AbstractSpec`: `Pmem` implements `PageAllocator`.
  Some maps leave less than a block, so the length wraps, and some have regions above
  `AddrSpace` (4 GiB), read by their low words; those too must keep `PagesExclusive`. `pmem_free` is called with pages the caller holds, or with any
  page address when it panics.
  The same run takes `pmem_alloc` step by step (`PmemIrq`) on every map with at most
  four records, with one page taken by a handler at any step (the input buffer, the
  only one when no command is typed during boot).
  `NoOvercommit`: as many records are marked as pages were lent, and the search looks
  only at records that exist.
  `BootPagesDistinct`: the boot code never gets one page twice.
* **malloc** (`Malloc.cfg`): blocks of 1, 2 and 4 units on pages of 4, at most two pages per
  slab, five entries, three pages, so that each limit is met before the others in
  some slab. `CountsAgree` (counters, entries and pages, within their arrays),
  `LiveBlocksAreEntries` (a block in use is a taken entry of its slab and the other way
  round, and `free` finds the entry of every address). `GivesUpOnlyWhenFull`: when
  `malloc` panics, every entry of the slab that serves the refused request is in use,
  and that slab is at its limit of entries or pages, or `pmem` has no page left.
* **malloc_overlap** (`MallocOverlap.cfg`): expected to fail, see findings.
* **sched** (`Sched.cfg`): four processes, three queues, one ticket.
  `LinkedOnce` (the lists share, branch and lose nothing, so no sanity check fails). Liveness:
  `EveryoneRuns`. Refinement: `SchedImplementsMlfq`, which covers the order of the
  queues, who moves down and who runs next. Four processes are enough for a list with
  a front, a middle and a last entry besides the current one. Programs are started
  after `sched_init` here.
* **process** (`Process.cfg`): three processes besides idle, four interchangeable
  pages (symmetry), programs started at any time, before `process_init` and
  `sched_init` too. One process at a time may be marked as killed: nothing in the
  kernel calls `process_kill` yet. Program names are shorter and longer than their
  array of three bytes. `TableMatchesScheduler` and `EachProcessOnePage` say what always
  holds and what holds when nothing was started early; `PanicOnlyWhenStale`: the
  checks of `sched_update` fail, or its list search runs in a circle, only after an
  early start, and after `sched_init` only for a current process in no queue.
  `ListingShowsNames`: what `process_printlist` prints. `PrintsItsItems`: every format
  of up to three items (characters, conversions of strings and numbers, bad escapes),
  printed before the table is used, since it shares no state with it. Numbers have 9
  bits and the buffer 9 bytes, so that the binary form of the largest one fills it;
  the reference is numerals defined digit by digit from the other end.
* **stdio** (`Stdio.cfg`): a serial chip that is there or not, with a FIFO of two; two
  characters before `serial_init` and four behind it through a ring buffer of three (so
  it fills and wraps); timer and echo at every step of the boot code. `ScreenInOrder`
  and the liveness property `EverythingShown`, unless a handler ran inside a call
  (`raced`). `LossDetected`: wherever the timer interrupts, nothing is lost except in
  an overflow about to be reported; an echo inside a call is the exception.
  `LogComplete`: the serial log is what was printed, in order, wherever a handler
  prints. `LogSent` (liveness): it is all sent. During boot interrupts stop after
  `MaxShown` characters, since races can repeat characters for ever.
* **ramdisk** (`Ramdisk.cfg`): words of 8 values, blocks of 2, up to two blocks,
  three pages (symmetry); accesses inside the disk, up to its end, one byte past it
  and past the end of the address space. `OwnPages`, and `RamdiskIsFlat`: it
  implements `FlatDisk`, accesses that wrap included. The answer of an access tells
  where it ends and which bytes it moved, so that no other access can account for it.
* **fat16** (`Fat16.cfg`): six clusters and four entries, in two sectors each of the
  table and of the directory, files of 0 to 5 bytes in sectors of 2, one cluster that
  `format` may leave looking taken: the directory and the disk fill up, before and in
  the middle of a file. During boot old contents under the new disk, and shell writes of
  three names at any step and in any number, of less than a cluster and of several.
  `ImplementsFileStore`: files keep clusters of their own and never change;
  `FormatLeavesEmptyDisk` and `OnlyOverlappingWritesHurt`.
* **isr** (`Isr.cfg`): every position of the stack pointer modulo 16 bytes, hardware
  interrupts, exceptions and the system call, in the boot code, before and after
  `load_tss`, and in user mode. `InterruptTransparent`.
* **kernel** (`Kernel.cfg`): machines of 1, 5, 8 and 11 pages (out of memory for the
  first page, in `vmem_init`, at the disks, in a command, and not at all), two page
  tables of two entries, a line buffer of eight characters, three arguments, one heap
  block, one program, two root entries, two ticks before the counter overflows; lines
  for every command with enough, too few and too many arguments, blanks and quotes in
  all positions, and one line longer than the buffer. Keys and ticks come at any
  point. `InterruptsPrepared`, `ArgvMatchesLine`, `PagesAccounted`,
  `OnlyExhaustionStops`, `IdentityMapped`; liveness `BootCompletes` and `KeysServed`.
  Each counter has a limit of one or two because what matters is below, at and beyond
  the limit.
* **kernel_panic** (`KernelPanic.cfg`): expected to fail, see findings.
* **vga** (`Vga.cfg`): a screen of two rows and three columns, registers of two bits,
  so that the cursor needs both and offsets reach past the screen; four characters or
  newlines, a handler printing between any two port accesses. `OnlyScreenWritten`
  whatever is torn; `ScreenShowsText` when no message was interrupted;
  `MessagesRecover`: the next uninterrupted message is visible from its second
  character on.

Deadlock is checked in every run. The end of a behaviour is a step of its own
(`Halted`, `Stopped`, `Quiet`, `Spins`), so a deadlock would be a missing case.

### Fairness

`Sched`: weak fairness of `sched_update` (the PIT interrupts for ever and each
interrupt calls it; handlers are never masked for good in user mode) and of
`sched_init` (the boot code goes on). `StdioRing`: weak fairness of the boot code,
of the timer and of the transmitter, which sends independently of the processor; a
handler that prints is one step, taken when the transmitter is empty. `Kernel`: weak fairness of the boot code, which is never blocked
because handlers return, and of the keyboard interrupt, which the PIC keeps pending
until the processor takes it; none for the timer, so that `BootCompletes` does not
depend on ticks. Nothing else is assumed: no fairness on commands or key presses.

## Findings

Two runs show the code doing what its documentation does not say:

* `malloc_overlap`: `alloc_new_page_if_needed` advances `c_addr` by the slab size
  before the first entry takes it, so the last block of a page starts at its end,
  in a page `malloc` does not own. Two blocks in use can share bytes.
* `kernel_panic`: `stdlib.h:14` says that `panic` "immediately stops further
  processing". Called by the boot code it loops with interrupts enabled: the keyboard
  handler goes on filling the command line and executing commands.

Others shaped the statements of the passing properties:

* `ramdisk_fat16.c:301` says of `file_exists` "returns 0 if the file doesnt exist",
  `string.h` of `memcmp` "Returns 1 if ptr_a > ptr_b". `memcmp` never returns 1, so a
  name nobody wrote exists when the comparison never meets a smaller byte in the stored
  name. The names of the `fat16` run are pairwise incomparable.
* `string.h:10` calls `strcpy` safe; for a source as long as the destination it writes
  the final zero one byte behind it. A program name of 16 characters or more zeroes the
  low byte of its `pid`, which is only printed; the name itself is read correctly because
  the zero ends it there (`ListingShowsNames`).
* `interrupt_handler.asm:111` says "ECX = error"; the comparisons that follow load their
  numbers into `ecx`, and the message about interrupts 1 and 3 prints the word at address
  1 or 3. No property of `Isr` is about that message.
* `ramdisk_fat16_file_write` looks for the next cluster before it has marked the
  current one, finds the same one, and writes the next piece over the first. Files of
  more than one cluster keep one sector of their bytes, which is what `FileStore`
  promises. (`file_read` returns one sector in any case.)
* `pmem_alloc` never looks at the record it starts from: it can panic with one page
  free. `OutOfMemoryNearlyFull` is the exact bound.
* The region length wraps when less than a block is left, and regions above 4 GiB
  are read by their low words: the two premises of `LayoutSound`.
* A handler that allocates between lines 246 and 247 of `pmem.c` makes the boot code
  return the handler's page. That is why `PmemIrq` has no property that a page
  has one holder, only the two weaker ones.
* A timer flush inside a flush shows characters twice, and an echo inside
  `io_buffer_place` trips one of its checks. Hence `raced` in `ScreenInOrder`.
* Handlers execute commands from the moment interrupts are enabled: during boot one
  that uses files stops the kernel, and a program started before `sched_init` may
  stop it later. Hence the premises of `OnlyExhaustionStops`.
* `sh_read` frees its buffer only when the file exists; the heap runs out after
  enough mistyped names ("heap" among the reasons to stop). `PagesAccounted` counts
  the leaked block as one the heap holds.
* The `sti` before `iret` also runs in the self test of the IDT, before the PIC is
  remapped; it does no harm only because `iret` restores the flag right after it
  (`InterruptsPrepared`).
* A handler that prints while the boot code is between two halves of the cursor tears
  it. A cursor torn off the screen makes single characters vanish until a longer
  message is printed (`MessagesRecover`).
* `sched_init` keeps `current_process`, and `process_init` gives pids out again while
  they are linked: the premises on `early` in `Process`.
* With the root directory full a write reports success and the file is entered in
  entry 0, which no search visits: the third case of `FileStore`'s `Write`.
* Two overlapping calls of `file_write` get the same cluster, or the same root entry:
  the premise of `OnlyOverlappingWritesHurt`. A handler's write during the format is
  refused from the moment the first table sector is zeroed, because `find_next_free_cluster`
  then returns 0, the value for "none".
* `serial_init` clears the transmitter: the last character printed before it may be
  missing from the log (`LogComplete`). Its loopback test reads the character back
  without waiting for it, so that it may fail on a working chip and the kernel panics:
  `LogSent` counts that as an end. Its second "disable interrupts" sets the high
  byte of the divisor, DLAB being on. Two characters written after one test arrive
  only because the FIFO was enabled.
* The kernel stack that an interrupt from user mode gets lies right below the words user
  mode has in use; `InterruptTransparent` shows that it never reaches them.
* The second table is written at a wrong offset (`SECOND_FAT_TABLE_SECTOR` is an
  unparenthesised sum) and the end mark is byte-swapped; neither is read back.

## Proofs

Eight modules hold proofs that TLAPS checks. Each theorem has the form
`Spec => []Property` (or `Spec => AbstractSpec`) for the same specification and the same
property that a run checks, and for every value of the constants that satisfies the
named assumptions; TLC evaluates those in the runs. Every inductive invariant was
first checked by TLC.

| Theorem | States | Beyond the named assumptions |
|---|---|---|
| `PmemTypeCorrect`, `PmemPagesExclusive`, `PmemHeldPagesFreeable`, `PmemOutOfMemoryNearlyFull`, `PmemLayoutSound` | `TypeOK`, `PagesExclusive`, `HeldPagesFreeable`, `OutOfMemoryNearlyFull`, `LayoutSound` | |
| `PmemImplementsPageAllocator` | `AbstractSpec` | |
| `PmemBootPagesDistinct` | `BootPagesDistinct` of `PmemIrq` | any number of pages taken by handlers |
| `PmemNoOvercommit` | `NoOvercommit` of `PmemIrq` | `MaxIrqPages <= 1`, as the property says |
| `MallocCountsAgree`, `MallocLiveBlocksAreEntries`, `MallocGivesUpOnlyWhenFull` | `CountsAgree`, `LiveBlocksAreEntries`, `GivesUpOnlyWhenFull` | |
| `SchedLinkedOnce`, `SchedIsMlfq` | `LinkedOnce`, `SchedImplementsMlfq` | `EarlyCommands = FALSE`, as in the `sched` run |
| `ProcessTableMatchesScheduler`, `ProcessesHaveOwnPages`, `ProcessPanicsOnlyWhenStale` | `TableMatchesScheduler`, `EachProcessOnePage`, `PanicOnlyWhenStale` | early starts included |
| `ProcessPrintsItsItems`, `ProcessListingShowsNames` | `PrintsItsItems`, `ListingShowsNames` | formats and names of any length, numbers of as many digits as fit the buffer |
| `RamdiskOwnPages` | `OwnPages` | |
| `RamdiskImplementsFlatDisk` | `RamdiskIsFlat` | |
| `Fat16FormatLeavesEmptyDisk`, `Fat16OnlyOverlappingWritesHurt` | `FormatLeavesEmptyDisk`, `OnlyOverlappingWritesHurt` | any number of files, of any size |
| `Fat16ImplementsFileStore` | `ImplementsFileStore` | no two names in use are equal for `memcmp`, as in the `fat16` run; 1 is one of the file sizes |
| `KernelInterruptsPrepared`, `KernelOnlyExhaustionStops`, `KernelIdentityMapped`, `KernelPagesAccounted`, `KernelArgvMatchesLine` | `InterruptsPrepared`, `OnlyExhaustionStops`, `IdentityMapped`, `PagesAccounted`, `ArgvMatchesLine` | |
| `StdioScreenInOrder`, `StdioLossDetected` | `ScreenInOrder`, `LossDetected` | |
| `SerialLogComplete` | `LogComplete` | |
| `VgaOnlyScreenWritten`, `VgaMessagesRecover`, `VgaScreenShowsText` | `OnlyScreenWritten`, `MessagesRecover`, `ScreenShowsText` | |
| `InterruptsAreTransparent` | `InterruptTransparent` | a stack of any size, interrupted at any depth |

**`PmemProofs`.** The inductive invariant is `Inv == TypeOK /\ Records /\ PagesExclusive`.
`PagesExclusive` alone is not inductive: `pmem_alloc` marks one record and lends one
address, so different records must have different addresses. `Records` (there is a
record for every whole block of the length, so the pages span less than the address
space) gives that, through `EntryToPtrInjective`, even when the pages wrap around the
end of memory. `PtrToEntryInverse` does the same for `pmem_free`. `LayoutType` shows that
what `pmem_initialize` computes stays within a word whatever the map says.
`HeldPagesFreeable` follows from `Inv`; `OutOfMemoryNearlyFull` is preserved because the
loop visits every record but its first (`StepsReachAll`). For `LayoutSound` a second
invariant, `LayoutKept`, says that the region, once computed, is still what
`pmem_initialize` made of the map. The refinement maps each call to one that lends a
page, takes one back, goes down, or does nothing.
For the interrupted search, `SearchInv` says where the search position is a record, and
`HeldInv` that what the boot code is about to return it does not hold yet: either the
record it chose, or one that a handler took while it was free. That is why
`BootPagesDistinct` holds however often it is interrupted. `CountInv` adds that as long
as no handler has allocated the search position still is the chosen record, which a
handler's search never looks at; so the two mark different records.

**`MallocProofs`.** `MallocInv` has for each slab the types, the counters and the origin
of addresses: each entry's address lies behind the start of a page of that slab and not
beyond its end, and no two entries have the same one. Together with the fact that pages
are multiples of the page size this gives the one slab and entry that `free` finds
(`OnePageBehind`, `OneOwner`), although a block may reach out of its page
(`malloc_overlap`). The search of `malloc` ends because `free_entries` counts the free
entries (`SearchFinds`). `SizesAssumption` asks that no slab's blocks have size 0.

**`ProcessProofs`.** `Linked` says that every process has the right
predecessor, but a circle of processes without a head would satisfy it, and demotion
could not find its process. `NoneLost` (everybody is met from the head of his queue)
excludes that, and makes the pair inductive. `ProcessInv` keeps this only where it is
true: always after `sched_init`, and before it unless a program was started early. The
rest of it says who has a page, and which entries of the table are in a queue.
For the refinement, `IsList` says that a sequence without repetitions follows the links
from a head to their end. There is at most one (`SeqFromIs`, by the first place where two
differ, and because no list is longer than the table), and `OrderInv` says that there is
one from each head, with the processes of that priority. So a step is known from what it
does to the sequences: a process put in front (`ListPrepended`), taken out
(`ProcessWithout`), or another list that keeps its links (`ListStays`). In a demotion the
only links that change are those of the process and of the one before it, which
`CurrentIsFound` gives. Who runs next is `NextRunning`: the scenarios of `sched_update` are
the round robin of `Mlfq`.
What is printed is proved in the same module. tlapm knows nothing of powers, so `Powers`
counts 2 ^ n as the subsets of a set; `PidAssumption` says by it that a pid, an int, has
no more bits than `print_uint_to_string` has room for. The digits of a number are those of
`Digits`, as many as `Width`, and both the loop of `print_uint_to_string` and the numeral
it should print are shown to be these. The loop of `printf` goes through what is left of
the format and of the arguments after each item (`Rows`, which exist for every row of
items: `RowsExist`), one item a round (`GoodRound`, `LastRound`), and so prints the whole
row or up to a bad escape (`PrintfPrints`).
For the listing, `NamesInv` has the name each process was given at the start of its
struct, cut to the array and ended by a zero. Where a string lies in memory is `Holds`;
`Copied` says what `strcpy` and `RpadPads` what `rpad` make of one. `NamesAssumption` asks
that the name of a state fits its column, as those in process.c do.

**`RamdiskProofs`.** `DiskInv` gives one pointer per block, all different, and the list
its own page. The refinement needs the arithmetic of an address as block number and
offset (`BlockOfAddress`), that `Checked` holds exactly for accesses that stay inside,
wrap-around included (`CheckedIsInside`), and that bytes written one after the other land
at consecutive places of the flat disk (`LandingOnRow`).

**`Fat16Proofs`.** `Fat16Inv` has, while the format runs, which sectors of the table and of
the directory are zeroed by now (`FormatInv`). From the first one on the table says that
cluster 0 is free, which `find_next_free_cluster` returns and its callers take for a full
disk: a handler that does write comes before the first sector, and all of what it wrote is
zeroed later (`EarlyHandler`). Afterwards what keeps a file whole is that nobody chooses
its cluster or its entry again: the clusters that visible entries point to look taken
(`EntriesTaken`), and a file written outside of the boot code's call has a cluster and an
entry that differ from those the boot code holds between its search and its write
(`Safe`). For its own file, `BootInv` follows the call step by step as long as nobody
writes during it. The loop of `ramdisk_fat16_file_write` over the clusters of a file is a
recursive function; that there is one and that it only touches clusters that were free
when it began (`RoundsSound`) is shown by taking the least round for which it is not so.
For the refinement, `CallsInv` has the disk between two calls: sectors of full length,
entries in use that point to taken clusters, and no name twice. A call that writes chooses
a free cluster and a free entry, so all other files stay as they were (`OneMoreFile`,
`SameFiles`), also when it panics halfway; with more than one round the first sector is
overwritten, but only ever with bytes of the file (`RoundsFilled`), which is what
`FileStore` allows of a long file. Entry 0 is used exactly when there are as many files as
`FileStore` may hold (`FilesCount`). That `file_exists` finds no other file than the one
asked for needs the premise about `memcmp` (`ExistsIsRight`).

**`StdioProofs`.** Three invariants, one per theorem, on the types `TypeInv`.
`PortInv` has the registers of the chip before each write of `serial_init` (`Chip`) and
what was printed as what was sent followed by what the transmitter holds; once the log is
open it adds that the boot code between its test and its write finds at most one
character there, which is why a FIFO of two is enough.
`LossInv` has where every character is: settled (shown, or popped by the boot code), in
its hands, or in the ring. That is not inductive: a flush stops at a zero byte, and
`io_buffer_pop` stores an index that a handler may have overtaken, which puts cells back
into the ring that had left it. So the invariant also says that every cell outside the ring
is settled (`StaleSettled`), that nothing unsettled comes after a zero byte
(`SettledAfterZero`), that there is no zero byte when `io_buffer_place` begins (`NoZeros`,
`FullBuffer`), and that what the store of the index skips is settled (`SkippedSettled`).
`FlowInv`, about the boot code alone, fails once a key is echoed inside a call, hence that
exception; the other exception, an overflow about to be reported, is a state that is never
left (`OverflowStays`).
`OrderInv` has the character in every place as long as nothing was interrupted: the screen,
then the popped character, then the ring, each cell by its distance from the tail
(`Filled`), then the character in hand. What a flush shows is its first zero byte's
business (`FlushedFacts`), found as a least element instead of by induction.

**`KernelProofs`.** `KernelInv` has three parts: what interrupts find at each stage of the
boot sequence, what the page tables hold so far, and who holds the pages. The last two
are about every stage and not only about the end, since handlers run between any two of
them. A handler is treated once for all stages (`HandlerKeeps`): what a command can
change is summed up by its outcome (`ShellOutcome`).
For `ArgvMatchesLine` a third invariant, `LineInv`, only says that lines are rows of bytes;
the work is about `split_string`. Its loop is a recursive function, and that there is one
is shown by the least length without one (`SplittingExists`). What it has found in the
first i characters (`SplitOK`) are the starts of words there, in ascending order, with the
delimiters behind them overwritten. A set of numbers is listed in ascending order in one
way only (`AscendingLists`, `ListsOnce`), so the starts are those the property computes
from the gaps of the line (`FullGaps`), and each piece of the line is the string at its
start (`PieceFacts`).

**`DriverProofs`.** About `Vga`: `CursorInv` has the width of registers and locals, and that once
`print_char` has run the offset in the boot code's local is that of a cell, whatever was
read from torn registers: `NewOffsetCell`. `MessageInv` has which half of it an
uninterrupted message has written so far and the character before the cursor, which
scrolling moves along with the cursor (`PrintedShows`). The loop of `vga_clear_screen`
is a recursive function; that there is one (`ClearingExists`), and that it keeps to the
screen, is shown by taking the least cell for which it is not so.
For `ScreenShowsText` a second invariant, `SheetInv`, sees the screen as a window on an
endless sheet: the cells are what the text leaves on the sheet from row `top` on, and the
cell behind the text is in the local of the boot code and in the registers as far as each
has been read and written (`CursorAt`). The property computes `top` from the end of the text;
the invariant only says that `top` is not 0 unless the cursor is in the last row, which is
what a scroll leaves behind and what makes the two agree (`TopRow`). A character moves
the cursor as it moves the place on the sheet (`PlaceMoves`), a scroll moves the window
(`DrawnScroll`). The places are a recursive function of the text: a text with one more
character has the old places and one more (`SheetAppend`), and only one function has them
(`SheetUnique`, by the least place where two differ).
About `Isr`: `IsrInv` has, for code that may be interrupted, the segments it runs on and
where its stack is (`Context`), and for each part of the handler the words that the later
parts will read: the frame of the processor at a known distance above the stack pointer
(`Framed`), the vector where `edi` points, the saved registers at the stack pointer
(`SavedAt`), and everything from the interrupted stack pointer on as it was (`Inside`).
What a push and a C function leave alone is `PushedFacts` and `CcallFacts`, for every
alignment. From user mode the words in use start at or above `esp0`, which is what keeps
the handler off them. Vectors with an error code never return, so only the others need
the frame at its exact place. `StackAssumption` asks for 24 words below the pointer of
the boot code: the frame of `_enter_usermode` with its alignment and a handler on top
of it.

Only model-checked is liveness (`EveryoneRuns`, `EverythingShown`, `LogSent`,
`BootCompletes`, `KeysServed`): fairness is beyond the prover. Every other property of a
passing run has a theorem.

## Not modelled

* Listings other than the names of processes (`kmemlist`, `sched_printinfo`,
  `list_info`), screen colours.
* The fields of the TSS no interrupt uses, PIT registers. `syscall_handler` is empty and
  never called; interrupt 0x33 runs `kernel_update` and is modelled.
* `serial_read`, `serial_write_noblock`, `eswap_uint32` and `maxrand`, which nothing calls.
  `strcmp` is equality, `memcpy` and `memset` are copies and fills where they are used.
* Exceptions inside handlers, and the alignment check (vector 17), which the kernel never
  enables: its stub pushes a second error code, and it panics without returning.
* Handlers inside calls of `process_init` and `ramdisk_init`, and inside a single
  `ramdisk_write`: these are atomic here. The races of `pmem_alloc`, the ring buffer, the
  screen, the serial port and the file system are modelled access by access.
* Spurious interrupts of the PIC, and keys dropped while the output buffer takes its page.
* What an overrun of `command_buffer` or `c_argv` destroys (the behaviour ends there),
  and what the overlap shown by `malloc_overlap` does to the contents of the blocks.
* The input buffer: the same code as the output buffer, used by handlers only.
* `src/old_code`.

## Plan

Done: inventory; page allocator with interrupts; heap; scheduler and process table;
output buffer; ramdisk; file system, also under interrupts; paging; shell; boot sequence
with interrupts; screen; libc and `printf`; serial port; the assembly around interrupts;
the proofs above.

Next, in this order:

1. Finer steps in `Kernel`: handlers inside `ramdisk_init` and `process_init`.
