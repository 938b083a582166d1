---------------------------- MODULE KernelProofs ----------------------------
(***************************************************************************)
(* InterruptsPrepared, OnlyExhaustionStops, IdentityMapped, PagesAccounted *)
(* and ArgvMatchesLine of Kernel, for every size of memory, of the tables  *)
(* and of the disk, whatever the user types and whenever the timer fires.  *)
(*                                                                         *)
(* The invariant says for each stage of kernel_main what it has set up so  *)
(* far: that is what an interrupt at that stage finds.  ArgvMatchesLine is *)
(* about the loop of the shell, for a line of any length (last section).   *)
(***************************************************************************)
EXTENDS Kernel, FiniteSetTheorems, SequenceTheorems, WellFoundedInduction, TLAPS

\* The stages before pic_set_interrupt_masks is done, and before
\* pmem_initialize is.
IntsOff == {"magic", "serial", "idt", "int 1", "int 3", "pic", "masks"}
NoPmem == IntsOff \cup {"pit", "pmem"}

\* The stages with the disk of a self test, and with the disk of the shell.
TestDisk == {"ramdisk tests end", "fat16 tests end"}
FinalDisk == {"tss", "process", "shell", "user mode", "system call", "loop"}

Stages == NoPmem \cup TestDisk \cup FinalDisk
            \cup {"vmem", "vmem tests", "ramdisk tests", "fat16 tests", "fat16"}

\* The stages after process_init.
WithIdle == {"shell", "user mode", "system call", "loop"}

\* What interrupts find.
PreparedInv ==
  /\ stage \in Stages
  /\ ints \in BOOLEAN
  /\ stage \notin {"magic", "serial", "idt"} => idt = _setup_idt
  /\ stage \in IntsOff => ~ints
  /\ stage \notin IntsOff \ {"masks"} => pic_base = 32
  /\ stage \notin IntsOff => unmasked = {TIMER_IRQ, KEYBOARD_IRQ}
  /\ InUserMode => tss = "stack"
  /\ dead # "none" => ~ints
  /\ stage \in FinalDisk => mounted = "final"
  /\ OnlyExhaustionStops

\* What the page tables hold.
Tables == 0 .. DirEntries - 1
PagingInv ==
  /\ directory \in [Tables -> {0, FLAGS}]
  /\ DOMAIN tables = Tables
  /\ \A d \in Tables : directory[d] # 0 =>
       tables[d] = [t \in 0 .. TableEntries - 1 |-> IdentityEntry(d, t)]
  /\ paging => TablesBuilt

\* Who holds the pages.
AccountsInv ==
  /\ total \in Nat /\ pages \in Nat
  /\ blocks \in Nat /\ procs \in Nat /\ orphans \in Nat
  /\ total = 0 => ~stdin_ready /\ blocks = 0 /\ procs = 0
  /\ stage \in NoPmem => /\ total = 0 /\ ~base_ptr
                         /\ mounted = "none" /\ orphans = 0
                         /\ \A d \in Tables : directory[d] = 0
  /\ boot_panic = "none" =>
       /\ stage \in TestDisk => mounted = "test"
       /\ stage \notin TestDisk \cup FinalDisk => mounted = "none"
       /\ stage \notin WithIdle => orphans = 0
  /\ PagesAccounted

\* The inductive invariant.
KernelInv == PreparedInv /\ PagingInv /\ AccountsInv
-----------------------------------------------------------------------------
(* Translation of addresses. *)

\* Quotient and remainder of a sum built from them.
LEMMA Quotient ==
  ASSUME NEW b \in Nat, b > 0, NEW q \in Nat, NEW r \in Nat, r < b
  PROVE  (b * q + r) \div b = q /\ (b * q + r) % b = r
  OBVIOUS

\* Every number is its quotient and its remainder.
LEMMA Division ==
  ASSUME NEW a \in Nat, NEW b \in Nat, b > 0
  PROVE  /\ a \div b \in Nat /\ a % b \in Nat /\ a % b < b
         /\ a = b * (a \div b) + (a % b)
  OBVIOUS

\* The two indices that vmem_get_phys_addr cuts out of an address lead to the
\* entry with the address of its page.
LEMMA IdentityEntryOfAddress ==
  ASSUME NEW v \in Address
  PROVE  LET d == v \div (TableEntries * PageBytes)
             t == (v \div PageBytes) % TableEntries
         IN  /\ d \in Tables /\ t \in 0 .. TableEntries - 1
             /\ IdentityEntry(d, t) = PageBytes * (v \div PageBytes) + FLAGS
<1> DEFINE P == PageBytes
           T == TableEntries
           D == DirEntries
           k == v \div P
           r == v % P
           m == k \div T
           t == k % T
           s == T * P
           o == P * t + r
<1>1. /\ P \in Nat /\ P > 0 /\ T \in Nat /\ T > 0 /\ D \in Nat /\ D > 0
  BY PagingAssumption
<1>2. v \in Nat /\ v < D * T * P /\ s \in Nat /\ VirtualSpace = D * T * P
  BY <1>1 DEF Address, VirtualSpace
<1> HIDE DEF P, T, D
<1>3. k \in Nat /\ r \in Nat /\ r < P /\ v = P * k + r
  BY <1>1, <1>2, Division
<1> HIDE DEF k, r
<1>4. m \in Nat /\ t \in Nat /\ t < T /\ k = T * m + t
  BY <1>1, <1>3, Division
<1> HIDE DEF m, t
<1>5. o \in Nat /\ o < s /\ s > 0
  <2>1. t + 1 <= T
    BY <1>1, <1>4
  <2>2. P * (t + 1) <= P * T
    BY <1>1, <1>4, <2>1
  <2>3. P * (t + 1) = P * t + P
    BY <1>1, <1>4
  <2>4. P * t \in Nat
    BY <1>1, <1>4
  <2> QED
    BY <1>1, <1>3, <2>2, <2>3, <2>4
<1>6. v = s * m + o
  <2>1. P * (T * m + t) = (T * P) * m + P * t
    BY <1>1, <1>4
  <2> QED
    BY <1>1, <1>3, <1>4, <2>1
<1> HIDE DEF o
<1>7. v \div s = m
  <2> HIDE DEF s
  <2> QED
    BY <1>2, <1>4, <1>5, <1>6, Quotient
<1>8. m < D
  <2>1. SUFFICES ASSUME D <= m PROVE FALSE
    BY <1>1, <1>4
  <2>2. s * D <= s * m
    <3> HIDE DEF s
    <3> QED
      BY <1>1, <1>2, <1>4, <2>1
  <2>3. s * D = D * T * P
    BY <1>1
  <2>4. s * m <= v
    <3> HIDE DEF s
    <3> QED
      BY <1>2, <1>4, <1>5, <1>6
  <2>5. D * T * P \in Nat /\ s * m \in Nat
    BY <1>1, <1>4
  <2> QED
    BY <1>2, <2>2, <2>3, <2>4, <2>5
<1>9. IdentityEntry(m, t) = P * k + FLAGS
  <2>1. (m * T + t) * P = P * k
    <3>1. m * T + t = k
      BY <1>1, <1>4
    <3> QED
      BY <1>1, <1>3, <3>1
  <2>2. P * k \in Nat
    BY <1>1, <1>3
  <2>3. P * k <= v
    BY <1>3, <2>2
  <2>4. D * T * P \in Nat
    BY <1>1
  <2>5. (P * k) % (D * T * P) = P * k
    <3> DEFINE x == P * k
               y == D * T * P
    <3>1. x \in Nat /\ y \in Nat /\ x < y
      BY <1>2, <2>2, <2>3, <2>4
    <3> HIDE DEF x, y
    <3>2. x % y = x
      BY <3>1
    <3> QED
      BY <3>2 DEF x, y
  <2> QED
    BY <1>2, <2>1, <2>5 DEF IdentityEntry, P, T
<1>10. m \in Tables /\ t \in 0 .. T - 1
  BY <1>1, <1>4, <1>8 DEF Tables, D
<1> QED
  BY <1>7, <1>9, <1>10 DEF P, T, k, m, t

\* Where the tables are filled, every address is translated to itself.
LEMMA TablesAreIdentity ==
  ASSUME PagingInv, TablesBuilt, NEW v \in Address
  PROVE  vmem_get_phys_addr(v) = v
<1> DEFINE d == v \div (TableEntries * PageBytes)
           t == (v \div PageBytes) % TableEntries
           k == v \div PageBytes
           entry == tables[d][t]
<1>1. /\ d \in Tables /\ t \in 0 .. TableEntries - 1
      /\ IdentityEntry(d, t) = PageBytes * k + FLAGS
  BY IdentityEntryOfAddress
<1> HIDE DEF d, t
<1>2. directory[d] # 0 /\ entry = PageBytes * k + FLAGS
  BY <1>1, ZenonT(40) DEF PagingInv, TablesBuilt
<1>3. v \in Nat /\ PageBytes \in Nat /\ PageBytes > FLAGS /\ FLAGS \in Nat
      /\ FLAGS > 0 /\ PageBytes > 0
  BY PagingAssumption DEF Address, VirtualSpace, FLAGS
<1>4. k \in Nat /\ v % PageBytes \in Nat /\ v = PageBytes * k + (v % PageBytes)
  BY <1>3, Division
<1> HIDE DEF k, entry
<1>5. PageBytes * k \in Nat
  BY <1>3, <1>4
<1>6. entry % PageBytes = FLAGS
  BY <1>2, <1>3, <1>4, Quotient
<1>7. entry # 0
  BY <1>2, <1>3, <1>5
<1>8. (entry - (entry % PageBytes)) + (v % PageBytes) = v
  BY <1>2, <1>3, <1>4, <1>5, <1>6
<1>9. ~(directory[d] = 0 \/ entry = 0)
  BY <1>2, <1>7
<1> QED
  BY <1>8, <1>9 DEF vmem_get_phys_addr, d, t, entry
-----------------------------------------------------------------------------
(* The handlers. *)

\* A handler returns, or it never does, for one of these reasons.
Returns == ints' = ints /\ UNCHANGED dead
Stops(why) == ints' = FALSE /\ dead' \in why
Exhaustion == {"out of memory", "heap", "tick overflow", "overrun"}

HandlerOutcome ==
  \/ Returns
  \/ Stops(Exhaustion)
  \/ early /\ Stops({"scheduler"})
  \/ mounted = "none" /\ Stops({"ramdisk"})

\* A command takes pages for blocks and for processes only; left is what pmem
\* has before it.
CommandOutcome(left) ==
  /\ pages' \in Nat /\ blocks' \in Nat /\ procs' \in Nat
  /\ early => early'
  /\ HandlerOutcome
  /\ Returns => pages' + blocks' + procs' = left + blocks + procs

\* The end of a handler is one of these outcomes.
LEMMA ReturnOutcome == HandlerReturns => Returns \/ (early /\ Stops({"scheduler"}))
  BY DEF HandlerReturns, HandlerDies, Returns, Stops, Iret

\* A command that answers without taking a page.
LEMMA AnswerOutcome ==
  ASSUME AccountsInv, NEW left \in Nat, Answer(left)
  PROVE  CommandOutcome(left)
  BY ReturnOutcome DEF Answer, CommandOutcome, HandlerOutcome, AccountsInv

\* A command that panics.
LEMMA DiesOutcome ==
  ASSUME AccountsInv, dead = "none", NEW left \in Nat, NEW why, Dies(why),
         why \in Exhaustion \/ (mounted = "none" /\ why = "ramdisk")
  PROVE  CommandOutcome(left)
<1>1. Stops({why}) /\ UNCHANGED <<pages, blocks, procs, early>>
  BY DEF Dies, HandlerDies, Stops
<1>2. HandlerOutcome
  BY <1>1 DEF HandlerOutcome, Stops
<1>3. ~Returns
  BY <1>1 DEF Returns, Stops, Exhaustion
<1> QED
  BY <1>1, <1>2, <1>3 DEF CommandOutcome, AccountsInv

\* What any command of the shell may do.
LEMMA ShellOutcome ==
  ASSUME AccountsInv, dead = "none", NEW left \in Nat, shell_execute_command(left)
  PROVE  CommandOutcome(left)
<1> DEFINE argv == Argv(line)
<1>1. CASE Dies("overrun")
  BY <1>1, DiesOutcome DEF Exhaustion
<1>2. CASE Answer(left)
  BY <1>2, AnswerOutcome
<1>3. CASE sh_ls(left)
  BY <1>3, AnswerOutcome, DiesOutcome DEF sh_ls
<1>4. CASE sh_write(argv, left)
  <2>1. CASE Answer(left) \/ (mounted = "none" /\ Dies("ramdisk"))
    BY <2>1, AnswerOutcome, DiesOutcome
  <2>2. CASE HandlerReturns /\ pages' = left /\ UNCHANGED <<blocks, held, procs, early>>
    BY <2>2, ReturnOutcome DEF CommandOutcome, HandlerOutcome, AccountsInv
  <2> QED
    BY <1>4, <2>1, <2>2 DEF sh_write
<1>5. CASE sh_read(argv, left)
  <2>1. CASE Answer(left)
    BY <2>1, AnswerOutcome
  <2>2. CASE Dies("heap") \/ Dies("out of memory") \/ (mounted = "none" /\ Dies("ramdisk"))
    BY <2>2, DiesOutcome DEF Exhaustion
  <2>3. ASSUME NEW grow \in {0, 1}, CanTake(left, grow),
               blocks' = blocks + grow, pages' = left - grow, HandlerReturns,
               UNCHANGED <<procs, early>>
        PROVE  CommandOutcome(left)
    BY <2>3, ReturnOutcome DEF CommandOutcome, HandlerOutcome, AccountsInv, CanTake
  <2> QED
    BY <1>5, <2>1, <2>2, <2>3 DEF sh_read
<1>6. CASE sh_execbg(argv, left)
  <2>1. CASE Answer(left)
    BY <2>1, AnswerOutcome
  <2>2. CASE Dies("out of memory") \/ (mounted = "none" /\ Dies("ramdisk"))
    BY <2>2, DiesOutcome DEF Exhaustion
  <2>3. ASSUME CanTake(left, 1), procs' = procs + 1, pages' = left - 1,
               early' = (early \/ ~Initialized), HandlerReturns,
               UNCHANGED <<files, blocks, held>>
        PROVE  CommandOutcome(left)
    <3>1. early => early'
      BY <2>3, Zenon
    <3>2. /\ pages' \in Nat /\ blocks' \in Nat /\ procs' \in Nat
          /\ pages' + blocks' + procs' = left + blocks + procs
      BY <2>3 DEF AccountsInv, CanTake
    <3> QED
      BY <2>3, <3>1, <3>2, ReturnOutcome DEF CommandOutcome, HandlerOutcome
  <2> QED
    BY <1>6, <2>1, <2>2, <2>3 DEF sh_execbg
<1> QED
  BY <1>1, <1>2, <1>3, <1>4, <1>5, <1>6 DEF shell_execute_command

\* The page of standard input.
InputPage == IF stdin_ready THEN 1 ELSE 0

\* What a handler takes from pmem it adds to what it holds.
LEMMA HandlerBalance ==
  ASSUME NEW rest \in Int, total \in Nat, orphans \in Nat,
         pages \in Nat, blocks \in Nat, procs \in Nat, InputPage \in Int,
         pages' \in Nat, blocks' \in Nat, procs' \in Nat, InputPage' \in Int,
         total - pages = rest + InputPage + blocks + procs + orphans,
         pages' + blocks' + procs' + InputPage' = pages + blocks + procs + InputPage
  PROVE  total - pages' = rest + InputPage' + blocks' + procs' + orphans
<1> DEFINE Same(x, y, z, j) == x + y + z + j = pages + blocks + procs + InputPage
           Balance(x, y, z, j) == total - x = rest + j + y + z + orphans
<1>1. \A x, y, z, j \in Int : Same(x, y, z, j) => Balance(x, y, z, j)
  OBVIOUS
<1>2. Same(pages', blocks', procs', InputPage')
  OBVIOUS
<1>3. pages' \in Int /\ blocks' \in Int /\ procs' \in Int
  OBVIOUS
<1> HIDE DEF Same, Balance
<1>4. Balance(pages', blocks', procs', InputPage')
  BY <1>1, <1>2, <1>3, Zenon
<1> QED
  BY <1>4 DEF Balance

\* Handlers run at every stage with interrupts on, and leave what the boot code
\* has set up as it is: what was prepared stays prepared, and no page is lost.
LEMMA HandlerKeeps ==
  ASSUME KernelInv, ints, UNCHANGED <<stage, boot_panic, boot, mounted>>,
         HandlerOutcome, early => early',
         pages' \in Nat, blocks' \in Nat, procs' \in Nat,
         Returns => pages' + blocks' + procs' + InputPage'
                      = pages + blocks + procs + InputPage,
         total = 0 => ~stdin_ready' /\ blocks' = 0 /\ procs' = 0
  PROVE  KernelInv'
<1>1. dead = "none" /\ stage \notin IntsOff
  BY DEF KernelInv, PreparedInv
<1>2. UNCHANGED <<idt, pic_base, unmasked, total, orphans, tss, directory, tables,
                  base_ptr, paging>>
  BY DEF boot, vm
<1>3. ints' \in BOOLEAN /\ (dead' # "none" => ~ints')
  BY <1>1 DEF HandlerOutcome, Returns, Stops, KernelInv, PreparedInv
<1>4. OnlyExhaustionStops'
  <2> SUFFICES ASSUME InUserMode
               PROVE  dead' \in {"none", "out of memory", "heap", "tick overflow",
                                "overrun"} \cup (IF early' THEN {"scheduler"} ELSE {})
    BY DEF OnlyExhaustionStops, InUserMode
  <2>1. mounted # "none"
    BY DEF KernelInv, PreparedInv, InUserMode, FinalDisk
  <2> QED
    BY <1>1, <2>1 DEF HandlerOutcome, Returns, Stops, Exhaustion
<1>5. PreparedInv'
  BY <1>2, <1>3, <1>4 DEF KernelInv, PreparedInv, InUserMode
<1>6. PagingInv'
  BY <1>2 DEF KernelInv, PagingInv, TablesBuilt
<1>7. PagesAccounted'
  <2> SUFFICES ASSUME total > 0, boot_panic = "none", dead' = "none"
               PROVE  PagesAccounted'
    BY <1>2 DEF PagesAccounted
  <2>1. Returns
    BY DEF HandlerOutcome, Stops, Exhaustion
  <2> DEFINE rest == 1 + (IF base_ptr THEN 1 ELSE 0)
                       + Cardinality({d \in DOMAIN directory : directory[d] # 0})
                       + (IF mounted = "none" THEN 0
                          ELSE IF stage = "ramdisk tests end" THEN TestPages
                          ELSE DiskPages)
                       + (IF stage \in {"shell", "user mode"} \/ InUserMode
                          THEN 1 ELSE 0)
  <2>2. rest' = rest
    BY <1>2 DEF InUserMode
  <2>3. total - pages = rest + InputPage + blocks + procs + orphans
    BY <1>1 DEF KernelInv, AccountsInv, PagesAccounted, InputPage
  <2>4. rest \in Int
    <3> DEFINE S == {d \in DOMAIN directory : directory[d] # 0}
    <3>1. IsFiniteSet(S)
      <4>1. DOMAIN directory = Tables
        BY DEF KernelInv, PagingInv
      <4>2. IsFiniteSet(Tables)
        BY PagingAssumption, FS_Interval DEF Tables
      <4> QED
        BY <4>1, <4>2, FS_Subset
    <3>2. Cardinality(S) \in Nat
      BY <3>1, FS_CardinalityType
    <3>3. TestPages \in Nat /\ DiskPages \in Nat
      BY KernelAssumption
    <3> DEFINE c == Cardinality(S)
    <3> HIDE DEF S
    <3>4. c \in Nat
      BY <3>2
    <3> HIDE DEF c
    <3> DEFINE x == IF base_ptr THEN 1 ELSE 0
               y == IF mounted = "none" THEN 0
                    ELSE IF stage = "ramdisk tests end" THEN TestPages ELSE DiskPages
               z == IF stage \in {"shell", "user mode"} \/ InUserMode THEN 1 ELSE 0
    <3>5. x \in Int /\ y \in Int /\ z \in Int
      BY <3>3
    <3>6. rest = 1 + x + c + y + z
      BY DEF c, S
    <3> HIDE DEF rest, x, y, z
    <3> QED
      BY <3>4, <3>5, <3>6
  <2> HIDE DEF rest
  <2>5. InputPage \in Int /\ InputPage' \in Int
    BY DEF InputPage
  <2>6. total - pages' = rest + InputPage' + blocks' + procs' + orphans
    <3>1. /\ total \in Nat /\ pages \in Nat /\ blocks \in Nat
          /\ procs \in Nat /\ orphans \in Nat
      BY DEF KernelInv, AccountsInv
    <3>2. pages' + blocks' + procs' + InputPage' = pages + blocks + procs + InputPage
      BY <2>1
    <3> QED
      BY <2>3, <2>4, <2>5, <3>1, <3>2, HandlerBalance
  <2>7. total' - pages' = rest' + InputPage' + blocks' + procs' + orphans'
    BY <1>2, <2>2, <2>6
  <2> QED
    BY <2>7 DEF PagesAccounted, InputPage, rest
<1>8. AccountsInv'
  BY <1>2, <1>7 DEF KernelInv, AccountsInv
<1> QED
  BY <1>5, <1>6, <1>8 DEF KernelInv

\* The timer interrupt: its vector is the timer's whenever it can arrive.
LEMMA TimerStep == KernelInv /\ timer_interrupt => KernelInv'
<1> SUFFICES ASSUME KernelInv, timer_interrupt PROVE KernelInv'
  OBVIOUS
<1>1. /\ ints
      /\ UNCHANGED <<stage, boot_panic, boot, pages, blocks, procs, stdin_ready,
                     mounted, early>>
  BY DEF timer_interrupt, Deliverable, shell
<1>2. pic_base + TIMER_IRQ \in idt /\ Dispatch(pic_base + TIMER_IRQ) = "timer"
  <2>1. pic_base = 32 /\ idt = _setup_idt
    BY <1>1 DEF KernelInv, PreparedInv, IntsOff
  <2>2. _setup_idt = 0 .. 51
    BY DEF _setup_idt, INTERRUPT_COUNT
  <2> QED
    BY <2>1, <2>2 DEF TIMER_IRQ, Dispatch
<1>3. HandlerOutcome
  BY <1>2, ReturnOutcome
     DEF timer_interrupt, HandlerOutcome, HandlerDies, Stops, Exhaustion
<1> QED
  BY <1>1, <1>3, HandlerKeeps DEF InputPage, KernelInv, AccountsInv

\* The keyboard interrupt, with whatever command the key ends.
LEMMA KeyboardStep == KernelInv /\ keyboard_interrupt => KernelInv'
<1> SUFFICES ASSUME KernelInv, keyboard_interrupt PROVE KernelInv'
  OBVIOUS
<1>1. ints /\ dead = "none" /\ UNCHANGED <<stage, boot_panic, boot, mounted>>
  BY DEF keyboard_interrupt, Deliverable, KernelInv, PreparedInv
<1>2. AccountsInv /\ pages \in Nat
  BY DEF KernelInv, AccountsInv
<1> DEFINE need == IF stdin_ready THEN 0 ELSE 1
<1>3. CASE Answer(pages) /\ UNCHANGED <<stdin_ready, line>>
  <2>1. CommandOutcome(pages)
    BY <1>2, <1>3, AnswerOutcome
  <2>2. UNCHANGED <<blocks, procs>>
    BY <1>3 DEF Answer
  <2> QED
    BY <1>1, <1>2, <1>3, <2>1, <2>2, HandlerKeeps
       DEF CommandOutcome, InputPage, AccountsInv
<1>4. CASE total # 0 /\ Dies("out of memory") /\ UNCHANGED <<stdin_ready, line>>
  <2>1. CommandOutcome(pages)
    BY <1>1, <1>2, <1>4, DiesOutcome DEF Exhaustion
  <2> QED
    BY <1>1, <1>2, <1>4, <2>1, HandlerKeeps DEF CommandOutcome, InputPage, AccountsInv
<1>5. ASSUME total # 0, CanTake(pages, need), stdin_ready',
             shell_update(scan_to_ascii(port), pages - need)
      PROVE  KernelInv'
  <2>1. pages - need \in Nat
    BY <1>2, <1>5 DEF CanTake
  <2>2. CommandOutcome(pages - need)
    <3> HIDE DEF need
    <3>1. CASE Dies("overrun")
      BY <1>1, <1>2, <2>1, <3>1, DiesOutcome DEF Exhaustion
    <3>2. CASE Answer(pages - need)
      BY <1>2, <2>1, <3>2, AnswerOutcome
    <3>3. CASE shell_execute_command(pages - need)
      BY <1>1, <1>2, <2>1, <3>3, ShellOutcome
    <3> QED
      BY <1>5, <3>1, <3>2, <3>3 DEF shell_update
  <2>3. InputPage' = 1 /\ InputPage = 1 - need
    BY <1>5 DEF InputPage
  <2>4. Returns => pages' + blocks' + procs' + InputPage'
                     = pages + blocks + procs + InputPage
    <3>1. /\ pages \in Nat /\ blocks \in Nat /\ procs \in Nat
          /\ pages' \in Nat /\ blocks' \in Nat /\ procs' \in Nat /\ need \in Nat
      BY <1>2, <2>2 DEF CommandOutcome, AccountsInv
    <3>2. Returns => pages' + blocks' + procs' = (pages - need) + blocks + procs
      BY <2>2 DEF CommandOutcome
    <3> DEFINE Before(x, y, z) == x + y + z = (pages - need) + blocks + procs
               After(x, y, z) == x + y + z + 1 = pages + blocks + procs + (1 - need)
    <3> HIDE DEF need
    <3>3. \A x, y, z \in Nat : Before(x, y, z) => After(x, y, z)
      BY <3>1
    <3>4. Returns => Before(pages', blocks', procs')
      BY <3>2
    <3> HIDE DEF Before, After
    <3>5. Returns => After(pages', blocks', procs')
      BY <3>1, <3>3, <3>4, Zenon
    <3> QED
      BY <2>3, <3>5 DEF After
  <2> QED
    BY <1>1, <1>5, <2>2, <2>4, HandlerKeeps DEF CommandOutcome
<1> QED
  BY <1>3, <1>4, <1>5 DEF keyboard_interrupt
-----------------------------------------------------------------------------
(* The accounts of the boot code. *)

\* The terms of PagesAccounted.
DirTerm == IF base_ptr THEN 1 ELSE 0
TableTerm == Cardinality({d \in DOMAIN directory : directory[d] # 0})
DiskTerm == IF mounted = "none" THEN 0
            ELSE IF stage = "ramdisk tests end" THEN TestPages ELSE DiskPages
IdleTerm == IF stage \in WithIdle THEN 1 ELSE 0
Alive == total > 0 /\ boot_panic = "none" /\ dead = "none"

\* The terms are numbers.
LEMMA TermTypes ==
  ASSUME KernelInv
  PROVE  /\ DirTerm \in Int /\ TableTerm \in Int /\ DiskTerm \in Int
         /\ IdleTerm \in Int /\ InputPage \in Int
         /\ total \in Int /\ pages \in Int /\ blocks \in Int /\ procs \in Int
         /\ orphans \in Int
<1> DEFINE S == {d \in DOMAIN directory : directory[d] # 0}
<1>1. IsFiniteSet(Tables) /\ DOMAIN directory = Tables
  BY PagingAssumption, FS_Interval DEF Tables, KernelInv, PagingInv
<1>2. IsFiniteSet(S)
  BY <1>1, FS_Subset
<1>3. TableTerm \in Int
  BY <1>2, FS_CardinalityType DEF TableTerm
<1>4. TestPages \in Int /\ DiskPages \in Int
  BY KernelAssumption
<1>5. DiskTerm \in Int
  BY <1>4 DEF DiskTerm
<1>6. DirTerm \in Int /\ IdleTerm \in Int /\ InputPage \in Int
  BY DEF DirTerm, IdleTerm, InputPage
<1>7. /\ total \in Int /\ pages \in Int /\ blocks \in Int /\ procs \in Int
      /\ orphans \in Int
  BY DEF KernelInv, AccountsInv
<1> QED
  BY <1>3, <1>5, <1>6, <1>7

\* The pages gone, as the sum of the terms.
Balanced(gone, dir, tab, disk, idle, input, heap, progs, lost) ==
  gone = 1 + dir + tab + disk + idle + input + heap + progs + lost

\* PagesAccounted in these terms.
LEMMA Accounted ==
  ASSUME PagesAccounted, Alive
  PROVE  Balanced(total - pages, DirTerm, TableTerm, DiskTerm, IdleTerm,
                  InputPage, blocks, procs, orphans)
  BY DEF PagesAccounted, Alive, DirTerm, TableTerm, DiskTerm, IdleTerm, InputPage,
         WithIdle, InUserMode, Balanced

\* After a step it is enough to know the terms.
LEMMA AccountedNext ==
  ASSUME Alive' => Balanced(total' - pages', DirTerm', TableTerm', DiskTerm',
                            IdleTerm', InputPage', blocks', procs', orphans')
  PROVE  PagesAccounted'
  BY DEF PagesAccounted, Alive, DirTerm, TableTerm, DiskTerm, IdleTerm, InputPage,
         WithIdle, InUserMode, Balanced

\* The phases of the boot that the accounts distinguish.
SamePhase ==
  /\ stage' \in NoPmem <=> stage \in NoPmem
  /\ stage' \in TestDisk <=> stage \in TestDisk
  /\ stage' \in FinalDisk <=> stage \in FinalDisk
  /\ stage' \in WithIdle <=> stage \in WithIdle
  /\ stage' = "ramdisk tests end" <=> stage = "ramdisk tests end"

\* A step of the boot code that takes no page, and fills no table.
LEMMA QuietAccounts ==
  ASSUME KernelInv, SamePhase, boot_panic = "none", dead = "none",
         UNCHANGED <<directory, base_ptr, total, pages, mounted,
                     stdin_ready, blocks, procs, orphans>>
  PROVE  AccountsInv'
<1>1. UNCHANGED <<directory, base_ptr, total, pages, mounted,
                  stdin_ready, blocks, procs, orphans>>
  OBVIOUS
<1>2. /\ DirTerm' = DirTerm /\ TableTerm' = TableTerm /\ DiskTerm' = DiskTerm
      /\ IdleTerm' = IdleTerm /\ InputPage' = InputPage
  <2>1. DirTerm' = DirTerm /\ TableTerm' = TableTerm /\ InputPage' = InputPage
    BY <1>1 DEF DirTerm, TableTerm, InputPage
  <2>2. DiskTerm' = DiskTerm
    BY <1>1 DEF SamePhase, DiskTerm
  <2>3. IdleTerm' = IdleTerm
    BY DEF SamePhase, IdleTerm
  <2> QED
    BY <2>1, <2>2, <2>3
<1>3. PagesAccounted'
  <2>1. Alive' => Alive
    BY <1>1 DEF Alive
  <2>2. PagesAccounted
    BY DEF KernelInv, AccountsInv
  <2>3. /\ total' - pages' = total - pages
        /\ blocks' = blocks /\ procs' = procs /\ orphans' = orphans
    BY <1>1
  <2>4. Alive' => Balanced(total - pages, DirTerm, TableTerm, DiskTerm, IdleTerm,
                           InputPage, blocks, procs, orphans)
    BY <2>1, <2>2, Accounted
  <2>5. Alive' => Balanced(total' - pages', DirTerm', TableTerm', DiskTerm',
                           IdleTerm', InputPage', blocks', procs', orphans')
    BY <1>2, <2>3, <2>4
  <2> QED
    BY <2>5, AccountedNext
<1>4. AccountsInv'
  <2>1. /\ total' \in Nat /\ pages' \in Nat
        /\ blocks' \in Nat /\ procs' \in Nat /\ orphans' \in Nat
    BY <1>1 DEF KernelInv, AccountsInv
  <2>2. total' = 0 => ~stdin_ready' /\ blocks' = 0 /\ procs' = 0
    BY <1>1 DEF KernelInv, AccountsInv
  <2>3. stage' \in NoPmem => /\ total' = 0 /\ ~base_ptr'
                             /\ mounted' = "none" /\ orphans' = 0
                             /\ \A d \in Tables : directory'[d] = 0
    <3>1. stage \in NoPmem => /\ total = 0 /\ ~base_ptr
                              /\ mounted = "none" /\ orphans = 0
                              /\ \A d \in Tables : directory[d] = 0
      BY DEF KernelInv, AccountsInv
    <3>2. stage' \in NoPmem => stage \in NoPmem
      BY DEF SamePhase
    <3> QED
      BY <1>1, <3>1, <3>2
  <2>4. /\ stage' \in TestDisk => mounted' = "test"
        /\ stage' \notin TestDisk \cup FinalDisk => mounted' = "none"
        /\ stage' \notin WithIdle => orphans' = 0
    <3>1. /\ stage \in TestDisk => mounted = "test"
          /\ stage \notin TestDisk \cup FinalDisk => mounted = "none"
          /\ stage \notin WithIdle => orphans = 0
      BY DEF KernelInv, AccountsInv
    <3>2. /\ stage' \in TestDisk <=> stage \in TestDisk
          /\ stage' \in FinalDisk <=> stage \in FinalDisk
          /\ stage' \in WithIdle <=> stage \in WithIdle
      BY DEF SamePhase
    <3> QED
      BY <1>1, <3>1, <3>2
  <2> QED
    BY <1>3, <2>1, <2>2, <2>3, <2>4 DEF AccountsInv
<1> QED
  BY <1>4

\* Such a step that leaves the page tables alone.
LEMMA QuietStep ==
  ASSUME KernelInv, PreparedInv', SamePhase,
         boot_panic = "none", dead = "none",
         UNCHANGED <<total, pages, vm, mounted, stdin_ready, blocks, procs, orphans>>
  PROVE  KernelInv'
<1>1. UNCHANGED <<directory, tables, base_ptr, paging>>
  BY DEF vm
<1>2. PagingInv'
  BY <1>1 DEF KernelInv, PagingInv, TablesBuilt
<1>3. AccountsInv'
  BY <1>1, QuietAccounts
<1> QED
  BY <1>2, <1>3 DEF KernelInv
-----------------------------------------------------------------------------
(* The steps of the boot code. *)

\* A panic in the boot code changes nothing but boot_panic.
LEMMA BootPanicStep ==
  ASSUME KernelInv, NEW call, At(call), NEW why, BootPanics(why), Handlers
  PROVE  KernelInv'
<1>1. /\ boot_panic = "none" /\ dead = "none"
      /\ UNCHANGED <<stage, dead, ints, idt, pic_base, unmasked, total, orphans, tss,
                     vm, pages, mounted, procs, stdin_ready, blocks, early>>
  BY DEF At, BootPanics, Handlers, boot
<1>2. PreparedInv'
  BY <1>1 DEF KernelInv, PreparedInv, OnlyExhaustionStops, InUserMode
<1> QED
  BY <1>1, <1>2, QuietStep DEF SamePhase

\* The calls up to pit_run_tests: the IDT, the PIC, the interrupt flag.
LEMMA InterruptSetup ==
  ASSUME KernelInv,
         \/ check_magic \/ serial_init \/ load_and_enable_interrupts
         \/ test_run_idt \/ pic_remap \/ pic_set_interrupt_masks \/ pit_run_tests
  PROVE  KernelInv'
<1> USE DEF boot
<1>1. CASE check_magic \/ serial_init \/ pit_run_tests
  <2>1. PICK call \in {"magic", "serial", "pit"} : At(call) /\ Handlers
    BY <1>1 DEF check_magic, serial_init, pit_run_tests
  <2>2. CASE \E why \in {"magic number", "serial connection", "no timer interrupt"} :
               BootPanics(why)
    BY <2>1, <2>2, BootPanicStep
  <2>3. CASE /\ <<stage, stage'>> \in {<<"magic", "serial">>, <<"serial", "idt">>,
                                      <<"pit", "pmem">>}
             /\ UNCHANGED <<boot_panic, dead, ints, boot, pages, files, mounted, procs>>
    <3>1. PreparedInv'
      BY <2>1, <2>3 DEF At, Handlers, KernelInv, PreparedInv, OnlyExhaustionStops,
                        InUserMode, Stages, NoPmem, IntsOff, FinalDisk
    <3>2. SamePhase
      BY <2>3 DEF SamePhase, NoPmem, IntsOff, TestDisk, FinalDisk, WithIdle
    <3> QED
      BY <2>1, <2>3, <3>1, <3>2, QuietStep DEF At, Handlers
  <2> QED
    BY <1>1, <2>2, <2>3 DEF check_magic, serial_init, pit_run_tests, At
<1>2. CASE load_and_enable_interrupts
  <2>1. /\ stage = "idt" /\ stage' = "int 1" /\ idt' = _setup_idt
        /\ dead = "none" /\ boot_panic = "none"
        /\ UNCHANGED <<boot_panic, dead, ints, pic_base, unmasked, total, orphans, tss,
                       vm, pages, mounted, procs, stdin_ready, blocks, early>>
    BY <1>2 DEF load_and_enable_interrupts, At, Handlers
  <2>2. PreparedInv'
    BY <2>1 DEF KernelInv, PreparedInv, OnlyExhaustionStops,
                InUserMode, Stages, NoPmem, IntsOff, FinalDisk
  <2>3. SamePhase
    BY <2>1 DEF SamePhase, NoPmem, IntsOff, TestDisk, FinalDisk, WithIdle
  <2> QED
    BY <2>1, <2>2, <2>3, QuietStep
<1>3. CASE test_run_idt
  <2>1. /\ <<stage, stage'>> \in {<<"int 1", "int 3">>, <<"int 3", "pic">>}
        /\ dead = "none" /\ boot_panic = "none"
        /\ UNCHANGED <<boot_panic, idt, pic_base, unmasked, total, orphans, tss,
                       vm, pages, mounted, procs, stdin_ready, blocks, early>>
    BY <1>3 DEF test_run_idt, At, Handlers
  <2>2. ints' = FALSE
    <3>1. ints = FALSE
      BY <2>1 DEF KernelInv, PreparedInv, IntsOff
    <3>2. ints' = ints \/ ints' = FALSE
      BY <1>3, ReturnOutcome DEF test_run_idt, SoftInt, HandlerDies, Returns, Stops
    <3> QED
      BY <3>1, <3>2
  <2>3. PreparedInv'
    BY <2>1, <2>2 DEF KernelInv, PreparedInv, OnlyExhaustionStops,
                InUserMode, Stages, NoPmem, IntsOff, FinalDisk
  <2>4. SamePhase
    BY <2>1 DEF SamePhase, NoPmem, IntsOff, TestDisk, FinalDisk, WithIdle
  <2> QED
    BY <2>1, <2>3, <2>4, QuietStep
<1>4. CASE pic_remap
  <2>1. /\ stage = "pic" /\ stage' = "masks" /\ pic_base' = 32
        /\ dead = "none" /\ boot_panic = "none"
        /\ UNCHANGED <<boot_panic, dead, ints, idt, total, orphans, tss,
                       vm, pages, mounted, procs, stdin_ready, blocks, early>>
    BY <1>4 DEF pic_remap, At, Handlers
  <2>2. PreparedInv'
    BY <2>1 DEF KernelInv, PreparedInv, OnlyExhaustionStops,
                InUserMode, Stages, NoPmem, IntsOff, FinalDisk
  <2>3. SamePhase
    BY <2>1 DEF SamePhase, NoPmem, IntsOff, TestDisk, FinalDisk, WithIdle
  <2> QED
    BY <2>1, <2>2, <2>3, QuietStep
<1>5. CASE pic_set_interrupt_masks
  <2>1. /\ stage = "masks" /\ stage' = "pit" /\ ints' = TRUE
        /\ unmasked' = {TIMER_IRQ, KEYBOARD_IRQ}
        /\ dead = "none" /\ boot_panic = "none"
        /\ UNCHANGED <<boot_panic, dead, idt, pic_base, total, orphans, tss,
                       vm, pages, mounted, procs, stdin_ready, blocks, early>>
    BY <1>5 DEF pic_set_interrupt_masks, At, Handlers
  <2>2. PreparedInv'
    BY <2>1 DEF KernelInv, PreparedInv, OnlyExhaustionStops,
                InUserMode, Stages, NoPmem, IntsOff, FinalDisk
  <2>3. SamePhase
    BY <2>1 DEF SamePhase, NoPmem, IntsOff, TestDisk, FinalDisk, WithIdle
  <2> QED
    BY <2>1, <2>2, <2>3, QuietStep
<1> QED
  BY <1>1, <1>2, <1>3, <1>4, <1>5

\* One term grows by the pages taken.
LEMMA BalanceShift ==
  ASSUME NEW g \in Int, NEW a \in Int, NEW b \in Int, NEW c \in Int, NEW d \in Int,
         NEW e \in Int, NEW f \in Int, NEW h \in Int, NEW i \in Int, NEW k \in Int,
         Balanced(g, a, b, c, d, e, f, h, i)
  PROVE  /\ Balanced(g + k, a + k, b, c, d, e, f, h, i)
         /\ Balanced(g + k, a, b + k, c, d, e, f, h, i)
         /\ Balanced(g + k, a, b, c + k, d, e, f, h, i)
         /\ i = 0 => Balanced(g + k, a, b, c, d + k, e, f, 0, h)
  BY DEF Balanced

\* y is n more than x.
Grown(x, n, y) == y = x + n

\* Arithmetic of n pages taken from p of t.
LEMMA PagesTaken ==
  ASSUME NEW t \in Nat, NEW p \in Nat, NEW n \in Nat
  PROVE  /\ t - p \in Int /\ n \in Int
         /\ Grown(t - p, n, t - (p - n)) /\ 0 + n = n
         /\ p >= n => p - n \in Nat
  BY DEF Grown

\* Arithmetic of n pages given back, to p of t; k is -n.
GivenBack(t, p, n, k) == Grown(t - p, k, t - (p + n)) /\ n + k = 0 /\ p + n \in Nat

\* There is such a k.
LEMMA PagesReturned ==
  ASSUME NEW t \in Nat, NEW p \in Nat, NEW n \in Nat
  PROVE  \E k \in Int : GivenBack(t, p, n, k)
<1>1. -n \in Int /\ t - (p + n) = (t - p) + (-n) /\ n + (-n) = 0 /\ p + n \in Nat
  OBVIOUS
<1>2. GivenBack(t, p, n, -n)
  BY <1>1 DEF GivenBack, Grown
<1> QED
  BY <1>1, <1>2

\* Small numbers.
LEMMA SmallNumbers == 0 \in Nat /\ 1 \in Nat
  OBVIOUS

\* Before a step of a running boot the pages are in balance.
LEMMA BootBalance ==
  ASSUME KernelInv, boot_panic = "none", dead = "none", stage \notin NoPmem
  PROVE  total > 0 =>
           Balanced(total - pages, DirTerm, TableTerm, DiskTerm, IdleTerm,
                    InputPage, blocks, procs, orphans)
  BY Accounted DEF Alive, KernelInv, AccountsInv

\* ramdisk_init, in the self tests and for the shell.
LEMMA DiskUpStep ==
  ASSUME NEW n \in Nat, NEW next, NEW kind, NEW names,
         KernelInv /\ DiskUp(n, next, kind, names),
         At("ramdisk tests") \/ At("fat16 tests") \/ At("fat16"),
         \/ next = "ramdisk tests end" /\ kind = "test" /\ n = TestPages
         \/ next = "fat16 tests end" /\ kind = "test" /\ n = DiskPages
         \/ next = "tss" /\ kind = "final" /\ n = DiskPages
  PROVE  KernelInv'
<1>1. /\ stage \in {"ramdisk tests", "fat16 tests", "fat16"}
      /\ boot_panic = "none" /\ dead = "none" /\ mounted = "none"
      /\ UNCHANGED <<dead, ints, idt, pic_base, unmasked, total, orphans, tss,
                     directory, tables, base_ptr, paging, procs,
                     stdin_ready, blocks, early>>
  BY DEF At, DiskUp, Handlers, boot, vm, KernelInv, AccountsInv, TestDisk, FinalDisk
<1>2. PagingInv'
  BY <1>1 DEF KernelInv, PagingInv, TablesBuilt
<1>3. stage \notin NoPmem
  BY <1>1 DEF NoPmem, IntsOff
<1>4. /\ total \in Nat /\ pages \in Nat /\ blocks \in Nat /\ procs \in Nat
      /\ orphans = 0
      /\ total = 0 => ~stdin_ready /\ blocks = 0 /\ procs = 0
  BY <1>1 DEF KernelInv, AccountsInv, WithIdle
<1>5. CASE /\ pages >= n /\ pages' = pages - n /\ mounted' = kind /\ stage' = next
           /\ UNCHANGED boot_panic
  <2>1. PreparedInv'
    BY <1>1, <1>5 DEF KernelInv, PreparedInv, OnlyExhaustionStops, InUserMode,
       Stages, NoPmem, IntsOff, FinalDisk, TestDisk
  <2>2. /\ DirTerm' = DirTerm /\ TableTerm' = TableTerm /\ InputPage' = InputPage
        /\ DiskTerm = 0 /\ DiskTerm' = DiskTerm + n /\ IdleTerm' = IdleTerm
    <3>1. DirTerm' = DirTerm /\ TableTerm' = TableTerm /\ InputPage' = InputPage
      BY <1>1 DEF DirTerm, TableTerm, InputPage
    <3>2. DiskTerm = 0 /\ DiskTerm' = n
      BY <1>1, <1>5 DEF DiskTerm
    <3>3. IdleTerm' = IdleTerm
      BY <1>1, <1>5 DEF IdleTerm, WithIdle
    <3>4. DiskTerm + n = n
      BY <1>4, <3>2, PagesTaken, Zenon
    <3> QED
      BY <3>1, <3>2, <3>3, <3>4
  <2>3. total' - pages' = (total - pages) + n
    <3>1. Grown(total - pages, n, total - (pages - n))
      BY <1>4, PagesTaken, Zenon
    <3> QED
      BY <1>1, <1>5, <3>1 DEF Grown
  <2>4. total > 0 => Balanced((total - pages) + n, DirTerm, TableTerm, DiskTerm + n,
                              IdleTerm, InputPage, blocks, procs, orphans)
    <3>1. total - pages \in Int /\ n \in Int
      BY <1>4, PagesTaken, Zenon
    <3>2. total > 0 => Balanced(total - pages, DirTerm, TableTerm, DiskTerm, IdleTerm,
                                InputPage, blocks, procs, orphans)
      BY <1>1, <1>3, BootBalance
    <3> QED
      BY <3>1, <3>2, TermTypes, BalanceShift
  <2>5. PagesAccounted'
    BY <1>1, <2>2, <2>3, <2>4, AccountedNext DEF Alive
  <2>6. pages' \in Nat
    <3>1. pages - n \in Nat
      BY <1>4, <1>5, PagesTaken, Zenon
    <3> QED
      BY <1>5, <3>1
  <2>7. stage' \notin NoPmem /\ stage' \notin WithIdle
        /\ (stage' \in TestDisk => mounted' = "test") /\ stage' \in TestDisk \cup FinalDisk
    BY <1>5 DEF NoPmem, IntsOff, TestDisk, FinalDisk, WithIdle
  <2> QED
    BY <1>1, <1>2, <1>4, <2>1, <2>5, <2>6, <2>7 DEF KernelInv, AccountsInv
<1>6. CASE /\ pages' \in {0, 1} /\ mounted' = "test" /\ boot_panic' = "out of memory"
           /\ UNCHANGED stage
  <2>1. PreparedInv'
    BY <1>1, <1>6 DEF KernelInv, PreparedInv, OnlyExhaustionStops, InUserMode,
       FinalDisk
  <2>2. PagesAccounted'
    BY <1>6 DEF PagesAccounted
  <2>3. pages' \in Nat /\ stage' \notin NoPmem /\ boot_panic' # "none"
    BY <1>3, <1>6, SmallNumbers, Zenon
  <2> QED
    BY <1>1, <1>2, <1>4, <2>1, <2>2, <2>3 DEF KernelInv, AccountsInv
<1> QED
  BY <1>5, <1>6 DEF DiskUp, CanTake

\* ramdisk_destroy gives back every page that ramdisk_init took.
LEMMA DiskDownStep ==
  ASSUME KernelInv, NEW from, At(from), NEW n \in Nat, NEW next, DiskDown(n, next),
         \/ from = "ramdisk tests end" /\ next = "fat16 tests" /\ n = TestPages
         \/ from = "fat16 tests end" /\ next = "fat16" /\ n = DiskPages
  PROVE  KernelInv'
<1>1. CASE \E why \in {"self test"} : BootPanics(why)
  BY <1>1, BootPanicStep DEF DiskDown
<1>2. CASE /\ mounted' = "none" /\ pages' = pages + n /\ stage' = next
           /\ UNCHANGED <<boot_panic, dead, ints, boot, procs>>
  <2>1. /\ stage = from /\ boot_panic = "none" /\ dead = "none" /\ mounted = "test"
        /\ UNCHANGED <<dead, ints, idt, pic_base, unmasked, total, orphans, tss,
                       directory, tables, base_ptr, paging, procs, boot_panic,
                       stdin_ready, blocks, early>>
    BY <1>2 DEF At, DiskDown, Handlers, boot, vm, KernelInv, AccountsInv, TestDisk
  <2>2. PagingInv'
    BY <2>1 DEF KernelInv, PagingInv, TablesBuilt
  <2>3. stage \notin NoPmem
    BY <2>1 DEF NoPmem, IntsOff
  <2>4. /\ total \in Nat /\ pages \in Nat /\ blocks \in Nat /\ procs \in Nat
        /\ orphans = 0
        /\ total = 0 => ~stdin_ready /\ blocks = 0 /\ procs = 0
    BY <2>1 DEF KernelInv, AccountsInv, WithIdle
  <2>5. PreparedInv'
    BY <1>2, <2>1 DEF KernelInv, PreparedInv, OnlyExhaustionStops, InUserMode,
       Stages, NoPmem, IntsOff, FinalDisk, TestDisk
  <2>6. PICK k \in Int : GivenBack(total, pages, n, k)
    BY <2>4, PagesReturned, Zenon
  <2>7. /\ DirTerm' = DirTerm /\ TableTerm' = TableTerm /\ InputPage' = InputPage
        /\ DiskTerm' = DiskTerm + k /\ IdleTerm' = IdleTerm
    <3>1. DirTerm' = DirTerm /\ TableTerm' = TableTerm /\ InputPage' = InputPage
      BY <2>1 DEF DirTerm, TableTerm, InputPage
    <3>2. DiskTerm = n /\ DiskTerm' = 0
      BY <1>2, <2>1 DEF DiskTerm
    <3>3. IdleTerm' = IdleTerm
      BY <1>2, <2>1 DEF IdleTerm, WithIdle
    <3>4. DiskTerm + k = 0
      BY <2>6, <3>2, Zenon DEF GivenBack
    <3> QED
      BY <3>1, <3>2, <3>3, <3>4
  <2>8. total > 0 => Balanced((total - pages) + k, DirTerm, TableTerm, DiskTerm + k,
                              IdleTerm, InputPage, blocks, procs, orphans)
    <3>1. total - pages \in Int
      BY <2>4, PagesTaken, Zenon
    <3>2. total > 0 => Balanced(total - pages, DirTerm, TableTerm, DiskTerm, IdleTerm,
                                InputPage, blocks, procs, orphans)
      BY <2>1, <2>3, BootBalance
    <3> QED
      BY <3>1, <3>2, TermTypes, BalanceShift
  <2>9. PagesAccounted'
    <3>1. total' - pages' = (total - pages) + k
      BY <1>2, <2>1, <2>6 DEF GivenBack, Grown
    <3> QED
      BY <2>1, <2>7, <2>8, <3>1, AccountedNext DEF Alive
  <2>10. pages' \in Nat
    BY <1>2, <2>6 DEF GivenBack
  <2>11. stage' \notin NoPmem /\ stage' \notin TestDisk \cup FinalDisk
    BY <1>2 DEF NoPmem, IntsOff, TestDisk, FinalDisk
  <2> QED
    BY <1>2, <2>1, <2>2, <2>4, <2>5, <2>9, <2>10, <2>11 DEF KernelInv, AccountsInv
<1> QED
  BY <1>1, <1>2 DEF DiskDown

\* pmem_initialize: the page of standard output is the only one gone.
LEMMA PmemStep == KernelInv /\ pmem_initialize => KernelInv'
<1> SUFFICES ASSUME KernelInv, pmem_initialize PROVE KernelInv'
  OBVIOUS
<1> USE DEF boot
<1>1. At("pmem") /\ Handlers
  BY DEF pmem_initialize
<1>2. CASE BootPanics("out of memory")
  BY <1>1, <1>2, BootPanicStep
<1>3. ASSUME NEW n \in MemoryPages, CanTake(n, 1), total' = n, pages' = n - 1,
             stage' = "vmem",
             UNCHANGED <<boot_panic, dead, ints, idt, pic_base, unmasked, orphans,
                         tss, vm, files, mounted, procs>>
      PROVE  KernelInv'
  <2>1. /\ stage = "pmem" /\ boot_panic = "none" /\ dead = "none"
        /\ UNCHANGED <<directory, tables, base_ptr, paging, stdin_ready, blocks, early>>
    BY <1>1, <1>3 DEF At, Handlers, vm
  <2>2. PreparedInv'
    BY <1>3, <2>1 DEF KernelInv, PreparedInv, OnlyExhaustionStops, InUserMode,
       Stages, NoPmem, IntsOff, FinalDisk
  <2>3. PagingInv'
    BY <2>1 DEF KernelInv, PagingInv, TablesBuilt
  <2>4. /\ ~base_ptr /\ mounted = "none" /\ orphans = 0 /\ blocks = 0 /\ procs = 0
        /\ ~stdin_ready /\ (\A d \in Tables : directory[d] = 0)
        /\ DOMAIN directory = Tables
    BY <2>1 DEF KernelInv, AccountsInv, PagingInv, NoPmem
  <2>5. n \in Nat /\ n - 1 \in Nat /\ n - (n - 1) = 1
    BY <1>3, KernelAssumption DEF CanTake
  <2>6. /\ DirTerm' = 0 /\ TableTerm' = 0 /\ DiskTerm' = 0 /\ IdleTerm' = 0
        /\ InputPage' = 0
    <3>1. {d \in DOMAIN directory : directory[d] # 0} = {}
      BY <2>4
    <3>2. TableTerm' = 0
      BY <2>1, <3>1, FS_EmptySet DEF TableTerm
    <3> QED
      BY <1>3, <2>1, <2>4, <3>2 DEF DirTerm, DiskTerm, IdleTerm, InputPage, WithIdle
  <2>7. PagesAccounted'
    <3>1. total' - pages' = 1
      BY <1>3, <2>5
    <3>2. blocks' = 0 /\ procs' = 0 /\ orphans' = 0
      BY <1>3, <2>1, <2>4
    <3>3. Balanced(1, 0, 0, 0, 0, 0, 0, 0, 0)
      BY DEF Balanced
    <3> QED
      BY <2>6, <3>1, <3>2, <3>3, AccountedNext
  <2>8. stage' \notin NoPmem \cup TestDisk \cup FinalDisk \cup WithIdle
    BY <1>3 DEF NoPmem, IntsOff, TestDisk, FinalDisk, WithIdle
  <2>9. AccountsInv'
    BY <1>3, <2>1, <2>4, <2>5, <2>7, <2>8 DEF AccountsInv
  <2> QED
    BY <2>2, <2>3, <2>9 DEF KernelInv
<1> QED
  BY <1>2, <1>3 DEF pmem_initialize

\* vmem_init: every page taken is that of the directory or of a table, and a
\* table is filled before it counts.
LEMMA VmemStep == KernelInv /\ vmem_init => KernelInv'
<1> SUFFICES ASSUME KernelInv, vmem_init PROVE KernelInv'
  OBVIOUS
<1> USE DEF boot
<1>1. /\ stage = "vmem" /\ boot_panic = "none" /\ dead = "none"
      /\ UNCHANGED <<dead, ints, idt, pic_base, unmasked, total, orphans, tss,
                     mounted, procs, stdin_ready, blocks, early>>
  BY DEF vmem_init, At, Handlers
<1>2. /\ total \in Nat /\ pages \in Nat /\ blocks \in Nat /\ procs \in Nat
      /\ orphans = 0 /\ mounted = "none"
      /\ total = 0 => ~stdin_ready /\ blocks = 0 /\ procs = 0
  BY <1>1 DEF KernelInv, AccountsInv, WithIdle, TestDisk, FinalDisk
<1>3. directory \in [Tables -> {0, FLAGS}] /\ DOMAIN tables = Tables
  BY DEF KernelInv, PagingInv
<1>4. stage \notin NoPmem \cup TestDisk \cup FinalDisk \cup WithIdle
  BY <1>1 DEF NoPmem, IntsOff, TestDisk, FinalDisk, WithIdle
<1>5. UNCHANGED stage /\ UNCHANGED boot_panic => PreparedInv'
  BY <1>1 DEF KernelInv, PreparedInv, OnlyExhaustionStops, InUserMode
<1>6. ASSUME CanTake(pages, 1), pages' = pages - 1, UNCHANGED <<stage, boot_panic>>,
             \/ DirTerm' = DirTerm + 1 /\ TableTerm' = TableTerm
             \/ DirTerm' = DirTerm /\ TableTerm' = TableTerm + 1
      PROVE  AccountsInv'
  <2>1. /\ pages - 1 \in Nat /\ total - pages \in Int /\ 1 \in Int
        /\ total - (pages - 1) = (total - pages) + 1
    BY <1>2, <1>6 DEF CanTake
  <2>2. /\ DiskTerm' = DiskTerm /\ IdleTerm' = IdleTerm /\ InputPage' = InputPage
    BY <1>1, <1>6 DEF DiskTerm, IdleTerm, InputPage
  <2>3. total > 0 =>
          /\ Balanced((total - pages) + 1, DirTerm + 1, TableTerm, DiskTerm, IdleTerm,
                      InputPage, blocks, procs, orphans)
          /\ Balanced((total - pages) + 1, DirTerm, TableTerm + 1, DiskTerm, IdleTerm,
                      InputPage, blocks, procs, orphans)
    <3>1. total > 0 => Balanced(total - pages, DirTerm, TableTerm, DiskTerm, IdleTerm,
                                InputPage, blocks, procs, orphans)
      BY <1>1, <1>4, BootBalance
    <3> QED
      BY <2>1, <3>1, TermTypes, BalanceShift
  <2>4. PagesAccounted'
    <3>1. total' - pages' = (total - pages) + 1
      BY <1>1, <1>6, <2>1
    <3> QED
      BY <1>1, <1>6, <2>2, <2>3, <3>1, AccountedNext DEF Alive
  <2> QED
    BY <1>1, <1>2, <1>4, <1>6, <2>1, <2>4 DEF AccountsInv
<1>7. ASSUME CanTake(pages, 1), NewDirectory, pages' = pages - 1,
             UNCHANGED <<stage, boot_panic>>
      PROVE  KernelInv'
  <2>1. base_ptr = FALSE /\ base_ptr' = TRUE /\ UNCHANGED <<directory, tables, paging>>
    BY <1>7 DEF NewDirectory
  <2>2. DirTerm' = DirTerm + 1 /\ TableTerm' = TableTerm
    BY <2>1 DEF DirTerm, TableTerm
  <2>3. PagingInv'
    BY <2>1 DEF KernelInv, PagingInv, TablesBuilt
  <2> QED
    BY <1>5, <1>6, <1>7, <2>2, <2>3 DEF KernelInv
<1>8. ASSUME NEW d \in DOMAIN directory, CanTake(pages, 1), NewTable(d),
             pages' = pages - 1, UNCHANGED <<stage, boot_panic>>
      PROVE  KernelInv'
  <2> DEFINE S == {e \in DOMAIN directory : directory[e] # 0}
             filled == [t \in 0 .. TableEntries - 1 |-> IdentityEntry(d, t)]
  <2>1. /\ d \in Tables /\ directory[d] = 0
        /\ directory' = [directory EXCEPT ![d] = FLAGS]
        /\ tables' = [tables EXCEPT ![d] = filled]
        /\ UNCHANGED <<base_ptr, paging>>
    BY <1>3, <1>8 DEF NewTable
  <2>2. FLAGS # 0
    BY DEF FLAGS
  <2>3. S' = S \cup {d} /\ d \notin S
    BY <1>3, <2>1, <2>2
  <2>4. TableTerm' = TableTerm + 1 /\ DirTerm' = DirTerm
    <3>1. IsFiniteSet(Tables)
      BY PagingAssumption, FS_Interval DEF Tables
    <3>2. IsFiniteSet(S)
      BY <1>3, <3>1, FS_Subset
    <3> HIDE DEF S
    <3>3. Cardinality(S \cup {d}) = Cardinality(S) + 1
      BY <2>3, <3>2, FS_AddElement
    <3>4. TableTerm = Cardinality(S) /\ TableTerm' = Cardinality(S')
      BY DEF TableTerm, S
    <3> QED
      BY <2>1, <2>3, <3>3, <3>4 DEF DirTerm
  <2>5. PagingInv'
    <3>1. ~paging
      BY <1>3, <2>1 DEF KernelInv, PagingInv, TablesBuilt
    <3>2. directory' \in [Tables -> {0, FLAGS}] /\ DOMAIN tables' = Tables
      BY <1>3, <2>1
    <3>3. \A e \in Tables : directory'[e] # 0 =>
            tables'[e] = [t \in 0 .. TableEntries - 1 |-> IdentityEntry(e, t)]
      <4> TAKE e \in Tables
      <4>1. CASE e = d
        BY <1>3, <2>1, <4>1
      <4>2. CASE e # d
        BY <1>3, <2>1, <4>2 DEF KernelInv, PagingInv
      <4> QED
        BY <4>1, <4>2
    <3> QED
      BY <2>1, <3>1, <3>2, <3>3 DEF PagingInv
  <2> QED
    BY <1>5, <1>6, <1>8, <2>4, <2>5 DEF KernelInv
<1>9. CASE vmem_enable_page_dir /\ stage' = "vmem tests" /\ UNCHANGED <<pages, boot_panic>>
  <2>1. TablesBuilt /\ UNCHANGED <<directory, tables, base_ptr>>
    BY <1>9 DEF vmem_enable_page_dir
  <2>2. PagingInv'
    BY <2>1 DEF KernelInv, PagingInv, TablesBuilt
  <2>3. PreparedInv'
    BY <1>1, <1>9 DEF KernelInv, PreparedInv, OnlyExhaustionStops, InUserMode,
       Stages, NoPmem, IntsOff, FinalDisk
  <2>4. SamePhase
    BY <1>1, <1>9 DEF SamePhase, NoPmem, IntsOff, TestDisk, FinalDisk, WithIdle
  <2>5. AccountsInv'
    BY <1>1, <1>9, <2>1, <2>4, QuietAccounts
  <2> QED
    BY <2>2, <2>3, <2>5 DEF KernelInv
<1>10. CASE boot_panic' = "out of memory" /\ UNCHANGED <<stage, vm, pages>>
  BY <1>10, BootPanicStep DEF vmem_init, BootPanics
<1> QED
  BY <1>7, <1>8, <1>9, <1>10 DEF vmem_init

\* The self tests and the disk of the shell.
LEMMA DiskSteps ==
  ASSUME KernelInv, vmem_run_tests \/ ramdisk_run_tests \/ ramdisk_fat16_run_tests
                      \/ mount_ramdisk
  PROVE  KernelInv'
<1>1. TestPages \in Nat /\ DiskPages \in Nat
  BY KernelAssumption
<1>2. CASE vmem_run_tests
  <2>1. At("vmem tests") /\ Handlers
    BY <1>2 DEF vmem_run_tests
  <2>2. CASE BootPanics("failed address lookup")
    BY <2>1, <2>2, BootPanicStep
  <2>3. CASE /\ stage' = "ramdisk tests"
             /\ UNCHANGED <<boot_panic, dead, ints, boot, pages, files, mounted, procs>>
    <3>1. PreparedInv'
      BY <2>1, <2>3 DEF At, Handlers, boot, KernelInv, PreparedInv,
         OnlyExhaustionStops, InUserMode, Stages, NoPmem, IntsOff, FinalDisk
    <3>2. SamePhase
      BY <2>1, <2>3 DEF At, SamePhase, NoPmem, IntsOff, TestDisk, FinalDisk, WithIdle
    <3> QED
      BY <2>1, <2>3, <3>1, <3>2, QuietStep DEF At, Handlers, boot
  <2> QED
    BY <1>2, <2>2, <2>3 DEF vmem_run_tests
<1>3. CASE ramdisk_run_tests
  BY <1>1, <1>3, DiskUpStep, DiskDownStep DEF ramdisk_run_tests
<1>4. CASE ramdisk_fat16_run_tests
  BY <1>1, <1>4, DiskUpStep, DiskDownStep DEF ramdisk_fat16_run_tests
<1>5. CASE mount_ramdisk
  BY <1>1, <1>5, DiskUpStep DEF mount_ramdisk
<1> QED
  BY <1>2, <1>3, <1>4, <1>5

\* process_init: the page of the idle process, and the programs it forgets.
LEMMA ProcessStep == KernelInv /\ process_init => KernelInv'
<1> SUFFICES ASSUME KernelInv, process_init PROVE KernelInv'
  OBVIOUS
<1>1. /\ stage = "process" /\ boot_panic = "none" /\ dead = "none"
      /\ procs' = 0 /\ orphans' = procs
      /\ UNCHANGED <<dead, ints, idt, pic_base, unmasked, total, tss, directory, tables,
                     base_ptr, paging, mounted, stdin_ready, blocks, early>>
  BY DEF process_init, At, Handlers, vm
<1>2. /\ total \in Nat /\ pages \in Nat /\ blocks \in Nat /\ procs \in Nat
      /\ orphans = 0 /\ mounted = "final"
      /\ total = 0 => ~stdin_ready /\ blocks = 0 /\ procs = 0
  BY <1>1 DEF KernelInv, AccountsInv, PreparedInv, WithIdle, FinalDisk
<1>3. stage \notin NoPmem
  BY <1>1 DEF NoPmem, IntsOff
<1>4. PagingInv'
  BY <1>1 DEF KernelInv, PagingInv, TablesBuilt
<1>5. CASE CanTake(pages, 1) /\ pages' = pages - 1 /\ stage' = "shell"
           /\ UNCHANGED boot_panic
  <2>1. PreparedInv'
    BY <1>1, <1>5 DEF KernelInv, PreparedInv, OnlyExhaustionStops, InUserMode,
       Stages, NoPmem, IntsOff, FinalDisk
  <2>2. /\ pages - 1 \in Nat /\ total - pages \in Int /\ 1 \in Int
        /\ total - (pages - 1) = (total - pages) + 1
    BY <1>2, <1>5 DEF CanTake
  <2>3. /\ DirTerm' = DirTerm /\ TableTerm' = TableTerm /\ DiskTerm' = DiskTerm
        /\ IdleTerm' = IdleTerm + 1 /\ InputPage' = InputPage
    <3>1. DirTerm' = DirTerm /\ TableTerm' = TableTerm /\ InputPage' = InputPage
      BY <1>1 DEF DirTerm, TableTerm, InputPage
    <3>2. DiskTerm' = DiskTerm
      BY <1>1, <1>5 DEF DiskTerm
    <3>3. IdleTerm = 0 /\ IdleTerm' = 1
      BY <1>1, <1>5 DEF IdleTerm, WithIdle
    <3>4. 0 + 1 = 1
      BY SMT
    <3> QED
      BY <3>1, <3>2, <3>3, <3>4
  <2>4. total > 0 => Balanced((total - pages) + 1, DirTerm, TableTerm, DiskTerm,
                              IdleTerm + 1, InputPage, blocks, 0, procs)
    <3>1. total > 0 => Balanced(total - pages, DirTerm, TableTerm, DiskTerm, IdleTerm,
                                InputPage, blocks, procs, orphans)
      BY <1>1, <1>3, BootBalance
    <3> QED
      BY <1>2, <2>2, <3>1, TermTypes, BalanceShift
  <2>5. PagesAccounted'
    <3>1. total' - pages' = (total - pages) + 1
      BY <1>1, <1>5, <2>2
    <3> QED
      BY <1>1, <2>3, <2>4, <3>1, AccountedNext DEF Alive
  <2>6. stage' \notin NoPmem /\ stage' \notin TestDisk /\ stage' \in FinalDisk
        /\ stage' \in WithIdle
    BY <1>5 DEF NoPmem, IntsOff, TestDisk, FinalDisk, WithIdle
  <2>7. AccountsInv'
    BY <1>1, <1>2, <1>5, <2>2, <2>5, <2>6, SmallNumbers DEF AccountsInv
  <2> QED
    BY <1>4, <2>1, <2>7 DEF KernelInv
<1>6. CASE boot_panic' = "out of memory" /\ UNCHANGED <<pages, stage>>
  <2>1. PreparedInv'
    BY <1>1, <1>6 DEF KernelInv, PreparedInv, OnlyExhaustionStops, InUserMode
  <2>2. AccountsInv'
    BY <1>1, <1>2, <1>3, <1>6, SmallNumbers DEF AccountsInv, PagesAccounted
  <2> QED
    BY <1>4, <2>1, <2>2 DEF KernelInv
<1> QED
  BY <1>5, <1>6 DEF process_init

\* The vector of int 0x33.
LEMMA SystemCallVector == 51 \in _setup_idt /\ Dispatch(51) = "system call"
<1>1. _setup_idt = 0 .. 51
  BY DEF _setup_idt, INTERRUPT_COUNT
<1>2. Dispatch(51) = "system call"
  BY DEF Dispatch
<1>3. 51 \in _setup_idt
  <2>1. 51 \in 0 .. 51
    OBVIOUS
  <2> QED
    BY <1>1, <2>1, Zenon
<1> QED
  BY <1>2, <1>3

\* load_tss, shell_init, the switch to user mode and the system call there.
LEMMA UserModeSteps ==
  ASSUME KernelInv, load_tss \/ shell_init \/ _enter_usermode \/ system_call
  PROVE  KernelInv'
<1>1. PICK call \in {"tss", "shell", "user mode", "system call"} :
        At(call) /\ Handlers
  BY DEF load_tss, shell_init, _enter_usermode, system_call
<1>2. CASE load_tss
  <2>1. stage = "tss" /\ stage' = "process" /\ dead = "none" /\ boot_panic = "none"
        /\ UNCHANGED <<boot_panic, dead, ints, idt, pic_base, unmasked, total, orphans,
                       vm, pages, mounted, procs, stdin_ready, blocks, early>>
    BY <1>2 DEF load_tss, At, Handlers
  <2>2. PreparedInv'
    BY <2>1 DEF KernelInv, PreparedInv, OnlyExhaustionStops,
                InUserMode, Stages, NoPmem, IntsOff, FinalDisk
  <2>3. SamePhase
    BY <2>1 DEF SamePhase, NoPmem, IntsOff, TestDisk, FinalDisk, WithIdle
  <2> QED
    BY <2>1, <2>2, <2>3, QuietStep
<1>3. CASE shell_init
  <2>1. stage = "shell" /\ stage' = "user mode" /\ dead = "none" /\ boot_panic = "none"
        /\ UNCHANGED <<boot_panic, dead, ints, idt, pic_base, unmasked, total, orphans,
                       tss, vm, pages, mounted, procs, stdin_ready, blocks, early>>
    BY <1>3 DEF shell_init, At, Handlers, boot
  <2>2. PreparedInv'
    BY <2>1 DEF KernelInv, PreparedInv, OnlyExhaustionStops,
                InUserMode, Stages, NoPmem, IntsOff, FinalDisk
  <2>3. SamePhase
    BY <2>1 DEF SamePhase, NoPmem, IntsOff, TestDisk, FinalDisk, WithIdle
  <2> QED
    BY <2>1, <2>2, <2>3, QuietStep
<1>4. CASE _enter_usermode
  <2>1. stage = "user mode" /\ stage' = "system call" /\ dead = "none"
        /\ boot_panic = "none" /\ tss' = "stack" /\ ints' = TRUE
        /\ UNCHANGED <<boot_panic, dead, idt, pic_base, unmasked, total, orphans,
                       vm, pages, mounted, procs, stdin_ready, blocks, early>>
    BY <1>4 DEF _enter_usermode, At, Handlers
  <2>2. PreparedInv'
    BY <2>1 DEF KernelInv, PreparedInv, OnlyExhaustionStops,
                InUserMode, Stages, NoPmem, IntsOff, FinalDisk
  <2>3. SamePhase
    BY <2>1 DEF SamePhase, NoPmem, IntsOff, TestDisk, FinalDisk, WithIdle
  <2> QED
    BY <2>1, <2>2, <2>3, QuietStep
<1>5. CASE system_call
  <2>1. stage = "system call" /\ stage' = "loop" /\ dead = "none"
        /\ boot_panic = "none"
        /\ UNCHANGED <<boot_panic, idt, pic_base, unmasked, total, orphans, tss,
                       vm, pages, mounted, procs, stdin_ready, blocks, early>>
    BY <1>5 DEF system_call, At, Handlers, boot
  <2>2. HandlerReturns
    <3>1. idt = _setup_idt
      BY <2>1 DEF KernelInv, PreparedInv
    <3> QED
      BY <1>5, <3>1, SystemCallVector DEF system_call, SoftInt
  <2>3. Returns \/ (early /\ Stops({"scheduler"}))
    BY <2>2, ReturnOutcome
  <2>4. /\ ints' \in BOOLEAN
        /\ dead' # "none" => ~ints'
        /\ dead' = "none" \/ (early /\ dead' = "scheduler")
    BY <2>1, <2>3 DEF Returns, Stops, KernelInv, PreparedInv
  <2>5. OnlyExhaustionStops'
    BY <2>1, <2>4 DEF OnlyExhaustionStops
  <2>6. PreparedInv'
    BY <2>1, <2>4, <2>5 DEF KernelInv, PreparedInv, InUserMode, Stages, NoPmem,
       IntsOff, FinalDisk
  <2>7. SamePhase
    BY <2>1 DEF SamePhase, NoPmem, IntsOff, TestDisk, FinalDisk, WithIdle
  <2> QED
    BY <2>1, <2>6, <2>7, QuietStep
<1> QED
  BY <1>2, <1>3, <1>4, <1>5

\* At power-on nothing is set up and interrupts are off.
LEMMA InitKernelInv == Init => KernelInv
<1> SUFFICES ASSUME Init PROVE KernelInv
  OBVIOUS
<1>1. PreparedInv
  BY DEF Init, PreparedInv, OnlyExhaustionStops, InUserMode, Stages, NoPmem, IntsOff,
         FinalDisk
<1>2. PagingInv
  BY DEF Init, VmemInit, PagingInv, Tables, TablesBuilt
<1>3. AccountsInv
  <2>1. total = 0 /\ ~(total > 0)
    BY DEF Init
  <2>2. PagesAccounted
    BY <2>1 DEF PagesAccounted
  <2>3. stage = "magic" /\ \A d \in Tables : directory[d] = 0
    BY DEF Init, VmemInit, Tables
  <2> QED
    BY <2>2, <2>3, SmallNumbers DEF Init, VmemInit, AccountsInv, TestDisk, FinalDisk,
       WithIdle
<1> QED
  BY <1>1, <1>2, <1>3 DEF KernelInv

\* A step that changes nothing the invariant is about.
LEMMA SameState ==
  ASSUME KernelInv,
         UNCHANGED <<stage, boot_panic, dead, ints, idt, pic_base, unmasked, total,
                     orphans, tss, directory, tables, base_ptr, paging, pages, mounted,
                     procs, stdin_ready, blocks, early>>
  PROVE  KernelInv'
<1>1. OnlyExhaustionStops'
  BY DEF KernelInv, PreparedInv, OnlyExhaustionStops, InUserMode
<1>2. PreparedInv'
  BY <1>1 DEF KernelInv, PreparedInv, InUserMode
<1>3. PagingInv'
  BY DEF KernelInv, PagingInv, TablesBuilt
<1>4. PagesAccounted'
  BY DEF KernelInv, AccountsInv, PagesAccounted, InUserMode
<1>5. AccountsInv'
  BY <1>4 DEF KernelInv, AccountsInv
<1> QED
  BY <1>2, <1>3, <1>5 DEF KernelInv

\* Every step of the boot code, of a handler or of the user keeps the invariant.
LEMMA NextKernelInv == KernelInv /\ [Next]_vars => KernelInv'
<1> SUFFICES ASSUME KernelInv, [Next]_vars PROVE KernelInv'
  OBVIOUS
<1>1. CASE BootStep
  BY <1>1, InterruptSetup, PmemStep, VmemStep, DiskSteps, ProcessStep, UserModeSteps
     DEF BootStep
<1>2. CASE timer_interrupt
  BY <1>2, TimerStep
<1>3. CASE keyboard_interrupt
  BY <1>3, KeyboardStep
<1>4. ASSUME NEW key, KeyPress(key) PROVE KernelInv'
  BY <1>4, SameState DEF KeyPress, shell, boot, vm
<1>5. CASE UNCHANGED vars
  BY <1>5, SameState DEF vars, shell, boot, vm
<1> QED
  BY <1>1, <1>2, <1>3, <1>4, <1>5 DEF Next, Spins

\* The invariant holds of the kernel.
LEMMA SpecKernelInv == Spec => []KernelInv
  BY InitKernelInv, NextKernelInv, PTL DEF Spec
-----------------------------------------------------------------------------
(* Results. *)

\* Whenever interrupts are enabled, each IRQ the PIC lets through has a handler
\* of its own, and user mode has a kernel stack in the TSS: _setup_idt,
\* pic_remap, pic_set_interrupt_masks and _enter_usermode come in the right
\* order, whatever interrupts come between them.
THEOREM KernelInterruptsPrepared == Spec => []InterruptsPrepared
<1>1. KernelInv => InterruptsPrepared
  <2> SUFFICES ASSUME KernelInv, ints PROVE InterruptsPrepared
    BY DEF InterruptsPrepared
  <2>1. /\ idt = _setup_idt /\ pic_base = 32 /\ unmasked = {TIMER_IRQ, KEYBOARD_IRQ}
        /\ InUserMode => tss = "stack"
    BY DEF KernelInv, PreparedInv, IntsOff
  <2>2. _setup_idt = 0 .. 51
    BY DEF _setup_idt, INTERRUPT_COUNT
  <2>3. /\ 32 + TIMER_IRQ = 32 /\ 32 + KEYBOARD_IRQ = 33
        /\ 32 \in 0 .. 51 /\ 33 \in 0 .. 51
    BY DEF TIMER_IRQ, KEYBOARD_IRQ
  <2>4. Dispatch(32) = "timer" /\ Dispatch(33) = "keyboard"
    BY DEF Dispatch
  <2>5. ASSUME NEW n \in unmasked
        PROVE  pic_base + n \in idt /\ Dispatch(pic_base + n) \in {"timer", "keyboard"}
    <3>1. n = TIMER_IRQ \/ n = KEYBOARD_IRQ
      BY <2>1, <2>5
    <3>2. pic_base + n = 32 \/ pic_base + n = 33
      BY <2>1, <2>3, <3>1
    <3> QED
      BY <2>1, <2>2, <2>3, <2>4, <3>2
  <2> QED
    BY <2>1, <2>5 DEF InterruptsPrepared
<1> QED
  BY <1>1, SpecKernelInv, PTL

\* In user mode only an exhausted resource stops the kernel: every command of
\* the shell finds a mounted disk and an initialized scheduler, unless a program
\* was started during the boot.
THEOREM KernelOnlyExhaustionStops == Spec => []OnlyExhaustionStops
<1>1. KernelInv => OnlyExhaustionStops
  BY DEF KernelInv, PreparedInv
<1> QED
  BY <1>1, SpecKernelInv, PTL

\* vmem_init has entered and filled every table before paging is enabled, and
\* the entries translate every address to itself: the shifts and masks of
\* vmem_get_phys_addr undo those of vmem_init, for every geometry of the tables.
THEOREM KernelIdentityMapped == Spec => []IdentityMapped
<1>1. KernelInv => IdentityMapped
  <2> SUFFICES ASSUME KernelInv, paging, NEW v \in Address
               PROVE  vmem_get_phys_addr(v) = v
    BY DEF IdentityMapped
  <2> QED
    BY TablesAreIdentity DEF KernelInv, PagingInv
<1> QED
  BY <1>1, SpecKernelInv, PTL

\* No page is lost or counted twice, from pmem_initialize to user mode, for any
\* interleaving of the boot code with the commands that take pages: the self
\* tests give back what they took.
THEOREM KernelPagesAccounted == Spec => []PagesAccounted
<1>1. KernelInv => PagesAccounted
  BY DEF KernelInv, AccountsInv
<1> QED
  BY <1>1, SpecKernelInv, PTL
-----------------------------------------------------------------------------
(* The arguments of the command line. *)

\* A set of natural numbers has a least one,
LEMMA LeastOf ==
  ASSUME NEW S \in SUBSET Nat, S # {}
  PROVE  \E m \in S : \A x \in S : m <= x
<1>1. PICK n \in S : \A k \in S : ~(<<k, n>> \in OpToRel(<, Nat))
  BY WFMin, NatLessThanWellFounded
<1>2. \A k \in S : ~(k < n)
  BY <1>1 DEF OpToRel
<1>3. \A k \in S : n <= k
  BY <1>2
<1> QED
  BY <1>3

\* which is Min,
LEMMA MinOf ==
  ASSUME NEW S \in SUBSET Nat, S # {}
  PROVE  Min(S) \in S /\ \A x \in S : Min(S) <= x
BY LeastOf DEF Min

\* the only one of them that is below all.
LEMMA MinIs ==
  ASSUME NEW S \in SUBSET Nat, NEW m \in S, \A x \in S : m <= x
  PROVE  Min(S) = m
<1>1. Min(S) \in S /\ Min(S) <= m
  BY MinOf
<1>2. m <= Min(S) /\ m \in Nat /\ Min(S) \in Nat
  BY <1>1
<1> QED
  BY <1>1, <1>2

\* f lists the n numbers of S in ascending order.
Lists(f, n, S) ==
  /\ f = [k \in 1 .. n |-> f[k]]
  /\ \A k \in 1 .. n : f[k] \in S
  /\ \A k, l \in 1 .. n : k < l => f[k] < f[l]
  /\ \A x \in S : \E k \in 1 .. n : f[k] = x

\* That is what Ascending does.
LEMMA AscendingLists ==
  ASSUME NEW S \in SUBSET Nat, IsFiniteSet(S)
  PROVE  Cardinality(S) \in Nat /\ Lists(Ascending(S), Cardinality(S), S)
<1> DEFINE n == Cardinality(S)
           Below(i) == {j \in S : j < i}
           rank == [i \in S |-> Cardinality(Below(i))]
<1>1. n \in Nat
  BY FS_CardinalityType
<1>2. ASSUME NEW i \in S
      PROVE  /\ IsFiniteSet(Below(i)) /\ Cardinality(Below(i)) \in Nat
             /\ Cardinality(Below(i)) < n
  <2>1. Below(i) \in SUBSET S /\ i \notin Below(i) /\ Below(i) # S
    OBVIOUS
  <2> HIDE DEF Below
  <2>2. IsFiniteSet(Below(i)) /\ Cardinality(Below(i)) <= n /\ n # Cardinality(Below(i))
    BY <2>1, FS_Subset
  <2>3. Cardinality(Below(i)) \in Nat
    BY <2>2, FS_CardinalityType
  <2> QED
    BY <1>1, <2>2, <2>3
<1>3. ASSUME NEW i \in S, NEW j \in S, i < j
      PROVE  Cardinality(Below(i)) < Cardinality(Below(j))
  <2>1. Below(i) \in SUBSET Below(j) /\ i \in Below(j) /\ i \notin Below(i)
    <3>1. \A x \in S : x \in Nat
      OBVIOUS
    <3>2. \A x \in S : x < i => x < j
      <4> SUFFICES ASSUME NEW x \in S, x < i PROVE x < j
        OBVIOUS
      <4>1. x \in Nat /\ i \in Nat /\ j \in Nat /\ i < j
        BY <3>1, <1>3
      <4> QED
        BY <4>1
    <3>3. i \in Nat /\ ~(i < i)
      OBVIOUS
    <3> QED
      BY <1>3, <3>2, <3>3
  <2>2. IsFiniteSet(Below(j)) /\ Cardinality(Below(j)) \in Nat /\ Cardinality(Below(i)) \in Nat
    BY <1>2
  <2> HIDE DEF Below
  <2>3. Cardinality(Below(i)) <= Cardinality(Below(j)) /\ Cardinality(Below(i)) # Cardinality(Below(j))
    BY <2>1, <2>2, FS_Subset
  <2> QED
    BY <2>2, <2>3
<1>4. rank \in [S -> 0 .. n - 1]
  BY <1>1, <1>2
<1>5. \A i, j \in S : i < j => rank[i] < rank[j]
  BY <1>3
<1>6. \A i \in S : rank[i] = Cardinality(Below(i)) /\ rank[i] \in 0 .. n - 1
  BY <1>4
<1> HIDE DEF rank
<1>7. \A i, j \in S : rank[i] = rank[j] => i = j
  <2> SUFFICES ASSUME NEW i \in S, NEW j \in S, rank[i] = rank[j], i # j PROVE FALSE
    OBVIOUS
  <2>1. i \in Nat /\ j \in Nat
    OBVIOUS
  <2>2. i < j \/ j < i
    BY <2>1
  <2>3. rank[i] < rank[j] \/ rank[j] < rank[i]
    <3>1. i < j => rank[i] < rank[j]
      BY <1>5
    <3>2. j < i => rank[j] < rank[i]
      BY <1>5
    <3> QED
      BY <2>2, <3>1, <3>2
  <2>4. rank[i] \in Int /\ rank[j] \in Int
    <3>1. rank[i] \in 0 .. n - 1 /\ rank[j] \in 0 .. n - 1
      BY <1>6
    <3> HIDE DEF n
    <3> QED
      BY <1>1, <3>1
  <2> QED
    BY <2>3, <2>4
<1>8. rank \in Injection(S, 0 .. n - 1)
  BY <1>4, <1>7 DEF Injection, IsInjective
<1>9. IsFiniteSet(0 .. n - 1) /\ Cardinality(0 .. n - 1) = n
  <2>1. \A k \in Nat : IsFiniteSet(0 .. k - 1) /\ Cardinality(0 .. k - 1) = k
    <3> SUFFICES ASSUME NEW k \in Nat
                 PROVE  IsFiniteSet(0 .. k - 1) /\ Cardinality(0 .. k - 1) = k
      OBVIOUS
    <3>1. 0 \in Int /\ k - 1 \in Int
      OBVIOUS
    <3>2. IsFiniteSet(0 .. k - 1)
             /\ Cardinality(0 .. k - 1) = IF 0 > k - 1 THEN 0 ELSE k - 1 - 0 + 1
      BY ONLY <3>1, FS_Interval
    <3>3. (IF 0 > k - 1 THEN 0 ELSE k - 1 - 0 + 1) = k
      OBVIOUS
    <3> QED
      BY <3>2, <3>3
  <2> HIDE DEF n
  <2> QED
    BY <1>1, <2>1
<1>10. rank \in Surjection(S, 0 .. n - 1)
  BY <1>8, <1>9, FS_Injection
<1>11. \A v \in 0 .. n - 1 : \E i \in S : rank[i] = v
  BY <1>10 DEF Surjection
<1> DEFINE f == Ascending(S)
<1>12. f = [k \in 1 .. n |-> CHOOSE i \in S : Cardinality(Below(i)) = k - 1]
  BY DEF Ascending
<1>13. ASSUME NEW k \in 1 .. n
       PROVE  f[k] \in S /\ rank[f[k]] = k - 1
  <2>1. k - 1 \in 0 .. n - 1
    BY <1>1
  <2>2. \E i \in S : Cardinality(Below(i)) = k - 1
    BY <2>1, <1>11, <1>6
  <2>3. f[k] = CHOOSE i \in S : Cardinality(Below(i)) = k - 1
    BY <1>12
  <2> HIDE DEF f, Below
  <2>4. f[k] \in S /\ Cardinality(Below(f[k])) = k - 1
    BY <2>2, <2>3
  <2> QED
    BY <2>4, <1>6
<1>14. f = [k \in 1 .. n |-> f[k]]
  BY <1>12
<1> HIDE DEF f, n, Below
<1>15. \A k, l \in 1 .. n : k < l => f[k] < f[l]
  <2> SUFFICES ASSUME NEW k \in 1 .. n, NEW l \in 1 .. n, k < l
               PROVE  f[k] < f[l]
    OBVIOUS
  <2>1. f[k] \in S /\ f[l] \in S /\ rank[f[k]] = k - 1 /\ rank[f[l]] = l - 1
    BY <1>13
  <2>2. ~(f[l] < f[k]) /\ f[k] # f[l]
    <3>1. f[l] < f[k] => l - 1 < k - 1
      BY <2>1, <1>5
    <3>2. k - 1 # l - 1 /\ ~(l - 1 < k - 1)
      OBVIOUS
    <3> QED
      BY <2>1, <3>1, <3>2
  <2>3. f[k] \in Nat /\ f[l] \in Nat
    BY <2>1
  <2> QED
    BY <2>2, <2>3
<1>16. \A x \in S : \E k \in 1 .. n : f[k] = x
  <2> SUFFICES ASSUME NEW x \in S PROVE \E k \in 1 .. n : f[k] = x
    OBVIOUS
  <2>1. rank[x] \in 0 .. n - 1
    BY <1>6
  <2> DEFINE k == rank[x] + 1
  <2>2. k \in 1 .. n /\ k - 1 = rank[x]
    BY <2>1, <1>1
  <2> HIDE DEF k
  <2>3. f[k] = x
    BY <1>7, <1>13, <2>2
  <2> QED
    BY <2>2, <2>3
<1> QED
  BY <1>1, <1>13, <1>14, <1>15, <1>16 DEF Lists, f, n

\* There is one way to list a set.
LEMMA ListsOnce ==
  ASSUME NEW S \in SUBSET Nat, NEW n \in Nat, NEW m \in Nat, NEW f, NEW g,
         Lists(f, n, S), Lists(g, m, S)
  PROVE  n = m /\ f = g
<1>0. /\ \A k \in 1 .. n : f[k] \in S /\ f[k] \in Nat
      /\ \A k \in 1 .. m : g[k] \in S /\ g[k] \in Nat
      /\ \A k, l \in 1 .. n : k < l => f[k] < f[l]
      /\ \A k, l \in 1 .. m : k < l => g[k] < g[l]
      /\ \A x \in S : \E k \in 1 .. n : f[k] = x
      /\ \A x \in S : \E k \in 1 .. m : g[k] = x
      /\ f = [k \in 1 .. n |-> f[k]] /\ g = [k \in 1 .. m |-> g[k]]
  BY DEF Lists
<1>1. \A k \in 1 .. n : k \in 1 .. m /\ f[k] = g[k]
  <2> DEFINE D == {k \in 1 .. n : ~(k \in 1 .. m /\ f[k] = g[k])}
  <2> SUFFICES ASSUME D # {} PROVE FALSE
    OBVIOUS
  <2>0. D \in SUBSET Nat
    OBVIOUS
  <2>1. PICK d \in D : \A k \in D : d <= k
    <3> HIDE DEF D
    <3> QED
      BY <2>0, LeastOf
  <2>2. \A k \in 1 .. d - 1 : k \in 1 .. n /\ k \in 1 .. m /\ f[k] = g[k]
    BY <2>1
  <2>3. d \in 1 .. n /\ ~(d \in 1 .. m /\ f[d] = g[d])
    BY <2>1
  <2> HIDE DEF D
  <2>4. PICK j \in 1 .. m : g[j] = f[d]
    BY <1>0, <2>3
  <2>5. j >= d
    <3> SUFFICES ASSUME j < d PROVE FALSE
      BY <2>3
    <3>1. j \in 1 .. d - 1
      BY <2>3
    <3>2. f[j] = f[d] /\ j \in 1 .. n
      BY <3>1, <2>2, <2>4
    <3>3. f[j] < f[d] /\ f[d] \in Nat
      BY <3>2, <2>3, <1>0
    <3> QED
      BY <3>2, <3>3
  <2>6. d \in 1 .. m /\ j > d
    BY <2>3, <2>4, <2>5
  <2>7. g[d] < g[j] /\ g[d] \in S
    BY <2>6, <1>0
  <2>8. PICK i \in 1 .. n : f[i] = g[d]
    BY <2>7, <1>0
  <2>9. i < d
    <3>1. f[i] < f[d] /\ f[i] \in Nat /\ f[d] \in Nat
      BY <2>3, <2>4, <2>7, <2>8, <1>0
    <3>2. ~(d < i) /\ d # i
      BY <3>1, <2>3, <1>0
    <3> QED
      BY <3>2, <2>3
  <2>10. i \in 1 .. d - 1
    BY <2>9, <2>3
  <2>11. g[i] = g[d] /\ i \in 1 .. m
    BY <2>10, <2>2, <2>8
  <2>12. g[i] < g[d] /\ g[d] \in Nat
    BY <2>6, <2>9, <2>11, <1>0
  <2> QED
    BY <2>11, <2>12
<1>2. m <= n
  <2> SUFFICES ASSUME n < m PROVE FALSE
    OBVIOUS
  <2>1. m \in 1 .. m
    OBVIOUS
  <2>2. PICK k \in 1 .. n : f[k] = g[m]
    BY <2>1, <1>0
  <2>3. g[k] = g[m] /\ k < m /\ k \in 1 .. m
    BY <2>2, <1>1
  <2>4. g[k] < g[m] /\ g[m] \in Nat
    BY <2>1, <2>3, <1>0
  <2> QED
    BY <2>3, <2>4
<1>3. n <= m
  <2>1. CASE n = 0
    BY <2>1
  <2>2. CASE n # 0
    <3>1. n \in 1 .. n
      BY <2>2
    <3> QED
      BY <3>1, <1>1
  <2> QED
    BY <2>1, <2>2
<1>4. n = m
  BY <1>2, <1>3
<1> QED
  BY <1>0, <1>1, <1>4

\* The numbers of W that follow one of C with no other of W between.
Heads(W, C) == {x \in W : \E c \in C : c < x /\ \A y \in W : ~(c < y /\ y < x)}

\* The gaps between the numbers e lists that hold one of W.
Full(e, m, W) == {k \in 2 .. m : \E x \in W : e[k - 1] < x /\ x < e[k]}

\* The first of W after a.
FirstAfter(W, a) == Min({x \in W : a < x})

\* It is where one would look for it.
LEMMA FirstOf ==
  ASSUME NEW W \in SUBSET Nat, NEW a \in Nat, NEW x \in W, a < x
  PROVE  /\ FirstAfter(W, a) \in W /\ a < FirstAfter(W, a) /\ FirstAfter(W, a) <= x
         /\ \A y \in W : ~(a < y /\ y < FirstAfter(W, a))
<1> DEFINE S == {y \in W : a < y}
<1>1. S \in SUBSET Nat /\ S # {}
  OBVIOUS
<1> HIDE DEF S
<1>2. Min(S) \in S /\ \A y \in S : Min(S) <= y
  BY <1>1, MinOf
<1>3. FirstAfter(W, a) \in S /\ \A y \in S : FirstAfter(W, a) <= y
  BY <1>2 DEF FirstAfter, S
<1>4. ASSUME NEW y \in W, a < y, y < FirstAfter(W, a) PROVE FALSE
  <2>1. y \in S /\ y \in Nat /\ FirstAfter(W, a) \in Nat
    BY <1>1, <1>3, <1>4 DEF S
  <2> QED
    BY <1>3, <1>4, <2>1
<1>5. x \in S
  BY DEF S
<1> QED
  BY <1>3, <1>4, <1>5 DEF S

\* The first of W in each of the gaps r lists.
FirstsOf(W, e, r, q) == [k \in 1 .. q |-> FirstAfter(W, e[r[k] - 1])]

\* The end of the argument that begins at x.
NextCut(C, x, n) == Min({c \in C : c >= x} \cup {n + 1})

\* g lists Heads, and each of its numbers is in the gap r lists.
GapsOK(g, q, W, C, e, r, n) ==
  /\ Lists(g, q, Heads(W, C))
  /\ \A k \in 1 .. q : NextCut(C, g[k], n) = e[r[k]]

\* The first of W after the gap opens, for every full gap: that is Heads.
LEMMA FullGaps ==
  ASSUME NEW n \in Nat, NEW C \in SUBSET (1 .. n), NEW W \in SUBSET (1 .. n),
         \A x \in W : x \notin C,
         NEW e, NEW m \in Nat, Lists(e, m, C \cup {n + 1}),
         NEW r, NEW q \in Nat, Lists(r, q, Full(e, m, W)),
         NEW g, g = FirstsOf(W, e, r, q)
  PROVE  GapsOK(g, q, W, C, e, r, n)
<1>1. \A k \in 1 .. m : e[k] \in C \cup {n + 1} /\ e[k] \in Nat /\ e[k] <= n + 1
  BY DEF Lists
<1>2. \A k, l \in 1 .. m : k < l => e[k] < e[l]
  BY DEF Lists
<1>3. \A x \in C \cup {n + 1} : \E k \in 1 .. m : e[k] = x
  BY DEF Lists
<1>4. /\ \A k \in 1 .. q : r[k] \in Full(e, m, W)
      /\ \A k, l \in 1 .. q : k < l => r[k] < r[l]
      /\ \A p \in Full(e, m, W) : \E k \in 1 .. q : r[k] = p
  BY DEF Lists
<1>5. \A k \in 1 .. q : g[k] = FirstAfter(W, e[r[k] - 1])
  BY DEF FirstsOf
<1>0. W \in SUBSET Nat /\ C \in SUBSET Nat
  OBVIOUS
<1>6. ASSUME NEW k \in 1 .. q
      PROVE  /\ r[k] \in 2 .. m /\ r[k] \in 1 .. m /\ r[k] - 1 \in 1 .. m
             /\ e[r[k] - 1] \in C /\ e[r[k] - 1] \in Nat /\ e[r[k]] \in Nat
             /\ g[k] \in W /\ g[k] \in Nat
             /\ e[r[k] - 1] < g[k] /\ g[k] < e[r[k]]
             /\ \A y \in W : ~(e[r[k] - 1] < y /\ y < g[k])
  <2> DEFINE p == r[k]
  <2>1. p \in 2 .. m /\ \E x \in W : e[p - 1] < x /\ x < e[p]
    BY <1>4 DEF Full
  <2> HIDE DEF p
  <2>2. PICK x \in W : e[p - 1] < x /\ x < e[p]
    BY <2>1
  <2>3. p \in 1 .. m /\ p - 1 \in 1 .. m /\ p - 1 < p
    BY <2>1
  <2> DEFINE a == e[p - 1]
             b == e[p]
  <2>4. a \in C \cup {n + 1} /\ a \in Nat /\ b \in Nat /\ b <= n + 1 /\ a < b
    BY <1>1, <1>2, <2>3
  <2>5. a < x /\ x < b
    BY <2>2
  <2>6. g[k] = FirstAfter(W, a)
    BY <1>5 DEF p
  <2> HIDE DEF a, b
  <2>7. a \in C
    BY <2>4
  <2>8. g[k] \in W /\ a < g[k] /\ g[k] <= x /\ \A y \in W : ~(a < y /\ y < g[k])
    BY <2>4, <2>5, <2>6, <1>0, FirstOf
  <2>9. g[k] \in Nat /\ x \in Nat
    BY <2>8, <1>0
  <2>10. g[k] < b
    BY <2>4, <2>5, <2>8, <2>9
  <2> QED
    BY <2>1, <2>3, <2>4, <2>7, <2>8, <2>9, <2>10 DEF a, b, p
<1>7. \A k \in 1 .. q : g[k] \in Heads(W, C)
  BY <1>6 DEF Heads
<1>8. ASSUME NEW k \in 1 .. q, NEW l \in 1 .. q, k < l
      PROVE  g[k] < g[l]
  <2>1. r[k] < r[l]
    BY <1>4, <1>8
  <2>2. r[k] \in 1 .. m /\ r[l] - 1 \in 1 .. m /\ r[l] \in Nat
    BY <1>6
  <2>3. r[k] < r[l] - 1 \/ r[k] = r[l] - 1
    BY <2>1, <2>2
  <2>4. e[r[k]] < e[r[l] - 1] \/ e[r[k]] = e[r[l] - 1]
    BY <2>2, <2>3, <1>2
  <2>5. /\ g[k] < e[r[k]] /\ e[r[l] - 1] < g[l]
        /\ g[k] \in Nat /\ g[l] \in Nat /\ e[r[k]] \in Nat /\ e[r[l] - 1] \in Nat
    BY <1>6
  <2> QED
    BY <2>4, <2>5
<1>9. ASSUME NEW x \in Heads(W, C)
      PROVE  \E k \in 1 .. q : g[k] = x
  <2>1. x \in W /\ x \in Nat /\ x <= n
    BY DEF Heads
  <2>2. PICK c \in C : c < x /\ \A y \in W : ~(c < y /\ y < x)
    BY DEF Heads
  <2> DEFINE T == {k \in 1 .. m : x < e[k]}
  <2>3. T \in SUBSET Nat /\ T # {}
    <3>1. PICK k \in 1 .. m : e[k] = n + 1
      BY <1>3
    <3>2. x < e[k]
      BY <2>1, <3>1
    <3> QED
      BY <3>2
  <2>4. PICK p \in T : \A k \in T : p <= k
    <3> HIDE DEF T
    <3> QED
      BY <2>3, LeastOf
  <2>5. p \in 1 .. m /\ x < e[p]
    BY <2>4
  <2>6. PICK j \in 1 .. m : e[j] = c
    BY <1>3
  <2>7. j < p
    <3> SUFFICES ASSUME ~(j < p) PROVE FALSE
      OBVIOUS
    <3>1. p = j \/ p < j
      BY <2>5
    <3>2. e[p] = e[j] \/ e[p] < e[j]
      BY <3>1, <1>2, <2>5
    <3>3. e[p] \in Nat /\ e[j] \in Nat /\ e[j] < x /\ x < e[p]
      BY <2>5, <2>6, <2>2, <1>1
    <3> QED
      BY <3>2, <3>3, <2>1
  <2>8. p \in 2 .. m /\ p - 1 \in 1 .. m /\ (j = p - 1 \/ j < p - 1)
    BY <2>5, <2>7
  <2>9. ~(x < e[p - 1])
    <3>1. p - 1 \notin T
      BY <2>4, <2>5
    <3> QED
      BY <3>1, <2>8
  <2> DEFINE a == e[p - 1]
  <2>10. a \in Nat /\ a \in C \cup {n + 1}
    BY <2>8, <1>1
  <2>11. c <= a
    <3>1. c = a \/ c < a
      BY <2>6, <2>8, <1>2
    <3>2. c \in Nat
      BY <2>2
    <3> QED
      BY <3>1, <3>2, <2>10
  <2>12. ~(x < a)
    BY <2>9
  <2> HIDE DEF a, T
  <2>13. a # x
    BY <2>1, <2>10
  <2>14. a < x
    BY <2>1, <2>10, <2>12, <2>13
  <2>15. p \in Full(e, m, W)
    BY <2>1, <2>5, <2>8, <2>14 DEF Full, a
  <2>16. PICK k \in 1 .. q : r[k] = p
    BY <2>15, <1>4
  <2>17. g[k] = FirstAfter(W, a)
    BY <1>5, <2>16 DEF a
  <2>18. g[k] \in W /\ a < g[k] /\ g[k] <= x
    <3>1. W \in SUBSET Nat /\ a \in Nat /\ x \in W /\ a < x
      BY <2>1, <2>10, <2>14, <1>0
    <3> QED
      BY ONLY <3>1, <2>17, FirstOf
  <2>19. g[k] = x
    <3>1. g[k] \in Nat /\ c \in Nat
      BY <2>18, <2>2, <1>0
    <3>2. c < g[k]
      BY <3>1, <2>10, <2>11, <2>18
    <3>3. ~(g[k] < x)
      BY <3>2, <2>2, <2>18
    <3> QED
      BY <3>1, <3>3, <2>1, <2>18
  <2> QED
    BY <2>19
<1>10. ASSUME NEW k \in 1 .. q
       PROVE  NextCut(C, g[k], n) = e[r[k]]
  <2> DEFINE p == r[k]
             b == e[p]
             M == {c \in C : c >= g[k]} \cup {n + 1}
  <2>1. p \in 1 .. m /\ p - 1 \in 1 .. m /\ e[p - 1] < g[k] /\ g[k] < b
        /\ g[k] \in Nat /\ e[p - 1] \in Nat
    BY <1>6
  <2>2. b \in C \cup {n + 1} /\ b \in Nat /\ b <= n + 1
    BY <1>1, <2>1
  <2>3. M \in SUBSET Nat
    <3>1. n + 1 \in Nat /\ {c \in C : c >= g[k]} \in SUBSET C
      OBVIOUS
    <3> QED
      BY <3>1, <1>0
  <2>4. b \in M
    <3>1. b >= g[k]
      BY <2>1, <2>2
    <3> HIDE DEF b
    <3> QED
      BY <2>2, <3>1
  <2>5. ASSUME NEW c \in M PROVE b <= c
    <3>1. CASE c = n + 1
      BY <3>1, <2>2
    <3>2. CASE c \in C /\ c >= g[k]
      <4>1. PICK j \in 1 .. m : e[j] = c
        BY <3>2, <1>3
      <4>2. ~(j < p - 1) /\ j # p - 1
        <5>1. j < p - 1 => e[j] < e[p - 1]
          BY <2>1, <1>2
        <5>2. e[j] \in Nat /\ e[j] >= g[k]
          BY <3>2, <4>1
        <5> HIDE DEF p
        <5> QED
          BY <5>1, <5>2, <2>1
      <4>3. j = p \/ p < j
        <5> HIDE DEF p
        <5> QED
          BY <4>2, <2>1
      <4>4. e[j] = b \/ b < e[j]
        BY <4>3, <2>1, <1>2
      <4>5. c \in Nat
        BY <3>2
      <4> HIDE DEF b
      <4> QED
        BY <4>1, <4>4, <4>5, <2>2
    <3> QED
      BY <3>1, <3>2
  <2> HIDE DEF M, b
  <2>6. Min(M) = b
    BY <2>3, <2>4, <2>5, MinIs
  <2> QED
    BY <2>6 DEF M, b, NextCut
<1>11. g = [k \in 1 .. q |-> g[k]]
  <2>1. \A k \in 1 .. q : FirstsOf(W, e, r, q)[k] = FirstAfter(W, e[r[k] - 1])
    BY DEF FirstsOf
  <2>2. FirstsOf(W, e, r, q) = [k \in 1 .. q |-> FirstsOf(W, e, r, q)[k]]
    BY <2>1 DEF FirstsOf
  <2> QED
    BY <2>2
<1> QED
  BY <1>7, <1>8, <1>9, <1>10, <1>11 DEF Lists, GapsOK

\* The separators of the text.
CutsOf(text) == {i \in DOMAIN text : Separator(text, i)}

\* The places of the arguments but the first.
Later(starts) == [k \in 1 .. Len(starts) - 1 |-> starts[k + 1]]

\* The state of the loop before the first character.
SplitBegin == [quoted |-> FALSE, fresh |-> FALSE, cuts |-> {}, starts |-> <<1>>]

\* f has the states of the loop for the first n characters.
Splitting(f, text, n) ==
  f = [i \in 0 .. n |->
         IF i = 0 THEN SplitBegin ELSE SplitStep(text, f[i - 1], i)]

\* There is such a function, however long the line.
LEMMA SplittingExists ==
  ASSUME NEW text, NEW n \in Nat
  PROVE  \E f : Splitting(f, text, n)
<1> DEFINE S == {k \in Nat : ~(\E f : Splitting(f, text, k))}
<1> SUFFICES ASSUME S # {} PROVE FALSE
  OBVIOUS
<1>0. S \in SUBSET Nat
  OBVIOUS
<1>1. PICK k \in S : \A j \in S : k <= j
  <2> HIDE DEF S
  <2> QED
    BY <1>0, LeastOf
<1>2. CASE k = 0
  <2> DEFINE g == [j \in 0 .. 0 |-> SplitBegin]
  <2>1. g = [j \in 0 .. 0 |-> IF j = 0 THEN SplitBegin ELSE SplitStep(text, g[j - 1], j)]
    <3>1. \A j \in 0 .. 0 : SplitBegin = IF j = 0 THEN SplitBegin ELSE SplitStep(text, g[j - 1], j)
      OBVIOUS
    <3> QED
      BY <3>1
  <2>2. Splitting(g, text, 0)
    BY <2>1 DEF Splitting
  <2> QED
    BY <1>2, <2>2
<1>3. CASE k # 0
  <2>1. k - 1 \in Nat /\ k - 1 \notin S
    BY <1>1, <1>3
  <2>2. PICK f : Splitting(f, text, k - 1)
    BY <2>1
  <2> DEFINE g == [j \in 0 .. k |-> IF j <= k - 1 THEN f[j] ELSE SplitStep(text, f[k - 1], k)]
             h == [j \in 0 .. k |-> IF j = 0 THEN SplitBegin ELSE SplitStep(text, g[j - 1], j)]
  <2>3. \A j \in 0 .. k - 1 : f[j] = IF j = 0 THEN SplitBegin ELSE SplitStep(text, f[j - 1], j)
    <3> DEFINE e == [j \in 0 .. k - 1 |-> IF j = 0 THEN SplitBegin ELSE SplitStep(text, f[j - 1], j)]
    <3>1. f = e
      BY <2>2 DEF Splitting
    <3>2. \A j \in 0 .. k - 1 : e[j] = IF j = 0 THEN SplitBegin ELSE SplitStep(text, f[j - 1], j)
      OBVIOUS
    <3> HIDE DEF e
    <3> QED
      BY <3>1, <3>2
  <2>4. ASSUME NEW j \in 0 .. k
        PROVE  g[j] = h[j]
    <3>1. CASE j = 0
      BY <2>1, <2>3, <3>1
    <3>2. CASE j # 0 /\ j <= k - 1
      <4>1. j - 1 \in 0 .. k /\ j - 1 <= k - 1 /\ j \in 0 .. k - 1
        BY <2>1, <3>2
      <4>2. g[j] = f[j] /\ g[j - 1] = f[j - 1]
        BY <3>2, <4>1
      <4>3. h[j] = SplitStep(text, g[j - 1], j)
        BY <3>2
      <4> HIDE DEF g, h
      <4> QED
        BY <2>3, <3>2, <4>1, <4>2, <4>3
    <3>3. CASE j = k
      <4>1. k - 1 \in 0 .. k /\ ~(k <= k - 1) /\ k \in 0 .. k
        BY <2>1
      <4>2. g[k] = SplitStep(text, f[k - 1], k) /\ g[k - 1] = f[k - 1]
        BY <4>1
      <4>3. h[k] = SplitStep(text, g[k - 1], k)
        BY <1>3, <4>1
      <4> HIDE DEF g, h
      <4> QED
        BY <3>3, <4>2, <4>3
    <3>4. j = 0 \/ (j # 0 /\ j <= k - 1) \/ j = k
      BY <2>1
    <3> QED
      BY <3>1, <3>2, <3>3, <3>4
  <2>5. g = h
    BY <2>4
  <2>6. Splitting(g, text, k)
    BY <2>5 DEF Splitting
  <2> QED
    BY <2>6
<1> QED
  BY <1>2, <1>3

\* What the loop has found in the first i characters.
SplitOK(s, text, i) ==
  /\ s \in [quoted : BOOLEAN, fresh : BOOLEAN, cuts : SUBSET Nat, starts : Seq(Nat)]
  /\ s.quoted <=> Cardinality({j \in 1 .. i : text[j] = Quote}) % 2 = 1
  /\ s.cuts = {c \in CutsOf(text) : c <= i}
  /\ s.fresh <=> \E c \in CutsOf(text) :
                   c <= i /\ \A y \in LettersOf(text) : ~(c < y /\ y <= i)
  /\ Len(s.starts) >= 1 /\ s.starts[1] = 1
  /\ Lists(Later(s.starts), Len(s.starts) - 1,
           {x \in Heads(LettersOf(text), CutsOf(text)) : x <= i})

\* A place behind all others is appended to them.
LEMMA ListsAppend ==
  ASSUME NEW starts \in Seq(Nat), Len(starts) >= 1, NEW S \in SUBSET Nat,
         Lists(Later(starts), Len(starts) - 1, S),
         NEW x \in Nat, \A y \in S : y < x
  PROVE  Lists(Later(Append(starts, x)), Len(Append(starts, x)) - 1, S \cup {x})
<1> DEFINE n == Len(starts) - 1
           f == Later(starts)
           g == Later(Append(starts, x))
<1>1. n \in Nat /\ Len(Append(starts, x)) - 1 = n + 1
  OBVIOUS
<1>2. \A k \in 1 .. n : f[k] = starts[k + 1]
  BY DEF Later
<1>3. g = [k \in 1 .. n + 1 |-> Append(starts, x)[k + 1]]
  BY <1>1 DEF Later
<1>4. /\ \A k \in 1 .. n : f[k] \in S
      /\ \A k, l \in 1 .. n : k < l => f[k] < f[l]
      /\ \A y \in S : \E k \in 1 .. n : f[k] = y
  BY DEF Lists
<1>5. ASSUME NEW k \in 1 .. n + 1
      PROVE  g[k] = IF k = n + 1 THEN x ELSE f[k]
  <2>1. g[k] = Append(starts, x)[k + 1]
    BY <1>3
  <2>2. k + 1 \in 1 .. Len(starts) + 1
    BY <1>1
  <2>3. Append(starts, x)[k + 1] = IF k + 1 = Len(starts) + 1 THEN x ELSE starts[k + 1]
    BY <2>2
  <2>4. k + 1 = Len(starts) + 1 <=> k = n + 1
    BY <1>1
  <2>5. k # n + 1 => k \in 1 .. n
    BY <1>1
  <2> QED
    BY <2>1, <2>3, <2>4, <2>5, <1>2
<1>6. g = [k \in 1 .. n + 1 |-> g[k]]
  BY <1>3
<1> HIDE DEF n, f, g
<1>7. \A k \in 1 .. n + 1 : k = n + 1 \/ (k \in 1 .. n /\ k # n + 1)
  BY <1>1
<1>8. \A k \in 1 .. n + 1 : g[k] \in S \cup {x}
  BY <1>4, <1>5, <1>7
<1>9. ASSUME NEW k \in 1 .. n + 1, NEW l \in 1 .. n + 1, k < l
      PROVE  g[k] < g[l]
  <2>1. k \in 1 .. n /\ k # n + 1
    BY <1>1, <1>9
  <2>2. g[k] = f[k] /\ f[k] \in S
    BY <2>1, <1>4, <1>5
  <2> QED
    BY <2>1, <2>2, <1>4, <1>5, <1>7, <1>9
<1>10. ASSUME NEW y \in S \cup {x} PROVE \E k \in 1 .. n + 1 : g[k] = y
  <2>1. CASE y = x
    <3>1. n + 1 \in 1 .. n + 1
      BY <1>1
    <3> QED
      BY <2>1, <3>1, <1>5
  <2>2. CASE y \in S
    <3>1. PICK k \in 1 .. n : f[k] = y
      BY <2>2, <1>4
    <3>2. k \in 1 .. n + 1 /\ k # n + 1
      BY <1>1
    <3> QED
      BY <3>1, <3>2, <1>5
  <2> QED
    BY <2>1, <2>2
<1>11. Lists(g, n + 1, S \cup {x})
  BY <1>6, <1>8, <1>9, <1>10 DEF Lists
<1> QED
  BY <1>1, <1>11 DEF g

\* Where separators and letters are.
LEMMA LineFacts ==
  ASSUME NEW V, NEW text \in Seq(V)
  PROVE  /\ Len(text) \in Nat /\ DOMAIN text = 1 .. Len(text)
         /\ CutsOf(text) \in SUBSET (1 .. Len(text))
         /\ LettersOf(text) \in SUBSET (1 .. Len(text))
         /\ \A x \in LettersOf(text) : x \notin CutsOf(text)
         /\ Heads(LettersOf(text), CutsOf(text)) \in SUBSET Nat
<1>1. Len(text) \in Nat /\ DOMAIN text = 1 .. Len(text)
  OBVIOUS
<1>2. CutsOf(text) \in SUBSET DOMAIN text /\ LettersOf(text) \in SUBSET DOMAIN text
  BY DEF CutsOf, LettersOf
<1>3. \A x \in LettersOf(text) : x \notin CutsOf(text)
  BY DEF CutsOf, LettersOf, Separator
<1>4. Heads(LettersOf(text), CutsOf(text)) \in SUBSET LettersOf(text)
  BY DEF Heads
<1>5. LettersOf(text) \in SUBSET Nat
  BY <1>1, <1>2
<1> QED
  BY <1>1, <1>2, <1>3, <1>4, <1>5

\* Odd and even alternate.
LEMMA Parity ==
  ASSUME NEW a \in Nat
  PROVE  /\ (a + 1) % 2 = 1 <=> ~(a % 2 = 1)
         /\ a % 2 = 0 <=> ~(a % 2 = 1)
  OBVIOUS

\* The quotes among the first i characters.
QuotesIn(text, i) == {k \in 1 .. i : text[k] = Quote}

\* One more character is one more quote, or none.
LEMMA QuotesNext ==
  ASSUME NEW text, NEW j \in Nat, j >= 1
  PROVE  /\ Cardinality(QuotesIn(text, j - 1)) \in Nat
         /\ Cardinality(QuotesIn(text, j)) =
              IF text[j] = Quote THEN Cardinality(QuotesIn(text, j - 1)) + 1
              ELSE Cardinality(QuotesIn(text, j - 1))
<1> DEFINE Q == QuotesIn(text, j - 1)
<1>1. IsFiniteSet(Q)
  <2>1. 1 \in Int /\ j - 1 \in Int
    OBVIOUS
  <2>2. IsFiniteSet(1 .. j - 1)
    BY <2>1, FS_Interval
  <2>3. Q \in SUBSET (1 .. j - 1)
    BY DEF QuotesIn
  <2> HIDE DEF Q
  <2> QED
    BY <2>2, <2>3, FS_Subset
<1>2. j \notin Q
  BY DEF QuotesIn
<1>3. QuotesIn(text, j) = IF text[j] = Quote THEN Q \cup {j} ELSE Q
  <2>1. \A k : k \in 1 .. j <=> (k \in 1 .. j - 1 \/ k = j)
    OBVIOUS
  <2> QED
    BY <2>1 DEF QuotesIn
<1> HIDE DEF Q
<1>4. Cardinality(Q) \in Nat /\ Cardinality(Q \cup {j}) = Cardinality(Q) + 1
  BY <1>1, <1>2, FS_CardinalityType, FS_AddElement
<1> QED
  BY <1>3, <1>4 DEF Q

\* One round of the loop keeps to that, whatever the character.
LEMMA SplitStepOK ==
  ASSUME NEW V, NEW text \in Seq(V), NEW j \in 1 .. Len(text),
         NEW s, SplitOK(s, text, j - 1)
  PROVE  SplitOK(SplitStep(text, s, j), text, j)
<1> DEFINE C == CutsOf(text)
           W == LettersOf(text)
           H == Heads(W, C)
           t == SplitStep(text, s, j)
           Fresh(i) == \E c \in C : c <= i /\ \A y \in W : ~(c < y /\ y <= i)
           Odd(i) == Cardinality(QuotesIn(text, i)) % 2 = 1
<1>1. /\ s.quoted \in BOOLEAN /\ s.fresh \in BOOLEAN
      /\ s.cuts \in SUBSET Nat /\ s.starts \in Seq(Nat)
      /\ s = [quoted |-> s.quoted, fresh |-> s.fresh, cuts |-> s.cuts, starts |-> s.starts]
      /\ s \in [quoted : BOOLEAN, fresh : BOOLEAN, cuts : SUBSET Nat, starts : Seq(Nat)]
  BY DEF SplitOK
<1>2. /\ s.quoted <=> Odd(j - 1)
      /\ s.cuts = {c \in C : c <= j - 1}
      /\ s.fresh <=> Fresh(j - 1)
      /\ Len(s.starts) >= 1 /\ s.starts[1] = 1
      /\ Lists(Later(s.starts), Len(s.starts) - 1, {x \in H : x <= j - 1})
  BY DEF SplitOK, QuotesIn
<1>3. /\ C \in SUBSET (1 .. Len(text)) /\ W \in SUBSET (1 .. Len(text))
      /\ H \in SUBSET Nat /\ H \in SUBSET W /\ \A x \in W : x \notin C
      /\ Len(text) \in Nat /\ DOMAIN text = 1 .. Len(text)
  BY LineFacts DEF Heads
<1>4. /\ j \in W <=> text[j] # Quote /\ text[j] # Space
      /\ j \in C <=> text[j] = Space /\ ~Odd(j - 1)
  <2>1. j \in W <=> text[j] # Quote /\ text[j] # Space
    BY <1>3 DEF LettersOf
  <2>2. j \in C <=> Separator(text, j)
    BY <1>3 DEF CutsOf
  <2>3. Separator(text, j) <=> text[j] = Space /\ Cardinality(QuotesIn(text, j - 1)) % 2 = 0
    BY DEF Separator, QuotesIn
  <2>4. Cardinality(QuotesIn(text, j - 1)) \in Nat
    BY QuotesNext
  <2>5. Cardinality(QuotesIn(text, j - 1)) % 2 = 0 <=> ~Odd(j - 1)
    BY <2>4, Parity
  <2> HIDE DEF Odd
  <2> QED
    BY <2>1, <2>2, <2>3, <2>5
<1>5. Odd(j) <=> IF text[j] = Quote THEN ~Odd(j - 1) ELSE Odd(j - 1)
  <2> DEFINE a == Cardinality(QuotesIn(text, j - 1))
             b == Cardinality(QuotesIn(text, j))
  <2>1. a \in Nat /\ b = IF text[j] = Quote THEN a + 1 ELSE a
    BY QuotesNext
  <2> HIDE DEF a, b
  <2>2. b % 2 = 1 <=> IF text[j] = Quote THEN ~(a % 2 = 1) ELSE a % 2 = 1
    BY <2>1, Parity
  <2> QED
    BY <2>2 DEF a, b
<1> HIDE DEF Odd
<1>6. j \in Nat /\ \A x \in Nat : x <= j <=> (x <= j - 1 \/ x = j)
  OBVIOUS
<1>7. {c \in C : c <= j} = {c \in C : c <= j - 1} \cup (IF j \in C THEN {j} ELSE {})
  BY <1>3, <1>6
<1>8. {x \in H : x <= j} = {x \in H : x <= j - 1} \cup (IF j \in H THEN {j} ELSE {})
  BY <1>3, <1>6
<1>9. j \in C => Fresh(j)
  <2> SUFFICES ASSUME j \in C PROVE j <= j /\ \A y \in W : ~(j < y /\ y <= j)
    OBVIOUS
  <2> QED
    BY <1>3
<1>10. j \in W => ~Fresh(j)
  <2> SUFFICES ASSUME j \in W, NEW c \in C, c <= j PROVE c < j /\ j <= j
    OBVIOUS
  <2>1. c # j /\ c \in Nat
    BY <1>3
  <2> QED
    BY <2>1, <1>6
<1>11. j \notin C /\ j \notin W => (Fresh(j) <=> Fresh(j - 1))
  <2> SUFFICES ASSUME j \notin C, j \notin W PROVE Fresh(j) <=> Fresh(j - 1)
    OBVIOUS
  <2>1. \A c \in C : c <= j <=> c <= j - 1
    BY <1>3, <1>6
  <2>2. \A y \in W : y <= j <=> y <= j - 1
    BY <1>3, <1>6
  <2> QED
    BY <2>1, <2>2
<1>12. j \in W => (j \in H <=> Fresh(j - 1))
  <2> SUFFICES ASSUME j \in W PROVE j \in H <=> Fresh(j - 1)
    OBVIOUS
  <2>1. \A c \in C : c < j <=> c <= j - 1
    BY <1>3
  <2>2. \A y \in W : y < j <=> y <= j - 1
    BY <1>3
  <2> QED
    BY <2>1, <2>2 DEF Heads
<1>13. t \in [quoted : BOOLEAN, fresh : BOOLEAN, cuts : SUBSET Nat, starts : Seq(Nat)]
       /\ (t.quoted <=> Odd(j)) /\ t.cuts = {c \in C : c <= j} /\ (t.fresh <=> Fresh(j))
       /\ Len(t.starts) >= 1 /\ t.starts[1] = 1
       /\ Lists(Later(t.starts), Len(t.starts) - 1, {x \in H : x <= j})
  <2> HIDE DEF Fresh, H
  <2>0. Quote # Space
    BY DEF Quote, Space
  <2>1. CASE text[j] = Quote
    <3>1. t = [s EXCEPT !.quoted = ~@]
      BY <2>0, <2>1 DEF SplitStep
    <3>2. /\ t.quoted = ~s.quoted /\ t.fresh = s.fresh
          /\ t.cuts = s.cuts /\ t.starts = s.starts
          /\ t \in [quoted : BOOLEAN, fresh : BOOLEAN, cuts : SUBSET Nat, starts : Seq(Nat)]
      BY <3>1, <1>1
    <3>3. j \notin C /\ j \notin W /\ j \notin H
      BY <2>0, <2>1, <1>3, <1>4
    <3> HIDE DEF t
    <3>4. {x \in H : x <= j} = {x \in H : x <= j - 1}
      BY <3>3, <1>8
    <3> QED
      BY <2>1, <3>2, <3>3, <3>4, <1>2, <1>5, <1>7, <1>11
  <2>2. CASE text[j] = Space /\ Odd(j - 1)
    <3>1. t = s
      BY <2>2, <1>2 DEF SplitStep
    <3>3. j \notin C /\ j \notin W /\ j \notin H /\ text[j] # Quote
      BY <2>0, <2>2, <1>3, <1>4
    <3> HIDE DEF t
    <3>4. {x \in H : x <= j} = {x \in H : x <= j - 1}
      BY <3>3, <1>8
    <3> QED
      BY <3>1, <3>3, <3>4, <1>1, <1>2, <1>5, <1>7, <1>11
  <2>3. CASE text[j] = Space /\ ~Odd(j - 1)
    <3>1. t = [s EXCEPT !.cuts = @ \cup {j}, !.fresh = TRUE]
      BY <2>3, <1>2 DEF SplitStep
    <3>2. /\ t.quoted = s.quoted /\ t.fresh = TRUE
          /\ t.cuts = s.cuts \cup {j} /\ t.starts = s.starts
          /\ t \in [quoted : BOOLEAN, fresh : BOOLEAN, cuts : SUBSET Nat, starts : Seq(Nat)]
      BY <3>1, <1>1, <1>6
    <3>3. j \in C /\ j \notin W /\ j \notin H /\ text[j] # Quote
      BY <2>0, <2>3, <1>3, <1>4
    <3> HIDE DEF t
    <3>4. {x \in H : x <= j} = {x \in H : x <= j - 1}
      BY <3>3, <1>8
    <3> QED
      BY <3>2, <3>3, <3>4, <1>2, <1>5, <1>7, <1>9
  <2>4. CASE text[j] # Space /\ text[j] # Quote /\ ~Fresh(j - 1)
    <3>1. t = s
      BY <2>4, <1>2 DEF SplitStep
    <3>3. j \notin C /\ j \in W /\ j \notin H
      BY <2>4, <1>4, <1>12
    <3> HIDE DEF t
    <3>4. {x \in H : x <= j} = {x \in H : x <= j - 1}
      BY <3>3, <1>8
    <3> QED
      BY <2>4, <3>1, <3>3, <3>4, <1>1, <1>2, <1>5, <1>7, <1>10
  <2>5. CASE text[j] # Space /\ text[j] # Quote /\ Fresh(j - 1)
    <3>1. t = [s EXCEPT !.starts = Append(@, j), !.fresh = FALSE]
      BY <2>5, <1>2 DEF SplitStep
    <3>2. /\ t.quoted = s.quoted /\ t.fresh = FALSE
          /\ t.cuts = s.cuts /\ t.starts = Append(s.starts, j)
          /\ t \in [quoted : BOOLEAN, fresh : BOOLEAN, cuts : SUBSET Nat, starts : Seq(Nat)]
      <4>1. Append(s.starts, j) \in Seq(Nat)
        BY <1>1, <1>6
      <4> QED
        BY <4>1, <3>1, <1>1
    <3>3. j \notin C /\ j \in W /\ j \in H
      BY <2>5, <1>4, <1>12
    <3> HIDE DEF t
    <3>4. {x \in H : x <= j} = {x \in H : x <= j - 1} \cup {j}
      BY <3>3, <1>8
    <3> DEFINE st == s.starts
               S == {x \in H : x <= j - 1}
    <3>5. st \in Seq(Nat) /\ Len(st) >= 1 /\ st[1] = 1
          /\ Lists(Later(st), Len(st) - 1, S)
      BY <1>1, <1>2
    <3>6. S \in SUBSET Nat /\ \A y \in S : y < j
      <4>1. H \in SUBSET Nat /\ \A y \in Nat : y <= j - 1 => y < j
        BY <1>3
      <4> QED
        BY <4>1
    <3>7. {x \in H : x <= j} = S \cup {j} /\ t.starts = Append(st, j)
      BY <3>2, <3>4
    <3> HIDE DEF st, S
    <3>8. Lists(Later(Append(st, j)), Len(Append(st, j)) - 1, S \cup {j})
      BY <3>5, <3>6, <1>6, ListsAppend
    <3>9. Len(Append(st, j)) >= 1 /\ Append(st, j)[1] = 1
      BY <3>5, <1>6
    <3>10. t.cuts = {c \in C : c <= j}
      BY <3>2, <3>3, <1>2, <1>7
    <3>11. t.quoted <=> Odd(j)
      BY <2>5, <3>2, <1>2, <1>5
    <3>12. t.fresh <=> Fresh(j)
      BY <3>2, <3>3, <1>10
    <3> QED
      BY <3>2, <3>7, <3>8, <3>9, <3>10, <3>11, <3>12
  <2> QED
    BY <2>1, <2>2, <2>3, <2>4, <2>5
<1> QED
  BY <1>13 DEF SplitOK, Odd, QuotesIn

\* So does the loop.
LEMMA SplitDone ==
  ASSUME NEW V, NEW text \in Seq(V)
  PROVE  SplitOK(Split(text), text, Len(text))
<1> DEFINE n == Len(text)
           f == CHOOSE f : Splitting(f, text, n)
           S == {k \in 0 .. n : ~SplitOK(f[k], text, k)}
<1>0. n \in Nat
  OBVIOUS
<1>1. Split(text) = f[n]
  BY DEF Split, Splitting, SplitBegin
<1>2. Splitting(f, text, n)
  BY <1>0, SplittingExists
<1> HIDE DEF f
<1>3. \A k \in 0 .. n : f[k] = IF k = 0 THEN SplitBegin ELSE SplitStep(text, f[k - 1], k)
  <2> DEFINE e == [k \in 0 .. n |-> IF k = 0 THEN SplitBegin ELSE SplitStep(text, f[k - 1], k)]
  <2>1. f = e
    BY <1>2 DEF Splitting
  <2>2. \A k \in 0 .. n : e[k] = IF k = 0 THEN SplitBegin ELSE SplitStep(text, f[k - 1], k)
    OBVIOUS
  <2> HIDE DEF e
  <2> QED
    BY <2>1, <2>2
<1>4. f[0] = SplitBegin
  BY <1>0, <1>3
<1>5. SplitOK(SplitBegin, text, 0)
  <2> DEFINE s == SplitBegin
  <2>1. /\ s.quoted = FALSE /\ s.fresh = FALSE /\ s.cuts = {} /\ s.starts = <<1>>
        /\ s \in [quoted : BOOLEAN, fresh : BOOLEAN, cuts : SUBSET Nat, starts : Seq(Nat)]
    <3>1. <<1>> \in Seq(Nat)
      OBVIOUS
    <3> QED
      BY <3>1 DEF SplitBegin
  <2>2. ~(Cardinality({j \in 1 .. 0 : text[j] = Quote}) % 2 = 1)
    <3>1. {j \in 1 .. 0 : text[j] = Quote} = {}
      OBVIOUS
    <3>2. Cardinality({j \in 1 .. 0 : text[j] = Quote}) = 0
      BY <3>1, FS_EmptySet
    <3> QED
      BY <3>2
  <2>3. \A c \in CutsOf(text) : ~(c <= 0)
    BY LineFacts
  <2>4. {x \in Heads(LettersOf(text), CutsOf(text)) : x <= 0} = {}
    <3>1. \A x \in LettersOf(text) : ~(x <= 0)
      BY LineFacts
    <3> QED
      BY <3>1 DEF Heads
  <2>5. Lists(Later(<<1>>), Len(<<1>>) - 1, {})
    <3>1. Len(<<1>>) - 1 = 0 /\ 1 .. 0 = {}
      OBVIOUS
    <3>2. Later(<<1>>) = [k \in 1 .. 0 |-> Later(<<1>>)[k]]
      BY <3>1 DEF Later
    <3> QED
      BY <3>1, <3>2 DEF Lists
  <2>6. Len(<<1>>) >= 1 /\ <<1>>[1] = 1
    OBVIOUS
  <2>7. {c \in CutsOf(text) : c <= 0} = {}
    BY <2>3
  <2> HIDE DEF s
  <2> QED
    BY <2>1, <2>2, <2>3, <2>4, <2>5, <2>6, <2>7 DEF SplitOK, s
<1>6. S = {}
  <2> SUFFICES ASSUME S # {} PROVE FALSE
    OBVIOUS
  <2>1. S \in SUBSET Nat
    OBVIOUS
  <2>2. PICK k \in S : \A j \in S : k <= j
    <3> HIDE DEF S
    <3> QED
      BY <2>1, LeastOf
  <2>3. k # 0
    BY <1>4, <1>5, <2>2
  <2>4. /\ k \in 0 .. n /\ k \in 1 .. n /\ k - 1 \in 0 .. n /\ ~(k <= k - 1)
        /\ ~SplitOK(f[k], text, k)
    BY <2>2, <2>3
  <2>5. SplitOK(f[k - 1], text, k - 1)
    BY <2>2, <2>4
  <2>6. f[k] = SplitStep(text, f[k - 1], k)
    BY <1>3, <2>3, <2>4
  <2> QED
    BY <2>4, <2>5, <2>6, SplitStepOK
<1>7. SplitOK(f[n], text, n)
  <2>1. n \in 0 .. n
    BY <1>0
  <2> QED
    BY <1>6, <2>1
<1> QED
  BY <1>1, <1>7

\* The piece p of the text between a and b begins with its first letter in it
\* where the argument begins.
WordOf(p) == SubSeq(p, Min(LettersOf(p)), Len(p))
PieceOK(p, text, a, b) ==
  /\ LettersOf(p) # {} <=> \E x \in LettersOf(text) : a < x /\ x < b
  /\ LettersOf(p) # {} =>
       WordOf(p) = SubSeq(text, FirstAfter(LettersOf(text), a), b - 1)

\* The letters of a piece are those of the line in it.
LEMMA PieceFacts ==
  ASSUME NEW V, NEW text \in Seq(V), NEW a \in 0 .. Len(text),
         NEW b \in 1 .. Len(text) + 1, a < b
  PROVE  PieceOK(SubSeq(text, a + 1, b - 1), text, a, b)
<1> DEFINE n == Len(text)
           W == LettersOf(text)
           l == b - 1 - a
           p == SubSeq(text, a + 1, b - 1)
<1>1. n \in Nat /\ W \in SUBSET (1 .. n) /\ W \in SUBSET Nat /\ DOMAIN text = 1 .. n
  BY LineFacts
<1>2. a \in Nat /\ b \in Nat /\ l \in Nat /\ b - 1 <= n
  OBVIOUS
<1>3. p \in Seq(V) /\ Len(p) = l /\ DOMAIN p = 1 .. l /\ \A i \in 1 .. l : p[i] = text[a + i]
  <2>1. a + 1 \in Int /\ b - 1 \in Int
    BY <1>2
  <2>2. \A i \in a + 1 .. b - 1 : text[i] \in V
    BY <1>1, <1>2
  <2>3. /\ p \in Seq(V)
        /\ Len(p) = IF a + 1 <= b - 1 THEN b - 1 - (a + 1) + 1 ELSE 0
        /\ \A i \in 1 .. b - 1 - (a + 1) + 1 : p[i] = text[a + 1 + i - 1]
    BY <2>1, <2>2, SubSeqProperties
  <2>4. (IF a + 1 <= b - 1 THEN b - 1 - (a + 1) + 1 ELSE 0) = l /\ b - 1 - (a + 1) + 1 = l
    BY <1>2
  <2>5. \A i \in 1 .. l : a + 1 + i - 1 = a + i
    BY <1>2
  <2> HIDE DEF l
  <2> QED
    BY <2>3, <2>4, <2>5, LenProperties
<1> HIDE DEF p
<1>4. \A i \in 1 .. l : a + i \in 1 .. n
  BY <1>1, <1>2
<1>5. LettersOf(p) = {i \in 1 .. l : a + i \in W}
  <2>1. \A i \in 1 .. l : a + i \in W <=> text[a + i] \notin {Space, Quote}
    BY <1>1, <1>4 DEF LettersOf
  <2> HIDE DEF W, l
  <2>2. LettersOf(p) = {i \in 1 .. l : p[i] \notin {Space, Quote}}
    BY <1>3 DEF LettersOf
  <2> QED
    BY <1>3, <2>1, <2>2
<1>6. ASSUME NEW x \in W, a < x, x < b
      PROVE  x - a \in 1 .. l /\ a + (x - a) = x /\ x - a \in LettersOf(p)
  <2>1. x - a \in 1 .. l /\ a + (x - a) = x
    BY <1>1, <1>2, <1>6
  <2> QED
    BY <2>1, <1>5
<1>7. ASSUME NEW i \in LettersOf(p)
      PROVE  i \in Nat /\ a + i \in W /\ a < a + i /\ a + i < b
  BY <1>2, <1>5
<1>8. ASSUME LettersOf(p) # {}
      PROVE  SubSeq(p, Min(LettersOf(p)), Len(p)) = SubSeq(text, FirstAfter(W, a), b - 1)
  <2>1. PICK i \in LettersOf(p) : TRUE
    BY <1>8
  <2>2. a + i \in W /\ a < a + i /\ a + i < b /\ i \in Nat
    BY <1>7
  <2> DEFINE x == FirstAfter(W, a)
             y == a + i
  <2>3. y \in W /\ a < y /\ y < b
    BY <2>2
  <2> HIDE DEF x, y
  <2>4. x \in W /\ a < x /\ x <= y /\ \A z \in W : ~(a < z /\ z < x)
    <3> HIDE DEF W
    <3> QED
      BY <1>1, <1>2, <2>3, FirstOf DEF x
  <2>5. x \in Nat /\ x < b
    <3>1. x \in Nat /\ y \in Nat
      BY <1>1, <2>3, <2>4
    <3> QED
      BY <1>2, <2>3, <2>4, <3>1
  <2>6. x - a \in LettersOf(p) /\ x - a \in 1 .. l
    BY <1>6, <2>4, <2>5
  <2>7. \A k \in LettersOf(p) : x - a <= k
    <3> SUFFICES ASSUME NEW k \in LettersOf(p) PROVE x - a <= k
      OBVIOUS
    <3>1. k \in Nat /\ a + k \in W /\ a < a + k
      BY <1>7
    <3>2. ~(a + k < x)
      BY <3>1, <2>4
    <3> QED
      BY <3>1, <3>2, <2>5, <1>2
  <2>8. Min(LettersOf(p)) = x - a
    <3>1. LettersOf(p) \in SUBSET Nat
      BY <1>7
    <3> QED
      BY <3>1, <2>6, <2>7, MinIs
  <2>9. SubSeq(p, x - a, l) = SubSeq(text, x, b - 1)
    <3> DEFINE i1 == a + 1
               j1 == b - 1
               m1 == x - a
    <3>1. /\ i1 \in 1 .. Len(text) /\ j1 \in 1 .. Len(text)
          /\ m1 \in 1 .. j1 - i1 + 1 /\ l \in 1 .. j1 - i1 + 1
          /\ i1 + m1 - 1 = x /\ i1 + l - 1 = b - 1
      BY <1>1, <1>2, <2>4, <2>5
    <3> HIDE DEF i1, j1, m1, l
    <3>2. SubSeq(SubSeq(text, i1, j1), m1, l) = SubSeq(text, i1 + m1 - 1, i1 + l - 1)
      BY <3>1, SubSeqOfSubSeq
    <3>3. SubSeq(SubSeq(text, i1, j1), m1, l) = SubSeq(text, x, b - 1)
      BY <3>1, <3>2
    <3> QED
      BY <3>3 DEF i1, j1, m1, p
  <2> QED
    BY <2>8, <2>9, <1>3 DEF x
<1> HIDE DEF W, l
<1>9. LettersOf(p) # {} <=> \E x \in W : a < x /\ x < b
  <2>1. ASSUME NEW x \in W, a < x, x < b PROVE LettersOf(p) # {}
    BY <2>1, <1>6
  <2>2. ASSUME NEW i \in LettersOf(p) PROVE \E x \in W : a < x /\ x < b
    BY <1>7
  <2> QED
    BY <2>1, <2>2
<1> QED
  BY <1>8, <1>9 DEF W, PieceOK, WordOf, p

\* The loop finds the arguments of every line.
LEMMA ArgumentsOf ==
  ASSUME NEW V, NEW text \in Seq(V)
  PROVE  Argv(text) = Arguments(text)
<1> DEFINE n == Len(text)
           C == CutsOf(text)
           W == LettersOf(text)
           E == C \cup {n + 1}
           e == Ascending(E)
           m == Cardinality(E)
           first(k) == IF k = 1 THEN 0 ELSE e[k - 1]
           pieces == Pieces(text)
           K == {k \in DOMAIN pieces \ {1} : LettersOf(pieces[k]) # {}}
           r == Ascending(K)
           q == Cardinality(K)
           g == FirstsOf(W, e, r, q)
           word(k) == SubSeq(text, g[k], e[r[k]] - 1)
           others == [k \in 1 .. q |-> word(k)]
           s == Split(text)
<1>1. /\ n \in Nat /\ DOMAIN text = 1 .. n /\ C \in SUBSET (1 .. n)
      /\ W \in SUBSET (1 .. n) /\ \A x \in W : x \notin C
  BY LineFacts
<1>0. /\ \A c \in C : c \in Nat /\ c \in 1 .. n /\ c \in 1 .. n + 1 /\ c >= 1 /\ c <= n
      /\ \A x \in W : x \in Nat /\ x <= n
      /\ n + 1 \in Nat /\ n + 1 \in 1 .. n + 1 /\ n + 1 >= 1
  BY <1>1
<1>2. m \in Nat /\ Lists(e, m, E)
  <2>1. IsFiniteSet(E) /\ E \in SUBSET Nat
    <3>1. E \in SUBSET (1 .. n + 1) /\ 1 \in Int /\ n + 1 \in Int
      BY <1>1
    <3>2. IsFiniteSet(1 .. n + 1)
      BY <3>1, FS_Interval
    <3>3. E \in SUBSET Nat
      BY <3>1
    <3> HIDE DEF E
    <3> QED
      BY <3>1, <3>2, <3>3, FS_Subset
  <2> HIDE DEF E
  <2> QED
    BY <2>1, AscendingLists
<1>3. /\ DOMAIN e = 1 .. m /\ \A k \in 1 .. m : e[k] \in C \cup {n + 1}
      /\ \A k, l \in 1 .. m : k < l => e[k] < e[l]
      /\ \A x \in C \cup {n + 1} : \E k \in 1 .. m : e[k] = x
  <2>1. e = [k \in 1 .. m |-> e[k]]
    BY <1>2 DEF Lists
  <2>2. DOMAIN e = 1 .. m
    BY <2>1
  <2> HIDE DEF e, m
  <2> QED
    BY <1>2, <2>2 DEF Lists
<1>4. pieces = [k \in 1 .. m |-> SubSeq(text, first(k) + 1, e[k] - 1)]
  <2>1. e = Ascending({i \in DOMAIN text : Separator(text, i)} \cup {Len(text) + 1})
    BY DEF CutsOf
  <2>2. pieces = [k \in DOMAIN e |-> SubSeq(text, first(k) + 1, e[k] - 1)]
    BY <2>1 DEF Pieces
  <2> QED
    BY <1>3, <2>2
<1> HIDE DEF pieces, e, m, C, W, n
<1>5. DOMAIN pieces = 1 .. m
      /\ \A k \in 1 .. m : pieces[k] = SubSeq(text, first(k) + 1, e[k] - 1)
  BY <1>4
<1>6. \A k \in 1 .. m : e[k] \in 1 .. n + 1 /\ e[k] \in Nat
  BY <1>0, <1>3
<1>7. ASSUME NEW k \in 2 .. m
      PROVE  /\ k \in 1 .. m
             /\ LettersOf(pieces[k]) # {} <=> \E x \in W : e[k - 1] < x /\ x < e[k]
             /\ LettersOf(pieces[k]) # {} =>
                  WordOf(pieces[k]) =
                    SubSeq(text, FirstAfter(W, e[k - 1]), e[k] - 1)
  <2> DEFINE a == e[k - 1]
             b == e[k]
             p == pieces[k]
  <2>1. k \in 1 .. m /\ k - 1 \in 1 .. m /\ k - 1 < k /\ k # 1
    BY <1>2
  <2>2. a < b /\ a \in 1 .. n + 1 /\ b \in 1 .. n + 1
    BY <2>1, <1>3, <1>6
  <2>3. p = SubSeq(text, a + 1, b - 1)
    BY <2>1, <1>5
  <2> HIDE DEF a, b, p
  <2>4. a \in 0 .. n
    BY <2>2, <1>1
  <2>5. PieceOK(p, text, a, b)
    <3>1. a \in 0 .. Len(text) /\ b \in 1 .. Len(text) + 1 /\ a < b
      BY <2>2, <2>4 DEF n
    <3>2. text \in Seq(V)
      OBVIOUS
    <3> QED
      BY ONLY <3>1, <3>2, <2>3, PieceFacts
  <2> QED
    BY <2>1, <2>5 DEF a, b, p, W, PieceOK
<1>8. K = Full(e, m, W)
  <2>1. \A k : k \in 1 .. m /\ k # 1 <=> k \in 2 .. m
    BY <1>2
  <2>2. DOMAIN pieces \ {1} = 2 .. m
    BY <2>1, <1>5
  <2> QED
    BY <2>2, <1>7 DEF Full
<1>9. q \in Nat /\ Lists(r, q, K)
  <2>1. IsFiniteSet(K) /\ K \in SUBSET Nat
    <3>1. K \in SUBSET (2 .. m) /\ 2 \in Int /\ m \in Int
      <4>1. Full(e, m, W) \in SUBSET (2 .. m)
        BY DEF Full
      <4> HIDE DEF K
      <4> QED
        BY <4>1, <1>2, <1>8
    <3>2. IsFiniteSet(2 .. m)
      BY <3>1, FS_Interval
    <3>3. K \in SUBSET Nat
      BY <3>1
    <3> HIDE DEF K
    <3> QED
      BY <3>1, <3>2, <3>3, FS_Subset
  <2> HIDE DEF K
  <2> QED
    BY <2>1, AscendingLists
<1>10. /\ DOMAIN r = 1 .. q
       /\ \A k \in 1 .. q : r[k] \in 2 .. m /\ LettersOf(pieces[r[k]]) # {}
  <2>1. r = [k \in 1 .. q |-> r[k]] /\ \A k \in 1 .. q : r[k] \in K
    BY <1>9 DEF Lists
  <2>2. \A p \in K : p \in 2 .. m /\ LettersOf(pieces[p]) # {}
    BY <1>8 DEF Full
  <2> HIDE DEF r, q, K
  <2> QED
    BY <2>1, <2>2
<1>11. Arguments(text) = <<pieces[1]>> \o others
  <2>1. Arguments(text) = <<pieces[1]>>
          \o [k \in DOMAIN r |-> WordOf(pieces[r[k]])]
    BY DEF Arguments, pieces, WordOf
  <2>2. \A k \in 1 .. q : g[k] = FirstAfter(W, e[r[k] - 1])
    BY DEF FirstsOf
  <2> HIDE DEF r, q, g
  <2>3. \A k \in 1 .. q : WordOf(pieces[r[k]]) = word(k)
    <3> SUFFICES ASSUME NEW k \in 1 .. q PROVE WordOf(pieces[r[k]]) = word(k)
      OBVIOUS
    <3>1. r[k] \in 2 .. m /\ LettersOf(pieces[r[k]]) # {}
      BY <1>10
    <3> QED
      BY <3>1, <2>2, <1>7
  <2>4. [k \in DOMAIN r |-> WordOf(pieces[r[k]])] = others
    BY <2>3, <1>10
  <2> QED
    BY <2>1, <2>4
<1> HIDE DEF K, r, q, s
<1>12. /\ Lists(g, q, Heads(W, C))
       /\ \A k \in 1 .. q : NextCut(C, g[k], n) = e[r[k]]
  <2>1. Lists(e, m, C \cup {n + 1}) /\ Lists(r, q, Full(e, m, W))
    BY <1>2, <1>8, <1>9
  <2>2. g = FirstsOf(W, e, r, q)
    OBVIOUS
  <2>3. /\ n \in Nat /\ C \in SUBSET (1 .. n) /\ W \in SUBSET (1 .. n)
        /\ \A x \in W : x \notin C
        /\ m \in Nat /\ q \in Nat
    BY <1>1, <1>2, <1>9
  <2> HIDE DEF g
  <2>4. GapsOK(g, q, W, C, e, r, n)
    BY ONLY <2>1, <2>2, <2>3, FullGaps
  <2> QED
    BY <2>4 DEF GapsOK
<1>13. /\ s.cuts = C /\ s.starts \in Seq(Nat)
       /\ Len(s.starts) >= 1 /\ s.starts[1] = 1
       /\ Lists(Later(s.starts), Len(s.starts) - 1, Heads(W, C))
  <2>1. SplitOK(s, text, n)
    BY SplitDone DEF s, n
  <2>2. {c \in C : c <= n} = C
    BY <1>0
  <2>3. {x \in Heads(W, C) : x <= n} = Heads(W, C)
    BY <1>0 DEF Heads
  <2> QED
    BY <2>1, <2>2, <2>3 DEF SplitOK, C, W
<1>14. Len(s.starts) = q + 1 /\ DOMAIN s.starts = 1 .. q + 1
       /\ \A k \in 2 .. q + 1 : s.starts[k] = g[k - 1]
  <2> DEFINE st == s.starts
             l == Len(st) - 1
             f == Later(st)
             H == Heads(W, C)
  <2>1. st \in Seq(Nat) /\ Len(st) >= 1 /\ l \in Nat /\ Len(st) = l + 1
        /\ DOMAIN st = 1 .. l + 1
    <3>1. st \in Seq(Nat) /\ Len(st) >= 1
      BY <1>13
    <3> HIDE DEF st
    <3>2. Len(st) \in Nat /\ DOMAIN st = 1 .. Len(st)
      BY <3>1
    <3> QED
      BY <3>1, <3>2
  <2>2. H \in SUBSET Nat
    BY <1>0 DEF Heads
  <2>3. Lists(f, l, H) /\ Lists(g, q, H)
    BY <1>12, <1>13
  <2>4. \A k \in 1 .. l : f[k] = st[k + 1]
    BY DEF Later
  <2> HIDE DEF st, l, f, H, g
  <2>5. l = q /\ f = g
    BY <2>1, <2>2, <2>3, <1>9, ListsOnce
  <2>6. \A k \in 2 .. q + 1 : st[k] = g[k - 1]
    <3> SUFFICES ASSUME NEW k \in 2 .. q + 1 PROVE st[k] = g[k - 1]
      OBVIOUS
    <3>1. k - 1 \in 1 .. l /\ (k - 1) + 1 = k
      BY <1>9, <2>5
    <3> QED
      BY <2>4, <2>5, <3>1
  <2> QED
    BY <2>1, <2>5, <2>6 DEF st
<1>15. Argv(text) = [k \in 1 .. q + 1 |-> StringAt(text, s.starts[k], C)]
  BY <1>13, <1>14 DEF Argv, s
<1>16. StringAt(text, 1, C) = pieces[1]
  <2> DEFINE M == {c \in C : c >= 1} \cup {n + 1}
  <2>1. 1 \in 1 .. m
    <3>1. PICK k \in 1 .. m : e[k] = n + 1
      BY <1>3
    <3>2. m \in Nat
      BY <1>2
    <3> QED
      BY <3>2
  <2>2. e[1] \in M
    BY <2>1, <1>0, <1>3
  <2>3. M \in SUBSET Nat
    BY <1>0
  <2>4. ASSUME NEW x \in M PROVE e[1] <= x
    <3>1. PICK k \in 1 .. m : e[k] = x
      BY <1>3
    <3>2. k = 1 \/ 1 < k
      BY <1>2
    <3>3. e[1] = e[k] \/ e[1] < e[k]
      BY <2>1, <3>2, <1>3
    <3>4. e[1] \in Nat /\ e[k] \in Nat
      BY <2>1, <1>6
    <3> QED
      BY <3>1, <3>3, <3>4
  <2> HIDE DEF M
  <2>5. Min(M) = e[1]
    BY <2>2, <2>3, <2>4, MinIs
  <2>6. first(1) + 1 = 1
    OBVIOUS
  <2>7. pieces[1] = SubSeq(text, 1, e[1] - 1)
    BY <2>1, <2>6, <1>5
  <2> QED
    BY <2>5, <2>7 DEF M, StringAt, n
<1>17. \A k \in 1 .. q : StringAt(text, g[k], C) = word(k)
  <2> HIDE DEF g
  <2> QED
    BY <1>12 DEF StringAt, NextCut, n
<1> DEFINE U == {pieces[1]} \cup {word(k) : k \in 1 .. q}
           x == pieces[1]
           a(k) == StringAt(text, s.starts[k], C)
<1>18. \A k \in 1 .. q : word(k) \in U
  OBVIOUS
<1>19. x \in U
  OBVIOUS
<1> HIDE DEF g, word, U, x, a
<1>20. others \in Seq(U) /\ Len(others) = q /\ \A k \in 1 .. q : others[k] = word(k)
  BY <1>9, <1>18
<1>21. <<x>> \in Seq(U) /\ Len(<<x>>) = 1 /\ <<x>>[1] = x
  BY <1>19
<1> HIDE DEF others
<1>22. /\ <<x>> \o others \in Seq(U) /\ Len(<<x>> \o others) = 1 + q
       /\ \A k \in 1 .. 1 + q :
            (<<x>> \o others)[k] = IF k <= 1 THEN <<x>>[k] ELSE others[k - 1]
  BY <1>20, <1>21, ConcatProperties
<1>23. \A k \in 1 .. q + 1 : a(k) = IF k = 1 THEN x ELSE word(k - 1)
  <2> SUFFICES ASSUME NEW k \in 1 .. q + 1
               PROVE  a(k) = IF k = 1 THEN x ELSE word(k - 1)
    OBVIOUS
  <2>1. CASE k = 1
    BY <2>1, <1>13, <1>16 DEF a, x
  <2>2. CASE k # 1
    <3>1. k \in 2 .. q + 1 /\ k - 1 \in 1 .. q
      BY <2>2, <1>9
    <3> QED
      BY <2>2, <3>1, <1>14, <1>17 DEF a
  <2> QED
    BY <2>1, <2>2
<1>24. ASSUME NEW k \in 1 .. 1 + q
       PROVE  a(k) \in U /\ a(k) = (<<x>> \o others)[k]
  <2>1. CASE k = 1
    <3>1. k \in 1 .. q + 1 /\ k <= 1
      BY <2>1, <1>9
    <3> QED
      BY <2>1, <3>1, <1>19, <1>21, <1>22, <1>23
  <2>2. CASE k # 1
    <3>1. k \in 1 .. q + 1 /\ ~(k <= 1) /\ k - 1 \in 1 .. q
      BY <2>2, <1>9
    <3> QED
      BY <2>2, <3>1, <1>18, <1>20, <1>22, <1>23
  <2> QED
    BY <2>1, <2>2
<1>25. Argv(text) = [k \in 1 .. 1 + q |-> a(k)]
  <2>1. 1 + q = q + 1
    BY <1>9
  <2> QED
    BY <2>1, <1>15 DEF a
<1>26. 1 + q \in Nat /\ Argv(text) \in Seq(U) /\ Len(Argv(text)) = 1 + q
       /\ \A k \in 1 .. 1 + q : Argv(text)[k] = a(k)
  <2>1. 1 + q \in Nat
    BY <1>9
  <2> QED
    BY <2>1, <1>24, <1>25
<1>27. Argv(text) = <<x>> \o others
  BY <1>22, <1>24, <1>26, SeqEqual
<1> QED
  BY <1>11, <1>27 DEF x

\* What may be in the port and in command_buffer.
Characters == Letters \cup {Enter, Shift, NoKey, NUL}
LineInv == line \in Seq(Characters) /\ port \in Characters

\* A command line is empty, or longer by the key from the port.
LEMMA KeyboardKeepsLine ==
  ASSUME LineInv, keyboard_interrupt
  PROVE  LineInv'
<1> DEFINE c == scan_to_ascii(port)
<1>1. c \in Characters
  BY DEF LineInv, scan_to_ascii, Characters
<1>2. port' \in Characters
  BY DEF keyboard_interrupt, Characters
<1>3. line' = line \/ line' = <<>> \/ line' = Append(line, c)
  BY DEF keyboard_interrupt, shell_update
<1> HIDE DEF c
<1>4. line \in Seq(Characters) /\ <<>> \in Seq(Characters)
      /\ Append(line, c) \in Seq(Characters)
  BY <1>1 DEF LineInv
<1> QED
  BY <1>2, <1>3, <1>4 DEF LineInv

\* No other step touches the line, and only a key is put into the port.
LEMMA NextLineInv == LineInv /\ [Next]_vars => LineInv'
<1> SUFFICES ASSUME LineInv, [Next]_vars PROVE LineInv'
  OBVIOUS
<1>1. CASE keyboard_interrupt
  BY <1>1, KeyboardKeepsLine
<1>2. ASSUME NEW key \in Letters \cup {Enter, Shift}, KeyPress(key)
      PROVE  LineInv'
  <2>1. port' = key /\ line' = line
    BY <1>2 DEF KeyPress, shell
  <2> QED
    BY <2>1 DEF LineInv, Characters
<1>3. CASE timer_interrupt
  <2>1. port' = port /\ line' = line
    BY <1>3 DEF timer_interrupt, shell
  <2> QED
    BY <2>1 DEF LineInv
<1>4. CASE BootStep
  <2>1. Handlers
    BY <1>4 DEF BootStep, check_magic, serial_init, load_and_enable_interrupts,
         test_run_idt, pic_remap, pic_set_interrupt_masks, pit_run_tests,
         pmem_initialize, vmem_init, vmem_run_tests, ramdisk_run_tests,
         ramdisk_fat16_run_tests, mount_ramdisk, load_tss, process_init, shell_init,
         _enter_usermode, system_call, DiskUp, DiskDown
  <2>2. port' = port /\ line' = line
    BY <2>1 DEF Handlers, irq
  <2> QED
    BY <2>2 DEF LineInv
<1>5. CASE UNCHANGED vars
  <2>1. port' = port /\ line' = line
    BY <1>5 DEF vars, irq, shell
  <2> QED
    BY <2>1 DEF LineInv
<1> QED
  BY <1>1, <1>2, <1>3, <1>4, <1>5 DEF Next, Spins

\* Whatever has been typed into command_buffer, the loop of
\* shell_execute_command (shell.c:80-98) cuts it into the arguments that blanks
\* and quotes mark in it: for every line, of any length, and not only for those
\* the bound on what is typed admits.
THEOREM KernelArgvMatchesLine == Spec => []ArgvMatchesLine
<1>1. Init => LineInv
  <2> SUFFICES ASSUME Init PROVE LineInv
    OBVIOUS
  <2>1. line = <<>> /\ port = NoKey
    BY DEF Init
  <2>2. <<>> \in Seq(Characters)
    OBVIOUS
  <2> QED
    BY <2>1, <2>2 DEF LineInv, Characters
<1>2. LineInv => ArgvMatchesLine
  BY ArgumentsOf DEF LineInv, ArgvMatchesLine
<1> QED
  BY <1>1, <1>2, NextLineInv, PTL DEF Spec
=============================================================================
