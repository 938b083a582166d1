-------------------------------- MODULE Pmem --------------------------------
(***************************************************************************)
(* The physical page allocator, kernel/drivers/memory/pmem.c, as one       *)
(* caller at a time sees it: every function is one step.  What happens     *)
(* when an interrupt allocates in the middle of pmem_alloc is in PmemIrq.  *)
(*                                                                         *)
(* Addresses are uint32_t in the code: here they are numbers below         *)
(* AddrSpace and every addition the code does on them wraps around it.     *)
(* The boot loader's memory map has 64-bit regions, of which               *)
(* pmem_initialize reads the low words only.                               *)
(***************************************************************************)
EXTENDS Integers, Sequences

CONSTANTS AddrSpace,     \* 2^32, scaled down for TLC
          BlockSize,     \* PHYS_BLOCK_SIZE
          ReservedMin,   \* MEM_RESERVED_SECTION_MIN
          MinMemSize,    \* MIN_MEM_SIZE
          MemoryMaps,    \* the memory maps GRUB may hand over
          KernelEnds     \* the end addresses the kernel image may have

ASSUME AddrSpaceAssumption == AddrSpace \in Nat \ {0}
ASSUME BlockSizeAssumption == BlockSize \in Nat /\ BlockSize >= 2
ASSUME ReservedMinAssumption == ReservedMin \in Nat
ASSUME MinMemSizeAssumption == MinMemSize \in Nat

MapEntry == [addr : Nat, len : Nat, available : BOOLEAN]

ASSUME MemoryMapsAssumption ==
  \A m \in MemoryMaps : m.valid \in BOOLEAN /\ m.entries \in Seq(MapEntry)
ASSUME KernelEndsAssumption == KernelEnds \subseteq 0 .. AddrSpace - 1

Addr == 0 .. AddrSpace - 1
NoMap == [valid |-> FALSE, entries |-> <<>>]

Panics == {"none", "no mbd", "no kernel end", "invalid map", "kernel too big",
           "invalid start", "length 0", "not enough memory",
           "not initialized", "out of memory", "underflow", "overflow",
           "already free"}

VARIABLES
  mbd,          \* pmem_mbd: the map of the boot loader
  mbd_set,      \* pmem_mbd # 0
  kernel_end,   \* pmem_kernel_reserved_end_addr
  initialized,  \* pmem_initialized
  main_start,   \* pmem_main_memory_start: the record bytes start here
  main_length,  \* pmem_main_memory_length
  alloc_start,  \* pmem_alloc_start: the pages start here
  size,         \* pmem_mgr_reserved_size: number of records and of pages
  curr,         \* pmem_curr_alloc_record
  record,       \* the record bytes: 0 free, 1 in use
  holders,      \* history: how many callers hold the page at an address
  panicked      \* why the kernel panicked, "none" while it runs

setup == <<mbd, mbd_set, kernel_end>>
layout == <<initialized, main_start, main_length, alloc_start, size>>
vars == <<setup, layout, curr, record, holders, panicked>>
-----------------------------------------------------------------------------
(* Conversions between record numbers and page addresses. *)

AlignDown(a) == a - (a % BlockSize)

\* pmem_entry_to_ptr: its own bound check (entry > size) cannot fire for the
\* record pmem_alloc passes, which Records below keeps under size.
EntryToPtr(entry) == (alloc_start + BlockSize * entry) % AddrSpace

\* pmem_ptr_to_entry, for a pointer that passed its two range checks.
PtrToEntry(ptr) == (ptr - alloc_start) \div BlockSize

PtrUnderflow(ptr) == alloc_start > ptr
\* PtrOverflow with a bug: measured from the start of the records.
PtrOverflow_WrongBase(ptr) == (main_start + main_length) % AddrSpace < ptr

PtrOverflow(ptr) == (alloc_start + main_length) % AddrSpace < ptr

Pages == {EntryToPtr(r) : r \in 0 .. size - 1}
-----------------------------------------------------------------------------
(* The layout pmem_initialize computes. *)

Low(n) == n % AddrSpace

\* The scan of the map: the first of the largest available regions, by the
\* low word of its length; entry 0 stands for "no region".
LargestRegion(m) ==
  LET Usable == {i \in DOMAIN m.entries : /\ m.entries[i].available
                                          /\ Low(m.entries[i].len) > 0}
      Better(i, j) == \/ Low(m.entries[i].len) > Low(m.entries[j].len)
                      \/ /\ Low(m.entries[i].len) = Low(m.entries[j].len)
                         /\ i < j
  IN  IF Usable = {} THEN 0
      ELSE CHOOSE i \in Usable : \A j \in Usable \ {i} : Better(i, j)

ScanStart(m) ==
  LET i == LargestRegion(m) IN IF i = 0 THEN 0 ELSE Low(m.entries[i].addr)
ScanLength(m) ==
  LET i == LargestRegion(m) IN IF i = 0 THEN 0 ELSE Low(m.entries[i].len)

\* "Not enough free space outside kernel!"
KernelTooBig(m, k) ==
  ScanStart(m) < k /\ k - ScanStart(m) > ScanLength(m)

\* The region once the kernel image is cut off its front.
RegionStart(m, k) == IF ScanStart(m) < k THEN k ELSE ScanStart(m)
RegionLength(m, k) == IF ScanStart(m) < k
                      THEN ScanLength(m) - (k - ScanStart(m))
                      ELSE ScanLength(m)

\* One record byte per block of the region, then the first page, aligned.
ZeroedRecords(len) == len \div BlockSize
\* FirstPage with a bug: rounded down onto the records.
FirstPage_NotPadded(start, len) ==
  AlignDown((start + ZeroedRecords(len)) % AddrSpace)

FirstPage(start, len) ==
  AlignDown((start + ZeroedRecords(len) + BlockSize) % AddrSpace)
\* PagesLength with a bug: the subtraction does not wrap like a uint32_t.
PagesLength_Signed(start, len) ==
  ((start + len) % AddrSpace) - FirstPage(start, len)

PagesLength(start, len) ==
  (((start + len) % AddrSpace) - FirstPage(start, len)) % AddrSpace

\* The checks that come last, when the layout is already in place.
FinalCheck(start, len) ==
  CASE start < ReservedMin -> "invalid start"
    [] start >= ReservedMin /\ PagesLength(start, len) = 0 -> "length 0"
    [] /\ start >= ReservedMin
       /\ PagesLength(start, len) # 0
       /\ PagesLength(start, len) < MinMemSize -> "not enough memory"
    [] OTHER -> "none"
-----------------------------------------------------------------------------
Init ==
  /\ mbd = NoMap /\ mbd_set = FALSE /\ kernel_end = 0
  /\ initialized = FALSE
  /\ main_start = 0 /\ main_length = 0 /\ alloc_start = 0 /\ size = 0
  /\ curr = 0
  /\ record = [r \in 0 .. size - 1 |-> 0]
  /\ holders = [a \in Addr |-> 0]
  /\ panicked = "none"

Running == panicked = "none"

Panic(why) == /\ panicked' = why
              /\ UNCHANGED <<setup, layout, curr, record, holders>>

\* pmem_set_mbd, called once by kernel_main before pmem_initialize.
pmem_set_mbd ==
  /\ Running /\ ~initialized /\ ~mbd_set
  /\ \E m \in MemoryMaps, k \in KernelEnds : mbd' = m /\ kernel_end' = k
  /\ mbd_set' = TRUE
  /\ UNCHANGED <<layout, curr, record, holders, panicked>>

\* pmem_initialize up to the point where it has a region: its early panics.
pmem_initialize_rejects ==
  /\ Running /\ ~initialized
  /\ \/ ~mbd_set /\ Panic("no mbd")
     \/ mbd_set /\ kernel_end = 0 /\ Panic("no kernel end")
     \/ /\ mbd_set /\ kernel_end # 0 /\ ~mbd.valid
        /\ Panic("invalid map")
     \/ /\ mbd_set /\ kernel_end # 0 /\ mbd.valid
        /\ KernelTooBig(mbd, kernel_end)
        /\ Panic("kernel too big")

\* pmem_initialize: record bytes past the ones it zeroes (there are some only
\* when the length wrapped) hold whatever the memory held.
pmem_initialize ==
  /\ Running /\ ~initialized
  /\ mbd_set /\ kernel_end # 0 /\ mbd.valid
  /\ ~KernelTooBig(mbd, kernel_end)
  /\ LET s == RegionStart(mbd, kernel_end)
         l == RegionLength(mbd, kernel_end)
         n == PagesLength(s, l) \div BlockSize
     IN  /\ main_start' = s
         /\ alloc_start' = FirstPage(s, l)
         /\ main_length' = PagesLength(s, l)
         /\ size' = n
         /\ \E garbage \in [ZeroedRecords(l) .. n - 1 -> {0, 1}] :
              record' = [r \in 0 .. n - 1 |->
                           IF r < ZeroedRecords(l) THEN 0 ELSE garbage[r]]
         /\ panicked' = FinalCheck(s, l)
         /\ initialized' = (FinalCheck(s, l) = "none")
  /\ UNCHANGED <<setup, curr, holders>>

\* The records pmem_alloc's loop looks at are the ones after curr, in cyclic
\* order; it stops when it is back at curr, which it never looks at.
Step(k) == (curr + k) % size
\* FreeAhead with a bug: the record is not looked at.
FreeAhead_Unchecked(k) == k \in 1 .. size - 1

\* FreeAhead with a bug: the search ends one record early.
FreeAhead_Short(k) == k \in 1 .. size - 2 /\ record[Step(k)] = 0

FreeAhead(k) == k \in 1 .. size - 1 /\ record[Step(k)] = 0
FirstFree(k) == FreeAhead(k) /\ \A j \in 1 .. k - 1 : ~FreeAhead(j)

\* pmem_alloc with a bug: it goes on after a panic.
pmem_alloc_AfterPanic ==
  /\ initialized
  /\ \E k \in 1 .. size - 1 :
       /\ FirstFree(k)
       /\ curr' = Step(k)
       /\ record' = [record EXCEPT ![Step(k)] = 1]
       /\ holders' = [holders EXCEPT ![EntryToPtr(Step(k))] = @ + 1]
  /\ UNCHANGED <<setup, layout, panicked>>

pmem_alloc ==
  /\ Running /\ initialized
  /\ \E k \in 1 .. size - 1 :
       /\ FirstFree(k)
       /\ curr' = Step(k)
       /\ record' = [record EXCEPT ![Step(k)] = 1]
       /\ holders' = [holders EXCEPT ![EntryToPtr(Step(k))] = @ + 1]
  /\ UNCHANGED <<setup, layout, panicked>>

\* pmem_alloc before initialization, and when its loop comes back to curr.
pmem_alloc_panics ==
  /\ Running
  /\ \/ ~initialized /\ Panic("not initialized")
     \/ /\ initialized
        /\ \A k \in 1 .. size - 1 : ~FreeAhead(k)
        /\ Panic("out of memory")

\* pmem_free of a page address, by a caller that holds the page.
pmem_free(ptr) ==
  /\ Running /\ initialized
  /\ holders[ptr] > 0
  /\ ~PtrUnderflow(ptr) /\ ~PtrOverflow(ptr)
  /\ record[PtrToEntry(ptr)] = 1
  /\ record' = [record EXCEPT ![PtrToEntry(ptr)] = 0]
  /\ holders' = [holders EXCEPT ![ptr] = @ - 1]
  /\ UNCHANGED <<setup, layout, curr, panicked>>

\* pmem_free of any page address, stale ones included: its three panics.
pmem_free_panics(ptr) ==
  /\ Running /\ initialized
  /\ \/ PtrUnderflow(ptr) /\ Panic("underflow")
     \/ ~PtrUnderflow(ptr) /\ PtrOverflow(ptr) /\ Panic("overflow")
     \/ /\ ~PtrUnderflow(ptr) /\ ~PtrOverflow(ptr)
        /\ record[PtrToEntry(ptr)] = 0
        /\ Panic("already free")

\* A panicked kernel does nothing more.
Halted == ~Running /\ UNCHANGED vars

Next ==
  \/ pmem_set_mbd
  \/ pmem_initialize_rejects
  \/ pmem_initialize
  \/ pmem_alloc
  \/ pmem_alloc_panics
  \/ \E ptr \in Pages : pmem_free(ptr) \/ pmem_free_panics(ptr)
  \/ Halted

Spec == Init /\ [][Next]_vars
-----------------------------------------------------------------------------
(* Properties. *)

TypeOK ==
  /\ mbd \in MemoryMaps \cup {NoMap}
  /\ mbd_set \in BOOLEAN /\ initialized \in BOOLEAN
  /\ kernel_end \in Addr /\ main_start \in Addr /\ alloc_start \in Addr
  /\ main_length \in Addr
  /\ size \in Nat
  /\ curr \in Nat /\ (curr = 0 \/ curr < size)
  /\ record \in [0 .. size - 1 -> {0, 1}]
  /\ holders \in [Addr -> Nat]
  /\ panicked \in Panics

\* No page is lent to two callers at once, and none is lent whose record says
\* it is free: the next pmem_alloc would lend it again.
PagesExclusive ==
  /\ \A a \in Addr : holders[a] > 0 => a \in Pages
  /\ \A r \in 0 .. size - 1 : holders[EntryToPtr(r)] <= record[r]

\* There is a record for every whole page and no more, and none before
\* pmem_initialize: the strengthening that makes PagesExclusive inductive,
\* for it keeps the pages from wrapping onto each other.
Records == /\ size = main_length \div BlockSize
           /\ Running /\ ~initialized => size = 0

Inv == TypeOK /\ Records /\ PagesExclusive

\* Every region of the map lies below 4 GiB, so that its low words are its
\* address and its length.
Below4G(m) == \A i \in DOMAIN m.entries :
                m.entries[i].addr + m.entries[i].len < AddrSpace

\* The region left for pages has room for the records and a page.
Ample(m, k) == RegionLength(m, k) >= 2 * BlockSize

InAvailableRegion(m, a) ==
  \E i \in DOMAIN m.entries : /\ m.entries[i].available
                              /\ m.entries[i].addr <= a
                              /\ a + BlockSize <= m.entries[i].addr
                                                   + m.entries[i].len

\* With a map below 4 GiB and room for a page, every page pmem can hand out
\* is a whole block of available memory, clear of the kernel image and of
\* the record bytes pmem keeps at the start of the region.
LayoutSound ==
  initialized /\ Below4G(mbd) /\ Ample(mbd, kernel_end) =>
    \A p \in Pages : /\ InAvailableRegion(mbd, p)
                     /\ p >= kernel_end
                     /\ p >= main_start + size

\* Whoever holds a page can give it back: the conversion from pointer to
\* record finds the record that pmem_alloc marked for it.
HeldPagesFreeable ==
  initialized /\ alloc_start + main_length < AddrSpace =>
    \A p \in Addr : holders[p] > 0 =>
      /\ ~PtrUnderflow(p) /\ ~PtrOverflow(p)
      /\ PtrToEntry(p) \in 0 .. size - 1
      /\ EntryToPtr(PtrToEntry(p)) = p
      /\ record[PtrToEntry(p)] = 1

\* A panic for lack of memory leaves at most one record free, the one the
\* search started from.
OutOfMemoryNearlyFull ==
  panicked = "out of memory" =>
    \A r \in 0 .. size - 1 : r # curr => record[r] = 1

\* pmem implements the abstract allocator: a page is lent while somebody
\* holds it.
Abstract == INSTANCE PageAllocator
              WITH Page <- Addr,
                   lent <- {a \in Addr : holders[a] > 0},
                   down <- ~Running
AbstractSpec == Abstract!Spec
=============================================================================
