------------------------------- MODULE Malloc -------------------------------
(***************************************************************************)
(* The kernel heap, kernel/libc/malloc.c: slabs of halving block sizes,    *)
(* each a growing list of entries carved out of pages taken from pmem.     *)
(* Pages are never given back.  pmem appears here as what PageAllocator    *)
(* promises: some page nobody holds, or a panic.                           *)
(***************************************************************************)
EXTENDS Integers, Sequences, FiniteSets, FiniteSetsExt

CONSTANTS PageSize,         \* PHYS_BLOCK_SIZE
          SlabCount,        \* SLAB_COUNT
          EntryCount,       \* SLAB_ENTRY_COUNT
          MaxPageCount,     \* SLAB_MAX_PAGE_COUNT
          NumPages          \* bound: pages pmem has left for everyone

ASSUME SizesAssumption ==
  /\ SlabCount \in Nat \ {0}
  /\ PageSize \in Nat \ {0} /\ PageSize % 2^(SlabCount - 1) = 0
  /\ \A s \in 0 .. SlabCount - 1 : PageSize \div 2^s \in 1 .. PageSize
  /\ EntryCount \in Nat \ {0} /\ MaxPageCount \in Nat \ {0}
  /\ NumPages \in Nat

Slab == 0 .. SlabCount - 1
Page == {n * PageSize : n \in 0 .. NumPages - 1}
Requests == 0 .. PageSize + 1

VARIABLES
  slabs,     \* slabs[s]: entries, free_entries, current_entry and pages
  foreign,   \* pages the rest of the kernel holds
  live,      \* history: blocks handed out by malloc and not freed
  refused,   \* history: the request malloc panicked on
  panicked

vars == <<slabs, foreign, live, refused, panicked>>

EmptySlab == [entries |-> <<>>, free_entries |-> 0, current_entry |-> 0,
              pages |-> <<>>]

Init == /\ slabs = [s \in Slab |-> EmptySlab]
        /\ foreign = {}
        /\ live = {}
        /\ refused = 0
        /\ panicked = "none"

Running == panicked = "none"

Panic(why) == panicked' = why /\ UNCHANGED <<slabs, foreign, live>>
-----------------------------------------------------------------------------
SlabSize(s) == PageSize \div 2^s

PagesOf(slab) == {slab.pages[n] : n \in DOMAIN slab.pages}

FreePages == (Page \ foreign) \ UNION {PagesOf(slabs[s]) : s \in Slab}

\* The last slab, hence the smallest block size, that the request fits.
SlabFor(size) == Max({s \in Slab : size <= SlabSize(s)})

\* additional_entries: the blocks of a page, cut to the room left for entries
Additional(s) ==
  Min({PageSize \div SlabSize(s), EntryCount - Len(slabs[s].entries)})

\* NeedsPage with a bug: the last page a slab may have is never taken.
NeedsPage_OneLess(s) == /\ slabs[s].free_entries = 0
                        /\ Additional(s) > 0
                        /\ Len(slabs[s].pages) < MaxPageCount - 1

NeedsPage(s) == /\ slabs[s].free_entries = 0
                /\ Additional(s) > 0
                /\ Len(slabs[s].pages) # MaxPageCount

\* The slab once alloc_new_page_if_needed has split page p: c_addr is
\* advanced before each entry takes it, so the first entry is not at p.
Grown(s, p) ==
  LET n == Additional(s)
  IN  [slabs[s] EXCEPT
         !.entries = @ \o [i \in 1 .. n |-> [addr |-> p + i * SlabSize(s),
                                             free |-> TRUE]],
         !.free_entries = @ + n,
         !.pages = Append(@, p)]

\* The slabs alloc_new_page_if_needed may leave.
Prepared(s) == IF NeedsPage(s) THEN {Grown(s, p) : p \in FreePages}
                               ELSE {slabs[s]}

\* malloc's search: the entries from current_entry on, cyclically.
At(slab, k) == (slab.current_entry + k) % Len(slab.entries)
FreeAt(slab, k) == slab.entries[At(slab, k) + 1].free
FreeOffsets(slab) == {k \in 0 .. Len(slab.entries) - 1 : FreeAt(slab, k)}

\* Taken with a bug: the entry stays free.
Taken_NotMarked(slab, e) == [slab EXCEPT !.current_entry = e,
                                         !.free_entries = @ - 1]

Taken(slab, e) == [slab EXCEPT !.entries[e + 1].free = FALSE,
                               !.current_entry = e,
                               !.free_entries = @ - 1]

malloc(size) ==
  /\ Running
  /\ size <= PageSize
  /\ LET s == SlabFor(size)
     IN  \E slab \in Prepared(s) :
           /\ slab.free_entries > 0
           /\ FreeOffsets(slab) # {}
           /\ LET e == At(slab, Min(FreeOffsets(slab)))
              IN  /\ slabs' = [slabs EXCEPT ![s] = Taken(slab, e)]
                  /\ live' = live \cup {[addr |-> slab.entries[e + 1].addr,
                                         slab |-> s]}
  /\ UNCHANGED <<foreign, refused, panicked>>

\* malloc's panics, in the order it meets them.
malloc_panics(size) ==
  /\ Running
  /\ refused' = size
  /\ \/ size > PageSize /\ Panic("too large")
     \/ /\ size <= PageSize
        /\ NeedsPage(SlabFor(size)) /\ FreePages = {}
        /\ Panic("pmem out of memory")
     \/ /\ size <= PageSize
        /\ \E slab \in Prepared(SlabFor(size)) :
             /\ slab.free_entries <= 0 \/ FreeOffsets(slab) = {}
             /\ Panic(IF slab.free_entries <= 0 THEN "no free memory"
                                              ELSE "search failed")

\* free_ptr_slab in the first slab that has the address, its last entry first
Owners(ptr) ==
  {s \in Slab : \E i \in DOMAIN slabs[s].entries :
                  slabs[s].entries[i].addr = ptr}
EntryOf(slab, ptr) == Max({i \in DOMAIN slab.entries :
                             slab.entries[i].addr = ptr})

\* Freed with a bug: the entry is not counted as free again.
Freed_NotCounted(slab, i) == [slab EXCEPT !.entries[i].free = TRUE,
                                          !.current_entry = i - 1]

Freed(slab, i) == [slab EXCEPT !.entries[i].free = TRUE,
                               !.current_entry = i - 1,
                               !.free_entries = @ + 1]

\* free of a block its caller still holds.
free(b) ==
  /\ Running
  /\ Owners(b.addr) # {}
  /\ LET s == Min(Owners(b.addr))
     IN  slabs' = [slabs EXCEPT ![s] = Freed(@, EntryOf(@, b.addr))]
  /\ live' = live \ {b}
  /\ UNCHANGED <<foreign, refused, panicked>>

\* "failed to free address": an address malloc never handed out.
free_panics(ptr) ==
  /\ Running
  /\ Owners(ptr) = {}
  /\ Panic("failed to free address")
  /\ UNCHANGED refused

\* The rest of the kernel (ramdisk, page tables, processes) takes a page.
TakeForeignPage ==
  /\ Running
  /\ \E p \in FreePages : foreign' = foreign \cup {p}
  /\ UNCHANGED <<slabs, live, refused, panicked>>

Halted == ~Running /\ UNCHANGED vars

Next ==
  \/ \E size \in Requests : malloc(size) \/ malloc_panics(size)
  \/ \E b \in live : free(b)
  \/ \E ptr \in Page : free_panics(ptr)
  \/ TakeForeignPage
  \/ Halted

Spec == Init /\ [][Next]_vars
-----------------------------------------------------------------------------
(* Properties. *)

\* free_entries, which decides whether malloc looks at all, is the number of
\* free entries; so the search of a slab that claims to have room finds some.
\* Entries and pages stay inside their arrays while a slab grows to its limits,
\* and the search begins at an entry that exists.
CountsAgree ==
  /\ \A s \in Slab : slabs[s].free_entries =
       Cardinality({i \in DOMAIN slabs[s].entries : slabs[s].entries[i].free})
  /\ \A s \in Slab : /\ Len(slabs[s].entries) <= EntryCount
                     /\ Len(slabs[s].pages) <= MaxPageCount
                     /\ slabs[s].current_entry \in
                          0 .. Max({0, Len(slabs[s].entries) - 1})
  /\ panicked # "search failed"

\* A block in use is an entry that is not free, of the slab it came from, and
\* free finds that very entry: addresses are unique over all slabs although
\* free does not know which slab a pointer belongs to.  And an entry that is
\* not free is a block in use: none is lost, or given to two callers.
LiveBlocksAreEntries ==
  /\ \A b \in live : /\ Owners(b.addr) = {b.slab}
                     /\ ~slabs[b.slab].entries[EntryOf(slabs[b.slab],
                                                       b.addr)].free
  /\ \A s \in Slab : \A i \in DOMAIN slabs[s].entries :
       /\ EntryOf(slabs[s], slabs[s].entries[i].addr) = i
       /\ ~slabs[s].entries[i].free =>
            [addr |-> slabs[s].entries[i].addr, slab |-> s] \in live

AllInUse(s) == \A i \in DOMAIN slabs[s].entries : ~slabs[s].entries[i].free

\* malloc gives up on a request only when every entry of the one slab it serves
\* that request from is in use, and that slab has all the entries or pages it
\* may ever have, or needs a page when all are taken.
GivesUpOnlyWhenFull ==
  LET s == SlabFor(refused)
  IN  /\ panicked = "no free memory" =>
           /\ AllInUse(s)
           /\ \/ Len(slabs[s].entries) = EntryCount
              \/ Len(slabs[s].pages) = MaxPageCount
      /\ panicked = "pmem out of memory" => AllInUse(s) /\ FreePages = {}

Bytes(b) == b.addr .. b.addr + SlabSize(b.slab) - 1

\* malloc.h:8 "Allocates dynamic memory on the heap": two blocks in use have
\* no byte in common.
LiveBlocksDisjoint ==
  \A b, c \in live : b # c => Bytes(b) \cap Bytes(c) = {}
=============================================================================
