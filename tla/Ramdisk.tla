------------------------------ MODULE Ramdisk ------------------------------
(***************************************************************************)
(* The ramdisk, kernel/drivers/ramdisk/ramdisk.c: a disk whose blocks are  *)
(* pages spread over memory, found through a page of pointers.  pmem       *)
(* appears as what PageAllocator promises; a page comes with whatever      *)
(* bytes its last holder left in it.  Addresses are uint32_t.              *)
(***************************************************************************)
EXTENDS Integers, Sequences, FiniteSets, FiniteSetsExt

CONSTANTS WordSize,   \* 2^32, scaled down for TLC
          BlockSize,  \* PHYS_BLOCK_SIZE
          MaxBlocks,  \* PHYS_BLOCK_SIZE / sizeof(uint32_t*)
          Page,       \* the pages pmem has
          Byte,
          DiskSizes,  \* the sizes ramdisk_init is called with
          Start, Data, Length   \* the accesses callers make

ASSUME WordSizeAssumption == WordSize \in Nat \ {0}
ASSUME BlockSizeAssumption == BlockSize \in Nat \ {0}
ASSUME MaxBlocksAssumption ==
  MaxBlocks \in Nat \ {0} /\ MaxBlocks * BlockSize < WordSize
ASSUME PageAssumption == IsFiniteSet(Page)
ASSUME AccessAssumption ==
  /\ DiskSizes \subseteq 0 .. WordSize - 1
  /\ Start \subseteq 0 .. WordSize - 1
  /\ Length \subseteq 0 .. WordSize - 1
  /\ \A d \in Data : d \in Seq(Byte) /\ Len(d) < WordSize

Offset == 0 .. BlockSize - 1

VARIABLES
  block_size,  \* ramdisk_block_size: the number of blocks
  pointers,    \* ramdisk_block_pointers: the page of each block
  list,        \* the page that holds the pointers, {} when the pointer is 0
  mem,         \* the bytes of every page
  foreign,     \* pages the rest of the kernel holds
  answer,      \* history: the last access, as in FlatDisk
  panicked

disk == <<block_size, pointers, list>>
vars == <<disk, mem, foreign, answer, panicked>>

NoPointers == <<>>
Blocks == 0 .. block_size - 1
Lent == {pointers[b] : b \in DOMAIN pointers} \cup list \cup foreign
FreePages == Page \ Lent

Init ==
  /\ block_size = 0 /\ pointers = NoPointers /\ list = {}
  /\ mem \in [Page -> [Offset -> Byte]]
  /\ foreign = {}
  /\ answer = [call |-> "none"]
  /\ panicked = "none"

Running == panicked = "none"

Panic(why) == panicked' = why /\ UNCHANGED <<pointers, list, mem, foreign, answer>>
-----------------------------------------------------------------------------
\* The panics before ramdisk_init has changed anything.
ramdisk_init_rejects(size) ==
  /\ Running
  /\ \/ size = 0 /\ Panic("zero size")
     \/ size # 0 /\ size % BlockSize # 0 /\ Panic("size not in blocks")
     \/ /\ size # 0 /\ size % BlockSize = 0 /\ block_size > 0
        /\ Panic("already initialized")
  /\ UNCHANGED block_size

Fresh(size) == /\ Running
               /\ size # 0 /\ size % BlockSize = 0
               /\ block_size = 0 /\ list = {}

\* ramdisk_init: a page for the list, then one for each block.
ramdisk_init(size) ==
  /\ Fresh(size)
  /\ size \div BlockSize <= MaxBlocks
  /\ \E l \in FreePages :
     \E p \in [0 .. (size \div BlockSize) - 1 -> FreePages \ {l}] :
       /\ \A a, b \in DOMAIN p : a # b => p[a] # p[b]
       /\ list' = {l}
       /\ pointers' = p
  /\ block_size' = size \div BlockSize
  /\ UNCHANGED <<mem, foreign, answer, panicked>>

\* The panics after it has set ramdisk_block_size.  pmem_alloc may give up
\* with one page still free.
ramdisk_init_fails(size) ==
  /\ Fresh(size)
  /\ block_size' = size \div BlockSize
  /\ \/ size \div BlockSize > MaxBlocks /\ Panic("too big")
     \/ /\ size \div BlockSize <= MaxBlocks
        /\ Cardinality(FreePages) <= (size \div BlockSize) + 1
        /\ Panic("out of memory")

\* ramdisk_destroy with a bug: ramdisk_block_pointers is not unset.
ramdisk_destroy_KeepsList ==
  /\ Running /\ block_size # 0 /\ list # {}
  /\ block_size' = 0 /\ pointers' = NoPointers
  /\ UNCHANGED <<list, mem, foreign, answer, panicked>>

ramdisk_destroy ==
  /\ Running /\ block_size # 0 /\ list # {}
  /\ block_size' = 0 /\ pointers' = NoPointers /\ list' = {}
  /\ UNCHANGED <<mem, foreign, answer, panicked>>

\* ramdisk_destroy and ramdisk_internal_io without a ramdisk.
not_initialized ==
  /\ Running /\ block_size = 0
  /\ Panic("not initialized")
  /\ UNCHANGED block_size
-----------------------------------------------------------------------------
(* ramdisk_internal_io. *)

OUT_OF_BOUNDS == 1
OVERFLOW == 2

\* Checked with a bug: >= instead of >, the last byte cannot be reached.
Checked_OffByOne(start, n) ==
  IF (start + n) % WordSize >= block_size * BlockSize THEN OUT_OF_BOUNDS
  ELSE IF start > WordSize - 1 - n THEN OVERFLOW
  ELSE 0

\* The result of its two range checks.
Checked(start, n) ==
  IF (start + n) % WordSize > block_size * BlockSize THEN OUT_OF_BOUNDS
  ELSE IF start > WordSize - 1 - n THEN OVERFLOW
  ELSE 0

BlockNumber(addr) == addr \div BlockSize
BlockOffset(addr) == addr % BlockSize

\* The bytes of the access that land in byte o of page p.
Landing(p, o, start, n) ==
  {i \in 1 .. n :
     LET addr == (start + i - 1) % WordSize
     IN  /\ BlockNumber(addr) \in Blocks
         /\ pointers[BlockNumber(addr)] = p
         /\ BlockOffset(addr) = o}

\* Where the access ends, whether it was accepted, and then its bytes.
Answer(call, start, n, ok, data) ==
  [call |-> call, end |-> start + n, ok |-> ok,
   data |-> IF ok THEN data ELSE <<>>]

ramdisk_write(start, data) ==
  /\ Running /\ block_size # 0
  /\ answer' = Answer("write", start, Len(data),
                      Checked(start, Len(data)) = 0, data)
  /\ mem' = IF Checked(start, Len(data)) # 0 THEN mem
            ELSE [p \in Page |-> [o \in Offset |->
                    LET L == Landing(p, o, start, Len(data))
                    IN  IF L = {} THEN mem[p][o] ELSE data[Max(L)]]]
  /\ UNCHANGED <<disk, foreign, panicked>>

ramdisk_read(start, n) ==
  /\ Running /\ block_size # 0
  /\ answer' = Answer("read", start, n, Checked(start, n) = 0,
                      [i \in 1 .. n |->
                         mem[pointers[BlockNumber(start + i - 1)]]
                            [BlockOffset(start + i - 1)]])
  /\ UNCHANGED <<disk, mem, foreign, panicked>>
-----------------------------------------------------------------------------
(* The rest of the kernel takes pages, writes them and gives them back. *)

OthersTake ==
  /\ Running
  /\ \E p \in FreePages : foreign' = foreign \cup {p}
  /\ UNCHANGED <<disk, mem, answer, panicked>>

OthersWrite ==
  /\ Running
  /\ \E p \in foreign, o \in Offset, b \in Byte : mem' = [mem EXCEPT ![p][o] = b]
  /\ UNCHANGED <<disk, foreign, answer, panicked>>

OthersReturn ==
  /\ Running
  /\ \E p \in foreign : foreign' = foreign \ {p}
  /\ UNCHANGED <<disk, mem, answer, panicked>>

Halted == ~Running /\ UNCHANGED vars

Next ==
  \/ \E size \in DiskSizes :
       ramdisk_init(size) \/ ramdisk_init_rejects(size) \/ ramdisk_init_fails(size)
  \/ ramdisk_destroy
  \/ not_initialized
  \/ \E start \in Start, data \in Data : ramdisk_write(start, data)
  \/ \E start \in Start, n \in Length : ramdisk_read(start, n)
  \/ OthersTake \/ OthersWrite \/ OthersReturn
  \/ Halted

Spec == Init /\ [][Next]_vars
-----------------------------------------------------------------------------
(* Properties. *)

\* The blocks, the list and the pages of others are all different pages; the
\* ramdisk holds one page more than it has blocks, or none.
OwnPages ==
  Running =>
    /\ \A a, b \in Blocks : a # b => pointers[a] # pointers[b]
    /\ \A b \in Blocks : pointers[b] \notin list \cup foreign
    /\ list \cap foreign = {}
    /\ Cardinality(list) = (IF block_size = 0 THEN 0 ELSE 1)

\* Scattered over its pages, the ramdisk is one row of bytes: an access is
\* refused exactly when it leaves the row, wrap-around of the address
\* included, and nobody else changes a byte of it.
Flat == INSTANCE FlatDisk WITH
          disk <- IF Running
                  THEN [a \in 0 .. block_size * BlockSize - 1 |->
                          mem[pointers[a \div BlockSize]][a % BlockSize]]
                  ELSE <<>>,
          down <- ~Running
RamdiskIsFlat == Flat!Spec
=============================================================================
