--------------------------- MODULE RamdiskProofs ---------------------------
(***************************************************************************)
(* Proofs about Ramdisk for every block size, list of pages and access.    *)
(***************************************************************************)
EXTENDS Ramdisk, FiniteSetTheorems, TLAPS

(* Arithmetic of blocks. *)

\* An address is its block number times the block size plus its offset.
LEMMA DivMod ==
  ASSUME NEW a \in Nat, NEW b \in Nat \ {0}
  PROVE  /\ a \div b \in Nat /\ a % b \in 0 .. b - 1
         /\ a = b * (a \div b) + (a % b)
<1>1. a \div b \in Nat
  OBVIOUS
<1>2. a % b \in 0 .. b - 1
  OBVIOUS
<1>3. a = b * (a \div b) + (a % b)
  OBVIOUS
<1> QED
  BY <1>1, <1>2, <1>3

\* Block number and offset determine the address.
LEMMA DivModUnique ==
  ASSUME NEW a \in Nat, NEW c \in Nat, NEW b \in Nat \ {0},
         a \div b = c \div b, a % b = c % b
  PROVE  a = c
  BY DivMod

\* An address of the disk lies in one of its blocks, and no other does.
LEMMA BlockOfAddress ==
  ASSUME NEW n \in Nat, NEW a \in Nat, NEW b \in Nat \ {0}
  PROVE  a < n * b <=> a \div b \in 0 .. n - 1
<1> DEFINE q == a \div b
           r == a % b
<1>1. q \in Nat /\ r \in 0 .. b - 1 /\ a = b * q + r
  BY DivMod
<1> HIDE DEF q, r
<1>2. CASE q < n
  <2>1. b * q + b <= n * b
    BY <1>1, <1>2
  <2> QED
    BY <1>1, <1>2, <2>1 DEF q
<1>3. CASE q >= n
  <2>1. n * b <= b * q
    BY <1>1, <1>3
  <2> QED
    BY <1>1, <1>3, <2>1 DEF q
<1> QED
  BY <1>1, <1>2, <1>3

\* Max of a set of numbers up to n is one of them.
LEMMA MaxIsMember ==
  ASSUME NEW n \in Nat, NEW S, S \subseteq 1 .. n, S # {}
  PROVE  Max(S) \in S
<1> DEFINE T == {n - i : i \in S}
<1>1. T \subseteq Nat /\ T # {}
  <2>1. \A i \in S : n - i \in Nat
    OBVIOUS
  <2> QED
    BY <2>1
<1>2. PICK d \in T : \A e \in T : ~(<<e, d>> \in OpToRel(<, Nat))
  BY <1>1, WFMin, NatLessThanWellFounded
<1>3. PICK i \in S : d = n - i
  BY <1>2
<1>4. \A j \in S : i >= j
  <2> TAKE j \in S
  <2>1. ~(n - j < n - i)
    BY <1>1, <1>2, <1>3 DEF OpToRel
  <2> QED
    BY <2>1
<1> QED
  BY <1>4 DEF Max
-----------------------------------------------------------------------------
(* The inductive invariant. *)

\* While the kernel runs there is a pointer for every block and no more, the
\* list has its page exactly when there is a disk, and the pages of the blocks,
\* of the list and of others are different pages.
DiskInv ==
  Running =>
    /\ block_size \in 0 .. MaxBlocks
    /\ pointers \in [Blocks -> Page]
    /\ mem \in [Page -> [Offset -> Byte]]
    /\ IF block_size = 0 THEN list = {} ELSE \E l \in Page : list = {l}
    /\ foreign \subseteq Page
    /\ \A a, b \in Blocks : a # b => pointers[a] # pointers[b]
    /\ \A b \in Blocks : pointers[b] \notin list \cup foreign
    /\ list \cap foreign = {}

\* No ramdisk yet.
LEMMA InitDiskInv == Init => DiskInv
<1> SUFFICES ASSUME Init PROVE DiskInv
  OBVIOUS
<1>1. block_size = 0 /\ Blocks = {} /\ pointers = <<>>
  BY DEF Init, Blocks, NoPointers
<1>2. pointers \in [Blocks -> Page]
  BY <1>1
<1> QED
  BY <1>1, <1>2, MaxBlocksAssumption DEF Init, DiskInv

\* The number of blocks of an accepted size, and the pages it gets.
LEMMA NewDisk ==
  ASSUME DiskInv, NEW size \in DiskSizes, ramdisk_init(size)
  PROVE  /\ block_size = 0 /\ list = {}
         /\ block_size' \in 1 .. MaxBlocks
         /\ \E l \in FreePages :
              /\ list' = {l}
              /\ pointers' \in [Blocks' -> FreePages \ {l}]
              /\ \A a, b \in Blocks' : a # b => pointers'[a] # pointers'[b]
<1> DEFINE n == size \div BlockSize
<1>1. size \in Nat /\ BlockSize \in Nat \ {0}
  BY AccessAssumption, WordSizeAssumption, BlockSizeAssumption
<1>2. /\ size # 0 /\ size % BlockSize = 0 /\ n <= MaxBlocks
      /\ block_size = 0 /\ list = {} /\ block_size' = n
  BY DEF ramdisk_init, Fresh
<1>3. n \in Nat /\ size = BlockSize * n
  BY <1>1, <1>2, DivMod
<1>4. n \in 1 .. MaxBlocks
  BY <1>1, <1>2, <1>3, MaxBlocksAssumption
<1>5. Blocks' = 0 .. n - 1
  BY <1>2 DEF Blocks
<1>6. PICK l \in FreePages : \E p \in [0 .. n - 1 -> FreePages \ {l}] :
         /\ \A a, b \in DOMAIN p : a # b => p[a] # p[b]
         /\ list' = {l}
         /\ pointers' = p
  BY DEF ramdisk_init
<1> HIDE DEF n
<1> QED
  BY <1>2, <1>4, <1>5, <1>6

\* Each function of ramdisk.c, and the rest of the kernel, preserves the
\* invariant.
LEMMA NextDiskInv == DiskInv /\ [Next]_vars => DiskInv'
<1> SUFFICES ASSUME DiskInv, [Next]_vars, Running' PROVE DiskInv'
  BY DEF DiskInv
<1>1. CASE UNCHANGED vars
  BY <1>1 DEF vars, disk, DiskInv, Blocks, Running
<1>2. ASSUME NEW size \in DiskSizes, ramdisk_init(size) PROVE DiskInv'
  <2>1. /\ block_size = 0 /\ list = {}
        /\ block_size' \in 1 .. MaxBlocks
    BY <1>2, NewDisk
  <2>2. PICK l \in FreePages :
              /\ list' = {l}
              /\ pointers' \in [Blocks' -> FreePages \ {l}]
              /\ \A a, b \in Blocks' : a # b => pointers'[a] # pointers'[b]
    BY <1>2, NewDisk
  <2>3. Running /\ UNCHANGED <<mem, foreign, panicked>>
    BY <1>2 DEF ramdisk_init, Fresh
  <2>4. FreePages \subseteq Page /\ FreePages \cap foreign = {}
    BY DEF FreePages, Lent
  <2> QED
    BY <2>1, <2>2, <2>3, <2>4, MaxBlocksAssumption DEF DiskInv, Running
<1>3. ASSUME NEW size \in DiskSizes,
             ramdisk_init_rejects(size) \/ ramdisk_init_fails(size)
      PROVE  FALSE
  BY <1>3 DEF ramdisk_init_rejects, ramdisk_init_fails, Panic, Running
<1>4. CASE ramdisk_destroy
  <2>1. /\ block_size' = 0 /\ pointers' = <<>> /\ list' = {} /\ Running
        /\ UNCHANGED <<mem, foreign, panicked>>
    BY <1>4 DEF ramdisk_destroy, NoPointers
  <2>2. Blocks' = {}
    BY <2>1 DEF Blocks
  <2>3. pointers' \in [Blocks' -> Page]
    BY <2>1, <2>2
  <2> QED
    BY <2>1, <2>2, <2>3, MaxBlocksAssumption DEF DiskInv
<1>5. CASE not_initialized
  BY <1>5 DEF not_initialized, Panic, Running
<1>6. ASSUME NEW start \in Start, NEW data \in Data, ramdisk_write(start, data)
      PROVE  DiskInv'
  <2>1. Running /\ UNCHANGED <<block_size, pointers, list, foreign, panicked>>
    BY <1>6 DEF ramdisk_write, disk
  <2>2. mem' \in [Page -> [Offset -> Byte]]
    <3>1. CASE Checked(start, Len(data)) # 0
      BY <1>6, <2>1, <3>1 DEF ramdisk_write, DiskInv
    <3>2. CASE Checked(start, Len(data)) = 0
      <4> DEFINE L(p, o) == Landing(p, o, start, Len(data))
      <4>1. mem' = [p \in Page |-> [o \in Offset |->
                      IF L(p, o) = {} THEN mem[p][o] ELSE data[Max(L(p, o))]]]
        BY <1>6, <3>2 DEF ramdisk_write
      <4>2. ASSUME NEW p \in Page, NEW o \in Offset, L(p, o) # {}
            PROVE  data[Max(L(p, o))] \in Byte
        <5>1. data \in Seq(Byte) /\ Len(data) \in Nat
          BY AccessAssumption
        <5>2. L(p, o) \subseteq 1 .. Len(data)
          BY DEF Landing
        <5>3. Max(L(p, o)) \in 1 .. Len(data)
          BY <4>2, <5>1, <5>2, MaxIsMember
        <5> QED
          BY <5>1, <5>3
      <4> QED
        BY <2>1, <4>1, <4>2 DEF DiskInv
    <3> QED
      BY <3>1, <3>2
  <2> QED
    BY <2>1, <2>2 DEF DiskInv, Blocks
<1>7. ASSUME NEW start \in Start, NEW n \in Length, ramdisk_read(start, n)
      PROVE  DiskInv'
  BY <1>7 DEF ramdisk_read, disk, DiskInv, Blocks, Running
<1>8. CASE OthersTake
  <2>1. PICK p \in FreePages : foreign' = foreign \cup {p}
    BY <1>8 DEF OthersTake
  <2>2. p \in Page /\ p \notin list /\ \A b \in DOMAIN pointers : pointers[b] # p
    BY <2>1 DEF FreePages, Lent
  <2>3. Running /\ UNCHANGED <<block_size, pointers, list, mem, panicked>>
    BY <1>8 DEF OthersTake, disk
  <2> QED
    BY <2>1, <2>2, <2>3 DEF DiskInv, Blocks
<1>9. CASE OthersWrite
  <2>1. PICK p \in foreign, o \in Offset, b \in Byte :
          mem' = [mem EXCEPT ![p][o] = b]
    BY <1>9 DEF OthersWrite
  <2>2. Running /\ UNCHANGED <<block_size, pointers, list, foreign, panicked>>
    BY <1>9 DEF OthersWrite, disk
  <2>3. mem' \in [Page -> [Offset -> Byte]]
    BY <2>1, <2>2 DEF DiskInv
  <2> QED
    BY <2>2, <2>3 DEF DiskInv, Blocks
<1>10. CASE OthersReturn
  BY <1>10 DEF OthersReturn, disk, DiskInv, Blocks, Running
<1>11. CASE Halted
  BY <1>1, <1>11 DEF Halted
<1> QED
  BY <1>1, <1>2, <1>3, <1>4, <1>5, <1>6, <1>7, <1>8, <1>9, <1>10, <1>11
     DEF Next

\* The ramdisk holds one page more than it has blocks, or none, all different
\* and none of them anybody else's, after any calls of init and destroy.
THEOREM RamdiskOwnPages == Spec => []OwnPages
<1>1. DiskInv => OwnPages
  BY FS_EmptySet, FS_Singleton DEF DiskInv, OwnPages
<1> QED
  BY InitDiskInv, NextDiskInv, <1>1, PTL DEF Spec
-----------------------------------------------------------------------------
(* Ramdisk implements FlatDisk. *)

\* The row of bytes that the pages of the ramdisk make up: the mapping of the
\* refinement.
Row == IF Running
       THEN [a \in 0 .. block_size * BlockSize - 1 |->
               mem[pointers[a \div BlockSize]][a % BlockSize]]
       ELSE <<>>

\* The row is as long as its blocks together, and shorter than the address
\* space.
LEMMA RowSize ==
  ASSUME DiskInv, Running
  PROVE  /\ block_size * BlockSize \in Nat /\ block_size * BlockSize < WordSize
         /\ DOMAIN Row = 0 .. block_size * BlockSize - 1
         /\ Cardinality(DOMAIN Row) = block_size * BlockSize
<1> DEFINE n == block_size * BlockSize
<1>1. /\ block_size \in Nat /\ block_size <= MaxBlocks
      /\ BlockSize \in Nat /\ MaxBlocks \in Nat
      /\ WordSize \in Nat /\ MaxBlocks * BlockSize < WordSize
  BY BlockSizeAssumption, MaxBlocksAssumption, WordSizeAssumption DEF DiskInv
<1>2. n \in Nat /\ n <= MaxBlocks * BlockSize
  BY <1>1
<1>3. DOMAIN Row = 0 .. n - 1
  BY DEF Row
<1>4. n < WordSize
  BY <1>1, <1>2
<1> HIDE DEF n
<1>5. Cardinality(0 .. n - 1) = n
  BY <1>2, FS_Interval
<1> QED
  BY <1>2, <1>3, <1>4, <1>5 DEF n

\* Every address of the row is a byte of the page of one of its blocks.
LEMMA RowByte ==
  ASSUME DiskInv, Running, NEW a \in 0 .. block_size * BlockSize - 1
  PROVE  /\ a \in Nat
         /\ a \div BlockSize \in Blocks /\ a % BlockSize \in Offset
         /\ pointers[a \div BlockSize] \in Page
<1>1. /\ block_size \in Nat /\ BlockSize \in Nat \ {0} /\ a \in Nat
      /\ a < block_size * BlockSize
  BY BlockSizeAssumption, RowSize DEF DiskInv
<1>2. a \div BlockSize \in Blocks /\ a % BlockSize \in Offset
  BY <1>1, BlockOfAddress, DivMod DEF Blocks, Offset
<1> QED
  BY <1>1, <1>2 DEF DiskInv

\* The row of a disk with blocks holds a byte.
LEMMA RowNonempty ==
  ASSUME NEW b \in Nat, b # 0
  PROVE  b * BlockSize \in Nat /\ b * BlockSize > 0
<1>1. BlockSize \in Nat /\ BlockSize >= 1 /\ b >= 1
  BY BlockSizeAssumption
<1>2. b * BlockSize >= b * 1
  BY <1>1
<1> QED
  BY <1>1, <1>2

\* An access is inside the flat disk when it ends inside the row.
LEMMA InsideRow ==
  ASSUME DiskInv, Running, block_size # 0, NEW start \in Nat, NEW n \in Nat
  PROVE  /\ DOMAIN Row # {}
         /\ Flat!Inside(start, n) <=> start + n <= block_size * BlockSize
<1>1. /\ DOMAIN Row = 0 .. block_size * BlockSize - 1
      /\ Cardinality(DOMAIN Row) = block_size * BlockSize
  BY RowSize
<1>2. block_size * BlockSize \in Nat /\ block_size * BlockSize > 0
  BY RowNonempty DEF DiskInv
<1>3. 0 \in 0 .. block_size * BlockSize - 1
  BY <1>2
<1>4. Flat!Size = Cardinality(DOMAIN Row)
  BY Zenon DEF Flat!Size, Flat!Cardinality, Cardinality, Row
<1> QED
  BY <1>1, <1>3, <1>4 DEF Flat!Inside

\* The two range checks of ramdisk_internal_io together accept exactly the
\* accesses that end inside the row, although the first one wraps.
LEMMA CheckedIsInside ==
  ASSUME DiskInv, Running, NEW start \in 0 .. WordSize - 1,
         NEW n \in 0 .. WordSize - 1
  PROVE  Checked(start, n) = 0 <=> start + n <= block_size * BlockSize
<1> DEFINE N == block_size * BlockSize
           e == start + n
<1>1. N \in Nat /\ N < WordSize /\ WordSize \in Nat \ {0}
  BY RowSize, WordSizeAssumption
<1>2. e \in Nat /\ start \in Nat /\ n \in Nat
  BY <1>1
<1>3. Checked(start, n) = 0 <=> ~(e % WordSize > N) /\ ~(start > WordSize - 1 - n)
  BY DEF Checked, OUT_OF_BOUNDS, OVERFLOW
<1>4. start > WordSize - 1 - n <=> e >= WordSize
  BY <1>1, <1>2
<1> HIDE DEF N, e
<1>5. e < WordSize => e % WordSize = e
  BY <1>1, <1>2
<1> QED
  BY <1>1, <1>2, <1>3, <1>4, <1>5 DEF N, e

\* The only byte of an accepted access that lands on an address of the row is
\* the one for that address: no two blocks share a page.
LEMMA LandingOnRow ==
  ASSUME DiskInv, Running, NEW start \in Nat, NEW n \in Nat,
         start + n <= block_size * BlockSize,
         NEW a \in 0 .. block_size * BlockSize - 1
  PROVE  Landing(pointers[a \div BlockSize], a % BlockSize, start, n)
           = {i \in 1 .. n : start + i - 1 = a}
<1> DEFINE p == pointers[a \div BlockSize]
<1>1. /\ block_size * BlockSize \in Nat /\ block_size * BlockSize < WordSize
      /\ WordSize \in Nat \ {0} /\ BlockSize \in Nat \ {0}
  BY RowSize, WordSizeAssumption, BlockSizeAssumption
<1>2. ASSUME NEW i \in 1 .. n
      PROVE  LET addr == (start + i - 1) % WordSize
             IN  /\ BlockNumber(addr) \in Blocks
                 /\ (pointers[BlockNumber(addr)] = p
                       /\ BlockOffset(addr) = a % BlockSize)
                     <=> start + i - 1 = a
  <2> DEFINE c == start + i - 1
  <2>1. c \in 0 .. block_size * BlockSize - 1 /\ c \in Nat /\ c < WordSize
    BY <1>1
  <2> HIDE DEF c
  <2>2. c % WordSize = c
    BY <1>1, <2>1
  <2>3. /\ c \div BlockSize \in Blocks /\ a \div BlockSize \in Blocks
        /\ a \in Nat
    BY <2>1, RowByte
  <2>4. pointers[c \div BlockSize] = p <=> c \div BlockSize = a \div BlockSize
    BY <2>3 DEF DiskInv
  <2>5. c = a <=> c \div BlockSize = a \div BlockSize /\ c % BlockSize = a % BlockSize
    BY <1>1, <2>1, <2>3, DivModUnique
  <2> QED
    BY <2>2, <2>3, <2>4, <2>5 DEF BlockNumber, BlockOffset, c
<1> QED
  BY <1>2 DEF Landing

\* A panic is the failure of the flat disk.
LEMMA PanicFails ==
  ASSUME Running, ~Running', UNCHANGED answer
  PROVE  Flat!Fail
<1>1. DOMAIN <<>> = {}
  OBVIOUS
<1> QED
  BY <1>1 DEF Flat!Fail

\* A step that leaves the bytes of the blocks alone is no step of the flat disk.
LEMMA SameRow ==
  ASSUME Row' = Row, UNCHANGED <<answer, panicked>>
  PROVE  UNCHANGED Flat!vars
  BY DEF Flat!vars, Row, Running

\* A write changes the bytes of the row it is for and no others.
LEMMA WriteIsFlat ==
  ASSUME DiskInv, NEW start \in Start, NEW data \in Data,
         ramdisk_write(start, data)
  PROVE  Flat!Write(start, data)
<1> DEFINE n == Len(data)
           N == block_size * BlockSize
<1>1. /\ start \in 0 .. WordSize - 1 /\ n \in 0 .. WordSize - 1
      /\ start \in Nat /\ n \in Nat
      /\ DOMAIN data = 1 .. n
  BY AccessAssumption, WordSizeAssumption
<1>2. Running /\ block_size # 0
      /\ UNCHANGED <<block_size, pointers, panicked>>
  BY DEF ramdisk_write, disk
<1>3. Running'
  BY <1>2 DEF Running
<1>4. /\ N \in Nat /\ DOMAIN Row = 0 .. N - 1 /\ Cardinality(DOMAIN Row) = N
  BY <1>2, RowSize
<1>5. /\ DOMAIN Row # {}
      /\ Flat!Inside(start, n) <=> start + n <= N
  BY <1>1, <1>2, InsideRow
<1>6. Checked(start, n) = 0 <=> start + n <= N
  BY <1>1, <1>2, CheckedIsInside
<1>7. Row' = [a \in 0 .. N - 1 |-> mem'[pointers[a \div BlockSize]][a % BlockSize]]
  BY <1>2, <1>3 DEF Row
<1>8. Flat!Inside(start, n) <=> start + n <= N
  BY <1>5
<1>9. CASE start + n <= N
  <2>1. ASSUME NEW a \in 0 .. N - 1
        PROVE  Row'[a] = IF a - start + 1 \in DOMAIN data
                         THEN data[a - start + 1] ELSE Row[a]
    <3> DEFINE p == pointers[a \div BlockSize]
               o == a % BlockSize
               L == Landing(p, o, start, n)
    <3>1. a \in Nat /\ p \in Page /\ o \in Offset
      BY <1>2, RowByte
    <3>2. L = {i \in 1 .. n : start + i - 1 = a}
      BY <1>1, <1>2, <1>9, LandingOnRow
    <3>3. mem'[p][o] = IF L = {} THEN mem[p][o] ELSE data[Max(L)]
      BY <1>6, <1>9, <3>1 DEF ramdisk_write
    <3>4. Row'[a] = mem'[p][o] /\ Row[a] = mem[p][o]
      BY <1>2, <1>7 DEF Row
    <3> HIDE DEF p, o, L
    <3>5. CASE a - start + 1 \in 1 .. n
      <4>1. L = {a - start + 1}
        BY <1>1, <3>1, <3>2, <3>5
      <4>2. Max(L) = a - start + 1
        BY <1>1, <3>1, <4>1 DEF Max
      <4> QED
        BY <1>1, <3>3, <3>4, <3>5, <4>1, <4>2
    <3>6. CASE a - start + 1 \notin 1 .. n
      <4>1. L = {}
        BY <1>1, <3>1, <3>2, <3>6
      <4> QED
        BY <1>1, <3>3, <3>4, <3>6, <4>1
    <3> QED
      BY <3>5, <3>6
  <2>2. Row' = [a \in DOMAIN Row |-> IF a - start + 1 \in DOMAIN data
                                     THEN data[a - start + 1] ELSE Row[a]]
    <3> DEFINE g == [a \in 0 .. N - 1 |-> IF a - start + 1 \in DOMAIN data
                                     THEN data[a - start + 1] ELSE Row[a]]
    <3>1. \A a \in 0 .. N - 1 : Row'[a] = g[a]
      BY <2>1
    <3>2. Row' = g
      BY <1>7, <3>1
    <3> QED
      BY <1>4, <3>2
  <2>3. answer' = Flat!Answer("write", start, n, TRUE, data)
    BY <1>6, <1>9 DEF ramdisk_write, Answer, Flat!Answer
  <2> QED
    BY <1>2, <1>3, <1>5, <1>8, <1>9, <2>2, <2>3 DEF Flat!Write, Row
<1>10. CASE ~(start + n <= N)
  <2>1. mem' = mem
    BY <1>6, <1>10 DEF ramdisk_write
  <2>2. Row' = Row
    BY <1>2, <1>7, <2>1 DEF Row
  <2>3. ~Flat!Inside(start, n)
    BY <1>8, <1>10
  <2>4. answer' = Flat!Answer("write", start, n, FALSE, data)
    BY <1>6, <1>10 DEF ramdisk_write, Answer, Flat!Answer
  <2>5. Flat!Inside(start, n) = FALSE
    BY <2>3 DEF Flat!Inside
  <2>6. answer' = Flat!Answer("write", start, n, Flat!Inside(start, n), data)
    BY <2>4, <2>5, Zenon
  <2> QED
    BY <1>2, <1>3, <1>5, <2>2, <2>3, <2>6 DEF Flat!Write, Row
<1> QED
  BY <1>9, <1>10

\* A read returns the bytes of the row.
LEMMA ReadIsFlat ==
  ASSUME DiskInv, NEW start \in Start, NEW n \in Length, ramdisk_read(start, n)
  PROVE  Flat!Read(start, n)
<1> DEFINE N == block_size * BlockSize
           got == [i \in 1 .. n |-> mem[pointers[BlockNumber(start + i - 1)]]
                                      [BlockOffset(start + i - 1)]]
<1>1. /\ start \in 0 .. WordSize - 1 /\ n \in 0 .. WordSize - 1
      /\ start \in Nat /\ n \in Nat
  BY AccessAssumption, WordSizeAssumption
<1>2. Running /\ block_size # 0
      /\ UNCHANGED <<block_size, pointers, mem, panicked>>
      /\ answer' = Answer("read", start, n, Checked(start, n) = 0, got)
  BY DEF ramdisk_read, disk
<1>3. Running' /\ Row' = Row
  BY <1>2 DEF Running, Row
<1>4. /\ N \in Nat /\ DOMAIN Row = 0 .. N - 1 /\ Cardinality(DOMAIN Row) = N
  BY <1>2, RowSize
<1>5. /\ DOMAIN Row # {}
      /\ Flat!Inside(start, n) <=> start + n <= N
  BY <1>1, <1>2, InsideRow
<1>6. Checked(start, n) = 0 <=> start + n <= N
  BY <1>1, <1>2, CheckedIsInside
<1>7. Flat!Inside(start, n) <=> start + n <= N
  BY <1>5
<1>8. CASE start + n <= N
  <2>1. got = [i \in 1 .. n |-> Row[start + i - 1]]
    <3>1. ASSUME NEW i \in 1 .. n
          PROVE  got[i] = Row[start + i - 1]
      <4>1. start + i - 1 \in 0 .. N - 1
        BY <1>1, <1>4, <1>8
      <4> QED
        BY <1>2, <4>1 DEF Row, BlockNumber, BlockOffset
    <3> QED
      BY <3>1
  <2>2. answer' = Flat!Answer("read", start, n, TRUE,
                              [i \in 1 .. n |-> Row[start + i - 1]])
    BY <1>2, <1>6, <1>8, <2>1 DEF Answer, Flat!Answer
  <2> QED
    BY <1>2, <1>3, <1>5, <1>7, <1>8, <2>2 DEF Flat!Read, Row
<1>9. CASE ~(start + n <= N)
  <2>1. ~Flat!Inside(start, n)
    BY <1>7, <1>9
  <2>2. answer' = Flat!Answer("read", start, n, FALSE,
                              [i \in 1 .. n |-> Row[start + i - 1]])
    BY <1>2, <1>6, <1>9 DEF Answer, Flat!Answer
  <2>3. Flat!Inside(start, n) = FALSE
    BY <2>1 DEF Flat!Inside
  <2>4. answer' = Flat!Answer("read", start, n, Flat!Inside(start, n),
                              [i \in 1 .. n |-> Row[start + i - 1]])
    BY <2>2, <2>3, Zenon
  <2> QED
    BY <1>2, <1>3, <1>5, <2>4 DEF Flat!Read, Row
<1> QED
  BY <1>8, <1>9

\* Every step of Ramdisk is a step of FlatDisk or a stutter.
LEMMA NextFlat == DiskInv /\ [Next]_vars => [Flat!Next]_(Flat!vars)
<1> SUFFICES ASSUME DiskInv, [Next]_vars
             PROVE  Flat!Next \/ UNCHANGED Flat!vars
  OBVIOUS
<1> USE DEF Flat!Next
<1>1. CASE UNCHANGED vars
  BY <1>1, SameRow DEF vars, disk, Row, Running
<1>2. ASSUME NEW size \in DiskSizes, ramdisk_init(size) PROVE Flat!Create
  <2>1. block_size = 0 /\ block_size' \in 1 .. MaxBlocks
    BY <1>2, NewDisk
  <2>2. Running /\ UNCHANGED <<answer, panicked>>
    BY <1>2 DEF ramdisk_init, Fresh
  <2>3. Running' /\ DiskInv'
    BY <1>2, <2>2, NextDiskInv DEF Running
  <2>4. DOMAIN Row = {}
    BY <2>1, <2>2, BlockSizeAssumption DEF Row
  <2>5. /\ DOMAIN Row' = 0 .. block_size' * BlockSize - 1
        /\ block_size' * BlockSize \in Nat /\ block_size' * BlockSize > 0
    <3>1. DOMAIN Row' = 0 .. block_size' * BlockSize - 1
      BY <2>3 DEF Row
    <3>2. block_size' \in Nat /\ block_size' # 0
      BY <2>1, MaxBlocksAssumption
    <3> QED
      BY <3>1, <3>2, RowNonempty
  <2>6. ASSUME NEW a \in DOMAIN Row' PROVE a \in Nat /\ Row'[a] \in Byte
    <3>1. /\ a \in Nat
          /\ a % BlockSize \in Offset
          /\ pointers'[a \div BlockSize] \in Page
      <4>1. block_size' \in Nat /\ BlockSize \in Nat \ {0} /\ a \in Nat
            /\ a < block_size' * BlockSize
        BY <2>1, <2>5, <2>6, BlockSizeAssumption, MaxBlocksAssumption
      <4>2. a \div BlockSize \in Blocks' /\ a % BlockSize \in Offset
        BY <4>1, BlockOfAddress, DivMod DEF Blocks, Offset
      <4> QED
        BY <2>3, <4>1, <4>2 DEF DiskInv
    <3>2. Row'[a] = mem'[pointers'[a \div BlockSize]][a % BlockSize]
      BY <2>3, <2>5, <2>6 DEF Row
    <3>3. mem' \in [Page -> [Offset -> Byte]]
      BY <2>3 DEF DiskInv
    <3> QED
      BY <3>1, <3>2, <3>3
  <2>7. \A a \in DOMAIN Row' : \A b \in 0 .. a : b \in DOMAIN Row'
    <3> DEFINE N == block_size' * BlockSize
    <3>1. DOMAIN Row' = 0 .. N - 1 /\ N \in Nat
      BY <2>5
    <3> HIDE DEF N
    <3>2. \A a \in 0 .. N - 1 : \A b \in 0 .. a : b \in 0 .. N - 1
      BY <3>1
    <3> QED
      BY <3>1, <3>2
  <2>8. DOMAIN Row' # {}
    BY <2>1, <2>5, BlockSizeAssumption, MaxBlocksAssumption
  <2> QED
    BY <2>2, <2>3, <2>4, <2>6, <2>7, <2>8 DEF Flat!Create, Row
<1>3. ASSUME NEW size \in DiskSizes,
             ramdisk_init_rejects(size) \/ ramdisk_init_fails(size)
      PROVE  Flat!Fail
  BY <1>3, PanicFails
     DEF ramdisk_init_rejects, ramdisk_init_fails, Fresh, Panic, Running
<1>4. CASE ramdisk_destroy
  <2>1. /\ Running /\ block_size # 0 /\ block_size' = 0
        /\ UNCHANGED <<answer, panicked>>
    BY <1>4 DEF ramdisk_destroy
  <2>2. DOMAIN Row # {}
    BY <2>1, InsideRow, 0 \in Nat
  <2>3. Running' /\ DOMAIN Row' = {}
    BY <2>1, BlockSizeAssumption DEF Row, Running
  <2>4. Flat!Destroy
    BY <2>1, <2>2, <2>3 DEF Flat!Destroy, Row
  <2> QED
    BY <2>4
<1>5. CASE not_initialized
  BY <1>5, PanicFails DEF not_initialized, Panic, Running
<1>6. ASSUME NEW start \in Start, NEW data \in Data, ramdisk_write(start, data)
      PROVE  Flat!Next
  BY <1>6, WriteIsFlat
<1>7. ASSUME NEW start \in Start, NEW n \in Length, ramdisk_read(start, n)
      PROVE  Flat!Next
  BY <1>7, ReadIsFlat
<1>8. CASE OthersTake \/ OthersReturn
  BY <1>8, SameRow DEF OthersTake, OthersReturn, disk, Row, Running
<1>9. CASE OthersWrite
  <2>1. PICK p \in foreign, o \in Offset, b \in Byte :
          mem' = [mem EXCEPT ![p][o] = b]
    BY <1>9 DEF OthersWrite
  <2>2. Running /\ UNCHANGED <<block_size, pointers, answer, panicked>>
    BY <1>9 DEF OthersWrite, disk
  <2>3. ASSUME NEW a \in 0 .. block_size * BlockSize - 1
        PROVE  mem'[pointers[a \div BlockSize]] = mem[pointers[a \div BlockSize]]
    <3>1. a \div BlockSize \in Blocks /\ pointers[a \div BlockSize] \in Page
      BY <2>2, RowByte
    <3>2. pointers[a \div BlockSize] # p
      BY <2>2, <3>1 DEF DiskInv
    <3> QED
      BY <2>1, <2>2, <3>1, <3>2 DEF DiskInv
  <2>4. Row' = Row
    BY <2>2, <2>3 DEF Row, Running
  <2> QED
    BY <2>2, <2>4, SameRow
<1>10. CASE Halted
  BY <1>1, <1>10 DEF Halted
<1> QED
  BY <1>1, <1>2, <1>3, <1>4, <1>5, <1>6, <1>7, <1>8, <1>9, <1>10 DEF Next

\* Scattered over its pages, with a range check that wraps, ramdisk.c is a flat
\* disk: it refuses exactly what does not fit, reads what was written, and
\* nobody else changes a byte.
THEOREM RamdiskImplementsFlatDisk == Spec => RamdiskIsFlat
<1>1. Init => Flat!Init
  <2> SUFFICES ASSUME Init PROVE Flat!Init
    OBVIOUS
  <2>1. 0 .. block_size * BlockSize - 1 = {} /\ Running
    BY BlockSizeAssumption DEF Init, Running
  <2>2. Row = <<>>
    BY <2>1 DEF Row
  <2> QED
    BY <2>1, <2>2 DEF Init, Flat!Init, Row
<1> QED
  BY InitDiskInv, NextDiskInv, <1>1, NextFlat, PTL
     DEF Spec, RamdiskIsFlat, Flat!Spec
=============================================================================
