----------------------------- MODULE PmemProofs -----------------------------
(***************************************************************************)
(* Proofs about Pmem for every address space, block size and memory map,   *)
(* and about PmemIrq, where handlers interrupt pmem_alloc.                 *)
(***************************************************************************)
EXTENDS PmemIrq, FiniteSetTheorems, WellFoundedInduction, TLAPS

(* Arithmetic of the conversions.                                          *)

\* Division rounds down: a block count times the block size fits the length.
LEMMA DivBounds ==
  ASSUME NEW n \in Nat, NEW b \in Nat \ {0}
  PROVE  /\ n \div b \in Nat
         /\ b * (n \div b) <= n
         /\ n < b * (n \div b) + b
  OBVIOUS

\* A remainder lies below the divisor.
LEMMA ModRange ==
  ASSUME NEW n \in Int, NEW b \in Nat \ {0}
  PROVE  n % b \in 0 .. b - 1
  OBVIOUS

\* One addition of two words wraps at most once.
LEMMA ModWrapsOnce ==
  ASSUME NEW n \in Nat, NEW b \in Nat \ {0}, n < 2 * b
  PROVE  n % b = IF n < b THEN n ELSE n - b
  OBVIOUS

\* A number that fits the word is not changed by it.
LEMMA ModSmall ==
  ASSUME NEW n \in Nat, NEW b \in Nat \ {0}, n < b
  PROVE  n % b = n
  OBVIOUS

\* Division keeps the order.
LEMMA DivMonotone ==
  ASSUME NEW n \in Nat, NEW m \in Nat, NEW b \in Nat \ {0}, n <= m
  PROVE  n \div b <= m \div b
<1> DEFINE x == n \div b
           y == m \div b
<1>1. /\ x \in Nat /\ y \in Nat
      /\ b * x <= n /\ m < b * y + b
  BY DivBounds
<1> HIDE DEF x, y
<1>2. b * x < b * y + b
  BY <1>1
<1>3. CASE y < x
  <2>1. b * y + b <= b * x
    BY <1>1, <1>3
  <2> QED
    BY <1>1, <1>2, <2>1
<1> QED
  BY <1>1, <1>3 DEF x, y

\* Consecutive records are a whole block apart.
LEMMA BlocksApart ==
  ASSUME NEW n \in Nat, NEW m \in Nat, NEW b \in Nat \ {0}, n < m
  PROVE  b * n + b <= b * m
  OBVIOUS

\* The address of record r's page, with the single wrap written out.
LEMMA PageAddress ==
  ASSUME TypeOK, Records, NEW r \in 0 .. size - 1
  PROVE  LET b == BlockSize * r
         IN  /\ b \in Nat
             /\ b + BlockSize <= main_length
             /\ EntryToPtr(r) = IF alloc_start + b < AddrSpace
                                THEN alloc_start + b
                                ELSE alloc_start + b - AddrSpace
             /\ EntryToPtr(r) \in Addr
<1> DEFINE b == BlockSize * r
           l == BlockSize * size
<1>1. /\ BlockSize \in Nat \ {0} /\ AddrSpace \in Nat \ {0}
      /\ main_length \in Nat /\ main_length < AddrSpace
      /\ alloc_start \in Nat /\ alloc_start < AddrSpace
      /\ r \in Nat /\ size \in Nat /\ r < size
  BY BlockSizeAssumption, AddrSpaceAssumption DEF TypeOK, Addr
<1>2. l <= main_length
  <2>1. BlockSize * (main_length \div BlockSize) <= main_length
    BY <1>1, DivBounds
  <2> QED
    BY <2>1 DEF Records
<1>3. b \in Nat /\ l \in Nat /\ b + BlockSize <= l
  BY <1>1, BlocksApart
<1>4. EntryToPtr(r) = (alloc_start + b) % AddrSpace
  BY DEF EntryToPtr
<1> HIDE DEF b, l
<1>5. EntryToPtr(r) = IF alloc_start + b < AddrSpace
                      THEN alloc_start + b
                      ELSE alloc_start + b - AddrSpace
  <2> DEFINE n == alloc_start + b
  <2>1. n \in Nat /\ n < 2 * AddrSpace
    BY <1>1, <1>2, <1>3
  <2>2. EntryToPtr(r) = n % AddrSpace
    BY <1>4
  <2>3. AddrSpace \in Nat \ {0}
    BY <1>1
  <2> HIDE DEF n
  <2>4. n % AddrSpace = IF n < AddrSpace THEN n ELSE n - AddrSpace
    BY <2>1, <2>3, ModWrapsOnce
  <2> QED
    BY <1>1, <1>3, <2>2, <2>4 DEF n
<1>6. b + BlockSize <= main_length /\ EntryToPtr(r) \in 0 .. AddrSpace - 1
  BY <1>1, <1>2, <1>3, <1>5
<1> QED
  BY <1>3, <1>5, <1>6 DEF b, Addr

\* pmem_entry_to_ptr gives different records different pages, also when the
\* pages run past the end of the address space.
LEMMA EntryToPtrInjective ==
  ASSUME TypeOK, Records,
         NEW r \in 0 .. size - 1, NEW q \in 0 .. size - 1, r # q
  PROVE  EntryToPtr(r) # EntryToPtr(q)
<1> DEFINE br == BlockSize * r
           bq == BlockSize * q
<1>1. /\ BlockSize \in Nat \ {0} /\ AddrSpace \in Nat \ {0}
      /\ main_length \in Nat /\ main_length < AddrSpace
      /\ alloc_start \in Nat /\ r \in Nat /\ q \in Nat
  BY BlockSizeAssumption, AddrSpaceAssumption DEF TypeOK, Addr
<1>2. br + BlockSize <= bq \/ bq + BlockSize <= br
  BY <1>1, BlocksApart
<1>3. /\ br \in Nat
      /\ br + BlockSize <= main_length
      /\ EntryToPtr(r) = IF alloc_start + br < AddrSpace
                         THEN alloc_start + br
                         ELSE alloc_start + br - AddrSpace
  BY PageAddress
<1>4. /\ bq \in Nat
      /\ bq + BlockSize <= main_length
      /\ EntryToPtr(q) = IF alloc_start + bq < AddrSpace
                         THEN alloc_start + bq
                         ELSE alloc_start + bq - AddrSpace
  BY PageAddress
<1> HIDE DEF br, bq
<1> QED
  BY <1>1, <1>2, <1>3, <1>4

\* pmem_ptr_to_entry undoes pmem_entry_to_ptr on every page address that
\* passes its two range checks.
LEMMA PtrToEntryInverse ==
  ASSUME TypeOK, Records, NEW r \in 0 .. size - 1,
         ~PtrUnderflow(EntryToPtr(r)), ~PtrOverflow(EntryToPtr(r))
  PROVE  PtrToEntry(EntryToPtr(r)) = r
<1> DEFINE b == BlockSize * r
<1>1. /\ BlockSize \in Nat \ {0} /\ AddrSpace \in Nat \ {0}
      /\ main_length \in Nat /\ main_length < AddrSpace
      /\ alloc_start \in Nat /\ alloc_start < AddrSpace /\ r \in Nat
  BY BlockSizeAssumption, AddrSpaceAssumption DEF TypeOK, Addr
<1>2. /\ b \in Nat
      /\ b + BlockSize <= main_length
      /\ EntryToPtr(r) = IF alloc_start + b < AddrSpace
                         THEN alloc_start + b
                         ELSE alloc_start + b - AddrSpace
  BY PageAddress
<1>3. EntryToPtr(r) = alloc_start + b
  <2> HIDE DEF b
  <2> QED
    BY <1>1, <1>2 DEF PtrUnderflow
<1>4. EntryToPtr(r) - alloc_start = b
  <2> HIDE DEF b
  <2> QED
    BY <1>1, <1>2, <1>3
<1>5. b \div BlockSize = r
  BY <1>1
<1> QED
  BY <1>4, <1>5 DEF PtrToEntry
-----------------------------------------------------------------------------
(* Typing of the layout. *)

\* Any set of natural numbers that is not empty has a least element.
LEMMA LeastNatural ==
  ASSUME NEW S, S \subseteq Nat, S # {}
  PROVE  \E n \in S : \A m \in S : n <= m
<1>1. PICK n \in S : \A m \in S : ~(<<m, n>> \in OpToRel(<, Nat))
  BY WFMin, NatLessThanWellFounded
<1>2. \A m \in S : ~(m < n)
  BY <1>1 DEF OpToRel
<1> QED
  BY <1>2

\* The scan of the memory map ends with one of its entries or with none.
LEMMA LargestRegionType ==
  ASSUME NEW m, m.entries \in Seq(MapEntry)
  PROVE  LargestRegion(m) # 0 => /\ LargestRegion(m) \in DOMAIN m.entries
                                 /\ m.entries[LargestRegion(m)].available
<1> DEFINE Usable == {i \in DOMAIN m.entries :
                        m.entries[i].available /\ Low(m.entries[i].len) > 0}
           L(i) == Low(m.entries[i].len)
           Better(i, j) == L(i) > L(j) \/ (L(i) = L(j) /\ i < j)
<1>1. \A i \in DOMAIN m.entries : L(i) \in Addr /\ i \in Nat
  <2>1. ASSUME NEW es, es \in Seq(MapEntry), NEW i \in DOMAIN es
        PROVE  es[i].len \in Int /\ i \in Nat
    <3>1. i \in Nat /\ es[i] \in MapEntry
      BY <2>1
    <3> QED
      BY <3>1 DEF MapEntry
  <2> QED
    BY <2>1, ModRange, AddrSpaceAssumption DEF Low, Addr
<1>2. SUFFICES ASSUME Usable # {}
               PROVE  \E i \in Usable : \A j \in Usable \ {i} : Better(i, j)
  BY Zenon DEF LargestRegion
<1>3. PICK d \in {AddrSpace - L(i) : i \in Usable} :
        \A e \in {AddrSpace - L(i) : i \in Usable} : d <= e
  <2>1. {AddrSpace - L(i) : i \in Usable} \subseteq Nat
    BY <1>1, AddrSpaceAssumption DEF Addr
  <2> QED
    BY <2>1, <1>2, LeastNatural
<1>4. PICK i \in {k \in Usable : AddrSpace - L(k) = d} :
        \A j \in {k \in Usable : AddrSpace - L(k) = d} : i <= j
  BY <1>1, <1>3, LeastNatural
<1>5. ASSUME NEW j \in Usable \ {i}
      PROVE  Better(i, j)
  <2>1. L(i) \in Int /\ L(j) \in Int /\ i \in Nat /\ j \in Nat
    BY <1>1 DEF Addr
  <2>2. AddrSpace - L(i) = d /\ d <= AddrSpace - L(j)
    BY <1>3, <1>4
  <2>3. AddrSpace - L(j) = d => i <= j
    BY <1>4
  <2> HIDE DEF L
  <2> QED
    BY <2>1, <2>2, <2>3, AddrSpaceAssumption
<1> QED
  BY <1>5

\* Everything pmem_initialize computes is an address or a length below the
\* size of the address space.
LEMMA LayoutType ==
  ASSUME NEW m \in MemoryMaps \cup {NoMap}, NEW k \in Addr,
         ~KernelTooBig(m, k)
  PROVE  LET s == RegionStart(m, k)
             l == RegionLength(m, k)
         IN  /\ s \in Addr /\ l \in Addr
             /\ FirstPage(s, l) \in Addr
             /\ PagesLength(s, l) \in Addr
<1> DEFINE s == RegionStart(m, k)
           l == RegionLength(m, k)
<1>1. m.entries \in Seq(MapEntry)
  <2>1. CASE m \in MemoryMaps
    BY <2>1, MemoryMapsAssumption
  <2>2. CASE m = NoMap
    <3>1. m.entries = <<>>
      BY <2>2 DEF NoMap
    <3> QED
      BY <3>1
  <2> QED
    BY <2>1, <2>2
<1>2. ScanStart(m) \in Addr /\ ScanLength(m) \in Addr
  <2>1. CASE LargestRegion(m) = 0
    BY <2>1, AddrSpaceAssumption DEF ScanStart, ScanLength, Addr
  <2>2. CASE LargestRegion(m) # 0
    <3> DEFINE e == m.entries[LargestRegion(m)]
    <3>1. e \in MapEntry
      BY <1>1, <2>2, LargestRegionType
    <3>2. e.addr \in Int /\ e.len \in Int
      BY <3>1 DEF MapEntry
    <3> HIDE DEF e
    <3>3. Low(e.addr) \in Addr /\ Low(e.len) \in Addr
      BY <3>2, ModRange, AddrSpaceAssumption DEF Low, Addr
    <3> QED
      BY <2>2, <3>3 DEF e, ScanStart, ScanLength
  <2> QED
    BY <2>1, <2>2
<1>3. s \in Addr /\ l \in Addr
  BY <1>2, AddrSpaceAssumption
     DEF RegionStart, RegionLength, KernelTooBig, Addr
<1> HIDE DEF s, l
<1>4. FirstPage(s, l) \in Addr
  <2> DEFINE x == (s + ZeroedRecords(l) + BlockSize) % AddrSpace
  <2>1. ZeroedRecords(l) \in Nat
    BY <1>3, DivBounds, BlockSizeAssumption DEF ZeroedRecords, Addr
  <2>2. s + ZeroedRecords(l) + BlockSize \in Int
    BY <1>3, <2>1, BlockSizeAssumption DEF Addr
  <2>3. x \in Addr
    BY <2>2, ModRange, AddrSpaceAssumption DEF Addr
  <2>4. FirstPage(s, l) = x - (x % BlockSize)
    BY DEF FirstPage, AlignDown
  <2> HIDE DEF x
  <2>5. x % BlockSize \in Nat /\ x % BlockSize <= x
    BY <2>3, BlockSizeAssumption DEF Addr
  <2> QED
    BY <2>3, <2>4, <2>5, AddrSpaceAssumption DEF Addr
<1>5. PagesLength(s, l) \in Addr
  <2>1. (s + l) % AddrSpace \in Int
    BY <1>3, ModRange, AddrSpaceAssumption DEF Addr
  <2> DEFINE d == ((s + l) % AddrSpace) - FirstPage(s, l)
  <2>2. d \in Int
    BY <1>4, <2>1 DEF Addr
  <2>3. PagesLength(s, l) = d % AddrSpace
    BY DEF PagesLength
  <2> HIDE DEF d
  <2> QED
    BY <2>2, <2>3, ModRange, AddrSpaceAssumption DEF Addr
<1> QED
  BY <1>3, <1>4, <1>5 DEF s, l
-----------------------------------------------------------------------------
(* The inductive invariant. *)

\* The globals of pmem.c before anything is called satisfy the invariant.
LEMMA InitInv == Init => Inv
<1> SUFFICES ASSUME Init PROVE Inv
  OBVIOUS
<1>1. TypeOK
  <2>1. record \in [0 .. size - 1 -> {0, 1}]
    BY DEF Init
  <2>2. mbd \in MemoryMaps \cup {NoMap} /\ holders \in [Addr -> Nat]
    BY DEF Init
  <2>3. mbd_set \in BOOLEAN /\ initialized \in BOOLEAN /\ panicked \in Panics
    BY DEF Init, Panics
  <2>4. /\ kernel_end \in Addr /\ main_start \in Addr /\ alloc_start \in Addr
        /\ main_length \in Addr /\ size \in Nat /\ curr \in Nat /\ curr = 0
    BY AddrSpaceAssumption DEF Init, Addr
  <2> QED
    BY <2>1, <2>2, <2>3, <2>4 DEF TypeOK
<1>2. Records
  BY BlockSizeAssumption DEF Init, Records
<1>3. PagesExclusive
  BY AddrSpaceAssumption DEF Init, PagesExclusive, Addr
<1> QED
  BY <1>1, <1>2, <1>3 DEF Inv

\* Each function of pmem.c preserves the invariant, its panics included; the
\* cases with work to do are pmem_initialize, pmem_alloc and pmem_free.
LEMMA NextInv == Inv /\ [Next]_vars => Inv'
<1> SUFFICES ASSUME Inv, [Next]_vars PROVE Inv'
  OBVIOUS
<1> USE DEF Inv
<1>1. CASE UNCHANGED vars
  BY <1>1 DEF vars, setup, layout, TypeOK, Records, PagesExclusive, Pages,
              EntryToPtr, Running
<1>2. ASSUME NEW why \in Panics, Running, Panic(why) PROVE Inv'
  BY <1>2 DEF Panic, setup, layout, TypeOK, Records, PagesExclusive, Pages,
              EntryToPtr, Running
<1>3. CASE pmem_set_mbd
  BY <1>3, KernelEndsAssumption
     DEF pmem_set_mbd, layout, TypeOK, Records, PagesExclusive, Pages,
         EntryToPtr, Addr
<1>4. CASE pmem_initialize_rejects
  BY <1>2, <1>4 DEF pmem_initialize_rejects, Panics
<1>5. CASE pmem_initialize
  <2> DEFINE s == RegionStart(mbd, kernel_end)
             l == RegionLength(mbd, kernel_end)
             n == PagesLength(s, l) \div BlockSize
             z == ZeroedRecords(l)
  <2>1. /\ s \in Addr /\ FirstPage(s, l) \in Addr
        /\ PagesLength(s, l) \in Addr /\ l \in Addr
    BY <1>5, LayoutType DEF pmem_initialize, TypeOK
  <2>2. n \in Nat
    BY <2>1, DivBounds, BlockSizeAssumption DEF Addr
  <2>3. /\ main_start' = s /\ alloc_start' = FirstPage(s, l)
        /\ main_length' = PagesLength(s, l) /\ size' = n
        /\ panicked' = FinalCheck(s, l)
        /\ initialized' = (FinalCheck(s, l) = "none")
        /\ UNCHANGED <<mbd, mbd_set, kernel_end, curr, holders>>
    BY <1>5 DEF pmem_initialize, setup
  <2>4. FinalCheck(s, l) \in Panics
    BY DEF FinalCheck, Panics
  <2>5. PICK garbage \in [z .. n - 1 -> {0, 1}] :
          record' = [r \in 0 .. n - 1 |-> IF r < z THEN 0 ELSE garbage[r]]
    BY <1>5 DEF pmem_initialize
  <2>6. z \in Nat
    BY <2>1, DivBounds, BlockSizeAssumption DEF ZeroedRecords, Addr
  <2>7. size = 0 /\ curr = 0 /\ \A a \in Addr : holders[a] = 0
    <3>1. size = 0 /\ curr = 0
      BY <1>5 DEF pmem_initialize, Records, TypeOK
    <3>2. Pages = {}
      BY <3>1 DEF Pages
    <3> QED
      BY <3>1, <3>2 DEF PagesExclusive, TypeOK
  <2> HIDE DEF s, l, n, z
  <2>8. record' \in [0 .. n - 1 -> {0, 1}]
    BY <2>2, <2>5, <2>6
  <2>9. TypeOK'
    BY <2>1, <2>2, <2>3, <2>4, <2>7, <2>8 DEF TypeOK, Addr
  <2>10. Records'
    BY <2>3, <1>5 DEF Records, Running, n
  <2>11. PagesExclusive'
    <3>1. ASSUME NEW r \in 0 .. size' - 1
          PROVE  holders'[EntryToPtr(r)'] <= record'[r]
      <4>1. EntryToPtr(r)' \in Addr
        <5>1. alloc_start' + BlockSize * r \in Int
          BY <2>9, BlockSizeAssumption, SMTT(30) DEF TypeOK, Addr
        <5> QED
          BY <5>1, ModRange, AddrSpaceAssumption DEF EntryToPtr, Addr
      <4> QED
        BY <4>1, <2>3, <2>7, <2>9 DEF TypeOK
    <3> QED
      BY <3>1, <2>3, <2>7 DEF PagesExclusive, Addr
  <2> QED
    BY <2>9, <2>10, <2>11
<1>6. CASE pmem_alloc
  <2>1. PICK k \in 1 .. size - 1 :
          /\ FirstFree(k)
          /\ curr' = Step(k)
          /\ record' = [record EXCEPT ![Step(k)] = 1]
          /\ holders' = [holders EXCEPT ![EntryToPtr(Step(k))] = @ + 1]
    BY <1>6 DEF pmem_alloc
  <2> DEFINE t == Step(k)
             p == EntryToPtr(t)
  <2>2. t \in 0 .. size - 1
    <3>1. curr + k \in Int /\ size \in Nat \ {0}
      BY DEF TypeOK
    <3> QED
      BY <3>1, ModRange DEF Step
  <2>3. record[t] = 0
    BY <2>1 DEF FirstFree, FreeAhead
  <2>4. p \in Addr
    BY <2>2, PageAddress
  <2>5. UNCHANGED <<mbd, mbd_set, kernel_end, initialized, main_start,
                    main_length, alloc_start, size, panicked>>
    BY <1>6 DEF pmem_alloc, setup, layout
  <2>6. \A r : EntryToPtr(r)' = EntryToPtr(r)
    BY <2>5 DEF EntryToPtr
  <2> HIDE DEF t, p
  <2>7. TypeOK'
    BY <2>1, <2>2, <2>4, <2>5 DEF TypeOK, t, p
  <2>8. Records'
    BY <2>5 DEF Records, Running
  <2>9. ASSUME NEW r \in 0 .. size - 1
        PROVE  holders'[EntryToPtr(r)] <= record'[r]
    <3>1. EntryToPtr(r) \in Addr /\ holders[EntryToPtr(r)] <= record[r]
      BY PageAddress DEF PagesExclusive
    <3>2. CASE r = t
      BY <2>1, <2>2, <2>3, <2>4, <3>1, <3>2 DEF TypeOK, t, p
    <3>3. CASE r # t
      <4>1. EntryToPtr(r) # p
        BY <2>2, <3>3, EntryToPtrInjective DEF p
      <4> QED
        BY <2>1, <2>2, <2>4, <3>1, <3>3, <4>1 DEF TypeOK, t, p
    <3> QED
      BY <3>2, <3>3
  <2>10. ASSUME NEW a \in Addr, holders'[a] > 0
         PROVE  a \in Pages'
    <3>1. Pages' = Pages
      BY <2>5, <2>6 DEF Pages
    <3>2. p \in Pages
      BY <2>2 DEF Pages, p
    <3> QED
      BY <2>1, <2>10, <3>1, <3>2, <2>4 DEF PagesExclusive, TypeOK, p, t
  <2>11. PagesExclusive'
    BY <2>5, <2>6, <2>9, <2>10 DEF PagesExclusive, Addr
  <2> QED
    BY <2>7, <2>8, <2>11
<1>7. CASE pmem_alloc_panics
  BY <1>2, <1>7 DEF pmem_alloc_panics, Panics
<1>8. ASSUME NEW ptr \in Pages, pmem_free(ptr) PROVE Inv'
  <2>1. PICK t \in 0 .. size - 1 : ptr = EntryToPtr(t)
    BY DEF Pages
  <2>2. PtrToEntry(ptr) = t
    BY <1>8, <2>1, PtrToEntryInverse DEF pmem_free
  <2>3. /\ record' = [record EXCEPT ![t] = 0]
        /\ holders' = [holders EXCEPT ![ptr] = @ - 1]
        /\ record[t] = 1 /\ holders[ptr] > 0
        /\ UNCHANGED <<mbd, mbd_set, kernel_end, initialized, main_start,
                       main_length, alloc_start, size, curr, panicked>>
    BY <1>8, <2>2 DEF pmem_free, setup, layout
  <2>4. ptr \in Addr /\ holders[ptr] <= 1
    BY <2>1, <2>3, PageAddress DEF PagesExclusive
  <2>5. \A r : EntryToPtr(r)' = EntryToPtr(r)
    BY <2>3 DEF EntryToPtr
  <2>6. holders[ptr] = 1
    BY <2>3, <2>4 DEF TypeOK
  <2>7. TypeOK'
    BY <2>3, <2>4, <2>6 DEF TypeOK
  <2>8. Records'
    BY <2>3 DEF Records, Running
  <2>9. ASSUME NEW r \in 0 .. size - 1
        PROVE  holders'[EntryToPtr(r)] <= record'[r]
    <3>1. EntryToPtr(r) \in Addr /\ holders[EntryToPtr(r)] <= record[r]
      BY PageAddress DEF PagesExclusive
    <3>2. CASE r = t
      BY <2>1, <2>3, <2>4, <2>6, <3>2 DEF TypeOK
    <3>3. CASE r # t
      <4>1. EntryToPtr(r) # ptr
        BY <2>1, <3>3, EntryToPtrInjective
      <4> QED
        BY <2>3, <3>1, <3>3, <4>1 DEF TypeOK
    <3> QED
      BY <3>2, <3>3
  <2>10. ASSUME NEW a \in Addr, holders'[a] > 0
         PROVE  a \in Pages'
    <3>1. Pages' = Pages
      BY <2>3, <2>5 DEF Pages
    <3> QED
      BY <2>3, <2>4, <2>10, <3>1 DEF PagesExclusive, TypeOK
  <2>11. PagesExclusive'
    BY <2>3, <2>5, <2>9, <2>10 DEF PagesExclusive, Addr
  <2> QED
    BY <2>7, <2>8, <2>11
<1>9. ASSUME NEW ptr \in Pages, pmem_free_panics(ptr) PROVE Inv'
  BY <1>2, <1>9 DEF pmem_free_panics, Panics
<1>10. CASE Halted
  BY <1>1, <1>10 DEF Halted
<1> QED
  BY <1>1, <1>3, <1>4, <1>5, <1>6, <1>7, <1>8, <1>9, <1>10 DEF Next

\* The types of pmem's variables, and that pmem_curr_alloc_record stays below
\* the number of records, whatever the boot loader's map.
THEOREM PmemTypeCorrect == Spec => []TypeOK
<1>1. Inv => TypeOK
  BY DEF Inv
<1> QED
  BY InitInv, NextInv, <1>1, PTL DEF Spec

\* pmem_alloc never lends a page that a caller still holds.
THEOREM PmemPagesExclusive == Spec => []PagesExclusive
<1>1. Inv => PagesExclusive
  BY DEF Inv
<1> QED
  BY InitInv, NextInv, <1>1, PTL DEF Spec

\* When the pages do not run past the end of the address space, the invariant
\* is all pmem_free needs to take back a page that somebody holds.
LEMMA InvFreeable == Inv => HeldPagesFreeable
<1> SUFFICES ASSUME Inv, initialized, alloc_start + main_length < AddrSpace,
                    NEW p \in Addr, holders[p] > 0
             PROVE  /\ ~PtrUnderflow(p) /\ ~PtrOverflow(p)
                    /\ PtrToEntry(p) \in 0 .. size - 1
                    /\ EntryToPtr(PtrToEntry(p)) = p
                    /\ record[PtrToEntry(p)] = 1
  BY DEF HeldPagesFreeable
<1> USE DEF Inv
<1>1. PICK r \in 0 .. size - 1 : p = EntryToPtr(r)
  BY DEF PagesExclusive, Pages
<1> DEFINE b == BlockSize * r
<1>2. /\ b \in Nat
      /\ b + BlockSize <= main_length
      /\ EntryToPtr(r) = IF alloc_start + b < AddrSpace
                         THEN alloc_start + b
                         ELSE alloc_start + b - AddrSpace
  BY PageAddress
<1>3. /\ BlockSize \in Nat \ {0} /\ AddrSpace \in Nat \ {0}
      /\ main_length \in Nat /\ alloc_start \in Nat
  BY BlockSizeAssumption, AddrSpaceAssumption DEF TypeOK, Addr
<1> HIDE DEF b
<1>4. p = alloc_start + b /\ p <= alloc_start + main_length
  BY <1>1, <1>2, <1>3
<1>5. (alloc_start + main_length) % AddrSpace = alloc_start + main_length
  <2> DEFINE n == alloc_start + main_length
  <2>1. n \in Nat /\ n < AddrSpace
    BY <1>3
  <2> HIDE DEF n
  <2>2. n % AddrSpace = n
    BY <1>3, <2>1, ModWrapsOnce
  <2> QED
    BY <2>2 DEF n
<1>6. ~PtrUnderflow(p) /\ ~PtrOverflow(p)
  BY <1>2, <1>3, <1>4, <1>5 DEF PtrUnderflow, PtrOverflow
<1>7. PtrToEntry(p) = r
  BY <1>1, <1>6, PtrToEntryInverse
<1>8. record[r] = 1
  BY <1>1 DEF PagesExclusive, TypeOK
<1> QED
  BY <1>1, <1>6, <1>7, <1>8

\* Whoever holds a page can give it back: pmem_free passes its range checks
\* and finds the record pmem_alloc marked.
THEOREM PmemHeldPagesFreeable == Spec => []HeldPagesFreeable
  BY InitInv, NextInv, InvFreeable, PTL DEF Spec

\* The records pmem_alloc's loop visits are all of them but the one it starts
\* from: every other record is some number of steps ahead of it.
LEMMA StepsReachAll ==
  ASSUME TypeOK, NEW r \in 0 .. size - 1, r # curr
  PROVE  \E k \in 1 .. size - 1 : Step(k) = r
<1>1. size \in Nat \ {0} /\ curr \in 0 .. size - 1
  BY DEF TypeOK
<1>2. CASE r > curr
  <2>1. r - curr \in 1 .. size - 1
    BY <1>1, <1>2
  <2>2. (curr + (r - curr)) % size = r
    BY <1>1, <1>2, ModWrapsOnce
  <2> QED
    BY <2>1, <2>2 DEF Step
<1>3. CASE r < curr
  <2>1. r - curr + size \in 1 .. size - 1
    BY <1>1, <1>3
  <2>2. curr + (r - curr + size) = r + size
    BY <1>1
  <2>3. (r + size) % size = r
    BY <1>1, ModWrapsOnce
  <2> QED
    BY <2>1, <2>2, <2>3 DEF Step
<1> QED
  BY <1>1, <1>2, <1>3

\* Only pmem_alloc reports that memory is out, and nothing runs after that.
LEMMA NextNearlyFull ==
  Inv /\ OutOfMemoryNearlyFull /\ [Next]_vars => OutOfMemoryNearlyFull'
<1> SUFFICES ASSUME Inv, OutOfMemoryNearlyFull, [Next]_vars,
                    panicked' = "out of memory"
             PROVE  \A r \in 0 .. size' - 1 : r # curr' => record'[r] = 1
  BY DEF OutOfMemoryNearlyFull
<1>1. CASE UNCHANGED vars
  BY <1>1 DEF vars, layout, OutOfMemoryNearlyFull
<1>2. CASE pmem_alloc_panics
  <2>1. /\ UNCHANGED <<size, curr, record>>
        /\ \A k \in 1 .. size - 1 : ~FreeAhead(k)
    BY <1>2 DEF pmem_alloc_panics, Panic, layout
  <2>2. ASSUME NEW r \in 0 .. size - 1, r # curr PROVE record[r] = 1
    <3>1. PICK k \in 1 .. size - 1 : Step(k) = r
      BY <2>2, StepsReachAll DEF Inv
    <3> QED
      BY <2>1, <3>1 DEF FreeAhead, Inv, TypeOK
  <2> QED
    BY <2>1, <2>2
<1>3. CASE Halted
  BY <1>1, <1>3 DEF Halted
<1>4. ~(pmem_set_mbd \/ pmem_initialize_rejects \/ pmem_alloc)
  BY DEF pmem_set_mbd, pmem_initialize_rejects, pmem_alloc, Running, Panic
<1>5. ~pmem_initialize
  BY DEF pmem_initialize, FinalCheck
<1>6. \A ptr \in Pages : ~(pmem_free(ptr) \/ pmem_free_panics(ptr))
  BY DEF pmem_free, pmem_free_panics, Running, Panic
<1> QED
  BY <1>1, <1>2, <1>3, <1>4, <1>5, <1>6 DEF Next

\* pmem_alloc gives up only when every record but the one its search started
\* from is in use.
THEOREM PmemOutOfMemoryNearlyFull == Spec => []OutOfMemoryNearlyFull
<1>1. Init => OutOfMemoryNearlyFull
  BY DEF Init, OutOfMemoryNearlyFull
<1> QED
  BY InitInv, NextInv, <1>1, NextNearlyFull, PTL DEF Spec
-----------------------------------------------------------------------------
(* Pmem implements PageAllocator. *)

\* A call that lends or returns nothing and does not panic is a stutter of the
\* abstract allocator, and a panic is its GiveUp.
LEMMA SameHolders ==
  ASSUME Inv, UNCHANGED holders, Running \/ UNCHANGED panicked
  PROVE  Abstract!GiveUp \/ UNCHANGED Abstract!vars
  BY DEF Abstract!GiveUp, Abstract!vars, Running, Inv, TypeOK

\* Every step of Pmem is a step of PageAllocator or a stutter: pmem_alloc lends
\* a page nobody holds, pmem_free takes back one that somebody holds.
LEMMA NextAbstract ==
  Inv /\ [Next]_vars => [Abstract!Next]_(Abstract!vars)
<1> SUFFICES ASSUME Inv, [Next]_vars
             PROVE  Abstract!Next \/ UNCHANGED Abstract!vars
  OBVIOUS
<1> USE DEF Abstract!Next
<1>1. CASE UNCHANGED vars
  BY <1>1, SameHolders DEF vars
<1>2. CASE pmem_set_mbd \/ pmem_initialize_rejects \/ pmem_initialize
  BY <1>2, SameHolders
     DEF pmem_set_mbd, pmem_initialize_rejects, pmem_initialize, Panic
<1>3. CASE pmem_alloc
  <2>1. PICK k \in 1 .. size - 1 :
          /\ FirstFree(k)
          /\ holders' = [holders EXCEPT ![EntryToPtr(Step(k))] = @ + 1]
    BY <1>3 DEF pmem_alloc
  <2> DEFINE t == Step(k)
             p == EntryToPtr(t)
  <2>2. t \in 0 .. size - 1
    <3>1. curr + k \in Int /\ size \in Nat \ {0}
      BY DEF Inv, TypeOK
    <3> QED
      BY <3>1, ModRange DEF Step
  <2>3. record[t] = 0
    BY <2>1 DEF FirstFree, FreeAhead
  <2>4. p \in Addr /\ holders[p] <= 0
    BY <2>2, <2>3, PageAddress DEF PagesExclusive, Inv
  <2>5. Running /\ UNCHANGED panicked
    BY <1>3 DEF pmem_alloc
  <2> HIDE DEF t, p
  <2>6. holders' = [holders EXCEPT ![p] = @ + 1]
    BY <2>1 DEF p, t
  <2>7. {a \in Addr : holders'[a] > 0} = {a \in Addr : holders[a] > 0} \cup {p}
    BY <2>4, <2>6 DEF Inv, TypeOK
  <2>8. p \in Addr \ {a \in Addr : holders[a] > 0}
    BY <2>4 DEF Inv, TypeOK
  <2>9. Abstract!Lend
    BY <2>5, <2>7, <2>8 DEF Abstract!Lend, Running
  <2> QED
    BY <2>9
<1>4. CASE pmem_alloc_panics
  BY <1>4, SameHolders DEF pmem_alloc_panics, Panic
<1>5. ASSUME NEW ptr \in Pages, pmem_free(ptr)
      PROVE  Abstract!Return
  <2>1. PICK t \in 0 .. size - 1 : ptr = EntryToPtr(t)
    BY DEF Pages
  <2>2. /\ ptr \in Addr
        /\ holders[ptr] <= record[t] /\ record[t] \in {0, 1}
    BY <2>1, PageAddress DEF Inv, PagesExclusive, TypeOK
  <2>3. /\ holders' = [holders EXCEPT ![ptr] = @ - 1] /\ holders[ptr] > 0
        /\ Running /\ UNCHANGED panicked
    BY <1>5 DEF pmem_free
  <2>4. holders[ptr] = 1
    BY <2>2, <2>3 DEF Inv, TypeOK
  <2>5. {a \in Addr : holders'[a] > 0} = {a \in Addr : holders[a] > 0} \ {ptr}
    BY <2>2, <2>3, <2>4 DEF Inv, TypeOK
  <2> QED
    BY <2>2, <2>3, <2>5 DEF Abstract!Return, Running
<1>6. ASSUME NEW ptr \in Pages, pmem_free_panics(ptr)
      PROVE  Abstract!GiveUp \/ UNCHANGED Abstract!vars
  BY <1>6, SameHolders DEF pmem_free_panics, Panic
<1>7. CASE Halted
  BY <1>1, <1>7 DEF Halted
<1> QED
  BY <1>1, <1>2, <1>3, <1>4, <1>5, <1>6, <1>7 DEF Next

\* pmem.c is a page allocator: whatever its callers do, a page is lent to one
\* of them at a time, and after a panic nobody is served.
THEOREM PmemImplementsPageAllocator == Spec => AbstractSpec
<1>1. Init => Abstract!Init
  BY DEF Init, Abstract!Init, Running
<1> QED
  BY InitInv, NextInv, <1>1, NextAbstract, PTL
     DEF Spec, AbstractSpec, Abstract!Spec
-----------------------------------------------------------------------------
(* Where the pages lie. *)

\* The strengthening for LayoutSound: what pmem_initialize computed from the
\* map and the end of the kernel image is still in place.
LayoutKept ==
  initialized =>
    LET s == RegionStart(mbd, kernel_end)
        l == RegionLength(mbd, kernel_end)
    IN  /\ mbd \in MemoryMaps /\ kernel_end # 0
        /\ ~KernelTooBig(mbd, kernel_end)
        /\ main_start = s
        /\ alloc_start = FirstPage(s, l)
        /\ main_length = PagesLength(s, l)

\* pmem_set_mbd has been given a map, not NoMap.
MapKept == mbd_set => mbd \in MemoryMaps

\* No function but pmem_initialize touches the layout, and none touches the map
\* once it is initialized.
LEMMA NextLayoutKept ==
  LayoutKept /\ MapKept /\ [Next]_vars => LayoutKept' /\ MapKept'
<1> SUFFICES ASSUME LayoutKept, MapKept, [Next]_vars
             PROVE  LayoutKept' /\ MapKept'
  OBVIOUS
<1> USE DEF LayoutKept, MapKept
<1>1. CASE UNCHANGED <<setup, layout>>
  <2>1. UNCHANGED <<mbd, mbd_set, kernel_end, initialized, main_start,
                    main_length, alloc_start>>
    BY <1>1 DEF setup, layout
  <2> QED
    BY <2>1 DEF RegionStart, RegionLength, KernelTooBig, FirstPage, PagesLength
<1>2. CASE pmem_set_mbd
  <2>1. ~initialized /\ UNCHANGED initialized /\ mbd' \in MemoryMaps
    BY <1>2 DEF pmem_set_mbd, layout
  <2> QED
    BY <2>1
<1>3. CASE pmem_initialize
  <2>1. /\ UNCHANGED <<mbd, mbd_set, kernel_end>>
        /\ mbd_set /\ kernel_end # 0 /\ ~KernelTooBig(mbd, kernel_end)
        /\ LET s == RegionStart(mbd, kernel_end)
               l == RegionLength(mbd, kernel_end)
           IN  /\ main_start' = s
               /\ alloc_start' = FirstPage(s, l)
               /\ main_length' = PagesLength(s, l)
    BY <1>3 DEF pmem_initialize, setup
  <2> QED
    BY <2>1
<1>4. CASE \/ pmem_initialize_rejects \/ pmem_alloc \/ pmem_alloc_panics
           \/ Halted \/ UNCHANGED vars
           \/ \E ptr \in Pages : pmem_free(ptr) \/ pmem_free_panics(ptr)
  BY <1>1, <1>4 DEF pmem_initialize_rejects, pmem_alloc, pmem_alloc_panics,
                    Halted, vars, pmem_free, pmem_free_panics, Panic
<1> QED
  BY <1>2, <1>3, <1>4 DEF Next

\* The region pmem_initialize cuts out of a map below 4 GiB is the end of an
\* available region, behind the kernel image.
LEMMA RegionInMap ==
  ASSUME NEW m, m.entries \in Seq(MapEntry), NEW k \in Addr, k # 0,
         Below4G(m), Ample(m, k), ~KernelTooBig(m, k)
  PROVE  LET s == RegionStart(m, k)
             l == RegionLength(m, k)
         IN  /\ s \in Nat /\ l \in Nat /\ l >= 2 * BlockSize
             /\ s + l < AddrSpace /\ s >= k
             /\ \E i \in DOMAIN m.entries :
                  /\ m.entries[i].available
                  /\ m.entries[i].addr \in Nat /\ m.entries[i].len \in Nat
                  /\ m.entries[i].addr <= s
                  /\ s + l = m.entries[i].addr + m.entries[i].len
<1> DEFINE i == LargestRegion(m)
           e == m.entries[i]
<1>1. i # 0
  <2> SUFFICES ASSUME i = 0 PROVE FALSE
    OBVIOUS
  <2>1. ScanStart(m) = 0 /\ ScanLength(m) = 0
    BY DEF ScanStart, ScanLength
  <2> QED
    BY <2>1, BlockSizeAssumption DEF KernelTooBig, Addr
<1>2. i \in DOMAIN m.entries /\ e.available
  BY <1>1, LargestRegionType
<1>3. e.addr \in Nat /\ e.len \in Nat
  <2>1. ASSUME NEW es \in Seq(MapEntry), NEW j \in DOMAIN es
        PROVE  es[j] \in MapEntry
    OBVIOUS
  <2>2. e \in MapEntry
    BY <1>2, <2>1
  <2> QED
    BY <2>2 DEF MapEntry
<1>4. e.addr + e.len < AddrSpace
  BY <1>2 DEF Below4G
<1>5. Low(e.addr) = e.addr /\ Low(e.len) = e.len
  <2>1. e.addr < AddrSpace /\ e.len < AddrSpace
    BY <1>3, <1>4, AddrSpaceAssumption
  <2> HIDE DEF e
  <2> QED
    BY <1>3, <2>1, ModSmall, AddrSpaceAssumption DEF Low
<1>6. ScanStart(m) = e.addr /\ ScanLength(m) = e.len
  BY <1>1, <1>5 DEF ScanStart, ScanLength
<1> HIDE DEF i
<1>7. /\ RegionStart(m, k) = IF e.addr < k THEN k ELSE e.addr
      /\ RegionLength(m, k) = IF e.addr < k THEN e.len - (k - e.addr)
                                            ELSE e.len
      /\ ~(e.addr < k /\ k - e.addr > e.len)
  BY <1>6 DEF RegionStart, RegionLength, KernelTooBig
<1>8. RegionLength(m, k) >= 2 * BlockSize
  BY DEF Ample
<1> DEFINE s == RegionStart(m, k)
           l == RegionLength(m, k)
<1>9. /\ s \in Nat /\ l \in Nat /\ s >= k /\ s + l = e.addr + e.len
      /\ e.addr <= s
  <2> DEFINE a == e.addr
             n == e.len
  <2>1. /\ a \in Nat /\ n \in Nat /\ k \in Nat
        /\ s = IF a < k THEN k ELSE a
        /\ l = IF a < k THEN n - (k - a) ELSE n
        /\ ~(a < k /\ k - a > n)
    BY <1>3, <1>7, AddrSpaceAssumption DEF Addr
  <2> HIDE DEF a, n, s, l
  <2>2. s \in Nat /\ l \in Nat /\ s >= k /\ s + l = a + n /\ a <= s
    BY <2>1
  <2> QED
    BY <2>2 DEF a, n
<1> HIDE DEF s, l
<1>10. s + l < AddrSpace
  BY <1>4, <1>9
<1>11. l >= 2 * BlockSize
  BY <1>8 DEF l
<1> QED
  BY <1>2, <1>3, <1>11, <1>9, <1>10 DEF s, l

\* In a region with room for two blocks the records, the padding and the pages
\* follow each other up to its end, without a wrap.
LEMMA LayoutArithmetic ==
  ASSUME NEW s \in Nat, NEW l \in Nat, l >= 2 * BlockSize, s + l < AddrSpace
  PROVE  LET z == ZeroedRecords(l)
         IN  /\ FirstPage(s, l) \in Nat
             /\ FirstPage(s, l) > s + z
             /\ PagesLength(s, l) = s + l - FirstPage(s, l)
             /\ PagesLength(s, l) \in Nat /\ PagesLength(s, l) < l
<1> DEFINE z == ZeroedRecords(l)
           x == s + z + BlockSize
<1>1. BlockSize \in Nat \ {0} /\ BlockSize >= 2 /\ AddrSpace \in Nat \ {0}
  BY BlockSizeAssumption, AddrSpaceAssumption
<1>2. z \in Nat /\ BlockSize * z <= l
  BY <1>1, DivBounds DEF ZeroedRecords
<1>3. 2 * z <= BlockSize * z
  BY <1>1, <1>2
<1> HIDE DEF z
<1>4. x \in Nat /\ x <= s + l
  BY <1>1, <1>2, <1>3
<1>5. x % AddrSpace = x
  <2> HIDE DEF x
  <2>1. x < AddrSpace
    BY <1>1, <1>4 DEF x
  <2> QED
    BY <1>1, <1>4, <2>1, ModSmall
<1>6. FirstPage(s, l) = x - (x % BlockSize)
  <2>1. FirstPage(s, l) = AlignDown(x % AddrSpace)
    BY DEF FirstPage, z
  <2> HIDE DEF x
  <2> QED
    BY <1>5, <2>1 DEF AlignDown
<1>7. x % BlockSize \in 0 .. BlockSize - 1
  <2> HIDE DEF x
  <2> QED
    BY <1>1, <1>4, ModRange
<1> DEFINE f == FirstPage(s, l)
<1>8. f \in Nat /\ f > s + z /\ f <= s + l
  BY <1>1, <1>2, <1>4, <1>6, <1>7
<1> HIDE DEF f
<1>9. (s + l) % AddrSpace = s + l
  <2> DEFINE y == s + l
  <2>1. y \in Nat /\ y < AddrSpace
    BY <1>1
  <2> HIDE DEF y
  <2>2. y % AddrSpace = y
    BY <1>1, <2>1, ModSmall
  <2> QED
    BY <2>2 DEF y
<1>10. PagesLength(s, l) = (s + l - f) % AddrSpace
  <2> DEFINE y == (s + l) % AddrSpace
  <2>1. PagesLength(s, l) = (y - f) % AddrSpace
    BY DEF PagesLength, f
  <2>2. y = s + l
    BY <1>9
  <2> HIDE DEF y
  <2> QED
    BY <1>1, <1>8, <2>1, <2>2
<1>11. (s + l - f) % AddrSpace = s + l - f
  <2> DEFINE y == s + l - f
  <2>1. y \in Nat /\ y < AddrSpace
    BY <1>1, <1>8
  <2> HIDE DEF y
  <2>2. y % AddrSpace = y
    BY <1>1, <2>1, ModSmall
  <2> QED
    BY <2>2 DEF y
<1> QED
  BY <1>2, <1>8, <1>10, <1>11 DEF f, z

\* The layout pmem_initialize computes is sound, by the arithmetic above.
LEMMA InvLayoutSound == Inv /\ LayoutKept => LayoutSound
<1> SUFFICES ASSUME Inv, LayoutKept, initialized, Below4G(mbd),
                    Ample(mbd, kernel_end), NEW p \in Pages
             PROVE  /\ InAvailableRegion(mbd, p)
                    /\ p >= kernel_end
                    /\ p >= main_start + size
  BY DEF LayoutSound
<1> USE DEF Inv
<1> DEFINE s == RegionStart(mbd, kernel_end)
           l == RegionLength(mbd, kernel_end)
           z == ZeroedRecords(l)
<1>1. /\ mbd.entries \in Seq(MapEntry) /\ kernel_end \in Addr
      /\ kernel_end # 0 /\ ~KernelTooBig(mbd, kernel_end)
      /\ main_start = s /\ alloc_start = FirstPage(s, l)
      /\ main_length = PagesLength(s, l)
  BY MemoryMapsAssumption DEF LayoutKept, TypeOK
<1>2. /\ s \in Nat /\ l \in Nat /\ l >= 2 * BlockSize
      /\ s + l < AddrSpace /\ s >= kernel_end
      /\ \E i \in DOMAIN mbd.entries :
           /\ mbd.entries[i].available
           /\ mbd.entries[i].addr \in Nat /\ mbd.entries[i].len \in Nat
           /\ mbd.entries[i].addr <= s
           /\ s + l = mbd.entries[i].addr + mbd.entries[i].len
  BY <1>1, RegionInMap
<1> HIDE DEF s, l, z
<1>3. /\ alloc_start \in Nat /\ alloc_start > s + z
      /\ main_length = s + l - alloc_start
      /\ main_length \in Nat /\ main_length < l
  BY <1>1, <1>2, LayoutArithmetic DEF z
<1>4. PICK r \in 0 .. size - 1 : p = EntryToPtr(r)
  BY DEF Pages
<1> DEFINE b == BlockSize * r
<1>5. /\ b \in Nat
      /\ b + BlockSize <= main_length
      /\ EntryToPtr(r) = IF alloc_start + b < AddrSpace
                         THEN alloc_start + b
                         ELSE alloc_start + b - AddrSpace
  BY PageAddress
<1>6. BlockSize \in Nat \ {0} /\ AddrSpace \in Nat
  BY BlockSizeAssumption, AddrSpaceAssumption
<1> HIDE DEF b
<1>7. p = alloc_start + b /\ p + BlockSize <= s + l /\ p \in Nat
  BY <1>2, <1>3, <1>4, <1>5, <1>6
<1>8. size <= z
  <2>1. size = main_length \div BlockSize /\ z = l \div BlockSize
    BY DEF Records, ZeroedRecords, z
  <2> QED
    BY <1>2, <1>3, <1>6, <2>1, DivMonotone
<1>9. z \in Nat /\ size \in Nat
  BY <1>2, <1>6, DivBounds DEF z, ZeroedRecords, TypeOK
<1>10. p >= kernel_end /\ p >= main_start + size
  <2>1. /\ main_start = s /\ s \in Nat /\ kernel_end \in Nat
        /\ s >= kernel_end
    BY <1>1, <1>2, AddrSpaceAssumption DEF Addr
  <2> QED
    BY <2>1, <1>3, <1>5, <1>7, <1>8, <1>9
<1>11. InAvailableRegion(mbd, p)
  <2>1. PICK i \in DOMAIN mbd.entries :
          /\ mbd.entries[i].available
          /\ mbd.entries[i].addr \in Nat /\ mbd.entries[i].len \in Nat
          /\ mbd.entries[i].addr <= s
          /\ s + l = mbd.entries[i].addr + mbd.entries[i].len
    BY <1>2
  <2>2. mbd.entries[i].addr <= p
    BY <1>2, <1>3, <1>5, <1>7, <1>9, <2>1
  <2>3. p + BlockSize <= mbd.entries[i].addr + mbd.entries[i].len
    BY <1>7, <2>1
  <2> QED
    BY <2>1, <2>2, <2>3 DEF InAvailableRegion
<1> QED
  BY <1>10, <1>11

\* For every map below 4 GiB that leaves room for two blocks, every page lies
\* in available memory, behind the kernel image and behind the records.
THEOREM PmemLayoutSound == Spec => []LayoutSound
<1>1. Init => LayoutKept /\ MapKept
  BY DEF Init, LayoutKept, MapKept
<1> QED
  BY InitInv, NextInv, <1>1, NextLayoutKept, InvLayoutSound, PTL DEF Spec
-----------------------------------------------------------------------------
(* pmem_alloc step by step, interrupted by handlers that allocate. *)

\* Where the boot code can be.
Places == {"calls", "idle", "load", "store", "wrap", "zero", "test", "look",
           "examine", "mark", "return"}

\* The boot code is somewhere in pmem_alloc, and what it has read of the
\* search position, and what handlers leave there, is a record wherever it is
\* used as one.  (A machine may have no record at all.)
SearchInv ==
  /\ pc \in Places
  /\ pos \in Nat /\ start \in Nat /\ tmp \in Nat
  /\ pc = "calls" => boot_held = <<>>
  /\ pc # "calls" =>
       /\ marks \in [RecordNumber -> {0, 1}]
       /\ boot_held \in [RecordNumber -> Nat]
       /\ irq_held \in [RecordNumber -> Nat]
       /\ pc \notin {"wrap", "zero"} =>
            pos \in RecordNumber \/ (size = 0 /\ pos = 0)
       /\ size = 0 => /\ pc \in {"idle", "load", "store", "wrap", "zero", "test"}
                      /\ pc # "idle" => start = 0
       /\ pc \in {"examine", "mark"} => mine \in RecordNumber

\* What the boot code holds is marked, and what it is about to return it does
\* not hold yet: either the record it has chosen, or the one a handler has
\* moved the search position to.
HeldInv ==
  pc # "calls" =>
    /\ \A r \in RecordNumber : boot_held[r] <= marks[r]
    /\ pc \in {"examine", "mark"} =>
         pos = mine \/ (marks[pos] = 1 /\ boot_held[pos] = 0)
    /\ pc = "mark" => boot_held[mine] = 0
    /\ pc = "return" => marks[pos] = 1 /\ boot_held[pos] = 0

\* The inductive invariant of the interrupted search.
IrqInv == Inv /\ SearchInv /\ HeldInv

\* The handler's search looks only at records that exist, never at the one it
\* starts from, and takes a free one.
LEMMA HandlerTakes ==
  ASSUME size \in Nat, pos \in Nat, FreeSteps # {}
  PROVE  LET p == Searched[Min(FreeSteps)]
         IN  p \in RecordNumber /\ marks[p] = 0 /\ p # pos
<1> DEFINE k == Min(FreeSteps)
<1>1. FreeSteps \subseteq Nat
  BY DEF FreeSteps, Searched
<1>2. k \in FreeSteps
  <2>1. \E m \in FreeSteps : \A n \in FreeSteps : m <= n
    BY <1>1, LeastNatural
  <2> QED
    BY <2>1 DEF Min
<1> HIDE DEF k
<1>3. k \in DOMAIN Searched /\ marks[Searched[k]] = 0
  BY <1>2 DEF FreeSteps
<1>4. CASE pos < size
  <2>1. k \in 1 .. size - 1 /\ Searched[k] = (pos + k) % size
    BY <1>3, <1>4 DEF Searched
  <2>2. /\ (pos + k) % size \in 0 .. size - 1
        /\ (pos + k) % size # pos
    <3>1. (pos + k) % size = IF pos + k < size THEN pos + k ELSE pos + k - size
      BY <2>1, <1>4
    <3> QED
      BY <2>1, <3>1, <1>4
  <2> QED
    BY <1>3, <2>1, <2>2 DEF RecordNumber, k
<1>5. CASE ~(pos < size)
  <2>1. k \in 1 .. size /\ Searched[k] = k - 1
    BY <1>3, <1>5 DEF Searched
  <2> QED
    BY <1>3, <1>5, <2>1 DEF RecordNumber, k
<1> QED
  BY <1>4, <1>5

\* Before the steps begin only the calls of Pmem are taken.
LEMMA BeginStep == IrqInv /\ Begin => IrqInv'
<1> SUFFICES ASSUME IrqInv, Begin PROVE IrqInv'
  OBVIOUS
<1>1. /\ pos' = 0 /\ marks' = record /\ pc' = "idle"
      /\ boot_held' = [r \in RecordNumber |-> 0]
      /\ irq_held' = [r \in RecordNumber |-> 0]
      /\ UNCHANGED <<vars, locals, stuck>>
      /\ curr = 0 /\ \A r \in RecordNumber : record[r] = 0
  BY DEF Begin
<1>2. Inv /\ size' = size /\ size \in Nat
  BY <1>1 DEF IrqInv, vars, layout, Inv, TypeOK
<1>3. Inv'
  BY <1>1, <1>2 DEF Inv, vars, setup, layout, TypeOK, Records, PagesExclusive, Pages,
              EntryToPtr, Running
<1>4. /\ RecordNumber' = RecordNumber /\ RecordNumber = 0 .. size - 1
      /\ record \in [RecordNumber -> {0, 1}]
      /\ start \in Nat /\ tmp \in Nat
  BY <1>2 DEF RecordNumber, IrqInv, Inv, TypeOK, SearchInv
<1>5. SearchInv'
  <2>1. pc' \in Places /\ pc' = "idle" /\ pos' = 0
    BY <1>1 DEF Places
  <2>2. boot_held' \in [RecordNumber -> Nat] /\ irq_held' \in [RecordNumber -> Nat]
    BY <1>1
  <2>3. 0 \in RecordNumber \/ size = 0
    BY <1>2, <1>4
  <2> QED
    BY <1>1, <1>2, <1>4, <2>1, <2>2, <2>3 DEF SearchInv, locals
<1>6. HeldInv'
  BY <1>1, <1>4 DEF HeldInv
<1> QED
  BY <1>3, <1>5, <1>6 DEF IrqInv

\* A step inside pmem_alloc leaves Pmem's own variables alone.
LEMMA PmemKept ==
  Inv /\ UNCHANGED vars => Inv' /\ size' = size /\ RecordNumber' = RecordNumber
<1> SUFFICES ASSUME Inv, UNCHANGED vars
             PROVE  Inv' /\ size' = size /\ RecordNumber' = RecordNumber
  OBVIOUS
<1>1. size' = size
  BY DEF vars, layout
<1> QED
  BY <1>1, NextInv DEF RecordNumber

\* The boot code's steps up to the record it looks at.
LEMMA SearchSteps ==
  ASSUME IrqInv, UNCHANGED vars,
         \/ ReadStart \/ LoadCurr \/ StoreCurr \/ WrapTest \/ WrapStore
         \/ LoopTest \/ TakeRecordPtr \/ Examine
  PROVE  IrqInv'
<1>1. Inv' /\ size' = size /\ size \in Nat /\ RecordNumber = 0 .. size - 1
      /\ RecordNumber' = RecordNumber
  BY PmemKept DEF IrqInv, Inv, TypeOK, RecordNumber
<1>2. SearchInv /\ HeldInv
  BY DEF IrqInv
<1> USE DEF held, locals, Boot
<1>3. CASE ReadStart
  BY <1>1, <1>2, <1>3 DEF ReadStart, IrqInv, SearchInv, HeldInv, Places
<1>4. CASE LoadCurr
  BY <1>1, <1>2, <1>4 DEF LoadCurr, IrqInv, SearchInv, HeldInv, Places
<1>5. CASE StoreCurr
  BY <1>1, <1>2, <1>5 DEF StoreCurr, IrqInv, SearchInv, HeldInv, Places
<1>6. CASE WrapTest
  BY <1>1, <1>2, <1>6 DEF WrapTest, IrqInv, SearchInv, HeldInv, Places
<1>7. CASE WrapStore
  BY <1>1, <1>2, <1>7 DEF WrapStore, IrqInv, SearchInv, HeldInv, Places
<1>8. CASE LoopTest
  BY <1>1, <1>2, <1>8, SMTT(30) DEF LoopTest, IrqInv, SearchInv, HeldInv, Places
<1>9. CASE TakeRecordPtr
  BY <1>1, <1>2, <1>9 DEF TakeRecordPtr, IrqInv, SearchInv, HeldInv, Places
<1>10. CASE Examine
  BY <1>1, <1>2, <1>10, SMTT(30) DEF Examine, IrqInv, SearchInv, HeldInv, Places
<1> QED
  BY <1>3, <1>4, <1>5, <1>6, <1>7, <1>8, <1>9, <1>10

\* The record is marked, and the page at the search position returned.
LEMMA MarkStep == IrqInv /\ UNCHANGED vars /\ Mark => IrqInv'
<1> SUFFICES ASSUME IrqInv, UNCHANGED vars, Mark PROVE IrqInv'
  OBVIOUS
<1>1. Inv' /\ size' = size /\ size \in Nat /\ RecordNumber = 0 .. size - 1
      /\ RecordNumber' = RecordNumber
  BY PmemKept DEF IrqInv, Inv, TypeOK, RecordNumber
<1>2. SearchInv /\ HeldInv
  BY DEF IrqInv
<1>3. /\ pc = "mark" /\ pc' = "return"
      /\ marks' = [marks EXCEPT ![mine] = 1]
      /\ UNCHANGED <<pos, start, tmp, mine, boot_held, irq_held>>
  BY DEF Mark, Boot, locals, held
<1>4. /\ mine \in RecordNumber /\ pos \in RecordNumber
      /\ marks \in [RecordNumber -> {0, 1}]
      /\ \A r \in RecordNumber : boot_held[r] <= marks[r] /\ boot_held[r] \in Nat
      /\ pos = mine \/ (marks[pos] = 1 /\ boot_held[pos] = 0)
      /\ boot_held[mine] = 0
  BY <1>2, <1>3, <1>1 DEF SearchInv, HeldInv
<1>5. SearchInv'
  BY <1>1, <1>2, <1>3, <1>4 DEF SearchInv, Places
<1>6. HeldInv'
  BY <1>1, <1>3, <1>4 DEF HeldInv
<1> QED
  BY <1>1, <1>5, <1>6 DEF IrqInv

\* The page at the search position is one the boot code does not hold.
LEMMA ReturnStep == IrqInv /\ UNCHANGED vars /\ ReturnPage => IrqInv'
<1> SUFFICES ASSUME IrqInv, UNCHANGED vars, ReturnPage PROVE IrqInv'
  OBVIOUS
<1>1. Inv' /\ size' = size /\ size \in Nat /\ RecordNumber = 0 .. size - 1
      /\ RecordNumber' = RecordNumber
  BY PmemKept DEF IrqInv, Inv, TypeOK, RecordNumber
<1>2. SearchInv /\ HeldInv
  BY DEF IrqInv
<1>3. /\ pc = "return" /\ pc' = "idle"
      /\ boot_held' = [boot_held EXCEPT ![pos] = @ + 1]
      /\ UNCHANGED <<pos, marks, start, tmp, mine, irq_held>>
  BY DEF ReturnPage, Boot, locals
<1>4. /\ pos \in RecordNumber
      /\ boot_held \in [RecordNumber -> Nat]
      /\ \A r \in RecordNumber : boot_held[r] <= marks[r]
      /\ marks[pos] = 1 /\ boot_held[pos] = 0
  BY <1>2, <1>3, <1>1 DEF SearchInv, HeldInv
<1>5. SearchInv'
  BY <1>1, <1>2, <1>3, <1>4 DEF SearchInv, Places
<1>6. HeldInv'
  BY <1>1, <1>3, <1>4 DEF HeldInv
<1> QED
  BY <1>1, <1>5, <1>6 DEF IrqInv

\* pmem_free of a page the boot code holds finds its record marked.
LEMMA FreePageStep == IrqInv /\ UNCHANGED vars /\ FreePage => IrqInv'
<1> SUFFICES ASSUME IrqInv, UNCHANGED vars, FreePage PROVE IrqInv'
  OBVIOUS
<1>1. Inv' /\ size' = size /\ size \in Nat /\ RecordNumber = 0 .. size - 1
      /\ RecordNumber' = RecordNumber
  BY PmemKept DEF IrqInv, Inv, TypeOK, RecordNumber
<1>2. SearchInv /\ HeldInv
  BY DEF IrqInv
<1>3. PICK p \in RecordNumber :
        /\ pc = "idle" /\ boot_held[p] > 0
        /\ marks' = [marks EXCEPT ![p] = 0]
        /\ boot_held' = [boot_held EXCEPT ![p] = @ - 1]
        /\ UNCHANGED <<pos, pc, start, tmp, mine, irq_held>>
  BY DEF FreePage, Boot, locals
<1>4. /\ boot_held \in [RecordNumber -> Nat]
      /\ marks \in [RecordNumber -> {0, 1}]
      /\ \A r \in RecordNumber : boot_held[r] <= marks[r]
      /\ boot_held[p] = 1
  <2>1. /\ boot_held \in [RecordNumber -> Nat]
        /\ marks \in [RecordNumber -> {0, 1}]
        /\ \A r \in RecordNumber : boot_held[r] <= marks[r]
    BY <1>2, <1>3 DEF SearchInv, HeldInv
  <2>2. boot_held[p] \in Nat /\ boot_held[p] <= marks[p] /\ marks[p] \in {0, 1}
    BY <2>1
  <2> QED
    BY <1>3, <2>1, <2>2
<1>5. SearchInv'
  BY <1>1, <1>2, <1>3, <1>4 DEF SearchInv, Places
<1>6. HeldInv'
  BY <1>1, <1>3, <1>4 DEF HeldInv
<1> QED
  BY <1>1, <1>5, <1>6 DEF IrqInv

\* A handler takes a free record, so none the boot code holds.
LEMMA HandlerStep == IrqInv /\ UNCHANGED vars /\ IrqAlloc => IrqInv'
<1> SUFFICES ASSUME IrqInv, UNCHANGED vars, IrqAlloc PROVE IrqInv'
  OBVIOUS
<1>1. Inv' /\ size' = size /\ size \in Nat /\ RecordNumber = 0 .. size - 1
      /\ RecordNumber' = RecordNumber
  BY PmemKept DEF IrqInv, Inv, TypeOK, RecordNumber
<1>2. SearchInv /\ HeldInv
  BY DEF IrqInv
<1>3. pc # "calls" /\ UNCHANGED <<pc, start, tmp, mine, boot_held>>
  BY DEF IrqAlloc, locals
<1>4. CASE UNCHANGED <<pos, marks, irq_held>>
  BY <1>1, <1>2, <1>3, <1>4 DEF SearchInv, HeldInv, IrqInv
<1>5. CASE ~UNCHANGED <<pos, marks, irq_held>>
  <2> DEFINE p == Searched[Min(FreeSteps)]
  <2>1. /\ FreeSteps # {} /\ pos' = p
        /\ marks' = [marks EXCEPT ![p] = 1]
        /\ irq_held' = [irq_held EXCEPT ![p] = @ + 1]
    BY <1>5 DEF IrqAlloc
  <2>2. p \in RecordNumber /\ marks[p] = 0
    BY <1>1, <1>2, <2>1, HandlerTakes DEF SearchInv
  <2> HIDE DEF p
  <2>3. /\ boot_held \in [RecordNumber -> Nat] /\ irq_held \in [RecordNumber -> Nat]
        /\ marks \in [RecordNumber -> {0, 1}]
        /\ \A r \in RecordNumber : boot_held[r] <= marks[r]
        /\ boot_held[p] = 0
    BY <1>1, <1>2, <1>3, <2>2 DEF SearchInv, HeldInv
  <2>4. SearchInv'
    BY <1>1, <1>2, <1>3, <2>1, <2>2, <2>3 DEF SearchInv, Places
  <2>5. HeldInv'
    BY <1>1, <1>2, <1>3, <2>1, <2>2, <2>3 DEF HeldInv
  <2> QED
    BY <1>1, <2>4, <2>5 DEF IrqInv
<1> QED
  BY <1>4, <1>5

\* Before pmem_initialize there is nothing to count.
LEMMA InitIrqInv == IrqInit => IrqInv
<1> SUFFICES ASSUME IrqInit PROVE IrqInv
  OBVIOUS
<1>1. Inv
  BY InitInv DEF IrqInit
<1> QED
  BY <1>1 DEF IrqInit, IrqInv, SearchInv, HeldInv, Places

\* Every step of the boot code and every handler preserves the invariant.
LEMMA NextIrqInv == IrqInv /\ [IrqNext]_allvars => IrqInv'
<1> SUFFICES ASSUME IrqInv, [IrqNext]_allvars PROVE IrqInv'
  OBVIOUS
<1>1. ASSUME UNCHANGED vars, UNCHANGED steps PROVE IrqInv'
  <2>1. Inv' /\ size' = size /\ RecordNumber' = RecordNumber
    BY <1>1, PmemKept DEF IrqInv
  <2> QED
    BY <1>1, <2>1 DEF IrqInv, steps, locals, held, SearchInv, HeldInv
<1>2. CASE OneCall
  <2>1. Inv' /\ pc = "calls" /\ UNCHANGED steps
    BY <1>2, NextInv DEF OneCall, IrqInv
  <2> QED
    BY <2>1 DEF IrqInv, steps, locals, held, SearchInv, HeldInv
<1>3. CASE Begin
  BY <1>3, BeginStep
<1>4. CASE StepNext
  <2>1. UNCHANGED vars
    BY <1>4 DEF StepNext
  <2>2. CASE Stuck
    BY <1>1, <2>1, <2>2 DEF Stuck
  <2> QED
    BY <1>4, <2>1, <2>2, SearchSteps, MarkStep, ReturnStep, FreePageStep, HandlerStep
       DEF StepNext
<1> QED
  BY <1>1, <1>2, <1>3, <1>4 DEF IrqNext, allvars

\* The invariant holds throughout.
LEMMA SpecIrqInv == IrqSpec => []IrqInv
<1>1. IrqInit => IrqInv
  BY InitIrqInv
<1>2. IrqInv /\ [IrqNext]_allvars => IrqInv'
  BY NextIrqInv
<1> QED
  BY <1>1, <1>2, PTL DEF IrqSpec

\* However often handlers interrupt pmem_alloc and take pages, the boot code
\* never gets a page twice (pmem.c:227-247).
THEOREM PmemBootPagesDistinct == IrqSpec => []BootPagesDistinct
<1>1. IrqInv => BootPagesDistinct
  <2> SUFFICES ASSUME IrqInv, NEW p \in DOMAIN boot_held PROVE boot_held[p] <= 1
    BY DEF BootPagesDistinct
  <2>1. pc # "calls"
    BY DEF IrqInv, SearchInv
  <2>2. /\ boot_held \in [RecordNumber -> Nat] /\ marks \in [RecordNumber -> {0, 1}]
        /\ \A r \in RecordNumber : boot_held[r] <= marks[r]
    BY <2>1 DEF IrqInv, SearchInv, HeldInv
  <2>3. boot_held[p] \in Nat /\ boot_held[p] <= marks[p] /\ marks[p] \in {0, 1}
    BY <2>2
  <2> QED
    BY <2>3
<1> QED
  BY <1>1, SpecIrqInv, PTL
-----------------------------------------------------------------------------
(* Counting records and lendings. *)

\* A page lent once more is one lending more.
LEMMA OneMoreLending ==
  ASSUME NEW S, NEW h \in [S -> Nat], NEW p \in S, IsFiniteSet(Lendings(h))
  PROVE  LET g == [h EXCEPT ![p] = @ + 1]
         IN  /\ IsFiniteSet(Lendings(g))
             /\ Cardinality(Lendings(g)) = Cardinality(Lendings(h)) + 1
<1> DEFINE g == [h EXCEPT ![p] = @ + 1]
           x == <<p, h[p] + 1>>
<1>1. \A e : e \in Lendings(h) <=> \E q \in S : \E n \in 1 .. h[q] : e = <<q, n>>
  BY DEF Lendings
<1>2. \A e : e \in Lendings(g) <=> \E q \in S : \E n \in 1 .. g[q] : e = <<q, n>>
  BY DEF Lendings
<1>3. /\ g[p] = h[p] + 1 /\ h[p] \in Nat
      /\ \A q \in S : q # p => g[q] = h[q]
      /\ \A q \in S : h[q] \in Nat
  OBVIOUS
<1> HIDE DEF g
<1>4. 1 .. g[p] = (1 .. h[p]) \cup {h[p] + 1}
  BY <1>3
<1>5. Lendings(g) = Lendings(h) \cup {x}
  <2>1. ASSUME NEW e \in Lendings(g) PROVE e \in Lendings(h) \cup {x}
    <3>0. PICK q \in S : \E n \in 1 .. g[q] : e = <<q, n>>
      BY <1>2, <2>1
    <3>1. PICK n \in 1 .. g[q] : e = <<q, n>>
      BY <3>0
    <3>2. CASE q = p
      BY <1>1, <1>4, <3>1, <3>2
    <3>3. CASE q # p
      BY <1>1, <1>3, <3>1, <3>3
    <3> QED
      BY <3>2, <3>3
  <2>2. ASSUME NEW e \in Lendings(h) PROVE e \in Lendings(g)
    <3>0. PICK q \in S : \E n \in 1 .. h[q] : e = <<q, n>>
      BY <1>1, <2>2
    <3>1. PICK n \in 1 .. h[q] : e = <<q, n>>
      BY <3>0
    <3>2. CASE q = p
      BY <1>2, <1>4, <3>1, <3>2
    <3>3. CASE q # p
      BY <1>2, <1>3, <3>1, <3>3
    <3> QED
      BY <3>2, <3>3
  <2>3. x \in Lendings(g)
    BY <1>2, <1>4
  <2> QED
    BY <2>1, <2>2, <2>3
<1>6. x \notin Lendings(h)
  <2>1. h[p] + 1 \notin 1 .. h[p]
    BY <1>3
  <2> QED
    BY <1>1, <2>1
<1> HIDE DEF x
<1>7. /\ IsFiniteSet(Lendings(g))
      /\ Cardinality(Lendings(g)) = Cardinality(Lendings(h)) + 1
  BY <1>5, <1>6, FS_AddElement
<1> QED
  BY <1>7 DEF g

\* A page given back is one lending less.
LEMMA OneLendingLess ==
  ASSUME NEW S, NEW h \in [S -> Nat], NEW p \in S, h[p] > 0, IsFiniteSet(Lendings(h))
  PROVE  LET g == [h EXCEPT ![p] = @ - 1]
         IN  /\ IsFiniteSet(Lendings(g))
             /\ Cardinality(Lendings(h)) = Cardinality(Lendings(g)) + 1
<1> DEFINE g == [h EXCEPT ![p] = @ - 1]
<1>1. /\ g \in [S -> Nat] /\ h = [g EXCEPT ![p] = @ + 1]
      /\ \A q \in S : g[q] <= h[q] /\ g[q] \in Nat /\ h[q] \in Nat
  <2>1. h[p] \in Nat /\ h[p] - 1 \in Nat /\ (h[p] - 1) + 1 = h[p]
    OBVIOUS
  <2>2. g \in [S -> Nat]
    BY <2>1
  <2>3. /\ g[p] = h[p] - 1
        /\ \A q \in S : q # p => g[q] = h[q]
    OBVIOUS
  <2>4. h = [g EXCEPT ![p] = @ + 1]
    <3> DEFINE f == [g EXCEPT ![p] = @ + 1]
    <3>1. DOMAIN f = S /\ DOMAIN h = S
      OBVIOUS
    <3>2. \A q \in S : f[q] = h[q]
      BY <2>1, <2>2, <2>3
    <3>3. f = [q \in S |-> f[q]] /\ h = [q \in S |-> h[q]]
      BY <2>2
    <3> HIDE DEF f
    <3>4. f = h
      BY <3>2, <3>3
    <3> QED
      BY <3>4 DEF f
  <2>5. \A q \in S : g[q] <= h[q] /\ h[q] \in Nat
    BY <2>1, <2>3
  <2> QED
    BY <2>2, <2>4, <2>5
<1> HIDE DEF g
<1>2. Lendings(g) \subseteq Lendings(h)
  <2>1. \A q \in S : 1 .. g[q] \subseteq 1 .. h[q]
    BY <1>1
  <2> QED
    BY <1>1, <2>1 DEF Lendings
<1>3. IsFiniteSet(Lendings(g))
  BY <1>2, FS_Subset
<1> QED
  BY <1>1, <1>3, OneMoreLending DEF g

\* Marking a free record makes one marked record more.
LEMMA OneMoreMark ==
  ASSUME NEW S, NEW m \in [S -> {0, 1}], NEW p \in S, m[p] = 0,
         IsFiniteSet({r \in S : m[r] = 1})
  PROVE  LET g == [m EXCEPT ![p] = 1]
             M == {r \in S : m[r] = 1}
             G == {r \in S : g[r] = 1}
         IN  IsFiniteSet(G) /\ Cardinality(G) = Cardinality(M) + 1
<1> DEFINE g == [m EXCEPT ![p] = 1]
           M == {r \in S : m[r] = 1}
           G == {r \in S : g[r] = 1}
<1>1. G = M \cup {p} /\ p \notin M
  OBVIOUS
<1>2. IsFiniteSet(M)
  OBVIOUS
<1> HIDE DEF M, G
<1>3. IsFiniteSet(G) /\ Cardinality(G) = Cardinality(M) + 1
  BY <1>1, <1>2, FS_AddElement
<1> QED
  BY <1>3 DEF M, G

\* Freeing a marked record makes one marked record less.
LEMMA OneMarkLess ==
  ASSUME NEW S, NEW m \in [S -> {0, 1}], NEW p \in S, m[p] = 1,
         IsFiniteSet({r \in S : m[r] = 1})
  PROVE  LET g == [m EXCEPT ![p] = 0]
             M == {r \in S : m[r] = 1}
             G == {r \in S : g[r] = 1}
         IN  IsFiniteSet(G) /\ Cardinality(M) = Cardinality(G) + 1
<1> DEFINE g == [m EXCEPT ![p] = 0]
           M == {r \in S : m[r] = 1}
           G == {r \in S : g[r] = 1}
<1>1. G = M \ {p} /\ M = G \cup {p} /\ p \notin G
  OBVIOUS
<1>2. IsFiniteSet(M)
  OBVIOUS
<1> HIDE DEF M, G
<1>3. IsFiniteSet(G)
  BY <1>1, <1>2, FS_RemoveElement
<1>4. IsFiniteSet(G) /\ Cardinality(M) = Cardinality(G) + 1
  BY <1>1, <1>3, FS_AddElement
<1> QED
  BY <1>4 DEF M, G

\* As many records are marked as pages were lent, but for the one the boot
\* code is about to return; and until the last allocation of a handler the
\* search position is where the boot code left it.
CountInv ==
  pc # "calls" =>
    /\ IsFiniteSet(Lendings(boot_held)) /\ IsFiniteSet(Lendings(irq_held))
    /\ IsFiniteSet(Marked)
    /\ Cardinality(Lendings(boot_held)) + Cardinality(Lendings(irq_held))
         + (IF pc = "return" THEN 1 ELSE 0) = Cardinality(Marked)
    /\ pc \in {"examine", "mark"} =>
         pos = mine \/ Cardinality(Lendings(irq_held)) >= MaxIrqPages
    /\ pc = "mark" => marks[mine] = 0

\* After pmem_initialize no record is marked and no page is out.
LEMMA BeginCount == IrqInv /\ Begin => CountInv'
<1> SUFFICES ASSUME IrqInv, Begin PROVE CountInv'
  OBVIOUS
<1>1. /\ marks' = record /\ pc' = "idle" /\ size' = size
      /\ boot_held' = [r \in RecordNumber |-> 0]
      /\ irq_held' = [r \in RecordNumber |-> 0]
      /\ \A r \in RecordNumber : record[r] = 0
  BY DEF Begin, vars, layout
<1>2. Marked' = {}
  BY <1>1 DEF Marked, RecordNumber
<1>3. Lendings(boot_held') = {} /\ Lendings(irq_held') = {}
  BY <1>1 DEF Lendings
<1>4. IsFiniteSet({}) /\ Cardinality({}) = 0
  BY FS_EmptySet
<1> QED
  BY <1>1, <1>2, <1>3, <1>4 DEF CountInv, Lendings

\* The steps that neither mark a record nor lend a page.
LEMMA QuietCount ==
  ASSUME IrqInv, CountInv, UNCHANGED <<vars, marks, held>>,
         \/ ReadStart \/ LoadCurr \/ StoreCurr \/ WrapTest \/ WrapStore
         \/ LoopTest \/ TakeRecordPtr \/ Examine
  PROVE  CountInv'
<1>1. RecordNumber' = RecordNumber
  BY DEF vars, layout, RecordNumber
<1>2. UNCHANGED <<Marked, Lendings(boot_held), Lendings(irq_held)>>
  BY <1>1 DEF held, Marked, Lendings
<1>3. /\ pc # "calls" /\ pc # "return" /\ pc' # "return"
      /\ pc' \in {"examine", "mark"} =>
           pos' = mine' \/ (pc = "examine" /\ UNCHANGED <<pos, mine>>)
      /\ pc' = "mark" => marks'[mine'] = 0
  BY DEF ReadStart, LoadCurr, StoreCurr, WrapTest, WrapStore, LoopTest, TakeRecordPtr,
         Examine, Boot, locals, held
<1> QED
  BY <1>2, <1>3 DEF CountInv

\* A mark and a lending more, or less, keep the balance.
LEMMA Balance ==
  ASSUME NEW b \in Nat, NEW i \in Nat, NEW n \in Nat
  PROVE  /\ b + i + 0 = n => b + i + 1 = n + 1
         /\ b + i + 1 = n => (b + 1) + i + 0 = n
         /\ \A e \in Nat : b + i + e = n => b + (i + 1) + e = n + 1
         /\ \A c \in Nat, k \in Nat :
              b + i + 0 = n /\ b = c + 1 /\ n = k + 1 => c + i + 0 = k
  OBVIOUS

\* The record being marked was free.
LEMMA MarkCount == IrqInv /\ CountInv /\ UNCHANGED vars /\ Mark => CountInv'
<1> SUFFICES ASSUME IrqInv, CountInv, UNCHANGED vars, Mark PROVE CountInv'
  OBVIOUS
<1>1. RecordNumber' = RecordNumber
  BY DEF vars, layout, RecordNumber
<1>2. /\ pc = "mark" /\ pc' = "return"
      /\ marks' = [marks EXCEPT ![mine] = 1]
      /\ UNCHANGED <<boot_held, irq_held>>
  BY DEF Mark, Boot, held
<1>3. /\ marks \in [RecordNumber -> {0, 1}] /\ mine \in RecordNumber /\ marks[mine] = 0
      /\ IsFiniteSet(Lendings(boot_held)) /\ IsFiniteSet(Lendings(irq_held))
      /\ IsFiniteSet(Marked)
      /\ Cardinality(Lendings(boot_held)) + Cardinality(Lendings(irq_held)) + 0
           = Cardinality(Marked)
  BY <1>2 DEF IrqInv, SearchInv, CountInv
<1>4. IsFiniteSet(Marked') /\ Cardinality(Marked') = Cardinality(Marked) + 1
  BY <1>1, <1>2, <1>3, OneMoreMark DEF Marked
<1>5. Cardinality(Lendings(boot_held)) + Cardinality(Lendings(irq_held)) + 1
        = Cardinality(Marked')
  BY <1>3, <1>4, FS_CardinalityType
<1> QED
  BY <1>2, <1>3, <1>4, <1>5 DEF CountInv

\* The page returned is the one whose record was marked before.
LEMMA ReturnCount == IrqInv /\ CountInv /\ UNCHANGED vars /\ ReturnPage => CountInv'
<1> SUFFICES ASSUME IrqInv, CountInv, UNCHANGED vars, ReturnPage PROVE CountInv'
  OBVIOUS
<1>1. RecordNumber' = RecordNumber /\ size \in Nat /\ RecordNumber = 0 .. size - 1
  BY DEF vars, layout, RecordNumber, IrqInv, Inv, TypeOK
<1>2. /\ pc = "return" /\ pc' = "idle"
      /\ boot_held' = [boot_held EXCEPT ![pos] = @ + 1]
      /\ UNCHANGED <<marks, irq_held>>
  BY DEF ReturnPage, Boot
<1>3. /\ boot_held \in [RecordNumber -> Nat] /\ pos \in RecordNumber
      /\ IsFiniteSet(Lendings(boot_held)) /\ IsFiniteSet(Lendings(irq_held))
      /\ IsFiniteSet(Marked)
      /\ Cardinality(Lendings(boot_held)) + Cardinality(Lendings(irq_held)) + 1
           = Cardinality(Marked)
  BY <1>1, <1>2 DEF IrqInv, SearchInv, CountInv
<1>4. Marked' = Marked
  BY <1>1, <1>2 DEF Marked
<1>5. /\ IsFiniteSet(Lendings(boot_held'))
      /\ Cardinality(Lendings(boot_held')) = Cardinality(Lendings(boot_held)) + 1
  BY <1>2, <1>3, OneMoreLending
<1>6. Cardinality(Lendings(boot_held')) + Cardinality(Lendings(irq_held)) + 0
        = Cardinality(Marked)
  BY <1>3, <1>5, FS_CardinalityType
<1> QED
  BY <1>2, <1>3, <1>4, <1>5, <1>6 DEF CountInv, Lendings

\* A page given back frees its record.
LEMMA FreeCount == IrqInv /\ CountInv /\ UNCHANGED vars /\ FreePage => CountInv'
<1> SUFFICES ASSUME IrqInv, CountInv, UNCHANGED vars, FreePage PROVE CountInv'
  OBVIOUS
<1>1. RecordNumber' = RecordNumber /\ size \in Nat /\ RecordNumber = 0 .. size - 1
  BY DEF vars, layout, RecordNumber, IrqInv, Inv, TypeOK
<1>2. PICK p \in RecordNumber :
        /\ pc = "idle" /\ boot_held[p] > 0
        /\ marks' = [marks EXCEPT ![p] = 0]
        /\ boot_held' = [boot_held EXCEPT ![p] = @ - 1]
        /\ UNCHANGED <<pc, irq_held>>
  BY DEF FreePage, Boot
<1>3. /\ boot_held \in [RecordNumber -> Nat] /\ marks \in [RecordNumber -> {0, 1}]
      /\ \A r \in RecordNumber : boot_held[r] <= marks[r]
      /\ IsFiniteSet(Lendings(boot_held)) /\ IsFiniteSet(Lendings(irq_held))
      /\ IsFiniteSet(Marked)
      /\ Cardinality(Lendings(boot_held)) + Cardinality(Lendings(irq_held)) + 0
           = Cardinality(Marked)
  BY <1>2 DEF IrqInv, SearchInv, HeldInv, CountInv
<1>4. marks[p] = 1
  <2>1. boot_held[p] \in Nat /\ boot_held[p] <= marks[p] /\ marks[p] \in {0, 1}
    BY <1>3
  <2> QED
    BY <1>2, <2>1
<1>5. IsFiniteSet(Marked') /\ Cardinality(Marked) = Cardinality(Marked') + 1
  <2>1. /\ Marked = {r \in RecordNumber : marks[r] = 1}
        /\ Marked' = {r \in RecordNumber : [marks EXCEPT ![p] = 0][r] = 1}
    BY <1>1, <1>2 DEF Marked
  <2>2. IsFiniteSet({r \in RecordNumber : marks[r] = 1})
    BY <1>3, <2>1
  <2> QED
    BY <1>3, <1>4, <2>1, <2>2, OneMarkLess, ZenonT(40)
<1>6. /\ IsFiniteSet(Lendings(boot_held'))
      /\ Cardinality(Lendings(boot_held)) = Cardinality(Lendings(boot_held')) + 1
  BY <1>2, <1>3, OneLendingLess, ZenonT(40)
<1>7. Cardinality(Lendings(boot_held')) + Cardinality(Lendings(irq_held)) + 0
        = Cardinality(Marked')
  BY <1>3, <1>5, <1>6, FS_CardinalityType, Balance
<1> QED
  BY <1>2, <1>3, <1>5, <1>6, <1>7 DEF CountInv, Lendings

\* The one allocation of a handler takes another record than the one the boot
\* code has chosen and not yet marked.
LEMMA HandlerCount ==
  ASSUME MaxIrqPages <= 1, IrqInv, CountInv, UNCHANGED vars, IrqAlloc
  PROVE  CountInv'
<1>1. RecordNumber' = RecordNumber /\ size \in Nat /\ RecordNumber = 0 .. size - 1
  BY DEF vars, layout, RecordNumber, IrqInv, Inv, TypeOK
<1>2. /\ pc # "calls" /\ UNCHANGED <<pc, mine, boot_held>>
      /\ Cardinality(Lendings(irq_held)) < MaxIrqPages
  BY DEF IrqAlloc, locals
<1>3. CASE UNCHANGED <<pos, marks, irq_held>>
  BY <1>1, <1>2, <1>3 DEF CountInv, Marked, Lendings
<1>4. CASE ~UNCHANGED <<pos, marks, irq_held>>
  <2> DEFINE p == Searched[Min(FreeSteps)]
             e == IF pc = "return" THEN 1 ELSE 0
  <2>1. /\ FreeSteps # {} /\ pos' = p
        /\ marks' = [marks EXCEPT ![p] = 1]
        /\ irq_held' = [irq_held EXCEPT ![p] = @ + 1]
    BY <1>4 DEF IrqAlloc
  <2>2. p \in RecordNumber /\ marks[p] = 0 /\ p # pos
    BY <1>1, <2>1, HandlerTakes DEF IrqInv, SearchInv
  <2> HIDE DEF p
  <2>3. /\ irq_held \in [RecordNumber -> Nat] /\ marks \in [RecordNumber -> {0, 1}]
        /\ IsFiniteSet(Lendings(boot_held)) /\ IsFiniteSet(Lendings(irq_held))
        /\ IsFiniteSet(Marked)
        /\ Cardinality(Lendings(boot_held)) + Cardinality(Lendings(irq_held)) + e
             = Cardinality(Marked)
        /\ pc \in {"examine", "mark"} =>
             /\ mine \in RecordNumber
             /\ pos = mine \/ Cardinality(Lendings(irq_held)) >= MaxIrqPages
        /\ pc = "mark" => marks[mine] = 0
    BY <1>2 DEF IrqInv, SearchInv, CountInv
  <2>4. e \in Nat
    OBVIOUS
  <2> HIDE DEF e
  <2>5. IsFiniteSet(Marked') /\ Cardinality(Marked') = Cardinality(Marked) + 1
    <3>1. /\ Marked = {r \in RecordNumber : marks[r] = 1}
          /\ Marked' = {r \in RecordNumber : [marks EXCEPT ![p] = 1][r] = 1}
      BY <1>1, <2>1 DEF Marked
    <3>2. IsFiniteSet({r \in RecordNumber : marks[r] = 1})
      BY <2>3, <3>1
    <3> QED
      BY <2>2, <2>3, <3>1, <3>2, OneMoreMark
  <2>6. /\ IsFiniteSet(Lendings(irq_held'))
        /\ Cardinality(Lendings(irq_held')) = Cardinality(Lendings(irq_held)) + 1
    BY <2>1, <2>2, <2>3, OneMoreLending
  <2>7. Cardinality(Lendings(boot_held)) + Cardinality(Lendings(irq_held')) + e
          = Cardinality(Marked')
    BY <2>3, <2>4, <2>5, <2>6, FS_CardinalityType, Balance
  <2>8. Cardinality(Lendings(irq_held')) >= MaxIrqPages
    BY <2>3, <2>6, FS_CardinalityType, MaxIrqPagesAssumption
  <2>9. pc = "mark" => marks'[mine] = 0
    <3> SUFFICES ASSUME pc = "mark" PROVE marks'[mine] = 0
      OBVIOUS
    <3>1. pos = mine
      BY <1>2, <2>3, FS_CardinalityType, MaxIrqPagesAssumption
    <3> QED
      BY <2>1, <2>2, <2>3, <3>1
  <2> QED
    BY <1>2, <2>3, <2>5, <2>6, <2>7, <2>8, <2>9 DEF CountInv, Lendings, e
<1> QED
  BY <1>3, <1>4

\* With at most one allocation by a handler every step keeps the count.
LEMMA NextCount ==
  ASSUME MaxIrqPages <= 1, IrqInv, CountInv, [IrqNext]_allvars
  PROVE  CountInv'
<1>1. ASSUME UNCHANGED vars, UNCHANGED steps PROVE CountInv'
  <2>1. RecordNumber' = RecordNumber
    BY <1>1 DEF vars, layout, RecordNumber
  <2> QED
    BY <1>1, <2>1 DEF steps, locals, held, CountInv, Marked, Lendings
<1>2. CASE OneCall
  BY <1>2 DEF OneCall, steps, CountInv
<1>3. CASE Begin
  BY <1>3, BeginCount
<1>4. CASE StepNext
  <2>1. UNCHANGED vars
    BY <1>4 DEF StepNext
  <2>2. CASE Stuck
    BY <1>1, <2>1, <2>2 DEF Stuck
  <2>3. CASE \/ ReadStart \/ LoadCurr \/ StoreCurr \/ WrapTest \/ WrapStore
             \/ LoopTest \/ TakeRecordPtr \/ Examine
    <3>1. UNCHANGED <<marks, held>>
      BY <2>3 DEF ReadStart, LoadCurr, StoreCurr, WrapTest, WrapStore, LoopTest,
                  TakeRecordPtr, Examine
    <3> QED
      BY <2>1, <2>3, <3>1, QuietCount
  <2> QED
    BY <1>4, <2>1, <2>2, <2>3, MarkCount, ReturnCount, FreeCount, HandlerCount
       DEF StepNext
<1> QED
  BY <1>1, <1>2, <1>3, <1>4 DEF IrqNext, allvars

\* With a single allocation by a handler, wherever it interrupts the boot
\* code, as many records are marked as pages were lent, and the interrupted
\* search looks only at records that exist (pmem.c:227-247).
THEOREM PmemNoOvercommit ==
  ASSUME MaxIrqPages <= 1
  PROVE  IrqSpec => []NoOvercommit
<1>1. IrqInit => CountInv
  BY DEF IrqInit, CountInv
<1>2. IrqInv /\ CountInv /\ [IrqNext]_allvars => CountInv'
  BY NextCount
<1>3. IrqInv /\ CountInv => NoOvercommit
  <2> SUFFICES ASSUME IrqInv, CountInv PROVE NoOvercommit
    OBVIOUS
  <2>1. pc \in {"look", "return"} => pos \in RecordNumber
    BY DEF IrqInv, SearchInv
  <2>2. ASSUME pc # "calls"
        PROVE  Cardinality(Lendings(boot_held)) + Cardinality(Lendings(irq_held))
                 = Cardinality(Marked) - (IF pc = "return" THEN 1 ELSE 0)
    BY <2>2, FS_CardinalityType DEF CountInv
  <2> QED
    BY <2>1, <2>2 DEF NoOvercommit
<1> QED
  BY <1>1, <1>2, <1>3, SpecIrqInv, PTL DEF IrqSpec
=============================================================================
