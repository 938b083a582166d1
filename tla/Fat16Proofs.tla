---------------------------- MODULE Fat16Proofs ----------------------------
(***************************************************************************)
(* Proofs about Fat16Irq, for every size of the disk, every row of writes  *)
(* and every size of files: FormatLeavesEmptyDisk and                      *)
(* OnlyOverlappingWritesHurt of the boot code under interrupts, and        *)
(* ImplementsFileStore of the calls one after another.                     *)
(***************************************************************************)
EXTENDS Fat16Irq, FiniteSetTheorems, SequenceTheorems, WellFoundedInduction, TLAPS

\* Tables, data and directory have an entry for every number.
Shapes ==
  /\ fat = [c \in Cluster |-> fat[c]]
  /\ data = [c \in Cluster |-> data[c]]
  /\ root = [n \in EntryNumber |-> root[n]]

\* How far ramdisk_fat16_format is: the sectors of the table and of the
\* directory it has zeroed, until it writes the marks.
FormatInv ==
  /\ pc = "calls" => next = 1
  /\ pc = "format" => next \in 1 .. Len(FormatWrites)
  /\ ~Formatted => log = {}
  /\ pc = "format" /\ ~Formatted =>
       /\ \A c \in Cluster : 2 * (c \div EntriesPerSector) + 1 < next => fat[c] = 0
       /\ \A n \in EntryNumber :
            2 * TableSectors + 1 + (n \div EntriesPerSector) < next => root[n] = FreeEntry

\* What a visible entry points to looks taken.
EntriesTaken == \A n \in Visible : root[n].cluster \in Cluster /\ fat[root[n].cluster] # 0

\* The steps of the boot code's file_write after the end mark is in the table.
Late == {"root_entry", "enter", "done"}
\* The steps between its search for a free cluster and its entry.
Chosen == {"data", "end_mark", "root_entry", "enter"}

\* A file that was written outside of the boot code's call, and what the call
\* has chosen meanwhile.
Safe(w) ==
  /\ Stored(w) /\ w.name[1] # 0
  /\ fat[w.cluster] # 0
  /\ pc \in Chosen => sector # w.cluster
  /\ pc = "enter" => entry # w.entry

\* The files written outside of the call are safe.
LogInv ==
  \A w \in log :
    /\ w.cluster \in Cluster /\ w.entry \in EntryNumber
    /\ ~w.overlaps /\ w.entry # 0 => Safe(w)

\* No handler wrote a file during the call.
NoOverlap == \A w \in log : ~w.overlaps

\* The starting file, as the log would hold it.
StartRecord == [name |-> Start, cluster |-> sector, size |-> 1, entry |-> entry]

\* The boot code's call, as long as no handler wrote during it.
BootInv ==
  /\ pc \in Chosen \cup {"done"} => sector \in Cluster \ {0}
  /\ pc \in {"enter", "done"} => entry \in EntryNumber
  /\ pc \in Late => fat[sector] # 0
  /\ Running /\ NoOverlap =>
       /\ pc \in {"data", "end_mark"} => fat[sector] = 0
       /\ pc \in Chosen => \A n \in Visible : root[n].cluster # sector
       /\ pc \in {"end_mark"} \cup Late => SubSeq(data[sector], 1, 1) = Text(Start, 1)
       /\ pc = "enter" /\ entry # 0 => ~InUse(root[entry])
  /\ NoOverlap /\ pc = "done" /\ entry # 0 => Stored(StartRecord)

\* The inductive invariant; nothing is said of a disk before it is mounted for
\* the boot code.
Fat16Inv ==
  /\ FormatInv
  /\ pc # "calls" => Shapes
  /\ Formatted => EntriesTaken
  /\ LogInv /\ BootInv /\ FormatLeavesEmptyDisk
-----------------------------------------------------------------------------
(* Searches. *)

\* A set of natural numbers has a least one.
LEMMA LeastNumber ==
  ASSUME NEW S, S \subseteq Nat, S # {}
  PROVE  \E n \in S : \A k \in S : n <= k
<1>1. PICK n \in S : \A k \in S : ~(<<k, n>> \in OpToRel(<, Nat))
  BY WFMin, NatLessThanWellFounded
<1>2. \A k \in S : ~(k < n)
  BY <1>1 DEF OpToRel
<1>3. \A k \in S : n <= k
  BY <1>2
<1> QED
  BY <1>3

\* The least one is Min.
LEMMA MinOfSet ==
  ASSUME NEW S, S \subseteq Nat, S # {}
  PROVE  Min(S) \in S /\ \A k \in S : Min(S) <= k
<1>1. \E n \in S : \A k \in S : n <= k
  BY LeastNumber
<1> QED
  BY <1>1 DEF Min

\* The numbers of the disk.
LEMMA DiskFacts ==
  /\ 0 \in Cluster /\ 1 \in Cluster /\ Cluster \subseteq Nat
  /\ 0 \in EntryNumber /\ EntryNumber \subseteq Nat
  /\ BytesPerSector \in Nat \ {0}
  BY GeometryAssumption DEF Cluster, EntryNumber

\* find_next_free_cluster finds a free cluster other than 0, or returns 0; it
\* does return 0 when cluster 0 looks free.
LEMMA FreeClusterFacts ==
  ASSUME NEW t
  PROVE  /\ FreeCluster(t) \in Cluster
         /\ FreeCluster(t) # 0 => t[FreeCluster(t)] = 0
         /\ t[0] = 0 => FreeCluster(t) = 0
<1> DEFINE free == {c \in Cluster : t[c] = 0}
<1>1. CASE free = {}
  BY <1>1, DiskFacts DEF FreeCluster
<1>2. CASE free # {}
  <2>1. free \subseteq Nat
    BY DiskFacts
  <2>2. FreeCluster(t) = Min(free)
    BY <1>2 DEF FreeCluster
  <2>3. Min(free) \in free /\ \A k \in free : Min(free) <= k
    BY <1>2, <2>1, MinOfSet
  <2>4. 0 \in free => Min(free) = 0
    BY <2>1, <2>3
  <2> QED
    BY <2>2, <2>3, <2>4, DiskFacts
<1> QED
  BY <1>1, <1>2

\* find_next_free_root_entry finds an entry that is not in use, or returns 0.
LEMMA FreeRootEntryFacts ==
  /\ FreeRootEntry \in EntryNumber
  /\ FreeRootEntry # 0 => ~InUse(root[FreeRootEntry])
<1> DEFINE free == {i \in EntryNumber \ {0} : ~InUse(root[i])}
<1>1. CASE free = {}
  BY <1>1, DiskFacts DEF FreeRootEntry
<1>2. CASE free # {}
  <2>1. free \subseteq Nat
    BY DiskFacts
  <2>2. FreeRootEntry = Min(free)
    BY <1>2 DEF FreeRootEntry
  <2>3. Min(free) \in free
    BY <1>2, <2>1, MinOfSet
  <2> QED
    BY <2>2, <2>3
<1> QED
  BY <1>1, <1>2

\* Swapping the bytes of a number other than 0 does not make it 0.
LEMMA SwapNotZero ==
  ASSUME NEW n \in Nat, n # 0
  PROVE  eswap_uint16(n) # 0
<1> DEFINE q == n \div 256
           r == n % 256
<1>1. q \in Nat /\ r \in Nat /\ n = 256 * q + r
  OBVIOUS
<1>2. eswap_uint16(n) = r * 256 + q
  BY DEF eswap_uint16
<1> HIDE DEF q, r
<1> QED
  BY <1>1, <1>2

\* A name or an extension, filled up, is a row of bytes.
LEMMA PaddedName ==
  ASSUME NEW s \in Seq(1 .. 255), NEW n \in Nat
  PROVE  /\ Padded(s, n) \in Seq(Nat) /\ Len(Padded(s, n)) = n
         /\ n > 0 => Padded(s, n)[1] # 0
<1>1. Len(s) \in Nat
  BY LenProperties
<1>2. ASSUME NEW i \in 1 .. n
      PROVE  Padded(s, n)[i] \in Nat /\ Padded(s, n)[i] # 0
  <2>1. Padded(s, n)[i] = IF i <= Len(s) THEN s[i] ELSE Blank
    BY DEF Padded
  <2>2. ASSUME i <= Len(s) PROVE s[i] \in 1 .. 255
    <3>1. i \in 1 .. Len(s)
      BY <1>1, <2>2
    <3> QED
      BY <3>1, ElementOfSeq
  <2>3. CASE i <= Len(s)
    <3>1. s[i] \in 1 .. 255
      BY <2>2, <2>3
    <3>2. \A x \in 1 .. 255 : x \in Nat /\ x # 0
      OBVIOUS
    <3> QED
      BY <2>1, <2>3, <3>1, <3>2
  <2>4. CASE ~(i <= Len(s))
    BY <2>1, <2>4 DEF Blank
  <2> QED
    BY <2>3, <2>4
<1>3. Padded(s, n) = [i \in 1 .. n |-> Padded(s, n)[i]]
  BY DEF Padded
<1>4. n > 0 => 1 \in 1 .. n
  OBVIOUS
<1> HIDE DEF Padded
<1>5. Padded(s, n) \in [1 .. n -> Nat]
  BY <1>2, <1>3
<1>6. Padded(s, n) \in Seq(Nat) /\ Len(Padded(s, n)) = n
  BY <1>5
<1> QED
  BY <1>2, <1>4, <1>6

\* A native name is a row of bytes that does not begin with a zero.
LEMMA NativeName ==
  ASSUME NEW raw \in FileNames
  PROVE  filename_to_native(raw) \in Seq(Nat) /\ filename_to_native(raw)[1] # 0
<1> DEFINE dots == {i \in DOMAIN raw : raw[i] = Dot}
           end == IF dots = {} THEN Len(raw) + 1 ELSE Min(dots)
           first == SubSeq(raw, 1, end - 1)
           second == SubSeq(raw, end + 1, Len(raw))
<1>1. raw \in Seq(1 .. 255) /\ NameLen \in Nat \ {0} /\ ExtLen \in Nat
  BY NamesAssumption
<1>2. DOMAIN raw = 1 .. Len(raw) /\ Len(raw) \in Nat
  BY <1>1, LenProperties
<1>3. end \in 1 .. Len(raw) + 1
  <2>1. dots \subseteq Nat /\ dots \subseteq 1 .. Len(raw)
    BY <1>2
  <2>2. dots # {} => Min(dots) \in dots
    BY <2>1, MinOfSet
  <2> QED
    BY <1>2, <2>1, <2>2
<1> HIDE DEF end
<1>4. first \in Seq(1 .. 255)
  BY <1>1, <1>2, <1>3, SubSeqProperties
<1>5. second \in Seq(1 .. 255)
  <2>1. ASSUME NEW i \in end + 1 .. Len(raw) PROVE raw[i] \in 1 .. 255
    <3>1. i \in 1 .. Len(raw)
      BY <1>2, <1>3
    <3> QED
      BY <1>1, <3>1, ElementOfSeq
  <2>2. end + 1 \in Int /\ Len(raw) \in Int
    BY <1>2, <1>3
  <2> QED
    BY <2>1, <2>2, SubSeqProperties
<1>6. filename_to_native(raw) = Padded(first, NameLen) \o Padded(second, ExtLen)
  BY DEF filename_to_native, end, first, second
<1> HIDE DEF first, second
<1> DEFINE p == Padded(first, NameLen)
           e == Padded(second, ExtLen)
<1>7. p \in Seq(Nat) /\ Len(p) = NameLen /\ p[1] # 0
  BY <1>1, <1>4, PaddedName
<1>8. e \in Seq(Nat)
  BY <1>1, <1>5, PaddedName
<1> HIDE DEF p, e
<1>9. (p \o e)[1] = p[1]
  <2>1. 1 \in 1 .. Len(p)
    BY <1>1, <1>7
  <2> QED
    BY <1>7, <1>8, <2>1, ConcatProperties
<1>10. p \o e \in Seq(Nat)
  BY <1>7, <1>8, ConcatProperties
<1> QED
  BY <1>6, <1>7, <1>9, <1>10 DEF p, e
-----------------------------------------------------------------------------
(* The loop of ramdisk_fat16_file_write. *)

\* One round of it.
FillRound(w, text, k) ==
  LET next_cluster == FreeCluster(w.fat)
  IN  IF w.sector = 0 THEN w
      ELSE [fat |-> IF next_cluster = 0 THEN w.fat
                    ELSE [w.fat EXCEPT ![w.sector] = eswap_uint16(next_cluster)],
            data |-> [w.data EXCEPT ![w.sector] = Over(@, Piece(text, k))],
            sector |-> next_cluster]

\* f has what the rounds leave behind.
Filling(f, text, rounds) ==
  f = [k \in 0 .. rounds |->
         IF k = 0 THEN [fat |-> fat, data |-> data, sector |-> FreeCluster(fat)]
         ELSE FillRound(f[k - 1], text, k)]

\* There is such a function, whatever the number of rounds.
LEMMA FillingExists ==
  ASSUME NEW text, NEW n \in Nat
  PROVE  \E f : Filling(f, text, n)
<1> DEFINE S == {k \in Nat : ~(\E f : Filling(f, text, k))}
           I == [fat |-> fat, data |-> data, sector |-> FreeCluster(fat)]
<1> SUFFICES ASSUME S # {} PROVE FALSE
  OBVIOUS
<1> HIDE DEF I
<1>0. \A f, k : Filling(f, text, k) <=>
        f = [j \in 0 .. k |-> IF j = 0 THEN I ELSE FillRound(f[j - 1], text, j)]
  BY DEF Filling, I
<1>1. PICK k \in S : \A j \in S : k <= j
  BY LeastNumber
<1>2. CASE k = 0
  <2> DEFINE g == [j \in 0 .. 0 |-> I]
  <2>1. g = [j \in 0 .. 0 |-> IF j = 0 THEN I ELSE FillRound(g[j - 1], text, j)]
    <3>1. \A j \in 0 .. 0 : I = IF j = 0 THEN I ELSE FillRound(g[j - 1], text, j)
      OBVIOUS
    <3> QED
      BY <3>1
  <2>2. Filling(g, text, 0)
    BY <1>0, <2>1
  <2> QED
    BY <1>2, <2>2
<1>3. CASE k # 0
  <2>1. k - 1 \in Nat /\ k - 1 \notin S
    BY <1>1, <1>3
  <2>2. PICK f : Filling(f, text, k - 1)
    BY <2>1
  <2> DEFINE g == [j \in 0 .. k |-> IF j <= k - 1 THEN f[j] ELSE FillRound(f[k - 1], text, k)]
             h == [j \in 0 .. k |-> IF j = 0 THEN I ELSE FillRound(g[j - 1], text, j)]
  <2>3. \A j \in 0 .. k - 1 : f[j] = IF j = 0 THEN I ELSE FillRound(f[j - 1], text, j)
    <3>1. f = [j \in 0 .. k - 1 |-> IF j = 0 THEN I ELSE FillRound(f[j - 1], text, j)]
      BY <1>0, <2>2
    <3> DEFINE e == [j \in 0 .. k - 1 |-> IF j = 0 THEN I ELSE FillRound(f[j - 1], text, j)]
    <3>2. \A j \in 0 .. k - 1 : e[j] = IF j = 0 THEN I ELSE FillRound(f[j - 1], text, j)
      OBVIOUS
    <3>3. f = e
      BY <3>1
    <3> HIDE DEF e
    <3> QED
      BY <3>2, <3>3
  <2>4. ASSUME NEW j \in 0 .. k
        PROVE  g[j] = h[j]
    <3>1. CASE j = 0
      BY <2>1, <2>3, <3>1
    <3>2. CASE j # 0 /\ j <= k - 1
      <4>1. j - 1 \in 0 .. k /\ j - 1 <= k - 1 /\ j \in 0 .. k - 1
        BY <2>1, <3>2
      <4>2. g[j] = f[j] /\ g[j - 1] = f[j - 1]
        BY <3>2, <4>1
      <4>3. h[j] = FillRound(g[j - 1], text, j)
        BY <3>2
      <4> HIDE DEF g, h
      <4> QED
        BY <2>3, <3>2, <4>1, <4>2, <4>3
    <3>3. CASE j = k
      <4>1. k - 1 \in 0 .. k /\ ~(k <= k - 1) /\ k \in 0 .. k
        BY <2>1
      <4>2. g[k] = FillRound(f[k - 1], text, k) /\ g[k - 1] = f[k - 1]
        BY <4>1
      <4>3. h[k] = FillRound(g[k - 1], text, k)
        BY <1>3, <4>1
      <4> HIDE DEF g, h
      <4> QED
        BY <3>3, <4>2, <4>3
    <3>4. j = 0 \/ (j # 0 /\ j <= k - 1) \/ j = k
      BY <2>1
    <3> QED
      BY <3>1, <3>2, <3>3, <3>4
  <2>5. g = h
    BY <2>4
  <2>6. Filling(g, text, k)
    BY <1>0, <2>5
  <2> QED
    BY <2>6
<1> QED
  BY <1>2, <1>3

\* What a number of rounds may do to the disk: only clusters that were free are
\* written and marked, and the first of them is marked before the loop leaves
\* it.
RoundsSound(w) ==
  /\ w.fat = [c \in Cluster |-> w.fat[c]] /\ w.data = [c \in Cluster |-> w.data[c]]
  /\ w.sector \in Cluster
  /\ w.sector # 0 => fat[w.sector] = 0
  /\ w.sector # 0 => w.fat[FreeCluster(fat)] # 0 \/ w.sector = FreeCluster(fat)
  /\ \A c \in Cluster : fat[c] # 0 => w.fat[c] = fat[c] /\ w.data[c] = data[c]

\* Every round keeps to that.
LEMMA FillRoundOK ==
  ASSUME NEW w, NEW text, NEW k, RoundsSound(w)
  PROVE  RoundsSound(FillRound(w, text, k))
<1> DEFINE n == FreeCluster(w.fat)
           s == w.sector
           v == FillRound(w, text, k)
           p == Over(w.data[s], Piece(text, k))
<1>1. CASE s = 0
  <2>1. v = w
    BY <1>1 DEF FillRound
  <2> QED
    BY <2>1
<1>2. CASE s # 0
  <2>1. /\ v.fat = IF n = 0 THEN w.fat ELSE [w.fat EXCEPT ![s] = eswap_uint16(n)]
        /\ v.data = [w.data EXCEPT ![s] = p]
        /\ v.sector = n
    BY <1>2 DEF FillRound
  <2>2. n \in Cluster /\ (n # 0 => w.fat[n] = 0) /\ n \in Nat
    BY FreeClusterFacts, DiskFacts
  <2>3. n # 0 => eswap_uint16(n) # 0
    BY <2>2, SwapNotZero
  <2> DEFINE a == w.fat
             d == w.data
             x == eswap_uint16(n)
             g == FreeCluster(fat)
  <2>4. /\ a = [c \in Cluster |-> a[c]] /\ d = [c \in Cluster |-> d[c]]
        /\ s \in Cluster /\ fat[s] = 0
        /\ a[g] # 0 \/ s = g
        /\ \A c \in Cluster : fat[c] # 0 => a[c] = fat[c] /\ d[c] = data[c]
    BY <1>2 DEF RoundsSound
  <2>5. g \in Cluster
    BY FreeClusterFacts
  <2> HIDE DEF n, s, v, p, a, d, x, g
  <2>7. /\ v.data = [d EXCEPT ![s] = p] /\ v.sector = n
        /\ n = 0 => v.fat = a
        /\ n # 0 => v.fat = [a EXCEPT ![s] = x] /\ x # 0
    BY <2>1, <2>3 DEF a, d, x
  <2>8. /\ v.data = [c \in Cluster |-> v.data[c]]
        /\ \A c \in Cluster : c # s => v.data[c] = d[c]
    BY <2>4, <2>7
  <2>9. /\ v.fat = [c \in Cluster |-> v.fat[c]]
        /\ \A c \in Cluster : c # s => v.fat[c] = a[c]
        /\ n # 0 => v.fat[s] = x
    BY <2>4, <2>7
  <2>10. n # 0 => fat[n] = 0
    BY <2>2, <2>4 DEF a
  <2>11. n # 0 => v.fat[g] # 0
    BY <2>4, <2>5, <2>7, <2>9
  <2>12. \A c \in Cluster : fat[c] # 0 => v.fat[c] = fat[c] /\ v.data[c] = data[c]
    BY <2>4, <2>8, <2>9
  <2> QED
    BY <2>2, <2>7, <2>8, <2>9, <2>10, <2>11, <2>12 DEF RoundsSound, v, g
<1> QED
  BY <1>1, <1>2

\* So do all of them.
LEMMA FilledOK ==
  ASSUME Shapes, NEW text, NEW rounds \in Nat
  PROVE  /\ RoundsSound(Filled(text, rounds))
         /\ rounds = 0 =>
              Filled(text, rounds) = [fat |-> fat, data |-> data, sector |-> FreeCluster(fat)]
<1> DEFINE f == CHOOSE f : Filling(f, text, rounds)
           I == [fat |-> fat, data |-> data, sector |-> FreeCluster(fat)]
           S == {k \in 0 .. rounds : ~RoundsSound(f[k])}
<1>1. Filled(text, rounds) = f[rounds]
  BY DEF Filled, Filling, FillRound
<1>2. Filling(f, text, rounds)
  BY FillingExists
<1> HIDE DEF f
<1>3. \A k \in 0 .. rounds : f[k] = IF k = 0 THEN I ELSE FillRound(f[k - 1], text, k)
  <2> DEFINE e == [k \in 0 .. rounds |-> IF k = 0 THEN I ELSE FillRound(f[k - 1], text, k)]
  <2>1. f = e
    BY <1>2 DEF Filling
  <2>2. \A k \in 0 .. rounds : e[k] = IF k = 0 THEN I ELSE FillRound(f[k - 1], text, k)
    OBVIOUS
  <2> HIDE DEF e, I
  <2> QED
    BY <2>1, <2>2
<1>4. f[0] = I
  BY <1>3
<1>5. RoundsSound(I)
  <2>1. FreeCluster(fat) \in Cluster /\ (FreeCluster(fat) # 0 => fat[FreeCluster(fat)] = 0)
    BY FreeClusterFacts
  <2> QED
    BY <2>1 DEF RoundsSound, Shapes
<1> HIDE DEF I
<1>6. S = {}
  <2> SUFFICES ASSUME S # {} PROVE FALSE
    OBVIOUS
  <2>1. S \subseteq Nat
    OBVIOUS
  <2>2. PICK k \in S : \A j \in S : k <= j
    BY <2>1, LeastNumber
  <2>3. k # 0
    BY <1>4, <1>5, <2>2
  <2>4. k \in 0 .. rounds /\ k - 1 \in 0 .. rounds /\ ~(k <= k - 1) /\ ~RoundsSound(f[k])
    BY <2>2, <2>3
  <2>5. RoundsSound(f[k - 1])
    BY <2>2, <2>4
  <2>6. f[k] = FillRound(f[k - 1], text, k)
    BY <1>3, <2>3, <2>4
  <2> QED
    BY <2>4, <2>5, <2>6, FillRoundOK
<1>7. RoundsSound(f[rounds])
  <2>1. rounds \in 0 .. rounds
    OBVIOUS
  <2> QED
    BY <1>6, <2>1
<1> QED
  BY <1>1, <1>4, <1>7 DEF I

\* The number of rounds.
LEMMA RoundsFacts ==
  ASSUME NEW size \in Nat
  PROVE  FullClusters(size) \in Nat /\ (size <= BytesPerSector => FullClusters(size) = 0)
<1> DEFINE b == BytesPerSector
<1>1. b \in Nat /\ b > 0
  BY DiskFacts
<1>2. FullClusters(size) = IF size = 0 THEN 0 ELSE (size - 1) \div b
  BY DEF FullClusters
<1> HIDE DEF b
<1>3. CASE size = 0
  BY <1>2, <1>3
<1>4. CASE size # 0
  <2> DEFINE m == size - 1
  <2>1. m \in Nat /\ FullClusters(size) = m \div b /\ (size <= b => m < b)
    BY <1>1, <1>2, <1>4
  <2> HIDE DEF m
  <2>2. m \div b \in Nat
    BY <1>1, <2>1
  <2>3. m < b => m \div b = 0
    BY <1>1, <2>1
  <2> QED
    BY <2>1, <2>2, <2>3 DEF b
<1> QED
  BY <1>3, <1>4

\* The first piece of a file of at most one sector is the whole file.
LEMMA WholePiece ==
  ASSUME NEW name, NEW size \in Nat, size <= BytesPerSector
  PROVE  Piece(Text(name, size), 1) = Text(name, size)
<1> DEFINE b == BytesPerSector
           t == Text(name, size)
<1>1. b \in Nat /\ b > 0 /\ size <= b
  BY DiskFacts
<1>2. t \in Seq({<<name, i>> : i \in 1 .. size}) /\ Len(t) = size
  BY DEF Text
<1>3. Piece(t, 1) = SubSeq(t, (1 - 1) * b + 1, IF 1 * b < Len(t) THEN 1 * b ELSE Len(t))
  BY DEF Piece
<1> HIDE DEF t, b
<1>4. (1 - 1) * b + 1 = 1 /\ 1 * b = b /\ ~(b < size)
  BY <1>1
<1>5. Piece(t, 1) = SubSeq(t, 1, Len(t))
  BY <1>2, <1>3, <1>4
<1> QED
  BY <1>2, <1>5, SubSeqFull DEF t

\* A file of at most one sector is at the start of the sector it was put into.
LEMMA OneSector ==
  ASSUME NEW name, NEW size \in Nat, size <= BytesPerSector, NEW old
  PROVE  SubSeq(Over(old, Text(name, size)), 1, size) = Text(name, size)
<1> DEFINE b == BytesPerSector
           t == Text(name, size)
           o == Over(old, t)
           V == {<<name, i>> : i \in 1 .. size}
<1>1. b \in Nat /\ b > 0 /\ size <= b
  BY DiskFacts
<1>2. t = [i \in 1 .. size |-> <<name, i>>]
  BY DEF Text
<1>3. t \in Seq(V) /\ Len(t) = size /\ DOMAIN t = 1 .. size
  BY <1>2
<1>4. \A i \in 1 .. size : o[i] = t[i]
  <2> SUFFICES ASSUME NEW i \in 1 .. size PROVE o[i] = t[i]
    OBVIOUS
  <2>1. i \in 1 .. b /\ i <= Len(t)
    BY <1>1, <1>3
  <2>2. o[i] = IF i <= Len(t) THEN t[i] ELSE old[i]
    BY <2>1 DEF Over
  <2> HIDE DEF o, t
  <2> QED
    BY <2>1, <2>2
<1> HIDE DEF o, t, b, V
<1>5. \A i \in 1 .. size : o[i] \in V
  BY <1>3, <1>4
<1>6. /\ SubSeq(o, 1, size) \in Seq(V)
      /\ Len(SubSeq(o, 1, size)) = IF 1 <= size THEN size - 1 + 1 ELSE 0
      /\ \A i \in 1 .. size - 1 + 1 : SubSeq(o, 1, size)[i] = o[1 + i - 1]
  <2>1. 1 \in Int /\ size \in Int
    OBVIOUS
  <2> QED
    BY <1>5, <2>1, SubSeqProperties
<1> DEFINE u == SubSeq(o, 1, size)
<1>7. u \in Seq(V) /\ Len(u) = size /\ \A i \in 1 .. size : u[i] = t[i]
  BY <1>4, <1>6
<1> HIDE DEF u
<1>8. u = t
  BY <1>3, <1>7, SeqEqual
<1> QED
  BY <1>8 DEF u, o, t

\* What a whole file_write does to the disk.
LEMMA WriteEffect ==
  ASSUME Shapes, NEW raw \in FileNames, NEW size \in Nat, WriteWhole(raw, size)
  PROVE  LET s == FreeCluster(fat)
             name == filename_to_native(raw)
         IN  /\ fat' = [c \in Cluster |-> fat'[c]] /\ data' = [c \in Cluster |-> data'[c]]
             /\ s \in Cluster \ {0} /\ fat[s] = 0 /\ fat'[s] # 0
             /\ \A c \in Cluster : fat[c] # 0 => fat'[c] # 0 /\ data'[c] = data[c]
             /\ root' = [root EXCEPT ![FreeRootEntry] =
                           [name |-> name, cluster |-> s, size |-> size]]
             /\ size <= BytesPerSector => SubSeq(data'[s], 1, size) = Text(name, size)
<1> DEFINE s == FreeCluster(fat)
           name == filename_to_native(raw)
           text == Text(name, size)
           k == FullClusters(size)
           w == Filled(text, k)
           p == Over(w.data[w.sector], Piece(text, k + 1))
           x == eswap_uint16(FIRST_MARK)
<1>1. /\ Accepted(raw) /\ w.sector # 0
      /\ data' = [w.data EXCEPT ![w.sector] = p]
      /\ fat' = [w.fat EXCEPT ![w.sector] = x]
      /\ root' = [root EXCEPT ![FreeRootEntry] = [name |-> name, cluster |-> s, size |-> size]]
  BY DEF WriteWhole
<1>2. s \in Cluster /\ s # 0 /\ fat[s] = 0
  BY <1>1, FreeClusterFacts DEF Accepted
<1>3. k \in Nat /\ (size <= BytesPerSector => k = 0)
  BY RoundsFacts
<1> HIDE DEF text, k
<1>4. /\ RoundsSound(w)
      /\ k = 0 => w = [fat |-> fat, data |-> data, sector |-> s]
  BY <1>3, FilledOK
<1>5. x # 0
  <2>1. FIRST_MARK \in Nat /\ FIRST_MARK # 0
    BY DEF FIRST_MARK
  <2> QED
    BY <2>1, SwapNotZero
<1> DEFINE a == w.fat
           d == w.data
           r == w.sector
<1>6. /\ a = [c \in Cluster |-> a[c]] /\ d = [c \in Cluster |-> d[c]]
      /\ r \in Cluster /\ r # 0 /\ fat[r] = 0
      /\ a[s] # 0 \/ r = s
      /\ \A c \in Cluster : fat[c] # 0 => a[c] = fat[c] /\ d[c] = data[c]
  BY <1>1, <1>4 DEF RoundsSound
<1>7. data' = [d EXCEPT ![r] = p] /\ fat' = [a EXCEPT ![r] = x]
  BY <1>1
<1>8. ASSUME size <= BytesPerSector
      PROVE  SubSeq(data'[s], 1, size) = Text(name, size)
  <2>1. k = 0 /\ r = s /\ k + 1 = 1
    BY <1>3, <1>4, <1>8
  <2>2. p = Over(d[s], Piece(text, 1))
    BY <2>1
  <2> HIDE DEF w, a, d, r, p, x, s
  <2>3. data'[s] = p
    BY <1>2, <1>6, <1>7, <2>1
  <2> HIDE DEF name
  <2>4. Piece(text, 1) = Text(name, size)
    BY <1>8, WholePiece DEF text
  <2>5. SubSeq(Over(d[s], Text(name, size)), 1, size) = Text(name, size)
    BY <1>8, OneSector
  <2> QED
    BY <2>2, <2>3, <2>4, <2>5
<1> HIDE DEF w, a, d, r, p, x, s
<1>9. fat' = [c \in Cluster |-> fat'[c]] /\ data' = [c \in Cluster |-> data'[c]]
  BY <1>6, <1>7
<1>10. /\ fat'[r] = x /\ \A c \in Cluster : c # r => fat'[c] = a[c] /\ data'[c] = d[c]
  BY <1>6, <1>7
<1>11. fat'[s] # 0
  BY <1>2, <1>5, <1>6, <1>10
<1>12. \A c \in Cluster : fat[c] # 0 => fat'[c] # 0 /\ data'[c] = data[c]
  BY <1>6, <1>10
<1> QED
  BY <1>1, <1>2, <1>8, <1>9, <1>11, <1>12 DEF s

\* The same for one that panics.
LEMMA PanicEffect ==
  ASSUME Shapes, NEW raw \in FileNames, NEW size \in Nat, handler_panics(raw, size)
  PROVE  /\ fat' = [c \in Cluster |-> fat'[c]] /\ data' = [c \in Cluster |-> data'[c]]
         /\ FreeCluster(fat) # 0
         /\ \A c \in Cluster : fat[c] # 0 => fat'[c] # 0 /\ data'[c] = data[c]
         /\ UNCHANGED root /\ UNCHANGED local /\ ~Running'
<1> DEFINE w == Filled(Text(filename_to_native(raw), size), FullClusters(size))
<1>1. /\ data' = w.data /\ fat' = w.fat /\ UNCHANGED root /\ UNCHANGED local
      /\ panicked' = "partial write" /\ FreeCluster(fat) # 0
  BY DEF handler_panics, Accepted
<1>2. FullClusters(size) \in Nat
  BY RoundsFacts
<1>3. RoundsSound(w)
  BY <1>2, FilledOK
<1> HIDE DEF w
<1> QED
  BY <1>1, <1>3 DEF RoundsSound, Running
-----------------------------------------------------------------------------
(* The writes of ramdisk_fat16_format. *)

\* The sectors that hold the entries 0 to n - 1.
LEMMA SectorsFacts ==
  ASSUME NEW n \in Nat, n > 0
  PROVE  /\ (n - 1) \div EntriesPerSector \in Nat
         /\ \A c \in 0 .. n - 1 :
              /\ c \div EntriesPerSector \in Nat
              /\ c \div EntriesPerSector <= (n - 1) \div EntriesPerSector
<1> DEFINE e == EntriesPerSector
<1>1. e \in Nat /\ e > 0
  BY EntriesPerSectorAssumption
<1> HIDE DEF e
<1>2. ASSUME NEW a \in Nat, NEW b \in Nat, a <= b
      PROVE  a \div e \in Nat /\ b \div e \in Nat /\ a \div e <= b \div e
  <2> DEFINE q == a \div e
             r == a % e
             u == b \div e
             v == b % e
  <2>1. q \in Nat /\ r \in 0 .. e - 1 /\ a = e * q + r
    BY <1>1
  <2>2. u \in Nat /\ v \in 0 .. e - 1 /\ b = e * u + v
    BY <1>1
  <2> HIDE DEF q, r, u, v
  <2>3. ASSUME ~(q <= u) PROVE FALSE
    <3>1. q >= u + 1
      BY <2>1, <2>2, <2>3
    <3>2. e * q >= e * (u + 1) /\ e * (u + 1) = e * u + e
      BY <1>1, <2>1, <2>2, <3>1
    <3>3. e * q \in Nat /\ e * u \in Nat
      BY <1>1, <2>1, <2>2
    <3> QED
      BY <1>1, <1>2, <2>1, <2>2, <3>2, <3>3
  <2>4. q <= u
    BY <2>3
  <2> QED
    BY <2>1, <2>2, <2>4 DEF q, u
<1>3. n - 1 \in Nat /\ \A c \in 0 .. n - 1 : c \in Nat /\ c <= n - 1
  OBVIOUS
<1> QED
  BY <1>2, <1>3 DEF e

\* Which write comes when.
LEMMA WritesFacts ==
  LET t == 2 * TableSectors
      r == RootSectors
      F == FormatWrites
  IN  /\ t \in Nat /\ r \in Nat /\ t > 0 /\ r > 0 /\ Len(F) = t + r + 2
      /\ \A k \in 1 .. t : /\ F[k].sector = (k - 1) \div 2
                           /\ F[k].to = IF k % 2 = 1 THEN "fat" ELSE "fat2"
      /\ \A k \in t + 1 .. t + r : F[k].to = "root" /\ F[k].sector = k - t - 1
      /\ F[t + r + 1].to = "marks" /\ F[t + r + 2].to = "marks2"
<1> DEFINE t == 2 * TableSectors
           r == RootSectors
           A == TableWrites
           B == [s \in 1 .. r |-> [to |-> "root", sector |-> s - 1]]
           C == <<[to |-> "marks", sector |-> 0], [to |-> "marks2", sector |-> 0]>>
           V == [to : {"fat", "fat2", "root", "marks", "marks2"}, sector : Int]
<1>1. TableSectors \in Nat /\ r \in Nat /\ TableSectors > 0 /\ r > 0
  <2>1. (ClusterCount - 1) \div EntriesPerSector \in Nat
    BY GeometryAssumption, SectorsFacts
  <2>2. (RootEntries - 1) \div EntriesPerSector \in Nat
    BY GeometryAssumption, SectorsFacts
  <2> QED
    BY <2>1, <2>2 DEF TableSectors, RootSectors
<1>2. t \in Nat /\ t > 0
  BY <1>1
<1>3. A = [k \in 1 .. t |->
             [to |-> IF k % 2 = 1 THEN "fat" ELSE "fat2", sector |-> (k - 1) \div 2]]
  BY DEF TableWrites
<1> HIDE DEF t, r, A
<1>4. A \in Seq(V) /\ Len(A) = t
  BY <1>2, <1>3
<1>5. B \in Seq(V) /\ Len(B) = r
  BY <1>1
<1>6. C \in Seq(V) /\ Len(C) = 2 /\ C[1].to = "marks" /\ C[2].to = "marks2"
  OBVIOUS
<1>7. \A k \in 1 .. r : B[k].to = "root" /\ B[k].sector = k - 1
  OBVIOUS
<1>8. \A k \in 1 .. t : /\ A[k].to = IF k % 2 = 1 THEN "fat" ELSE "fat2"
                        /\ A[k].sector = (k - 1) \div 2
  BY <1>3
<1>9. FormatWrites = (A \o B) \o C
  BY DEF FormatWrites, A, r
<1> HIDE DEF B, C, V
<1>10. /\ A \o B \in Seq(V) /\ Len(A \o B) = t + r
       /\ \A k \in 1 .. t + r : (A \o B)[k] = IF k <= t THEN A[k] ELSE B[k - t]
  BY <1>4, <1>5, ConcatProperties
<1> DEFINE D == A \o B
           m == t + r
           F == FormatWrites
<1>11. D \in Seq(V) /\ Len(D) = m /\ m \in Nat /\ F = D \o C
  BY <1>1, <1>2, <1>9, <1>10
<1>12. \A k \in 1 .. t : D[k] = A[k] /\ k \in 1 .. m
  BY <1>1, <1>2, <1>10
<1>13. \A k \in t + 1 .. t + r : D[k] = B[k - t] /\ k - t \in 1 .. r /\ k \in 1 .. m
  BY <1>1, <1>2, <1>10
<1> HIDE DEF D, m, F
<1>14. /\ Len(F) = m + 2
       /\ \A k \in 1 .. m : F[k] = D[k]
       /\ F[m + 1] = C[1] /\ F[m + 2] = C[2]
  <2>1. /\ Len(D \o C) = m + 2
        /\ \A k \in 1 .. m + 2 : (D \o C)[k] = IF k <= m THEN D[k] ELSE C[k - m]
    <3>1. D \in Seq(V) /\ C \in Seq(V) /\ Len(D) = m /\ Len(C) = 2
      BY <1>6, <1>11
    <3>2. /\ Len(D \o C) = Len(D) + Len(C)
          /\ \A k \in 1 .. Len(D) + Len(C) :
               (D \o C)[k] = IF k <= Len(D) THEN D[k] ELSE C[k - Len(D)]
      BY <3>1, ConcatProperties
    <3> QED
      BY <3>1, <3>2
  <2>2. /\ m + 1 \in 1 .. m + 2 /\ ~(m + 1 <= m) /\ (m + 1) - m = 1
        /\ m + 2 \in 1 .. m + 2 /\ ~(m + 2 <= m) /\ (m + 2) - m = 2
        /\ \A k \in 1 .. m : k \in 1 .. m + 2 /\ k <= m
    BY <1>11
  <2>3. (D \o C)[m + 1] = C[1] /\ (D \o C)[m + 2] = C[2]
    BY <2>1, <2>2
  <2>4. \A k \in 1 .. m : (D \o C)[k] = D[k]
    BY <2>1, <2>2
  <2> QED
    BY <1>11, <2>1, <2>3, <2>4
<1>15. \A k \in t + 1 .. t + r : F[k].to = "root" /\ F[k].sector = k - t - 1
  BY <1>1, <1>2, <1>7, <1>13, <1>14
<1>16. Len(F) = t + r + 2
  BY <1>14 DEF m
<1>17. F[t + r + 1].to = "marks" /\ F[t + r + 2].to = "marks2"
  BY <1>6, <1>14 DEF m
<1>18. \A k \in 1 .. t : /\ F[k].sector = (k - 1) \div 2
                         /\ F[k].to = IF k % 2 = 1 THEN "fat" ELSE "fat2"
  BY <1>8, <1>12, <1>14
<1> QED
  BY <1>1, <1>2, <1>15, <1>16, <1>17, <1>18 DEF t, r, F
-----------------------------------------------------------------------------
(* The steps before the disk is formatted. *)

\* A format takes several writes, so one that begins is not at its end.
LEMMA LongFormat ==
  /\ Len(FormatWrites) \in Nat /\ 1 \in 1 .. Len(FormatWrites)
  /\ 1 # Len(FormatWrites)
<1> DEFINE t == 2 * TableSectors
           l == Len(FormatWrites)
<1>1. t \in Nat /\ RootSectors \in Nat /\ l = t + RootSectors + 2
  BY WritesFacts
<1> HIDE DEF t, l
<1>2. l \in Nat /\ 1 \in 1 .. l /\ 1 # l
  BY <1>1
<1> QED
  BY <1>2 DEF l

\* Of a disk that is not formatted nothing is said but how far the format is.
LEMMA Unformatted ==
  ASSUME ~Formatted', FormatInv', pc' # "calls" => Shapes'
  PROVE  Fat16Inv'
<1>1. pc' \in {"calls", "format"}
  BY DEF Formatted
<1>2. log' = {}
  BY DEF FormatInv
<1>3. LogInv' /\ FormatLeavesEmptyDisk'
  BY <1>2 DEF LogInv, FormatLeavesEmptyDisk
<1>4. BootInv'
  BY <1>1 DEF BootInv, Chosen, Late
<1> QED
  BY <1>3, <1>4 DEF Fat16Inv

\* Before anything happens.
LEMMA InitFat16Inv == IrqInit => Fat16Inv
<1> SUFFICES ASSUME IrqInit PROVE Fat16Inv
  OBVIOUS
<1>1. pc = "calls" /\ next = 1 /\ log = {}
  BY DEF IrqInit
<1>2. ~Formatted
  BY <1>1, LongFormat DEF Formatted
<1> QED
  BY <1>1, <1>2 DEF Fat16Inv, FormatInv, LogInv, BootInv, FormatLeavesEmptyDisk, Chosen, Late

\* Whole calls, before the boot code mounts the disk.
LEMMA CallsStep ==
  ASSUME Fat16Inv, pc = "calls", UNCHANGED local
  PROVE  Fat16Inv'
<1>1. pc' = "calls" /\ next' = 1 /\ UNCHANGED log /\ next = 1
  BY DEF local, Fat16Inv, FormatInv
<1>2. ~Formatted /\ ~Formatted'
  BY <1>1, LongFormat DEF Formatted
<1>3. log' = {}
  BY <1>1, <1>2 DEF Fat16Inv, FormatInv
<1>4. FormatInv'
  BY <1>1, <1>3 DEF FormatInv
<1> QED
  BY <1>1, <1>2, <1>4, Unformatted

\* Before the first write of the format no sector has been zeroed.
LEMMA NothingZeroed ==
  /\ \A c \in Cluster : ~(2 * (c \div EntriesPerSector) + 1 < 1)
  /\ \A n \in EntryNumber : ~(2 * TableSectors + 1 + (n \div EntriesPerSector) < 1)
<1>1. \A c \in Cluster : ~(2 * (c \div EntriesPerSector) + 1 < 1)
  BY SectorsFacts, GeometryAssumption DEF Cluster
<1>2. \A n \in EntryNumber : n \div EntriesPerSector \in Nat
  <2>1. EntryNumber \subseteq Nat
    BY GeometryAssumption DEF EntryNumber
  <2>2. EntriesPerSector \in Nat \ {0}
    BY EntriesPerSectorAssumption
  <2>3. \A n \in Nat : n \div EntriesPerSector \in Nat
    BY <2>2
  <2> QED
    BY <2>1, <2>3
<1>3. 2 * TableSectors \in Nat
  BY WritesFacts
<1>4. \A n \in EntryNumber : ~(2 * TableSectors + 1 + (n \div EntriesPerSector) < 1)
  BY <1>2, <1>3
<1> QED
  BY <1>1, <1>4

\* The boot code mounts it.
LEMMA MountStep ==
  ASSUME Fat16Inv, ramdisk_fat16_mount
  PROVE  Fat16Inv'
<1>1. /\ pc = "calls" /\ pc' = "format" /\ UNCHANGED <<next, log>>
      /\ \E old \in OldTaken : fat' = [c \in Cluster |-> IF c \in old THEN 1 ELSE 0]
      /\ data' = [c \in Cluster |-> BlankSector]
      /\ \E e \in {FreeEntry, OldEntry} : root' = [n \in EntryNumber |-> e]
  BY DEF ramdisk_fat16_mount
<1>2. next = 1 /\ ~Formatted /\ log = {}
  <2>1. next = 1
    BY <1>1 DEF Fat16Inv, FormatInv
  <2>2. ~Formatted
    BY <1>1, <2>1, LongFormat DEF Formatted
  <2> QED
    BY <2>1, <2>2 DEF Fat16Inv, FormatInv
<1>3. ~Formatted'
  BY <1>1, <1>2, LongFormat DEF Formatted
<1>4. Shapes'
  BY <1>1 DEF Shapes
<1>5. FormatInv'
  <2>1. next' = 1 /\ log' = {} /\ 1 \in 1 .. Len(FormatWrites)
    BY <1>1, <1>2, LongFormat
  <2> QED
    BY <1>1, <2>1, NothingZeroed DEF FormatInv
<1> QED
  BY <1>3, <1>4, <1>5, Unformatted

\* Sectors of the tables and of the directory are zeroed.
LEMMA ZeroStep ==
  ASSUME Fat16Inv, ramdisk_fat16_format, next <= 2 * TableSectors + RootSectors
  PROVE  Fat16Inv'
<1> DEFINE t == 2 * TableSectors
           r == RootSectors
           e == EntriesPerSector
           w == FormatWrites[next]
<1>1. /\ t \in Nat /\ r \in Nat /\ Len(FormatWrites) = t + r + 2
      /\ next \in 1 .. t + r
      /\ t > 0 /\ r > 0
  <2>1. pc = "format"
    BY DEF ramdisk_fat16_format
  <2>2. next \in 1 .. Len(FormatWrites)
    BY <2>1 DEF Fat16Inv, FormatInv
  <2>3. t \in Nat /\ r \in Nat /\ Len(FormatWrites) = t + r + 2 /\ t > 0 /\ r > 0
    BY WritesFacts
  <2> QED
    BY <2>2, <2>3
<1>2. /\ pc = "format" /\ pc' = "format" /\ next' = next + 1 /\ UNCHANGED <<log, data>>
  BY <1>1 DEF ramdisk_fat16_format
<1>3. ~Formatted /\ ~Formatted'
  BY <1>1, <1>2 DEF Formatted
<1>4. /\ log = {} /\ Shapes
      /\ \A c \in Cluster : 2 * (c \div e) + 1 < next => fat[c] = 0
      /\ \A n \in EntryNumber : t + 1 + (n \div e) < next => root[n] = FreeEntry
  BY <1>2, <1>3 DEF Fat16Inv, FormatInv
<1>5. /\ \A c \in Cluster : c \div e \in Nat /\ c \div e <= TableSectors - 1
      /\ \A n \in EntryNumber : n \div e \in Nat
      /\ TableSectors \in Int
  <2>1. ClusterCount \in Nat /\ ClusterCount > 0 /\ RootEntries \in Nat /\ RootEntries > 0
    BY GeometryAssumption
  <2>2. \A c \in Cluster : c \div e \in Nat /\ c \div e <= (ClusterCount - 1) \div e
    BY <2>1, SectorsFacts DEF Cluster
  <2>3. \A n \in EntryNumber : n \div e \in Nat
    BY <2>1, SectorsFacts DEF EntryNumber
  <2>4. TableSectors = (ClusterCount - 1) \div e + 1 /\ (ClusterCount - 1) \div e \in Nat
    BY <2>1, SectorsFacts DEF TableSectors
  <2> DEFINE q == (ClusterCount - 1) \div e
  <2> HIDE DEF q, e
  <2>5. q \in Nat /\ TableSectors = q + 1 /\ \A c \in Cluster : c \div e \in Nat /\ c \div e <= q
    BY <2>2, <2>4 DEF q
  <2> QED
    BY <2>3, <2>5
<1>6. CASE next <= t
  <2>1. w.sector = (next - 1) \div 2 /\ w.to = IF next % 2 = 1 THEN "fat" ELSE "fat2"
    BY <1>1, <1>6, WritesFacts
  <2>2. /\ fat' = IF next % 2 = 1 THEN Zeroed(fat, w.sector) ELSE fat
        /\ root' = [n \in EntryNumber |-> root[n]]
    BY <2>1 DEF ramdisk_fat16_format
  <2> HIDE DEF w, t, r, e
  <2>3. Shapes'
    BY <1>2, <1>4, <2>2 DEF Shapes, Zeroed
  <2>4. ASSUME NEW c \in Cluster, 2 * (c \div e) + 1 < next + 1
        PROVE  fat'[c] = 0
    <3> DEFINE q == c \div e
    <3>1. q \in Nat /\ 2 * q + 1 < next + 1 /\ next \in Nat
      BY <1>1, <1>5, <2>4
    <3>2. Zeroed(fat, w.sector)[c] = IF q = w.sector THEN 0 ELSE fat[c]
      BY DEF Zeroed, e
    <3> HIDE DEF q
    <3>3. CASE 2 * q + 1 < next
      <4>1. fat[c] = 0
        BY <1>4, <3>3 DEF q
      <4> QED
        BY <2>2, <3>2, <4>1
    <3>4. CASE 2 * q + 1 = next
      <4>1. next % 2 = 1 /\ (next - 1) \div 2 = q
        BY <3>1, <3>4
      <4> QED
        BY <2>1, <2>2, <3>2, <4>1
    <3> QED
      BY <3>1, <3>3, <3>4
  <2>5. \A n \in EntryNumber : ~(t + 1 + (n \div e) < next + 1)
    BY <1>1, <1>5, <1>6
  <2>6. FormatInv'
    <3>1. next + 1 \in 1 .. Len(FormatWrites)
      BY <1>1
    <3> QED
      BY <1>2, <1>4, <2>4, <2>5, <3>1 DEF FormatInv, t, e
  <2> QED
    BY <1>3, <2>3, <2>6, Unformatted
<1>7. CASE ~(next <= t)
  <2>1. next \in t + 1 .. t + r
    BY <1>1, <1>7
  <2>2. w.to = "root" /\ w.sector = next - t - 1
    BY <2>1, WritesFacts
  <2>3. /\ fat' = fat
        /\ root' = [n \in EntryNumber |->
                      IF n \div EntriesPerSector = w.sector THEN FreeEntry ELSE root[n]]
    BY <2>2 DEF ramdisk_fat16_format
  <2>4. t = 2 * TableSectors
    OBVIOUS
  <2> HIDE DEF w, t, r
  <2>5. Shapes'
    BY <1>2, <1>4, <2>3 DEF Shapes
  <2>6. \A c \in Cluster : fat[c] = 0
    <3> SUFFICES ASSUME NEW c \in Cluster PROVE fat[c] = 0
      OBVIOUS
    <3> DEFINE q == c \div e
    <3>1. q \in Nat /\ q <= TableSectors - 1 /\ TableSectors \in Int /\ t \in Nat
      BY <1>1, <1>5
    <3>2. 2 * q + 1 < next => fat[c] = 0
      BY <1>4
    <3> HIDE DEF q, e
    <3>3. 2 * q + 1 < next
      BY <2>1, <2>4, <3>1
    <3> QED
      BY <3>2, <3>3
  <2>7. ASSUME NEW n \in EntryNumber, t + 1 + (n \div e) < next + 1
        PROVE  root'[n] = FreeEntry
    <3> DEFINE q == n \div e
    <3>1. q \in Nat /\ t + 1 + q < next + 1
      BY <1>5, <2>7
    <3>2. root'[n] = IF q = w.sector THEN FreeEntry ELSE root[n]
      BY <2>3
    <3>3. t + 1 + q < next => root[n] = FreeEntry
      BY <1>4
    <3> HIDE DEF q, e
    <3>4. q = next - t - 1 \/ t + 1 + q < next
      BY <1>1, <2>1, <3>1
    <3> QED
      BY <2>2, <3>2, <3>3, <3>4
  <2>8. FormatInv'
    <3>1. next + 1 \in 1 .. Len(FormatWrites)
      BY <1>1
    <3> QED
      BY <1>2, <1>4, <2>3, <2>6, <2>7, <3>1 DEF FormatInv, t, e
  <2> QED
    BY <1>3, <2>5, <2>8, Unformatted
<1> QED
  BY <1>6, <1>7

\* An entry of zeroes is free.
LEMMA FreeIsFree == ~InUse(FreeEntry)
<1>1. 1 \in 1 .. NameLen + ExtLen
  BY NamesAssumption
<1> QED
  BY <1>1 DEF InUse, FreeEntry

\* The marks: from here on the disk is formatted, and empty.
LEMMA MarksStep ==
  ASSUME Fat16Inv, ramdisk_fat16_format, next = 2 * TableSectors + RootSectors + 1
  PROVE  Fat16Inv'
<1> DEFINE t == 2 * TableSectors
           r == RootSectors
           e == EntriesPerSector
           w == FormatWrites[next]
<1>1. t \in Nat /\ r \in Nat /\ Len(FormatWrites) = t + r + 2 /\ w.to = "marks"
  BY WritesFacts
<1>2. /\ pc = "format" /\ pc' = "format" /\ next' = next + 1
      /\ UNCHANGED <<log, data>>
  BY <1>1 DEF ramdisk_fat16_format
<1>3. PICK taken \in SUBSET StrayClusters : fat' = Marked(fat, taken) /\ stray' = taken
  BY <1>1 DEF ramdisk_fat16_format
<1>4. root' = [n \in EntryNumber |-> root[n]]
  BY <1>1 DEF ramdisk_fat16_format
<1>5. ~Formatted /\ Formatted'
  BY <1>1, <1>2 DEF Formatted
<1>6. /\ log = {} /\ Shapes
      /\ \A c \in Cluster : 2 * (c \div e) + 1 < next => fat[c] = 0
      /\ \A n \in EntryNumber : t + 1 + (n \div e) < next => root[n] = FreeEntry
  BY <1>2, <1>5 DEF Fat16Inv, FormatInv
<1>7. /\ \A c \in Cluster : c \div e \in Nat /\ c \div e <= TableSectors - 1
      /\ \A n \in EntryNumber : n \div e \in Nat /\ n \div e <= r - 1
      /\ TableSectors \in Int
  <2>1. ClusterCount \in Nat /\ ClusterCount > 0 /\ RootEntries \in Nat /\ RootEntries > 0
    BY GeometryAssumption
  <2> DEFINE q == (ClusterCount - 1) \div e
             p == (RootEntries - 1) \div e
  <2>2. q \in Nat /\ \A c \in Cluster : c \div e \in Nat /\ c \div e <= q
    BY <2>1, SectorsFacts DEF Cluster
  <2>3. p \in Nat /\ \A n \in EntryNumber : n \div e \in Nat /\ n \div e <= p
    BY <2>1, SectorsFacts DEF EntryNumber
  <2>4. TableSectors = q + 1 /\ r = p + 1
    BY DEF TableSectors, RootSectors
  <2> HIDE DEF q, p, e, r
  <2> QED
    BY <2>2, <2>3, <2>4
<1>8. \A c \in Cluster : fat[c] = 0
  <2> SUFFICES ASSUME NEW c \in Cluster PROVE fat[c] = 0
    OBVIOUS
  <2> DEFINE q == c \div e
  <2>1. /\ q \in Nat /\ q <= TableSectors - 1 /\ TableSectors \in Int /\ r \in Nat
        /\ next = 2 * TableSectors + r + 1
    BY <1>1, <1>7
  <2>2. 2 * q + 1 < next => fat[c] = 0
    BY <1>6
  <2> HIDE DEF q, e, r, t
  <2> QED
    BY <2>1, <2>2
<1>9. \A n \in EntryNumber : root'[n] = FreeEntry
  <2> SUFFICES ASSUME NEW n \in EntryNumber PROVE root'[n] = FreeEntry
    OBVIOUS
  <2> DEFINE q == n \div e
  <2>1. q \in Nat /\ q <= r - 1 /\ r \in Nat /\ t \in Nat /\ next = t + r + 1
    BY <1>1, <1>7
  <2>2. t + 1 + q < next => root[n] = FreeEntry
    BY <1>6
  <2>3. root'[n] = root[n]
    BY <1>4
  <2> HIDE DEF q, e, r, t
  <2> QED
    BY <2>1, <2>2, <2>3
<1>10. Visible' = {}
  BY <1>9, FreeIsFree DEF Visible
<1>11. \A c \in Cluster : fat'[c] # 0 => c \in {0, 1} \cup taken
  <2> SUFFICES ASSUME NEW c \in Cluster, c \notin {0, 1} \cup taken PROVE fat'[c] = 0
    OBVIOUS
  <2>1. Marked(fat, taken)[c] = Zeroed(fat, 0)[c]
    BY DEF Marked
  <2>2. Zeroed(fat, 0)[c] = IF c \div e = 0 THEN 0 ELSE fat[c]
    BY DEF Zeroed
  <2> QED
    BY <1>3, <1>8, <2>1, <2>2
<1>12. Shapes'
  BY <1>2, <1>3, <1>4, <1>6 DEF Shapes, Marked
<1>13. FormatInv'
  <2>1. next + 1 \in 1 .. Len(FormatWrites)
    BY <1>1
  <2> QED
    BY <1>2, <1>5, <2>1 DEF FormatInv
<1>14. log' = {}
  BY <1>2, <1>6
<1>15. LogInv' /\ EntriesTaken'
  BY <1>10, <1>14 DEF LogInv, EntriesTaken
<1>16. BootInv'
  BY <1>2 DEF BootInv, Chosen, Late
<1>17. FormatLeavesEmptyDisk'
  BY <1>3, <1>10, <1>11 DEF FormatLeavesEmptyDisk
<1> QED
  BY <1>12, <1>13, <1>15, <1>16, <1>17 DEF Fat16Inv
-----------------------------------------------------------------------------
(* The steps on a formatted disk. *)

\* The parts of the invariant that matter there.
FormattedInv ==
  Shapes /\ EntriesTaken /\ LogInv /\ BootInv /\ FormatLeavesEmptyDisk

\* Steps that leave the disk alone, and the file the boot code writes.
LEMMA DiskKept ==
  ASSUME FormattedInv, Formatted, UNCHANGED <<fat, data, root, log, stray, panicked>>,
         \A w \in log : ~w.overlaps /\ w.entry # 0 /\ Safe(w) =>
           /\ pc' \in Chosen => sector' # w.cluster
           /\ pc' = "enter" => entry' # w.entry,
         BootInv',
         pc \in Late => pc' \in Late /\ sector' = sector,
         pc = "done" => pc' = "done"
  PROVE  FormattedInv'
<1>1. Shapes' /\ EntriesTaken'
  BY DEF FormattedInv, Shapes, EntriesTaken, Visible
<1>2. LogInv'
  BY DEF FormattedInv, LogInv, Safe, Stored, Visible
<1>3. FormatLeavesEmptyDisk'
  <2> SUFFICES ASSUME Running
               PROVE  /\ \A n \in Visible : \/ \E w \in log : w.name = root[n].name
                                            \/ pc' = "done" /\ root[n].name = Start
                      /\ \A c \in Cluster : fat[c] # 0 =>
                           \/ c \in {0, 1} \cup stray
                           \/ \E w \in log : c \in w.taken
                           \/ pc' \in Late /\ c = sector'
    BY DEF FormatLeavesEmptyDisk, Running, Visible, Late
  <2> QED
    BY DEF FormattedInv, FormatLeavesEmptyDisk, Late
<1> QED
  BY <1>1, <1>2, <1>3 DEF FormattedInv

\* The marks of the second table, which is never read.
LEMMA SecondMarksStep ==
  ASSUME FormattedInv, ramdisk_fat16_format, next = Len(FormatWrites)
  PROVE  FormattedInv' /\ pc' = "exists"
<1> DEFINE w == FormatWrites[next]
<1>1. w.to = "marks2"
  BY WritesFacts
<1>2. /\ pc = "format" /\ pc' = "exists"
      /\ fat' = fat /\ root' = [n \in EntryNumber |-> root[n]] /\ stray' = stray
      /\ UNCHANGED <<log, data, sector, entry, panicked>>
  BY <1>1 DEF ramdisk_fat16_format
<1>3. root' = root
  BY <1>2 DEF FormattedInv, Shapes
<1>4. BootInv'
  BY <1>2 DEF BootInv, Chosen, Late
<1>5. Formatted
  BY DEF Formatted
<1> QED
  BY <1>2, <1>3, <1>4, <1>5, DiskKept DEF Chosen, Late

\* file_exists, and the search for a cluster: it is one that looks free, so no
\* file in the directory has it.
LEMMA SearchStep ==
  ASSUME FormattedInv, check_exists \/ find_cluster
  PROVE  FormattedInv' /\ pc' \notin {"calls", "format"}
<1>1. /\ UNCHANGED <<fat, data, root, log, stray, panicked>>
      /\ pc \in {"exists", "cluster"} /\ pc' \in {"cluster", "panic", "data"}
      /\ pc' = "data" => sector' = FreeCluster(fat) /\ FreeCluster(fat) # 0
  BY DEF check_exists, find_cluster, Goto, vars, store
<1>2. pc' = "data" => sector' \in Cluster \ {0} /\ fat[sector'] = 0
  BY <1>1, FreeClusterFacts
<1>3. Formatted
  BY <1>1 DEF Formatted
<1>4. ASSUME NEW w \in log, ~w.overlaps /\ w.entry # 0 /\ Safe(w)
      PROVE  /\ pc' \in Chosen => sector' # w.cluster
             /\ pc' = "enter" => entry' # w.entry
  BY <1>1, <1>2, <1>4 DEF Safe, Chosen
<1>5. BootInv'
  <2>1. pc' = "data" => \A n \in Visible : root[n].cluster # sector'
    BY <1>2 DEF FormattedInv, EntriesTaken
  <2>2. Visible' = Visible
    BY <1>1 DEF Visible
  <2> QED
    BY <1>1, <1>2, <2>1, <2>2 DEF BootInv, Chosen, Late
<1> QED
  BY <1>1, <1>3, <1>4, <1>5, DiskKept DEF Late

\* The search for a root entry.
LEMMA FindEntryStep ==
  ASSUME FormattedInv, find_root_entry
  PROVE  FormattedInv' /\ pc' = "enter"
<1>1. /\ UNCHANGED <<fat, data, root, log, stray, panicked, sector>>
      /\ pc = "root_entry" /\ pc' = "enter" /\ entry' = FreeRootEntry
  BY DEF find_root_entry, Goto, vars, store
<1>2. entry' \in EntryNumber /\ (entry' # 0 => ~InUse(root[entry']))
  BY <1>1, FreeRootEntryFacts
<1>3. Formatted
  BY <1>1 DEF Formatted
<1>4. ASSUME NEW w \in log, ~w.overlaps /\ w.entry # 0 /\ Safe(w)
      PROVE  /\ pc' \in Chosen => sector' # w.cluster
             /\ pc' = "enter" => entry' # w.entry
  <2>1. sector # w.cluster
    BY <1>1, <1>4 DEF Safe, Chosen
  <2>2. InUse(root[w.entry])
    BY <1>4 DEF Safe, Stored, InUse
  <2> QED
    BY <1>1, <1>2, <1>4, <2>1, <2>2
<1>5. BootInv'
  <2>1. /\ sector \in Cluster \ {0} /\ fat[sector] # 0
        /\ Running /\ NoOverlap =>
             /\ \A n \in Visible : root[n].cluster # sector
             /\ SubSeq(data[sector], 1, 1) = Text(Start, 1)
    BY <1>1 DEF FormattedInv, BootInv, Chosen, Late
  <2>2. Visible' = Visible /\ (Running' => Running) /\ (NoOverlap' => NoOverlap)
    BY <1>1 DEF Visible, Running, NoOverlap
  <2> QED
    BY <1>1, <1>2, <2>1, <2>2 DEF BootInv, Chosen, Late
<1> QED
  BY <1>1, <1>3, <1>4, <1>5, DiskKept DEF Late

\* The data are written to the cluster found, which no file outside of the call
\* has.
LEMMA DataStep ==
  ASSUME FormattedInv, write_data
  PROVE  FormattedInv' /\ pc' = "end_mark"
<1>1. /\ data' = [data EXCEPT ![sector] = Over(data[sector], Text(Start, 1))]
      /\ UNCHANGED <<fat, root, log, stray, panicked, sector, entry>>
      /\ pc = "data" /\ pc' = "end_mark"
  BY DEF write_data, Goto, StartText
<1>2. Shapes /\ sector \in Cluster \ {0}
  BY <1>1 DEF FormattedInv, BootInv, Chosen
<1>3. /\ data' = [c \in Cluster |-> data'[c]]
      /\ data'[sector] = Over(data[sector], Text(Start, 1))
      /\ \A c \in Cluster : c # sector => data'[c] = data[c]
  BY <1>1, <1>2 DEF Shapes
<1>4. Shapes' /\ EntriesTaken'
  BY <1>1, <1>2, <1>3 DEF Shapes, FormattedInv, EntriesTaken, Visible
<1>5. Visible' = Visible
  BY <1>1 DEF Visible
<1>6. LogInv'
  <2> SUFFICES ASSUME NEW w \in log
               PROVE  /\ w.cluster \in Cluster /\ w.entry \in EntryNumber
                      /\ ~w.overlaps /\ w.entry # 0 => Safe(w)'
    BY <1>1 DEF LogInv
  <2>1. /\ w.cluster \in Cluster /\ w.entry \in EntryNumber
        /\ ~w.overlaps /\ w.entry # 0 => Safe(w)
    BY DEF FormattedInv, LogInv
  <2>2. ASSUME Safe(w) PROVE Safe(w)'
    <3>1. sector # w.cluster
      BY <1>1, <2>2 DEF Safe, Chosen
    <3>2. data'[w.cluster] = data[w.cluster]
      BY <1>3, <2>1, <3>1
    <3>3. Stored(w)'
      BY <1>1, <1>5, <2>2, <3>2 DEF Safe, Stored
    <3> QED
      BY <1>1, <2>2, <3>1, <3>3 DEF Safe
  <2> QED
    BY <2>1, <2>2
<1>7. BootInv'
  <2>1. 1 <= BytesPerSector
    BY DiskFacts
  <2>2. SubSeq(data'[sector], 1, 1) = Text(Start, 1)
    BY <1>3, <2>1, OneSector
  <2>3. Running /\ NoOverlap =>
             /\ fat[sector] = 0
             /\ \A n \in Visible : root[n].cluster # sector
    BY <1>1 DEF FormattedInv, BootInv, Chosen
  <2>4. (Running' => Running) /\ (NoOverlap' => NoOverlap)
    BY <1>1 DEF Running, NoOverlap
  <2> QED
    BY <1>1, <1>2, <1>5, <2>2, <2>3, <2>4 DEF BootInv, Chosen, Late
<1>8. FormatLeavesEmptyDisk'
  <2>1. Formatted /\ Formatted'
    BY <1>1 DEF Formatted
  <2> QED
    BY <1>1, <1>5, <2>1 DEF FormattedInv, FormatLeavesEmptyDisk, Running
<1> QED
  BY <1>1, <1>4, <1>6, <1>7, <1>8 DEF FormattedInv

\* The cluster is marked.
LEMMA EndMarkStep ==
  ASSUME FormattedInv, write_end_mark
  PROVE  FormattedInv' /\ pc' = "root_entry"
<1> DEFINE x == eswap_uint16(FIRST_MARK)
<1>1. /\ fat' = [fat EXCEPT ![sector] = x]
      /\ UNCHANGED <<data, root, log, stray, panicked, sector, entry>>
      /\ pc = "end_mark" /\ pc' = "root_entry"
  BY DEF write_end_mark, Goto
<1>2. Shapes /\ sector \in Cluster \ {0}
  BY <1>1 DEF FormattedInv, BootInv, Chosen
<1>3. x # 0
  <2>1. FIRST_MARK \in Nat /\ FIRST_MARK # 0
    BY DEF FIRST_MARK
  <2> QED
    BY <2>1, SwapNotZero
<1> HIDE DEF x
<1>4. /\ fat' = [c \in Cluster |-> fat'[c]]
      /\ fat'[sector] # 0
      /\ \A c \in Cluster : c # sector => fat'[c] = fat[c]
  BY <1>1, <1>2, <1>3 DEF Shapes
<1>5. \A c \in Cluster : fat[c] # 0 => fat'[c] # 0
  BY <1>4
<1>6. Visible' = Visible
  BY <1>1 DEF Visible
<1>7. Shapes' /\ EntriesTaken'
  BY <1>1, <1>2, <1>4, <1>5, <1>6 DEF Shapes, FormattedInv, EntriesTaken
<1>8. LogInv'
  <2> SUFFICES ASSUME NEW w \in log
               PROVE  /\ w.cluster \in Cluster /\ w.entry \in EntryNumber
                      /\ ~w.overlaps /\ w.entry # 0 => Safe(w)'
    BY <1>1 DEF LogInv
  <2>1. /\ w.cluster \in Cluster /\ w.entry \in EntryNumber
        /\ ~w.overlaps /\ w.entry # 0 => Safe(w)
    BY DEF FormattedInv, LogInv
  <2>2. ASSUME Safe(w) PROVE Safe(w)'
    <3>1. Stored(w)'
      BY <1>1, <1>6, <2>2 DEF Safe, Stored
    <3>2. fat'[w.cluster] # 0 /\ sector # w.cluster /\ w.name[1] # 0
      BY <1>1, <1>5, <2>1, <2>2 DEF Safe, Chosen
    <3> QED
      BY <1>1, <3>1, <3>2 DEF Safe
  <2> QED
    BY <2>1, <2>2
<1>9. BootInv'
  <2>1. Running /\ NoOverlap =>
             /\ SubSeq(data[sector], 1, 1) = Text(Start, 1)
             /\ \A n \in Visible : root[n].cluster # sector
    BY <1>1 DEF FormattedInv, BootInv, Chosen
  <2>2. (Running' => Running) /\ (NoOverlap' => NoOverlap)
    BY <1>1 DEF Running, NoOverlap
  <2> QED
    BY <1>1, <1>2, <1>4, <1>6, <2>1, <2>2 DEF BootInv, Chosen, Late
<1>10. FormatLeavesEmptyDisk'
  <2> SUFFICES ASSUME Running
               PROVE  /\ \A n \in Visible : \/ \E w \in log : w.name = root[n].name
                                            \/ pc' = "done" /\ root[n].name = Start
                      /\ \A c \in Cluster : fat'[c] # 0 =>
                           \/ c \in {0, 1} \cup stray
                           \/ \E w \in log : c \in w.taken
                           \/ pc' \in Late /\ c = sector
    BY <1>1, <1>6 DEF FormatLeavesEmptyDisk, Running, Late
  <2>1. Formatted
    BY <1>1 DEF Formatted
  <2> QED
    BY <1>1, <1>4, <2>1 DEF FormattedInv, FormatLeavesEmptyDisk, Late
<1> QED
  BY <1>1, <1>7, <1>8, <1>9, <1>10 DEF FormattedInv

\* A new entry in the directory: what is visible then, and what a file that
\* was there keeps.
LEMMA NewEntry ==
  ASSUME Shapes, NEW e \in EntryNumber, NEW v, root' = [root EXCEPT ![e] = v]
  PROVE  /\ root' = [n \in EntryNumber |-> root'[n]]
         /\ root'[e] = v
         /\ \A n \in EntryNumber : n # e => root'[n] = root[n]
         /\ \A n \in Visible' : n \in EntryNumber \ {0} /\ (n = e \/ n \in Visible)
<1>1. root = [n \in EntryNumber |-> root[n]]
  BY DEF Shapes
<1>2. /\ root' = [n \in EntryNumber |-> root'[n]] /\ root'[e] = v
      /\ \A n \in EntryNumber : n # e => root'[n] = root[n]
  BY <1>1
<1> QED
  BY <1>2 DEF Visible

\* The starting file is entered.
LEMMA EntryStep ==
  ASSUME FormattedInv, write_entry
  PROVE  FormattedInv' /\ pc' = "done"
<1> DEFINE v == [name |-> Start, cluster |-> sector, size |-> 1]
<1>1. /\ root' = [root EXCEPT ![entry] = v]
      /\ UNCHANGED <<data, fat, log, stray, panicked, sector, entry>>
      /\ pc = "enter" /\ pc' = "done"
  BY DEF write_entry, Goto
<1>2. /\ Shapes /\ sector \in Cluster \ {0} /\ fat[sector] # 0 /\ entry \in EntryNumber
      /\ Running /\ NoOverlap =>
             /\ \A n \in Visible : root[n].cluster # sector
             /\ SubSeq(data[sector], 1, 1) = Text(Start, 1)
  BY <1>1 DEF FormattedInv, BootInv, Chosen, Late
<1>3. v.name = Start /\ v.cluster = sector /\ v.size = 1
  OBVIOUS
<1> HIDE DEF v
<1>4. /\ root' = [n \in EntryNumber |-> root'[n]] /\ root'[entry] = v
      /\ \A n \in EntryNumber : n # entry => root'[n] = root[n]
      /\ \A n \in Visible' : n \in EntryNumber \ {0} /\ (n = entry \/ n \in Visible)
  BY <1>1, <1>2, NewEntry
<1>5. Shapes'
  BY <1>1, <1>2, <1>4 DEF Shapes
<1>6. EntriesTaken'
  <2> SUFFICES ASSUME NEW n \in Visible'
               PROVE  root'[n].cluster \in Cluster /\ fat[root'[n].cluster] # 0
    BY <1>1 DEF EntriesTaken
  <2>1. CASE n = entry
    BY <1>2, <1>3, <1>4, <2>1
  <2>2. CASE n # entry
    BY <1>4, <2>2 DEF FormattedInv, EntriesTaken
  <2> QED
    BY <2>1, <2>2
<1>7. LogInv'
  <2> SUFFICES ASSUME NEW w \in log
               PROVE  /\ w.cluster \in Cluster /\ w.entry \in EntryNumber
                      /\ ~w.overlaps /\ w.entry # 0 => Safe(w)'
    BY <1>1 DEF LogInv
  <2>1. /\ w.cluster \in Cluster /\ w.entry \in EntryNumber
        /\ ~w.overlaps /\ w.entry # 0 => Safe(w)
    BY DEF FormattedInv, LogInv
  <2>2. ASSUME Safe(w) PROVE Safe(w)'
    <3>1. entry # w.entry /\ sector # w.cluster /\ Stored(w) /\ w.name[1] # 0
          /\ fat[w.cluster] # 0
      BY <1>1, <2>2 DEF Safe, Chosen
    <3>2. root'[w.entry] = root[w.entry]
      BY <1>4, <2>1, <3>1
    <3>3. ASSUME NEW n \in Visible' \ {w.entry} PROVE root'[n].cluster # w.cluster
      <4>1. CASE n = entry
        BY <1>3, <1>4, <3>1, <4>1
      <4>2. CASE n # entry
        BY <1>4, <3>1, <4>2 DEF Stored
      <4> QED
        BY <4>1, <4>2
    <3>4. Stored(w)'
      BY <1>1, <3>1, <3>2, <3>3 DEF Stored
    <3> QED
      BY <1>1, <3>1, <3>4 DEF Safe, Chosen
  <2> QED
    BY <2>1, <2>2
<1>8. BootInv'
  <2>1. Running
    BY DEF write_entry, Goto
  <2>2. ASSUME NoOverlap' PROVE SubSeq(data'[sector'], 1, 1) = Text(Start, 1) /\ Stored(StartRecord)'
    <3>1. NoOverlap
      BY <1>1, <2>2 DEF NoOverlap
    <3>2. /\ SubSeq(data[sector], 1, 1) = Text(Start, 1)
          /\ \A n \in Visible : root[n].cluster # sector
      BY <1>2, <2>1, <3>1
    <3>3. \A n \in Visible' \ {entry} : root'[n].cluster # sector
      BY <1>4, <3>2
    <3>4. root'[entry] = [name |-> Start, cluster |-> sector, size |-> 1]
      BY <1>4 DEF v
    <3> QED
      BY <1>1, <3>2, <3>3, <3>4 DEF Stored, StartRecord
  <2> QED
    BY <1>1, <1>2, <2>2 DEF BootInv, Chosen, Late
<1>9. FormatLeavesEmptyDisk'
  <2> SUFFICES ASSUME Running
               PROVE  /\ \A n \in Visible' : \/ \E w \in log : w.name = root'[n].name
                                             \/ pc' = "done" /\ root'[n].name = Start
                      /\ \A c \in Cluster : fat[c] # 0 =>
                           \/ c \in {0, 1} \cup stray
                           \/ \E w \in log : c \in w.taken
                           \/ pc' \in Late /\ c = sector
    BY <1>1 DEF FormatLeavesEmptyDisk, Running, Late
  <2>1. /\ \A n \in Visible : \E w \in log : w.name = root[n].name
        /\ \A c \in Cluster : fat[c] # 0 =>
             \/ c \in {0, 1} \cup stray
             \/ \E w \in log : c \in w.taken
             \/ c = sector
    BY <1>1 DEF FormattedInv, FormatLeavesEmptyDisk, Formatted
  <2>2. ASSUME NEW n \in Visible'
        PROVE  (\E w \in log : w.name = root'[n].name) \/ root'[n].name = Start
    <3>1. CASE n = entry
      BY <1>3, <1>4, <3>1
    <3>2. CASE n # entry
      BY <1>4, <2>1, <3>2
    <3> QED
      BY <3>1, <3>2
  <2> QED
    BY <1>1, <2>1, <2>2 DEF Late
<1> QED
  BY <1>1, <1>5, <1>6, <1>7, <1>8, <1>9 DEF FormattedInv

\* A handler's file: its cluster looked free and its entry was, so it takes
\* nothing from a file that was written outside of the boot code's call.
LEMMA HandlerWritesStep ==
  ASSUME FormattedInv, Formatted, NEW raw \in FileNames, NEW size \in Nat,
         handler_writes(raw, size)
  PROVE  FormattedInv'
<1> DEFINE s == FreeCluster(fat)
           e == FreeRootEntry
           name == filename_to_native(raw)
           v == [name |-> name, cluster |-> s, size |-> size]
           new == [name |-> name, size |-> size, entry |-> e, cluster |-> s,
                   taken |-> {c \in Cluster : fat[c] # fat'[c]}, overlaps |-> Writing]
<1>1. /\ WriteWhole(raw, size) /\ log' = log \cup {new}
      /\ UNCHANGED <<pc, stray, panicked, sector, entry>>
  BY DEF handler_writes
<1>2. Shapes
  BY DEF FormattedInv
<1>3. /\ fat' = [c \in Cluster |-> fat'[c]] /\ data' = [c \in Cluster |-> data'[c]]
      /\ s \in Cluster \ {0} /\ fat[s] = 0 /\ fat'[s] # 0
      /\ \A c \in Cluster : fat[c] # 0 => fat'[c] # 0 /\ data'[c] = data[c]
      /\ root' = [root EXCEPT ![e] = v]
      /\ size <= BytesPerSector => SubSeq(data'[s], 1, size) = Text(name, size)
  BY <1>1, <1>2, WriteEffect
<1>4. e \in EntryNumber /\ (e # 0 => ~InUse(root[e])) /\ name[1] # 0
  BY FreeRootEntryFacts, NativeName
<1>5. /\ v.name = name /\ v.cluster = s /\ v.size = size
      /\ new.name = name /\ new.cluster = s /\ new.size = size /\ new.entry = e
      /\ new.overlaps = Writing /\ new.taken = {c \in Cluster : fat[c] # fat'[c]}
      /\ v = [name |-> new.name, cluster |-> new.cluster, size |-> new.size]
  OBVIOUS
<1> HIDE DEF s, e, name, v, new
<1>6. /\ root' = [n \in EntryNumber |-> root'[n]] /\ root'[e] = v
      /\ \A n \in EntryNumber : n # e => root'[n] = root[n]
      /\ \A n \in Visible' : n \in EntryNumber \ {0} /\ (n = e \/ n \in Visible)
  BY <1>2, <1>3, <1>4, NewEntry
<1>7. Shapes'
  BY <1>3, <1>6 DEF Shapes
<1>8. \A n \in Visible : /\ root[n].cluster \in Cluster /\ fat[root[n].cluster] # 0
                         /\ root[n].cluster # s
  BY <1>3 DEF FormattedInv, EntriesTaken
<1>9. EntriesTaken'
  <2> SUFFICES ASSUME NEW n \in Visible'
               PROVE  root'[n].cluster \in Cluster /\ fat'[root'[n].cluster] # 0
    BY DEF EntriesTaken
  <2>1. CASE n = e
    BY <1>3, <1>5, <1>6, <2>1
  <2>2. CASE n # e
    BY <1>3, <1>6, <1>8, <2>2
  <2> QED
    BY <2>1, <2>2
<1>10. ASSUME NEW w, Stored(w), w.name[1] # 0, w.entry \in EntryNumber \ {0},
              w.cluster \in Cluster, fat[w.cluster] # 0
       PROVE  Stored(w)'
  <2>1. root[w.entry].name = w.name
    BY <1>10 DEF Stored
  <2>2. e # w.entry
    BY <1>4, <1>10, <2>1 DEF InUse
  <2>3. root'[w.entry] = root[w.entry] /\ data'[w.cluster] = data[w.cluster] /\ s # w.cluster
    BY <1>3, <1>6, <1>10, <2>2
  <2>4. ASSUME NEW n \in Visible' \ {w.entry} PROVE root'[n].cluster # w.cluster
    <3>1. CASE n = e
      BY <1>5, <1>6, <2>3, <3>1
    <3>2. CASE n # e
      BY <1>6, <1>10, <3>2 DEF Stored
    <3> QED
      BY <3>1, <3>2
  <2> QED
    BY <1>10, <2>3, <2>4 DEF Stored
<1>11. LogInv'
  <2> SUFFICES ASSUME NEW w \in log'
               PROVE  /\ w.cluster \in Cluster /\ w.entry \in EntryNumber
                      /\ ~w.overlaps /\ w.entry # 0 => Safe(w)'
    BY DEF LogInv
  <2>1. CASE w \in log
    <3>1. /\ w.cluster \in Cluster /\ w.entry \in EntryNumber
          /\ ~w.overlaps /\ w.entry # 0 => Safe(w)
      BY <2>1 DEF FormattedInv, LogInv
    <3>2. ASSUME Safe(w), w.entry # 0 PROVE Safe(w)'
      <4>1. /\ Stored(w) /\ w.name[1] # 0 /\ fat[w.cluster] # 0
            /\ pc \in Chosen => sector # w.cluster
            /\ pc = "enter" => entry # w.entry
        BY <3>2 DEF Safe
      <4>2. Stored(w)'
        BY <1>10, <3>1, <3>2, <4>1
      <4>3. fat'[w.cluster] # 0
        BY <1>3, <3>1, <4>1
      <4> QED
        BY <1>1, <4>1, <4>2, <4>3 DEF Safe
    <3> QED
      BY <3>1, <3>2
  <2>2. CASE w = new
    <3>1. w.cluster \in Cluster /\ w.entry \in EntryNumber
      BY <1>3, <1>4, <1>5, <2>2
    <3>2. ASSUME ~w.overlaps, w.entry # 0 PROVE Safe(w)'
      <4>1. pc \notin Chosen /\ pc # "enter"
        BY <1>5, <2>2, <3>2 DEF Writing, Chosen
      <4>2. /\ w.name = name /\ w.cluster = s /\ w.size = size /\ w.entry = e
            /\ root'[e] = [name |-> w.name, cluster |-> w.cluster, size |-> w.size]
        BY <1>5, <1>6, <2>2
      <4>3. \A n \in Visible' \ {e} : root'[n].cluster # s
        BY <1>6, <1>8
      <4>4. Stored(w)'
        BY <1>3, <4>2, <4>3 DEF Stored
      <4> QED
        BY <1>1, <1>3, <1>4, <4>1, <4>2, <4>4 DEF Safe
    <3> QED
      BY <3>1, <3>2
  <2> QED
    BY <1>1, <2>1, <2>2
<1>12. BootInv'
  <2>1. /\ pc \in Chosen \cup {"done"} => sector \in Cluster \ {0}
        /\ pc \in {"enter", "done"} => entry \in EntryNumber
        /\ pc \in Late => fat[sector] # 0
    BY DEF FormattedInv, BootInv
  <2>2. pc \in Late => fat'[sector] # 0
    BY <1>3, <2>1 DEF Late, Chosen
  <2>3. ASSUME NoOverlap'
        PROVE  NoOverlap /\ pc \notin Chosen
    <3>1. ~new.overlaps /\ NoOverlap
      BY <1>1, <2>3 DEF NoOverlap
    <3> QED
      BY <1>5, <3>1 DEF Writing, Chosen
  <2>4. ASSUME NoOverlap', pc = "done", entry # 0
        PROVE  Stored(StartRecord)'
    <3> DEFINE w == StartRecord
    <3>1. w.name = Start /\ w.entry = entry /\ w.cluster = sector
      BY DEF StartRecord
    <3>2. Stored(w)
      BY <2>3, <2>4 DEF FormattedInv, BootInv
    <3>3. Start[1] # 0
      BY NativeName, NamesAssumption DEF Start
    <3>4. w' = w
      BY <1>1 DEF StartRecord
    <3> HIDE DEF w
    <3>5. /\ w.name[1] # 0 /\ w.entry \in EntryNumber \ {0} /\ w.cluster \in Cluster
          /\ fat[w.cluster] # 0
      BY <2>1, <2>4, <3>1, <3>3 DEF Late, Chosen
    <3>6. ASSUME NEW u, u = w PROVE Stored(u)'
      BY <1>10, <3>2, <3>5, <3>6
    <3> QED
      BY <3>4, <3>6 DEF w, Stored
  <2>5. ASSUME NoOverlap', pc = "done", Running'
        PROVE  SubSeq(data'[sector], 1, 1) = Text(Start, 1)
    <3>1. Running
      BY <1>1, <2>5 DEF Running
    <3>2. SubSeq(data[sector], 1, 1) = Text(Start, 1)
      BY <2>3, <2>5, <3>1 DEF FormattedInv, BootInv, Late
    <3>3. data'[sector] = data[sector]
      BY <1>3, <2>1, <2>5 DEF Late, Chosen
    <3> QED
      BY <3>2, <3>3
  <2> QED
    BY <1>1, <2>1, <2>2, <2>3, <2>4, <2>5 DEF BootInv, Chosen, Late
<1>13. FormatLeavesEmptyDisk'
  <2> SUFFICES ASSUME Running
               PROVE  /\ \A n \in Visible' : \/ \E w \in log' : w.name = root'[n].name
                                             \/ pc = "done" /\ root'[n].name = Start
                      /\ \A c \in Cluster : fat'[c] # 0 =>
                           \/ c \in {0, 1} \cup stray
                           \/ \E w \in log' : c \in w.taken
                           \/ pc \in Late /\ c = sector
    BY <1>1 DEF FormatLeavesEmptyDisk, Running, Late
  <2>1. /\ \A n \in Visible : \/ \E w \in log : w.name = root[n].name
                              \/ pc = "done" /\ root[n].name = Start
        /\ \A c \in Cluster : fat[c] # 0 =>
             \/ c \in {0, 1} \cup stray
             \/ \E w \in log : c \in w.taken
             \/ pc \in Late /\ c = sector
    BY DEF FormattedInv, FormatLeavesEmptyDisk, Late
  <2>2. new \in log' /\ log \subseteq log'
    BY <1>1
  <2>3. ASSUME NEW n \in Visible'
        PROVE  \/ \E w \in log' : w.name = root'[n].name
               \/ pc = "done" /\ root'[n].name = Start
    <3>1. CASE n = e
      BY <1>5, <1>6, <2>2, <3>1
    <3>2. CASE n # e
      <4>1. n \in Visible /\ root'[n] = root[n]
        BY <1>6, <3>2
      <4> QED
        BY <2>1, <2>2, <4>1
    <3> QED
      BY <3>1, <3>2
  <2>4. ASSUME NEW c \in Cluster, fat'[c] # 0
        PROVE  \/ c \in {0, 1} \cup stray
               \/ \E w \in log' : c \in w.taken
               \/ pc \in Late /\ c = sector
    <3>1. CASE fat[c] # 0
      BY <2>1, <2>2, <3>1
    <3>2. CASE fat[c] = 0
      <4>1. c \in new.taken
        BY <1>5, <2>4, <3>2
      <4> QED
        BY <2>2, <4>1
    <3> QED
      BY <3>1, <3>2
  <2> QED
    BY <2>3, <2>4
<1> QED
  BY <1>7, <1>9, <1>11, <1>12, <1>13 DEF FormattedInv

\* A handler that panics in the middle of its file has written free clusters
\* only.
LEMMA HandlerPanicsStep ==
  ASSUME FormattedInv, NEW raw \in FileNames, NEW size \in Nat, handler_panics(raw, size)
  PROVE  FormattedInv'
<1>1. Shapes
  BY DEF FormattedInv
<1>2. /\ fat' = [c \in Cluster |-> fat'[c]] /\ data' = [c \in Cluster |-> data'[c]]
      /\ \A c \in Cluster : fat[c] # 0 => fat'[c] # 0 /\ data'[c] = data[c]
      /\ UNCHANGED <<root, pc, sector, entry, stray, log>> /\ ~Running'
  BY <1>1, PanicEffect DEF local
<1>3. Shapes'
  BY <1>1, <1>2 DEF Shapes
<1>4. Visible' = Visible
  BY <1>2 DEF Visible
<1>5. EntriesTaken'
  BY <1>2, <1>4 DEF FormattedInv, EntriesTaken
<1>6. ASSUME NEW w, Stored(w), w.cluster \in Cluster, fat[w.cluster] # 0
      PROVE  Stored(w)'
  <2>1. data'[w.cluster] = data[w.cluster]
    BY <1>2, <1>6
  <2> QED
    BY <1>2, <1>4, <1>6, <2>1 DEF Stored
<1>7. LogInv'
  <2> SUFFICES ASSUME NEW w \in log
               PROVE  /\ w.cluster \in Cluster /\ w.entry \in EntryNumber
                      /\ ~w.overlaps /\ w.entry # 0 => Safe(w)'
    BY <1>2 DEF LogInv
  <2>1. /\ w.cluster \in Cluster /\ w.entry \in EntryNumber
        /\ ~w.overlaps /\ w.entry # 0 => Safe(w)
    BY DEF FormattedInv, LogInv
  <2>2. ASSUME Safe(w) PROVE Safe(w)'
    <3>1. Stored(w)'
      BY <1>6, <2>1, <2>2 DEF Safe
    <3>2. fat'[w.cluster] # 0
      BY <1>2, <2>1, <2>2 DEF Safe
    <3> QED
      BY <1>2, <2>2, <3>1, <3>2 DEF Safe
  <2> QED
    BY <2>1, <2>2
<1>8. BootInv'
  <2>1. /\ pc \in Chosen \cup {"done"} => sector \in Cluster \ {0}
        /\ pc \in {"enter", "done"} => entry \in EntryNumber
        /\ pc \in Late => fat[sector] # 0
        /\ NoOverlap /\ pc = "done" /\ entry # 0 => Stored(StartRecord)
    BY DEF FormattedInv, BootInv
  <2>2. pc \in Late => fat'[sector] # 0
    BY <1>2, <2>1 DEF Late, Chosen
  <2>3. ASSUME NoOverlap', pc = "done", entry # 0
        PROVE  Stored(StartRecord)'
    <3> DEFINE w == StartRecord
    <3>1. w.cluster = sector
      BY DEF StartRecord
    <3>2. NoOverlap
      BY <1>2, <2>3 DEF NoOverlap
    <3>3. Stored(w)
      BY <2>1, <2>3, <3>2
    <3>4. w' = w
      BY <1>2 DEF StartRecord
    <3> HIDE DEF w
    <3>5. w.cluster \in Cluster /\ fat[w.cluster] # 0
      BY <2>1, <2>3, <3>1 DEF Late, Chosen
    <3>6. ASSUME NEW u, u = w PROVE Stored(u)'
      BY <1>6, <3>3, <3>5, <3>6
    <3> QED
      BY <3>4, <3>6 DEF w, Stored
  <2> QED
    BY <1>2, <2>1, <2>2, <2>3 DEF BootInv
<1>9. FormatLeavesEmptyDisk'
  BY <1>2 DEF FormatLeavesEmptyDisk
<1> QED
  BY <1>3, <1>5, <1>7, <1>8, <1>9 DEF FormattedInv

\* A handler that gets a cluster before the disk is formatted does so before
\* the first sector of the table is zeroed: from then on cluster 0 looks free,
\* and find_next_free_cluster returns 0.
LEMMA EarlyHandler ==
  ASSUME Fat16Inv, ~Formatted, pc # "calls", FreeCluster(fat) # 0,
         UNCHANGED <<pc, next, log>>, Shapes'
  PROVE  Fat16Inv'
<1>1. pc = "format" /\ pc' = "format" /\ next' = next /\ log' = log
  BY DEF Formatted
<1>2. ~Formatted'
  BY <1>1 DEF Formatted
<1>3. /\ next \in 1 .. Len(FormatWrites) /\ log = {}
      /\ \A c \in Cluster : 2 * (c \div EntriesPerSector) + 1 < next => fat[c] = 0
  BY <1>1 DEF Fat16Inv, FormatInv
<1>4. next = 1
  <2> SUFFICES ASSUME next # 1 PROVE FALSE
    OBVIOUS
  <2>1. 0 \in Cluster /\ 0 \div EntriesPerSector = 0
    BY DiskFacts, EntriesPerSectorAssumption
  <2>2. Len(FormatWrites) \in Nat
    BY LongFormat
  <2>3. 2 * (0 \div EntriesPerSector) + 1 < next
    BY <1>3, <2>1, <2>2
  <2>4. fat[0] = 0
    BY <1>3, <2>1, <2>3
  <2> QED
    BY <2>4, FreeClusterFacts
<1>5. FormatInv'
  BY <1>1, <1>3, <1>4, NothingZeroed DEF FormatInv
<1> QED
  BY <1>2, <1>5, Unformatted

\* A disk that is formatted stays so.
LEMMA StaysFormatted ==
  ASSUME FormattedInv', Formatted', pc' # "calls",
         pc' = "format" => next' \in 1 .. Len(FormatWrites)
  PROVE  Fat16Inv'
  BY DEF Fat16Inv, FormattedInv, FormatInv

\* Every step.
LEMMA NextFat16Inv == Fat16Inv /\ [IrqNext]_allvars => Fat16Inv'
<1> SUFFICES ASSUME Fat16Inv, [IrqNext]_allvars PROVE Fat16Inv'
  OBVIOUS
<1>1. ASSUME pc # "calls", Formatted PROVE FormattedInv
  BY <1>1 DEF Fat16Inv, FormattedInv
<1>2. pc = "format" => next \in 1 .. Len(FormatWrites)
  BY DEF Fat16Inv, FormatInv
<1>3. CASE UNCHANGED allvars
  BY <1>3 DEF allvars, vars, store, local, Fat16Inv, FormatInv, Shapes, EntriesTaken, LogInv,
              BootInv, FormatLeavesEmptyDisk, Formatted, Visible, Safe, Stored, NoOverlap,
              StartRecord, Running
<1>4. CASE OneCall
  BY <1>4, CallsStep DEF OneCall
<1>5. CASE ramdisk_fat16_mount
  BY <1>5, MountStep
<1>6. CASE ramdisk_fat16_format
  <2> DEFINE m == 2 * TableSectors + RootSectors
  <2>1. pc = "format"
    BY <1>6 DEF ramdisk_fat16_format
  <2>2. m \in Nat /\ Len(FormatWrites) = m + 2
    BY WritesFacts
  <2>3. next <= m \/ next = m + 1 \/ next = Len(FormatWrites)
    <3> HIDE DEF m
    <3> QED
      BY <1>2, <2>1, <2>2
  <2>4. CASE next = Len(FormatWrites)
    <3>1. Formatted
      BY <2>4 DEF Formatted
    <3>2. FormattedInv' /\ pc' = "exists"
      BY <1>1, <1>6, <2>1, <2>4, <3>1, SecondMarksStep
    <3> QED
      BY <3>2, StaysFormatted DEF Formatted
  <2> QED
    BY <1>6, <2>3, <2>4, ZeroStep, MarksStep
<1>7. CASE check_exists \/ find_cluster
  <2>1. pc \in {"exists", "cluster"}
    BY <1>7 DEF check_exists, find_cluster, Goto
  <2>2. FormattedInv
    BY <1>1, <2>1 DEF Formatted
  <2>3. FormattedInv' /\ pc' \notin {"calls", "format"}
    BY <1>7, <2>2, SearchStep
  <2> QED
    BY <2>3, StaysFormatted DEF Formatted
<1>8. CASE write_data \/ write_end_mark \/ find_root_entry \/ write_entry
  <2>1. pc \in Chosen
    BY <1>8 DEF write_data, write_end_mark, find_root_entry, write_entry, Goto, Chosen
  <2>2. FormattedInv
    BY <1>1, <2>1 DEF Formatted, Chosen
  <2>3. FormattedInv' /\ pc' \in {"end_mark", "root_entry", "enter", "done"}
    BY <1>8, <2>2, DataStep, EndMarkStep, FindEntryStep, EntryStep
  <2> QED
    BY <2>3, StaysFormatted DEF Formatted
<1>9. ASSUME NEW raw \in HandlerNames, NEW size \in HandlerSizes, handler_writes(raw, size)
      PROVE  Fat16Inv'
  <2>1. raw \in FileNames /\ size \in Nat
    BY HandlersAssumption
  <2>2. pc # "calls" /\ WriteWhole(raw, size) /\ UNCHANGED <<pc, next>>
        /\ (~Formatted => log' = log)
    BY <1>9 DEF handler_writes
  <2>3. CASE Formatted
    <3>1. FormattedInv'
      BY <1>1, <1>9, <2>1, <2>2, <2>3, HandlerWritesStep
    <3>2. Formatted'
      BY <2>2, <2>3 DEF Formatted
    <3> QED
      BY <1>2, <2>2, <3>1, <3>2, StaysFormatted
  <2>4. CASE ~Formatted
    <3>1. Shapes
      BY <2>2 DEF Fat16Inv
    <3> DEFINE v == [name |-> filename_to_native(raw), cluster |-> FreeCluster(fat), size |-> size]
    <3>2. /\ fat' = [c \in Cluster |-> fat'[c]] /\ data' = [c \in Cluster |-> data'[c]]
          /\ FreeCluster(fat) # 0 /\ root' = [root EXCEPT ![FreeRootEntry] = v]
      BY <2>1, <2>2, <3>1, WriteEffect
    <3> HIDE DEF v
    <3>3. root' = [n \in EntryNumber |-> root'[n]]
      BY <3>1, <3>2, FreeRootEntryFacts, NewEntry
    <3>4. Shapes'
      BY <3>2, <3>3 DEF Shapes
    <3> QED
      BY <2>2, <2>4, <3>2, <3>4, EarlyHandler
  <2> QED
    BY <2>3, <2>4
<1>10. ASSUME NEW raw \in HandlerNames, NEW size \in HandlerSizes, handler_panics(raw, size)
       PROVE  Fat16Inv'
  <2>1. raw \in FileNames /\ size \in Nat
    BY HandlersAssumption
  <2>2. pc # "calls" /\ UNCHANGED <<pc, next, log>>
    BY <1>10 DEF handler_panics, local
  <2>3. CASE Formatted
    <3>1. FormattedInv'
      BY <1>1, <1>10, <2>1, <2>2, <2>3, HandlerPanicsStep
    <3>2. Formatted'
      BY <2>2, <2>3 DEF Formatted
    <3> QED
      BY <1>2, <2>2, <3>1, <3>2, StaysFormatted
  <2>4. CASE ~Formatted
    <3>1. Shapes
      BY <2>2 DEF Fat16Inv
    <3>2. /\ fat' = [c \in Cluster |-> fat'[c]] /\ data' = [c \in Cluster |-> data'[c]]
          /\ FreeCluster(fat) # 0 /\ root' = root
      BY <1>10, <2>1, <3>1, PanicEffect
    <3>3. Shapes'
      BY <3>1, <3>2 DEF Shapes
    <3> QED
      BY <2>2, <2>4, <3>2, <3>3, EarlyHandler
  <2> QED
    BY <2>3, <2>4
<1>11. CASE Quiet
  BY <1>3, <1>11 DEF Quiet
<1> QED
  BY <1>3, <1>4, <1>5, <1>6, <1>7, <1>8, <1>9, <1>10, <1>11 DEF IrqNext, BootStep

\* The invariant holds in every state.
LEMMA SpecFat16Inv == IrqSpec => []Fat16Inv
<1>1. IrqInit => Fat16Inv
  BY InitFat16Inv
<1>2. Fat16Inv /\ [IrqNext]_allvars => Fat16Inv'
  BY NextFat16Inv
<1> QED
  BY <1>1, <1>2, PTL DEF IrqSpec

\* For every disk, whatever its pages held before and whatever handlers write
\* while it is formatted, the formatted disk lists only files written later,
\* and only their clusters look taken (ramdisk_fat16_format and
\* find_next_free_cluster, ramdisk_fat16.c:216).
THEOREM Fat16FormatLeavesEmptyDisk == IrqSpec => []FormatLeavesEmptyDisk
<1>1. Fat16Inv => FormatLeavesEmptyDisk
  BY DEF Fat16Inv
<1> QED
  BY <1>1, SpecFat16Inv, PTL

\* For every disk and any number of files that handlers write in the middle of
\* the boot code's file_write, every file written outside of that call stays
\* in the directory, whole, with a cluster of its own, and the starting file
\* does too if no write fell into the call (ramdisk_fat16_file_write,
\* ramdisk_fat16.c:400 and 469).
THEOREM Fat16OnlyOverlappingWritesHurt == IrqSpec => []OnlyOverlappingWritesHurt
<1>1. Fat16Inv => OnlyOverlappingWritesHurt
  BY DEF Fat16Inv, LogInv, BootInv, Safe, NoOverlap, StartRecord, OnlyOverlappingWritesHurt
<1> QED
  BY <1>1, SpecFat16Inv, PTL
-----------------------------------------------------------------------------
(* One call after another: what a file_write leaves in the sectors. *)

\* A sector as it is written.
IsSector(b) == b = [i \in 1 .. BytesPerSector |-> b[i]]

\* A name is equal to itself.
LEMMA SameName ==
  ASSUME NEW a \in Seq(Nat)
  PROVE  memcmp(a, a) = 0
<1>1. \A i \in DOMAIN a : a[i] \in Nat
  BY LenProperties, ElementOfSeq
<1>2. {i \in DOMAIN a : a[i] < a[i] \/ a[i] > a[i]} = {}
  BY <1>1
<1> QED
  BY <1>2 DEF memcmp

\* The pieces of a file have bytes of the file, and all but the last one fill a
\* sector.
LEMMA PieceBytes ==
  ASSUME NEW V, NEW t \in Seq(V), NEW k \in Nat \ {0}
  PROVE  /\ Len(Piece(t, k)) \in Nat
         /\ \A i \in 1 .. Len(Piece(t, k)) : Piece(t, k)[i] \in ToSet(t)
         /\ k * BytesPerSector < Len(t) => Len(Piece(t, k)) = BytesPerSector
<1> DEFINE b == BytesPerSector
           a == (k - 1) * b
           z == k * b
           l == Len(t)
           m == IF z < l THEN z ELSE l
           p == SubSeq(t, a + 1, m)
<1>1. b \in Nat /\ b > 0
  BY DiskFacts
<1>2. l \in Nat /\ DOMAIN t = 1 .. l
  BY LenProperties
<1>3. a \in Nat
  <2>1. k - 1 \in Nat
    OBVIOUS
  <2> HIDE DEF b
  <2> QED
    BY <1>1, <2>1
<1>4. z \in Nat /\ z = a + b
  <2> HIDE DEF b
  <2>1. k \in Int /\ b \in Int
    BY <1>1
  <2> QED
    BY <1>1, <2>1
<1>5. Piece(t, k) = p
  BY DEF Piece
<1> HIDE DEF a, b, l, z
<1>6. m \in Nat /\ m <= l
  BY <1>2, <1>4
<1> HIDE DEF m
<1>7. \A i \in a + 1 .. m : t[i] \in ToSet(t)
  <2> SUFFICES ASSUME NEW i \in a + 1 .. m PROVE t[i] \in ToSet(t)
    OBVIOUS
  <2>1. i \in 1 .. l
    BY <1>2, <1>3, <1>6
  <2> QED
    BY <1>2, <2>1 DEF ToSet
<1>8. /\ p \in Seq(ToSet(t))
      /\ Len(p) = IF a + 1 <= m THEN m - (a + 1) + 1 ELSE 0
  <2>1. a + 1 \in Int /\ m \in Int
    BY <1>3, <1>6
  <2> QED
    BY <1>7, <2>1, SubSeqProperties
<1> HIDE DEF p
<1>9. Len(p) \in Nat /\ \A i \in 1 .. Len(p) : p[i] \in ToSet(t)
  BY <1>8, LenProperties, ElementOfSeq
<1>10. z < l => Len(p) = b
  <2> SUFFICES ASSUME z < l PROVE Len(p) = b
    OBVIOUS
  <2>1. m = z
    BY DEF m
  <2> QED
    BY <1>1, <1>3, <1>4, <1>8, <2>1
<1> QED
  BY <1>5, <1>9, <1>10 DEF z, l, b

\* What is in a sector once bytes are written over its start.
LEMMA OverBytes ==
  ASSUME NEW old, NEW p, NEW T, Len(p) \in Nat,
         \A i \in 1 .. Len(p) : p[i] \in T,
         Len(p) = BytesPerSector \/ \A i \in 1 .. BytesPerSector : old[i] \in T
  PROVE  \A i \in 1 .. BytesPerSector : Over(old, p)[i] \in T
<1> SUFFICES ASSUME NEW i \in 1 .. BytesPerSector PROVE Over(old, p)[i] \in T
  OBVIOUS
<1>1. Over(old, p)[i] = IF i <= Len(p) THEN p[i] ELSE old[i]
  BY DEF Over
<1>2. BytesPerSector \in Nat
  BY DiskFacts
<1> DEFINE o == Over(old, p)[i]
           l == Len(p)
<1>3. CASE i <= l
  <2>1. i \in 1 .. l
    BY <1>2, <1>3
  <2>2. o = p[i]
    BY <1>1, <1>3
  <2> HIDE DEF o, l
  <2>3. p[i] \in T
    BY <2>1 DEF l
  <2> QED
    BY <2>2, <2>3 DEF o
<1>4. CASE ~(i <= l)
  <2>1. l # BytesPerSector
    BY <1>2, <1>4
  <2>2. o = old[i]
    BY <1>1, <1>4
  <2> HIDE DEF o
  <2>3. old[i] \in T
    BY <2>1
  <2> QED
    BY <2>2, <2>3 DEF o
<1> QED
  BY <1>3, <1>4

\* It is a sector.
LEMMA OverIsSector == ASSUME NEW old, NEW p PROVE IsSector(Over(old, p))
  BY DEF Over, IsSector

\* What k rounds leave in the sectors: from the first one on the sector the
\* file begins in has bytes of the file only.
RoundsFilled(w, text, k) ==
  /\ \A c \in Cluster : IsSector(w.data[c])
  /\ k # 0 => \A i \in 1 .. BytesPerSector : w.data[FreeCluster(fat)][i] \in ToSet(text)

\* One more round.
LEMMA FillRoundBytes ==
  ASSUME NEW w, NEW V, NEW text \in Seq(V), NEW k \in Nat \ {0},
         k * BytesPerSector < Len(text), FreeCluster(fat) # 0,
         RoundsSound(w), RoundsFilled(w, text, k - 1),
         k = 1 => w.sector = FreeCluster(fat)
  PROVE  RoundsFilled(FillRound(w, text, k), text, k)
<1> DEFINE s == w.sector
           v == FillRound(w, text, k)
           q == Piece(text, k)
           d == w.data
           p == Over(d[s], q)
           g == FreeCluster(fat)
           T == ToSet(text)
<1>1. CASE s = 0
  <2>1. v = w
    BY <1>1 DEF FillRound
  <2>2. k - 1 # 0
    BY <1>1
  <2> QED
    BY <2>1, <2>2 DEF RoundsFilled
<1>2. CASE s # 0
  <2>1. v.data = [d EXCEPT ![s] = p]
    BY <1>2 DEF FillRound
  <2>2. d = [c \in Cluster |-> d[c]] /\ s \in Cluster
    BY DEF RoundsSound
  <2>3. g \in Cluster
    BY FreeClusterFacts
  <2>4. /\ \A c \in Cluster : IsSector(d[c])
        /\ k - 1 # 0 => \A i \in 1 .. BytesPerSector : d[g][i] \in T
    BY DEF RoundsFilled
  <2>5. /\ Len(q) = BytesPerSector /\ Len(q) \in Nat
        /\ \A i \in 1 .. Len(q) : q[i] \in T
    BY PieceBytes
  <2>6. IsSector(p)
    BY OverIsSector
  <2> HIDE DEF q, d, T, s
  <2>7. \A i \in 1 .. BytesPerSector : p[i] \in T
    BY <2>5, OverBytes
  <2>8. k - 1 = 0 => s = g
    BY DEF s
  <2> HIDE DEF v, p, g
  <2>9. v.data[s] = p /\ \A c \in Cluster : c # s => v.data[c] = d[c]
    BY <2>1, <2>2
  <2>10. \A c \in Cluster : IsSector(v.data[c])
    BY <2>4, <2>6, <2>9
  <2>11. \A i \in 1 .. BytesPerSector : v.data[g][i] \in T
    BY <2>3, <2>4, <2>7, <2>8, <2>9
  <2> QED
    BY <2>10, <2>11 DEF RoundsFilled, v, g, T
<1> QED
  BY <1>1, <1>2

\* All of them.
LEMMA FilledBytes ==
  ASSUME Shapes, \A c \in Cluster : IsSector(data[c]), FreeCluster(fat) # 0,
         NEW V, NEW text \in Seq(V), NEW rounds \in Nat,
         \A k \in 1 .. rounds : k * BytesPerSector < Len(text)
  PROVE  RoundsFilled(Filled(text, rounds), text, rounds)
<1> DEFINE f == CHOOSE f : Filling(f, text, rounds)
           I == [fat |-> fat, data |-> data, sector |-> FreeCluster(fat)]
           S == {k \in 0 .. rounds : ~(RoundsSound(f[k]) /\ RoundsFilled(f[k], text, k))}
<1>1. Filled(text, rounds) = f[rounds]
  BY DEF Filled, Filling, FillRound
<1>2. Filling(f, text, rounds)
  BY FillingExists
<1> HIDE DEF f
<1>3. \A k \in 0 .. rounds : f[k] = IF k = 0 THEN I ELSE FillRound(f[k - 1], text, k)
  <2> DEFINE e == [k \in 0 .. rounds |-> IF k = 0 THEN I ELSE FillRound(f[k - 1], text, k)]
  <2>1. f = e
    BY <1>2 DEF Filling
  <2>2. \A k \in 0 .. rounds : e[k] = IF k = 0 THEN I ELSE FillRound(f[k - 1], text, k)
    OBVIOUS
  <2> HIDE DEF e, I
  <2> QED
    BY <2>1, <2>2
<1>4. f[0] = I
  <2>1. 0 \in 0 .. rounds
    OBVIOUS
  <2> HIDE DEF I
  <2> QED
    BY <1>3, <2>1
<1>5. RoundsSound(I) /\ RoundsFilled(I, text, 0) /\ I.sector = FreeCluster(fat)
  <2>1. FreeCluster(fat) \in Cluster /\ (FreeCluster(fat) # 0 => fat[FreeCluster(fat)] = 0)
    BY FreeClusterFacts
  <2>2. RoundsSound(I)
    BY <2>1 DEF RoundsSound, Shapes
  <2>3. RoundsFilled(I, text, 0)
    BY DEF RoundsFilled
  <2> QED
    BY <2>2, <2>3
<1> HIDE DEF I
<1>6. S = {}
  <2> SUFFICES ASSUME S # {} PROVE FALSE
    OBVIOUS
  <2>1. S \subseteq Nat
    OBVIOUS
  <2>2. PICK k \in S : \A j \in S : k <= j
    BY <2>1, LeastNumber
  <2>3. k # 0
    BY <1>4, <1>5, <2>2
  <2>4. /\ k \in 0 .. rounds /\ k - 1 \in 0 .. rounds /\ ~(k <= k - 1)
        /\ k \in 1 .. rounds /\ k \in Nat \ {0}
    BY <2>2, <2>3
  <2>5. RoundsSound(f[k - 1]) /\ RoundsFilled(f[k - 1], text, k - 1)
    BY <2>2, <2>4
  <2>6. f[k] = FillRound(f[k - 1], text, k)
    BY <1>3, <2>3, <2>4
  <2>7. RoundsSound(f[k])
    BY <2>5, <2>6, FillRoundOK
  <2>8. k = 1 => f[k - 1].sector = FreeCluster(fat)
    BY <1>4, <1>5
  <2>9. k * BytesPerSector < Len(text)
    BY <2>4
  <2>10. RoundsFilled(f[k], text, k)
    BY <2>4, <2>5, <2>6, <2>8, <2>9, FillRoundBytes
  <2> QED
    BY <2>2, <2>7, <2>10
<1>7. RoundsFilled(f[rounds], text, rounds)
  <2>1. rounds \in 0 .. rounds
    OBVIOUS
  <2> QED
    BY <1>6, <2>1
<1> QED
  BY <1>1, <1>7

\* Quotient and remainder.
LEMMA Division ==
  ASSUME NEW m \in Nat, NEW b \in Nat, b > 0
  PROVE  m \div b \in Nat /\ m % b \in 0 .. b - 1 /\ m = b * (m \div b) + (m % b)
<1>1. m \div b \in Nat
  OBVIOUS
<1>2. m % b \in 0 .. b - 1
  OBVIOUS
<1>3. m = b * (m \div b) + (m % b)
  OBVIOUS
<1> QED
  BY <1>1, <1>2, <1>3

\* The rounds fill whole sectors, and there is one if the file is longer than a
\* sector.
LEMMA RoundsFit ==
  ASSUME NEW size \in Nat
  PROVE  /\ FullClusters(size) \in Nat
         /\ \A k \in 1 .. FullClusters(size) : k * BytesPerSector < size
         /\ size > BytesPerSector => FullClusters(size) # 0
<1> DEFINE b == BytesPerSector
           n == FullClusters(size)
<1>1. b \in Nat /\ b > 0
  BY DiskFacts
<1>2. n \in Nat
  BY RoundsFacts
<1>3. n = IF size = 0 THEN 0 ELSE (size - 1) \div b
  BY DEF FullClusters
<1> HIDE DEF b, n
<1>4. CASE size = 0
  BY <1>1, <1>3, <1>4 DEF b, n
<1>5. CASE size # 0
  <2> DEFINE m == size - 1
             x == n * b
  <2>1. m \in Nat /\ n = m \div b
    BY <1>3, <1>5
  <2> HIDE DEF m
  <2>2. m = b * (m \div b) + (m % b) /\ m % b \in 0 .. b - 1
    BY <1>1, <2>1, Division
  <2>3. b * (m \div b) = x
    BY <1>1, <1>2, <2>1
  <2>4. x \in Nat
    BY <1>1, <1>2
  <2> HIDE DEF x
  <2>5. x <= m /\ m < x + b
    BY <1>1, <2>1, <2>2, <2>3, <2>4
  <2>6. ASSUME NEW k \in 1 .. n PROVE k * b < size
    <3>1. n - k \in Nat /\ k \in Nat
      BY <1>2
    <3>2. (n - k) * b \in Nat
      BY <1>1, <3>1
    <3>3. (n - k) * b = x - k * b /\ k * b \in Nat
      BY <1>1, <1>2, <3>1 DEF x
    <3> DEFINE y == k * b
               u == (n - k) * b
    <3> HIDE DEF y, u
    <3>4. u \in Nat /\ u = x - y /\ y \in Nat
      BY <3>2, <3>3 DEF u, y
    <3>5. y <= m
      BY <2>1, <2>4, <2>5, <3>4
    <3> QED
      BY <2>1, <3>4, <3>5 DEF y, m
  <2>7. ASSUME size > b PROVE n # 0
    <3>1. n = 0 => x = 0
      BY <1>1 DEF x
    <3> QED
      BY <1>1, <2>1, <2>4, <2>5, <2>7, <3>1 DEF m
  <2> QED
    BY <1>2, <2>6, <2>7 DEF b, n
<1> QED
  BY <1>4, <1>5

\* What a whole file_write leaves in the sectors.
LEMMA WriteBytes ==
  ASSUME Shapes, \A c \in Cluster : IsSector(data[c]),
         NEW raw \in FileNames, NEW size \in Nat, WriteWhole(raw, size)
  PROVE  /\ \A c \in Cluster : IsSector(data'[c])
         /\ size > BytesPerSector =>
              \A i \in 1 .. BytesPerSector :
                data'[FreeCluster(fat)][i] \in ToSet(Text(filename_to_native(raw), size))
<1> DEFINE g == FreeCluster(fat)
           text == Text(filename_to_native(raw), size)
           k == FullClusters(size)
           w == Filled(text, k)
           q == Piece(text, k + 1)
           T == ToSet(text)
           V == {<<filename_to_native(raw), i>> : i \in 1 .. size}
<1>1. /\ g # 0 /\ w.sector # 0
      /\ data' = [w.data EXCEPT ![w.sector] = Over(@, q)]
  BY DEF WriteWhole, Accepted
<1>2. text \in Seq(V) /\ Len(text) = size
  BY DEF Text
<1>3. /\ k \in Nat /\ \A j \in 1 .. k : j * BytesPerSector < size
      /\ size > BytesPerSector => k # 0
  BY RoundsFit
<1> HIDE DEF text, k, V, g
<1>4. RoundsSound(w)
  BY <1>3, FilledOK
<1>5. RoundsFilled(w, text, k)
  BY <1>1, <1>2, <1>3, FilledBytes DEF g
<1>6. k + 1 \in Nat \ {0}
  BY <1>3
<1>7. Len(q) \in Nat /\ \A i \in 1 .. Len(q) : q[i] \in T
  BY <1>2, <1>6, PieceBytes
<1> DEFINE d == w.data
           r == w.sector
           p == Over(d[r], q)
<1>8. d = [c \in Cluster |-> d[c]] /\ r \in Cluster
  BY <1>4 DEF RoundsSound
<1>9. /\ \A c \in Cluster : IsSector(d[c])
      /\ k # 0 => \A i \in 1 .. BytesPerSector : d[g][i] \in T
  BY <1>5 DEF RoundsFilled, g
<1>10. IsSector(p)
  BY OverIsSector
<1>11. data' = [d EXCEPT ![r] = p]
  BY <1>1
<1> HIDE DEF d, r, q, T, w
<1>12. ASSUME k # 0, r = g PROVE \A i \in 1 .. BytesPerSector : p[i] \in T
  BY <1>7, <1>9, <1>12, OverBytes
<1> HIDE DEF p
<1>13. data'[r] = p /\ \A c \in Cluster : c # r => data'[c] = d[c]
  BY <1>8, <1>11
<1>14. \A c \in Cluster : IsSector(data'[c])
  BY <1>9, <1>10, <1>13
<1>15. g \in Cluster
  BY FreeClusterFacts DEF g
<1>16. k # 0 => \A i \in 1 .. BytesPerSector : data'[g][i] \in T
  BY <1>9, <1>12, <1>13, <1>15
<1> QED
  BY <1>3, <1>14, <1>16 DEF g, T, text

\* The same for one that panics.
LEMMA PanicBytes ==
  ASSUME Shapes, \A c \in Cluster : IsSector(data[c]),
         NEW raw \in FileNames, NEW size \in Nat, file_write_panics(raw, size)
  PROVE  /\ fat' = [c \in Cluster |-> fat'[c]] /\ data' = [c \in Cluster |-> data'[c]]
         /\ \A c \in Cluster : fat[c] # 0 => fat'[c] # 0 /\ data'[c] = data[c]
         /\ \A c \in Cluster : IsSector(data'[c])
<1> DEFINE text == Text(filename_to_native(raw), size)
           k == FullClusters(size)
           w == Filled(text, k)
           V == {<<filename_to_native(raw), i>> : i \in 1 .. size}
<1>1. data' = w.data /\ fat' = w.fat /\ FreeCluster(fat) # 0
  BY DEF file_write_panics, Accepted
<1>2. text \in Seq(V) /\ Len(text) = size
  BY DEF Text
<1>3. k \in Nat /\ \A j \in 1 .. k : j * BytesPerSector < size
  BY RoundsFit
<1> HIDE DEF text, k, V
<1>4. RoundsSound(w)
  BY <1>3, FilledOK
<1>5. RoundsFilled(w, text, k)
  BY <1>1, <1>2, <1>3, FilledBytes
<1> HIDE DEF w
<1> QED
  BY <1>1, <1>4, <1>5 DEF RoundsSound, RoundsFilled
-----------------------------------------------------------------------------
(* The directory as a map from names to files. *)

\* The entries a search of directory r looks at and finds in use, and their
\* names.
Seen(r) == {n \in EntryNumber \ {0} : InUse(r[n])}
SeenNames(r) == {r[n].name : n \in Seen(r)}

\* No two of them have the same name.
NamesDiffer(r) == \A m, n \in Seen(r) : r[m].name = r[n].name => m = n

\* The file under a name, and the files with their contents.
Found(r, name) == r[CHOOSE n \in Seen(r) : r[n].name = name]
Bytes(d, f) == SubSeq(d[f.cluster], 1, KeptBytes(f))
FilesIn(r, d) == [name \in SeenNames(r) |-> Bytes(d, Found(r, name))]

\* One more file.
WithFile(files, name, bytes) ==
  [m \in DOMAIN files \cup {name} |-> IF m = name THEN bytes ELSE files[m]]

\* A name leads to the entry that has it.
LEMMA FoundByName ==
  ASSUME NEW r, NamesDiffer(r), NEW n \in Seen(r)
  PROVE  Found(r, r[n].name) = r[n] /\ r[n].name \in SeenNames(r)
<1> DEFINE c == CHOOSE m \in Seen(r) : r[m].name = r[n].name
<1>1. c \in Seen(r) /\ r[c].name = r[n].name
  OBVIOUS
<1>2. c = n
  BY <1>1 DEF NamesDiffer
<1> QED
  BY <1>2 DEF Found, SeenNames

\* What a step leaves alone is still there.
LEMMA SameFiles ==
  ASSUME NEW r, NEW s, NEW d, NEW e, NamesDiffer(r), Seen(s) = Seen(r),
         \A n \in Seen(r) : s[n] = r[n] /\ e[r[n].cluster] = d[r[n].cluster]
  PROVE  FilesIn(s, e) = FilesIn(r, d) /\ NamesDiffer(s)
<1>1. NamesDiffer(s)
  BY DEF NamesDiffer
<1>2. SeenNames(s) = SeenNames(r)
  BY DEF SeenNames
<1>3. ASSUME NEW name \in SeenNames(r)
      PROVE  Bytes(e, Found(s, name)) = Bytes(d, Found(r, name))
  <2>1. PICK n \in Seen(r) : r[n].name = name
    BY DEF SeenNames
  <2>2. s[n] = r[n] /\ e[r[n].cluster] = d[r[n].cluster]
    OBVIOUS
  <2>3. Found(r, name) = r[n] /\ Found(s, name) = s[n]
    BY <1>1, <2>1, <2>2, FoundByName
  <2> QED
    BY <2>2, <2>3 DEF Bytes
<1> QED
  BY <1>1, <1>2, <1>3 DEF FilesIn

\* A new entry is one more file.
LEMMA OneMoreFile ==
  ASSUME NEW r, NEW s, NEW d, NEW e, NamesDiffer(r),
         NEW k, k \notin Seen(r), Seen(s) = Seen(r) \cup {k},
         s[k].name \notin SeenNames(r),
         \A n \in Seen(r) : s[n] = r[n] /\ e[r[n].cluster] = d[r[n].cluster]
  PROVE  /\ NamesDiffer(s)
         /\ FilesIn(s, e) = WithFile(FilesIn(r, d), s[k].name, Bytes(e, s[k]))
<1>1. NamesDiffer(s)
  BY DEF NamesDiffer, SeenNames
<1>2. SeenNames(s) = SeenNames(r) \cup {s[k].name}
  BY DEF SeenNames
<1>3. ASSUME NEW name \in SeenNames(r)
      PROVE  Bytes(e, Found(s, name)) = FilesIn(r, d)[name] /\ name # s[k].name
  <2>1. PICK n \in Seen(r) : r[n].name = name
    BY DEF SeenNames
  <2>2. s[n] = r[n] /\ e[r[n].cluster] = d[r[n].cluster] /\ n \in Seen(s)
    OBVIOUS
  <2>3. Found(r, name) = r[n] /\ Found(s, name) = s[n]
    BY <1>1, <2>1, <2>2, FoundByName
  <2> QED
    BY <2>2, <2>3 DEF Bytes, FilesIn
<1>4. Bytes(e, Found(s, s[k].name)) = Bytes(e, s[k])
  <2>1. k \in Seen(s)
    OBVIOUS
  <2>2. Found(s, s[k].name) = s[k]
    BY <1>1, <2>1, FoundByName
  <2> QED
    BY <2>2
<1>5. DOMAIN FilesIn(r, d) = SeenNames(r)
  BY DEF FilesIn
<1>6. FilesIn(s, e) = [m \in SeenNames(r) \cup {s[k].name} |->
                         IF m = s[k].name THEN Bytes(e, s[k]) ELSE FilesIn(r, d)[m]]
  BY <1>2, <1>3, <1>4 DEF FilesIn
<1> QED
  BY <1>1, <1>5, <1>6 DEF WithFile

\* FileStore counts as we do.
LEMMA SameCardinality == ASSUME NEW S PROVE Files!Cardinality(S) = Cardinality(S)
  BY DEF Files!Cardinality, Cardinality

\* How many files there are: at most one less than there are entries, and as
\* many as that when every entry but the first is in use.
LEMMA FilesCount ==
  ASSUME NEW r, NamesDiffer(r)
  PROVE  /\ Seen(r) = EntryNumber \ {0} => Cardinality(SeenNames(r)) = RootEntries - 1
         /\ Seen(r) # EntryNumber \ {0} => Cardinality(SeenNames(r)) < RootEntries - 1
<1> DEFINE E == EntryNumber \ {0}
           f == [n \in Seen(r) |-> r[n].name]
<1>1. RootEntries \in Nat /\ RootEntries > 0
  BY GeometryAssumption
<1>2. E = 1 .. RootEntries - 1
  BY <1>1 DEF EntryNumber
<1>3. IsFiniteSet(E) /\ Cardinality(E) = RootEntries - 1
  <2>1. 1 \in Int /\ RootEntries - 1 \in Int
    BY <1>1
  <2>2. /\ IsFiniteSet(1 .. RootEntries - 1)
        /\ Cardinality(1 .. RootEntries - 1) =
             IF 1 > RootEntries - 1 THEN 0 ELSE RootEntries - 1 - 1 + 1
    BY <2>1, FS_Interval
  <2>3. (IF 1 > RootEntries - 1 THEN 0 ELSE RootEntries - 1 - 1 + 1) = RootEntries - 1
    BY <1>1
  <2> HIDE DEF E
  <2> QED
    BY <1>2, <2>2, <2>3
<1>4. Seen(r) \in SUBSET E
  BY DEF Seen
<1> HIDE DEF E
<1>5. /\ IsFiniteSet(Seen(r)) /\ Cardinality(Seen(r)) <= Cardinality(E)
      /\ Cardinality(E) = Cardinality(Seen(r)) => E = Seen(r)
  BY <1>3, <1>4, FS_Subset
<1>6. f \in Surjection(Seen(r), SeenNames(r))
  BY DEF Surjection, SeenNames
<1>7. f \in Injection(Seen(r), SeenNames(r))
  <2>1. \A m, n \in Seen(r) : f[m] = f[n] => m = n
    BY DEF NamesDiffer
  <2>2. f \in [Seen(r) -> SeenNames(r)]
    BY DEF SeenNames
  <2> HIDE DEF f
  <2> QED
    BY <2>1, <2>2 DEF Injection, IsInjective
<1> HIDE DEF f
<1>8. Cardinality(SeenNames(r)) = Cardinality(Seen(r))
  BY <1>5, <1>6, <1>7, FS_Surjection
<1>9. Cardinality(Seen(r)) \in Nat
  BY <1>5, FS_CardinalityType
<1> QED
  BY <1>1, <1>3, <1>5, <1>8, <1>9 DEF E
-----------------------------------------------------------------------------
(* Every call is one of FileStore's. *)

\* The disk between two calls: table t, sectors d and directory r.
DiskSound(t, d, r) ==
  /\ t = [c \in Cluster |-> t[c]]
  /\ d = [c \in Cluster |-> d[c]]
  /\ r = [n \in EntryNumber |-> r[n]]
  /\ \A c \in Cluster : IsSector(d[c])
  /\ \A n \in Seen(r) : /\ r[n].name \in Names /\ r[n].size \in Nat
                        /\ r[n].cluster \in Cluster /\ t[r[n].cluster] # 0
  /\ NamesDiffer(r)

\* The inductive invariant of the calls.  A disk that is not mounted has no
\* files.
CallsInv ==
  pc = "calls" => /\ DiskSound(fat, data, root)
                  /\ ~mounted => Seen(root) = {}

\* FileStore's view while calls run one after another.
LEMMA StoreNow ==
  ASSUME pc = "calls"
  PROVE  StoredFiles = FilesIn(root, data) /\ (Down <=> ~Running)
  BY DEF StoredFiles, FilesIn, NamesInUse, FileOf, Visible, Seen, SeenNames, Found, Bytes, Down

\* And after a step.
LEMMA StoreThen ==
  ASSUME pc' = "calls"
  PROVE  StoredFiles' = FilesIn(root', data') /\ (Down' <=> ~Running')
  BY DEF StoredFiles, FilesIn, NamesInUse, FileOf, Visible, Seen, SeenNames, Found, Bytes, Down

\* A directory without entries has no files.
LEMMA NoFiles ==
  ASSUME NEW r, NEW d, Seen(r) = {}
  PROVE  FilesIn(r, d) = Files!Empty /\ NamesDiffer(r)
  BY DEF FilesIn, SeenNames, Files!Empty, NamesDiffer

\* An emptied directory.
LEMMA EmptyDirectory ==
  ASSUME NEW r, r = [n \in EntryNumber |-> FreeEntry]
  PROVE  Seen(r) = {} /\ r = [n \in EntryNumber |-> r[n]]
  BY FreeIsFree DEF Seen

\* A disk without files is sound.
LEMMA BlankDisk ==
  ASSUME NEW t, NEW d, NEW r, t = [c \in Cluster |-> t[c]],
         d = [c \in Cluster |-> BlankSector], r = [n \in EntryNumber |-> FreeEntry]
  PROVE  DiskSound(t, d, r)
<1>1. Seen(r) = {} /\ r = [n \in EntryNumber |-> r[n]]
  BY EmptyDirectory
<1>2. NamesDiffer(r)
  BY <1>1 DEF NamesDiffer
<1>3. IsSector(BlankSector)
  BY DEF IsSector, BlankSector
<1>4. d = [c \in Cluster |-> d[c]] /\ \A c \in Cluster : IsSector(d[c])
  BY <1>3
<1> QED
  BY <1>1, <1>2, <1>4 DEF DiskSound

\* In the beginning.
LEMMA InitCalls == IrqInit => CallsInv /\ Files!Init
<1> SUFFICES ASSUME IrqInit PROVE CallsInv /\ Files!Init
  OBVIOUS
<1>1. /\ pc = "calls" /\ fat = [c \in Cluster |-> 0]
      /\ data = [c \in Cluster |-> BlankSector] /\ root = [n \in EntryNumber |-> FreeEntry]
      /\ answer = [call |-> "none"] /\ panicked = "none"
  BY DEF IrqInit, Init
<1>2. fat = [c \in Cluster |-> fat[c]]
  BY <1>1
<1>3. DiskSound(fat, data, root) /\ Seen(root) = {}
  BY <1>1, <1>2, BlankDisk, EmptyDirectory
<1>4. FilesIn(root, data) = Files!Empty
  BY <1>3, NoFiles
<1>5. StoredFiles = Files!Empty /\ Down = FALSE
  BY <1>1, <1>4, StoreNow DEF Running, Down
<1> QED
  BY <1>1, <1>3, <1>5 DEF CallsInv, Files!Init

\* The first free entry, seen from the directory.
LEMMA FreeEntrySeen ==
  /\ FreeRootEntry \in EntryNumber
  /\ FreeRootEntry # 0 => FreeRootEntry \in (EntryNumber \ {0}) \ Seen(root)
  /\ FreeRootEntry = 0 => Seen(root) = EntryNumber \ {0}
<1> DEFINE free == {i \in EntryNumber \ {0} : ~InUse(root[i])}
<1>1. FreeRootEntry = IF free = {} THEN 0 ELSE Min(free)
  BY DEF FreeRootEntry
<1>2. free \subseteq Nat /\ 0 \notin free
  BY DiskFacts
<1>3. free # {} => Min(free) \in free
  BY <1>2, MinOfSet
<1>4. FreeRootEntry = 0 => free = {}
  <2> HIDE DEF free
  <2> QED
    BY <1>1, <1>2, <1>3
<1> QED
  BY <1>4, FreeRootEntryFacts DEF Seen

\* file_exists finds every file, and what it finds is equal for memcmp.
LEMMA FileExists ==
  ASSUME NEW raw \in FileNames
  PROVE  /\ filename_to_native(raw) \in SeenNames(root) => file_exists(raw) # 0
         /\ file_exists(raw) # 0 =>
              /\ file_exists(raw) \in Seen(root)
              /\ memcmp(filename_to_native(raw), root[file_exists(raw)].name) = 0
<1> DEFINE name == filename_to_native(raw)
           match == {i \in EntryNumber \ {0} : /\ InUse(root[i])
                                               /\ memcmp(name, root[i].name) = 0}
<1>1. file_exists(raw) = IF match = {} THEN 0 ELSE Min(match)
  BY DEF file_exists
<1>2. match \subseteq Nat /\ 0 \notin match
  BY DiskFacts
<1>3. match # {} => Min(match) \in match
  BY <1>2, MinOfSet
<1>4. \A i \in match : i \in Seen(root) /\ memcmp(name, root[i].name) = 0
  BY DEF Seen
<1>5. ASSUME name \in SeenNames(root) PROVE match # {}
  <2>1. PICK n \in Seen(root) : root[n].name = name
    BY <1>5 DEF SeenNames
  <2>2. memcmp(name, name) = 0
    BY NativeName, SameName
  <2>3. n \in match
    BY <2>1, <2>2 DEF Seen
  <2> QED
    BY <2>3
<1> HIDE DEF match, name
<1>6. file_exists(raw) # 0 <=> match # {}
  BY <1>1, <1>2, <1>3
<1>7. match # {} => file_exists(raw) \in match
  BY <1>1, <1>3
<1> QED
  BY <1>4, <1>5, <1>6, <1>7 DEF name

\* What is left of a file in its first sector is what FileStore allows.
LEMMA KeptFile ==
  ASSUME NEW name, NEW size \in Nat, NEW b, IsSector(b),
         size <= BytesPerSector => SubSeq(b, 1, size) = Text(name, size),
         size > BytesPerSector =>
           \A i \in 1 .. BytesPerSector : b[i] \in ToSet(Text(name, size)),
         NEW f, f.size = size
  PROVE  SubSeq(b, 1, KeptBytes(f)) \in Files!Kept(Text(name, size))
<1> DEFINE text == Text(name, size)
           T == ToSet(text)
<1>1. Len(text) = size
  BY DEF Text
<1>2. Files!Kept(text) = IF Len(text) <= BytesPerSector THEN {text}
                                                        ELSE [1 .. BytesPerSector -> ToSet(text)]
  BY DEF Files!Kept, Files!ToSet, ToSet
<1>3. BytesPerSector \in Nat
  BY DiskFacts
<1> HIDE DEF text
<1>4. CASE size <= BytesPerSector
  <2>1. KeptBytes(f) = size
    BY <1>3, <1>4 DEF KeptBytes
  <2> QED
    BY <1>1, <1>2, <1>4, <2>1 DEF text
<1>5. CASE size > BytesPerSector
  <2>1. KeptBytes(f) = BytesPerSector
    BY <1>3, <1>5 DEF KeptBytes
  <2>2. \A i \in 1 .. BytesPerSector : b[i] \in T
    BY <1>5 DEF text
  <2> HIDE DEF T
  <2>3. b \in [1 .. BytesPerSector -> T]
    BY <2>2 DEF IsSector
  <2>4. b \in Seq(T) /\ Len(b) = BytesPerSector
    BY <1>3, <2>3
  <2>5. SubSeq(b, 1, BytesPerSector) = b
    BY <2>4, SubSeqFull
  <2>6. ~(size <= BytesPerSector)
    BY <1>3, <1>5
  <2> QED
    BY <1>1, <1>2, <2>1, <2>3, <2>5, <2>6 DEF T, text
<1> QED
  BY <1>3, <1>4, <1>5

\* A whole file_write is a write of FileStore, or loses the file when there is
\* no entry for it.
LEMMA WriteCall ==
  ASSUME DiskSound(fat, data, root), pc = "calls", pc' = "calls", Running, UNCHANGED panicked,
         NEW raw \in FileNames, NEW size \in Nat,
         WriteWhole(raw, size), Reply("write", raw, 0)
  PROVE  /\ DiskSound(fat', data', root')
         /\ Files!Write(filename_to_native(raw), Text(filename_to_native(raw), size))
<1> DEFINE name == filename_to_native(raw)
           text == Text(name, size)
           s == FreeCluster(fat)
           e == FreeRootEntry
           v == [name |-> name, cluster |-> s, size |-> size]
<1>1. Shapes /\ \A c \in Cluster : IsSector(data[c])
  BY DEF DiskSound, Shapes
<1>2. /\ fat' = [c \in Cluster |-> fat'[c]] /\ data' = [c \in Cluster |-> data'[c]]
      /\ s \in Cluster /\ fat[s] = 0 /\ fat'[s] # 0
      /\ \A c \in Cluster : fat[c] # 0 => fat'[c] # 0 /\ data'[c] = data[c]
      /\ root' = [root EXCEPT ![e] = v]
      /\ size <= BytesPerSector => SubSeq(data'[s], 1, size) = text
  BY <1>1, WriteEffect
<1>3. /\ \A c \in Cluster : IsSector(data'[c])
      /\ size > BytesPerSector => \A i \in 1 .. BytesPerSector : data'[s][i] \in ToSet(text)
  BY <1>1, WriteBytes
<1>4. /\ e \in EntryNumber
      /\ e # 0 => e \in (EntryNumber \ {0}) \ Seen(root)
      /\ e = 0 => Seen(root) = EntryNumber \ {0}
  BY FreeEntrySeen
<1>5. name[1] # 0 /\ name \in Names
  BY NativeName DEF Names
<1>6. name \notin SeenNames(root)
  BY FileExists DEF WriteWhole, Accepted
<1>7. /\ NamesDiffer(root)
      /\ \A n \in Seen(root) : /\ root[n].name \in Names /\ root[n].size \in Nat
                               /\ root[n].cluster \in Cluster /\ fat[root[n].cluster] # 0
  BY DEF DiskSound
<1>8. /\ answer'.call = "write" /\ answer'.name = name /\ answer'.ok = TRUE
  BY DEF Reply
<1> HIDE DEF name, text, s, e
<1>9. InUse(v) /\ v.name = name /\ v.cluster = s /\ v.size = size
  BY <1>5 DEF InUse
<1> HIDE DEF v
<1>10. /\ root' = [n \in EntryNumber |-> root'[n]] /\ root'[e] = v
      /\ \A n \in EntryNumber : n # e => root'[n] = root[n]
  BY <1>1, <1>2, <1>4, NewEntry
<1>11. \A n \in Seen(root) : n \in EntryNumber \ {0} /\ n # e
  BY <1>4 DEF Seen
<1>12. \A n \in Seen(root) : root'[n] = root[n] /\ data'[root[n].cluster] = data[root[n].cluster]
  BY <1>2, <1>7, <1>10, <1>11
<1>13. StoredFiles = FilesIn(root, data) /\ ~Down /\ StoredFiles' = FilesIn(root', data') /\ ~Down'
  BY StoreNow, StoreThen DEF Running
<1>14. DOMAIN StoredFiles = SeenNames(root)
  BY <1>13 DEF FilesIn
<1>15. Files!Answers("write", name, TRUE)
  BY <1>8 DEF Files!Answers
<1>16. UNCHANGED Down
  BY DEF Down, Running
<1>17. CASE e # 0
  <2>1. Seen(root') = Seen(root) \cup {e} /\ e \notin Seen(root)
    BY <1>4, <1>10, <1>9, <1>17 DEF Seen
  <2> DEFINE r == root'
             d == data'
  <2>2. r[e].name = name /\ r[e].cluster = s /\ r[e].size = size
    BY <1>10, <1>9
  <2>3. /\ Seen(r) = Seen(root) \cup {e}
        /\ \A n \in Seen(root) : r[n] = root[n] /\ d[root[n].cluster] = data[root[n].cluster]
        /\ r[e].name \notin SeenNames(root) /\ e \notin Seen(root) /\ NamesDiffer(root)
    BY <1>6, <1>7, <1>12, <2>1, <2>2
  <2> HIDE DEF r, d
  <2>4. /\ NamesDiffer(r)
        /\ FilesIn(r, d) = WithFile(FilesIn(root, data), r[e].name, Bytes(d, r[e]))
    BY <2>3, OneMoreFile
  <2>5. DiskSound(fat', d, r)
    <3>1. \A n \in Seen(r) : /\ r[n].name \in Names /\ r[n].size \in Nat
                             /\ r[n].cluster \in Cluster /\ fat'[r[n].cluster] # 0
      BY <1>2, <1>5, <1>7, <2>2, <2>3
    <3> QED
      BY <1>2, <1>3, <1>10, <2>4, <3>1 DEF DiskSound, r, d
  <2>6. Bytes(d, r[e]) \in Files!Kept(text)
    <3>1. IsSector(d[s])
      BY <1>2, <1>3 DEF d
    <3>2. /\ size <= BytesPerSector => SubSeq(d[s], 1, size) = Text(name, size)
          /\ size > BytesPerSector => \A i \in 1 .. BytesPerSector : d[s][i] \in ToSet(Text(name, size))
      BY <1>2, <1>3 DEF d, text
    <3>3. SubSeq(d[s], 1, KeptBytes(r[e])) \in Files!Kept(Text(name, size))
      BY <2>2, <3>1, <3>2, KeptFile
    <3> QED
      BY <2>2, <3>3 DEF Bytes, text
  <2>7. Cardinality(DOMAIN StoredFiles) < RootEntries - 1
    <3>1. Seen(root) # EntryNumber \ {0}
      BY <1>4, <1>17
    <3> QED
      BY <1>7, <1>14, <3>1, FilesCount
  <2>8. StoredFiles' = WithFile(StoredFiles, name, Bytes(d, r[e]))
    BY <1>13, <1>14, <2>2, <2>4 DEF r, d
  <2>9. name \notin DOMAIN StoredFiles
    BY <1>6, <1>14
  <2>10. Files!Write(name, text)
    BY <1>13, <1>15, <1>16, <2>6, <2>7, <2>8, <2>9, SameCardinality DEF Files!Write, WithFile
  <2> QED
    BY <2>5, <2>10 DEF r, d, name, text
<1>18. CASE e = 0
  <2>1. Seen(root') = Seen(root)
    BY <1>10, <1>18 DEF Seen
  <2> DEFINE r == root'
             d == data'
  <2>2. /\ Seen(r) = Seen(root)
        /\ \A n \in Seen(root) : r[n] = root[n] /\ d[root[n].cluster] = data[root[n].cluster]
    BY <1>12, <2>1
  <2> HIDE DEF r, d
  <2>3. FilesIn(r, d) = FilesIn(root, data) /\ NamesDiffer(r)
    BY <1>7, <2>2, SameFiles
  <2>4. DiskSound(fat', d, r)
    <3>1. \A n \in Seen(r) : /\ r[n].name \in Names /\ r[n].size \in Nat
                             /\ r[n].cluster \in Cluster /\ fat'[r[n].cluster] # 0
      BY <1>2, <1>7, <2>2
    <3> QED
      BY <1>2, <1>3, <1>10, <2>3, <3>1 DEF DiskSound, r, d
  <2>5. Cardinality(DOMAIN StoredFiles) = RootEntries - 1
    BY <1>4, <1>7, <1>14, <1>18, FilesCount
  <2>6. UNCHANGED StoredFiles /\ name \notin DOMAIN StoredFiles
    BY <1>6, <1>13, <1>14, <2>3 DEF r, d
  <2>7. Files!Write(name, text)
    BY <1>13, <1>15, <1>16, <2>5, <2>6, SameCardinality DEF Files!Write
  <2> QED
    BY <2>4, <2>7 DEF r, d, name, text
<1> QED
  BY <1>17, <1>18

\* While the boot code works on the disk, FileStore sees nothing.
LEMMA StoreHidden ==
  ASSUME pc # "calls", pc' # "calls", UNCHANGED answer
  PROVE  UNCHANGED Files!vars
<1>1. StoredFiles = Files!Empty /\ StoredFiles' = Files!Empty
  BY DEF StoredFiles, Files!Empty
<1>2. Down' = Down
  BY DEF Down
<1> QED
  BY <1>1, <1>2 DEF Files!vars

\* A step that leaves the disk alone.
LEMMA DiskUntouched ==
  ASSUME CallsInv, pc = "calls", pc' = "calls", UNCHANGED <<root, data, fat, mounted, panicked>>
  PROVE  CallsInv' /\ UNCHANGED StoredFiles /\ UNCHANGED Down
<1>1. StoredFiles' = StoredFiles
  BY StoreNow, StoreThen
<1>2. Down' = Down
  BY DEF Down, Running
<1>3. DiskSound(fat', data', root') /\ (~mounted' => Seen(root') = {})
  BY DEF CallsInv
<1> QED
  BY <1>1, <1>2, <1>3 DEF CallsInv

\* ramdisk_fat16_init and ramdisk_fat16_destroy leave an empty store.
LEMMA ClearCalls ==
  ASSUME CallsInv, pc = "calls", pc' = "calls", ramdisk_fat16_init \/ ramdisk_fat16_destroy
  PROVE  CallsInv' /\ Files!Clear
<1>1. /\ Running /\ Running' /\ answer' = [call |-> "none"]
      /\ root' = [n \in EntryNumber |-> FreeEntry]
  BY DEF ramdisk_fat16_init, ramdisk_fat16_destroy, Running
<1>2. Seen(root') = {}
  BY <1>1, EmptyDirectory
<1>3. StoredFiles' = Files!Empty
  BY <1>2, StoreThen, NoFiles
<1>4. ~Down /\ Down' = Down
  BY <1>1 DEF Down
<1>5. Files!Clear
  BY <1>1, <1>3, <1>4 DEF Files!Clear
<1>6. DiskSound(fat', data', root')
  <2>1. CASE ramdisk_fat16_init
    <3>1. data' = [c \in Cluster |-> BlankSector] /\ fat' = [c \in Cluster |-> fat'[c]]
      BY <2>1 DEF ramdisk_fat16_init
    <3> QED
      BY <1>1, <3>1, BlankDisk
  <2>2. CASE ramdisk_fat16_destroy
    <3>1. fat' = fat /\ data' = data
      BY <2>2 DEF ramdisk_fat16_destroy
    <3>2. /\ fat' = [c \in Cluster |-> fat'[c]] /\ data' = [c \in Cluster |-> data'[c]]
          /\ \A c \in Cluster : IsSector(data'[c])
      BY <3>1 DEF CallsInv, DiskSound
    <3>3. root' = [n \in EntryNumber |-> root'[n]] /\ NamesDiffer(root')
      BY <1>1, <1>2, EmptyDirectory DEF NamesDiffer
    <3> QED
      BY <1>2, <3>2, <3>3 DEF DiskSound
  <2> QED
    BY <2>1, <2>2
<1> QED
  BY <1>2, <1>5, <1>6 DEF CallsInv

\* file_write, also of the starting file.
LEMMA WriteCalls ==
  ASSUME CallsInv, pc = "calls", pc' = "calls", Running, UNCHANGED panicked, mounted, mounted',
         NEW raw \in FileNames, NEW size \in FileSizes,
         \/ WriteWhole(raw, size) /\ Reply("write", raw, 0)
         \/ /\ ~Accepted(raw)
            /\ Reply("write", raw, IF file_exists(raw) # 0 THEN 4 ELSE 2)
            /\ UNCHANGED store
  PROVE  CallsInv' /\ Files!Next
<1> DEFINE name == filename_to_native(raw)
           text == Text(name, size)
<1>1. size \in Nat /\ DiskSound(fat, data, root)
  BY NamesAssumption DEF CallsInv
<1>2. name \in Names /\ text \in Texts
  BY DEF Names, Texts
<1>3. CASE WriteWhole(raw, size) /\ Reply("write", raw, 0)
  <2>1. DiskSound(fat', data', root') /\ Files!Write(name, text)
    BY <1>1, <1>3, WriteCall
  <2> HIDE DEF name, text
  <2>2. CallsInv'
    BY <2>1 DEF CallsInv
  <2> QED
    BY <1>2, <2>1, <2>2 DEF Files!Next
<1>4. CASE /\ Reply("write", raw, IF file_exists(raw) # 0 THEN 4 ELSE 2)
           /\ UNCHANGED store
  <2>1. answer'.call = "write" /\ answer'.name = name /\ answer'.ok = FALSE
    <3> DEFINE code == IF file_exists(raw) # 0 THEN 4 ELSE 2
    <3>1. (code = 0) = FALSE
      OBVIOUS
    <3>2. answer' = [call |-> "write", name |-> name, ok |-> code = 0]
      BY <1>4 DEF Reply
    <3> HIDE DEF code, name
    <3>3. answer' = [call |-> "write", name |-> name, ok |-> FALSE]
      BY <3>1, <3>2
    <3> QED
      BY <3>3
  <2>2. UNCHANGED <<root, data, fat, mounted, panicked>>
    BY <1>4 DEF store
  <2>3. CallsInv' /\ UNCHANGED StoredFiles /\ UNCHANGED Down
    BY <2>2, DiskUntouched
  <2>4. ~Down
    BY DEF Down
  <2> HIDE DEF name, text
  <2>5. Files!Write(name, text)
    BY <2>1, <2>3, <2>4 DEF Files!Write, Files!Answers
  <2> QED
    BY <1>2, <2>3, <2>5 DEF Files!Next
<1> QED
  BY <1>3, <1>4

\* A file_write that panics changes no file.
LEMMA PanicCalls ==
  ASSUME CallsInv, pc = "calls", pc' = "calls", mounted,
         NEW raw \in FileNames, NEW size \in FileSizes, file_write_panics(raw, size)
  PROVE  CallsInv' /\ Files!Next
<1>1. size \in Nat /\ DiskSound(fat, data, root)
  BY NamesAssumption DEF CallsInv
<1>2. Shapes /\ \A c \in Cluster : IsSector(data[c])
  BY <1>1 DEF DiskSound, Shapes
<1>3. /\ fat' = [c \in Cluster |-> fat'[c]] /\ data' = [c \in Cluster |-> data'[c]]
      /\ \A c \in Cluster : fat[c] # 0 => fat'[c] # 0 /\ data'[c] = data[c]
      /\ \A c \in Cluster : IsSector(data'[c])
  BY <1>1, <1>2, PanicBytes
<1>4. Running /\ panicked' = "partial write" /\ UNCHANGED <<mounted, root, answer>>
  BY DEF file_write_panics
<1>5. \A n \in Seen(root) : /\ root[n].name \in Names /\ root[n].size \in Nat
                            /\ root[n].cluster \in Cluster /\ fat[root[n].cluster] # 0
  BY <1>1 DEF DiskSound
<1>6. DiskSound(fat', data', root')
  <2>1. DiskSound(fat', data', root)
    BY <1>1, <1>3, <1>5 DEF DiskSound
  <2> QED
    BY <1>4, <2>1
<1>7. FilesIn(root, data') = FilesIn(root, data)
  <2> DEFINE d == data'
  <2>1. \A n \in Seen(root) : d[root[n].cluster] = data[root[n].cluster]
    BY <1>3, <1>5
  <2>2. NamesDiffer(root)
    BY <1>1 DEF DiskSound
  <2> HIDE DEF d
  <2>3. FilesIn(root, d) = FilesIn(root, data)
    BY <2>1, <2>2, SameFiles
  <2> QED
    BY <2>3 DEF d
<1>8. UNCHANGED StoredFiles
  BY <1>4, <1>7, StoreNow, StoreThen
<1>9. ~Down /\ Down' = TRUE
  BY <1>4 DEF Down, Running
<1>10. Files!Fail
  BY <1>4, <1>8, <1>9 DEF Files!Fail
<1> QED
  BY <1>4, <1>6, <1>10 DEF CallsInv, Files!Next

\* file_exists is right about every name, as long as memcmp tells names apart.
LEMMA ExistsIsRight ==
  ASSUME \A a, b \in Names : memcmp(a, b) = 0 => a = b, DiskSound(fat, data, root),
         NEW raw \in FileNames
  PROVE  /\ file_exists(raw) # 0 <=> filename_to_native(raw) \in SeenNames(root)
         /\ file_exists(raw) # 0 =>
              /\ file_exists(raw) \in Seen(root)
              /\ root[file_exists(raw)].name = filename_to_native(raw)
<1> DEFINE name == filename_to_native(raw)
           i == file_exists(raw)
<1>1. name \in Names
  BY DEF Names
<1>2. /\ name \in SeenNames(root) => i # 0
      /\ i # 0 => i \in Seen(root) /\ memcmp(name, root[i].name) = 0
  BY FileExists
<1>3. \A n \in Seen(root) : root[n].name \in Names /\ root[n].name \in SeenNames(root)
  BY DEF DiskSound, SeenNames
<1> HIDE DEF name, i
<1>4. i # 0 => i \in Seen(root) /\ root[i].name = name
  BY <1>1, <1>2, <1>3
<1> QED
  BY <1>2, <1>3, <1>4 DEF name, i

\* fs_file_exists.
LEMMA ExistsCalls ==
  ASSUME \A a, b \in Names : memcmp(a, b) = 0 => a = b,
         CallsInv, pc = "calls", pc' = "calls", NEW raw \in FileNames, fs_file_exists(raw)
  PROVE  CallsInv' /\ Files!Next
<1> DEFINE name == filename_to_native(raw)
           i == file_exists(raw)
           code == IF i # 0 THEN 0 ELSE 3
<1>1. /\ Running /\ UNCHANGED <<root, data, fat, mounted, panicked>>
      /\ answer' = [call |-> "exists", name |-> name, ok |-> code = 0]
  BY DEF fs_file_exists, store, Reply
<1>2. DiskSound(fat, data, root)
  BY DEF CallsInv
<1>3. i # 0 <=> name \in SeenNames(root)
  BY <1>2, ExistsIsRight
<1>4. CallsInv' /\ UNCHANGED StoredFiles /\ UNCHANGED Down
  BY <1>1, DiskUntouched
<1>5. DOMAIN StoredFiles = SeenNames(root) /\ ~Down
  BY <1>1, StoreNow DEF FilesIn
<1>6. name \in Names
  BY DEF Names
<1>7. (code = 0) = (name \in DOMAIN StoredFiles)
  BY <1>3, <1>5
<1> HIDE DEF name, i, code
<1>8. answer'.call = "exists" /\ answer'.name = name /\ answer'.ok = (name \in DOMAIN StoredFiles)
  BY <1>1, <1>7
<1>9. Files!Exists(name)
  BY <1>4, <1>5, <1>8 DEF Files!Exists, Files!Answers
<1> QED
  BY <1>4, <1>6, <1>9 DEF Files!Next

\* The first bytes of a sector are a prefix of it.
LEMMA StartOfSector ==
  ASSUME NEW b, IsSector(b), NEW k \in Nat, k <= BytesPerSector
  PROVE  Files!IsPrefix(SubSeq(b, 1, k), b)
<1> DEFINE T == {b[i] : i \in 1 .. BytesPerSector}
           u == SubSeq(b, 1, k)
<1>1. BytesPerSector \in Nat
  BY DiskFacts
<1>2. b \in [1 .. BytesPerSector -> T]
  BY DEF IsSector
<1> HIDE DEF T
<1>3. b \in Seq(T) /\ Len(b) = BytesPerSector
  BY <1>1, <1>2
<1>4. \A i \in 1 .. k : b[i] \in T
  <2>1. \A i \in 1 .. k : i \in 1 .. BytesPerSector
    BY <1>1
  <2> QED
    BY <1>2, <2>1
<1>5. u \in Seq(T) /\ Len(u) = IF 1 <= k THEN k - 1 + 1 ELSE 0
  <2>1. 1 \in Int /\ k \in Int
    OBVIOUS
  <2> QED
    BY <1>4, <2>1, SubSeqProperties
<1> HIDE DEF u
<1>6. Len(u) = k
  BY <1>5
<1>7. SubSeq(u, 1, k) = u
  BY <1>5, <1>6, SubSeqFull
<1> QED
  BY <1>3, <1>6, <1>7 DEF Files!IsPrefix, u

\* ramdisk_fat16_file_read.
LEMMA ReadCalls ==
  ASSUME \A a, b \in Names : memcmp(a, b) = 0 => a = b,
         CallsInv, pc = "calls", pc' = "calls", NEW raw \in FileNames, NEW index \in {0, 1},
         ramdisk_fat16_file_read(raw, index)
  PROVE  CallsInv' /\ Files!Next
<1> DEFINE name == filename_to_native(raw)
           i == file_exists(raw)
           ok == i # 0 /\ index = 0
           buffer == IF i = 0 THEN BlankSector ELSE data[root[i].cluster]
<1>1. /\ Running /\ UNCHANGED <<root, data, fat, mounted, panicked>>
      /\ answer' = [call |-> IF index = 0 THEN "read" ELSE "read_rest", name |-> name,
                    ok |-> ok, buffer |-> buffer]
  BY DEF ramdisk_fat16_file_read, store
<1>2. DiskSound(fat, data, root)
  BY DEF CallsInv
<1>3. /\ i # 0 <=> name \in SeenNames(root)
      /\ i # 0 => i \in Seen(root) /\ root[i].name = name
  BY <1>2, ExistsIsRight
<1>4. CallsInv' /\ UNCHANGED StoredFiles /\ UNCHANGED Down
  BY <1>1, DiskUntouched
<1>5. StoredFiles = FilesIn(root, data) /\ DOMAIN StoredFiles = SeenNames(root) /\ ~Down
  BY <1>1, StoreNow DEF FilesIn
<1>6. name \in Names
  BY DEF Names
<1> HIDE DEF name
<1>7. CASE index = 1
  <2>1. ok = FALSE /\ (IF index = 0 THEN "read" ELSE "read_rest") = "read_rest"
    BY <1>7
  <2> HIDE DEF ok, buffer, i
  <2>2. answer'.call = "read_rest" /\ answer'.name = name /\ answer'.ok = FALSE
    BY <1>1, <2>1
  <2>3. Files!ReadRest(name)
    BY <1>4, <1>5, <2>2 DEF Files!ReadRest, Files!Answers
  <2> QED
    BY <1>4, <1>6, <2>3 DEF Files!Next
<1>8. CASE index = 0 /\ i = 0
  <2>1. ok = FALSE /\ (IF index = 0 THEN "read" ELSE "read_rest") = "read"
    BY <1>8
  <2> HIDE DEF ok, buffer, i
  <2>2. answer'.call = "read" /\ answer'.name = name /\ answer'.ok = FALSE
    BY <1>1, <2>1
  <2>3. name \notin DOMAIN StoredFiles
    BY <1>3, <1>5, <1>8
  <2>4. Files!Read(name)
    BY <1>4, <1>5, <2>2, <2>3 DEF Files!Read, Files!Answers
  <2> QED
    BY <1>4, <1>6, <2>4 DEF Files!Next
<1>9. CASE index = 0 /\ i # 0
  <2> DEFINE b == data[root[i].cluster]
             k == KeptBytes(root[i])
  <2>1. ok = TRUE /\ buffer = b /\ (IF index = 0 THEN "read" ELSE "read_rest") = "read"
    BY <1>9
  <2>2. answer'.call = "read" /\ answer'.name = name /\ answer'.ok = TRUE /\ answer'.buffer = b
    <3> HIDE DEF ok, buffer, i, b
    <3> QED
      BY <1>1, <2>1
  <2>3. i \in Seen(root) /\ root[i].name = name /\ name \in DOMAIN StoredFiles
    BY <1>3, <1>5, <1>9
  <2>4. IsSector(b) /\ root[i].size \in Nat /\ NamesDiffer(root)
    BY <1>2, <2>3 DEF DiskSound
  <2>5. k \in Nat /\ k <= BytesPerSector
    BY <2>4, DiskFacts DEF KeptBytes
  <2>6. StoredFiles[name] = SubSeq(b, 1, k)
    <3>1. Found(root, root[i].name) = root[i] /\ root[i].name \in SeenNames(root)
      BY <2>3, <2>4, FoundByName
    <3> HIDE DEF i
    <3> QED
      BY <1>5, <2>3, <3>1 DEF FilesIn, Bytes
  <2> HIDE DEF b, k, i, ok, buffer
  <2>7. Files!IsPrefix(StoredFiles[name], answer'.buffer)
    BY <2>2, <2>4, <2>5, <2>6, StartOfSector
  <2>8. Files!Read(name)
    BY <1>4, <1>5, <2>2, <2>3, <2>7 DEF Files!Read, Files!Answers
  <2> QED
    BY <1>4, <1>6, <2>8 DEF Files!Next
<1> QED
  BY <1>7, <1>8, <1>9

\* Every call, one after another.
LEMMA NextCalls ==
  ASSUME \A a, b \in Names : memcmp(a, b) = 0 => a = b, 1 \in FileSizes,
         CallsInv, OneCall
  PROVE  CallsInv' /\ [Files!Next]_(Files!vars)
<1>1. pc = "calls" /\ pc' = "calls" /\ Next
  BY DEF OneCall, local
<1>2. CASE ramdisk_fat16_init \/ ramdisk_fat16_destroy
  BY <1>1, <1>2, ClearCalls DEF Files!Next
<1>3. CASE fs_load_starting_files
  <2>1. /\ Running /\ UNCHANGED panicked /\ mounted /\ mounted'
        /\ WriteWhole(StartFile, 1) /\ Reply("write", StartFile, 0)
    BY <1>3 DEF fs_load_starting_files
  <2>2. StartFile \in FileNames
    BY NamesAssumption
  <2> QED
    BY <1>1, <2>1, <2>2, WriteCalls
<1>4. ASSUME NEW raw \in FileNames, NEW size \in FileSizes,
             mounted, ramdisk_fat16_file_write(raw, size)
      PROVE  CallsInv' /\ Files!Next
  <2>1. /\ Running /\ UNCHANGED panicked /\ mounted /\ mounted'
        /\ \/ WriteWhole(raw, size) /\ Reply("write", raw, 0)
           \/ /\ ~Accepted(raw)
              /\ Reply("write", raw, IF file_exists(raw) # 0 THEN 4 ELSE 2)
              /\ UNCHANGED store
    BY <1>4 DEF ramdisk_fat16_file_write
  <2> QED
    BY <1>1, <2>1, WriteCalls
<1>5. ASSUME NEW raw \in FileNames, NEW size \in FileSizes,
             mounted, file_write_panics(raw, size)
      PROVE  CallsInv' /\ Files!Next
  BY <1>1, <1>5, PanicCalls
<1>6. ASSUME NEW raw \in FileNames, fs_file_exists(raw)
      PROVE  CallsInv' /\ Files!Next
  BY <1>1, <1>6, ExistsCalls
<1>7. ASSUME NEW raw \in FileNames, NEW index \in {0, 1}, ramdisk_fat16_file_read(raw, index)
      PROVE  CallsInv' /\ Files!Next
  BY <1>1, <1>7, ReadCalls
<1>8. CASE Halted
  <2>1. UNCHANGED <<root, data, fat, mounted, panicked, answer>>
    BY <1>8 DEF Halted, vars, store
  <2> QED
    BY <1>1, <2>1, DiskUntouched DEF Files!vars
<1> QED
  BY <1>1, <1>2, <1>3, <1>4, <1>5, <1>6, <1>7, <1>8 DEF Next

\* Every step: a call, or what FileStore does not see.
LEMMA NextFiles ==
  ASSUME \A a, b \in Names : memcmp(a, b) = 0 => a = b, 1 \in FileSizes,
         CallsInv, [IrqNext]_allvars
  PROVE  CallsInv' /\ [Files!Next]_(Files!vars)
<1>1. ASSUME pc # "calls", pc' # "calls", UNCHANGED answer
      PROVE  CallsInv' /\ UNCHANGED Files!vars
  BY <1>1, StoreHidden DEF CallsInv
<1>2. CASE UNCHANGED allvars
  <2>1. UNCHANGED <<pc, root, data, fat, mounted, panicked, answer>>
    BY <1>2 DEF allvars, vars, store, local
  <2>2. CASE pc = "calls"
    BY <2>1, <2>2, DiskUntouched DEF Files!vars
  <2>3. CASE pc # "calls"
    BY <1>1, <2>1, <2>3
  <2> QED
    BY <2>2, <2>3
<1>3. CASE OneCall
  BY <1>3, NextCalls
<1>4. CASE ramdisk_fat16_mount
  <2>1. pc = "calls" /\ pc' = "format" /\ ~mounted /\ Running /\ UNCHANGED answer
    BY <1>4 DEF ramdisk_fat16_mount
  <2>2. StoredFiles = Files!Empty
    BY <2>1, StoreNow, NoFiles DEF CallsInv
  <2>3. StoredFiles' = Files!Empty
    BY <2>1 DEF StoredFiles, Files!Empty
  <2>4. Down' = Down
    BY <2>1 DEF Down
  <2> QED
    BY <2>1, <2>2, <2>3, <2>4 DEF CallsInv, Files!vars
<1>5. CASE BootStep
  <2>1. pc # "calls" /\ pc' # "calls" /\ UNCHANGED answer
    <3>1. CASE ramdisk_fat16_format
      <4>1. pc = "format" /\ UNCHANGED answer
            /\ pc' = IF next = Len(FormatWrites) THEN "exists" ELSE "format"
        BY <3>1 DEF ramdisk_fat16_format
      <4> QED
        BY <4>1
    <3>2. CASE check_exists \/ find_cluster \/ write_data
      BY <3>2 DEF check_exists, find_cluster, write_data, Goto, vars
    <3>3. CASE write_end_mark \/ find_root_entry \/ write_entry
      BY <3>3 DEF write_end_mark, find_root_entry, write_entry, Goto, vars
    <3> QED
      BY <1>5, <3>1, <3>2, <3>3 DEF BootStep
  <2> QED
    BY <1>1, <2>1
<1>6. ASSUME NEW raw \in HandlerNames, NEW size \in HandlerSizes,
             handler_writes(raw, size) \/ handler_panics(raw, size)
      PROVE  CallsInv' /\ UNCHANGED Files!vars
  BY <1>1, <1>6 DEF handler_writes, handler_panics, local
<1>7. CASE Quiet
  BY <1>1, <1>7 DEF Quiet, allvars, vars, local
<1> QED
  BY <1>2, <1>3, <1>4, <1>5, <1>6, <1>7 DEF IrqNext

\* For every disk, every set of names that memcmp tells apart and every size of
\* files, one call after another the file system implements FileStore: a file
\* whose write succeeded is there from then on, under its name and no other,
\* and reading it returns what was written (file_exists, file_read and
\* file_write, ramdisk_fat16.c:301-481).  Of the boot code's own steps it sees
\* nothing.  The starting file has size 1 in the model.
THEOREM Fat16ImplementsFileStore ==
  ASSUME \A a, b \in Names : memcmp(a, b) = 0 => a = b, 1 \in FileSizes
  PROVE  IrqSpec => ImplementsFileStore
<1>1. IrqInit => CallsInv /\ Files!Init
  BY InitCalls
<1>2. CallsInv /\ [IrqNext]_allvars => CallsInv' /\ [Files!Next]_(Files!vars)
  BY NextFiles
<1> QED
  BY <1>1, <1>2, PTL DEF IrqSpec, ImplementsFileStore, Files!Spec
=============================================================================
