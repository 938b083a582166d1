---------------------------- MODULE MallocProofs ----------------------------
(***************************************************************************)
(* CountsAgree, LiveBlocksAreEntries and GivesUpOnlyWhenFull of Malloc,    *)
(* for every page size, number of slabs and limit of entries and pages.    *)
(*                                                                         *)
(* The invariant is SlabOK of every slab, which says where the addresses   *)
(* of its entries come from: a page lies behind the multiple of PageSize   *)
(* it begins at, no page is in two slabs, and so no address is.            *)
(***************************************************************************)
EXTENDS Malloc, FiniteSetTheorems, SequenceTheorems, NaturalsInduction,
        WellFoundedInduction, TLAPS

Entry == [addr : Int, free : BOOLEAN]
SlabType == [entries : Seq(Entry), free_entries : Nat, current_entry : Nat,
             pages : Seq(Page)]

FreeSet(x) == {i \in DOMAIN x.entries : x.entries[i].free}

\* Page p has the byte before this address.
Behind(p, addr) == p < addr /\ addr <= p + PageSize

\* Addresses come from pages, each from one place.
Addresses(x) ==
  /\ \A i \in DOMAIN x.entries : \E p \in PagesOf(x) : Behind(p, x.entries[i].addr)
  /\ \A i, j \in DOMAIN x.entries : x.entries[i].addr = x.entries[j].addr => i = j

\* Counters and limits.
Counters(x) ==
  /\ x.free_entries = Cardinality(FreeSet(x))
  /\ Len(x.entries) <= EntryCount /\ Len(x.pages) <= MaxPageCount
  /\ x.current_entry < Len(x.entries) \/ x.current_entry = 0

SlabOK(x) == x \in SlabType /\ Counters(x) /\ Addresses(x)

\* No page is in two slabs.
OwnPages == \A s, t \in Slab : s # t => PagesOf(slabs[s]) \cap PagesOf(slabs[t]) = {}

Block == [addr : Int, slab : Slab]

\* Entry i of slab x, as a block of slab s.
BlockOf(x, i, s) == [addr |-> x.entries[i].addr, slab |-> s]

\* Blocks in use and entries that are not free are the same.
LiveInv ==
  /\ live \subseteq Block
  /\ \A b \in live : \E i \in DOMAIN slabs[b.slab].entries :
       slabs[b.slab].entries[i].addr = b.addr /\ ~slabs[b.slab].entries[i].free
  /\ \A s \in Slab : \A i \in DOMAIN slabs[s].entries :
       ~slabs[s].entries[i].free => BlockOf(slabs[s], i, s) \in live

\* The inductive invariant.
MallocInv ==
  /\ DOMAIN slabs = Slab
  /\ \A s \in Slab : SlabOK(slabs[s])
  /\ OwnPages
  /\ LiveInv
  /\ panicked # "search failed"
  /\ GivesUpOnlyWhenFull
-----------------------------------------------------------------------------
(* Numbers. *)

\* A set of naturals has a least element.
LEMMA LeastElement ==
  ASSUME NEW S, S \subseteq Nat, S # {}
  PROVE  \E n \in S : \A m \in S : n <= m
<1>1. PICK n \in S : \A m \in S : ~(<<m, n>> \in OpToRel(<, Nat))
  BY WFMin, NatLessThanWellFounded
<1>2. \A m \in S : ~(m < n)
  BY <1>1 DEF OpToRel
<1> QED
  BY <1>2

\* A bounded set of naturals has a greatest element.
LEMMA GreatestElement ==
  ASSUME NEW n \in Nat, NEW S, S \subseteq 0 .. n, S # {}
  PROVE  Max(S) \in S
<1> DEFINE T == {k \in Nat : n - k \in S}
<1>1. T \subseteq Nat
  OBVIOUS
<1>2. T # {}
  <2>1. PICK s \in S : s \in 0 .. n
    OBVIOUS
  <2>2. n - s \in Nat /\ n - (n - s) = s
    BY <2>1
  <2>3. n - s \in T
    BY <2>2
  <2> QED
    BY <2>3
<1>3. PICK m \in T : \A k \in T : m <= k
  <2> HIDE DEF T
  <2> QED
    BY <1>1, <1>2, LeastElement
<1>4. n - m \in S
  BY <1>3
<1>5. \A t \in S : n - m >= t
  <2> TAKE t \in S
  <2>1. t \in 0 .. n
    OBVIOUS
  <2>2. n - t \in Nat /\ n - (n - t) = t
    BY <2>1
  <2>3. m <= n - t /\ m \in Nat
    BY <1>3, <2>2
  <2> QED
    BY <2>1, <2>3
<1> QED
  BY <1>4, <1>5 DEF Max

\* Of a set of one number.
LEMMA OneElement ==
  ASSUME NEW n \in Int PROVE Min({n}) = n /\ Max({n}) = n
  BY DEF Min, Max

\* Of a set of two.
LEMMA SmallerOfTwo ==
  ASSUME NEW a \in Int, NEW b \in Int
  PROVE  /\ Min({a, b}) \in {a, b} /\ Min({a, b}) <= a /\ Min({a, b}) <= b
  BY DEF Min

\* Remainders of numbers less than twice the divisor.
LEMMA Wrap ==
  ASSUME NEW n \in Nat, NEW a \in Nat, a < n
  PROVE  a % n = a /\ (a + n) % n = a
  OBVIOUS

\* A multiple of the size of a block that fits into a page.
LEMMA InsidePage ==
  ASSUME NEW z \in Nat \ {0}, NEW P \in Nat, NEW i \in Nat, i >= 1, i <= P \div z
  PROVE  i * z >= 1 /\ i * z <= P
<1> DEFINE q == P \div z
<1>1. q \in Nat /\ z * q <= P
  OBVIOUS
<1> HIDE DEF q
<1>2. i <= q
  BY DEF q
<1>3. z * i <= z * q
  BY <1>1, <1>2
<1>4. z * i \in Nat /\ z * q \in Nat /\ z * i >= z * 1 /\ z * i = i * z
  BY <1>1
<1> QED
  BY <1>1, <1>3, <1>4

\* Blocks have a size.
LEMMA BlockSizes ==
  /\ \A s \in Slab : SlabSize(s) \in Nat \ {0} /\ SlabSize(s) <= PageSize
  /\ 0 \in Slab /\ SlabSize(0) = PageSize
  /\ PageSize \in Nat \ {0} /\ EntryCount \in Nat \ {0} /\ MaxPageCount \in Nat \ {0}
  /\ SlabCount \in Nat \ {0}
<1>1. \A s \in Slab : SlabSize(s) \in Nat \ {0} /\ SlabSize(s) <= PageSize
  BY SizesAssumption DEF Slab, SlabSize
<1>2. PageSize \div 2 ^ 0 = PageSize
  BY SizesAssumption
<1> QED
  BY <1>1, <1>2, SizesAssumption DEF Slab, SlabSize

\* A request that is not too large has a slab.
LEMMA SlabForIsSlab ==
  ASSUME NEW size \in Nat, size <= PageSize PROVE SlabFor(size) \in Slab
<1> DEFINE S == {s \in Slab : size <= SlabSize(s)}
<1>1. 0 \in S
  BY BlockSizes
<1>2. S \subseteq 0 .. SlabCount - 1 /\ SlabCount - 1 \in Nat
  BY BlockSizes DEF Slab
<1>3. Max(S) \in S
  BY <1>1, <1>2, GreatestElement
<1> QED
  BY <1>3 DEF SlabFor

\* An address is behind one page only.
LEMMA OnePageBehind ==
  ASSUME NEW p \in Page, NEW q \in Page, NEW a \in Int, Behind(p, a), Behind(q, a)
  PROVE  p = q
<1> DEFINE P == PageSize
<1>1. P \in Nat /\ P > 0
  BY BlockSizes
<1>2. PICK m \in 0 .. NumPages - 1 : p = m * P
  BY DEF Page
<1>3. PICK n \in 0 .. NumPages - 1 : q = n * P
  BY DEF Page
<1>4. m \in Nat /\ n \in Nat
  BY SizesAssumption
<1>5. ASSUME NEW k \in Nat, NEW l \in Nat, k < l PROVE k * P + P <= l * P
  <2>1. (k + 1) * P <= l * P
    BY <1>1, <1>5
  <2> QED
    BY <1>1, <2>1
<1>6. p \in Nat /\ q \in Nat
  BY <1>1, <1>2, <1>3, <1>4
<1>7. ~(m < n)
  <2>1. SUFFICES ASSUME m < n PROVE FALSE
    OBVIOUS
  <2>2. p + P <= q
    BY <1>2, <1>3, <1>4, <1>5, <2>1
  <2> QED
    BY <1>1, <1>6, <2>2 DEF Behind
<1>8. ~(n < m)
  <2>1. SUFFICES ASSUME n < m PROVE FALSE
    OBVIOUS
  <2>2. q + P <= p
    BY <1>2, <1>3, <1>4, <1>5, <2>1
  <2> QED
    BY <1>1, <1>6, <2>2 DEF Behind
<1>9. m = n
  BY <1>4, <1>7, <1>8
<1> QED
  BY <1>2, <1>3, <1>9
-----------------------------------------------------------------------------
(* Slabs. *)

\* The fields of a slab.
LEMMA SlabFields ==
  ASSUME NEW x, SlabOK(x)
  PROVE  /\ x.entries \in Seq(Entry) /\ Len(x.entries) \in Nat
         /\ DOMAIN x.entries = 1 .. Len(x.entries)
         /\ \A i \in 1 .. Len(x.entries) :
              x.entries[i].addr \in Int /\ x.entries[i].free \in BOOLEAN
         /\ x.free_entries \in Nat /\ x.current_entry \in Nat
         /\ x.pages \in Seq(Page) /\ Len(x.pages) \in Nat
         /\ PagesOf(x) \subseteq Page
         /\ IsFiniteSet(FreeSet(x))
<1>1. x \in SlabType
  BY DEF SlabOK
<1>2. /\ x.entries \in Seq(Entry) /\ x.pages \in Seq(Page)
      /\ x.free_entries \in Nat /\ x.current_entry \in Nat
  BY <1>1 DEF SlabType
<1>3. /\ Len(x.entries) \in Nat /\ DOMAIN x.entries = 1 .. Len(x.entries)
      /\ Len(x.pages) \in Nat /\ DOMAIN x.pages = 1 .. Len(x.pages)
  BY <1>2, LenProperties
<1>4. \A i \in 1 .. Len(x.entries) : x.entries[i] \in Entry
  BY <1>2, ElementOfSeq
<1>5. \A i \in 1 .. Len(x.pages) : x.pages[i] \in Page
  BY <1>2, ElementOfSeq
<1>6. IsFiniteSet(1 .. Len(x.entries))
  BY <1>3, FS_Interval
<1>7. IsFiniteSet(FreeSet(x))
  BY <1>3, <1>6, FS_Subset DEF FreeSet
<1>8. \A i \in 1 .. Len(x.entries) :
        x.entries[i].addr \in Int /\ x.entries[i].free \in BOOLEAN
  BY <1>4 DEF Entry
<1>9. PagesOf(x) \subseteq Page
  BY <1>3, <1>5 DEF PagesOf
<1> QED
  BY <1>2, <1>3, <1>7, <1>8, <1>9

\* Number of the entries a new page adds.
LEMMA AdditionalEntries ==
  ASSUME NEW s \in Slab, SlabOK(slabs[s])
  PROVE  /\ Additional(s) \in Int
         /\ Additional(s) <= PageSize \div SlabSize(s)
         /\ Additional(s) <= EntryCount - Len(slabs[s].entries)
         /\ Additional(s) <= 0 => Len(slabs[s].entries) = EntryCount
<1> DEFINE L == Len(slabs[s].entries)
           q == PageSize \div SlabSize(s)
<1>1. L \in Nat /\ L <= EntryCount /\ EntryCount \in Nat
  BY SlabFields, BlockSizes DEF SlabOK, Counters
<1>2. q \in Nat /\ q >= 1
  <2> DEFINE z == SlabSize(s)
             P == PageSize
  <2>1. z \in Nat /\ z > 0 /\ P \in Nat /\ z <= P
    BY BlockSizes
  <2> HIDE DEF z, P
  <2>2. P \div z \in Nat /\ P \div z >= 1
    BY <2>1
  <2> QED
    BY <2>2 DEF z, P
<1>3. Additional(s) = Min({q, EntryCount - L})
  BY DEF Additional
<1> HIDE DEF L, q
<1>4. EntryCount - L \in Int /\ q \in Int
  BY <1>1, <1>2
<1>5. /\ Additional(s) \in {q, EntryCount - L}
      /\ Additional(s) <= q /\ Additional(s) <= EntryCount - L
  BY <1>3, <1>4, SmallerOfTwo
<1> QED
  BY <1>1, <1>2, <1>4, <1>5 DEF L, q

\* The slab alloc_new_page_if_needed leaves, with a page p that it took.
LEMMA GrownIsOK ==
  ASSUME NEW s \in Slab, SlabOK(slabs[s]), NeedsPage(s),
         NEW p \in Page, p \notin PagesOf(slabs[s])
  PROVE  /\ SlabOK(Grown(s, p))
         /\ Grown(s, p).free_entries > 0
         /\ PagesOf(Grown(s, p)) = PagesOf(slabs[s]) \cup {p}
         /\ \A i \in DOMAIN slabs[s].entries :
              /\ i \in DOMAIN Grown(s, p).entries
              /\ Grown(s, p).entries[i] = slabs[s].entries[i]
         /\ \A i \in DOMAIN Grown(s, p).entries \ DOMAIN slabs[s].entries :
              Grown(s, p).entries[i].free
<1> DEFINE x == slabs[s]
           L == Len(x.entries)
           n == Additional(s)
           z == SlabSize(s)
           new == [i \in 1 .. n |-> [addr |-> p + i * z, free |-> TRUE]]
           y == Grown(s, p)
<1>1. /\ x.entries \in Seq(Entry) /\ L \in Nat /\ DOMAIN x.entries = 1 .. L
      /\ \A i \in 1 .. L : x.entries[i].addr \in Int /\ x.entries[i].free \in BOOLEAN
      /\ x.current_entry \in Nat /\ x.pages \in Seq(Page) /\ Len(x.pages) \in Nat
      /\ PagesOf(x) \subseteq Page /\ x \in SlabType
  BY SlabFields DEF SlabOK
<1>2. /\ n \in Nat /\ n > 0 /\ L + n <= EntryCount /\ n <= PageSize \div z
  BY <1>1, AdditionalEntries, BlockSizes DEF NeedsPage
<1>3. z \in Nat \ {0} /\ PageSize \in Nat /\ p \in Int
  BY BlockSizes, SizesAssumption DEF Page
<1>4. /\ y.entries = x.entries \o new
      /\ y.free_entries = x.free_entries + n
      /\ y.pages = Append(x.pages, p)
      /\ y.current_entry = x.current_entry
      /\ y \in [entries : {x.entries \o new}, free_entries : {x.free_entries + n},
                current_entry : {x.current_entry}, pages : {Append(x.pages, p)}]
  BY <1>1 DEF Grown, SlabType
<1> HIDE DEF y, x, L, n, z
<1>5. \A i \in 1 .. n : Behind(p, p + i * z) /\ p + i * z \in Int
  <2> TAKE i \in 1 .. n
  <2>1. i \in Nat /\ i >= 1 /\ i <= PageSize \div z
    <3>1. i \in Nat /\ i >= 1 /\ i <= n
      BY <1>2
    <3>2. PageSize \div z \in Int
      BY <1>3
    <3> QED
      BY <1>2, <3>1, <3>2
  <2>2. i * z >= 1 /\ i * z <= PageSize
    BY <1>3, <2>1, InsidePage
  <2>3. i * z \in Int
    BY <1>3, <2>1
  <2> QED
    BY <1>3, <2>2, <2>3 DEF Behind
<1>6. new \in Seq(Entry) /\ Len(new) = n
  <2>1. new \in [1 .. n -> Entry]
    BY <1>5 DEF Entry
  <2>2. new \in Seq(Entry)
    BY <1>2, <2>1, SeqDef
  <2>3. DOMAIN new = 1 .. Len(new) /\ Len(new) \in Nat /\ DOMAIN new = 1 .. n
    BY <2>2, LenProperties
  <2> QED
    BY <1>2, <2>2, <2>3
<1> HIDE DEF new
<1>7. /\ y.entries \in Seq(Entry) /\ Len(y.entries) = L + n
      /\ DOMAIN y.entries = 1 .. L + n
      /\ \A i \in 1 .. L : y.entries[i] = x.entries[i]
      /\ \A i \in L + 1 .. L + n : y.entries[i] = new[i - L]
  <2>1. /\ y.entries \in Seq(Entry) /\ Len(y.entries) = L + n
        /\ \A i \in 1 .. L + n :
             y.entries[i] = IF i <= L THEN x.entries[i] ELSE new[i - L]
    <3> DEFINE old == x.entries
    <3>1. old \in Seq(Entry) /\ Len(old) = L /\ y.entries = old \o new
      BY <1>1, <1>4 DEF L
    <3> HIDE DEF old
    <3>2. /\ old \o new \in Seq(Entry)
          /\ Len(old \o new) = L + n
          /\ \A i \in 1 .. L + n :
               (old \o new)[i] = IF i <= L THEN old[i] ELSE new[i - L]
      BY <1>6, <3>1, ConcatProperties
    <3> QED
      BY <3>1, <3>2 DEF old
  <2>2. DOMAIN y.entries = 1 .. L + n
    BY <2>1, LenProperties
  <2> QED
    BY <1>1, <1>2, <2>1, <2>2
<1>8. \A i \in L + 1 .. L + n :
        /\ i - L \in 1 .. n
        /\ y.entries[i].addr = p + (i - L) * z /\ y.entries[i].free
        /\ Behind(p, y.entries[i].addr) /\ y.entries[i].addr \in Int
  <2> TAKE i \in L + 1 .. L + n
  <2>1. i - L \in 1 .. n
    BY <1>1, <1>2
  <2>2. new[i - L] = [addr |-> p + (i - L) * z, free |-> TRUE]
    BY <2>1 DEF new
  <2>3. y.entries[i] = new[i - L]
    BY <1>7
  <2> QED
    BY <1>5, <2>1, <2>2, <2>3
<1>9. /\ y.pages \in Seq(Page) /\ Len(y.pages) = Len(x.pages) + 1
      /\ PagesOf(y) = PagesOf(x) \cup {p}
  <2>1. /\ y.pages \in Seq(Page) /\ Len(y.pages) = Len(x.pages) + 1
        /\ \A i \in 1 .. Len(x.pages) : y.pages[i] = x.pages[i]
        /\ y.pages[Len(x.pages) + 1] = p
    BY <1>1, <1>4, AppendProperties
  <2>2. DOMAIN y.pages = 1 .. Len(x.pages) + 1 /\ DOMAIN x.pages = 1 .. Len(x.pages)
    BY <1>1, <2>1, LenProperties
  <2>3. DOMAIN y.pages = DOMAIN x.pages \cup {Len(x.pages) + 1}
    BY <1>1, <2>2
  <2>4. PagesOf(y) = PagesOf(x) \cup {p}
    BY <2>1, <2>2, <2>3 DEF PagesOf
  <2> QED
    BY <2>1, <2>4
<1>10. x.free_entries = 0 /\ FreeSet(x) = {}
  <2>1. x.free_entries = 0 /\ x.free_entries = Cardinality(FreeSet(x))
    BY DEF NeedsPage, SlabOK, Counters, x
  <2>2. IsFiniteSet(FreeSet(x))
    BY SlabFields DEF x
  <2> QED
    BY <2>1, <2>2, FS_EmptySet
<1>11. Counters(y)
  <2>1. FreeSet(y) = L + 1 .. L + n
    <3>1. \A i \in 1 .. L : ~y.entries[i].free
      BY <1>1, <1>7, <1>10 DEF FreeSet
    <3>2. \A i \in 1 .. L + n : i \in 1 .. L \/ i \in L + 1 .. L + n
      BY <1>1, <1>2
    <3>3. L + 1 .. L + n \subseteq 1 .. L + n
      BY <1>1, <1>2
    <3> QED
      BY <1>7, <1>8, <3>1, <3>2, <3>3 DEF FreeSet
  <2>2. Cardinality(FreeSet(y)) = n
    <3>1. L + 1 \in Int /\ L + n \in Int /\ ~(L + 1 > L + n)
          /\ (L + n) - (L + 1) + 1 = n
      BY <1>1, <1>2
    <3> QED
      BY <2>1, <3>1, FS_Interval
  <2>3. y.free_entries = n
    BY <1>2, <1>4, <1>10
  <2>4. Len(y.pages) <= MaxPageCount
    BY <1>1, <1>9, BlockSizes DEF NeedsPage, SlabOK, Counters, x
  <2>5. y.current_entry < Len(y.entries) \/ y.current_entry = 0
    <3>1. x.current_entry < L \/ x.current_entry = 0
      BY DEF SlabOK, Counters, x, L
    <3> QED
      BY <1>1, <1>2, <1>4, <1>7, <3>1
  <2> QED
    BY <1>2, <1>7, <2>2, <2>3, <2>4, <2>5 DEF Counters
<1>12. Addresses(y)
  <2>1. \A i \in 1 .. L : \E q \in PagesOf(x) : Behind(q, y.entries[i].addr)
    BY <1>1, <1>7 DEF SlabOK, Addresses, x
  <2>2. \A i \in 1 .. L + n : i \in 1 .. L \/ i \in L + 1 .. L + n
    BY <1>1, <1>2
  <2>3. \A i \in DOMAIN y.entries : \E q \in PagesOf(y) : Behind(q, y.entries[i].addr)
    BY <1>7, <1>8, <1>9, <2>1, <2>2
  <2>4. ASSUME NEW i \in 1 .. L, NEW j \in L + 1 .. L + n
        PROVE  y.entries[i].addr # y.entries[j].addr
    <3>1. PICK q \in PagesOf(x) : Behind(q, y.entries[i].addr)
      BY <2>1
    <3>2. q \in Page /\ q # p
      BY <1>1 DEF x
    <3> QED
      BY <1>8, <3>1, <3>2, OnePageBehind
  <2>5. ASSUME NEW i \in L + 1 .. L + n, NEW j \in L + 1 .. L + n,
               y.entries[i].addr = y.entries[j].addr
        PROVE  i = j
    <3>1. p + (i - L) * z = p + (j - L) * z
      BY <1>8, <2>5
    <3>2. i \in Int /\ j \in Int /\ L \in Int /\ z \in Int /\ z > 0
      BY <1>1, <1>2, <1>3
    <3>3. (i - L) * z = (j - L) * z
      <4>1. (i - L) * z \in Int /\ (j - L) * z \in Int
        BY <3>2
      <4> DEFINE u == (i - L) * z
                 v == (j - L) * z
      <4>2. u \in Int /\ v \in Int /\ p + u = p + v /\ p \in Int
        BY <1>3, <3>1, <4>1
      <4> HIDE DEF u, v
      <4>3. u = v
        BY <4>2
      <4> QED
        BY <4>3 DEF u, v
    <3>4. i - L = j - L
      BY <3>2, <3>3
    <3> QED
      BY <3>2, <3>4
  <2>6. ASSUME NEW i \in 1 .. L, NEW j \in 1 .. L, y.entries[i].addr = y.entries[j].addr
        PROVE  i = j
    BY <1>1, <1>7, <2>6 DEF SlabOK, Addresses, x
  <2> QED
    BY <1>7, <2>2, <2>3, <2>4, <2>5, <2>6 DEF Addresses
<1>13. y \in SlabType
  <2>1. x.free_entries + n \in Nat
    BY <1>2, <1>10
  <2> QED
    BY <1>1, <1>4, <1>7, <1>9, <2>1 DEF SlabType
<1>14. y.free_entries > 0
  BY <1>2, <1>4, <1>10
<1>15. \A i \in DOMAIN x.entries : i \in DOMAIN y.entries /\ y.entries[i] = x.entries[i]
  BY <1>1, <1>2, <1>7
<1>16. \A i \in DOMAIN y.entries \ DOMAIN x.entries : y.entries[i].free
  <2>1. \A i \in (1 .. L + n) \ (1 .. L) : i \in L + 1 .. L + n
    BY <1>1, <1>2
  <2> QED
    BY <1>1, <1>7, <1>8, <2>1
<1> QED
  BY <1>9, <1>11, <1>12, <1>13, <1>14, <1>15, <1>16 DEF SlabOK, x, y

\* A slab y that differs from x in the mark of entry i.
Remarked(x, y, i, f) ==
  /\ y.entries = [x.entries EXCEPT ![i] = [addr |-> x.entries[i].addr, free |-> f]]
  /\ y.pages = x.pages

\* The mark of one entry.
LEMMA EntryMark ==
  ASSUME NEW r \in Entry, NEW f
  PROVE  [r EXCEPT !.free = f] = [addr |-> r.addr, free |-> f]
  BY DEF Entry

\* What stays the same.
RemarkedFacts(x, y, i, f) ==
  /\ y.entries \in Seq(Entry) /\ Len(y.entries) = Len(x.entries)
  /\ DOMAIN y.entries = DOMAIN x.entries
  /\ \A j \in DOMAIN x.entries : y.entries[j].addr = x.entries[j].addr
  /\ \A j \in DOMAIN x.entries \ {i} : y.entries[j].free = x.entries[j].free
  /\ y.entries[i].free = f
  /\ PagesOf(y) = PagesOf(x)
  /\ Addresses(y)

\* Marking an entry moves no address.
LEMMA RemarkedEntries ==
  ASSUME NEW x, SlabOK(x), NEW i \in DOMAIN x.entries, NEW f \in BOOLEAN, NEW y,
         Remarked(x, y, i, f)
  PROVE  RemarkedFacts(x, y, i, f)
<1> DEFINE old == x.entries
           new == [addr |-> x.entries[i].addr, free |-> f]
           D == 1 .. Len(old)
<1>1. /\ old \in Seq(Entry) /\ i \in D /\ DOMAIN x.entries = D
      /\ old[i].addr \in Int
  BY SlabFields
<1>2. new \in Entry /\ new.addr = old[i].addr /\ new.free = f
  BY <1>1 DEF Entry
<1>3. y.entries = [old EXCEPT ![i] = new] /\ y.pages = x.pages
  BY DEF Remarked
<1> HIDE DEF new, old
<1>4. /\ y.entries \in Seq(Entry) /\ Len(y.entries) = Len(old)
      /\ \A j \in D : y.entries[j] = IF j = i THEN new ELSE old[j]
  BY <1>1, <1>2, <1>3, ExceptSeq
<1>5. DOMAIN y.entries = D
  BY <1>4, LenProperties
<1>6. \A j \in D : y.entries[j].addr = old[j].addr
  BY <1>2, <1>4
<1>7. /\ \A j \in D \ {i} : y.entries[j].free = old[j].free
      /\ y.entries[i].free = f
  BY <1>1, <1>2, <1>4
<1>8. PagesOf(y) = PagesOf(x)
  BY <1>3 DEF PagesOf
<1>9. Addresses(y)
  BY <1>1, <1>5, <1>6, <1>8 DEF SlabOK, Addresses, old
<1> QED
  BY <1>1, <1>4, <1>5, <1>6, <1>7, <1>8, <1>9 DEF old, RemarkedFacts

\* malloc's search finds an entry whenever one is free.
LEMMA SearchFinds ==
  ASSUME NEW x, SlabOK(x), FreeSet(x) # {}
  PROVE  FreeOffsets(x) # {}
<1> DEFINE L == Len(x.entries)
           c == x.current_entry
<1>1. PICK i \in 1 .. L : x.entries[i].free
  BY SlabFields DEF FreeSet
<1>2. L \in Nat /\ c \in Nat /\ i \in Nat /\ i >= 1 /\ i <= L
  BY SlabFields
<1>3. c < L
  BY <1>2 DEF SlabOK, Counters
<1> DEFINE k == IF i - 1 >= c THEN (i - 1) - c ELSE ((i - 1) - c) + L
<1> HIDE DEF L, c
<1>4. k \in 0 .. L - 1
  BY <1>2, <1>3
<1>5. (c + k) % L = i - 1
  <2> DEFINE a == i - 1
  <2>1. a \in Nat /\ a < L
    BY <1>2
  <2>2. c + k = a \/ c + k = a + L
    BY <1>2, <1>3
  <2> HIDE DEF a, k
  <2>3. (c + k) % L = a
    BY <1>2, <2>1, <2>2, Wrap
  <2> QED
    BY <2>3 DEF a
<1> HIDE DEF k
<1>6. At(x, k) = i - 1 /\ (i - 1) + 1 = i
  BY <1>2, <1>5 DEF At, L, c
<1>7. FreeAt(x, k)
  BY <1>1, <1>6 DEF FreeAt
<1> QED
  BY <1>4, <1>7 DEF FreeOffsets, L

\* What it finds is a free entry.
LEMMA SearchFound ==
  ASSUME NEW x, SlabOK(x), FreeOffsets(x) # {}
  PROVE  LET e == At(x, Min(FreeOffsets(x)))
         IN  e \in Nat /\ e + 1 \in DOMAIN x.entries /\ x.entries[e + 1].free
<1> DEFINE L == Len(x.entries)
           c == x.current_entry
           k == Min(FreeOffsets(x))
           e == (c + k) % L
<1>1. L \in Nat /\ c \in Nat /\ DOMAIN x.entries = 1 .. L
  BY SlabFields
<1>2. k \in FreeOffsets(x)
  <2>1. FreeOffsets(x) \subseteq Nat
    BY <1>1 DEF FreeOffsets
  <2>2. \E n \in FreeOffsets(x) : \A m \in FreeOffsets(x) : n <= m
    BY <2>1, LeastElement
  <2> QED
    BY <2>2 DEF Min
<1>3. k \in 0 .. L - 1 /\ FreeAt(x, k)
  BY <1>2 DEF FreeOffsets
<1> HIDE DEF k
<1>4. At(x, k) = e
  BY DEF At
<1>5. x.entries[e + 1].free
  BY <1>3, <1>4 DEF FreeAt
<1> HIDE DEF L, c
<1>6. e \in Nat /\ e < L
  BY <1>1, <1>3
<1>7. e + 1 \in 1 .. L
  <2> HIDE DEF e
  <2> QED
    BY <1>1, <1>6
<1> QED
  BY <1>1, <1>4, <1>5, <1>6, <1>7 DEF k

\* malloc takes a free entry of a slab.
LEMMA TakenIsOK ==
  ASSUME NEW x, SlabOK(x), NEW e \in Nat, e + 1 \in DOMAIN x.entries,
         x.entries[e + 1].free
  PROVE  /\ SlabOK(Taken(x, e))
         /\ RemarkedFacts(x, Taken(x, e), e + 1, FALSE)
<1> DEFINE i == e + 1
           y == Taken(x, e)
<1>1. /\ x \in SlabType /\ i \in 1 .. Len(x.entries) /\ DOMAIN x.entries = 1 .. Len(x.entries)
      /\ Len(x.entries) \in Nat /\ x.free_entries \in Nat
      /\ x.entries \in Seq(Entry)
  BY SlabFields DEF SlabOK
<1>2. x.entries[i] \in Entry
  BY <1>1, ElementOfSeq
<1>3. /\ y.entries = [x.entries EXCEPT ![i] = [addr |-> x.entries[i].addr, free |-> FALSE]]
      /\ y.free_entries = x.free_entries - 1 /\ y.current_entry = e
      /\ y.pages = x.pages
      /\ y \in [entries : {y.entries}, free_entries : {y.free_entries},
                current_entry : {y.current_entry}, pages : {y.pages}]
  <2>1. [x.entries[i] EXCEPT !.free = FALSE] = [addr |-> x.entries[i].addr, free |-> FALSE]
    BY <1>2, EntryMark
  <2>2. y.entries = [x.entries EXCEPT ![i] = [x.entries[i] EXCEPT !.free = FALSE]]
    BY <1>1 DEF Taken, SlabType
  <2> QED
    BY <1>1, <2>1, <2>2 DEF Taken, SlabType
<1>4. Remarked(x, y, i, FALSE)
  BY <1>3 DEF Remarked
<1> HIDE DEF y
<1>5. RemarkedFacts(x, y, i, FALSE)
  <2>1. i \in DOMAIN x.entries
    BY <1>1
  <2>2. \A f \in BOOLEAN : Remarked(x, y, i, f) => RemarkedFacts(x, y, i, f)
    BY <2>1, RemarkedEntries
  <2>3. Remarked(x, y, i, FALSE) => RemarkedFacts(x, y, i, FALSE)
    BY <2>2
  <2>4. Remarked(x, y, i, TRUE) => RemarkedFacts(x, y, i, TRUE)
    BY <2>2
  <2> QED
    BY <1>4, <2>3, <2>4
<1>6. FreeSet(y) = FreeSet(x) \ {i} /\ i \in FreeSet(x)
  BY <1>5 DEF FreeSet, RemarkedFacts
<1>7. /\ x.free_entries = Cardinality(FreeSet(x))
      /\ Len(x.entries) <= EntryCount /\ Len(x.pages) <= MaxPageCount
  BY DEF SlabOK, Counters
<1>8. /\ Cardinality(FreeSet(y)) = x.free_entries - 1
      /\ x.free_entries - 1 \in Nat
  <2>1. IsFiniteSet(FreeSet(x))
    BY SlabFields
  <2>2. /\ IsFiniteSet(FreeSet(y))
        /\ Cardinality(FreeSet(y)) = Cardinality(FreeSet(x)) - 1
    BY <1>6, <2>1, FS_RemoveElement
  <2>3. Cardinality(FreeSet(y)) \in Nat
    BY <2>2, FS_CardinalityType
  <2> QED
    BY <1>7, <2>2, <2>3
<1>9. e < Len(x.entries)
  BY <1>1
<1>10. Counters(y)
  BY <1>3, <1>5, <1>7, <1>8, <1>9 DEF Counters, RemarkedFacts
<1>11. y \in SlabType
  BY <1>1, <1>3, <1>5, <1>8 DEF SlabType, RemarkedFacts
<1> QED
  BY <1>5, <1>10, <1>11 DEF SlabOK, RemarkedFacts, y

\* free gives an entry back.
LEMMA FreedIsOK ==
  ASSUME NEW x, SlabOK(x), NEW i \in DOMAIN x.entries, ~x.entries[i].free
  PROVE  /\ SlabOK(Freed(x, i))
         /\ RemarkedFacts(x, Freed(x, i), i, TRUE)
<1> DEFINE y == Freed(x, i)
<1>1. /\ x \in SlabType /\ i \in 1 .. Len(x.entries) /\ DOMAIN x.entries = 1 .. Len(x.entries)
      /\ Len(x.entries) \in Nat /\ x.free_entries \in Nat
      /\ x.entries \in Seq(Entry)
  BY SlabFields DEF SlabOK
<1>2. x.entries[i] \in Entry
  BY <1>1, ElementOfSeq
<1>3. /\ y.entries = [x.entries EXCEPT ![i] = [addr |-> x.entries[i].addr, free |-> TRUE]]
      /\ y.free_entries = x.free_entries + 1 /\ y.current_entry = i - 1
      /\ y.pages = x.pages
      /\ y \in [entries : {y.entries}, free_entries : {y.free_entries},
                current_entry : {y.current_entry}, pages : {y.pages}]
  <2>1. [x.entries[i] EXCEPT !.free = TRUE] = [addr |-> x.entries[i].addr, free |-> TRUE]
    BY <1>2, EntryMark
  <2>2. y.entries = [x.entries EXCEPT ![i] = [x.entries[i] EXCEPT !.free = TRUE]]
    BY <1>1 DEF Freed, SlabType
  <2> QED
    BY <1>1, <2>1, <2>2 DEF Freed, SlabType
<1>4. Remarked(x, y, i, TRUE)
  BY <1>3 DEF Remarked
<1> HIDE DEF y
<1>5. RemarkedFacts(x, y, i, TRUE)
  <2>1. i \in DOMAIN x.entries
    BY <1>1
  <2>2. \A f \in BOOLEAN : Remarked(x, y, i, f) => RemarkedFacts(x, y, i, f)
    BY <2>1, RemarkedEntries
  <2>3. Remarked(x, y, i, FALSE) => RemarkedFacts(x, y, i, FALSE)
    BY <2>2
  <2>4. Remarked(x, y, i, TRUE) => RemarkedFacts(x, y, i, TRUE)
    BY <2>2
  <2> QED
    BY <1>4, <2>3, <2>4
<1>6. FreeSet(y) = FreeSet(x) \cup {i} /\ i \notin FreeSet(x)
  BY <1>5 DEF FreeSet, RemarkedFacts
<1>7. /\ x.free_entries = Cardinality(FreeSet(x))
      /\ Len(x.entries) <= EntryCount /\ Len(x.pages) <= MaxPageCount
  BY DEF SlabOK, Counters
<1>8. /\ Cardinality(FreeSet(y)) = x.free_entries + 1
      /\ x.free_entries + 1 \in Nat
  <2>1. IsFiniteSet(FreeSet(x))
    BY SlabFields
  <2>2. Cardinality(FreeSet(y)) = Cardinality(FreeSet(x)) + 1
    BY <1>6, <2>1, FS_AddElement
  <2>3. Cardinality(FreeSet(x)) \in Nat
    BY <2>1, FS_CardinalityType
  <2> QED
    BY <1>7, <2>2, <2>3
<1>9. i - 1 \in Nat /\ i - 1 < Len(x.entries)
  BY <1>1
<1>10. Counters(y)
  BY <1>3, <1>5, <1>7, <1>8, <1>9 DEF Counters, RemarkedFacts
<1>11. y \in SlabType
  BY <1>1, <1>3, <1>5, <1>8, <1>9 DEF SlabType, RemarkedFacts
<1> QED
  BY <1>5, <1>10, <1>11 DEF SlabOK, RemarkedFacts, y
-----------------------------------------------------------------------------
(* The heap. *)

\* No two entries, of one slab or of two, have the same address.
LEMMA OneOwner ==
  ASSUME MallocInv, NEW s \in Slab, NEW t \in Slab,
         NEW i \in DOMAIN slabs[s].entries, NEW j \in DOMAIN slabs[t].entries,
         slabs[s].entries[i].addr = slabs[t].entries[j].addr
  PROVE  s = t /\ i = j
<1>1. SlabOK(slabs[s]) /\ SlabOK(slabs[t])
  BY DEF MallocInv
<1>2. PICK p \in PagesOf(slabs[s]) : Behind(p, slabs[s].entries[i].addr)
  BY <1>1 DEF SlabOK, Addresses
<1>3. PICK q \in PagesOf(slabs[t]) : Behind(q, slabs[t].entries[j].addr)
  BY <1>1 DEF SlabOK, Addresses
<1>4. p \in Page /\ q \in Page /\ slabs[s].entries[i].addr \in Int
  BY <1>1, <1>2, <1>3, SlabFields
<1>5. p = q
  BY <1>2, <1>3, <1>4, OnePageBehind
<1>6. s = t
  BY <1>2, <1>3, <1>5 DEF MallocInv, OwnPages
<1> QED
  BY <1>1, <1>6 DEF SlabOK, Addresses

\* free finds every entry.
LEMMA EntryFound ==
  ASSUME MallocInv, NEW s \in Slab, NEW i \in DOMAIN slabs[s].entries
  PROVE  /\ EntryOf(slabs[s], slabs[s].entries[i].addr) = i
         /\ Owners(slabs[s].entries[i].addr) = {s}
<1> DEFINE a == slabs[s].entries[i].addr
<1>1. {j \in DOMAIN slabs[s].entries : slabs[s].entries[j].addr = a} = {i}
  BY OneOwner
<1>2. i \in Int
  <2>1. SlabOK(slabs[s])
    BY DEF MallocInv
  <2>2. DOMAIN slabs[s].entries = 1 .. Len(slabs[s].entries)
        /\ Len(slabs[s].entries) \in Nat
    BY <2>1, SlabFields
  <2> QED
    BY <2>2
<1>3. EntryOf(slabs[s], a) = i
  BY <1>1, <1>2, OneElement DEF EntryOf
<1>4. Owners(a) = {s}
  BY OneOwner DEF Owners
<1> QED
  BY <1>3, <1>4

\* The invariant has the three properties.
LEMMA InvHasProperties ==
  ASSUME MallocInv PROVE CountsAgree /\ LiveBlocksAreEntries /\ GivesUpOnlyWhenFull
<1>1. CountsAgree
  <2> SUFFICES ASSUME NEW s \in Slab
               PROVE  slabs[s].current_entry \in 0 .. Max({0, Len(slabs[s].entries) - 1})
    BY DEF CountsAgree, MallocInv, SlabOK, Counters, FreeSet
  <2> DEFINE L == Len(slabs[s].entries)
             c == slabs[s].current_entry
  <2>1. L \in Nat /\ c \in Nat /\ (c < L \/ c = 0)
    BY SlabFields DEF MallocInv, SlabOK, Counters
  <2> HIDE DEF L, c
  <2>2. Max({0, L - 1}) = IF L = 0 THEN 0 ELSE L - 1
    BY <2>1 DEF Max
  <2>3. c \in 0 .. Max({0, L - 1})
    BY <2>1, <2>2
  <2> QED
    BY <2>3 DEF L, c
<1>2. LiveBlocksAreEntries
  <2>1. ASSUME NEW b \in live
        PROVE  /\ Owners(b.addr) = {b.slab}
               /\ ~slabs[b.slab].entries[EntryOf(slabs[b.slab], b.addr)].free
    <3>1. b.slab \in Slab
      BY DEF MallocInv, LiveInv, Block
    <3>2. PICK i \in DOMAIN slabs[b.slab].entries :
            slabs[b.slab].entries[i].addr = b.addr /\ ~slabs[b.slab].entries[i].free
      BY DEF MallocInv, LiveInv
    <3> QED
      BY <3>1, <3>2, EntryFound
  <2>2. ASSUME NEW s \in Slab, NEW i \in DOMAIN slabs[s].entries
        PROVE  /\ EntryOf(slabs[s], slabs[s].entries[i].addr) = i
               /\ ~slabs[s].entries[i].free =>
                    [addr |-> slabs[s].entries[i].addr, slab |-> s] \in live
    BY EntryFound DEF MallocInv, LiveInv, BlockOf
  <2> QED
    BY <2>1, <2>2 DEF LiveBlocksAreEntries
<1> QED
  BY <1>1, <1>2 DEF MallocInv

\* y has the entries of x and free ones behind them.
Extends(x, y) ==
  /\ \A i \in DOMAIN x.entries : i \in DOMAIN y.entries /\ y.entries[i] = x.entries[i]
  /\ \A i \in DOMAIN y.entries \ DOMAIN x.entries : y.entries[i].free

\* y has pages no other slab than s has.
PagesApart(y, s) ==
  \A t \in Slab : t # s => PagesOf(y) \cap PagesOf(slabs[t]) = {}

\* The slab in which malloc searches.
LEMMA PreparedSlab ==
  ASSUME MallocInv, NEW s \in Slab, NEW y \in Prepared(s)
  PROVE  /\ SlabOK(y) /\ Extends(slabs[s], y) /\ PagesApart(y, s)
         /\ y.free_entries > 0 \/ (y = slabs[s] /\ ~NeedsPage(s))
<1>1. SlabOK(slabs[s]) /\ PagesApart(slabs[s], s)
  BY DEF MallocInv, OwnPages, PagesApart
<1>2. CASE ~NeedsPage(s)
  BY <1>1, <1>2 DEF Prepared, Extends
<1>3. CASE NeedsPage(s)
  <2>1. PICK p \in FreePages : y = Grown(s, p)
    BY <1>3 DEF Prepared
  <2>2. p \in Page /\ \A t \in Slab : p \notin PagesOf(slabs[t])
    BY DEF FreePages
  <2>3. /\ SlabOK(y) /\ y.free_entries > 0 /\ PagesOf(y) = PagesOf(slabs[s]) \cup {p}
        /\ Extends(slabs[s], y)
    BY <1>1, <1>3, <2>1, <2>2, GrownIsOK DEF Extends
  <2>4. PagesApart(y, s)
    BY <1>1, <2>2, <2>3 DEF PagesApart
  <2> QED
    BY <2>3, <2>4
<1> QED
  BY <1>2, <1>3

\* One slab is replaced.
LEMMA Replaced ==
  ASSUME MallocInv, NEW s \in Slab, NEW y, SlabOK(y), PagesApart(y, s),
         slabs' = [slabs EXCEPT ![s] = y]
  PROVE  /\ DOMAIN slabs' = Slab /\ OwnPages'
         /\ \A t \in Slab : SlabOK(slabs'[t])
         /\ slabs'[s] = y /\ \A t \in Slab \ {s} : slabs'[t] = slabs[t]
<1>1. /\ DOMAIN slabs' = Slab
      /\ slabs'[s] = y /\ \A t \in Slab \ {s} : slabs'[t] = slabs[t]
  BY DEF MallocInv
<1>2. \A t \in Slab : SlabOK(slabs'[t])
  BY <1>1 DEF MallocInv
<1>3. OwnPages'
  <2> SUFFICES ASSUME NEW t \in Slab, NEW u \in Slab, t # u
               PROVE  PagesOf(slabs'[t]) \cap PagesOf(slabs'[u]) = {}
    BY DEF OwnPages
  <2>1. CASE t = s
    BY <1>1, <2>1 DEF PagesApart
  <2>2. CASE u = s
    BY <1>1, <2>2 DEF PagesApart
  <2>3. CASE t # s /\ u # s
    BY <1>1, <2>3 DEF MallocInv, OwnPages
  <2> QED
    BY <2>1, <2>2, <2>3
<1> QED
  BY <1>1, <1>2, <1>3

\* malloc.
LEMMA MallocStep ==
  ASSUME MallocInv, NEW size \in Nat, malloc(size) PROVE MallocInv'
<1> DEFINE s == SlabFor(size)
           x == slabs[s]
<1>1. s \in Slab
  BY SlabForIsSlab DEF malloc
<1>2. PICK z \in Prepared(s) :
        LET e == At(z, Min(FreeOffsets(z)))
        IN  /\ FreeOffsets(z) # {}
            /\ slabs' = [slabs EXCEPT ![s] = Taken(z, e)]
            /\ live' = live \cup {[addr |-> z.entries[e + 1].addr, slab |-> s]}
  BY DEF malloc
<1> DEFINE e == At(z, Min(FreeOffsets(z)))
           y == Taken(z, e)
<1> HIDE DEF s
<1>3. SlabOK(z) /\ Extends(x, z) /\ PagesApart(z, s)
  BY <1>1, PreparedSlab
<1>4. e \in Nat /\ e + 1 \in DOMAIN z.entries /\ z.entries[e + 1].free
  BY <1>2, <1>3, SearchFound
<1>5. /\ slabs' = [slabs EXCEPT ![s] = y]
      /\ live' = live \cup {BlockOf(z, e + 1, s)}
      /\ panicked = "none" /\ panicked' = "none"
  BY <1>2 DEF malloc, Running, BlockOf
<1> HIDE DEF e
<1>6. SlabOK(y) /\ RemarkedFacts(z, y, e + 1, FALSE)
  BY <1>3, <1>4, TakenIsOK
<1> HIDE DEF y
<1>7. PagesApart(y, s)
  BY <1>3, <1>6 DEF PagesApart, RemarkedFacts
<1>8. /\ DOMAIN slabs' = Slab /\ OwnPages'
      /\ \A t \in Slab : SlabOK(slabs'[t])
      /\ slabs'[s] = y /\ \A t \in Slab \ {s} : slabs'[t] = slabs[t]
  BY <1>1, <1>5, <1>6, <1>7, Replaced
<1>9. LiveInv'
  <2>1. live' \subseteq Block
    <3>1. z.entries[e + 1].addr \in Int
      BY <1>3, <1>4, SlabFields
    <3> QED
      BY <1>1, <1>5, <3>1 DEF MallocInv, LiveInv, Block, BlockOf
  <2>2. ASSUME NEW b \in live'
        PROVE  \E i \in DOMAIN slabs'[b.slab].entries :
                 /\ slabs'[b.slab].entries[i].addr = b.addr
                 /\ ~slabs'[b.slab].entries[i].free
    <3>1. CASE b = BlockOf(z, e + 1, s)
      <4>1. b.slab = s /\ b.addr = z.entries[e + 1].addr
        BY <3>1 DEF BlockOf
      <4>2. /\ e + 1 \in DOMAIN y.entries /\ ~y.entries[e + 1].free
            /\ y.entries[e + 1].addr = z.entries[e + 1].addr
        BY <1>4, <1>6 DEF RemarkedFacts
      <4> QED
        BY <1>8, <4>1, <4>2
    <3>2. CASE b \in live
      <4>1. PICK i \in DOMAIN slabs[b.slab].entries :
              slabs[b.slab].entries[i].addr = b.addr /\ ~slabs[b.slab].entries[i].free
        BY <3>2 DEF MallocInv, LiveInv
      <4>2. CASE b.slab = s
        <5>1. /\ i \in DOMAIN z.entries /\ z.entries[i].addr = b.addr
              /\ ~z.entries[i].free
          BY <1>3, <4>1, <4>2 DEF Extends
        <5>2. i # e + 1
          BY <1>4, <5>1
        <5>3. /\ i \in DOMAIN y.entries /\ y.entries[i].addr = b.addr
              /\ ~y.entries[i].free
          BY <1>6, <5>1, <5>2 DEF RemarkedFacts
        <5> QED
          BY <1>8, <4>2, <5>3
      <4>3. CASE b.slab # s
        <5>1. b.slab \in Slab
          BY <3>2 DEF MallocInv, LiveInv, Block
        <5> QED
          BY <1>8, <4>1, <4>3, <5>1
      <4> QED
        BY <4>2, <4>3
    <3> QED
      BY <1>5, <3>1, <3>2
  <2>3. ASSUME NEW t \in Slab, NEW i \in DOMAIN slabs'[t].entries,
               ~slabs'[t].entries[i].free
        PROVE  BlockOf(slabs'[t], i, t) \in live'
    <3>1. CASE t # s
      BY <1>5, <1>8, <2>3, <3>1 DEF MallocInv, LiveInv
    <3>2. CASE t = s
      <4>1. i \in DOMAIN z.entries /\ y.entries[i].addr = z.entries[i].addr
            /\ slabs'[t] = y
        BY <1>6, <1>8, <2>3, <3>2 DEF RemarkedFacts
      <4>2. BlockOf(y, i, s) = BlockOf(z, i, s)
        BY <4>1 DEF BlockOf
      <4>3. CASE i = e + 1
        BY <1>5, <3>2, <4>1, <4>2, <4>3
      <4>4. CASE i # e + 1
        <5>1. ~z.entries[i].free
          BY <1>6, <2>3, <4>1, <4>4 DEF RemarkedFacts
        <5>2. i \in DOMAIN x.entries /\ z.entries[i] = x.entries[i]
          BY <1>3, <4>1, <5>1 DEF Extends
        <5>3. BlockOf(x, i, s) \in live
          BY <1>1, <5>1, <5>2 DEF MallocInv, LiveInv
        <5>4. BlockOf(x, i, s) = BlockOf(z, i, s)
          BY <5>2 DEF BlockOf
        <5> QED
          BY <1>5, <3>2, <4>1, <4>2, <5>3, <5>4
      <4> QED
        BY <4>3, <4>4
    <3> QED
      BY <3>1, <3>2
  <2> QED
    BY <2>1, <2>2, <2>3 DEF LiveInv
<1> QED
  BY <1>5, <1>8, <1>9 DEF MallocInv, GivesUpOnlyWhenFull

\* malloc's panics: the search never fails in a slab that claims to have a free
\* entry, and a slab without one cannot grow.
LEMMA MallocPanicStep ==
  ASSUME MallocInv, NEW size \in Nat, malloc_panics(size) PROVE MallocInv'
<1>1. UNCHANGED <<slabs, foreign, live>> /\ refused' = size
  BY DEF malloc_panics, Panic
<1>2. panicked' # "search failed" /\ GivesUpOnlyWhenFull'
  <2>1. CASE Panic("too large")
    BY <2>1 DEF Panic, GivesUpOnlyWhenFull
  <2>2. ASSUME size <= PageSize, NeedsPage(SlabFor(size)), FreePages = {},
               Panic("pmem out of memory")
        PROVE  panicked' # "search failed" /\ GivesUpOnlyWhenFull'
    <3> DEFINE s == SlabFor(size)
    <3>1. s \in Slab
      BY <2>2, SlabForIsSlab
    <3>2. SlabFor(refused') = s
      BY <1>1
    <3> HIDE DEF s
    <3>3. SlabOK(slabs[s])
      BY <3>1 DEF MallocInv
    <3>4. FreeSet(slabs[s]) = {}
      <4>1. Cardinality(FreeSet(slabs[s])) = 0
        BY <2>2, <3>3 DEF NeedsPage, SlabOK, Counters, s
      <4> QED
        BY <3>3, <4>1, SlabFields, FS_EmptySet
    <3>5. AllInUse(s)
      BY <3>4 DEF FreeSet, AllInUse
    <3>6. FreePages' = {} /\ AllInUse(s)'
      BY <1>1, <2>2, <3>5 DEF FreePages, AllInUse
    <3>7. panicked' = "pmem out of memory"
      BY <2>2 DEF Panic
    <3> QED
      BY <3>2, <3>6, <3>7 DEF GivesUpOnlyWhenFull
  <2>3. ASSUME size <= PageSize, NEW z \in Prepared(SlabFor(size)),
               z.free_entries <= 0 \/ FreeOffsets(z) = {},
               Panic(IF z.free_entries <= 0 THEN "no free memory"
                                            ELSE "search failed")
        PROVE  panicked' # "search failed" /\ GivesUpOnlyWhenFull'
    <3> DEFINE s == SlabFor(size)
    <3>1. s \in Slab
      BY <2>3, SlabForIsSlab
    <3> HIDE DEF s
    <3>2. /\ SlabOK(z)
          /\ z.free_entries > 0 \/ (z = slabs[s] /\ ~NeedsPage(s))
      BY <2>3, <3>1, PreparedSlab DEF s
    <3>3. z.free_entries \in Nat /\ z.free_entries = Cardinality(FreeSet(z))
          /\ IsFiniteSet(FreeSet(z))
      BY <3>2, SlabFields DEF SlabOK, Counters
    <3>4. ~(z.free_entries > 0)
      <4>1. SUFFICES ASSUME z.free_entries > 0 PROVE FALSE
        OBVIOUS
      <4>2. FreeSet(z) # {}
        BY <3>3, <4>1, FS_EmptySet
      <4>3. FreeOffsets(z) # {}
        BY <3>2, <4>2, SearchFinds
      <4>4. z.free_entries <= 0
        BY <2>3, <4>3, Zenon
      <4> QED
        BY <3>3, <4>1, <4>4
    <3>5. z.free_entries <= 0 /\ z.free_entries = 0
      BY <3>3, <3>4
    <3>6. panicked' = "no free memory"
      BY <2>3, <3>5 DEF Panic
    <3>7. z = slabs[s] /\ ~NeedsPage(s)
      BY <3>2, <3>4
    <3>8. FreeSet(slabs[s]) = {}
      BY <3>3, <3>5, <3>7, FS_EmptySet
    <3>9. AllInUse(s)'
      BY <1>1, <3>8 DEF FreeSet, AllInUse
    <3>10. \/ Len(slabs[s].entries) = EntryCount
           \/ Len(slabs[s].pages) = MaxPageCount
      <4>1. ~(Additional(s) > 0) \/ Len(slabs[s].pages) = MaxPageCount
        BY <3>5, <3>7 DEF NeedsPage
      <4>2. Additional(s) \in Int /\ (Additional(s) <= 0 => Len(slabs[s].entries) = EntryCount)
        BY <3>1, <3>2, <3>7, AdditionalEntries
      <4> QED
        BY <4>1, <4>2
    <3>11. SlabFor(refused') = s
      BY <1>1 DEF s
    <3> QED
      BY <1>1, <3>6, <3>9, <3>10, <3>11 DEF GivesUpOnlyWhenFull
  <2> QED
    BY <2>1, <2>2, <2>3 DEF malloc_panics
<1> QED
  BY <1>1, <1>2 DEF MallocInv, OwnPages, LiveInv

\* free of a block in use.
LEMMA FreeStep ==
  ASSUME MallocInv, NEW b \in live, free(b) PROVE MallocInv'
<1> DEFINE s == b.slab
           x == slabs[s]
<1>1. s \in Slab /\ b \in Block
  BY DEF MallocInv, LiveInv, Block
<1>2. PICK i \in DOMAIN x.entries : x.entries[i].addr = b.addr /\ ~x.entries[i].free
  BY DEF MallocInv, LiveInv
<1> DEFINE y == Freed(x, i)
<1>3. Owners(b.addr) = {s} /\ EntryOf(x, b.addr) = i
  BY <1>1, <1>2, EntryFound
<1>4. Min({s}) = s
  <2>1. s \in Int
    BY <1>1, BlockSizes DEF Slab
  <2> QED
    BY <2>1, OneElement
<1>5. /\ slabs' = [slabs EXCEPT ![s] = y] /\ live' = live \ {b}
      /\ panicked = "none" /\ panicked' = "none"
  BY <1>1, <1>3, <1>4 DEF free, Running, MallocInv
<1>6. SlabOK(x)
  BY <1>1 DEF MallocInv
<1>7. SlabOK(y) /\ RemarkedFacts(x, y, i, TRUE)
  BY <1>2, <1>6, FreedIsOK
<1> HIDE DEF y
<1>8. PagesApart(y, s)
  BY <1>1, <1>7 DEF PagesApart, RemarkedFacts, MallocInv, OwnPages
<1>9. /\ DOMAIN slabs' = Slab /\ OwnPages'
      /\ \A t \in Slab : SlabOK(slabs'[t])
      /\ slabs'[s] = y /\ \A t \in Slab \ {s} : slabs'[t] = slabs[t]
  BY <1>1, <1>5, <1>7, <1>8, Replaced
<1>10. LiveInv'
  <2>1. live' \subseteq Block
    BY <1>5 DEF MallocInv, LiveInv
  <2>2. ASSUME NEW c \in live'
        PROVE  \E j \in DOMAIN slabs'[c.slab].entries :
                 /\ slabs'[c.slab].entries[j].addr = c.addr
                 /\ ~slabs'[c.slab].entries[j].free
    <3>1. c \in live /\ c # b /\ c \in Block /\ c.slab \in Slab
      BY <1>5, <2>2 DEF MallocInv, LiveInv, Block
    <3>2. PICK j \in DOMAIN slabs[c.slab].entries :
            slabs[c.slab].entries[j].addr = c.addr /\ ~slabs[c.slab].entries[j].free
      BY <3>1 DEF MallocInv, LiveInv
    <3>3. CASE c.slab = s
      <4>1. c.addr # b.addr
        BY <1>1, <3>1, <3>3 DEF Block
      <4>2. j # i
        BY <1>2, <3>2, <3>3, <4>1
      <4>3. /\ j \in DOMAIN y.entries /\ y.entries[j].addr = c.addr
            /\ ~y.entries[j].free
        BY <1>7, <3>2, <3>3, <4>2 DEF RemarkedFacts
      <4> QED
        BY <1>9, <3>3, <4>3
    <3>4. CASE c.slab # s
      BY <1>9, <3>1, <3>2, <3>4
    <3> QED
      BY <3>3, <3>4
  <2>3. ASSUME NEW t \in Slab, NEW j \in DOMAIN slabs'[t].entries,
               ~slabs'[t].entries[j].free
        PROVE  BlockOf(slabs'[t], j, t) \in live'
    <3>1. CASE t # s
      <4>1. BlockOf(slabs'[t], j, t) \in live
        BY <1>9, <2>3, <3>1 DEF MallocInv, LiveInv
      <4>2. BlockOf(slabs'[t], j, t) # b
        BY <3>1 DEF BlockOf
      <4> QED
        BY <1>5, <4>1, <4>2
    <3>2. CASE t = s
      <4>1. j \in DOMAIN x.entries /\ y.entries[j].addr = x.entries[j].addr
            /\ slabs'[t] = y
        BY <1>7, <1>9, <2>3, <3>2 DEF RemarkedFacts
      <4>2. j # i
        BY <1>7, <2>3, <4>1 DEF RemarkedFacts
      <4>3. ~x.entries[j].free
        BY <1>7, <2>3, <4>1, <4>2 DEF RemarkedFacts
      <4>4. BlockOf(x, j, s) \in live
        BY <1>1, <4>1, <4>3 DEF MallocInv, LiveInv
      <4>5. x.entries[j].addr # b.addr
        BY <1>1, <1>2, <4>1, <4>2, OneOwner
      <4>6. BlockOf(y, j, s) = BlockOf(x, j, s) /\ BlockOf(x, j, s) # b
        BY <4>1, <4>5 DEF BlockOf
      <4> QED
        BY <1>5, <3>2, <4>1, <4>4, <4>6
    <3> QED
      BY <3>1, <3>2
  <2> QED
    BY <2>1, <2>2, <2>3 DEF LiveInv
<1> QED
  BY <1>5, <1>9, <1>10 DEF MallocInv, GivesUpOnlyWhenFull

\* No slab has anything at first.
LEMMA InitMallocInv == Init => MallocInv
<1> SUFFICES ASSUME Init PROVE MallocInv
  OBVIOUS
<1>1. /\ slabs = [s \in Slab |-> EmptySlab] /\ live = {} /\ panicked = "none"
  BY DEF Init
<1>2. EmptySlab.entries = <<>> /\ EmptySlab.pages = <<>>
      /\ EmptySlab.free_entries = 0 /\ EmptySlab.current_entry = 0
  BY DEF EmptySlab
<1>3. /\ Len(EmptySlab.entries) = 0 /\ Len(EmptySlab.pages) = 0
      /\ DOMAIN EmptySlab.entries = {}
      /\ EmptySlab.entries \in Seq(Entry) /\ EmptySlab.pages \in Seq(Page)
  <2>1. <<>> \in Seq(Entry) /\ <<>> \in Seq(Page) /\ Len(<<>>) = 0
    BY EmptySeq
  <2>2. DOMAIN EmptySlab.entries = 1 .. 0
    BY <1>2, <2>1, LenProperties
  <2> QED
    BY <1>2, <2>1, <2>2
<1>4. SlabOK(EmptySlab)
  <2>1. FreeSet(EmptySlab) = {}
    BY <1>3 DEF FreeSet
  <2>2. Counters(EmptySlab)
    <3>1. Cardinality(FreeSet(EmptySlab)) = 0
      BY <2>1, FS_EmptySet
    <3> QED
      BY <1>2, <1>3, <3>1, BlockSizes DEF Counters
  <2>3. Addresses(EmptySlab)
    BY <1>3 DEF Addresses
  <2>4. EmptySlab \in SlabType
    BY <1>2, <1>3 DEF SlabType, EmptySlab
  <2> QED
    BY <2>2, <2>3, <2>4 DEF SlabOK
<1>5. PagesOf(EmptySlab) = {}
  <2>1. <<>> \in Seq(Page) /\ Len(<<>>) = 0 /\ DOMAIN EmptySlab.pages = 1 .. 0
    BY <1>2, <1>3, LenProperties
  <2> QED
    BY <2>1 DEF PagesOf
<1>6. LiveInv
  BY <1>1, <1>3 DEF LiveInv
<1>7. OwnPages
  BY <1>1, <1>5 DEF OwnPages
<1> QED
  BY <1>1, <1>4, <1>6, <1>7 DEF MallocInv, GivesUpOnlyWhenFull

\* Every step keeps the invariant.
LEMMA NextMallocInv == MallocInv /\ [Next]_vars => MallocInv'
<1> SUFFICES ASSUME MallocInv, [Next]_vars PROVE MallocInv'
  OBVIOUS
<1>1. ASSUME NEW size \in Requests, malloc(size) \/ malloc_panics(size) PROVE MallocInv'
  <2>1. size \in Nat
    BY BlockSizes DEF Requests
  <2> QED
    BY <1>1, <2>1, MallocStep, MallocPanicStep
<1>2. ASSUME NEW b \in live, free(b) PROVE MallocInv'
  BY <1>2, FreeStep
<1>3. ASSUME NEW ptr \in Page, free_panics(ptr) PROVE MallocInv'
  BY <1>3 DEF free_panics, Panic, MallocInv, OwnPages, LiveInv, GivesUpOnlyWhenFull
<1>4. CASE TakeForeignPage
  BY <1>4 DEF TakeForeignPage, Running, MallocInv, OwnPages, LiveInv, GivesUpOnlyWhenFull
<1>5. CASE UNCHANGED vars
  BY <1>5 DEF vars, MallocInv, OwnPages, LiveInv, GivesUpOnlyWhenFull, FreePages, AllInUse
<1> QED
  BY <1>1, <1>2, <1>3, <1>4, <1>5 DEF Next, Halted

\* The invariant holds of the heap.
LEMMA SpecMallocInv == Spec => []MallocInv
  BY InitMallocInv, NextMallocInv, PTL DEF Spec
-----------------------------------------------------------------------------
(* Results. *)

\* free_entries counts the free entries, a slab stays within its arrays, and
\* malloc's search (malloc.c) never comes back without an entry: after every
\* sequence of malloc and free, for every size of the tables.
THEOREM MallocCountsAgree == Spec => []CountsAgree
<1>1. MallocInv => CountsAgree
  BY InvHasProperties
<1> QED
  BY <1>1, SpecMallocInv, PTL

\* Blocks in use and entries that are not free correspond one to one, and free
\* finds the entry of a block by its address alone, although it does not know
\* the slab and the entries of a page lie behind the page's own start.
THEOREM MallocLiveBlocksAreEntries == Spec => []LiveBlocksAreEntries
<1>1. MallocInv => LiveBlocksAreEntries
  BY InvHasProperties
<1> QED
  BY <1>1, SpecMallocInv, PTL

\* malloc panics for want of an entry or a page only when all entries of the slab
\* for a request of that size are in use, and this slab is at one of its limits
\* or pmem has no page left.
THEOREM MallocGivesUpOnlyWhenFull == Spec => []GivesUpOnlyWhenFull
<1>1. MallocInv => GivesUpOnlyWhenFull
  BY InvHasProperties
<1> QED
  BY <1>1, SpecMallocInv, PTL
=============================================================================
