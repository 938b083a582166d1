---------------------------- MODULE StdioProofs ----------------------------
(***************************************************************************)
(* Proofs about Serial and StdioRing for every size of the ring buffer, of *)
(* the chip's FIFO, and for every number of characters.                    *)
(***************************************************************************)
EXTENDS StdioRing, SequenceTheorems, WellFoundedInduction, TLAPS

\* Where the boot code can be.
Labels == Unlogged \cup {"idle", "wait", "out", "user", "overflow"}
            \cup Placing \cup Flushing

\* The states of the boot code in which it holds a character from the buffer.
Popping == {"load", "store", "show"}

\* The boot code has printed ch and not yet put it into the buffer.
Holding == pc \in Placing \/ (pc \in Flushing /\ caller = "sanity")

\* Index p lies between the tail t and the head h of the ring.
InRing(p, h, t) ==
  IF t <= h THEN t <= p /\ p < h ELSE t <= p \/ p < h

\* The number of steps from index t to index p.
Dist(p, t) == IF t <= p THEN p - t ELSE p - t + Size

\* The types of the variables of the ring and of the boot code.
TypeInv ==
  /\ printed \in Nat /\ ch \in Nat /\ popped \in Nat
  /\ pc \in Labels
  /\ head \in Index /\ tail \in Index /\ next_head \in Index /\ reg \in Index
  /\ buf \in [Index -> Nat]
  /\ screen \in Seq(Nat)
  /\ caller \in {"idle", "sanity", "user"}
  /\ pc \in Flushing => caller # "idle"
  /\ pc \in Unlogged => raced = {}

\* The registers of the chip before write n of serial_init.
Chip(n) ==
  [dlab |-> n \in 3 .. 5,
   divisor |-> [low |-> IF n >= 4 THEN 3 ELSE 12, high |-> 0],
   fifo |-> n >= 7, loop |-> n >= 9, tx |-> uart.tx, rx |-> uart.rx]

\* The registers of the chip when the log is open.
OpenChip ==
  [dlab |-> FALSE, divisor |-> Wanted, fifo |-> TRUE, loop |-> FALSE,
   tx |-> uart.tx, rx |-> uart.rx]

\* Until serial_init is over: what was printed is on the wire or in the
\* transmitter, until the FIFO is cleared; the test byte comes after that.
OpeningInv ==
  /\ uart = Chip(next) /\ uart.tx \in Seq(Nat)
  /\ pc # "init" => next = 1 /\ printed < EarlyChars
  /\ pc = "init" => printed = EarlyChars
  /\ present =>
       /\ next <= 6 => /\ Len(uart.tx) <= 1 /\ uart.rx = <<>>
                       /\ Sent \o uart.tx = CharsUpTo(printed)
       /\ next > 6 => Sent \in {CharsUpTo(EarlyChars), CharsUpTo(EarlyChars - 1)}
       /\ next \in 7 .. 9 => uart.tx = <<>> /\ uart.rx = <<>>
       /\ next = 10 => \/ uart.tx = <<Probe>> /\ uart.rx = <<>>
                       \/ uart.tx = <<>> /\ uart.rx = <<Probe>>
       /\ pc = "early_out" => uart.tx = <<>>

\* From then on: the log is complete, and the transmitter has room for the
\* character of the boot code whenever it has waited for it.
OpenInv ==
  /\ present /\ uart = OpenChip /\ uart.tx \in Seq(Nat)
  /\ Len(uart.tx) <= 2
  /\ pc = "out" => Len(uart.tx) <= 1
  /\ printed >= EarlyChars
  /\ Sent \o uart.tx = [i \in 1 .. printed - EarlyChars |-> EarlyChars + i]
  /\ \A k \in DOMAIN wire : wire[k].divisor = Wanted

\* What the chip puts on the wire.
Sending == [char : Nat, divisor : [low : Nat, high : Nat]]

\* The inductive invariant of the port.
PortInv ==
  /\ next \in 1 .. 10
  /\ pc \in {"early", "early_out", "init"} => OpeningInv
  /\ pc \notin Unlogged => OpenInv
  /\ pc \notin {"error", "error_out", "failed"} =>
        wire \in Seq(Sending)

\* No key was echoed inside a call of the boot code.
Calm == "echo" \notin raced

\* Then nobody but the boot code moves head_ptr inside its calls or takes the
\* buffer's page under its hands.
FlowInv ==
  /\ pc \in Unlogged => ~is_init
  /\ ~is_init => head = tail
  /\ is_initializing => pc = "page"
  /\ pc \in {"claim", "page"} => ~is_init
  /\ pc \in (Placing \ {"check", "claim", "page"}) \cup Flushing => is_init
  /\ pc \in {"full", "sanity", "index", "put", "advance"} => next_head = Succ(head)
  /\ pc \in Flushing /\ caller = "sanity" => next_head = Succ(head)
  /\ pc = "put" => reg = head
  /\ pc = "advance" => buf[head] = ch
  /\ Holding => ch = printed /\ ch > 0

\* Byte v is no character, or is shown, or is about to be shown by the boot
\* code.
Settled(v) ==
  v = 0 \/ Contains(screen, v) \/ (pc \in Popping /\ v = popped)

\* Between t and the head, nothing that is not settled comes after a zero byte.
SettledAfterZero(t) ==
  \A p, q \in Index :
    InRing(q, head, t) /\ InRing(p, q, t) /\ buf[p] = 0 => Settled(buf[q])

\* Every character is shown or about to be, in hand, or in the ring.
NoneLost ==
  \A n \in 1 .. printed :
    \/ Settled(n)
    \/ Holding /\ n = ch
    \/ \E p \in Index : InRing(p, head, tail) /\ buf[p] = n

\* What is left in the buffer outside the ring has been shown.
StaleSettled ==
  \A p \in Index :
    InRing(p, head, tail) \/ Settled(buf[p]) \/ (pc = "advance" /\ p = head)

\* The ring holds no zero byte when the boot code comes to place a character.
NoZeros ==
  pc \notin Flushing \cup {"user"} =>
    \A p \in Index : InRing(p, head, tail) => buf[p] # 0

\* The buffer is full when io_buffer_place flushes it.
FullBuffer ==
  pc \in Flushing /\ caller = "sanity" => \A p \in Index : p # head => buf[p] # 0

\* What io_buffer_pop skips when a handler has moved tail_ptr under its hands
\* is settled: the cell at tail_ptr before the load of the index, and after it
\* whatever the store of the index takes out of the ring.
SkippedSettled ==
  /\ pc \in Flushing => SettledAfterZero(tail)
  /\ pc = "load" /\ head # tail => Settled(buf[tail])
  /\ pc = "store" =>
       /\ SettledAfterZero(Succ(reg))
       /\ \A p \in Index :
            InRing(p, head, tail) => InRing(p, head, Succ(reg)) \/ Settled(buf[p])

\* Where the characters are as long as no key is echoed inside a call.
CellsInv ==
  NoneLost /\ StaleSettled /\ NoZeros /\ FullBuffer /\ SkippedSettled

\* The inductive invariant about the characters.
LossInv ==
  Calm => /\ FlowInv
          /\ (pc = "overflow" /\ head = tail) \/ CellsInv

\* The first index of the ring whose character the boot code does not hold.
Rest == IF pc \in {"load", "store"} THEN Succ(tail) ELSE tail

\* The number of characters that are shown or that the boot code is showing.
Taken == Len(screen) + IF pc \in Popping THEN 1 ELSE 0

\* From t to h the buffer b holds the characters that follow character m.
Filled(b, h, t, m) ==
  \A p \in Index : InRing(p, h, t) => b[p] = m + Dist(p, t) + 1

\* The screen, the popped character, the buffer and the character in hand are
\* the characters in their order, and no check of io_buffer_place fails.
Order ==
  /\ panicked \in {"none", "serial"}
  /\ \A k \in 1 .. Len(screen) : screen[k] = k
  /\ pc \in Popping => popped = Len(screen) + 1
  /\ Filled(buf, head, Rest, Taken)
  /\ printed = Taken + Dist(head, Rest) + (IF Holding THEN 1 ELSE 0)
  /\ pc \in {"pop", "load", "store"} => head # tail
  /\ pc = "store" => reg = tail
  /\ pc \in {"sanity", "index", "put", "advance"} => next_head # tail
  /\ pc = "overflow" => head # tail

\* That is so as long as no handler ran inside a call.
OrderInv == raced = {} => Order
-----------------------------------------------------------------------------
(* The indices of the ring. *)

\* A number is its own remainder, or one turn of the ring away from it.
LEMMA Remainder ==
  ASSUME NEW n \in Nat, n >= 1, NEW a \in Int
  PROVE  /\ 0 <= a /\ a < n => a % n = a
         /\ n <= a /\ a < 2 * n => a % n = a - n
         /\ 0 - n <= a /\ a < 0 => a % n = a + n
OBVIOUS

\* Succ is one step around the ring.
LEMMA SuccIndex ==
  ASSUME NEW i \in Index
  PROVE  /\ Succ(i) = IF i = Size - 1 THEN 0 ELSE i + 1
         /\ Succ(i) \in Index /\ Succ(i) # i
<1>1. Size \in Nat /\ Size >= 1 /\ Size >= 2 /\ i \in Int /\ 0 <= i /\ i < Size
  BY SizeAssumption DEF Index
<1>2. CASE i = Size - 1
  <2> DEFINE a == i + 1
  <2>1. a \in Int /\ Size <= a /\ a < 2 * Size
    BY <1>1, <1>2
  <2> HIDE DEF a
  <2>2. a % Size = a - Size
    BY <1>1, <2>1, Remainder
  <2> QED
    BY <1>1, <1>2, <2>2 DEF Succ, Index, a
<1>3. CASE i # Size - 1
  <2> DEFINE a == i + 1
  <2>1. a \in Int /\ 0 <= a /\ a < Size
    BY <1>1, <1>3
  <2> HIDE DEF a
  <2>2. a % Size = a
    BY <1>1, <2>1, Remainder
  <2> QED
    BY <1>1, <1>3, <2>2 DEF Succ, Index, a
<1> QED
  BY <1>2, <1>3

\* The distance of two indices is the remainder of their difference.
LEMMA DistIndex ==
  ASSUME NEW h \in Index, NEW t \in Index
  PROVE  (h - t) % Size = Dist(h, t) /\ Dist(h, t) \in 0 .. Size - 1
<1>1. Size \in Nat /\ Size >= 1 /\ h \in 0 .. Size - 1 /\ t \in 0 .. Size - 1
  BY SizeAssumption DEF Index
<1>2. CASE t <= h
  <2> DEFINE a == h - t
  <2>1. a \in Int /\ 0 <= a /\ a < Size
    BY <1>1, <1>2
  <2> HIDE DEF a
  <2>2. a % Size = a
    BY <1>1, <2>1, Remainder
  <2> QED
    BY <1>1, <1>2, <2>2 DEF Dist, a
<1>3. CASE ~(t <= h)
  <2> DEFINE a == h - t
  <2>1. a \in Int /\ 0 - Size <= a /\ a < 0
    BY <1>1, <1>3
  <2> HIDE DEF a
  <2>2. a % Size = a + Size
    BY <1>1, <2>1, Remainder
  <2> QED
    BY <1>1, <1>3, <2>2 DEF Dist, a
<1> QED
  BY <1>2, <1>3

\* The index n steps from t.
Ahead(t, n) == IF t + n < Size THEN t + n ELSE t + n - Size

\* Going n steps from t.
LEMMA AheadIndex ==
  ASSUME NEW t \in Index, NEW n \in 0 .. Size - 1
  PROVE  /\ (t + n) % Size = Ahead(t, n)
         /\ Ahead(t, n) \in Index /\ Dist(Ahead(t, n), t) = n
<1>1. Size \in Nat /\ Size >= 1 /\ t \in 0 .. Size - 1
  BY SizeAssumption DEF Index
<1>2. CASE t + n < Size
  <2> DEFINE a == t + n
  <2>1. a \in Int /\ 0 <= a /\ a < Size
    BY <1>1, <1>2
  <2> HIDE DEF a
  <2>2. a % Size = a
    BY <1>1, <2>1, Remainder
  <2> QED
    BY <1>1, <1>2, <2>2 DEF Ahead, Dist, Index, a
<1>3. CASE ~(t + n < Size)
  <2> DEFINE a == t + n
  <2>1. a \in Int /\ Size <= a /\ a < 2 * Size
    BY <1>1, <1>3
  <2> HIDE DEF a
  <2>2. a % Size = a - Size
    BY <1>1, <2>1, Remainder
  <2> QED
    BY <1>1, <1>3, <2>2 DEF Ahead, Dist, Index, a
<1> QED
  BY <1>2, <1>3

\* An index is as far ahead of t as it is distant from it.
LEMMA AheadDist ==
  ASSUME NEW t \in Index, NEW p \in Index
  PROVE  Ahead(t, Dist(p, t)) = p
BY SizeAssumption DEF Ahead, Dist, Index

\* The indices in the ring are those nearer to t than the head.
LEMMA InRingDist ==
  ASSUME NEW h \in Index, NEW t \in Index, NEW p \in Index
  PROVE  InRing(p, h, t) <=> Dist(p, t) < Dist(h, t)
BY SizeAssumption DEF InRing, Dist, Index

\* The bytes in the ring, in their order.
LEMMA ContentFacts ==
  ASSUME NEW b \in [Index -> Nat], NEW h \in Index, NEW t \in Index
  PROVE  /\ Content(b, h, t) \in Seq(Nat)
         /\ Len(Content(b, h, t)) = Dist(h, t)
         /\ \A k \in 1 .. Dist(h, t) :
              /\ Ahead(t, k - 1) \in Index
              /\ Content(b, h, t)[k] = b[Ahead(t, k - 1)]
<1> DEFINE n == (h - t) % Size
<1>1. n = Dist(h, t) /\ n \in 0 .. Size - 1 /\ n \in Nat
  BY DistIndex, SizeAssumption
<1>2. ASSUME NEW k \in 1 .. n
      PROVE  (t + k - 1) % Size = Ahead(t, k - 1) /\ Ahead(t, k - 1) \in Index
  <2>1. k - 1 \in 0 .. Size - 1 /\ t + (k - 1) = t + k - 1
    BY <1>1, <1>2, SizeAssumption DEF Index
  <2> HIDE DEF n
  <2>2. (t + (k - 1)) % Size = Ahead(t, k - 1) /\ Ahead(t, k - 1) \in Index
    BY <2>1, AheadIndex
  <2> QED
    BY <2>1, <2>2
<1> HIDE DEF n
<1>3. Content(b, h, t) = [k \in 1 .. n |-> b[(t + k - 1) % Size]]
  BY DEF Content, n
<1>4. \A k \in 1 .. n : b[(t + k - 1) % Size] \in Nat
  BY <1>2
<1>5. Content(b, h, t) \in Seq(Nat) /\ Len(Content(b, h, t)) = n
  BY <1>1, <1>3, <1>4, IsASeq
<1>6. \A k \in 1 .. n : /\ Ahead(t, k - 1) \in Index
                        /\ Content(b, h, t)[k] = b[Ahead(t, k - 1)]
  BY <1>2, <1>3
<1> QED
  BY <1>1, <1>5, <1>6

\* A byte is among them when it is at an index in the ring.
LEMMA ContentContains ==
  ASSUME NEW b \in [Index -> Nat], NEW h \in Index, NEW t \in Index, NEW v
  PROVE  Contains(Content(b, h, t), v)
           <=> \E p \in Index : InRing(p, h, t) /\ b[p] = v
<1> DEFINE c == Content(b, h, t)
<1>1. /\ Len(c) = Dist(h, t) /\ Dist(h, t) \in 0 .. Size - 1
      /\ \A k \in 1 .. Dist(h, t) : /\ Ahead(t, k - 1) \in Index
                                    /\ c[k] = b[Ahead(t, k - 1)]
  BY ContentFacts, DistIndex
<1> HIDE DEF c
<1>2. ASSUME NEW k \in 1 .. Len(c), c[k] = v
      PROVE  \E p \in Index : InRing(p, h, t) /\ b[p] = v
  <2>1. k - 1 \in 0 .. Size - 1 /\ k - 1 < Dist(h, t)
    BY <1>1, SizeAssumption
  <2>2. Dist(Ahead(t, k - 1), t) = k - 1
    BY <2>1, AheadIndex
  <2>3. InRing(Ahead(t, k - 1), h, t)
    BY <1>1, <2>1, <2>2, InRingDist
  <2> QED
    BY <1>1, <1>2, <2>3
<1>3. ASSUME NEW p \in Index, InRing(p, h, t), b[p] = v
      PROVE  \E k \in 1 .. Len(c) : c[k] = v
  <2>1. Dist(p, t) \in 0 .. Size - 1 /\ Dist(p, t) < Dist(h, t)
    BY <1>3, InRingDist, DistIndex
  <2>2. Ahead(t, Dist(p, t)) = p
    BY AheadDist
  <2> DEFINE d == Dist(p, t)
  <2>3. d + 1 \in 1 .. Len(c) /\ (d + 1) - 1 = d
    BY <1>1, <2>1
  <2> HIDE DEF d
  <2>4. c[d + 1] = b[Ahead(t, d)]
    BY <1>1, <2>3
  <2> QED
    BY <1>3, <2>2, <2>3, <2>4 DEF d
<1> QED
  BY <1>2, <1>3 DEF Contains, c

\* Any set of natural numbers that is not empty has a least element.
LEMMA LeastNatural ==
  ASSUME NEW S, S \subseteq Nat, S # {}
  PROVE  Min(S) \in S /\ \A k \in S : Min(S) <= k
<1>1. PICK n \in S : \A k \in S : ~(<<k, n>> \in OpToRel(<, Nat))
  BY WFMin, NatLessThanWellFounded
<1>2. \A k \in S : ~(k < n)
  BY <1>1 DEF OpToRel
<1>3. \A k \in S : n <= k
  BY <1>2
<1> QED
  BY <1>3 DEF Min

\* io_buffer_flush_to_screen shows what is in the ring, all of it or what is
\* before the first zero byte, and moves tail_ptr to the head or behind the zero.
LEMMA FlushedFacts ==
  ASSUME buf \in [Index -> Nat], head \in Index, NEW t \in Index
  PROVE  /\ Flushed(t).tail \in Index /\ Flushed(t).text \in Seq(Nat)
         /\ \/ /\ Flushed(t).tail = head
               /\ Flushed(t).text = Content(buf, head, t)
               /\ \A p \in Index : InRing(p, head, t) => buf[p] # 0
            \/ \E z \in Index :
                 /\ InRing(z, head, t) /\ buf[z] = 0
                 /\ Flushed(t).tail = Succ(z)
                 /\ \A p \in Index :
                      InRing(p, z, t) => Contains(Flushed(t).text, buf[p])
<1> DEFINE c == Content(buf, head, t)
           zeros == {i \in DOMAIN c : c[i] = 0}
           d == Dist(head, t)
<1>1. /\ c \in Seq(Nat) /\ Len(c) = d /\ d \in 0 .. Size - 1 /\ d \in Nat
      /\ DOMAIN c = 1 .. d
      /\ \A k \in 1 .. d : Ahead(t, k - 1) \in Index /\ c[k] = buf[Ahead(t, k - 1)]
  <2>1. /\ c \in Seq(Nat) /\ Len(c) = d
        /\ \A k \in 1 .. d : Ahead(t, k - 1) \in Index /\ c[k] = buf[Ahead(t, k - 1)]
    BY ContentFacts
  <2>2. d \in 0 .. Size - 1 /\ d \in Nat
    BY DistIndex, SizeAssumption
  <2> HIDE DEF c, d
  <2>3. DOMAIN c = 1 .. d
    BY <2>1, LenProperties
  <2> QED
    BY <2>1, <2>2, <2>3
<1> HIDE DEF c, d
<1>2. CASE zeros = {}
  <2>1. Flushed(t) = [text |-> SubSeq(c, 1, Len(c)), tail |-> (t + Len(c)) % Size]
    BY <1>2 DEF Flushed, c
  <2>2. SubSeq(c, 1, Len(c)) = c
    BY <1>1, SubSeqFull
  <2>3. (t + Len(c)) % Size = Ahead(t, d)
    BY <1>1, AheadIndex
  <2>4. Ahead(t, d) = head
    BY AheadDist DEF d
  <2>5. ~Contains(c, 0)
    BY <1>1, <1>2 DEF Contains
  <2>6. \A p \in Index : InRing(p, head, t) => buf[p] # 0
    BY <2>5, ContentContains DEF c
  <2> QED
    BY <1>1, <2>1, <2>2, <2>3, <2>4, <2>6 DEF c
<1>3. CASE zeros # {}
  <2> DEFINE m == Min(zeros)
             z == Ahead(t, m - 1)
  <2>1. zeros \subseteq Nat
    BY <1>1
  <2>2. m \in zeros /\ \A k \in zeros : m <= k
    BY <1>3, <2>1, LeastNatural
  <2> HIDE DEF m
  <2>3. m \in 1 .. d /\ c[m] = 0
    BY <1>1, <2>2
  <2>5. Flushed(t) = [text |-> SubSeq(c, 1, m - 1), tail |-> (t + m) % Size]
    BY <1>3 DEF Flushed, c, m
  <2> HIDE DEF zeros
  <2>6. /\ m \in 0 .. Size - 1 /\ m - 1 \in 0 .. Size - 1 /\ m - 1 < d
        /\ m - 1 \in Int
    BY <1>1, <2>3, SizeAssumption
  <2>7. /\ (t + m) % Size = Ahead(t, m) /\ Ahead(t, m) \in Index
        /\ z \in Index /\ Dist(z, t) = m - 1
    BY <2>6, AheadIndex
  <2>8. Ahead(t, m) = Succ(z)
    <3>1. Succ(z) = IF z = Size - 1 THEN 0 ELSE z + 1
      BY <2>7, SuccIndex
    <3> QED
      BY <2>3, <2>6, <3>1, SizeAssumption DEF Ahead, Index
  <2>9. InRing(z, head, t) /\ buf[z] = 0
    BY <1>1, <2>3, <2>6, <2>7, InRingDist DEF d
  <2> HIDE DEF z
  <2>10. /\ SubSeq(c, 1, m - 1) \in Seq(Nat)
         /\ Len(SubSeq(c, 1, m - 1)) = m - 1
         /\ \A i \in 1 .. m - 1 : SubSeq(c, 1, m - 1)[i] = c[i]
    <3>1. \A i \in 1 .. m - 1 : c[i] \in Nat
      BY <1>1, <2>3, ElementOfSeq
    <3> QED
      BY <2>3, <2>6, <3>1, SubSeqProperties
  <2>11. ASSUME NEW p \in Index, InRing(p, z, t)
         PROVE  Contains(SubSeq(c, 1, m - 1), buf[p])
    <3> DEFINE e == Dist(p, t)
    <3>1. e \in 0 .. Size - 1 /\ e < m - 1
      BY <2>7, <2>11, InRingDist, DistIndex
    <3>2. Ahead(t, e) = p
      BY AheadDist
    <3> HIDE DEF e
    <3>3. e + 1 \in 1 .. d /\ e + 1 \in 1 .. m - 1 /\ (e + 1) - 1 = e
      BY <1>1, <2>3, <3>1
    <3>4. c[e + 1] = buf[Ahead(t, e)]
      BY <1>1, <3>3
    <3> QED
      BY <2>10, <3>2, <3>3, <3>4 DEF Contains
  <2> QED
    BY <2>5, <2>7, <2>8, <2>9, <2>10, <2>11
<1> QED
  BY <1>2, <1>3

\* What a flush does to the ring: the cells that leave it are shown, none is
\* added, and something leaves a ring that is not empty.
LEMMA FlushedRing ==
  ASSUME buf \in [Index -> Nat], head \in Index, NEW t \in Index
  PROVE  /\ \A p \in Index : InRing(p, head, t) =>
              \/ InRing(p, head, Flushed(t).tail)
              \/ buf[p] = 0
              \/ Contains(Flushed(t).text, buf[p])
         /\ \A p \in Index : InRing(p, head, Flushed(t).tail) => InRing(p, head, t)
         /\ \A p, q \in Index :
              InRing(q, head, Flushed(t).tail) /\ InRing(p, q, Flushed(t).tail)
                => InRing(p, q, t)
         /\ head # t => Flushed(t).tail # t
         /\ \/ Flushed(t).tail = head
            \/ \E z \in Index :
                 /\ InRing(z, head, t) /\ buf[z] = 0
                 /\ \A q \in Index : InRing(q, head, Flushed(t).tail) => InRing(z, q, t)
<1> DEFINE u == Flushed(t).tail
<1>1. u \in Index
  BY FlushedFacts
<1>2. CASE /\ u = head
           /\ Flushed(t).text = Content(buf, head, t)
  <2>1. \A p \in Index : InRing(p, head, t) => Contains(Flushed(t).text, buf[p])
    BY <1>2, ContentContains
  <2>2. \A p \in Index : ~InRing(p, head, head)
    BY SizeAssumption DEF InRing, Index
  <2> HIDE DEF u
  <2> QED
    BY <1>2, <2>1, <2>2 DEF u
<1>3. ASSUME NEW z \in Index, InRing(z, head, t), buf[z] = 0, u = Succ(z),
             \A p \in Index : InRing(p, z, t) => Contains(Flushed(t).text, buf[p])
      PROVE  /\ \A p \in Index : InRing(p, head, t) =>
                  \/ InRing(p, head, u)
                  \/ buf[p] = 0
                  \/ Contains(Flushed(t).text, buf[p])
             /\ \A p \in Index : InRing(p, head, u) => InRing(p, head, t)
             /\ \A p, q \in Index :
                  InRing(q, head, u) /\ InRing(p, q, u) => InRing(p, q, t)
             /\ head # t => u # t
             /\ \A q \in Index : InRing(q, head, u) => InRing(z, q, t)
  <2> HIDE DEF u
  <2>1. u = IF z = Size - 1 THEN 0 ELSE z + 1
    BY <1>3, SuccIndex
  <2>2. \A p \in Index : InRing(p, head, t) => InRing(p, z, t) \/ p = z \/ InRing(p, head, u)
    BY <1>1, <1>3, <2>1, SizeAssumption DEF InRing, Index
  <2>3. \A p \in Index : InRing(p, head, u) => InRing(p, head, t)
    BY <1>1, <1>3, <2>1, SizeAssumption DEF InRing, Index
  <2>4. \A p, q \in Index : InRing(q, head, u) /\ InRing(p, q, u) => InRing(p, q, t)
    BY <1>1, <1>3, <2>1, SizeAssumption DEF InRing, Index
  <2>5. head # t => u # t
    BY <1>1, <1>3, <2>1, SizeAssumption DEF InRing, Index
  <2>6. \A q \in Index : InRing(q, head, u) => InRing(z, q, t)
    BY <1>1, <1>3, <2>1, SizeAssumption DEF InRing, Index
  <2> QED
    BY <1>3, <2>2, <2>3, <2>4, <2>5, <2>6
<1> QED
  BY <1>2, <1>3, FlushedFacts
-----------------------------------------------------------------------------
(* Types. *)

\* The constants are numbers.
LEMMA Constants ==
  /\ Size \in Nat /\ Size >= 2 /\ 0 \in Index
  /\ FifoDepth \in Nat /\ FifoDepth >= 2
  /\ EarlyChars \in Nat /\ EarlyChars >= 1
BY SizeAssumption, FifoAssumption, EarlyCharsAssumption DEF Index

\* A sequence and what is put behind it.
LEMMA Appended ==
  ASSUME NEW s \in Seq(Nat), NEW e \in Nat
  PROVE  /\ Append(s, e) \in Seq(Nat)
         /\ Len(Append(s, e)) = Len(s) + 1
         /\ \A i \in 1 .. Len(s) : Append(s, e)[i] = s[i]
         /\ Append(s, e)[Len(s) + 1] = e
BY AppendProperties

\* The variables keep their types.
LEMMA TypeStep ==
  ASSUME TypeInv, [Next]_vars
  PROVE  TypeInv'
<1> USE DEF TypeInv
<1>1. printed + 1 \in Nat /\ screen \in Seq(Nat)
  OBVIOUS
<1>2. Append(screen, printed + 1) \in Seq(Nat) /\ Append(screen, popped) \in Seq(Nat)
  BY <1>1, Appended
<1>3. \A i \in Index : Succ(i) \in Index
  BY SuccIndex
<1>4. CASE EarlyWait /\ UNCHANGED raced
  BY <1>4 DEF EarlyWait, serial_write_wait, port, ring, locals, Labels, Unlogged,
     Placing, Flushing
<1>5. CASE EarlyPrint /\ UNCHANGED raced
  BY <1>2, <1>5 DEF EarlyPrint, serial_write_byte, At, Goto, ring, locals, Labels,
     Unlogged, Placing, Flushing
<1>6. CASE SerialStarts /\ UNCHANGED raced
  BY <1>6 DEF SerialStarts, serial_init_write, serial_init_test, ring, locals,
     Labels, Unlogged, Placing, Flushing
<1>7. CASE (Printf \/ Wait) /\ UNCHANGED raced
  BY <1>7 DEF Printf, Wait, serial_write_wait, At, Goto, port, ring, locals,
     Labels, Unlogged, Placing, Flushing
<1>8. CASE Out /\ UNCHANGED raced
  BY <1>8 DEF Out, serial_write_byte, At, Goto, ring, Labels, Unlogged, Placing, Flushing
<1>9. CASE RingStep /\ UNCHANGED raced
  <2> USE DEF At, Goto, port, ring, locals, Labels, Unlogged, Placing, Flushing
  <2>0. UNCHANGED printed /\ UNCHANGED raced
    BY <1>9 DEF RingStep
  <2>1. CASE CheckInit
    BY <2>0, <2>1 DEF CheckInit
  <2>2. CASE Claim
    BY <2>0, <2>2 DEF Claim
  <2>3. CASE TakePage
    BY <2>0, <2>3 DEF TakePage
  <2>4. CASE LookAhead
    BY <1>3, <2>0, <2>4 DEF LookAhead
  <2>5. CASE FullTest
    BY <2>0, <2>5 DEF FullTest
  <2>6. CASE SanityTest
    BY <2>0, <2>6 DEF SanityTest
  <2>7. CASE LoadIndex
    BY <2>0, <2>7 DEF LoadIndex
  <2>8. CASE PutChar
    BY <2>0, <2>8 DEF PutChar
  <2>9. CASE AdvanceHead
    BY <2>0, <2>9 DEF AdvanceHead
  <2>10. CASE OverflowTest
    BY <2>0, <2>10 DEF OverflowTest
  <2>11. CASE Flush
    BY <2>0, <2>11 DEF Flush
  <2>12. CASE EmptyTest
    BY <2>0, <2>12 DEF EmptyTest
  <2>13. CASE PopChar
    BY <2>0, <2>13 DEF PopChar
  <2>14. CASE LoadTail
    BY <2>0, <2>14 DEF LoadTail
  <2>15. CASE StoreTail
    BY <1>3, <2>0, <2>15 DEF StoreTail
  <2>16. CASE ShowChar
    BY <1>2, <2>0, <2>16 DEF ShowChar
  <2> QED
    BY <1>9, <2>1, <2>2, <2>3, <2>4, <2>5, <2>6, <2>7, <2>8, <2>9, <2>10, <2>11,
       <2>12, <2>13, <2>14, <2>15, <2>16 DEF RingStep
<1>10. CASE Transmit
  BY <1>10 DEF Transmit, transmit, ring, locals
<1>11. CASE Timer
  <2>1. Flushed(tail).tail \in Index /\ Flushed(tail).text \in Seq(Nat)
    BY FlushedFacts
  <2>2. screen \o Flushed(tail).text \in Seq(Nat)
    BY <2>1, ConcatProperties
  <2> QED
    BY <1>11, <2>1, <2>2 DEF Timer, Interrupt, port, locals
<1>12. CASE TimerEcho
  <2> DEFINE first == IF is_init THEN Flushed(tail) ELSE [text |-> <<>>, tail |-> tail]
             again == IF Succ(head) = first.tail THEN Flushed(first.tail)
                      ELSE [text |-> <<>>, tail |-> first.tail]
             page == IF is_init THEN buf ELSE [i \in Index |-> 0]
  <2>1. first.tail \in Index /\ first.text \in Seq(Nat)
    BY FlushedFacts
  <2>2. /\ tail' = again.tail /\ screen' = screen \o first.text \o again.text
        /\ buf' = [page EXCEPT ![head] = printed'] /\ head' = Succ(head)
        /\ printed' = printed + 1 /\ pc' = pc /\ UNCHANGED locals
        /\ pc \notin Unlogged
    BY <1>12 DEF TimerEcho, EchoLogged, serial_write_byte, Interrupt
  <2> HIDE DEF first
  <2>3. again.tail \in Index /\ again.text \in Seq(Nat)
    BY <2>1, FlushedFacts
  <2> HIDE DEF again
  <2>4. screen \o first.text \in Seq(Nat)
    BY <2>1, ConcatProperties
  <2>5. (screen \o first.text) \o again.text \in Seq(Nat)
    BY <2>3, <2>4, ConcatProperties
  <2>6. [page EXCEPT ![head] = printed'] \in [Index -> Nat]
    BY <1>1, <2>2
  <2> HIDE DEF page
  <2> QED
    BY <1>1, <1>3, <2>2, <2>3, <2>5, <2>6 DEF locals
<1>13. CASE TimerEchoDirect
  <2> DEFINE f == IF is_init THEN Flushed(tail) ELSE [text |-> <<>>, tail |-> tail]
  <2>1. f.tail \in Index /\ f.text \in Seq(Nat)
    BY FlushedFacts
  <2>2. /\ tail' = f.tail /\ screen' = Append(screen \o f.text, printed')
        /\ UNCHANGED <<buf, head>>
        /\ printed' = printed + 1 /\ pc' = pc /\ UNCHANGED locals
        /\ pc \notin Unlogged
    BY <1>13 DEF TimerEchoDirect, EchoLogged, serial_write_byte, Interrupt
  <2> HIDE DEF f
  <2>3. screen \o f.text \in Seq(Nat)
    BY <2>1, ConcatProperties
  <2>4. Append(screen \o f.text, printed + 1) \in Seq(Nat)
    BY <1>1, <2>3, Appended
  <2> QED
    BY <1>1, <2>1, <2>2, <2>4 DEF locals
<1>14. CASE UNCHANGED vars
  BY <1>14 DEF vars, ring, locals
<1> QED
  BY <1>4, <1>5, <1>6, <1>7, <1>8, <1>9, <1>10, <1>11, <1>12, <1>13, <1>14
  DEF Next, BootStep, Spin, Stopped, Quiet

\* The boot code and the ring start with these types.
LEMMA TypeInit == Init => TypeInv
BY Constants, EmptySeq DEF Init, SerialInit, TypeInv, Labels, Unlogged, Placing, Flushing
-----------------------------------------------------------------------------
(* The serial log. *)

\* The characters on a wire.
Chars(w) == [k \in DOMAIN w |-> w[k].char]

\* They are a sequence, one character for each.
LEMMA CharsSeq ==
  ASSUME NEW w \in Seq(Sending)
  PROVE  Chars(w) \in Seq(Nat) /\ Len(Chars(w)) = Len(w)
<1>1. DOMAIN w = 1 .. Len(w) /\ Len(w) \in Nat
  BY LenProperties
<1>2. \A k \in 1 .. Len(w) : w[k].char \in Nat
  <2>1. \A k \in 1 .. Len(w) : w[k] \in Sending
    BY ElementOfSeq
  <2> QED
    BY <2>1 DEF Sending
<1>3. Chars(w) = [k \in 1 .. Len(w) |-> w[k].char]
  BY <1>1 DEF Chars
<1> QED
  BY <1>1, <1>2, <1>3, IsASeq

\* One character more on the wire.
LEMMA CharsAppend ==
  ASSUME NEW w \in Seq(Sending), NEW r \in Sending
  PROVE  Chars(Append(w, r)) = Append(Chars(w), r.char)
<1> DEFINE x == Append(w, r)
           a == Chars(x)
           b == Append(Chars(w), r.char)
<1>1. Len(w) \in Nat /\ DOMAIN w = 1 .. Len(w) /\ r.char \in Nat
  BY LenProperties DEF Sending
<1>2. /\ x \in Seq(Sending) /\ Len(x) = Len(w) + 1
      /\ \A i \in 1 .. Len(w) : x[i] = w[i]
      /\ x[Len(w) + 1] = r
  BY AppendProperties
<1> HIDE DEF x
<1>3. a \in Seq(Nat) /\ Len(a) = Len(w) + 1 /\ DOMAIN x = 1 .. Len(w) + 1
  BY <1>2, CharsSeq, LenProperties
<1>4. Chars(w) \in Seq(Nat) /\ Len(Chars(w)) = Len(w)
  BY CharsSeq
<1>5. /\ b \in Seq(Nat) /\ Len(b) = Len(w) + 1
      /\ \A i \in 1 .. Len(w) : b[i] = Chars(w)[i]
      /\ b[Len(w) + 1] = r.char
  BY <1>1, <1>4, Appended
<1>6. \A i \in 1 .. Len(w) + 1 : a[i] = x[i].char
  BY <1>3 DEF Chars
<1>7. \A i \in 1 .. Len(w) : Chars(w)[i] = w[i].char
  BY <1>1 DEF Chars
<1> HIDE DEF a, b
<1>8. ASSUME NEW i \in 1 .. Len(w) + 1 PROVE a[i] = b[i]
  BY <1>1, <1>2, <1>5, <1>6, <1>7, SMTT(30)
<1>9. a = b
  BY <1>3, <1>5, <1>8, SeqEqual
<1> QED
  BY <1>9 DEF a, b, x

\* A character goes from the transmitter to the wire.
LEMMA HeadMoves ==
  ASSUME NEW s \in Seq(Nat), NEW t \in Seq(Nat), t # <<>>
  PROVE  Append(s, Head(t)) \o Tail(t) = s \o t
<1>1. Len(t) \in Nat /\ Len(t) >= 1
  BY EmptySeq, LenProperties
<1>2. t = <<t[1]>> \o SubSeq(t, 2, Len(t))
  <2>1. 1 \in 1 .. Len(t) /\ Len(t) \in 1 .. Len(t)
    BY <1>1
  <2>2. SubSeq(t, 1, Len(t)) = <<t[1]>> \o SubSeq(t, 1 + 1, Len(t))
    BY <2>1, SubSeqRecursiveFirst
  <2> QED
    BY <2>2, SubSeqFull
<1>3. /\ Tail(t) = SubSeq(t, 2, Len(t)) /\ Tail(t) \in Seq(Nat)
      /\ Head(t) = t[1] /\ Head(t) \in Nat
  BY TailIsSubSeq, HeadTailProperties
<1>4. Append(s, Head(t)) = s \o <<Head(t)>> /\ <<Head(t)>> \in Seq(Nat)
  BY <1>3, AppendIsConcat
<1>5. (s \o <<Head(t)>>) \o Tail(t) = s \o (<<Head(t)>> \o Tail(t))
  BY <1>3, <1>4, ConcatAssociative
<1> QED
  BY <1>2, <1>3, <1>4, <1>5

\* A character goes into the transmitter.
LEMMA LastAdded ==
  ASSUME NEW s \in Seq(Nat), NEW t \in Seq(Nat), NEW e \in Nat
  PROVE  s \o Append(t, e) = Append(s \o t, e)
<1>1. Append(t, e) = t \o <<e>> /\ <<e>> \in Seq(Nat)
  BY AppendIsConcat
<1>2. s \o t \in Seq(Nat)
  BY ConcatProperties
<1>3. Append(s \o t, e) = (s \o t) \o <<e>>
  BY <1>2, AppendIsConcat
<1> QED
  BY <1>1, <1>3, ConcatAssociative

\* The numbers after m, one more.
LEMMA CountOn ==
  ASSUME NEW m \in Nat, NEW n \in Nat
  PROVE  Append([i \in 1 .. n |-> m + i], m + n + 1) = [i \in 1 .. n + 1 |-> m + i]
<1> DEFINE x == [i \in 1 .. n |-> m + i]
           y == [i \in 1 .. n + 1 |-> m + i]
<1>1. /\ x \in Seq(Nat) /\ Len(x) = n /\ y \in Seq(Nat) /\ Len(y) = n + 1
      /\ \A i \in 1 .. n : x[i] = m + i
      /\ \A i \in 1 .. n + 1 : y[i] = m + i
  <2>1. \A i \in 1 .. n : m + i \in Nat
    OBVIOUS
  <2>2. \A i \in 1 .. n + 1 : m + i \in Nat
    OBVIOUS
  <2>3. x \in Seq(Nat) /\ Len(x) = n
    BY <2>1, IsASeq
  <2>4. n + 1 \in Nat
    OBVIOUS
  <2>5. y \in Seq(Nat) /\ Len(y) = n + 1
    BY <2>2, <2>4, IsASeq
  <2> QED
    BY <2>3, <2>5
<1> HIDE DEF x, y
<1>2. m + n + 1 \in Nat
  OBVIOUS
<1>3. /\ Append(x, m + n + 1) \in Seq(Nat) /\ Len(Append(x, m + n + 1)) = n + 1
      /\ \A i \in 1 .. n : Append(x, m + n + 1)[i] = x[i]
      /\ Append(x, m + n + 1)[n + 1] = m + n + 1
  BY <1>1, <1>2, Appended
<1>4. \A i \in 1 .. n + 1 : Append(x, m + n + 1)[i] = y[i]
  BY <1>1, <1>3
<1>5. Append(x, m + n + 1) = y
  BY <1>1, <1>3, <1>4, SeqEqual
<1> QED
  BY <1>5 DEF x, y

\* The bits of the bytes that serial_init writes.
LEMMA Bits ==
  /\ Bit(128, 7) = TRUE /\ Bit(3, 7) = FALSE
  /\ Bit(199, 0) = TRUE /\ Bit(199, 1) = TRUE /\ Bit(199, 2) = TRUE
  /\ Bit(11, 4) = FALSE /\ Bit(30, 4) = TRUE /\ Bit(15, 4) = FALSE
<1>1. 2 ^ 0 = 1 /\ 2 ^ 1 = 2 /\ 2 ^ 2 = 4 /\ 2 ^ 4 = 16 /\ 2 ^ 7 = 128
  OBVIOUS
<1> QED
  BY <1>1 DEF Bit

\* A chip with these registers.
Registers(dlab, divisor, fifo, loop, tx, rx) ==
  [dlab |-> dlab, divisor |-> divisor, fifo |-> fifo, loop |-> loop,
   tx |-> tx, rx |-> rx]

\* The transmitter changes.
LEMMA TxChange ==
  ASSUME NEW u, NEW a, NEW b, NEW c, NEW d, NEW x,
         u = Registers(a, b, c, d, u.tx, u.rx)
  PROVE  /\ [u EXCEPT !.tx = x] = Registers(a, b, c, d, x, u.rx)
         /\ [u EXCEPT !.tx = x].tx = x /\ [u EXCEPT !.tx = x].rx = u.rx
BY DEF Registers

\* A byte for the transmitter.
LEMMA DataByte ==
  ASSUME NEW u, u.dlab = FALSE, NEW v
  PROVE  io_byte_out(u, 0, v) = [u EXCEPT !.tx = Loaded(u, v)]
BY DEF io_byte_out

\* A byte written when the log is open and at most one character is waiting.
LEMMA ByteLogged ==
  ASSUME OpenInv, Len(uart.tx) <= 1, printed \in Nat, wire \in Seq(Sending),
         serial_write_byte, pc' = "out" => Len(uart.tx) = 0
  PROVE  OpenInv' /\ wire' \in Seq(Sending) /\ next' = next
         /\ Len(uart'.tx) = Len(uart.tx) + 1
<1>1. /\ uart = OpenChip /\ uart.tx \in Seq(Nat) /\ present
      /\ uart' = io_byte_out(uart, 0, printed + 1) /\ printed' = printed + 1
      /\ present' = present /\ wire' = wire /\ next' = next
      /\ printed >= EarlyChars
  BY DEF OpenInv, serial_write_byte
<1> DEFINE tx == Append(uart.tx, printed + 1)
<1>2. Loaded(uart, printed + 1) = tx
  <2>1. uart.fifo = TRUE
    BY <1>1 DEF OpenChip
  <2>2. Len(uart.tx) < FifoDepth
    BY <1>1, LenProperties, Constants
  <2> QED
    BY <2>1, <2>2 DEF Loaded
<1>3. uart' = [uart EXCEPT !.tx = tx]
  <2>1. uart.dlab = FALSE
    BY <1>1 DEF OpenChip
  <2> QED
    <3>1. io_byte_out(uart, 0, printed + 1) = [uart EXCEPT !.tx = Loaded(uart, printed + 1)]
      BY <2>1, DataByte
    <3> QED
      BY <1>1, <1>2, <3>1
<1> HIDE DEF tx
<1>4. uart' = OpenChip' /\ uart'.tx = tx
  <2> DEFINE on == TRUE
             off == FALSE
  <2>1. uart = Registers(off, Wanted, on, off, uart.tx, uart.rx)
    BY <1>1 DEF OpenChip, Registers
  <2> HIDE DEF on, off
  <2>2. uart' = Registers(off, Wanted, on, off, tx, uart.rx)
    BY <1>3, <2>1, TxChange, SMTT(30)
  <2>3. uart'.tx = tx /\ uart'.rx = uart.rx
    BY <1>3, <2>1, TxChange
  <2> QED
    BY <2>2, <2>3 DEF OpenChip, Registers, on, off
<1>5. tx \in Seq(Nat) /\ Len(tx) = Len(uart.tx) + 1 /\ Len(uart.tx) \in Nat
  BY <1>1, Appended, LenProperties DEF tx
<1>6. Sent' \o uart'.tx = [i \in 1 .. printed' - EarlyChars |-> EarlyChars + i]
  <2> DEFINE n == printed - EarlyChars
  <2>1. n \in Nat /\ EarlyChars + n + 1 = printed + 1 /\ printed' - EarlyChars = n + 1
    BY <1>1, Constants
  <2>2. Sent \o uart.tx = [i \in 1 .. n |-> EarlyChars + i]
    BY DEF OpenInv
  <2>3. Sent \in Seq(Nat)
    BY CharsSeq DEF Sent, Chars
  <2>4. Sent \o tx = Append(Sent \o uart.tx, printed + 1)
    BY <1>1, <2>3, LastAdded, SMTT(30) DEF tx
  <2> HIDE DEF n
  <2>5. Append([i \in 1 .. n |-> EarlyChars + i], EarlyChars + n + 1)
          = [i \in 1 .. n + 1 |-> EarlyChars + i]
    BY <2>1, CountOn, Constants
  <2>6. Sent' = Sent
    BY <1>1 DEF Sent
  <2> QED
    BY <1>4, <2>1, <2>2, <2>4, <2>5, <2>6
<1>7. /\ Len(uart'.tx) <= 2 /\ printed' >= EarlyChars
      /\ pc' = "out" => Len(uart'.tx) <= 1
  BY <1>1, <1>4, <1>5, Constants
<1>8. (\A k \in DOMAIN wire : wire[k].divisor = Wanted)'
  BY <1>1 DEF OpenInv
<1> QED
  BY <1>1, <1>4, <1>5, <1>6, <1>7, <1>8 DEF OpenInv

\* A character on its way from the open log's transmitter.
LEMMA LoggedSent ==
  ASSUME OpenInv, wire \in Seq(Sending), transmit
  PROVE  OpenInv' /\ wire' \in Seq(Sending) /\ next' = next
<1> DEFINE r == [char |-> Head(uart.tx), divisor |-> uart.divisor]
<1>1. /\ uart = OpenChip /\ uart.tx \in Seq(Nat) /\ uart.tx # <<>>
      /\ present' = present /\ next' = next /\ printed' = printed /\ pc' = pc
  BY DEF OpenInv, transmit
<1>2. uart.loop = FALSE /\ uart.divisor = Wanted
  BY <1>1 DEF OpenChip
<1>3. uart' = [uart EXCEPT !.tx = Tail(uart.tx)] /\ wire' = Append(wire, r)
  BY <1>2 DEF transmit
<1>4. uart' = OpenChip' /\ uart'.tx = Tail(uart.tx)
  <2> DEFINE on == TRUE
             off == FALSE
             tx == Tail(uart.tx)
  <2>1. uart = Registers(off, Wanted, on, off, uart.tx, uart.rx)
    BY <1>1 DEF OpenChip, Registers
  <2> HIDE DEF on, off, tx
  <2>2. /\ [uart EXCEPT !.tx = tx] = Registers(off, Wanted, on, off, tx, uart.rx)
        /\ [uart EXCEPT !.tx = tx].tx = tx /\ [uart EXCEPT !.tx = tx].rx = uart.rx
    BY <2>1, TxChange
  <2>3. /\ uart' = Registers(off, Wanted, on, off, tx, uart.rx)
        /\ uart'.tx = tx /\ uart'.rx = uart.rx
    BY <1>3, <2>2 DEF tx
  <2> QED
    BY <2>3 DEF OpenChip, Registers, on, off, tx
<1>5. /\ Tail(uart.tx) \in Seq(Nat) /\ Len(Tail(uart.tx)) = Len(uart.tx) - 1
      /\ Head(uart.tx) \in Nat /\ Len(uart.tx) \in Nat
  BY <1>1, HeadTailProperties, LenProperties
<1>6. r \in Sending /\ r.char = Head(uart.tx) /\ r.divisor = Wanted
  BY <1>2, <1>5 DEF Sending, Wanted
<1> HIDE DEF r
<1>7. /\ wire' \in Seq(Sending) /\ DOMAIN wire' = 1 .. Len(wire) + 1
      /\ DOMAIN wire = 1 .. Len(wire) /\ Len(wire) \in Nat
      /\ \A k \in 1 .. Len(wire) : wire'[k] = wire[k]
      /\ wire'[Len(wire) + 1] = r
  BY <1>3, <1>6, AppendProperties, LenProperties
<1>8. Sent' = Append(Sent, Head(uart.tx)) /\ Sent \in Seq(Nat)
  BY <1>3, <1>6, CharsAppend, CharsSeq DEF Sent, Chars
<1>9. Sent' \o uart'.tx = Sent \o uart.tx
  BY <1>1, <1>4, <1>8, HeadMoves
<1>10. \A k \in DOMAIN wire' : wire'[k].divisor = Wanted
  <2>1. \A k \in 1 .. Len(wire) : wire[k].divisor = Wanted
    BY <1>7 DEF OpenInv
  <2>2. ASSUME NEW k \in 1 .. Len(wire) + 1 PROVE wire'[k].divisor = Wanted
    BY <1>6, <1>7, <2>1
  <2> QED
    BY <1>7, <2>2
<1>11. /\ Len(uart'.tx) <= 2 /\ printed' >= EarlyChars
       /\ pc' = "out" => Len(uart'.tx) <= 1
  BY <1>1, <1>4, <1>5 DEF OpenInv
<1>12. Sent' \o uart'.tx = [i \in 1 .. printed' - EarlyChars |-> EarlyChars + i]
  BY <1>1, <1>9 DEF OpenInv
<1> QED
  BY <1>1, <1>4, <1>5, <1>7, <1>10, <1>11, <1>12 DEF OpenInv

\* What the writes of serial_init do to the registers: the line control
\* register,
LEMMA WriteLineControl ==
  ASSUME NEW u, NEW a, NEW b, NEW c, NEW d, NEW t, NEW r,
         u = Registers(a, b, c, d, t, r), NEW v
  PROVE  io_byte_out(u, 3, v) = Registers(Bit(v, 7), b, c, d, t, r)
<1> DEFINE x == Bit(v, 7)
<1>1. io_byte_out(u, 3, v) = [u EXCEPT !.dlab = x]
  BY DEF io_byte_out
<1> HIDE DEF x
<1>2. [u EXCEPT !.dlab = x] = Registers(x, b, c, d, t, r)
  BY DEF Registers
<1> QED
  BY <1>1, <1>2 DEF x

\* the modem control register,
LEMMA WriteModemControl ==
  ASSUME NEW u, NEW a, NEW b, NEW c, NEW d, NEW t, NEW r,
         u = Registers(a, b, c, d, t, r), NEW v
  PROVE  io_byte_out(u, 4, v) = Registers(a, b, c, Bit(v, 4), t, r)
<1> DEFINE x == Bit(v, 4)
<1>1. io_byte_out(u, 4, v) = [u EXCEPT !.loop = x]
  BY DEF io_byte_out
<1> HIDE DEF x
<1>2. [u EXCEPT !.loop = x] = Registers(a, b, c, x, t, r)
  BY DEF Registers
<1> QED
  BY <1>1, <1>2 DEF x

\* the FIFO control register,
LEMMA WriteFifoControl ==
  ASSUME NEW u, NEW a, NEW b, NEW c, NEW d, NEW t, NEW r,
         u = Registers(a, b, c, d, t, r)
  PROVE  io_byte_out(u, 2, 199) = Registers(a, b, Bit(199, 0), d, <<>>, <<>>)
<1> DEFINE x == Bit(199, 0)
           e == <<>>
<1>1. io_byte_out(u, 2, 199) = [u EXCEPT !.fifo = x, !.tx = e, !.rx = e]
  BY Bits DEF io_byte_out
<1> HIDE DEF x, e
<1> DEFINE v == [u EXCEPT !.fifo = x]
           w == [v EXCEPT !.tx = e]
<1>2. [u EXCEPT !.fifo = x, !.tx = e, !.rx = e] = [w EXCEPT !.rx = e]
  OBVIOUS
<1>3. v = Registers(a, b, x, d, t, r)
  BY DEF Registers
<1> HIDE DEF v
<1>4. w = Registers(a, b, x, d, e, r)
  BY <1>3 DEF Registers
<1> HIDE DEF w
<1>5. [w EXCEPT !.rx = e] = Registers(a, b, x, d, e, e)
  BY <1>4 DEF Registers
<1> QED
  BY <1>1, <1>2, <1>5 DEF x, e

\* and, when DLAB is off, the transmitter and the interrupts, which the model
\* leaves out.
LEMMA WriteData ==
  ASSUME NEW u, NEW a, NEW b, NEW c, NEW d, NEW t, NEW r,
         u = Registers(a, b, c, d, t, r), ~a
  PROVE  /\ io_byte_out(u, 0, Probe) = Registers(a, b, c, d, Loaded(u, Probe), r)
         /\ io_byte_out(u, 1, 0) = u
<1>1. u.dlab = a
  BY DEF Registers
<1> DEFINE x == Loaded(u, Probe)
<1>2. ~u.dlab => /\ io_byte_out(u, 0, Probe) = [u EXCEPT !.tx = x]
                 /\ io_byte_out(u, 1, 0) = u
  BY DEF io_byte_out
<1> HIDE DEF x
<1>3. [u EXCEPT !.tx = x] = Registers(a, b, c, d, x, r)
  BY DEF Registers
<1> QED
  BY <1>1, <1>2, <1>3 DEF x

\* The control bits before write n of serial_init.
Dlab(n) == n \in 3 .. 5
Fifo(n) == n >= 7
Loop(n) == n >= 9
Low(n) == IF n >= 4 THEN 3 ELSE 12

\* They make up the chip.
LEMMA ChipRegisters ==
  Chip(next) = Registers(Dlab(next), [low |-> Low(next), high |-> 0], Fifo(next),
                         Loop(next), uart.tx, uart.rx)
BY DEF Chip, Registers, Dlab, Low, Fifo, Loop

\* A step reaches a stage of the chip.
LEMMA ChipReached ==
  ASSUME NEW tx, NEW rx,
         uart' = Registers(Dlab(next'), [low |-> Low(next'), high |-> 0],
                           Fifo(next'), Loop(next'), tx, rx)
  PROVE  uart' = Chip(next)' /\ uart'.tx = tx /\ uart'.rx = rx
<1>1. uart'.tx = tx /\ uart'.rx = rx
  BY DEF Registers
<1>2. Chip(next)' = Registers(Dlab(next'), [low |-> Low(next'), high |-> 0],
                              Fifo(next'), Loop(next'), uart'.tx, uart'.rx)
  BY DEF Chip, Registers, Dlab, Low, Fifo, Loop
<1> QED
  BY <1>1, <1>2

\* Where each write of serial_init leads: the next stage of the chip, with the
\* FIFO cleared by the sixth write and the test byte loaded by the last.
LEMMA StageStep ==
  ASSUME uart = Chip(next), next \in 1 .. 10, serial_init_write
  PROVE  /\ next' = next + 1 /\ next \in 1 .. 9
         /\ uart' = Chip(next)'
         /\ next \notin {6, 9} => uart'.tx = uart.tx /\ uart'.rx = uart.rx
         /\ next = 6 => uart'.tx = <<>> /\ uart'.rx = <<>>
         /\ next = 9 => uart'.tx = Loaded(uart, Probe) /\ uart'.rx = uart.rx
<1> DEFINE R(n, tx, rx) == Registers(Dlab(n), [low |-> Low(n), high |-> 0], Fifo(n),
                                     Loop(n), tx, rx)
<1>1. uart = R(next, uart.tx, uart.rx)
  BY ChipRegisters
<1>2. /\ next' = next + 1 /\ next \in 1 .. 9
      /\ uart' = io_byte_out(uart, InitWrites[next][1], InitWrites[next][2])
  <2>1. Len(InitWrites) = 9
    BY DEF InitWrites
  <2> QED
    BY <2>1 DEF serial_init_write
<1>3. CASE next = 1
  <2>1. uart' = io_byte_out(uart, 1, 0) /\ next' = 2
    BY <1>2, <1>3 DEF InitWrites
  <2>2. /\ Dlab(1) = Dlab(2) /\ Low(1) = Low(2) /\ Fifo(1) = Fifo(2)
        /\ Loop(1) = Loop(2) /\ ~Dlab(1)
    BY DEF Dlab, Low, Fifo, Loop
  <2>3. uart = R(1, uart.tx, uart.rx)
    BY <1>1, <1>3
  <2>4. io_byte_out(uart, 1, 0)
          = Registers(Dlab(1), [low |-> Low(1), high |-> 0], Fifo(1), Loop(1),
                      uart.tx, uart.rx)
    <3> DEFINE d == Dlab(1)
               l == Low(1)
               f == Fifo(1)
               o == Loop(1)
               t == uart.tx
               r == uart.rx
               v == [low |-> l, high |-> 0]
    <3>1. uart = Registers(d, v, f, o, t, r) /\ ~d
      BY <2>2, <2>3
    <3> HIDE DEF d, l, f, o, t, r, v
    <3>2. io_byte_out(uart, 1, 0)
            = Registers(d, v, f, o, t, r)
      BY <3>1, WriteData
    <3> QED
      BY <3>2 DEF d, l, f, o, t, r, v
  <2>5. uart' = R(next', uart.tx, uart.rx)
    BY <2>1, <2>2, <2>4
  <2> QED
    BY <1>2, <1>3, <2>5, ChipReached
<1>4. CASE next = 2
  <2>1. uart' = io_byte_out(uart, 3, 128) /\ next' = 3
    BY <1>2, <1>4 DEF InitWrites
  <2>2. Bit(128, 7) = Dlab(3)
    <3>1. Dlab(3) = TRUE
      BY DEF Dlab
    <3> QED
      BY <3>1, Bits
  <2>6. /\ Low(2) = Low(3) /\ Fifo(2) = Fifo(3) /\ Loop(2) = Loop(3)
    BY DEF Dlab, Low, Fifo, Loop
  <2>3. uart = R(2, uart.tx, uart.rx)
    BY <1>1, <1>4
  <2>4. io_byte_out(uart, 3, 128)
          = Registers(Bit(128, 7), [low |-> Low(2), high |-> 0], Fifo(2), Loop(2),
                      uart.tx, uart.rx)
    <3> DEFINE d == Dlab(2)
               l == Low(2)
               f == Fifo(2)
               o == Loop(2)
               t == uart.tx
               r == uart.rx
               v == [low |-> l, high |-> 0]
    <3>1. uart = Registers(d, v, f, o, t, r)
      BY <2>2, <2>3
    <3> HIDE DEF d, l, f, o, t, r, v
    <3>2. io_byte_out(uart, 3, 128)
            = Registers(Bit(128, 7), v, f, o, t, r)
      BY <3>1, WriteLineControl
    <3> QED
      BY <3>2 DEF d, l, f, o, t, r, v
  <2>5. uart' = R(next', uart.tx, uart.rx)
    BY <2>1, <2>2, <2>4, <2>6
  <2> QED
    BY <1>2, <1>4, <2>5, ChipReached
<1>5. CASE next = 3
  <2>1. uart' = io_byte_out(uart, 0, 3) /\ next' = 4
    BY <1>2, <1>5 DEF InitWrites
  <2>2. /\ Dlab(3) = Dlab(4) /\ Low(4) = 3 /\ Fifo(3) = Fifo(4)
        /\ Loop(3) = Loop(4) /\ Dlab(3)
    BY DEF Dlab, Low, Fifo, Loop
  <2>3. uart = R(3, uart.tx, uart.rx)
    BY <1>1, <1>5
  <2>4. io_byte_out(uart, 0, 3)
          = Registers(Dlab(3), [low |-> 3, high |-> 0], Fifo(3), Loop(3),
                      uart.tx, uart.rx)
    <3> DEFINE d == Dlab(3)
               l == Low(3)
               f == Fifo(3)
               o == Loop(3)
               t == uart.tx
               r == uart.rx
               v == [low |-> l, high |-> 0]
    <3>1. uart = Registers(d, v, f, o, t, r)
      BY <2>3
    <3>3. uart.dlab
      BY <2>2, <2>3 DEF Registers
    <3>0. [v EXCEPT !.low = 3] = [low |-> 3, high |-> 0]
      OBVIOUS
    <3> HIDE DEF d, l, f, o, t, r, v
    <3>2. io_byte_out(uart, 0, 3)
            = Registers(d, [v EXCEPT !.low = 3], f, o, t, r)
      <4> DEFINE x == [v EXCEPT !.low = 3]
      <4>1. uart.divisor = v
        BY <3>1 DEF Registers
      <4>2. uart.dlab => io_byte_out(uart, 0, 3)
                           = [uart EXCEPT !.divisor = [uart.divisor EXCEPT !.low = 3]]
        BY DEF io_byte_out
      <4>3. io_byte_out(uart, 0, 3) = [uart EXCEPT !.divisor = x]
        BY <3>3, <4>1, <4>2
      <4> HIDE DEF x
      <4>4. [uart EXCEPT !.divisor = x] = Registers(d, x, f, o, t, r)
        BY <3>1 DEF Registers
      <4> QED
        BY <4>3, <4>4 DEF x
    <3> QED
      BY <3>2, <3>0 DEF d, l, f, o, t, r, v
  <2>5. uart' = R(next', uart.tx, uart.rx)
    BY <2>1, <2>2, <2>4
  <2> QED
    BY <1>2, <1>5, <2>5, ChipReached
<1>6. CASE next = 4
  <2>1. uart' = io_byte_out(uart, 1, 0) /\ next' = 5
    BY <1>2, <1>6 DEF InitWrites
  <2>2. /\ Dlab(4) = Dlab(5) /\ Low(4) = Low(5) /\ Fifo(4) = Fifo(5)
        /\ Loop(4) = Loop(5) /\ Dlab(4)
    BY DEF Dlab, Low, Fifo, Loop
  <2>3. uart = R(4, uart.tx, uart.rx)
    BY <1>1, <1>6
  <2>4. io_byte_out(uart, 1, 0)
          = Registers(Dlab(4), [low |-> Low(4), high |-> 0], Fifo(4), Loop(4),
                      uart.tx, uart.rx)
    <3> DEFINE d == Dlab(4)
               l == Low(4)
               f == Fifo(4)
               o == Loop(4)
               t == uart.tx
               r == uart.rx
               v == [low |-> l, high |-> 0]
    <3>1. uart = Registers(d, v, f, o, t, r)
      BY <2>3
    <3>3. uart.dlab
      BY <2>2, <2>3 DEF Registers
    <3>0. [v EXCEPT !.high = 0] = [low |-> l, high |-> 0]
      OBVIOUS
    <3> HIDE DEF d, l, f, o, t, r, v
    <3>2. io_byte_out(uart, 1, 0)
            = Registers(d, [v EXCEPT !.high = 0], f, o, t, r)
      <4> DEFINE x == [v EXCEPT !.high = 0]
      <4>1. uart.divisor = v
        BY <3>1 DEF Registers
      <4>2. uart.dlab => io_byte_out(uart, 1, 0)
                           = [uart EXCEPT !.divisor = [uart.divisor EXCEPT !.high = 0]]
        BY DEF io_byte_out
      <4>3. io_byte_out(uart, 1, 0) = [uart EXCEPT !.divisor = x]
        BY <3>3, <4>1, <4>2
      <4> HIDE DEF x
      <4>4. [uart EXCEPT !.divisor = x] = Registers(d, x, f, o, t, r)
        BY <3>1 DEF Registers
      <4> QED
        BY <4>3, <4>4 DEF x
    <3> QED
      BY <3>2, <3>0 DEF d, l, f, o, t, r, v
  <2>5. uart' = R(next', uart.tx, uart.rx)
    BY <2>1, <2>2, <2>4
  <2> QED
    BY <1>2, <1>6, <2>5, ChipReached
<1>7. CASE next = 5
  <2>1. uart' = io_byte_out(uart, 3, 3) /\ next' = 6
    BY <1>2, <1>7 DEF InitWrites
  <2>2. Bit(3, 7) = Dlab(6)
    <3>1. Dlab(6) = FALSE
      BY DEF Dlab
    <3> QED
      BY <3>1, Bits
  <2>6. /\ Low(5) = Low(6) /\ Fifo(5) = Fifo(6) /\ Loop(5) = Loop(6)
    BY DEF Dlab, Low, Fifo, Loop
  <2>3. uart = R(5, uart.tx, uart.rx)
    BY <1>1, <1>7
  <2>4. io_byte_out(uart, 3, 3)
          = Registers(Bit(3, 7), [low |-> Low(5), high |-> 0], Fifo(5), Loop(5),
                      uart.tx, uart.rx)
    <3> DEFINE d == Dlab(5)
               l == Low(5)
               f == Fifo(5)
               o == Loop(5)
               t == uart.tx
               r == uart.rx
               v == [low |-> l, high |-> 0]
    <3>1. uart = Registers(d, v, f, o, t, r)
      BY <2>2, <2>3
    <3> HIDE DEF d, l, f, o, t, r, v
    <3>2. io_byte_out(uart, 3, 3)
            = Registers(Bit(3, 7), v, f, o, t, r)
      BY <3>1, WriteLineControl
    <3> QED
      BY <3>2 DEF d, l, f, o, t, r, v
  <2>5. uart' = R(next', uart.tx, uart.rx)
    BY <2>1, <2>2, <2>4, <2>6
  <2> QED
    BY <1>2, <1>7, <2>5, ChipReached
<1>8. CASE next = 6
  <2>1. uart' = io_byte_out(uart, 2, 199) /\ next' = 7
    BY <1>2, <1>8 DEF InitWrites
  <2>2. Bit(199, 0) = Fifo(7)
    <3>1. Fifo(7) = TRUE
      BY DEF Fifo
    <3> QED
      BY <3>1, Bits
  <2>6. /\ Dlab(6) = Dlab(7) /\ Low(6) = Low(7) /\ Loop(6) = Loop(7)
    BY DEF Dlab, Low, Fifo, Loop
  <2>3. uart = R(6, uart.tx, uart.rx)
    BY <1>1, <1>8
  <2>4. io_byte_out(uart, 2, 199)
          = Registers(Dlab(6), [low |-> Low(6), high |-> 0], Bit(199, 0), Loop(6),
                      <<>>, <<>>)
    <3> DEFINE d == Dlab(6)
               l == Low(6)
               f == Fifo(6)
               o == Loop(6)
               t == uart.tx
               r == uart.rx
               v == [low |-> l, high |-> 0]
    <3>1. uart = Registers(d, v, f, o, t, r)
      BY <2>2, <2>3
    <3> HIDE DEF d, l, f, o, t, r, v
    <3>2. io_byte_out(uart, 2, 199)
            = Registers(d, v, Bit(199, 0), o, <<>>, <<>>)
      BY <3>1, WriteFifoControl
    <3> QED
      BY <3>2 DEF d, l, f, o, t, r, v
  <2>5. uart' = R(next', <<>>, <<>>)
    BY <2>1, <2>2, <2>4, <2>6
  <2> QED
    BY <1>2, <1>8, <2>5, ChipReached
<1>9. CASE next = 7
  <2>1. uart' = io_byte_out(uart, 4, 11) /\ next' = 8
    BY <1>2, <1>9 DEF InitWrites
  <2>2. Bit(11, 4) = Loop(8)
    <3>1. Loop(8) = FALSE
      BY DEF Loop
    <3> QED
      BY <3>1, Bits
  <2>6. /\ Dlab(7) = Dlab(8) /\ Low(7) = Low(8) /\ Fifo(7) = Fifo(8)
    BY DEF Dlab, Low, Fifo, Loop
  <2>3. uart = R(7, uart.tx, uart.rx)
    BY <1>1, <1>9
  <2>4. io_byte_out(uart, 4, 11)
          = Registers(Dlab(7), [low |-> Low(7), high |-> 0], Fifo(7), Bit(11, 4),
                      uart.tx, uart.rx)
    <3> DEFINE d == Dlab(7)
               l == Low(7)
               f == Fifo(7)
               o == Loop(7)
               t == uart.tx
               r == uart.rx
               v == [low |-> l, high |-> 0]
    <3>1. uart = Registers(d, v, f, o, t, r)
      BY <2>2, <2>3
    <3> HIDE DEF d, l, f, o, t, r, v
    <3>2. io_byte_out(uart, 4, 11)
            = Registers(d, v, f, Bit(11, 4), t, r)
      BY <3>1, WriteModemControl
    <3> QED
      BY <3>2 DEF d, l, f, o, t, r, v
  <2>5. uart' = R(next', uart.tx, uart.rx)
    BY <2>1, <2>2, <2>4, <2>6
  <2> QED
    BY <1>2, <1>9, <2>5, ChipReached
<1>10. CASE next = 8
  <2>1. uart' = io_byte_out(uart, 4, 30) /\ next' = 9
    BY <1>2, <1>10 DEF InitWrites
  <2>2. Bit(30, 4) = Loop(9)
    <3>1. Loop(9) = TRUE
      BY DEF Loop
    <3> QED
      BY <3>1, Bits
  <2>6. /\ Dlab(8) = Dlab(9) /\ Low(8) = Low(9) /\ Fifo(8) = Fifo(9)
    BY DEF Dlab, Low, Fifo, Loop
  <2>3. uart = R(8, uart.tx, uart.rx)
    BY <1>1, <1>10
  <2>4. io_byte_out(uart, 4, 30)
          = Registers(Dlab(8), [low |-> Low(8), high |-> 0], Fifo(8), Bit(30, 4),
                      uart.tx, uart.rx)
    <3> DEFINE d == Dlab(8)
               l == Low(8)
               f == Fifo(8)
               o == Loop(8)
               t == uart.tx
               r == uart.rx
               v == [low |-> l, high |-> 0]
    <3>1. uart = Registers(d, v, f, o, t, r)
      BY <2>2, <2>3
    <3> HIDE DEF d, l, f, o, t, r, v
    <3>2. io_byte_out(uart, 4, 30)
            = Registers(d, v, f, Bit(30, 4), t, r)
      BY <3>1, WriteModemControl
    <3> QED
      BY <3>2 DEF d, l, f, o, t, r, v
  <2>5. uart' = R(next', uart.tx, uart.rx)
    BY <2>1, <2>2, <2>4, <2>6
  <2> QED
    BY <1>2, <1>10, <2>5, ChipReached
<1>11. CASE next = 9
  <2>1. uart' = io_byte_out(uart, 0, Probe) /\ next' = 10
    BY <1>2, <1>11 DEF InitWrites
  <2>2. /\ Dlab(9) = Dlab(10) /\ Low(9) = Low(10) /\ Fifo(9) = Fifo(10)
        /\ Loop(9) = Loop(10) /\ ~Dlab(9)
    BY DEF Dlab, Low, Fifo, Loop
  <2>3. uart = R(9, uart.tx, uart.rx)
    BY <1>1, <1>11
  <2>4. io_byte_out(uart, 0, Probe)
          = Registers(Dlab(9), [low |-> Low(9), high |-> 0], Fifo(9), Loop(9),
                      Loaded(uart, Probe), uart.rx)
    <3> DEFINE d == Dlab(9)
               l == Low(9)
               f == Fifo(9)
               o == Loop(9)
               t == uart.tx
               r == uart.rx
               v == [low |-> l, high |-> 0]
    <3>1. uart = Registers(d, v, f, o, t, r) /\ ~d
      BY <2>2, <2>3
    <3> HIDE DEF d, l, f, o, t, r, v
    <3>2. io_byte_out(uart, 0, Probe)
            = Registers(d, v, f, o, Loaded(uart, Probe), r)
      BY <3>1, WriteData
    <3> QED
      BY <3>2 DEF d, l, f, o, t, r, v
  <2>5. uart' = R(next', Loaded(uart, Probe), uart.rx)
    BY <2>1, <2>2, <2>4
  <2> QED
    BY <1>2, <1>11, <2>5, ChipReached
<1> QED
  BY <1>2, <1>3, <1>4, <1>5, <1>6, <1>7, <1>8, <1>9, <1>10, <1>11

\* The fields of the chip.
LEMMA ChipFields ==
  ASSUME uart = Chip(next), next \in 1 .. 10
  PROVE  /\ uart.dlab <=> Dlab(next)
         /\ uart.fifo <=> Fifo(next)
         /\ uart.loop <=> Loop(next)
         /\ uart.divisor = [low |-> Low(next), high |-> 0]
         /\ [low |-> Low(next), high |-> 0] \in [low : Nat, high : Nat]
<1> DEFINE d == Dlab(next)
           f == Fifo(next)
           o == Loop(next)
           l == Low(next)
           t == uart.tx
           r == uart.rx
<1>1. uart = Registers(d, [low |-> l, high |-> 0], f, o, t, r)
  BY ChipRegisters
<1>2. l \in Nat
  BY DEF Low
<1> HIDE DEF d, f, o, l, t, r
<1>3. /\ uart.dlab = d /\ uart.fifo = f /\ uart.loop = o
      /\ uart.divisor = [low |-> l, high |-> 0]
  BY <1>1 DEF Registers
<1>4. [low |-> l, high |-> 0] \in [low : Nat, high : Nat]
  BY <1>2
<1> QED
  BY <1>3, <1>4 DEF d, f, o, l

\* The sequence of the numbers up to n.
LEMMA CharsUpToSeq ==
  ASSUME NEW n \in Nat
  PROVE  /\ CharsUpTo(n) \in Seq(Nat) /\ Len(CharsUpTo(n)) = n
         /\ \A i \in 1 .. n : CharsUpTo(n)[i] = i
<1>1. \A i \in 1 .. n : i \in Nat
  OBVIOUS
<1> QED
  BY <1>1, IsASeq DEF CharsUpTo

\* One character more.
LEMMA CharsUpToNext ==
  ASSUME NEW n \in Nat
  PROVE  Append(CharsUpTo(n), n + 1) = CharsUpTo(n + 1)
<1> DEFINE a == Append(CharsUpTo(n), n + 1)
           b == CharsUpTo(n + 1)
<1>1. n + 1 \in Nat
  OBVIOUS
<1>2. /\ a \in Seq(Nat) /\ Len(a) = n + 1
      /\ \A i \in 1 .. n : a[i] = i
      /\ a[n + 1] = n + 1
  BY <1>1, CharsUpToSeq, Appended
<1>3. b \in Seq(Nat) /\ Len(b) = n + 1 /\ \A i \in 1 .. n + 1 : b[i] = i
  BY <1>1, CharsUpToSeq
<1> HIDE DEF a, b
<1>4. \A i \in 1 .. n + 1 : a[i] = b[i]
  BY <1>2, <1>3
<1>5. a = b
  BY <1>2, <1>3, <1>4, SeqEqual
<1> QED
  BY <1>5 DEF a, b

\* What is on the wire when the transmitter held one character at most.
LEMMA AllButLast ==
  ASSUME NEW n \in Nat, n >= 1, NEW s \in Seq(Nat), NEW t \in Seq(Nat),
         Len(t) <= 1, s \o t = CharsUpTo(n)
  PROVE  s \in {CharsUpTo(n), CharsUpTo(n - 1)}
<1>1. Len(s) \in Nat /\ Len(t) \in Nat
  BY LenProperties
<1>2. /\ Len(s) + Len(t) = n
      /\ \A i \in 1 .. Len(s) + Len(t) :
            CharsUpTo(n)[i] = IF i <= Len(s) THEN s[i] ELSE t[i - Len(s)]
  <2> DEFINE x == s \o t
  <2>1. /\ Len(x) = Len(s) + Len(t)
        /\ \A i \in 1 .. Len(s) + Len(t) :
              x[i] = IF i <= Len(s) THEN s[i] ELSE t[i - Len(s)]
    BY ConcatProperties
  <2>2. x = CharsUpTo(n) /\ Len(CharsUpTo(n)) = n
    BY CharsUpToSeq
  <2> HIDE DEF x
  <2> QED
    BY <2>1, <2>2
<1>3. Len(s) = n \/ Len(s) = n - 1
  BY <1>1, <1>2
<1>4. ASSUME NEW i \in 1 .. Len(s) PROVE s[i] = i
  <2>1. i \in 1 .. n /\ i \in 1 .. Len(s) + Len(t) /\ i <= Len(s)
    BY <1>1, <1>2
  <2>2. CharsUpTo(n)[i] = i
    BY <2>1, CharsUpToSeq
  <2> QED
    BY <1>2, <2>1, <2>2
<1> DEFINE m == Len(s)
<1>5. /\ CharsUpTo(m) \in Seq(Nat) /\ Len(CharsUpTo(m)) = m
      /\ \A i \in 1 .. m : CharsUpTo(m)[i] = i
  BY <1>1, CharsUpToSeq
<1>6. s = CharsUpTo(m)
  BY <1>4, <1>5, SeqEqual
<1> QED
  BY <1>3, <1>6

\* The wire stays as it is.
LEMMA SentKept ==
  ASSUME wire' = wire
  PROVE  Sent' = Sent
BY DEF Sent

\* A write of serial_init.
LEMMA InitWriteStep ==
  ASSUME OpeningInv, next \in 1 .. 10, pc = "init", wire \in Seq(Sending),
         serial_init_write
  PROVE  OpeningInv' /\ next' \in 1 .. 10 /\ wire' = wire /\ pc' = pc
<1>1. /\ uart = Chip(next) /\ uart.tx \in Seq(Nat) /\ printed = EarlyChars
      /\ pc' = pc /\ wire' = wire /\ printed' = printed /\ present' = present
  BY DEF OpeningInv, serial_init_write
<1>2. /\ next' = next + 1 /\ next \in 1 .. 9
      /\ uart' = Chip(next)'
      /\ next \notin {6, 9} => uart'.tx = uart.tx /\ uart'.rx = uart.rx
      /\ next = 6 => uart'.tx = <<>> /\ uart'.rx = <<>>
      /\ next = 9 => uart'.tx = Loaded(uart, Probe) /\ uart'.rx = uart.rx
  BY <1>1, StageStep
<1>3. next = 9 => /\ uart'.tx \in Seq(Nat)
                  /\ uart.tx = <<>> => uart'.tx = <<Probe>>
  <2> SUFFICES ASSUME next = 9
               PROVE  /\ uart'.tx \in Seq(Nat)
                      /\ uart.tx = <<>> => uart'.tx = <<Probe>>
    OBVIOUS
  <2>1. uart.fifo
    BY <1>1, ChipFields DEF Fifo
  <2>2. \/ Loaded(uart, Probe) = uart.tx /\ ~(Len(uart.tx) < FifoDepth)
        \/ Loaded(uart, Probe) = Append(uart.tx, Probe)
    BY <2>1 DEF Loaded
  <2>3. Append(uart.tx, Probe) \in Seq(Nat) /\ Append(<<>>, Probe) = <<Probe>>
    BY <1>1, Appended DEF Probe
  <2>4. Len(<<>>) < FifoDepth
    BY Constants
  <2> QED
    BY <1>1, <1>2, <2>2, <2>3, <2>4
<1>4. Sent' = Sent /\ Sent \in Seq(Nat)
  BY <1>1, SentKept, CharsSeq DEF Sent, Chars
<1>5. uart'.tx \in Seq(Nat)
  <2>1. <<>> \in Seq(Nat)
    BY EmptySeq
  <2>2. CASE next = 6
    BY <1>2, <2>1, <2>2
  <2>3. CASE next = 9
    BY <1>3, <2>3
  <2>4. CASE next \notin {6, 9}
    BY <1>1, <1>2, <2>4
  <2> QED
    BY <2>2, <2>3, <2>4
<1>6. CASE ~present
  BY <1>1, <1>2, <1>5, <1>6 DEF OpeningInv
<1>7. CASE present
  <2>1. /\ next <= 6 => /\ Len(uart.tx) <= 1 /\ uart.rx = <<>>
                        /\ Sent \o uart.tx = CharsUpTo(printed)
        /\ next > 6 => Sent \in {CharsUpTo(EarlyChars), CharsUpTo(EarlyChars - 1)}
        /\ next \in 7 .. 9 => uart.tx = <<>> /\ uart.rx = <<>>
    BY <1>7 DEF OpeningInv
  <2>2. next = 6 => Sent \in {CharsUpTo(EarlyChars), CharsUpTo(EarlyChars - 1)}
    <3> DEFINE s == Sent
               t == uart.tx
               n == EarlyChars
    <3> SUFFICES ASSUME next = 6 PROVE s \in {CharsUpTo(n), CharsUpTo(n - 1)}
      OBVIOUS
    <3>1. /\ s \in Seq(Nat) /\ t \in Seq(Nat) /\ Len(t) <= 1 /\ s \o t = CharsUpTo(n)
          /\ n \in Nat /\ n >= 1
      BY <1>1, <1>4, <2>1, Constants
    <3> HIDE DEF s, t, n
    <3> QED
      BY <3>1, AllButLast
  <2>3. CASE next < 6
    <3>1. next' <= 6 /\ uart'.tx = uart.tx /\ uart'.rx = uart.rx
      BY <1>2, <2>3
    <3>2. /\ Len(uart'.tx) <= 1 /\ uart'.rx = <<>>
          /\ Sent' \o uart'.tx = CharsUpTo(printed')
      <4>1. next <= 6
        BY <1>2, <2>3
      <4>2. /\ Len(uart.tx) <= 1 /\ uart.rx = <<>>
            /\ Sent \o uart.tx = CharsUpTo(printed)
        BY <2>1, <4>1
      <4> QED
        BY <1>1, <1>4, <3>1, <4>2
    <3> QED
      BY <1>1, <1>2, <1>5, <3>1, <3>2 DEF OpeningInv
  <2>4. CASE next \in 6 .. 8
    <3>1. /\ next' \in 7 .. 9 /\ uart'.tx = <<>> /\ uart'.rx = <<>>
          /\ Sent' \in {CharsUpTo(EarlyChars), CharsUpTo(EarlyChars - 1)}
      BY <1>2, <1>4, <2>1, <2>2, <2>4
    <3> QED
      BY <1>1, <1>2, <1>5, <3>1 DEF OpeningInv
  <2>5. CASE next = 9
    <3>1. /\ next' = 10 /\ uart'.tx = <<Probe>> /\ uart'.rx = <<>>
          /\ Sent' \in {CharsUpTo(EarlyChars), CharsUpTo(EarlyChars - 1)}
      BY <1>2, <1>3, <1>4, <2>1, <2>5
    <3> QED
      BY <1>1, <1>2, <1>5, <3>1 DEF OpeningInv
  <2> QED
    BY <1>2, <2>3, <2>4, <2>5
<1> QED
  BY <1>1, <1>2, <1>6, <1>7

\* The test of serial_init opens the log or fails.
LEMMA InitTestStep ==
  ASSUME OpeningInv, next \in 1 .. 10, pc = "init", serial_init_test
  PROVE  /\ next' = next
         /\ \/ pc' = "error"
            \/ pc' = "idle" /\ OpenInv' /\ wire' \in Seq(Sending)
<1>1. /\ uart = Chip(next) /\ printed = EarlyChars /\ next = 10
      /\ printed' = printed /\ present' = present /\ next' = next
  <2>1. Len(InitWrites) = 9
    BY DEF InitWrites
  <2> QED
    BY <2>1 DEF OpeningInv, serial_init_test
<1>2. CASE io_byte_in_data # Probe
  BY <1>1, <1>2 DEF serial_init_test
<1>3. CASE io_byte_in_data = Probe
  <2>1. present /\ uart.rx # <<>>
    BY <1>3 DEF io_byte_in_data, Probe
  <2>2. uart.tx = <<>> /\ uart.rx = <<Probe>>
    BY <1>1, <2>1 DEF OpeningInv
  <2>3. /\ uart' = io_byte_out([uart EXCEPT !.rx = Tail(uart.rx)], 4, 15)
        /\ wire' = <<>> /\ pc' = "idle"
    BY <1>3 DEF serial_init_test
  <2>4. uart' = OpenChip' /\ uart'.tx = <<>>
    <3> DEFINE d == Dlab(10)
               f == Fifo(10)
               o == Loop(10)
               v == [low |-> Low(10), high |-> 0]
               x == Tail(uart.rx)
               t == uart.tx
               r == uart.rx
               u == [uart EXCEPT !.rx = x]
               off == FALSE
    <3>1. uart = Registers(d, v, f, o, t, r)
      BY <1>1, ChipRegisters
    <3>2. /\ uart' = io_byte_out(u, 4, 15)
          /\ d = FALSE /\ f = TRUE /\ v = Wanted /\ t = <<>> /\ Bit(15, 4) = off
      BY <2>2, <2>3, Bits DEF Dlab, Fifo, Low, Wanted
    <3> HIDE DEF d, f, o, v, x, t, r, off
    <3>3. u = Registers(d, v, f, o, t, x)
      BY <3>1 DEF Registers
    <3> HIDE DEF u
    <3>4. uart' = Registers(d, v, f, Bit(15, 4), t, x)
      <4>1. io_byte_out(u, 4, 15) = Registers(d, v, f, Bit(15, 4), t, x)
        BY <3>3, WriteModemControl
      <4> QED
        BY <3>2, <4>1
    <3>5. uart' = Registers(d, v, f, off, t, x)
      BY <3>2, <3>4
    <3>6. uart'.tx = t /\ uart'.rx = x
      BY <3>5 DEF Registers
    <3> QED
      BY <3>2, <3>5, <3>6 DEF OpenChip, Registers, off
  <2>5. /\ wire' \in Seq(Sending) /\ DOMAIN wire' = {}
        /\ uart'.tx \in Seq(Nat) /\ Len(uart'.tx) = 0
    <3>1. <<>> \in Seq(Sending) /\ <<>> \in Seq(Nat) /\ Len(<<>>) = 0
      BY EmptySeq
    <3>2. DOMAIN <<>> = {}
      OBVIOUS
    <3> QED
      BY <2>3, <2>4, <3>1, <3>2
  <2>6. Sent' = <<>>
    BY <2>3, <2>5 DEF Sent
  <2>7. Sent' \o uart'.tx = [i \in 1 .. printed' - EarlyChars |-> EarlyChars + i]
    <3>1. Sent' \o uart'.tx = <<>>
      BY <2>4, <2>6, EmptySeq, ConcatEmptySeq
    <3>2. printed' - EarlyChars = 0 /\ 1 .. 0 = {}
      BY <1>1, Constants
    <3> QED
      BY <3>1, <3>2
  <2>8. printed' >= EarlyChars
    BY <1>1, Constants
  <2>9. (\A k \in DOMAIN wire : wire[k].divisor = Wanted)'
    BY <2>5
  <2>10. present' /\ Len(uart'.tx) <= 2 /\ (pc' = "out" => Len(uart'.tx) <= 1)
    BY <1>1, <2>1, <2>5
  <2>11. OpenInv'
    BY <2>4, <2>5, <2>7, <2>8, <2>9, <2>10 DEF OpenInv
  <2> QED
    BY <1>1, <2>3, <2>5, <2>11
<1> QED
  BY <1>2, <1>3

\* A character printed before serial_init.
LEMMA EarlyByte ==
  ASSUME OpeningInv, next \in 1 .. 10, pc = "early_out", printed \in Nat,
         wire \in Seq(Sending), serial_write_byte,
         pc' = IF printed + 1 < EarlyChars THEN "early" ELSE "init"
  PROVE  OpeningInv' /\ next' = next /\ wire' = wire
<1>1. /\ uart = Chip(next) /\ next = 1 /\ printed < EarlyChars
      /\ present => uart.rx = <<>> /\ uart.tx = <<>>
                    /\ Sent \o uart.tx = CharsUpTo(printed)
  BY DEF OpeningInv
<1>2. /\ uart' = io_byte_out(uart, 0, printed + 1) /\ printed' = printed + 1
      /\ present' = present /\ wire' = wire /\ next' = next /\ printed + 1 \in Nat
  BY DEF serial_write_byte
<1>3. /\ uart.dlab = FALSE
      /\ Loaded(uart, printed + 1) = <<printed + 1>>
  <2>1. ~uart.fifo /\ uart.dlab = FALSE
    BY <1>1, ChipFields DEF Fifo, Dlab, Chip
  <2> QED
    BY <2>1 DEF Loaded
<1>4. /\ uart' = Chip(next)' /\ uart'.tx = <<printed + 1>> /\ uart'.rx = uart.rx
  <2> DEFINE d == Dlab(next)
             f == Fifo(next)
             o == Loop(next)
             v == [low |-> Low(next), high |-> 0]
             x == Loaded(uart, printed + 1)
             r == uart.rx
             t == uart.tx
  <2>1. uart = Registers(d, v, f, o, t, r)
    BY <1>1, ChipRegisters
  <2>2. uart' = [uart EXCEPT !.tx = x]
    <3>1. io_byte_out(uart, 0, printed + 1) = [uart EXCEPT !.tx = x]
      BY <1>3, DataByte
    <3> QED
      BY <1>2, <3>1
  <2> HIDE DEF d, f, o, v, x, r, t
  <2>3. uart' = Registers(d, v, f, o, x, r)
    BY <2>1, <2>2 DEF Registers
  <2>4. uart' = Registers(Dlab(next'), [low |-> Low(next'), high |-> 0],
                          Fifo(next'), Loop(next'), x, r)
    BY <1>2, <2>3 DEF d, v, f, o
  <2> QED
    BY <1>3, <2>4, ChipReached DEF x, r
<1>5. uart'.tx \in Seq(Nat) /\ Len(uart'.tx) = 1
  <2>1. <<printed + 1>> \in Seq(Nat) /\ Len(<<printed + 1>>) = 1
    BY <1>2
  <2> QED
    BY <1>4, <2>1
<1>6. present => Sent' \o uart'.tx = CharsUpTo(printed')
  <2> SUFFICES ASSUME present PROVE Sent' \o uart'.tx = CharsUpTo(printed')
    OBVIOUS
  <2>1. Sent' = Sent /\ Sent \in Seq(Nat)
    BY <1>2, SentKept, CharsSeq DEF Sent, Chars
  <2>2. Sent = CharsUpTo(printed)
    BY <1>1, <2>1, ConcatEmptySeq
  <2>3. Sent \o <<printed + 1>> = Append(Sent, printed + 1)
    BY <1>2, <2>1, AppendIsConcat
  <2> QED
    BY <1>2, <1>4, <2>1, <2>2, <2>3, CharsUpToNext
<1>7. /\ pc' # "init" => printed' < EarlyChars
      /\ pc' = "init" => printed' = EarlyChars
      /\ pc' # "early_out"
  BY <1>1, <1>2, Constants
<1>8. /\ next' = 1
      /\ present' => /\ Len(uart'.tx) <= 1 /\ uart'.rx = <<>>
                     /\ Sent' \o uart'.tx = CharsUpTo(printed')
  <2>0. next' = 1
    BY <1>1, <1>2
  <2>1. Len(uart'.tx) <= 1
    BY <1>5
  <2>2. present => uart'.rx = <<>>
    BY <1>1, <1>4
  <2>3. present' => present
    BY <1>2
  <2> QED
    BY <1>6, <2>0, <2>1, <2>2, <2>3
<1>9. /\ ~(next' > 6) /\ next' \notin 7 .. 9 /\ next' # 10
  BY <1>8
<1>10. OpeningInv'
  BY <1>4, <1>5, <1>7, <1>8, <1>9 DEF OpeningInv
<1> QED
  BY <1>2, <1>10

\* The chip sends before the log is open.
LEMMA OpeningSent ==
  ASSUME OpeningInv, next \in 1 .. 10, wire \in Seq(Sending), transmit
  PROVE  OpeningInv' /\ wire' \in Seq(Sending) /\ next' = next
<1>1. /\ uart = Chip(next) /\ uart.tx \in Seq(Nat) /\ uart.tx # <<>> /\ present
      /\ present' = present /\ next' = next /\ printed' = printed /\ pc' = pc
  BY DEF OpeningInv, transmit
<1>2. /\ Tail(uart.tx) \in Seq(Nat) /\ Len(Tail(uart.tx)) = Len(uart.tx) - 1
      /\ Head(uart.tx) \in Nat /\ Len(uart.tx) \in Nat
  BY <1>1, HeadTailProperties, LenProperties
<1>3. CASE next <= 6
  <2>1. ~uart.loop
    BY <1>1, <1>3, ChipFields DEF Loop
  <2> DEFINE r == [char |-> Head(uart.tx), divisor |-> uart.divisor]
  <2>2. uart' = [uart EXCEPT !.tx = Tail(uart.tx)] /\ wire' = Append(wire, r)
    BY <2>1 DEF transmit
  <2>3. uart' = Chip(next)' /\ uart'.tx = Tail(uart.tx) /\ uart'.rx = uart.rx
    <3> DEFINE d == Dlab(next)
               f == Fifo(next)
               o == Loop(next)
               v == [low |-> Low(next), high |-> 0]
               x == Tail(uart.tx)
               y == uart.rx
               t == uart.tx
    <3>1. uart = Registers(d, v, f, o, t, y)
      BY <1>1, ChipRegisters
    <3>2. uart' = [uart EXCEPT !.tx = x]
      BY <2>2
    <3> HIDE DEF d, f, o, v, x, y, t
    <3>3. uart' = Registers(d, v, f, o, x, y)
      BY <3>1, <3>2 DEF Registers
    <3>4. uart' = Registers(Dlab(next'), [low |-> Low(next'), high |-> 0],
                            Fifo(next'), Loop(next'), x, y)
      BY <1>1, <3>3 DEF d, v, f, o
    <3> QED
      BY <3>4, ChipReached DEF x, y
  <2>4. r \in Sending /\ r.char = Head(uart.tx)
    BY <1>1, <1>2, ChipFields DEF Sending
  <2> HIDE DEF r
  <2>5. wire' \in Seq(Sending)
    BY <2>2, <2>4, AppendProperties
  <2>6. Sent' = Append(Sent, Head(uart.tx)) /\ Sent \in Seq(Nat)
    BY <2>2, <2>4, CharsAppend, CharsSeq DEF Sent, Chars
  <2>7. Sent' \o uart'.tx = Sent \o uart.tx
    BY <1>1, <2>3, <2>6, HeadMoves
  <2>8. /\ Len(uart'.tx) <= 1 /\ uart'.rx = <<>> /\ pc # "early_out"
        /\ Sent' \o uart'.tx = CharsUpTo(printed)
    <3>1. /\ Len(uart.tx) <= 1 /\ uart.rx = <<>> /\ pc # "early_out"
          /\ Sent \o uart.tx = CharsUpTo(printed)
      BY <1>1, <1>3 DEF OpeningInv
    <3>2. Len(uart'.tx) <= 1
      BY <1>2, <2>3, <3>1
    <3> QED
      BY <2>3, <2>7, <3>1, <3>2
  <2>9. /\ pc' # "init" => next' = 1 /\ printed' < EarlyChars
        /\ pc' = "init" => printed' = EarlyChars
    BY <1>1 DEF OpeningInv
  <2>10. ~(next' > 6) /\ next' \notin 7 .. 9 /\ next' # 10 /\ pc' # "early_out"
    BY <1>1, <1>3, <2>8
  <2>11. OpeningInv'
    BY <1>1, <1>2, <2>3, <2>8, <2>9, <2>10 DEF OpeningInv
  <2> QED
    BY <1>1, <2>5, <2>11
<1>4. CASE next > 6
  <2>1. /\ next = 10 /\ uart.tx = <<Probe>> /\ uart.rx = <<>>
        /\ Sent \in {CharsUpTo(EarlyChars), CharsUpTo(EarlyChars - 1)}
    BY <1>1, <1>4, SMTT(30) DEF OpeningInv
  <2>2. uart.loop
    BY <1>1, <2>1, ChipFields DEF Loop
  <2>3. /\ uart' = [uart EXCEPT !.tx = Tail(uart.tx), !.rx = Append(uart.rx, Head(uart.tx))]
        /\ wire' = wire
    BY <2>2 DEF transmit
  <2>4. Tail(uart.tx) = <<>> /\ Append(uart.rx, Head(uart.tx)) = <<Probe>>
    BY <2>1
  <2>5. uart' = Chip(next)' /\ uart'.tx = <<>> /\ uart'.rx = <<Probe>>
    <3> DEFINE d == Dlab(next)
               f == Fifo(next)
               o == Loop(next)
               v == [low |-> Low(next), high |-> 0]
               x == Tail(uart.tx)
               z == Append(uart.rx, Head(uart.tx))
               y == uart.rx
               t == uart.tx
               w == [uart EXCEPT !.tx = x]
    <3>1. uart = Registers(d, v, f, o, t, y)
      BY <1>1, ChipRegisters
    <3>2. uart' = [w EXCEPT !.rx = z]
      BY <2>3
    <3> HIDE DEF d, f, o, v, x, y, t, z
    <3>3. w = Registers(d, v, f, o, x, y)
      BY <3>1 DEF Registers
    <3> HIDE DEF w
    <3>4. uart' = Registers(d, v, f, o, x, z)
      BY <3>2, <3>3 DEF Registers
    <3>5. uart' = Registers(Dlab(next'), [low |-> Low(next'), high |-> 0],
                            Fifo(next'), Loop(next'), x, z)
      BY <1>1, <3>4 DEF d, v, f, o
    <3> QED
      BY <2>4, <3>5, ChipReached DEF x, z
  <2>6. Sent' = Sent
    BY <2>3, SentKept
  <2>7. pc' = "init" /\ printed' = EarlyChars /\ next' = 10
    BY <1>1, <2>1 DEF OpeningInv
  <2>8. ~(next' <= 6) /\ next' \notin 7 .. 9
    BY <2>7
  <2>9. uart'.tx \in Seq(Nat)
    BY <2>5, EmptySeq
  <2>10. OpeningInv'
    BY <2>1, <2>5, <2>6, <2>7, <2>8, <2>9 DEF OpeningInv
  <2> QED
    BY <1>1, <2>3, <2>10
<1> QED
  BY <1>3, <1>4

\* The boot code and the handlers leave the port as it is.
LEMMA PortKept ==
  ASSUME PortInv, UNCHANGED <<port, printed>>,
         pc' = pc \/ (pc \notin Unlogged /\ pc' \notin Unlogged /\ pc' # "out")
  PROVE  PortInv'
<1>1. /\ uart' = uart /\ wire' = wire /\ next' = next /\ present' = present
      /\ printed' = printed
  BY DEF port
<1>2. /\ Sent' = Sent /\ OpenChip' = OpenChip /\ Chip(next)' = Chip(next)
  BY <1>1 DEF Sent, OpenChip, Chip
<1>3. pc' = pc => (OpeningInv => OpeningInv')
  BY <1>1, <1>2 DEF OpeningInv
<1>4. OpenInv /\ (pc' = pc \/ pc' # "out") => OpenInv'
  BY <1>1, <1>2 DEF OpenInv
<1>5. pc \notin Unlogged =>
        /\ pc \notin {"error", "error_out", "failed"}
        /\ pc \notin {"early", "early_out", "init"}
  BY DEF Unlogged
<1>6. CASE pc' = pc
  BY <1>1, <1>3, <1>4, <1>6 DEF PortInv
<1>7. CASE pc \notin Unlogged /\ pc' \notin Unlogged /\ pc' # "out"
  <2>1. OpenInv' /\ wire' \in Seq(Sending) /\ next' \in 1 .. 10
    BY <1>1, <1>4, <1>5, <1>7 DEF PortInv
  <2>2. pc' \notin {"early", "early_out", "init"}
    BY <1>7 DEF Unlogged
  <2> QED
    BY <2>1, <2>2 DEF PortInv
<1> QED
  BY <1>6, <1>7

\* Every step keeps the port's invariant.
LEMMA PortStep ==
  ASSUME TypeInv, PortInv, [Next]_vars
  PROVE  PortInv'
<1> DEFINE Opening == {"early", "early_out", "init"}
           Failing == {"error", "error_out", "failed"}
<1>1. /\ next \in 1 .. 10 /\ printed \in Nat
      /\ pc \in Opening => OpeningInv /\ wire \in Seq(Sending)
      /\ pc \notin Unlogged => OpenInv /\ wire \in Seq(Sending)
      /\ Unlogged = Opening \cup Failing
  BY DEF PortInv, TypeInv, Unlogged
<1>2. ASSUME next' \in 1 .. 10, OpeningInv', wire' \in Seq(Sending), pc' \in Opening
      PROVE  PortInv'
  BY <1>1, <1>2 DEF PortInv
<1>3. ASSUME next' \in 1 .. 10, OpenInv', wire' \in Seq(Sending), pc' \notin Unlogged
      PROVE  PortInv'
  BY <1>1, <1>3 DEF PortInv
<1>4. ASSUME next' \in 1 .. 10, pc' \in Failing
      PROVE  PortInv'
  BY <1>1, <1>4 DEF PortInv
<1>5. CASE EarlyWait
  <2>1. /\ serial_is_transmit_empty /\ UNCHANGED <<port, printed>>
        /\ \/ pc = "early" /\ pc' = "early_out"
           \/ pc = "error" /\ pc' = "error_out"
    BY <1>5 DEF EarlyWait, serial_write_wait
  <2>2. CASE pc = "error"
    BY <1>1, <1>4, <2>1, <2>2 DEF port
  <2>3. CASE pc = "early"
    <3>1. /\ uart' = uart /\ wire' = wire /\ next' = next /\ present' = present
          /\ printed' = printed /\ pc' = "early_out"
      BY <2>1, <2>3 DEF port
    <3>2. Sent' = Sent /\ Chip(next)' = Chip(next)
      BY <3>1 DEF Sent, Chip
    <3>3. present => uart.tx = <<>>
      BY <2>1 DEF serial_is_transmit_empty
    <3>4. OpeningInv'
      BY <1>1, <2>3, <3>1, <3>2, <3>3 DEF OpeningInv
    <3> QED
      BY <1>1, <1>2, <2>3, <3>1, <3>4
  <2> QED
    BY <2>1, <2>2, <2>3
<1>6. CASE EarlyPrint
  <2>1. /\ serial_write_byte
        /\ \/ /\ pc = "early_out"
              /\ pc' = IF printed + 1 < EarlyChars THEN "early" ELSE "init"
           \/ pc = "error_out" /\ pc' = "failed"
    BY <1>6 DEF EarlyPrint, At, Goto
  <2>2. CASE pc = "error_out"
    BY <1>1, <1>4, <2>1, <2>2 DEF serial_write_byte
  <2>3. CASE pc = "early_out"
    <3>1. pc' = IF printed + 1 < EarlyChars THEN "early" ELSE "init"
      BY <2>1, <2>3
    <3>2. OpeningInv' /\ next' = next /\ wire' = wire
      BY <1>1, <2>1, <2>3, <3>1, EarlyByte
    <3> QED
      BY <1>1, <1>2, <2>3, <3>1, <3>2
  <2> QED
    BY <2>1, <2>2, <2>3
<1>7. CASE SerialStarts
  <2>1. pc = "init"
    BY <1>7 DEF SerialStarts, serial_init_write, serial_init_test
  <2>2. CASE serial_init_write
    <3>1. OpeningInv' /\ next' \in 1 .. 10 /\ wire' = wire /\ pc' = pc
      BY <1>1, <2>1, <2>2, InitWriteStep
    <3> QED
      BY <1>1, <1>2, <2>1, <3>1
  <2>3. CASE serial_init_test
    <3>1. /\ next' = next
          /\ \/ pc' = "error"
             \/ pc' = "idle" /\ OpenInv' /\ wire' \in Seq(Sending)
      BY <1>1, <2>1, <2>3, InitTestStep
    <3>2. "idle" \notin Unlogged
      BY DEF Unlogged
    <3> QED
      BY <1>1, <1>3, <1>4, <3>1, <3>2
  <2> QED
    BY <1>7, <2>2, <2>3 DEF SerialStarts
<1>8. CASE Printf
  BY <1>8, PortKept DEF Printf, At, Goto, Unlogged
<1>9. CASE Wait
  <2>1. /\ pc = "wait" /\ pc' = "out" /\ serial_is_transmit_empty
        /\ uart' = uart /\ wire' = wire /\ next' = next /\ present' = present
        /\ printed' = printed
    BY <1>9 DEF Wait, serial_write_wait, port
  <2>2. pc \notin Unlogged /\ pc' \notin Unlogged
    BY <2>1 DEF Unlogged
  <2>3. OpenInv /\ wire \in Seq(Sending)
    BY <1>1, <2>2
  <2>4. uart.tx = <<>> /\ Len(<<>>) <= 1
    BY <2>1, <2>3 DEF serial_is_transmit_empty, OpenInv
  <2>5. Sent' = Sent /\ OpenChip' = OpenChip
    BY <2>1 DEF Sent, OpenChip
  <2>6. OpenInv'
    BY <2>1, <2>3, <2>4, <2>5 DEF OpenInv
  <2> QED
    BY <1>1, <1>3, <2>1, <2>2, <2>3, <2>6
<1>10. CASE Out
  <2>1. pc = "out" /\ pc' = "check" /\ serial_write_byte
    BY <1>10 DEF Out, At, Goto
  <2>2. pc \notin Unlogged /\ pc' \notin Unlogged /\ pc' # "out"
    BY <2>1 DEF Unlogged
  <2>3. OpenInv /\ wire \in Seq(Sending) /\ Len(uart.tx) <= 1
    BY <1>1, <2>1, <2>2 DEF OpenInv
  <2>4. OpenInv' /\ wire' \in Seq(Sending) /\ next' = next
    BY <1>1, <2>1, <2>2, <2>3, ByteLogged
  <2> QED
    BY <1>1, <1>3, <2>2, <2>4
<1>11. CASE RingStep
  <2>1. /\ UNCHANGED <<port, printed>>
        /\ pc \notin Unlogged
        /\ pc' \notin Unlogged \cup {"out"} \/ pc' = pc
    BY <1>11 DEF RingStep, CheckInit, Claim, TakePage, LookAhead, FullTest, SanityTest,
       LoadIndex, PutChar, AdvanceHead, OverflowTest, Flush, EmptyTest, PopChar,
       LoadTail, StoreTail, ShowChar, At, Goto, Unlogged, TypeInv, Flushing
  <2> QED
    BY <2>1, PortKept
<1>12. CASE Transmit
  <2>1. transmit /\ pc' = pc /\ next' = next
    BY <1>12 DEF Transmit, transmit
  <2>2. CASE pc \in Opening
    BY <1>1, <1>2, <2>1, <2>2, OpeningSent
  <2>3. CASE pc \notin Unlogged
    BY <1>1, <1>3, <2>1, <2>3, LoggedSent
  <2>4. CASE pc \in Failing
    BY <1>1, <1>4, <2>1, <2>4
  <2> QED
    BY <1>1, <2>2, <2>3, <2>4
<1>13. CASE Timer
  BY <1>13, PortKept DEF Timer
<1>14. CASE TimerEcho \/ TimerEchoDirect
  <2>1. /\ serial_write_byte /\ serial_is_transmit_empty
        /\ pc \notin Unlogged /\ pc' = pc
    BY <1>14 DEF TimerEcho, TimerEchoDirect, EchoLogged, Interrupt
  <2>2. OpenInv /\ wire \in Seq(Sending)
    BY <1>1, <2>1
  <2>3. uart.tx = <<>> /\ Len(<<>>) = 0
    BY <2>1, <2>2 DEF serial_is_transmit_empty, OpenInv
  <2>4. /\ OpenInv' /\ wire' \in Seq(Sending) /\ next' = next
    BY <1>1, <2>1, <2>2, <2>3, ByteLogged
  <2> QED
    BY <1>1, <1>3, <2>1, <2>4
<1>15. CASE UNCHANGED vars
  BY <1>15, PortKept DEF vars
<1> QED
  BY <1>5, <1>6, <1>7, <1>8, <1>9, <1>10, <1>11, <1>12, <1>13, <1>14, <1>15
  DEF Next, BootStep, Spin, Stopped, Quiet

\* The port starts in its invariant.
LEMMA PortInit == Init => PortInv
<1> SUFFICES ASSUME Init PROVE PortInv
  OBVIOUS
<1>1. /\ uart = [dlab |-> FALSE, divisor |-> [low |-> 12, high |-> 0],
                 fifo |-> FALSE, loop |-> FALSE, tx |-> <<>>, rx |-> <<>>]
      /\ wire = <<>> /\ next = 1 /\ printed = 0 /\ pc = "early"
  BY DEF Init, SerialInit
<1>2. uart.tx = <<>> /\ uart.rx = <<>>
  BY <1>1
<1>3. uart = Chip(next)
  <2>1. Dlab(1) = FALSE /\ Fifo(1) = FALSE /\ Loop(1) = FALSE /\ Low(1) = 12
    BY DEF Dlab, Fifo, Loop, Low
  <2>2. uart = Registers(FALSE, [low |-> 12, high |-> 0], FALSE, FALSE, uart.tx, uart.rx)
    BY <1>1, <1>2 DEF Registers
  <2> QED
    BY <1>1, <2>1, <2>2, ChipRegisters
<1>4. /\ <<>> \in Seq(Nat) /\ <<>> \in Seq(Sending) /\ Len(<<>>) = 0
      /\ DOMAIN <<>> = {}
  BY EmptySeq
<1>5. Sent = <<>>
  BY <1>1, <1>4 DEF Sent
<1>6. Sent \o uart.tx = CharsUpTo(printed)
  <2>1. Sent \o uart.tx = <<>>
    BY <1>2, <1>4, <1>5, ConcatEmptySeq
  <2>2. 1 .. 0 = {}
    OBVIOUS
  <2> QED
    BY <1>1, <2>1, <2>2 DEF CharsUpTo
<1>7. /\ Len(uart.tx) <= 1 /\ uart.tx \in Seq(Nat) /\ printed < EarlyChars
      /\ ~(next > 6) /\ next \notin 7 .. 9 /\ next # 10
  BY <1>1, <1>2, <1>4, Constants
<1>8. OpeningInv
  BY <1>1, <1>2, <1>3, <1>6, <1>7 DEF OpeningInv
<1> QED
  BY <1>1, <1>4, <1>8 DEF PortInv, Unlogged

\* Whatever is printed once serial_init is over is in the log, in order and at
\* the chosen divisor, for every depth of the FIFO from two on, however the
\* handlers and the chip interleave with the boot code (serial.c:105); and of
\* what was printed before, all but the last character at most (serial.c:57).
THEOREM SerialLogComplete == Spec => []LogComplete
<1>1. Init => TypeInv /\ PortInv
  BY TypeInit, PortInit
<1>2. TypeInv /\ PortInv /\ [Next]_vars => (TypeInv /\ PortInv)'
  BY TypeStep, PortStep
<1>3. PortInv => LogComplete
  <2> SUFFICES ASSUME PortInv PROVE LogComplete
    OBVIOUS
  <2>1. Len(InitWrites) = 9
    BY DEF InitWrites
  <2>2. present /\ pc = "init" /\ next > Len(InitWrites) =>
          Sent \in {CharsUpTo(EarlyChars), CharsUpTo(EarlyChars - 1)}
    BY <2>1 DEF PortInv, OpeningInv
  <2>3. pc \notin Unlogged =>
          /\ Sent \o uart.tx = [i \in 1 .. printed - EarlyChars |-> EarlyChars + i]
          /\ \A k \in DOMAIN wire : wire[k].divisor = Wanted
    BY DEF PortInv, OpenInv
  <2> QED
    BY <2>2, <2>3 DEF LogComplete
<1> QED
  BY <1>1, <1>2, <1>3, PTL DEF Spec
-----------------------------------------------------------------------------
(* Where the characters are. *)

\* An echo inside a call stays on record.
LEMMA CalmBefore ==
  ASSUME [Next]_vars, Calm'
  PROVE  Calm
BY DEF Next, BootStep, Transmit, Timer, TimerEcho, TimerEchoDirect, Interrupt,
   Spin, Stopped, Quiet, vars, Calm

\* A handler that echoes and is not on record ran between the calls.
LEMMA EchoBetween ==
  ASSUME TimerEcho, Calm'
  PROVE  pc \in {"idle", "wait", "out", "user"} /\ pc' = pc
BY DEF TimerEcho, Interrupt, Calm

\* The boot code's part of the invariant.
LEMMA FlowStep ==
  ASSUME TypeInv, FlowInv, [Next]_vars, Calm'
  PROVE  FlowInv'
<1> USE DEF FlowInv, Holding, Placing, Flushing, Unlogged
<1>0. \A i \in Index : Succ(i) \in Index /\ Succ(i) # i
  BY SuccIndex
<1>1. CASE EarlyWait
  BY <1>1 DEF EarlyWait, serial_write_wait, ring, locals, port
<1>2. CASE EarlyPrint
  BY <1>2 DEF EarlyPrint, serial_write_byte, At, Goto, ring, locals
<1>3. CASE SerialStarts
  BY <1>3 DEF SerialStarts, serial_init_write, serial_init_test, ring, locals
<1>4. CASE Printf \/ Wait
  BY <1>4 DEF Printf, Wait, serial_write_wait, At, Goto, port, ring, locals
<1>5. CASE Out
  BY <1>5 DEF Out, serial_write_byte, At, Goto, ring, TypeInv
<1>6. CASE RingStep
  <2> USE DEF At, Goto, port, ring, locals
  <2>0. printed' = printed
    BY <1>6 DEF RingStep
  <2>1. CASE CheckInit
    BY <2>0, <2>1 DEF CheckInit
  <2>2. CASE Claim
    BY <2>0, <2>2 DEF Claim
  <2>3. CASE TakePage
    BY <2>0, <2>3 DEF TakePage
  <2>4. CASE LookAhead
    BY <2>0, <2>4 DEF LookAhead
  <2>5. CASE FullTest
    BY <2>0, <2>5 DEF FullTest
  <2>6. CASE SanityTest
    BY <2>0, <2>6 DEF SanityTest
  <2>7. CASE LoadIndex
    BY <2>0, <2>7 DEF LoadIndex
  <2>8. CASE PutChar
    BY <2>0, <2>8 DEF PutChar, TypeInv
  <2>9. CASE AdvanceHead
    BY <2>0, <2>9 DEF AdvanceHead
  <2>10. CASE OverflowTest
    BY <2>0, <2>10 DEF OverflowTest
  <2>11. CASE Flush
    BY <2>0, <2>11 DEF Flush
  <2>12. CASE EmptyTest
    BY <2>0, <2>12 DEF EmptyTest, TypeInv
  <2>13. CASE PopChar
    BY <2>0, <2>13 DEF PopChar
  <2>14. CASE LoadTail
    BY <2>0, <2>14 DEF LoadTail
  <2>15. CASE StoreTail
    BY <2>0, <2>15 DEF StoreTail
  <2>16. CASE ShowChar
    BY <2>0, <2>16 DEF ShowChar, TypeInv
  <2> QED
    BY <1>6, <2>1, <2>2, <2>3, <2>4, <2>5, <2>6, <2>7, <2>8, <2>9, <2>10, <2>11,
       <2>12, <2>13, <2>14, <2>15, <2>16 DEF RingStep
<1>7. CASE Transmit
  BY <1>7 DEF Transmit, transmit, ring, locals
<1>8. CASE Timer
  BY <1>8 DEF Timer, Interrupt, locals
<1>9. CASE TimerEcho
  <2>1. /\ pc' \in {"idle", "wait", "out", "user"} /\ is_init' = TRUE
        /\ is_initializing' = is_initializing /\ ~is_initializing
    BY <1>9, EchoBetween DEF TimerEcho
  <2> QED
    BY <2>1
<1>10. CASE TimerEchoDirect
  <2>1. is_initializing /\ raced' = IF pc \in {"idle", "wait", "out", "user"} THEN raced
                                    ELSE raced \cup {"echo"}
    BY <1>10 DEF TimerEchoDirect, Interrupt
  <2>2. pc = "page"
    BY <2>1
  <2> QED
    BY <2>1, <2>2 DEF Calm
<1>11. CASE UNCHANGED vars
  BY <1>11 DEF vars, ring, locals
<1> QED
  BY <1>1, <1>2, <1>3, <1>4, <1>5, <1>6, <1>7, <1>8, <1>9, <1>10, <1>11
  DEF Next, BootStep, Spin, Stopped, Quiet

\* What was on the screen stays there, and what is appended is there.
LEMMA ContainsMore ==
  ASSUME NEW s \in Seq(Nat), NEW t \in Seq(Nat), NEW v
  PROVE  Contains(s \o t, v) <=> Contains(s, v) \/ Contains(t, v)
<1> DEFINE x == s \o t
<1>1. Len(s) \in Nat /\ Len(t) \in Nat
  BY LenProperties
<1>2. /\ Len(x) = Len(s) + Len(t)
      /\ \A i \in 1 .. Len(s) + Len(t) :
            x[i] = IF i <= Len(s) THEN s[i] ELSE t[i - Len(s)]
  BY ConcatProperties
<1> HIDE DEF x
<1>3. ASSUME NEW i \in 1 .. Len(x), x[i] = v
      PROVE  Contains(s, v) \/ Contains(t, v)
  <2>1. CASE i <= Len(s)
    BY <1>1, <1>2, <1>3, <2>1 DEF Contains
  <2>2. CASE ~(i <= Len(s))
    <3>1. i - Len(s) \in 1 .. Len(t)
      BY <1>1, <1>2, <2>2
    <3> QED
      BY <1>1, <1>2, <1>3, <2>2, <3>1 DEF Contains
  <2> QED
    BY <2>1, <2>2
<1>4. ASSUME NEW i \in 1 .. Len(s), s[i] = v
      PROVE  Contains(x, v)
  <2>1. i \in 1 .. Len(s) + Len(t) /\ i <= Len(s)
    BY <1>1
  <2> QED
    BY <1>2, <1>4, <2>1 DEF Contains
<1>5. ASSUME NEW i \in 1 .. Len(t), t[i] = v
      PROVE  Contains(x, v)
  <2>1. i + Len(s) \in 1 .. Len(s) + Len(t) /\ ~(i + Len(s) <= Len(s))
        /\ (i + Len(s)) - Len(s) = i
    BY <1>1
  <2>2. x[i + Len(s)] = t[i]
    BY <1>2, <2>1
  <2> QED
    BY <1>2, <1>5, <2>1, <2>2 DEF Contains
<1> QED
  BY <1>3, <1>4, <1>5 DEF x, Contains

\* The same for one character.
LEMMA ContainsNext ==
  ASSUME NEW s \in Seq(Nat), NEW e \in Nat, NEW v
  PROVE  Contains(Append(s, e), v) <=> Contains(s, v) \/ v = e
<1> DEFINE t == <<e>>
<1>1. t \in Seq(Nat) /\ Append(s, e) = s \o t
  BY AppendIsConcat
<1>2. Contains(t, v) <=> v = e
  BY DEF Contains
<1> HIDE DEF t
<1> QED
  BY <1>1, <1>2, ContainsMore

\* The shape of the ring.
LEMMA RingFacts ==
  ASSUME NEW h \in Index, NEW t \in Index, NEW p \in Index
  PROVE  /\ ~InRing(p, h, h) /\ ~InRing(h, h, t)
         /\ p # h => InRing(p, h, Succ(h))
         /\ InRing(p, h, t) => h # t
         /\ h # t => (InRing(p, h, t) <=> InRing(p, h, Succ(t)) \/ p = t)
         /\ Succ(h) # t => (InRing(p, Succ(h), t) <=> InRing(p, h, t) \/ p = h)
<1>1. /\ Succ(h) = IF h = Size - 1 THEN 0 ELSE h + 1
      /\ Succ(t) = IF t = Size - 1 THEN 0 ELSE t + 1
  BY SuccIndex
<1> QED
  BY <1>1, SizeAssumption DEF InRing, Index

\* The ring behind its first cell.
LEMMA RingBehind ==
  ASSUME NEW h \in Index, NEW t \in Index, h # t, NEW p \in Index, NEW q \in Index,
         InRing(q, h, Succ(t)), InRing(p, q, Succ(t))
  PROVE  InRing(q, h, t) /\ InRing(p, q, t)
<1>1. Succ(t) = IF t = Size - 1 THEN 0 ELSE t + 1
  BY SuccIndex
<1> QED
  BY <1>1, SizeAssumption DEF InRing, Index

\* What comes before a cell of the ring is in the ring.
LEMMA RingBefore ==
  ASSUME NEW h \in Index, NEW t \in Index, NEW p \in Index, NEW q \in Index,
         InRing(q, h, t), InRing(p, q, t)
  PROVE  InRing(p, h, t)
BY SizeAssumption DEF InRing, Index

\* Steps of the boot code outside its calls of io_buffer_pop that leave the
\* characters where they are.
LEMMA CellsKept ==
  ASSUME CellsInv, UNCHANGED <<buf, head, tail, screen, printed, ch>>,
         Holding => Holding',
         pc \notin Flushing \cup {"user", "advance"},
         pc' \notin Flushing \cup {"user"}
  PROVE  CellsInv'
<1>1. pc \notin Popping /\ pc' \notin Popping
  BY DEF Flushing, Popping
<1>2. \A v : Settled(v) => Settled(v)'
  BY <1>1 DEF Settled
<1>3. NoneLost'
  BY <1>2 DEF CellsInv, NoneLost
<1>4. StaleSettled'
  BY <1>2 DEF CellsInv, StaleSettled
<1>5. NoZeros'
  BY DEF CellsInv, NoZeros
<1>6. FullBuffer' /\ SkippedSettled'
  BY DEF FullBuffer, SkippedSettled, Flushing
<1> QED
  BY <1>3, <1>4, <1>5, <1>6 DEF CellsInv

\* A character printed before serial_init is on the screen at once.
LEMMA CellsEarly ==
  ASSUME TypeInv, CellsInv, EarlyPrint
  PROVE  CellsInv'
<1>1. /\ printed' = printed + 1 /\ screen' = Append(screen, printed + 1)
      /\ UNCHANGED <<buf, head, tail, ch>>
      /\ pc \in Unlogged /\ pc' \in Unlogged
  BY DEF EarlyPrint, serial_write_byte, At, Goto, ring, locals, Unlogged
<1>2. /\ pc \notin Flushing \cup Popping \cup {"user", "advance"}
      /\ pc' \notin Flushing \cup Popping \cup {"user"}
      /\ ~Holding
  BY <1>1 DEF Unlogged, Flushing, Popping, Holding, Placing
<1>3. printed \in Nat /\ screen \in Seq(Nat) /\ printed + 1 \in Nat
  BY DEF TypeInv
<1>4. \A v : Contains(screen, v) \/ v = printed + 1 => Contains(screen', v)
  BY <1>1, <1>3, ContainsNext
<1>5. \A v : Settled(v) => Settled(v)'
  BY <1>2, <1>4 DEF Settled
<1>6. NoneLost'
  <2> SUFFICES ASSUME NEW n \in 1 .. printed + 1
               PROVE  \/ Settled(n)'
                      \/ \E p \in Index : InRing(p, head, tail) /\ buf[p] = n
    BY <1>1 DEF NoneLost
  <2>1. n = printed + 1 \/ n \in 1 .. printed
    BY <1>3
  <2> QED
    BY <1>2, <1>4, <1>5, <2>1 DEF CellsInv, NoneLost, Settled
<1>7. StaleSettled' /\ NoZeros'
  BY <1>1, <1>2, <1>5 DEF CellsInv, StaleSettled, NoZeros
<1>8. FullBuffer' /\ SkippedSettled'
  BY <1>2 DEF FullBuffer, SkippedSettled, Flushing
<1> QED
  BY <1>6, <1>7, <1>8 DEF CellsInv

\* The boot code has a new character in hand.
LEMMA CellsOut ==
  ASSUME TypeInv, CellsInv, Out
  PROVE  CellsInv'
<1>1. /\ printed' = printed + 1 /\ ch' = printed + 1 /\ pc = "out" /\ pc' = "check"
      /\ UNCHANGED <<buf, head, tail, screen>>
  BY DEF Out, serial_write_byte, At, Goto, ring
<1>2. /\ pc \notin Flushing \cup Popping \cup {"user", "advance"}
      /\ pc' \notin Flushing \cup Popping \cup {"user"}
      /\ ~Holding /\ Holding'
  BY <1>1 DEF Flushing, Popping, Holding, Placing
<1>3. \A v : Settled(v) => Settled(v)'
  BY <1>1, <1>2 DEF Settled
<1>4. NoneLost'
  <2> SUFFICES ASSUME NEW n \in 1 .. printed + 1
               PROVE  \/ Settled(n)'
                      \/ n = printed + 1
                      \/ \E p \in Index : InRing(p, head, tail) /\ buf[p] = n
    BY <1>1, <1>2 DEF NoneLost
  <2>1. n = printed + 1 \/ n \in 1 .. printed
    BY DEF TypeInv
  <2> QED
    BY <1>2, <1>3, <2>1 DEF CellsInv, NoneLost
<1>5. StaleSettled' /\ NoZeros'
  BY <1>1, <1>2, <1>3 DEF CellsInv, StaleSettled, NoZeros
<1>6. FullBuffer' /\ SkippedSettled'
  BY <1>2 DEF FullBuffer, SkippedSettled, Flushing
<1> QED
  BY <1>4, <1>5, <1>6 DEF CellsInv

\* The buffer's page comes while the ring is empty.
LEMMA CellsPage ==
  ASSUME TypeInv, FlowInv, CellsInv, TakePage, printed' = printed
  PROVE  CellsInv'
<1>1. /\ buf' = [i \in Index |-> 0] /\ UNCHANGED <<head, tail, screen, ch>>
      /\ pc = "page" /\ pc' = "look" /\ head = tail
  BY DEF TakePage, At, Goto, locals, FlowInv
<1>2. /\ pc \notin Flushing \cup Popping \cup {"user", "advance"}
      /\ pc' \notin Flushing \cup Popping \cup {"user"}
      /\ Holding /\ Holding'
  BY <1>1 DEF Flushing, Popping, Holding, Placing
<1>3. \A v : Settled(v) => Settled(v)'
  BY <1>1, <1>2 DEF Settled
<1>4. \A p \in Index : ~InRing(p, head, tail)
  BY <1>1, RingFacts DEF TypeInv
<1>5. NoneLost'
  BY <1>1, <1>2, <1>3, <1>4 DEF CellsInv, NoneLost
<1>6. StaleSettled' /\ NoZeros'
  BY <1>1, <1>4 DEF StaleSettled, NoZeros, Settled
<1>7. FullBuffer' /\ SkippedSettled'
  BY <1>2 DEF FullBuffer, SkippedSettled, Flushing
<1> QED
  BY <1>5, <1>6, <1>7 DEF CellsInv

\* io_buffer_place flushes a full buffer.
LEMMA CellsFull ==
  ASSUME TypeInv, FlowInv, CellsInv, FullTest, printed' = printed
  PROVE  CellsInv'
<1>1. /\ UNCHANGED <<buf, head, tail, screen, ch>>
      /\ pc = "full" /\ next_head = Succ(head)
  BY DEF FullTest, At, ring, FlowInv
<1>2. CASE next_head # tail
  <2>1. pc' = "sanity"
    BY <1>2 DEF FullTest, Goto
  <2> QED
    BY <1>1, <2>1, CellsKept DEF Holding, Placing, Flushing
<1>3. CASE next_head = tail
  <2>1. pc' = "empty" /\ caller' = "sanity" /\ tail = Succ(head)
    BY <1>1, <1>3 DEF FullTest, Goto
  <2>2. /\ pc \notin Flushing \cup Popping \cup {"user", "advance"}
        /\ pc' \in Flushing /\ pc' \notin Popping
        /\ Holding /\ Holding'
    BY <1>1, <2>1 DEF Flushing, Popping, Holding, Placing
  <2>3. \A v : Settled(v) => Settled(v)'
    BY <1>1, <2>2 DEF Settled
  <2>4. \A p \in Index : InRing(p, head, tail) => buf[p] # 0
    BY <2>2 DEF CellsInv, NoZeros
  <2>5. \A p \in Index : p # head => buf[p] # 0
    BY <2>1, <2>4, RingFacts DEF TypeInv
  <2>6. NoneLost'
    BY <1>1, <2>2, <2>3 DEF CellsInv, NoneLost
  <2>7. StaleSettled'
    BY <1>1, <2>2, <2>3 DEF CellsInv, StaleSettled
  <2>8. NoZeros' /\ FullBuffer'
    BY <1>1, <2>2, <2>5 DEF NoZeros, FullBuffer
  <2>9. \A p, q \in Index : InRing(q, head, tail) /\ InRing(p, q, tail) => buf[p] # 0
    BY <2>4, RingBefore DEF TypeInv
  <2>10. SkippedSettled'
    BY <1>1, <2>1, <2>9 DEF SkippedSettled, SettledAfterZero
  <2> QED
    BY <2>6, <2>7, <2>8, <2>10 DEF CellsInv
<1> QED
  BY <1>2, <1>3

\* io_buffer_place writes the character into the cell before the ring's head.
LEMMA CellsPut ==
  ASSUME TypeInv, FlowInv, CellsInv, PutChar, printed' = printed
  PROVE  CellsInv'
<1>1. /\ buf' = [buf EXCEPT ![head] = ch] /\ UNCHANGED <<head, tail, screen, ch>>
      /\ pc = "put" /\ pc' = "advance"
  BY DEF PutChar, At, Goto, locals, FlowInv
<1>2. /\ pc \notin Flushing \cup Popping \cup {"user", "advance"}
      /\ pc' \notin Flushing \cup Popping \cup {"user"}
      /\ Holding /\ Holding'
  BY <1>1 DEF Flushing, Popping, Holding, Placing
<1>3. \A v : Settled(v) => Settled(v)'
  BY <1>1, <1>2 DEF Settled
<1>4. /\ \A p \in Index : p # head => buf'[p] = buf[p]
      /\ \A p \in Index : InRing(p, head, tail) => p # head
  BY <1>1, RingFacts DEF TypeInv
<1>5. NoneLost'
  <2> SUFFICES ASSUME NEW n \in 1 .. printed
               PROVE  \/ Settled(n)'
                      \/ n = ch
                      \/ \E p \in Index : InRing(p, head, tail) /\ buf'[p] = n
    BY <1>1, <1>2 DEF NoneLost
  <2> QED
    BY <1>3, <1>4 DEF CellsInv, NoneLost
<1>6. StaleSettled'
  <2> SUFFICES ASSUME NEW p \in Index
               PROVE  InRing(p, head, tail) \/ Settled(buf[p])' \/ p = head
    BY <1>1 DEF StaleSettled
  <2>1. p # head => InRing(p, head, tail) \/ Settled(buf[p])
    BY <1>1 DEF CellsInv, StaleSettled
  <2>2. p # head => (Settled(buf[p]) => Settled(buf[p])')
    BY <1>1, <1>2, <1>4 DEF Settled
  <2> QED
    BY <2>1, <2>2
<1>7. NoZeros'
  BY <1>1, <1>2, <1>4 DEF CellsInv, NoZeros
<1>8. FullBuffer' /\ SkippedSettled'
  BY <1>2 DEF FullBuffer, SkippedSettled, Flushing
<1> QED
  BY <1>5, <1>6, <1>7, <1>8 DEF CellsInv

\* and makes the cell part of the ring, unless that closes the ring.
LEMMA CellsAdvance ==
  ASSUME TypeInv, FlowInv, CellsInv, AdvanceHead, printed' = printed,
         ~(pc = "overflow" /\ head = tail)'
  PROVE  CellsInv'
<1>1. /\ head' = Succ(head) /\ UNCHANGED <<buf, tail, screen, ch>>
      /\ pc = "advance" /\ pc' = "overflow"
      /\ buf[head] = ch /\ ch > 0
  BY DEF AdvanceHead, At, Goto, locals, FlowInv, Holding, Placing
<1>2. Succ(head) # tail
  BY <1>1
<1>3. /\ pc \notin Flushing \cup Popping \cup {"user"}
      /\ pc' \notin Flushing \cup Popping \cup {"user"}
      /\ Holding /\ ~Holding'
  BY <1>1 DEF Flushing, Popping, Holding, Placing
<1>4. \A v : Settled(v) => Settled(v)'
  BY <1>1, <1>3 DEF Settled
<1>5. \A p \in Index : InRing(p, Succ(head), tail) <=> InRing(p, head, tail) \/ p = head
  BY <1>2, RingFacts DEF TypeInv
<1>6. NoneLost'
  <2> SUFFICES ASSUME NEW n \in 1 .. printed
               PROVE  \/ Settled(n)'
                      \/ \E p \in Index : InRing(p, Succ(head), tail) /\ buf[p] = n
    BY <1>1 DEF NoneLost
  <2>1. \/ Settled(n)
        \/ n = ch
        \/ \E p \in Index : InRing(p, head, tail) /\ buf[p] = n
    BY DEF CellsInv, NoneLost
  <2>2. head \in Index
    BY DEF TypeInv
  <2> QED
    BY <1>1, <1>4, <1>5, <2>1, <2>2
<1>7. StaleSettled'
  BY <1>1, <1>4, <1>5 DEF CellsInv, StaleSettled
<1>8. NoZeros'
  <2>1. ch # 0
    BY <1>1 DEF TypeInv
  <2>2. \A p \in Index : InRing(p, head, tail) => buf[p] # 0
    BY <1>3 DEF CellsInv, NoZeros
  <2> QED
    BY <1>1, <1>5, <2>1, <2>2 DEF NoZeros
<1>9. FullBuffer' /\ SkippedSettled'
  BY <1>3 DEF FullBuffer, SkippedSettled, Flushing
<1> QED
  BY <1>6, <1>7, <1>8, <1>9 DEF CellsInv

\* stdlib_flushstdio begins to pop.
LEMMA CellsFlush ==
  ASSUME TypeInv, CellsInv, Flush, printed' = printed
  PROVE  CellsInv'
<1>1. /\ UNCHANGED <<buf, head, tail, screen, ch>>
      /\ pc = "idle" /\ pc' = "empty" /\ caller' = "user"
  BY DEF Flush, At, Goto, ring
<1>2. /\ pc \notin Flushing \cup Popping \cup {"user", "advance"}
      /\ pc' \in Flushing /\ pc' \notin Popping
      /\ ~Holding
  BY <1>1 DEF Flushing, Popping, Holding, Placing
<1>3. \A v : Settled(v) => Settled(v)'
  BY <1>1, <1>2 DEF Settled
<1>4. \A p \in Index : InRing(p, head, tail) => buf[p] # 0
  BY <1>2 DEF CellsInv, NoZeros
<1>5. NoneLost'
  BY <1>1, <1>2, <1>3 DEF CellsInv, NoneLost
<1>6. StaleSettled'
  BY <1>1, <1>2, <1>3 DEF CellsInv, StaleSettled
<1>7. NoZeros' /\ FullBuffer'
  BY <1>1, <1>2 DEF NoZeros, FullBuffer
<1>8. \A p, q \in Index : InRing(q, head, tail) /\ InRing(p, q, tail) => buf[p] # 0
  BY <1>4, RingBefore DEF TypeInv
<1>9. SkippedSettled'
  BY <1>1, <1>8 DEF SkippedSettled, SettledAfterZero
<1> QED
  BY <1>5, <1>6, <1>7, <1>9 DEF CellsInv

\* io_buffer_pop looks whether the ring is empty.
LEMMA CellsEmpty ==
  ASSUME TypeInv, CellsInv, EmptyTest, printed' = printed
  PROVE  CellsInv'
<1>1. /\ UNCHANGED <<buf, head, tail, screen, ch, caller>>
      /\ pc = "empty" /\ pc' = (IF head = tail THEN caller ELSE "pop")
      /\ caller \in {"sanity", "user"}
  BY DEF EmptyTest, At, Goto, ring, locals, TypeInv, Flushing
<1>2. /\ pc \in Flushing /\ pc \notin Popping /\ pc' \notin Popping
      /\ Holding => Holding'
      /\ pc # "advance" /\ pc' # "load" /\ pc' # "store"
      /\ pc' \notin Flushing => head = tail
  BY <1>1 DEF Flushing, Popping, Holding, Placing
<1>3. \A v : Settled(v) <=> Settled(v)'
  BY <1>1, <1>2 DEF Settled
<1>4. NoneLost'
  BY <1>1, <1>2, <1>3 DEF CellsInv, NoneLost
<1>5. StaleSettled'
  BY <1>1, <1>2, <1>3 DEF CellsInv, StaleSettled
<1>6. NoZeros'
  <2>1. head = tail => \A p \in Index : ~InRing(p, head, tail)
    BY RingFacts DEF TypeInv
  <2> QED
    BY <1>1, <1>2, <2>1 DEF NoZeros
<1>7. FullBuffer'
  BY <1>1, <1>2 DEF CellsInv, FullBuffer
<1>8. SkippedSettled'
  BY <1>1, <1>2, <1>3 DEF CellsInv, SkippedSettled, SettledAfterZero
<1> QED
  BY <1>4, <1>5, <1>6, <1>7, <1>8 DEF CellsInv

\* It reads the character,
LEMMA CellsPop ==
  ASSUME TypeInv, CellsInv, PopChar, printed' = printed
  PROVE  CellsInv'
<1>1. /\ UNCHANGED <<buf, head, tail, screen, ch, caller>>
      /\ pc = "pop" /\ pc' = "load" /\ popped' = buf[tail]
  BY DEF PopChar, At, Goto, ring
<1>2. /\ pc \in Flushing /\ pc' \in Flushing /\ pc \notin Popping /\ pc' \in Popping
      /\ Holding => Holding'
  BY <1>1 DEF Flushing, Popping, Holding, Placing
<1>3. \A v : Settled(v) => Settled(v)'
  BY <1>1, <1>2 DEF Settled
<1>4. NoneLost'
  BY <1>1, <1>2, <1>3 DEF CellsInv, NoneLost
<1>5. StaleSettled'
  BY <1>1, <1>2, <1>3 DEF CellsInv, StaleSettled
<1>6. NoZeros' /\ FullBuffer'
  BY <1>1, <1>2 DEF CellsInv, NoZeros, FullBuffer
<1>7. SkippedSettled'
  <2>1. Settled(buf[tail])'
    BY <1>1, <1>2 DEF Settled
  <2> QED
    BY <1>1, <1>2, <1>3, <2>1 DEF CellsInv, SkippedSettled, SettledAfterZero
<1> QED
  BY <1>4, <1>5, <1>6, <1>7 DEF CellsInv

\* loads tail_ptr,
LEMMA CellsLoad ==
  ASSUME TypeInv, CellsInv, LoadTail, printed' = printed
  PROVE  CellsInv'
<1>1. /\ UNCHANGED <<buf, head, tail, screen, ch, caller, popped>>
      /\ pc = "load" /\ pc' = "store" /\ reg' = tail
  BY DEF LoadTail, At, Goto, ring
<1>2. /\ pc \in Flushing /\ pc' \in Flushing /\ pc \in Popping /\ pc' \in Popping
      /\ Holding => Holding'
  BY <1>1 DEF Flushing, Popping, Holding, Placing
<1>3. \A v : Settled(v) => Settled(v)'
  BY <1>1, <1>2 DEF Settled
<1>4. NoneLost'
  BY <1>1, <1>2, <1>3 DEF CellsInv, NoneLost
<1>5. StaleSettled'
  BY <1>1, <1>2, <1>3 DEF CellsInv, StaleSettled
<1>6. NoZeros' /\ FullBuffer'
  BY <1>1, <1>2 DEF CellsInv, NoZeros, FullBuffer
<1>7. SettledAfterZero(Succ(tail)) /\ SettledAfterZero(tail)
  <2>1. SettledAfterZero(tail)
    BY <1>2 DEF CellsInv, SkippedSettled
  <2>2. CASE head # tail
    BY <2>1, <2>2, RingBehind DEF SettledAfterZero, TypeInv
  <2>3. CASE head = tail
    <3>1. \A p \in Index : ~InRing(p, head, tail)
      BY <2>3, RingFacts DEF TypeInv
    <3>2. \A p \in Index : Settled(buf[p])
      BY <1>1, <3>1 DEF CellsInv, StaleSettled
    <3> QED
      BY <2>1, <3>2 DEF SettledAfterZero
  <2> QED
    BY <2>1, <2>2, <2>3
<1>8. \A p \in Index : InRing(p, head, tail) => InRing(p, head, Succ(tail)) \/ Settled(buf[p])
  BY <1>1, RingFacts DEF CellsInv, SkippedSettled, TypeInv
<1>9. SkippedSettled'
  BY <1>1, <1>2, <1>3, <1>7, <1>8 DEF SkippedSettled, SettledAfterZero
<1> QED
  BY <1>4, <1>5, <1>6, <1>9 DEF CellsInv

\* stores it,
LEMMA CellsStore ==
  ASSUME TypeInv, CellsInv, StoreTail, printed' = printed
  PROVE  CellsInv'
<1>1. /\ UNCHANGED <<buf, head, screen, ch, caller, popped>>
      /\ pc = "store" /\ pc' = "show" /\ tail' = Succ(reg)
  BY DEF StoreTail, At, Goto, locals
<1>2. /\ pc \in Flushing /\ pc' \in Flushing /\ pc \in Popping /\ pc' \in Popping
      /\ Holding => Holding'
  BY <1>1 DEF Flushing, Popping, Holding, Placing
<1>3. \A v : Settled(v) => Settled(v)'
  BY <1>1, <1>2 DEF Settled
<1>4. /\ SettledAfterZero(Succ(reg))
      /\ \A p \in Index :
           InRing(p, head, tail) => InRing(p, head, Succ(reg)) \/ Settled(buf[p])
  BY <1>1 DEF CellsInv, SkippedSettled
<1>5. NoneLost'
  <2> SUFFICES ASSUME NEW n \in 1 .. printed
               PROVE  \/ Settled(n)'
                      \/ Holding' /\ n = ch
                      \/ \E p \in Index : InRing(p, head, Succ(reg)) /\ buf[p] = n
    BY <1>1 DEF NoneLost
  <2>1. \/ Settled(n)
        \/ Holding /\ n = ch
        \/ \E p \in Index : InRing(p, head, tail) /\ buf[p] = n
    BY DEF CellsInv, NoneLost
  <2> QED
    BY <1>2, <1>3, <1>4, <2>1
<1>6. StaleSettled'
  BY <1>1, <1>3, <1>4 DEF CellsInv, StaleSettled
<1>7. NoZeros' /\ FullBuffer'
  BY <1>1, <1>2 DEF CellsInv, NoZeros, FullBuffer
<1>8. SkippedSettled'
  BY <1>1, <1>3, <1>4 DEF SkippedSettled, SettledAfterZero
<1> QED
  BY <1>5, <1>6, <1>7, <1>8 DEF CellsInv

\* and shows the character, unless it is a zero byte.
LEMMA CellsShow ==
  ASSUME TypeInv, CellsInv, ShowChar, printed' = printed
  PROVE  CellsInv'
<1>1. /\ UNCHANGED <<buf, head, tail, ch, caller, popped>>
      /\ pc = "show" /\ caller \in {"sanity", "user"}
      /\ \/ popped = 0 /\ pc' = caller /\ screen' = screen
         \/ popped # 0 /\ pc' = "empty" /\ screen' = Append(screen, popped)
  BY DEF ShowChar, At, Goto, ring, locals, TypeInv, Flushing
<1>2. /\ pc \in Flushing /\ pc \in Popping /\ pc' \notin Popping
      /\ pc # "advance" /\ pc' # "load" /\ pc' # "store"
      /\ Holding => Holding'
      /\ pc' \in Flushing \/ pc' = caller
  BY <1>1 DEF Flushing, Popping, Holding, Placing
<1>3. \A v : Settled(v) => Settled(v)'
  <2>1. screen \in Seq(Nat) /\ popped \in Nat
    BY DEF TypeInv
  <2>2. CASE popped = 0
    BY <1>1, <1>2, <2>2 DEF Settled
  <2>3. CASE popped # 0
    <3>1. screen' = Append(screen, popped)
      BY <1>1, <2>3
    <3>2. \A v : Contains(screen, v) \/ v = popped => Contains(screen', v)
      BY <2>1, <3>1, ContainsNext
    <3> QED
      BY <3>2 DEF Settled
  <2> QED
    BY <2>2, <2>3
<1>4. NoneLost'
  BY <1>1, <1>2, <1>3 DEF CellsInv, NoneLost
<1>5. StaleSettled'
  BY <1>1, <1>2, <1>3 DEF CellsInv, StaleSettled
<1>6. NoZeros'
  <2>1. caller = "sanity" => \A p \in Index : p # head => buf[p] # 0
    BY <1>2 DEF CellsInv, FullBuffer
  <2>2. \A p \in Index : InRing(p, head, tail) => p # head
    BY RingFacts DEF TypeInv
  <2> QED
    BY <1>1, <1>2, <2>1, <2>2 DEF NoZeros
<1>7. FullBuffer'
  BY <1>1, <1>2 DEF CellsInv, FullBuffer
<1>8. SkippedSettled'
  BY <1>1, <1>2, <1>3 DEF CellsInv, SkippedSettled, SettledAfterZero
<1> QED
  BY <1>4, <1>5, <1>6, <1>7, <1>8 DEF CellsInv

\* The timer's flush may run between any two steps of the boot code.
LEMMA CellsTimer ==
  ASSUME TypeInv, CellsInv, Timer
  PROVE  CellsInv'
<1> DEFINE u == Flushed(tail).tail
           x == Flushed(tail).text
<1>1. /\ UNCHANGED <<buf, head, ch, caller, reg, popped, printed, pc>>
      /\ screen' = screen \o x /\ tail' = u
  BY DEF Timer, locals
<1>2. /\ buf \in [Index -> Nat] /\ head \in Index /\ tail \in Index
      /\ screen \in Seq(Nat)
  BY DEF TypeInv
<1>3. u \in Index /\ x \in Seq(Nat)
  BY <1>2, FlushedFacts
<1>4. /\ \A p \in Index : InRing(p, head, tail) =>
           InRing(p, head, u) \/ buf[p] = 0 \/ Contains(x, buf[p])
      /\ \A p \in Index : InRing(p, head, u) => InRing(p, head, tail)
      /\ \A p, q \in Index :
           InRing(q, head, u) /\ InRing(p, q, u) => InRing(p, q, tail)
      /\ \/ u = head
         \/ \E z \in Index :
              /\ InRing(z, head, tail) /\ buf[z] = 0
              /\ \A q \in Index : InRing(q, head, u) => InRing(z, q, tail)
  BY <1>2, FlushedRing
<1> HIDE DEF u, x
<1>5. \A v : Contains(screen, v) \/ Contains(x, v) => Contains(screen', v)
  BY <1>1, <1>2, <1>3, ContainsMore
<1>6. \A v : Settled(v) \/ v = 0 \/ Contains(x, v) => Settled(v)'
  BY <1>1, <1>5 DEF Settled
<1>7. Holding <=> Holding'
  BY <1>1 DEF Holding
<1>8. NoneLost'
  <2> SUFFICES ASSUME NEW n \in 1 .. printed
               PROVE  \/ Settled(n)'
                      \/ Holding' /\ n = ch
                      \/ \E p \in Index : InRing(p, head, u) /\ buf[p] = n
    BY <1>1 DEF NoneLost
  <2>1. \/ Settled(n)
        \/ Holding /\ n = ch
        \/ \E p \in Index : InRing(p, head, tail) /\ buf[p] = n
    BY DEF CellsInv, NoneLost
  <2> QED
    BY <1>4, <1>6, <1>7, <2>1
<1>9. StaleSettled'
  BY <1>1, <1>4, <1>6 DEF CellsInv, StaleSettled
<1>10. NoZeros' /\ FullBuffer'
  BY <1>1, <1>4 DEF CellsInv, NoZeros, FullBuffer
<1>11. SkippedSettled'
  <2>1. pc \in Flushing => SettledAfterZero(tail)
    BY DEF CellsInv, SkippedSettled
  <2>2. pc \in Flushing => SettledAfterZero(tail)'
    <3> SUFFICES ASSUME pc \in Flushing, NEW p \in Index, NEW q \in Index,
                        InRing(q, head, u), InRing(p, q, u), buf[p] = 0
                 PROVE  Settled(buf[q])'
      BY <1>1 DEF SettledAfterZero
    <3>1. InRing(q, head, tail) /\ InRing(p, q, tail)
      BY <1>4
    <3>2. Settled(buf[q])
      BY <2>1, <3>1 DEF SettledAfterZero
    <3> QED
      BY <1>1, <1>6, <3>2
  <2>3. pc = "load" /\ head # u => Settled(buf[tail])'
    <3> SUFFICES ASSUME pc = "load", head # u  PROVE Settled(buf[u])
      BY <1>1, <1>6
    <3>1. InRing(u, head, u)
      BY <1>2, <1>3, SizeAssumption DEF InRing, Index
    <3>2. InRing(u, head, tail)
      BY <1>3, <1>4, <3>1
    <3>3. PICK z \in Index : buf[z] = 0 /\ InRing(z, u, tail)
      BY <1>3, <1>4, <3>1
    <3> QED
      BY <1>3, <2>1, <3>2, <3>3 DEF SettledAfterZero, Flushing
  <2>4. pc = "store" => SettledAfterZero(Succ(reg))'
    <3>1. pc = "store" => SettledAfterZero(Succ(reg))
      BY DEF CellsInv, SkippedSettled
    <3> QED
      BY <1>1, <1>6, <3>1 DEF SettledAfterZero
  <2>5. pc = "store" =>
          \A p \in Index : InRing(p, head, u) => InRing(p, head, Succ(reg)) \/ Settled(buf[p])'
    <3>1. pc = "store" =>
            \A p \in Index :
              InRing(p, head, tail) => InRing(p, head, Succ(reg)) \/ Settled(buf[p])
      BY DEF CellsInv, SkippedSettled
    <3> QED
      BY <1>1, <1>4, <1>6, <3>1
  <2> QED
    BY <1>1, <2>2, <2>3, <2>4, <2>5 DEF SkippedSettled
<1> QED
  BY <1>8, <1>9, <1>10, <1>11 DEF CellsInv

\* Appending two texts one after the other.
LEMMA Concatenated ==
  ASSUME NEW r \in Seq(Nat), NEW s \in Seq(Nat), NEW t \in Seq(Nat)
  PROVE  (r \o s) \o t = r \o (s \o t)
BY ConcatAssociative, SMTT(30)

\* The handler that echoes: it shows all that is in the ring, or what is before
\* a zero byte, perhaps twice, and puts the key into a ring that has room for it.
LEMMA EchoFlushes ==
  ASSUME TypeInv, FlowInv, TimerEcho
  PROVE  \E x \in Seq(Nat), page \in [Index -> Nat] :
           /\ screen' = screen \o x
           /\ buf' = [page EXCEPT ![head] = printed + 1]
           /\ tail' \in Index /\ Succ(head) # tail' /\ panicked' = "none"
           /\ \A p \in Index : page[p] = 0 \/ page[p] = buf[p]
           /\ \A p \in Index : InRing(p, head, tail) =>
                /\ page[p] = buf[p]
                /\ InRing(p, head, tail') \/ buf[p] = 0 \/ Contains(x, buf[p])
           /\ \A p \in Index : InRing(p, head, tail') => InRing(p, head, tail)
           /\ (\A p \in Index : InRing(p, head, tail) => buf[p] # 0) =>
                tail' = head /\ x = Content(buf, head, tail)
<1>1. /\ buf \in [Index -> Nat] /\ head \in Index /\ tail \in Index
      /\ screen \in Seq(Nat) /\ printed \in Nat
  BY DEF TypeInv
<1>2. Succ(head) \in Index /\ Succ(head) # head
  BY <1>1, SuccIndex
<1>3. <<>> \in Seq(Nat)
  OBVIOUS
<1>4. CASE ~is_init
  <2> DEFINE page == [i \in Index |-> 0]
  <2>1. head = tail
    BY <1>4 DEF FlowInv
  <2>2. /\ screen' = screen \o <<>> \o <<>> /\ tail' = tail
        /\ buf' = [page EXCEPT ![head] = printed'] /\ panicked' = "none"
        /\ printed' = printed + 1
    BY <1>2, <1>4, <2>1 DEF TimerEcho, EchoLogged, serial_write_byte
  <2>3. screen' = screen \o <<>>
    BY <1>1, <2>2, ConcatEmptySeq
  <2>4. page \in [Index -> Nat] /\ \A p \in Index : page[p] = 0
    OBVIOUS
  <2>5. \A p \in Index : ~InRing(p, head, tail)
    BY <1>1, <2>1, RingFacts
  <2>6. Content(buf, head, tail) = <<>>
    <3>1. Content(buf, head, tail) \in Seq(Nat) /\ Len(Content(buf, head, tail)) = Dist(head, tail)
      BY <1>1, ContentFacts
    <3>2. Dist(head, tail) = 0
      BY <1>1, <2>1, Constants DEF Dist, Index
    <3> QED
      BY <3>1, <3>2, EmptySeq
  <2> HIDE DEF page
  <2> QED
    BY <1>1, <1>2, <1>3, <2>1, <2>2, <2>3, <2>4, <2>5, <2>6
<1>5. CASE is_init
  <2> DEFINE u == Flushed(tail).tail
             x == Flushed(tail).text
  <2>1. u \in Index /\ x \in Seq(Nat)
    BY <1>1, FlushedFacts
  <2>2. /\ \A p \in Index : InRing(p, head, tail) =>
             InRing(p, head, u) \/ buf[p] = 0 \/ Contains(x, buf[p])
        /\ \A p \in Index : InRing(p, head, u) => InRing(p, head, tail)
    BY <1>1, FlushedRing
  <2>3. (\A p \in Index : InRing(p, head, tail) => buf[p] # 0) =>
          u = head /\ x = Content(buf, head, tail)
    BY <1>1, FlushedFacts
  <2>4. CASE Succ(head) # u
    <3>1. /\ screen' = screen \o x \o <<>> /\ tail' = u
          /\ buf' = [buf EXCEPT ![head] = printed'] /\ panicked' = "none"
          /\ printed' = printed + 1
      BY <1>5, <2>4 DEF TimerEcho, EchoLogged, serial_write_byte
    <3> HIDE DEF u, x
    <3>2. screen \o x \in Seq(Nat)
      BY <1>1, <2>1, ConcatProperties
    <3>3. screen' = screen \o x
      BY <3>1, <3>2, ConcatEmptySeq
    <3> QED
      BY <1>1, <2>1, <2>2, <2>3, <2>4, <3>1, <3>3
  <2>5. CASE Succ(head) = u
    <3> DEFINE w == Flushed(u).tail
               y == Flushed(u).text
               xy == x \o y
    <3>1. w \in Index /\ y \in Seq(Nat)
      BY <1>1, <2>1, FlushedFacts
    <3>2. /\ \A p \in Index : InRing(p, head, u) =>
               InRing(p, head, w) \/ buf[p] = 0 \/ Contains(y, buf[p])
          /\ \A p \in Index : InRing(p, head, w) => InRing(p, head, u)
          /\ w # u
      BY <1>1, <1>2, <2>1, <2>5, FlushedRing
    <3>3. /\ screen' = screen \o x \o y /\ tail' = w
          /\ buf' = [buf EXCEPT ![head] = printed'] /\ printed' = printed + 1
          /\ panicked' = IF Succ(head) = w THEN "overflow" ELSE "none"
      BY <1>5, <2>5 DEF TimerEcho, EchoLogged, serial_write_byte
    <3> HIDE DEF u, x, w, y
    <3>4. screen' = screen \o xy /\ xy \in Seq(Nat)
      <4>1. x \o y \in Seq(Nat)
        BY <2>1, <3>1, ConcatProperties
      <4>2. (screen \o x) \o y = screen \o (x \o y)
        BY <1>1, <2>1, <3>1, Concatenated
      <4> QED
        BY <3>3, <4>1, <4>2
    <3>5. \A v : Contains(x, v) \/ Contains(y, v) => Contains(xy, v)
      BY <2>1, <3>1, ContainsMore
    <3>6. Succ(head) # w /\ u # head
      BY <1>2, <2>5, <3>2
    <3>7. \A p \in Index : InRing(p, head, tail) =>
             InRing(p, head, w) \/ buf[p] = 0 \/ Contains(xy, buf[p])
      BY <2>2, <3>2, <3>5
    <3>8. \A p \in Index : InRing(p, head, w) => InRing(p, head, tail)
      BY <2>2, <3>2
    <3>9. panicked' = "none" /\ buf' = [buf EXCEPT ![head] = printed + 1]
      BY <3>3, <3>6
    <3> HIDE DEF xy
    <3> QED
      BY <1>1, <2>3, <3>1, <3>3, <3>4, <3>6, <3>7, <3>8, <3>9
  <2> QED
    BY <2>4, <2>5
<1> QED
  BY <1>4, <1>5

\* An echo between the calls puts the key into the ring.
LEMMA CellsEcho ==
  ASSUME TypeInv, FlowInv, CellsInv, TimerEcho, Calm'
  PROVE  CellsInv'
<1>1. /\ pc \in {"idle", "wait", "out", "user"} /\ pc' = pc
      /\ head' = Succ(head) /\ printed' = printed + 1
  BY EchoBetween DEF TimerEcho, EchoLogged, serial_write_byte
<1>2. /\ buf \in [Index -> Nat] /\ head \in Index /\ tail \in Index
      /\ screen \in Seq(Nat) /\ printed \in Nat
  BY DEF TypeInv
<1>3. PICK x \in Seq(Nat), page \in [Index -> Nat] :
        /\ screen' = screen \o x
        /\ buf' = [page EXCEPT ![head] = printed + 1]
        /\ tail' \in Index /\ Succ(head) # tail'
        /\ \A p \in Index : page[p] = 0 \/ page[p] = buf[p]
        /\ \A p \in Index : InRing(p, head, tail) =>
             /\ page[p] = buf[p]
             /\ InRing(p, head, tail') \/ buf[p] = 0 \/ Contains(x, buf[p])
        /\ \A p \in Index : InRing(p, head, tail') => InRing(p, head, tail)
  BY EchoFlushes
<1>4. /\ buf'[head] = printed + 1
      /\ \A p \in Index : p # head => buf'[p] = page[p]
  BY <1>2, <1>3
<1>5. \A p \in Index : InRing(p, Succ(head), tail') <=> InRing(p, head, tail') \/ p = head
  BY <1>2, <1>3, RingFacts
<1>6. \A p \in Index : InRing(p, head, tail) => p # head
  BY <1>2, RingFacts
<1>7. \A v : Contains(screen, v) \/ Contains(x, v) => Contains(screen', v)
  BY <1>2, <1>3, ContainsMore
<1>8. pc \notin Popping /\ pc' \notin Popping /\ pc' \notin Flushing /\ ~Holding
      /\ pc # "advance"
  BY <1>1 DEF Popping, Flushing, Holding, Placing
<1>9. \A v : Settled(v) \/ v = 0 \/ Contains(x, v) => Settled(v)'
  BY <1>7, <1>8 DEF Settled
<1>10. NoneLost'
  <2> SUFFICES ASSUME NEW n \in 1 .. printed + 1
               PROVE  \/ Settled(n)'
                      \/ \E p \in Index : InRing(p, Succ(head), tail') /\ buf'[p] = n
    BY <1>1 DEF NoneLost
  <2>1. CASE n = printed + 1
    BY <1>2, <1>4, <1>5, <2>1
  <2>2. CASE n \in 1 .. printed
    <3>1. Settled(n) \/ \E p \in Index : InRing(p, head, tail) /\ buf[p] = n
      BY <1>8, <2>2 DEF CellsInv, NoneLost
    <3>2. ASSUME NEW p \in Index, InRing(p, head, tail), buf[p] = n
          PROVE  Settled(n)' \/ (InRing(p, Succ(head), tail') /\ buf'[p] = n)
      BY <1>3, <1>4, <1>5, <1>6, <1>9, <3>2
    <3> QED
      BY <1>9, <3>1, <3>2
  <2>3. n = printed + 1 \/ n \in 1 .. printed
    BY <1>2
  <2> QED
    BY <2>1, <2>2, <2>3
<1>11. StaleSettled'
  <2> SUFFICES ASSUME NEW p \in Index
               PROVE  InRing(p, Succ(head), tail') \/ Settled(buf[p])'
    BY <1>1 DEF StaleSettled
  <2>1. CASE p = head
    BY <1>5, <2>1
  <2>2. CASE p # head
    <3>1. InRing(p, head, tail) \/ Settled(buf[p])
      BY <1>8 DEF CellsInv, StaleSettled
    <3>2. InRing(p, Succ(head), tail') \/ Settled(page[p])'
      BY <1>3, <1>5, <1>9, <3>1
    <3>3. buf'[p] = page[p]
      BY <1>4, <2>2
    <3> QED
      BY <3>2, <3>3 DEF Settled
  <2> QED
    BY <2>1, <2>2
<1>12. NoZeros'
  <2> SUFFICES ASSUME pc # "user", NEW p \in Index, InRing(p, Succ(head), tail')
               PROVE  buf'[p] # 0
    BY <1>1 DEF NoZeros
  <2>1. CASE p = head
    BY <1>2, <1>4, <2>1
  <2>2. CASE p # head
    <3>1. InRing(p, head, tail)
      BY <1>3, <1>5, <2>2
    <3>2. buf[p] # 0
      BY <1>1, <1>8, <3>1 DEF CellsInv, NoZeros
    <3> QED
      BY <1>3, <1>4, <2>2, <3>1, <3>2
  <2> QED
    BY <2>1, <2>2
<1>13. FullBuffer' /\ SkippedSettled'
  BY <1>8 DEF FullBuffer, SkippedSettled, Flushing
<1> QED
  BY <1>10, <1>11, <1>12, <1>13 DEF CellsInv

\* Steps that touch neither the ring nor the boot code.
LEMMA CellsSame ==
  ASSUME CellsInv,
         UNCHANGED <<buf, head, tail, screen, printed, ch, pc, caller, reg, popped>>
  PROVE  CellsInv'
<1>1. \A v : Settled(v) <=> Settled(v)'
  BY DEF Settled
<1>2. Holding <=> Holding'
  BY DEF Holding
<1>3. NoneLost' /\ StaleSettled'
  BY <1>1, <1>2 DEF CellsInv, NoneLost, StaleSettled
<1>4. NoZeros' /\ FullBuffer'
  BY DEF CellsInv, NoZeros, FullBuffer
<1>5. SkippedSettled'
  BY <1>1 DEF CellsInv, SkippedSettled, SettledAfterZero
<1> QED
  BY <1>3, <1>4, <1>5 DEF CellsInv

\* An overflow that io_buffer_place is about to report stays one.
LEMMA OverflowStays ==
  ASSUME pc = "overflow", head = tail, [Next]_vars, Calm'
  PROVE  pc' = "overflow" /\ head' = tail'
<1>1. CASE BootStep
  BY <1>1 DEF BootStep, EarlyWait, EarlyPrint, SerialStarts, serial_init_write,
     serial_init_test, serial_write_wait, Printf, Wait, Out, RingStep, CheckInit,
     Claim, TakePage, LookAhead, FullTest, SanityTest, LoadIndex, PutChar,
     AdvanceHead, OverflowTest, Flush, EmptyTest, PopChar, LoadTail, StoreTail,
     ShowChar, At, Goto, ring
<1>2. CASE Transmit
  BY <1>2 DEF Transmit, transmit, ring
<1>3. CASE Timer
  BY <1>3 DEF Timer
<1>4. CASE TimerEcho \/ TimerEchoDirect
  BY <1>4 DEF TimerEcho, TimerEchoDirect, Interrupt, Calm
<1>5. CASE UNCHANGED vars
  BY <1>5 DEF vars, ring
<1> QED
  BY <1>1, <1>2, <1>3, <1>4, <1>5 DEF Next, Spin, Stopped, Quiet

\* The characters' part of the invariant.
LEMMA CellsStep ==
  ASSUME TypeInv, FlowInv, CellsInv, [Next]_vars, Calm'
  PROVE  (pc = "overflow" /\ head = tail)' \/ CellsInv'
<1>1. CASE EarlyWait
  <2>1. /\ UNCHANGED <<buf, head, tail, screen, printed, ch>>
        /\ pc \in Unlogged /\ pc' \in Unlogged
    BY <1>1 DEF EarlyWait, serial_write_wait, port, ring, locals, Unlogged
  <2> QED
    BY <2>1, CellsKept DEF Holding, Placing, Flushing, Unlogged
<1>2. CASE EarlyPrint
  BY <1>2, CellsEarly
<1>3. CASE SerialStarts
  <2>1. /\ UNCHANGED <<buf, head, tail, screen, printed, ch>>
        /\ pc = "init" /\ pc' \in {"init", "idle", "error"}
    BY <1>3 DEF SerialStarts, serial_init_write, serial_init_test, ring, locals
  <2> QED
    BY <2>1, CellsKept DEF Holding, Placing, Flushing
<1>4. CASE Printf \/ Wait
  <2>1. /\ UNCHANGED <<buf, head, tail, screen, printed, ch>>
        /\ pc \in {"idle", "wait"} /\ pc' \in {"wait", "out"}
    BY <1>4 DEF Printf, Wait, serial_write_wait, At, Goto, port, ring, locals
  <2> QED
    BY <2>1, CellsKept DEF Holding, Placing, Flushing
<1>5. CASE Out
  BY <1>5, CellsOut
<1>6. CASE RingStep
  <2>0. printed' = printed
    BY <1>6 DEF RingStep
  <2>1. CASE CheckInit \/ Claim \/ LookAhead
    <3>1. /\ UNCHANGED <<buf, head, tail, screen, ch>>
          /\ pc \in {"check", "claim", "look"} /\ pc' \in {"look", "claim", "page", "full"}
      BY <2>1 DEF CheckInit, Claim, LookAhead, At, Goto, ring, locals
    <3> QED
      BY <2>0, <3>1, CellsKept DEF Holding, Placing, Flushing
  <2>2. CASE SanityTest \/ LoadIndex
    <3>1. /\ UNCHANGED <<buf, head, tail, screen, ch>>
          /\ pc \in {"sanity", "index"} /\ pc' \in {"sanity", "index", "put"}
      BY <2>2 DEF SanityTest, LoadIndex, At, Goto, ring, locals
    <3> QED
      BY <2>0, <3>1, CellsKept DEF Holding, Placing, Flushing
  <2>3. CASE OverflowTest
    <3>1. /\ UNCHANGED <<buf, head, tail, screen, ch>>
          /\ pc = "overflow" /\ pc' \in {"overflow", "idle"}
      BY <2>3 DEF OverflowTest, At, Goto, ring, locals
    <3> QED
      BY <2>0, <3>1, CellsKept DEF Holding, Placing, Flushing
  <2>4. CASE TakePage
    BY <2>0, <2>4, CellsPage
  <2>5. CASE FullTest
    BY <2>0, <2>5, CellsFull
  <2>6. CASE PutChar
    BY <2>0, <2>6, CellsPut
  <2>7. CASE AdvanceHead
    BY <2>0, <2>7, CellsAdvance
  <2>8. CASE Flush
    BY <2>0, <2>8, CellsFlush
  <2>9. CASE EmptyTest
    BY <2>0, <2>9, CellsEmpty
  <2>10. CASE PopChar
    BY <2>0, <2>10, CellsPop
  <2>11. CASE LoadTail
    BY <2>0, <2>11, CellsLoad
  <2>12. CASE StoreTail
    BY <2>0, <2>12, CellsStore
  <2>13. CASE ShowChar
    BY <2>0, <2>13, CellsShow
  <2> QED
    BY <1>6, <2>1, <2>2, <2>3, <2>4, <2>5, <2>6, <2>7, <2>8, <2>9, <2>10, <2>11,
       <2>12, <2>13 DEF RingStep
<1>7. CASE Transmit
  <2>1. UNCHANGED <<buf, head, tail, screen, printed, ch, pc, caller, reg, popped>>
    BY <1>7 DEF Transmit, transmit, ring, locals
  <2> QED
    BY <2>1, CellsSame
<1>8. CASE Timer
  BY <1>8, CellsTimer
<1>9. CASE TimerEcho
  BY <1>9, CellsEcho
<1>10. CASE TimerEchoDirect
  <2>1. is_initializing /\ raced' = IF pc \in {"idle", "wait", "out", "user"} THEN raced
                                    ELSE raced \cup {"echo"}
    BY <1>10 DEF TimerEchoDirect, Interrupt
  <2>2. pc = "page"
    BY <2>1 DEF FlowInv
  <2> QED
    BY <2>1, <2>2 DEF Calm
<1>11. CASE UNCHANGED vars
  <2>1. UNCHANGED <<buf, head, tail, screen, printed, ch, pc, caller, reg, popped>>
    BY <1>11 DEF vars, ring, locals
  <2> QED
    BY <2>1, CellsSame
<1> QED
  BY <1>1, <1>2, <1>3, <1>4, <1>5, <1>6, <1>7, <1>8, <1>9, <1>10, <1>11
  DEF Next, BootStep, Spin, Stopped, Quiet

\* Every step keeps the invariant about the characters.
LEMMA LossStep ==
  ASSUME TypeInv, LossInv, [Next]_vars
  PROVE  LossInv'
<1> SUFFICES ASSUME Calm'
             PROVE  FlowInv' /\ ((pc = "overflow" /\ head = tail)' \/ CellsInv')
  BY DEF LossInv
<1>1. FlowInv /\ ((pc = "overflow" /\ head = tail) \/ CellsInv)
  BY CalmBefore DEF LossInv
<1>2. FlowInv'
  BY <1>1, FlowStep
<1>3. CASE pc = "overflow" /\ head = tail
  BY <1>2, <1>3, OverflowStays
<1>4. CASE CellsInv
  BY <1>1, <1>2, <1>4, CellsStep
<1> QED
  BY <1>1, <1>3, <1>4

\* Nothing is printed at the start.
LEMMA LossInit == Init => LossInv
<1> SUFFICES ASSUME Init  PROVE FlowInv /\ CellsInv
  BY DEF LossInv
<1>1. /\ pc = "early" /\ printed = 0 /\ head = 0 /\ tail = 0
      /\ ~is_init /\ ~is_initializing
      /\ \A p \in Index : buf[p] = 0
  BY DEF Init, SerialInit
<1>2. FlowInv
  BY <1>1 DEF FlowInv, Holding, Placing, Flushing, Unlogged
<1>3. \A p \in Index : ~InRing(p, head, tail)
  BY <1>1, Constants, RingFacts
<1>4. NoneLost /\ StaleSettled /\ NoZeros
  BY <1>1, <1>3 DEF NoneLost, StaleSettled, NoZeros, Settled
<1>5. FullBuffer /\ SkippedSettled
  BY <1>1 DEF FullBuffer, SkippedSettled, Flushing
<1> QED
  BY <1>2, <1>4, <1>5 DEF CellsInv

\* io_buffer_place, io_buffer_pop and the flushes of stdio.c lose no character
\* in silence, wherever the timer interrupts the boot code and whatever the
\* size of the buffer: a loss means that a key was echoed inside a call, or
\* that io_buffer_place is about to report the overflow (LossDetected).
THEOREM StdioLossDetected == Spec => []LossDetected
<1>1. Init => TypeInv /\ LossInv
  BY TypeInit, LossInit
<1>2. TypeInv /\ LossInv /\ [Next]_vars => (TypeInv /\ LossInv)'
  BY TypeStep, LossStep
<1>3. TypeInv /\ LossInv => LossDetected
  <2> SUFFICES ASSUME TypeInv, LossInv, Calm, ~(pc = "overflow" /\ head = tail)
               PROVE  Lost = {}
    BY DEF LossDetected, Calm
  <2>1. CellsInv
    BY DEF LossInv
  <2> SUFFICES ASSUME NEW n \in 1 .. printed
               PROVE  \/ Contains(screen, n)
                      \/ Contains(Content(buf, head, tail), n)
                      \/ n = ch /\ (pc \in Placing \/ (caller = "sanity" /\ pc \in Flushing))
                      \/ n = popped /\ pc \in {"load", "store", "show"}
    BY DEF Lost
  <2>2. \/ Settled(n)
        \/ Holding /\ n = ch
        \/ \E p \in Index : InRing(p, head, tail) /\ buf[p] = n
    BY <2>1 DEF CellsInv, NoneLost
  <2>3. (\E p \in Index : InRing(p, head, tail) /\ buf[p] = n)
          => Contains(Content(buf, head, tail), n)
    BY ContentContains DEF TypeInv
  <2>4. n # 0
    OBVIOUS
  <2> QED
    BY <2>2, <2>3, <2>4 DEF Settled, Holding, Popping
<1> QED
  BY <1>1, <1>2, <1>3, PTL DEF Spec
-----------------------------------------------------------------------------
(* The order of the characters. *)

\* A ring with nothing in it.
LEMMA FilledEmpty ==
  ASSUME NEW b, NEW h \in Index, NEW m
  PROVE  Filled(b, h, h, m) /\ Dist(h, h) = 0
<1>1. Dist(h, h) = 0
  BY Constants DEF Dist, Index
<1> QED
  BY <1>1, RingFacts DEF Filled

\* The first cell of the ring holds the next character.
LEMMA FilledPop ==
  ASSUME NEW b, NEW h \in Index, NEW t \in Index, h # t, NEW m \in Nat,
         Filled(b, h, t, m)
  PROVE  /\ b[t] = m + 1 /\ Filled(b, h, Succ(t), m + 1)
         /\ Dist(h, t) = Dist(h, Succ(t)) + 1
<1>1. Succ(t) = IF t = Size - 1 THEN 0 ELSE t + 1
  BY SuccIndex
<1>2. InRing(t, h, t) /\ Dist(t, t) = 0
  BY SizeAssumption DEF InRing, Dist, Index
<1>3. b[t] = m + 0 + 1
  BY <1>2 DEF Filled
<1>4. Dist(h, t) = Dist(h, Succ(t)) + 1
  BY <1>1, SizeAssumption DEF Dist, Index
<1>5. ASSUME NEW p \in Index, InRing(p, h, Succ(t))
      PROVE  b[p] = (m + 1) + Dist(p, Succ(t)) + 1
  <2>1. InRing(p, h, t) /\ p # t
    BY <1>1, <1>5, SizeAssumption DEF InRing, Index
  <2>2. Dist(p, t) = Dist(p, Succ(t)) + 1 /\ Dist(p, Succ(t)) \in Int
    BY <1>1, <2>1, SizeAssumption DEF Dist, Index
  <2>3. b[p] = m + Dist(p, t) + 1
    BY <2>1 DEF Filled
  <2> QED
    BY <2>2, <2>3
<1> QED
  BY <1>3, <1>4, <1>5 DEF Filled

\* A character behind the last one of the ring.
LEMMA FilledPush ==
  ASSUME NEW b, NEW c, NEW h \in Index, NEW t \in Index, Succ(h) # t, NEW m \in Nat,
         Filled(b, h, t, m),
         \A p \in Index : p # h => c[p] = b[p],
         c[h] = m + Dist(h, t) + 1
  PROVE  Filled(c, Succ(h), t, m) /\ Dist(Succ(h), t) = Dist(h, t) + 1
<1>1. Succ(h) = IF h = Size - 1 THEN 0 ELSE h + 1
  BY SuccIndex
<1>2. Dist(Succ(h), t) = Dist(h, t) + 1
  BY <1>1, SizeAssumption DEF Dist, Index
<1>3. ASSUME NEW p \in Index, InRing(p, Succ(h), t)
      PROVE  c[p] = m + Dist(p, t) + 1
  <2>1. InRing(p, h, t) \/ p = h
    BY <1>3, RingFacts
  <2>2. InRing(p, h, t) => p # h
    BY RingFacts
  <2> QED
    BY <2>1, <2>2 DEF Filled
<1> QED
  BY <1>2, <1>3 DEF Filled

\* A ring with one character.
LEMMA FilledOne ==
  ASSUME NEW c, NEW h \in Index, NEW m \in Nat, c[h] = m + 1
  PROVE  Filled(c, Succ(h), h, m) /\ Dist(Succ(h), h) = 0 + 1
<1>1. Succ(h) = IF h = Size - 1 THEN 0 ELSE h + 1
  BY SuccIndex
<1>2. Dist(Succ(h), h) = 0 + 1
  BY <1>1, SizeAssumption DEF Dist, Index
<1>3. ASSUME NEW p \in Index, InRing(p, Succ(h), h)
      PROVE  c[p] = m + Dist(p, h) + 1
  <2>1. p = h
    BY <1>1, <1>3, SizeAssumption DEF InRing, Index
  <2>2. Dist(h, h) = 0
    BY FilledEmpty
  <2> QED
    BY <2>1, <2>2
<1> QED
  BY <1>2, <1>3 DEF Filled

\* The distances are numbers.
LEMMA DistNat ==
  ASSUME NEW h \in Index, NEW t \in Index
  PROVE  Dist(h, t) \in Nat
BY DistIndex, SizeAssumption

\* What is shown when a ring that goes on where the screen ends is emptied.
LEMMA ShownInOrder ==
  ASSUME NEW s \in Seq(Nat), \A k \in 1 .. Len(s) : s[k] = k,
         NEW b \in [Index -> Nat], NEW h \in Index, NEW t \in Index,
         Filled(b, h, t, Len(s))
  PROVE  /\ \A p \in Index : InRing(p, h, t) => b[p] # 0
         /\ s \o Content(b, h, t) \in Seq(Nat)
         /\ Len(s \o Content(b, h, t)) = Len(s) + Dist(h, t)
         /\ \A k \in 1 .. Len(s) + Dist(h, t) : (s \o Content(b, h, t))[k] = k
<1> DEFINE c == Content(b, h, t)
           d == Dist(h, t)
<1>1. /\ c \in Seq(Nat) /\ Len(c) = d
      /\ \A k \in 1 .. d : Ahead(t, k - 1) \in Index /\ c[k] = b[Ahead(t, k - 1)]
  BY ContentFacts
<1>2. d \in 0 .. Size - 1 /\ Len(s) \in Nat
  BY DistIndex, LenProperties
<1>3. ASSUME NEW p \in Index, InRing(p, h, t)
      PROVE  b[p] # 0
  <2>1. b[p] = Len(s) + Dist(p, t) + 1 /\ Dist(p, t) \in Nat
    BY <1>3, DistNat DEF Filled
  <2> QED
    BY <1>2, <2>1
<1>4. ASSUME NEW k \in 1 .. d
      PROVE  c[k] = Len(s) + k
  <2>1. k - 1 \in 0 .. Size - 1 /\ k - 1 < d
    BY <1>2, SizeAssumption
  <2> DEFINE p == Ahead(t, k - 1)
  <2>2. p \in Index /\ Dist(p, t) = k - 1
    BY <2>1, AheadIndex
  <2>3. c[k] = b[p]
    BY <1>1
  <2> HIDE DEF p
  <2>4. InRing(p, h, t)
    BY <2>1, <2>2, InRingDist
  <2>5. b[p] = Len(s) + Dist(p, t) + 1
    BY <2>2, <2>4 DEF Filled
  <2> HIDE DEF c
  <2> QED
    BY <1>2, <2>1, <2>2, <2>3, <2>5
<1> HIDE DEF c, d
<1>5. /\ s \o c \in Seq(Nat) /\ Len(s \o c) = Len(s) + Len(c)
      /\ \A i \in 1 .. Len(s) + Len(c) :
           (s \o c)[i] = IF i <= Len(s) THEN s[i] ELSE c[i - Len(s)]
  BY <1>1, ConcatProperties
<1>6. ASSUME NEW k \in 1 .. Len(s) + d
      PROVE  (s \o c)[k] = k
  <2>1. CASE k <= Len(s)
    BY <1>1, <1>2, <1>5, <2>1
  <2>2. CASE ~(k <= Len(s))
    <3>1. k - Len(s) \in 1 .. d
      BY <1>2, <2>2
    <3>2. c[k - Len(s)] = Len(s) + (k - Len(s))
      BY <1>4, <3>1
    <3>3. (s \o c)[k] = c[k - Len(s)]
      BY <1>1, <1>5, <2>2
    <3> QED
      BY <1>2, <3>2, <3>3
  <2> QED
    BY <2>1, <2>2
<1> QED
  BY <1>1, <1>3, <1>5, <1>6 DEF c, d

\* Steps that leave the screen and the ring alone, outside io_buffer_pop.
LEMMA OrderKept ==
  ASSUME TypeInv, Order, UNCHANGED <<buf, head, tail, screen, printed, panicked>>,
         pc \notin Popping, pc' \notin Popping, Holding <=> Holding',
         pc' = "pop" => head # tail,
         pc' \in {"sanity", "index", "put", "advance"} => next_head' # tail,
         pc' = "overflow" => head # tail
  PROVE  Order'
<1>1. Len(screen) \in Nat
  BY LenProperties DEF TypeInv
<1>2. /\ Rest = tail /\ Rest' = tail
      /\ Taken = Len(screen) /\ Taken' = Len(screen)
  BY <1>1 DEF Rest, Taken, Popping
<1>3. (IF Holding THEN 1 ELSE 0) = (IF Holding' THEN 1 ELSE 0)
  OBVIOUS
<1>4. pc' \notin {"load", "store"}
  BY DEF Popping
<1> QED
  BY <1>2, <1>3, <1>4 DEF Order

\* The character printed before serial_init is on the screen at once.
LEMMA OrderEarly ==
  ASSUME TypeInv, FlowInv, Order, EarlyPrint
  PROVE  Order'
<1> DEFINE n == Len(screen)
<1>1. /\ printed' = printed + 1 /\ screen' = Append(screen, printed + 1)
      /\ UNCHANGED <<buf, head, tail>>
      /\ pc \in Unlogged /\ pc' \in Unlogged
      /\ panicked' \in {"none", "serial"}
  BY DEF EarlyPrint, serial_write_byte, At, Goto, ring, locals, Unlogged, Order
<1>2. head = tail /\ tail \in Index
  BY <1>1 DEF FlowInv, TypeInv
<1>3. /\ pc \notin Popping /\ pc' \notin Popping /\ ~Holding /\ ~Holding'
      /\ pc' \notin {"pop", "sanity", "index", "put", "advance", "overflow"}
  BY <1>1 DEF Unlogged, Popping, Holding, Placing, Flushing
<1>4. n \in Nat /\ printed \in Nat /\ printed + 1 \in Nat /\ screen \in Seq(Nat)
  BY LenProperties DEF TypeInv
<1>5. /\ Len(screen') = n + 1
      /\ \A i \in 1 .. n : screen'[i] = screen[i]
      /\ screen'[n + 1] = printed + 1
  BY <1>1, <1>4, Appended
<1>6. Rest = tail /\ Rest' = tail /\ Taken = n
  BY <1>1, <1>3, <1>4 DEF Rest, Taken, Popping
<1>7. Taken' = n + 1
  BY <1>3, <1>4, <1>5 DEF Taken
<1> HIDE DEF n
<1>8. \A m : Filled(buf, tail, tail, m) /\ Dist(tail, tail) = 0
  BY <1>2, FilledEmpty
<1>9. printed = n
  <2>1. printed = n + 0 + 0
    BY <1>2, <1>3, <1>6, <1>8 DEF Order
  <2> QED
    BY <1>4, <2>1
<1>10. \A k \in 1 .. n + 1 : screen'[k] = k
  <2>1. \A k \in 1 .. n : screen'[k] = k
    BY <1>5 DEF Order, n
  <2> QED
    BY <1>4, <1>5, <1>9, <2>1
<1>11. printed + 1 = (n + 1) + 0 + 0
  BY <1>4, <1>9
<1>12. Filled(buf, head, Rest, Taken)' /\ Dist(head, Rest)' = 0
  BY <1>1, <1>2, <1>6, <1>7, <1>8
<1>13. printed' = Taken' + Dist(head, Rest)' + (IF Holding' THEN 1 ELSE 0)
  BY <1>1, <1>3, <1>7, <1>11, <1>12
<1> QED
  BY <1>1, <1>3, <1>5, <1>10, <1>12, <1>13 DEF Order, Popping

\* The boot code has the next character in hand.
LEMMA OrderOut ==
  ASSUME TypeInv, Order, Out
  PROVE  Order'
<1>1. /\ printed' = printed + 1 /\ pc = "out" /\ pc' = "check"
      /\ UNCHANGED <<buf, head, tail, screen, panicked>>
  BY DEF Out, serial_write_byte, At, Goto, ring
<1>2. pc \notin Popping /\ pc' \notin Popping /\ ~Holding /\ Holding'
  BY <1>1 DEF Popping, Holding, Placing, Flushing
<1>3. Len(screen) \in Nat /\ tail \in Index /\ head \in Index
  BY LenProperties DEF TypeInv
<1>4. /\ Rest = tail /\ Rest' = tail
      /\ Taken = Len(screen) /\ Taken' = Len(screen)
  BY <1>1, <1>2, <1>3 DEF Rest, Taken, Popping
<1>5. printed + 1 = Len(screen) + Dist(head, tail) + 1
  <2>1. printed = Len(screen) + Dist(head, tail) + 0
    BY <1>2, <1>4 DEF Order
  <2> QED
    BY <1>3, <2>1, DistNat
<1> QED
  BY <1>1, <1>2, <1>4, <1>5 DEF Order

\* The buffer's page comes while the ring is empty.
LEMMA OrderPage ==
  ASSUME TypeInv, FlowInv, Order, TakePage, printed' = printed
  PROVE  Order'
<1>1. /\ UNCHANGED <<head, tail, screen, panicked>>
      /\ pc = "page" /\ pc' = "look" /\ head = tail
  BY DEF TakePage, At, Goto, locals, FlowInv
<1>2. pc \notin Popping /\ pc' \notin Popping /\ Holding /\ Holding'
  BY <1>1 DEF Popping, Holding, Placing
<1>3. Len(screen) \in Nat /\ tail \in Index
  BY LenProperties DEF TypeInv
<1>4. /\ Rest = tail /\ Rest' = tail
      /\ Taken = Len(screen) /\ Taken' = Len(screen)
  BY <1>1, <1>2, <1>3 DEF Rest, Taken, Popping
<1>5. Filled(buf', tail, tail, Len(screen))
  BY <1>3, FilledEmpty
<1> QED
  BY <1>1, <1>2, <1>4, <1>5 DEF Order

\* The character is written outside the ring,
LEMMA OrderPut ==
  ASSUME TypeInv, FlowInv, Order, PutChar, printed' = printed
  PROVE  Order'
<1>1. /\ buf' = [buf EXCEPT ![head] = ch]
      /\ UNCHANGED <<head, tail, screen, panicked, next_head>>
      /\ pc = "put" /\ pc' = "advance"
  BY DEF PutChar, At, Goto, locals, FlowInv
<1>2. pc \notin Popping /\ pc' \notin Popping /\ Holding /\ Holding'
  BY <1>1 DEF Popping, Holding, Placing
<1>3. Len(screen) \in Nat /\ tail \in Index /\ head \in Index /\ buf \in [Index -> Nat]
  BY LenProperties DEF TypeInv
<1>4. /\ Rest = tail /\ Rest' = tail
      /\ Taken = Len(screen) /\ Taken' = Len(screen)
  BY <1>1, <1>2, <1>3 DEF Rest, Taken, Popping
<1>5. Filled(buf', head, tail, Len(screen))
  <2>1. \A p \in Index : InRing(p, head, tail) => buf'[p] = buf[p]
    BY <1>1, <1>3, RingFacts
  <2>2. Filled(buf, head, tail, Len(screen))
    BY <1>4 DEF Order
  <2> QED
    BY <2>1, <2>2 DEF Filled
<1> QED
  BY <1>1, <1>2, <1>4, <1>5 DEF Order

\* in the cell that becomes the last one of the ring.
LEMMA OrderAdvance ==
  ASSUME TypeInv, FlowInv, Order, AdvanceHead, printed' = printed
  PROVE  Order'
<1>1. /\ head' = Succ(head) /\ UNCHANGED <<buf, tail, screen, panicked>>
      /\ pc = "advance" /\ pc' = "overflow"
      /\ buf[head] = printed /\ Succ(head) # tail
  BY DEF AdvanceHead, At, Goto, locals, FlowInv, Holding, Placing, Order
<1>2. pc \notin Popping /\ pc' \notin Popping /\ Holding /\ ~Holding'
  BY <1>1 DEF Popping, Holding, Placing, Flushing
<1>3. Len(screen) \in Nat /\ tail \in Index /\ head \in Index
  BY LenProperties DEF TypeInv
<1>4. /\ Rest = tail /\ Rest' = tail
      /\ Taken = Len(screen) /\ Taken' = Len(screen)
  BY <1>1, <1>2, <1>3 DEF Rest, Taken, Popping
<1>5. /\ Filled(buf, head, tail, Len(screen))
      /\ printed = Len(screen) + Dist(head, tail) + 1
  BY <1>2, <1>4 DEF Order
<1>6. /\ Filled(buf, Succ(head), tail, Len(screen))
      /\ Dist(Succ(head), tail) = Dist(head, tail) + 1
  <2> DEFINE m == Len(screen)
  <2>1. m \in Nat /\ head \in Index /\ tail \in Index /\ Succ(head) # tail
    BY <1>1, <1>3
  <2>2. Filled(buf, head, tail, m) /\ buf[head] = m + Dist(head, tail) + 1
    BY <1>1, <1>5
  <2> HIDE DEF m
  <2>3. Filled(buf, Succ(head), tail, m) /\ Dist(Succ(head), tail) = Dist(head, tail) + 1
    BY <2>1, <2>2, FilledPush, ZenonT(40)
  <2> QED
    BY <2>3 DEF m
<1>7. printed = Len(screen) + Dist(Succ(head), tail) + 0
  BY <1>3, <1>5, <1>6, DistNat
<1> QED
  BY <1>1, <1>2, <1>4, <1>6, <1>7 DEF Order

\* io_buffer_pop takes the character that comes next,
LEMMA OrderPop ==
  ASSUME TypeInv, Order, PopChar, printed' = printed
  PROVE  Order'
<1>1. /\ UNCHANGED <<buf, head, tail, screen, panicked, caller>>
      /\ pc = "pop" /\ pc' = "load" /\ popped' = buf[tail] /\ head # tail
  BY DEF PopChar, At, Goto, ring, Order
<1>2. /\ pc \notin Popping /\ pc' \in Popping
      /\ (IF Holding THEN 1 ELSE 0) = (IF Holding' THEN 1 ELSE 0)
  BY <1>1 DEF Popping, Holding, Placing, Flushing
<1>3. Len(screen) \in Nat /\ tail \in Index /\ head \in Index
  BY LenProperties DEF TypeInv
<1>4. /\ Rest = tail /\ Rest' = Succ(tail)
      /\ Taken = Len(screen) /\ Taken' = Len(screen) + 1
  BY <1>1, <1>2, <1>3 DEF Rest, Taken
<1> DEFINE m == Len(screen)
           e == IF Holding THEN 1 ELSE 0
<1>5. Filled(buf, head, tail, m) /\ printed = m + Dist(head, tail) + e
  BY <1>4 DEF Order
<1>6. m \in Nat /\ e \in Nat
  BY <1>3
<1> HIDE DEF m, e
<1>7. /\ buf[tail] = m + 1 /\ Filled(buf, head, Succ(tail), m + 1)
      /\ Dist(head, tail) = Dist(head, Succ(tail)) + 1
  BY <1>1, <1>3, <1>5, <1>6, FilledPop
<1>8. Dist(head, Succ(tail)) \in Nat
  BY <1>3, SuccIndex, DistNat
<1>9. printed = (m + 1) + Dist(head, Succ(tail)) + e
  BY <1>5, <1>6, <1>7, <1>8
<1>10. popped' = Len(screen') + 1
  BY <1>1, <1>7 DEF m
<1>11. Filled(buf, head, Rest, Taken)'
  BY <1>1, <1>4, <1>7 DEF m
<1>12. printed' = Taken' + Dist(head, Rest)' + (IF Holding' THEN 1 ELSE 0)
  BY <1>1, <1>2, <1>4, <1>9 DEF m, e
<1> QED
  BY <1>1, <1>10, <1>11, <1>12 DEF Order

\* moves tail_ptr behind it,
LEMMA OrderMove ==
  ASSUME TypeInv, Order, LoadTail \/ StoreTail, printed' = printed
  PROVE  Order'
<1>1. /\ UNCHANGED <<buf, head, screen, panicked, caller, popped>>
      /\ pc \in {"load", "store"} /\ pc' \in {"store", "show"}
      /\ Rest' = Rest
      /\ pc' = "store" => head' # tail' /\ reg' = tail'
  <2>1. CASE LoadTail
    BY <2>1 DEF LoadTail, At, Goto, ring, Order, Rest
  <2>2. CASE StoreTail
    BY <2>2 DEF StoreTail, At, Goto, locals, Order, Rest
  <2> QED
    BY <2>1, <2>2
<1>2. /\ pc \in Popping /\ pc' \in Popping
      /\ (IF Holding THEN 1 ELSE 0) = (IF Holding' THEN 1 ELSE 0)
  BY <1>1 DEF Popping, Holding, Placing, Flushing
<1>3. Taken' = Taken
  BY <1>1, <1>2 DEF Taken
<1> QED
  BY <1>1, <1>2, <1>3 DEF Order

\* and shows it.
LEMMA OrderShow ==
  ASSUME TypeInv, Order, ShowChar, printed' = printed
  PROVE  Order'
<1> DEFINE n == Len(screen)
<1>1. pc = "show" /\ pc \in Popping /\ n \in Nat /\ screen \in Seq(Nat) /\ popped \in Nat
  BY LenProperties DEF ShowChar, At, TypeInv, Popping
<1>2. popped = n + 1 /\ popped # 0
  BY <1>1 DEF Order
<1>3. /\ UNCHANGED <<buf, head, tail, panicked, caller>>
      /\ pc' = "empty" /\ screen' = Append(screen, popped)
  BY <1>2 DEF ShowChar, Goto, ring, locals
<1>4. /\ pc' \notin Popping
      /\ (IF Holding THEN 1 ELSE 0) = (IF Holding' THEN 1 ELSE 0)
  BY <1>1, <1>3 DEF Popping, Holding, Placing, Flushing
<1>5. /\ Len(screen') = n + 1
      /\ \A i \in 1 .. n : screen'[i] = screen[i]
      /\ screen'[n + 1] = popped
  BY <1>1, <1>3, Appended
<1>6. Rest' = Rest
  BY <1>1, <1>3 DEF Rest
<1>7. Taken = n + 1
  BY <1>1 DEF Taken
<1>8. Taken' = n + 1
  BY <1>1, <1>4, <1>5 DEF Taken
<1> HIDE DEF n
<1>9. \A k \in 1 .. n + 1 : screen'[k] = k
  <2>1. \A k \in 1 .. n : screen'[k] = k
    BY <1>5 DEF Order, n
  <2> QED
    BY <1>1, <1>2, <1>5, <2>1
<1>10. Filled(buf, head, Rest, Taken)'
  BY <1>3, <1>6, <1>7, <1>8 DEF Order
<1>11. printed' = Taken' + Dist(head, Rest)' + (IF Holding' THEN 1 ELSE 0)
  BY <1>3, <1>4, <1>6, <1>7, <1>8 DEF Order
<1> QED
  BY <1>3, <1>4, <1>5, <1>9, <1>10, <1>11 DEF Order

\* A handler between the calls shows the whole ring.
LEMMA OrderTimer ==
  ASSUME TypeInv, Order, Timer, raced' = {}
  PROVE  Order'
<1>1. /\ pc \in {"idle", "wait", "out", "user"} /\ pc' = pc
      /\ UNCHANGED <<buf, head, printed, panicked>>
      /\ screen' = screen \o Flushed(tail).text /\ tail' = Flushed(tail).tail
  BY DEF Timer, Interrupt
<1>2. /\ pc \notin Popping /\ pc' \notin Popping /\ ~Holding /\ ~Holding'
      /\ pc' \notin {"pop", "load", "store", "sanity", "index", "put", "advance", "overflow"}
  BY <1>1 DEF Popping, Holding, Placing, Flushing
<1>3. /\ Len(screen) \in Nat /\ tail \in Index /\ head \in Index
      /\ screen \in Seq(Nat) /\ buf \in [Index -> Nat]
  BY LenProperties DEF TypeInv
<1>4. Rest = tail /\ Taken = Len(screen) /\ Rest' = tail'
  BY <1>2, <1>3 DEF Rest, Taken, Popping
<1>5. /\ Filled(buf, head, tail, Len(screen))
      /\ printed = Len(screen) + Dist(head, tail) + 0
      /\ \A k \in 1 .. Len(screen) : screen[k] = k
  BY <1>2, <1>4 DEF Order
<1> DEFINE n == Len(screen) + Dist(head, tail)
           s == screen \o Content(buf, head, tail)
<1>6. /\ \A p \in Index : InRing(p, head, tail) => buf[p] # 0
      /\ Len(s) = n /\ \A k \in 1 .. n : s[k] = k
  BY <1>3, <1>5, ShownInOrder
<1>7. tail' = head /\ screen' = s
  BY <1>1, <1>3, <1>6, FlushedFacts
<1>8. n \in Nat /\ printed = n
  BY <1>3, <1>5, DistNat
<1> HIDE DEF n, s
<1>9. Taken' = n
  BY <1>2, <1>6, <1>7, <1>8 DEF Taken
<1>10. \A m : Filled(buf, head, head, m) /\ Dist(head, head) = 0
  BY <1>3, FilledEmpty
<1>11. printed = n + 0 + 0
  BY <1>8
<1>12. Filled(buf, head, Rest, Taken)' /\ Dist(head, Rest)' = 0
  BY <1>1, <1>4, <1>7, <1>10
<1>13. printed' = Taken' + Dist(head, Rest)' + (IF Holding' THEN 1 ELSE 0)
  BY <1>1, <1>2, <1>9, <1>11, <1>12
<1>14. \A k \in 1 .. Len(screen') : screen'[k] = k
  BY <1>6, <1>7
<1> QED
  BY <1>1, <1>2, <1>12, <1>13, <1>14 DEF Order

\* One that echoes leaves the key alone in it.
LEMMA OrderEcho ==
  ASSUME TypeInv, FlowInv, Order, TimerEcho, raced' = {}
  PROVE  Order'
<1>1. /\ pc \in {"idle", "wait", "out", "user"} /\ pc' = pc
      /\ head' = Succ(head) /\ printed' = printed + 1
  BY DEF TimerEcho, EchoLogged, serial_write_byte, Interrupt
<1>2. /\ pc \notin Popping /\ pc' \notin Popping /\ ~Holding /\ ~Holding'
      /\ pc' \notin {"pop", "load", "store", "sanity", "index", "put", "advance", "overflow"}
  BY <1>1 DEF Popping, Holding, Placing, Flushing
<1>3. /\ Len(screen) \in Nat /\ tail \in Index /\ head \in Index
      /\ screen \in Seq(Nat) /\ buf \in [Index -> Nat]
  BY LenProperties DEF TypeInv
<1>4. Rest = tail /\ Taken = Len(screen) /\ Rest' = tail'
  BY <1>2, <1>3 DEF Rest, Taken, Popping
<1>5. /\ Filled(buf, head, tail, Len(screen))
      /\ printed = Len(screen) + Dist(head, tail) + 0
      /\ \A k \in 1 .. Len(screen) : screen[k] = k
  BY <1>2, <1>4 DEF Order
<1> DEFINE n == Len(screen) + Dist(head, tail)
           s == screen \o Content(buf, head, tail)
<1>6. /\ \A p \in Index : InRing(p, head, tail) => buf[p] # 0
      /\ Len(s) = n /\ \A k \in 1 .. n : s[k] = k
  BY <1>3, <1>5, ShownInOrder
<1>7. \E page \in [Index -> Nat] :
        /\ buf' = [page EXCEPT ![head] = printed + 1]
        /\ tail' = head /\ screen' = s /\ panicked' = "none"
  BY <1>6, EchoFlushes
<1>8. PICK page \in [Index -> Nat] : buf' = [page EXCEPT ![head] = printed + 1]
  BY <1>7
<1>9. tail' = head /\ screen' = s /\ panicked' = "none"
  BY <1>7
<1>10. n \in Nat /\ printed = n
  BY <1>3, <1>5, DistNat
<1> HIDE DEF n, s
<1>11. Taken' = n
  BY <1>2, <1>6, <1>9, <1>10 DEF Taken
<1>12. buf'[head] = n + 1
  BY <1>3, <1>8, <1>10
<1>13. Filled(buf', Succ(head), head, n) /\ Dist(Succ(head), head) = 0 + 1
  BY <1>3, <1>10, <1>12, FilledOne
<1>14. printed + 1 = n + (0 + 1) + 0
  BY <1>10
<1>15. Filled(buf, head, Rest, Taken)' /\ Dist(head, Rest)' = 0 + 1
  BY <1>1, <1>4, <1>9, <1>11, <1>13
<1>16. printed' = Taken' + Dist(head, Rest)' + (IF Holding' THEN 1 ELSE 0)
  BY <1>1, <1>2, <1>11, <1>14, <1>15
<1>17. \A k \in 1 .. Len(screen') : screen'[k] = k
  BY <1>6, <1>9
<1> QED
  BY <1>2, <1>9, <1>15, <1>16, <1>17 DEF Order

\* Every step keeps the order as long as no handler runs inside a call.
LEMMA OrderStep ==
  ASSUME TypeInv, FlowInv, Order, [Next]_vars, raced' = {}
  PROVE  Order'
<1>0. tail \in Index /\ head \in Index /\ \A i \in Index : Succ(i) # i
  BY SuccIndex DEF TypeInv
<1>1. CASE EarlyWait
  <2>1. /\ UNCHANGED <<buf, head, tail, screen, printed, panicked>>
        /\ pc \in Unlogged /\ pc' \in Unlogged
    BY <1>1 DEF EarlyWait, serial_write_wait, port, ring, locals, Unlogged
  <2> QED
    BY <2>1, OrderKept DEF Holding, Placing, Flushing, Popping, Unlogged
<1>2. CASE EarlyPrint
  BY <1>2, OrderEarly
<1>3. CASE SerialStarts
  <2>1. /\ UNCHANGED <<buf, head, tail, screen, printed, panicked>>
        /\ pc = "init" /\ pc' \in {"init", "idle", "error"}
    BY <1>3 DEF SerialStarts, serial_init_write, serial_init_test, ring, locals
  <2> QED
    BY <2>1, OrderKept DEF Holding, Placing, Flushing, Popping
<1>4. CASE Printf \/ Wait
  <2>1. /\ UNCHANGED <<buf, head, tail, screen, printed, panicked>>
        /\ pc \in {"idle", "wait"} /\ pc' \in {"wait", "out"}
    BY <1>4 DEF Printf, Wait, serial_write_wait, At, Goto, port, ring, locals
  <2> QED
    BY <2>1, OrderKept DEF Holding, Placing, Flushing, Popping
<1>5. CASE Out
  BY <1>5, OrderOut
<1>6. CASE RingStep
  <2>0. printed' = printed
    BY <1>6 DEF RingStep
  <2>1. CASE CheckInit \/ Claim \/ LookAhead
    <3>1. /\ UNCHANGED <<buf, head, tail, screen, panicked>>
          /\ pc \in {"check", "claim", "look"} /\ pc' \in {"look", "claim", "page", "full"}
      BY <2>1 DEF CheckInit, Claim, LookAhead, At, Goto, ring, locals
    <3> QED
      BY <2>0, <3>1, OrderKept DEF Holding, Placing, Flushing, Popping
  <2>2. CASE FullTest
    <3>1. /\ UNCHANGED <<buf, head, tail, screen, panicked, next_head>>
          /\ pc = "full"
          /\ \/ pc' = "empty" /\ caller' = "sanity"
             \/ pc' = "sanity" /\ next_head # tail
      BY <2>2 DEF FullTest, At, Goto, ring
    <3> QED
      BY <2>0, <3>1, OrderKept DEF Holding, Placing, Flushing, Popping
  <2>3. CASE SanityTest \/ LoadIndex
    <3>1. /\ UNCHANGED <<buf, head, tail, screen, panicked, next_head>>
          /\ pc \in {"sanity", "index"} /\ pc' \in {"index", "put"}
      BY <2>3 DEF SanityTest, LoadIndex, At, Goto, ring, locals, FlowInv
    <3>2. next_head # tail
      BY <3>1 DEF Order
    <3> QED
      BY <2>0, <3>1, <3>2, OrderKept DEF Holding, Placing, Flushing, Popping
  <2>4. CASE OverflowTest
    <3>1. /\ UNCHANGED <<buf, head, tail, screen, panicked>>
          /\ pc = "overflow" /\ pc' = "idle"
      BY <2>4 DEF OverflowTest, At, Goto, ring, locals, Order
    <3> QED
      BY <2>0, <3>1, OrderKept DEF Holding, Placing, Flushing, Popping
  <2>5. CASE Flush
    <3>1. /\ UNCHANGED <<buf, head, tail, screen, panicked>>
          /\ pc = "idle" /\ pc' = "empty" /\ caller' = "user"
      BY <2>5 DEF Flush, At, Goto, ring
    <3> QED
      BY <2>0, <3>1, OrderKept DEF Holding, Placing, Flushing, Popping
  <2>6. CASE EmptyTest
    <3>1. /\ UNCHANGED <<buf, head, tail, screen, panicked, caller, next_head>>
          /\ pc = "empty" /\ caller \in {"sanity", "user"}
          /\ pc' = IF head = tail THEN caller ELSE "pop"
      BY <2>6 DEF EmptyTest, At, Goto, ring, locals, TypeInv, Flushing
    <3>2. caller = "sanity" => next_head = Succ(head)
      BY <3>1 DEF FlowInv, Flushing
    <3>3. Holding <=> Holding'
      BY <3>1 DEF Holding, Placing, Flushing
    <3>4. /\ pc \notin Popping /\ pc' \notin Popping
          /\ pc' = "pop" => head # tail
          /\ pc' \in {"sanity", "index", "put", "advance"} => next_head' # tail
          /\ pc' = "overflow" => head # tail
      BY <1>0, <3>1, <3>2 DEF Popping
    <3> QED
      BY <2>0, <3>1, <3>3, <3>4, OrderKept
  <2>7. CASE TakePage
    BY <2>0, <2>7, OrderPage
  <2>8. CASE PutChar
    BY <2>0, <2>8, OrderPut
  <2>9. CASE AdvanceHead
    BY <2>0, <2>9, OrderAdvance
  <2>10. CASE PopChar
    BY <2>0, <2>10, OrderPop
  <2>11. CASE LoadTail \/ StoreTail
    BY <2>0, <2>11, OrderMove
  <2>12. CASE ShowChar
    BY <2>0, <2>12, OrderShow
  <2> QED
    BY <1>6, <2>1, <2>2, <2>3, <2>4, <2>5, <2>6, <2>7, <2>8, <2>9, <2>10, <2>11,
       <2>12 DEF RingStep
<1>7. CASE Transmit \/ UNCHANGED vars
  <2>1. UNCHANGED <<buf, head, tail, screen, printed, panicked, pc, caller, reg,
                    popped, next_head>>
    BY <1>7 DEF Transmit, transmit, vars, ring, locals
  <2>2. Rest' = Rest /\ Taken' = Taken /\ (Holding <=> Holding')
    BY <2>1 DEF Rest, Taken, Holding
  <2> QED
    BY <2>1, <2>2 DEF Order
<1>8. CASE Timer
  BY <1>8, OrderTimer
<1>9. CASE TimerEcho
  BY <1>9, OrderEcho
<1>10. CASE TimerEchoDirect
  <2>1. is_initializing /\ raced' = IF pc \in {"idle", "wait", "out", "user"} THEN raced
                                    ELSE raced \cup {"echo"}
    BY <1>10 DEF TimerEchoDirect, Interrupt
  <2>2. pc = "page"
    BY <2>1 DEF FlowInv
  <2> QED
    BY <2>1, <2>2
<1> QED
  BY <1>1, <1>2, <1>3, <1>4, <1>5, <1>6, <1>7, <1>8, <1>9, <1>10
  DEF Next, BootStep, Spin, Stopped, Quiet

\* Handlers that ran inside a call stay on record.
LEMMA RacedStays ==
  ASSUME [Next]_vars, raced' = {}
  PROVE  raced = {}
BY DEF Next, BootStep, Transmit, Timer, TimerEcho, TimerEchoDirect, Interrupt,
   Spin, Stopped, Quiet, vars

\* Nothing is shown at the start.
LEMMA OrderInit == Init => OrderInv
<1> SUFFICES ASSUME Init  PROVE Order
  BY DEF OrderInv
<1>1. /\ pc = "early" /\ printed = 0 /\ head = 0 /\ tail = 0 /\ screen = <<>>
      /\ panicked = "none"
  BY DEF Init, SerialInit
<1>2. Len(screen) = 0
  BY <1>1
<1>3. pc \notin Popping /\ ~Holding /\ Rest = 0 /\ Taken = 0
  BY <1>1, <1>2 DEF Popping, Holding, Placing, Flushing, Rest, Taken
<1>4. \A m : Filled(buf, 0, 0, m) /\ Dist(0, 0) = 0
  BY Constants, FilledEmpty
<1> QED
  BY <1>1, <1>2, <1>3, <1>4 DEF Order

\* Between the interrupts that hit a call of the boot code, printf shows what
\* it prints in order, nothing lost and nothing twice, and no check of
\* io_buffer_place fails, whatever the size of the buffer (ScreenInOrder).
THEOREM StdioScreenInOrder == Spec => []ScreenInOrder
<1> DEFINE IInv == TypeInv /\ LossInv /\ OrderInv
<1>1. Init => IInv
  BY TypeInit, LossInit, OrderInit
<1>2. IInv /\ [Next]_vars => IInv'
  <2> SUFFICES ASSUME IInv, [Next]_vars  PROVE IInv'
    OBVIOUS
  <2>1. TypeInv' /\ LossInv'
    BY TypeStep, LossStep
  <2>2. ASSUME raced' = {}  PROVE Order'
    <3>1. raced = {}
      BY <2>2, RacedStays
    <3>2. FlowInv /\ Order
      BY <3>1 DEF LossInv, Calm, OrderInv
    <3> QED
      BY <2>2, <3>2, OrderStep
  <2> QED
    BY <2>1, <2>2 DEF OrderInv
<1>3. IInv => ScreenInOrder
  <2> SUFFICES ASSUME TypeInv, Order
               PROVE  IsPrefix(screen, CharsUpTo(printed)) /\ panicked \in {"none", "serial"}
    BY DEF OrderInv, ScreenInOrder
  <2> DEFINE n == Len(screen)
             c == CharsUpTo(printed)
  <2>1. n \in Nat /\ screen \in Seq(Nat) /\ printed \in Nat /\ n <= printed
    <3>1. n \in Nat /\ screen \in Seq(Nat) /\ printed \in Nat
      BY LenProperties DEF TypeInv
    <3>2. Rest \in Index /\ head \in Index
      BY SuccIndex DEF Rest, TypeInv
    <3>3. printed = Taken + Dist(head, Rest) + (IF Holding THEN 1 ELSE 0)
      BY DEF Order
    <3>4. Taken = n + (IF pc \in Popping THEN 1 ELSE 0)
      BY DEF Taken
    <3> DEFINE d == Dist(head, Rest)
               e == IF Holding THEN 1 ELSE 0
               f == IF pc \in Popping THEN 1 ELSE 0
    <3>5. d \in Nat /\ e \in Nat /\ f \in Nat
      BY <3>2, DistNat
    <3>6. printed = (n + f) + d + e
      BY <3>3, <3>4
    <3> HIDE DEF n, d, e, f
    <3>7. n <= printed
      BY <3>1, <3>5, <3>6 DEF n
    <3> QED
      BY <3>1, <3>7
  <2>2. c \in Seq(Nat) /\ Len(c) = printed /\ \A k \in 1 .. printed : c[k] = k
    BY <2>1, CharsUpToSeq DEF CharsUpTo
  <2> HIDE DEF c
  <2>3. \A k \in 1 .. n : screen[k] = c[k]
    BY <2>1, <2>2 DEF Order
  <2>4. SubSeq(screen, 1, n) = SubSeq(c, 1, n)
    <3>1. SubSeq(screen, 1, n) = screen
      BY <2>1, SubSeqFull
    <3>2. /\ SubSeq(c, 1, n) \in Seq(Nat) /\ Len(SubSeq(c, 1, n)) = n
          /\ \A k \in 1 .. n : SubSeq(c, 1, n)[k] = c[k]
      <4>1. \A k \in 1 .. n : c[k] \in Nat
        BY <2>1, <2>2
      <4> HIDE DEF n
      <4> QED
        BY <2>1, <2>2, <4>1, SubSeqProperties
    <3> DEFINE t == SubSeq(c, 1, n)
    <3> HIDE DEF t
    <3>3. screen = t
      BY <2>1, <2>3, <3>2, SeqEqual DEF t
    <3> QED
      BY <3>1, <3>3 DEF t
  <2>5. IsPrefix(screen, c)
    BY <2>1, <2>2, <2>4 DEF IsPrefix
  <2> QED
    BY <2>5 DEF Order, c
<1> QED
  BY <1>1, <1>2, <1>3, PTL DEF Spec
=============================================================================
