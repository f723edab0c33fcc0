---------------------------- MODULE LadderProofs ----------------------------
(***************************************************************************)
(* What the ladder operators return, for ladders of any length: the facts  *)
(* the proofs about the book rest on.                                      *)
(***************************************************************************)
EXTENDS Ladder, QueueProofs

-----------------------------------------------------------------------------
(* Numbers *)

\* A machine integer is an integer, whatever its width.
LEMMA Int64Type == \A x \in Int : Int64(x) \in Int
BY Int64HalfAssumption DEF Int64

\* Min finds it.
LEMMA MinNat ==
  ASSUME NEW S \in SUBSET Nat, S # {}
  PROVE  Min(S) \in S /\ \A k \in S : Min(S) <= k
BY LeastNat DEF Min

-----------------------------------------------------------------------------
(* The scans *)

\* The scan of insert stops at the first level that is not better.
LEMMA InsertStopIs ==
  ASSUME NEW side, NEW d \in Seq(Level), NEW price
  PROVE  LET k == InsertStop(side, d, price)
             stops(i) == d[i].price = price \/ Better(side, price, d[i].price)
         IN  /\ k \in 0 .. Len(d)
             /\ k = 0 => \A i \in 1 .. Len(d) : ~stops(i)
             /\ k # 0 => stops(k) /\ \A i \in 1 .. (k-1) : ~stops(i)
<1> DEFINE stops(i) == d[i].price = price \/ Better(side, price, d[i].price)
           I == {i \in 1 .. Len(d) : stops(i)}
           k == InsertStop(side, d, price)
<1>1. Len(d) \in Nat
  OBVIOUS
<1>2. k = IF I # {} THEN Min(I) ELSE 0
  BY DEF InsertStop, SelectInSeq
<1>3. CASE I = {}
  BY <1>1, <1>2, <1>3
<1>4. CASE I # {}
  <2> HIDE DEF k
  <2>1. I \in SUBSET Nat
    BY <1>1
  <2>2. k \in I /\ \A i \in I : k <= i
    BY <1>2, <1>4, <2>1, MinNat
  <2>3. k \in 1 .. Len(d) /\ stops(k)
    BY <2>2
  <2>4. ASSUME NEW i \in 1 .. (k-1) PROVE ~stops(i)
    <3>1. i \in 1 .. Len(d) /\ i < k
      BY <1>1, <2>3
    <3> QED BY <3>1, <2>2, <2>3
  <2> QED BY <2>3, <2>4, <1>1 DEF k
<1> QED BY <1>3, <1>4

\* The scan of removeOrder stops at the first level of the price.
LEMMA LevelAtIs ==
  ASSUME NEW d \in Seq(Level), NEW price
  PROVE  LET k == LevelAt(d, price)
         IN  /\ k \in 0 .. Len(d)
             /\ k = 0 => \A i \in 1 .. Len(d) : d[i].price # price
             /\ k # 0 => d[k].price = price
<1> DEFINE I == {i \in 1 .. Len(d) : d[i].price = price}
           k == LevelAt(d, price)
<1>1. Len(d) \in Nat
  OBVIOUS
<1>2. k = IF I # {} THEN Min(I) ELSE 0
  BY DEF LevelAt, SelectInSeq
<1>3. CASE I = {}
  BY <1>1, <1>2, <1>3
<1>4. CASE I # {}
  <2> HIDE DEF k
  <2>1. I \in SUBSET Nat
    BY <1>1
  <2>2. k \in I
    BY <1>2, <1>4, <2>1, MinNat
  <2> QED BY <2>2, <1>1 DEF k
<1> QED BY <1>3, <1>4

-----------------------------------------------------------------------------
(* Inserting into and removing from a sequence *)

\* Sequence t is s with e put in at place k.
Spliced(s, k, e, t) ==
    \A i \in 1 .. Len(s) + 1 : t[i] = IF i < k THEN s[i] ELSE IF i = k THEN e ELSE s[i-1]

\* InsertAt makes room for one element and keeps the others in their order.
LEMMA InsertAtIs ==
  ASSUME NEW S, NEW s \in Seq(S), NEW k \in 1 .. Len(s) + 1, NEW e \in S
  PROVE  /\ InsertAt(s, k, e) \in Seq(S)
         /\ Len(InsertAt(s, k, e)) = Len(s) + 1
         /\ Spliced(s, k, e, InsertAt(s, k, e))
<1> DEFINE a == SubSeq(s, 1, k-1)
           b == SubSeq(s, k, Len(s))
<1>1. Len(s) \in Nat /\ \A i \in 1 .. Len(s) : s[i] \in S
  OBVIOUS
<1>2. a \in Seq(S) /\ Len(a) = k - 1 /\ \A i \in 1 .. (k-1) : a[i] = s[i]
  BY <1>1, SubSeqProperties
<1>3. b \in Seq(S) /\ Len(b) = Len(s) - k + 1 /\ \A i \in 1 .. (Len(s) - k + 1) : b[i] = s[k+i-1]
  BY <1>1, SubSeqProperties
<1> HIDE DEF a, b
<1>4. /\ a \o <<e>> \in Seq(S)
      /\ Len(a \o <<e>>) = k
      /\ \A i \in 1 .. k : (a \o <<e>>)[i] = IF i < k THEN s[i] ELSE e
  <2>1. <<e>> \in Seq(S) /\ Len(<<e>>) = 1 /\ <<e>>[1] = e
    OBVIOUS
  <2> QED BY <1>2, <2>1, ConcatProperties
<1> DEFINE c == a \o <<e>>
<1> HIDE DEF c
<1>5. /\ c \o b \in Seq(S)
      /\ Len(c \o b) = Len(s) + 1
      /\ \A i \in 1 .. Len(s) + 1 : (c \o b)[i] = IF i <= k THEN c[i] ELSE b[i - k]
  BY <1>1, <1>3, <1>4, ConcatProperties DEF c
<1>6. ASSUME NEW i \in 1 .. Len(s) + 1, i > k
      PROVE  b[i - k] = s[i - 1]
  <2>1. i - k \in 1 .. (Len(s) - k + 1) /\ k + (i - k) - 1 = i - 1
    BY <1>1, <1>6
  <2> QED BY <2>1, <1>3
<1>7. InsertAt(s, k, e) = c \o b
  BY DEF InsertAt, a, b, c
<1> QED BY <1>1, <1>4, <1>5, <1>6, <1>7 DEF c, Spliced

\* RemoveAt closes the gap and keeps the others in their order.
LEMMA RemoveAtIs ==
  ASSUME NEW S, NEW s \in Seq(S), NEW k \in 1 .. Len(s)
  PROVE  /\ RemoveAt(s, k) \in Seq(S)
         /\ Len(RemoveAt(s, k)) = Len(s) - 1
         /\ \A i \in 1 .. Len(s) - 1 : RemoveAt(s, k)[i] = IF i < k THEN s[i] ELSE s[i+1]
<1> DEFINE a == SubSeq(s, 1, k-1)
           b == SubSeq(s, k+1, Len(s))
<1>1. Len(s) \in Nat /\ \A i \in 1 .. Len(s) : s[i] \in S
  OBVIOUS
<1>2. a \in Seq(S) /\ Len(a) = k - 1 /\ \A i \in 1 .. (k-1) : a[i] = s[i]
  BY <1>1, SubSeqProperties
<1>3. b \in Seq(S) /\ Len(b) = Len(s) - k /\ \A i \in 1 .. (Len(s) - k) : b[i] = s[k+i]
  BY <1>1, SubSeqProperties
<1> HIDE DEF a, b
<1>4. /\ a \o b \in Seq(S)
      /\ Len(a \o b) = Len(s) - 1
      /\ \A i \in 1 .. Len(s) - 1 : (a \o b)[i] = IF i <= k - 1 THEN a[i] ELSE b[i - (k - 1)]
  BY <1>1, <1>2, <1>3, ConcatProperties
<1>5. ASSUME NEW i \in 1 .. Len(s) - 1, i >= k
      PROVE  b[i - (k - 1)] = s[i + 1]
  <2>1. i - (k - 1) \in 1 .. (Len(s) - k) /\ k + (i - (k - 1)) = i + 1
    BY <1>1, <1>5
  <2> QED BY <2>1, <1>3
<1>6. RemoveAt(s, k) = a \o b
  BY DEF RemoveAt, a, b
<1> QED BY <1>1, <1>2, <1>4, <1>5, <1>6

\* RemoveFirst takes out one occurrence of an element that is there.
LEMMA RemoveFirstIs ==
  ASSUME NEW S, NEW q \in Seq(S), NEW e, \E j \in 1 .. Len(q) : q[j] = e
  PROVE  \E k \in 1 .. Len(q) : q[k] = e /\ RemoveFirst(q, e) = RemoveAt(q, k)
<1> DEFINE I == {j \in 1 .. Len(q) : q[j] = e}
<1>1. I \in SUBSET Nat /\ I # {}
  <2>1. Len(q) \in Nat
    OBVIOUS
  <2> QED BY <2>1
<1>2. Min(I) \in I
  BY <1>1, MinNat
<1>3. RemoveFirst(q, e) = RemoveAt(q, Min(I))
  BY <1>1 DEF RemoveFirst, SelectInSeq
<1> QED BY <1>2, <1>3

-----------------------------------------------------------------------------
(* Levels *)

\* An id is queued on a ladder when it stands at some place of some level.
LEMMA QueuedIs ==
  ASSUME NEW d \in Seq(Level), NEW x
  PROVE  x \in Queued(d) <=>
            \E i \in 1 .. Len(d) : \E j \in 1 .. Len(d[i].orders) : d[i].orders[j] = x
<1>1. \A i \in 1 .. Len(d) : d[i].orders \in Seq(Nat)
  <2>1. \A i \in 1 .. Len(d) : d[i] \in Level
    OBVIOUS
  <2> QED BY <2>1 DEF Level
<1>2. \A i \in 1 .. Len(d) : DOMAIN d[i].orders = 1 .. Len(d[i].orders)
  BY <1>1, LenProperties
<1>3. DOMAIN d = 1 .. Len(d)
  BY LenProperties
<1>4. \A i \in 1 .. Len(d) :
        x \in Range(d[i].orders) <=> \E j \in 1 .. Len(d[i].orders) : d[i].orders[j] = x
  BY <1>2 DEF Range
<1> QED BY <1>3, <1>4 DEF Queued

\* An order rests on a ladder exactly when it queues at one of its levels.
LEMMA QueuedByLevel ==
  ASSUME NEW d \in Seq(Level), NEW x
  PROVE  x \in Queued(d) <=> \E i \in 1 .. Len(d) : x \in Range(d[i].orders)
<1>1. DOMAIN d = 1 .. Len(d)
  BY LenProperties
<1> QED BY <1>1 DEF Queued

\* Appending adds one element.
LEMMA RangeAppend ==
  ASSUME NEW S, NEW q \in Seq(S), NEW e \in S
  PROVE  Range(Append(q, e)) = Range(q) \cup {e}
<1>1. DOMAIN q = 1 .. Len(q) /\ Len(q) \in Nat
  BY LenProperties
<1>2. /\ DOMAIN Append(q, e) = 1 .. Len(q) + 1
      /\ \A i \in 1 .. Len(q) : Append(q, e)[i] = q[i]
      /\ Append(q, e)[Len(q) + 1] = e
  BY <1>1, AppendProperties, LenProperties
<1>3. 1 .. Len(q) + 1 = 1 .. Len(q) \cup {Len(q) + 1}
  BY <1>1
<1> QED BY <1>1, <1>2, <1>3 DEF Range

\* A level joined by one more order.
LEMMA PushIs ==
  ASSUME NEW lv \in Level, NEW id \in Nat, NEW open \in Int
  PROVE  /\ Push(lv, id, open) \in Level
         /\ Push(lv, id, open).price = lv.price
         /\ Push(lv, id, open).orders = Append(lv.orders, id)
<1>1. Int64(lv.total + open) \in Int
  BY Int64Type DEF Level
<1>2. Append(lv.orders, id) \in Seq(Nat)
  BY DEF Level
<1> QED BY <1>1, <1>2 DEF Push, Level

\* A level opened for an order (ladder.go:75) holds that order alone.
LEMMA FreshIs ==
  ASSUME NEW price \in Int, NEW id \in Nat, NEW open \in Int
  PROVE  /\ Push(EmptyLevel(price), id, open) \in Level
         /\ Push(EmptyLevel(price), id, open).price = price
         /\ Push(EmptyLevel(price), id, open).orders = <<id>>
<1>1. EmptyLevel(price) \in Level /\ EmptyLevel(price).price = price /\ EmptyLevel(price).orders = <<>>
  BY DEF EmptyLevel, Level
<1> DEFINE lv == EmptyLevel(price)
<1> HIDE DEF lv
<1>2. lv \in Level /\ lv.price = price /\ lv.orders = <<>>
  BY <1>1 DEF lv
<1>3. Push(lv, id, open) \in Level /\ Push(lv, id, open).price = price
  BY <1>2, PushIs
<1>4. Push(lv, id, open).orders = Append(lv.orders, id)
  BY <1>2, PushIs
<1>5. Append(lv.orders, id) = <<id>>
  BY <1>2
<1> QED BY <1>3, <1>4, <1>5 DEF lv

-----------------------------------------------------------------------------
(* Insert *)

\* Ladder e is d with the level fresh added at place k, between better prices and
\* worse ones.
LevelAdded(side, d, price, fresh, e, k) ==
    /\ Len(e) = Len(d) + 1
    /\ \A i \in 1 .. Len(d) + 1 :
         e[i] = IF i < k THEN d[i] ELSE IF i = k THEN fresh ELSE d[i-1]
    /\ \A i \in 1 .. (k-1) : d[i].price # price /\ ~Better(side, price, d[i].price)
    /\ k \in 1 .. Len(d) => Better(side, price, d[k].price)

\* Ladder e is d with the order pushed on the level at place k.
LevelJoined(d, price, id, open, e, k) ==
    /\ d[k].price = price
    /\ e = [d EXCEPT ![k] = Push(d[k], id, open)]

\* Insert either adds a level for the order where the prices leave room for it,
\* or pushes the order on the level of its price.
LEMMA InsertIs ==
  ASSUME NEW side, NEW d \in Seq(Level), NEW price \in Int, NEW id \in Nat, NEW open \in Int
  PROVE  LET e     == Insert(side, d, price, id, open)
             fresh == Push(EmptyLevel(price), id, open)
         IN  /\ e \in Seq(Level)
             /\ \/ \E k \in 1 .. Len(d) + 1 : LevelAdded(side, d, price, fresh, e, k)
                \/ \E k \in 1 .. Len(d) : LevelJoined(d, price, id, open, e, k)
<1> DEFINE e == Insert(side, d, price, id, open)
           fresh == Push(EmptyLevel(price), id, open)
           k == InsertStop(side, d, price)
<1>1. Len(d) \in Nat /\ \A i \in 1 .. Len(d) : d[i] \in Level
  OBVIOUS
<1>2. fresh \in Level
  BY FreshIs
<1>3. /\ k \in 0 .. Len(d)
      /\ k = 0 => \A i \in 1 .. Len(d) : d[i].price # price /\ ~Better(side, price, d[i].price)
      /\ k # 0 => /\ d[k].price = price \/ Better(side, price, d[k].price)
                  /\ \A i \in 1 .. (k-1) : d[i].price # price /\ ~Better(side, price, d[i].price)
  BY InsertStopIs
<1>4. e = IF k = 0 THEN Append(d, fresh)
          ELSE IF d[k].price = price THEN [d EXCEPT ![k] = Push(d[k], id, open)]
          ELSE InsertAt(d, k, fresh)
  BY DEF Insert
<1> HIDE DEF e, fresh, k
<1>5. CASE k = 0
  <2>1. /\ e \in Seq(Level) /\ Len(e) = Len(d) + 1
        /\ \A i \in 1 .. Len(d) + 1 : e[i] = IF i < Len(d) + 1 THEN d[i] ELSE fresh
    BY <1>1, <1>2, <1>4, <1>5, AppendProperties
  <2>2. Len(d) + 1 \in 1 .. Len(d) + 1 /\ Len(d) + 1 \notin 1 .. Len(d)
    BY <1>1
  <2>3. \A i \in 1 .. (Len(d) + 1 - 1) : d[i].price # price /\ ~Better(side, price, d[i].price)
    BY <1>1, <1>3, <1>5
  <2>4. \A i \in 1 .. Len(d) + 1 :
          e[i] = IF i < Len(d) + 1 THEN d[i] ELSE IF i = Len(d) + 1 THEN fresh ELSE d[i-1]
    BY <1>1, <2>1
  <2>5. LevelAdded(side, d, price, fresh, e, Len(d) + 1)
    BY <2>1, <2>2, <2>3, <2>4 DEF LevelAdded
  <2> QED BY <2>1, <2>2, <2>5 DEF e, fresh
<1>6. CASE k # 0 /\ d[k].price = price
  <2>1. k \in 1 .. Len(d)
    BY <1>1, <1>3, <1>6
  <2>2. Push(d[k], id, open) \in Level
    BY <1>1, <2>1, PushIs
  <2>3. e = [d EXCEPT ![k] = Push(d[k], id, open)] /\ e \in Seq(Level)
    BY <1>4, <1>6, <2>1, <2>2, ExceptSeq
  <2> QED BY <1>6, <2>1, <2>3 DEF e, LevelJoined
<1>7. CASE k # 0 /\ d[k].price # price
  <2>1. k \in 1 .. Len(d) /\ k \in 1 .. Len(d) + 1
    BY <1>1, <1>3, <1>7
  <2>2. e = InsertAt(d, k, fresh)
    BY <1>4, <1>7
  <2>3. e \in Seq(Level) /\ Len(e) = Len(d) + 1 /\ Spliced(d, k, fresh, e)
    <3>1. InsertAt(d, k, fresh) \in Seq(Level)
      BY <1>2, <2>1, InsertAtIs
    <3>2. Len(InsertAt(d, k, fresh)) = Len(d) + 1
      BY <1>2, <2>1, InsertAtIs
    <3>3. Spliced(d, k, fresh, InsertAt(d, k, fresh))
      BY <1>2, <2>1, InsertAtIs
    <3> QED BY <2>2, <3>1, <3>2, <3>3
  <2>4. LevelAdded(side, d, price, fresh, e, k)
    BY <1>3, <1>7, <2>1, <2>3 DEF LevelAdded, Spliced
  <2> QED BY <2>1, <2>3, <2>4 DEF e, fresh
<1> QED BY <1>5, <1>6, <1>7

\* Prices are totally ordered on each side.
LEMMA BetterIs ==
  ASSUME NEW side, NEW a \in Int, NEW b \in Int, NEW c \in Int
  PROVE  /\ a # b /\ ~Better(side, b, a) => Better(side, a, b)
         /\ Better(side, a, b) /\ Better(side, b, c) => Better(side, a, c)
         /\ Better(side, a, b) => a # b
BY DEF Better

\* A queue that the youngest order joins stays in arrival order.
LEMMA PushWellFormed ==
  ASSUME NEW side, NEW ords, NEW lv \in Level, NEW id \in Nat, NEW open \in Int,
         WellFormedLevel(side, lv, ords) \/ lv.orders = <<>>,
         id \in DOMAIN ords, ords[id].side = side, ords[id].price = lv.price, ords[id].open > 0,
         \A j \in 1 .. Len(lv.orders) : lv.orders[j] < id
  PROVE  WellFormedLevel(side, Push(lv, id, open), ords)
<1> DEFINE q == lv.orders
           r == Push(lv, id, open).orders
<1>1. q \in Seq(Nat) /\ Len(q) \in Nat
  BY DEF Level
<1>2. r = Append(q, id) /\ Push(lv, id, open).price = lv.price
  BY PushIs
<1>3. /\ r # <<>> /\ Len(r) = Len(q) + 1
      /\ \A j \in 1 .. Len(q) : r[j] = q[j]
      /\ r[Len(q) + 1] = id
  BY <1>1, <1>2, AppendProperties
<1> HIDE DEF r
<1>4. \A j, k \in 1 .. Len(q) : j < k => q[j] < q[k]
  BY <1>1 DEF WellFormedLevel
<1>5. ASSUME NEW j \in 1 .. Len(r), NEW k \in 1 .. Len(r), j < k
      PROVE  r[j] < r[k]
  <2>1. j \in 1 .. Len(q) /\ r[j] = q[j]
    BY <1>1, <1>3, <1>5
  <2>2. CASE k \in 1 .. Len(q)
    BY <1>3, <1>4, <1>5, <2>1, <2>2
  <2>3. CASE k = Len(q) + 1
    BY <1>3, <2>1, <2>3
  <2> QED BY <1>1, <1>3, <2>2, <2>3
<1>6. ASSUME NEW j \in 1 .. Len(r)
      PROVE  /\ r[j] \in DOMAIN ords
             /\ ords[r[j]].side = side
             /\ ords[r[j]].price = lv.price
             /\ ords[r[j]].open > 0
  <2>1. CASE j \in 1 .. Len(q)
    BY <1>3, <2>1, <1>1 DEF WellFormedLevel
  <2>2. CASE j = Len(q) + 1
    BY <1>3, <2>2
  <2> QED BY <1>1, <1>3, <2>1, <2>2
<1> QED BY <1>2, <1>3, <1>5, <1>6 DEF WellFormedLevel, r

\* Order id has this side and price and is younger than all that d queues.
Arriving(side, d, ords, price, id) ==
    /\ id \in DOMAIN ords
    /\ ords[id].side = side
    /\ ords[id].price = price
    /\ ords[id].open > 0
    /\ \A x \in Queued(d) : x < id

\* Ladder e is well formed and queues what d does, and order id.
Joined(side, d, ords, id, e) ==
    /\ e \in Seq(Level)
    /\ WellFormed(side, e, ords)
    /\ \A x : x \in Queued(e) <=> x \in Queued(d) \/ x = id

\* Inserting the youngest order keeps the ladder well formed and queues that
\* order and no other.
LEMMA InsertWellFormed ==
  ASSUME NEW side, NEW d \in Seq(Level), NEW ords, NEW price \in Int,
         NEW id \in Nat, NEW open \in Int,
         WellFormed(side, d, ords),
         Arriving(side, d, ords, price, id)
  PROVE  Joined(side, d, ords, id, Insert(side, d, price, id, open))
<1> DEFINE e     == Insert(side, d, price, id, open)
           fresh == Push(EmptyLevel(price), id, open)
<1>1. Len(d) \in Nat /\ \A i \in 1 .. Len(d) : d[i] \in Level /\ d[i].price \in Int
  <2>1. \A i \in 1 .. Len(d) : d[i] \in Level
    OBVIOUS
  <2> QED BY <2>1 DEF Level
<1>2. e \in Seq(Level)
  BY InsertIs
<1>3. fresh.price = price /\ fresh.orders = <<id>> /\ Len(fresh.orders) = 1 /\ fresh.orders[1] = id
  <2>1. fresh.price = price /\ fresh.orders = <<id>>
    BY FreshIs
  <2> QED BY <2>1
<1>4. WellFormedLevel(side, fresh, ords)
  <2> HIDE DEF fresh
  <2> QED BY <1>3 DEF WellFormedLevel, Arriving
<1>5. \A i \in 1 .. Len(d) : WellFormedLevel(side, d[i], ords)
  BY DEF WellFormed
<1>6. \A i, j \in 1 .. Len(d) : i < j => Better(side, d[i].price, d[j].price)
  BY DEF WellFormed
<1>7. CASE \E k \in 1 .. Len(d) + 1 : LevelAdded(side, d, price, fresh, e, k)
  <2>1. PICK k \in 1 .. Len(d) + 1 :
              /\ Len(e) = Len(d) + 1
              /\ \A i \in 1 .. Len(d) + 1 :
                   e[i] = IF i < k THEN d[i] ELSE IF i = k THEN fresh ELSE d[i-1]
              /\ \A i \in 1 .. (k-1) :
                   d[i].price # price /\ ~Better(side, price, d[i].price)
              /\ k \in 1 .. Len(d) => Better(side, price, d[k].price)
    BY <1>7 DEF LevelAdded
  <2> HIDE DEF e, fresh
  <2>2. \A i \in 1 .. (k-1) : Better(side, d[i].price, price)
    <3>1. ASSUME NEW i \in 1 .. (k-1) PROVE Better(side, d[i].price, price)
      <4>1. d[i].price \in Int /\ d[i].price # price /\ ~Better(side, price, d[i].price)
        BY <1>1, <2>1
      <4> QED BY <4>1, BetterIs
    <3> QED BY <3>1
  <2>3. \A i \in k .. Len(d) : Better(side, price, d[i].price)
    <3>1. ASSUME NEW i \in k .. Len(d) PROVE Better(side, price, d[i].price)
      <4>1. k \in 1 .. Len(d) /\ i \in 1 .. Len(d)
        BY <1>1
      <4>2. Better(side, price, d[k].price)
        BY <2>1, <4>1
      <4>3. CASE i = k
        BY <4>2, <4>3
      <4>4. CASE i # k
        <5>1. Better(side, d[k].price, d[i].price)
          BY <1>6, <4>1, <4>4
        <5> QED BY <1>1, <4>1, <4>2, <5>1, BetterIs
      <4> QED BY <4>3, <4>4
    <3> QED BY <3>1
  <2>4. ASSUME NEW i \in 1 .. Len(e), NEW j \in 1 .. Len(e), i < j
        PROVE  Better(side, e[i].price, e[j].price)
    <3>1. CASE j < k
      <4>1. e[i] = d[i] /\ e[j] = d[j] /\ i \in 1 .. Len(d) /\ j \in 1 .. Len(d)
        BY <1>1, <2>1, <2>4, <3>1
      <4> QED BY <1>6, <2>4, <4>1
    <3>2. CASE j = k
      <4>1. e[i] = d[i] /\ e[j] = fresh /\ i \in 1 .. (k-1)
        BY <1>1, <2>1, <2>4, <3>2
      <4> QED BY <1>3, <2>2, <4>1
    <3>3. CASE j > k /\ i = k
      <4>1. e[i] = fresh /\ e[j] = d[j-1] /\ j - 1 \in k .. Len(d)
        BY <1>1, <2>1, <3>3
      <4> QED BY <1>3, <2>3, <4>1
    <3>4. CASE j > k /\ i < k
      <4>1. e[i] = d[i] /\ e[j] = d[j-1] /\ i \in 1 .. Len(d) /\ j - 1 \in 1 .. Len(d) /\ i < j - 1
        BY <1>1, <2>1, <3>4
      <4> QED BY <1>6, <4>1
    <3>5. CASE j > k /\ i > k
      <4>1. /\ e[i] = d[i-1] /\ e[j] = d[j-1]
            /\ i - 1 \in 1 .. Len(d) /\ j - 1 \in 1 .. Len(d) /\ i - 1 < j - 1
        BY <1>1, <2>1, <2>4, <3>5
      <4> QED BY <1>6, <4>1
    <3> QED BY <1>1, <2>1, <3>1, <3>2, <3>3, <3>4, <3>5
  <2>5. ASSUME NEW i \in 1 .. Len(e)
        PROVE  e[i] = fresh \/ \E h \in 1 .. Len(d) : e[i] = d[h]
    <3>1. CASE i < k
      BY <1>1, <2>1, <3>1
    <3>2. CASE i > k
      <4>1. e[i] = d[i-1] /\ i - 1 \in 1 .. Len(d)
        BY <1>1, <2>1, <3>2, SMTT(30)
      <4> QED BY <4>1
    <3> QED BY <1>1, <2>1, <3>1, <3>2
  <2>6. WellFormed(side, e, ords)
    BY <1>4, <1>5, <2>4, <2>5 DEF WellFormed
  <2>7. e[k] = fresh /\ k \in 1 .. Len(e)
    BY <1>1, <2>1
  <2>8. ASSUME NEW h \in 1 .. Len(d)
        PROVE  \E i \in 1 .. Len(e) : e[i] = d[h]
    <3>1. CASE h < k
      BY <1>1, <2>1, <3>1, SMTT(30)
    <3>2. CASE h >= k
      <4>1. h + 1 \in 1 .. Len(e) /\ e[h + 1] = d[h]
        BY <1>1, <2>1, <3>2
      <4> QED BY <4>1
    <3> QED BY <1>1, <3>1, <3>2
  <2>9. ASSUME NEW x
        PROVE  x \in Queued(e) <=> x \in Queued(d) \/ x = id
    <3>1. x \in Queued(d) <=> \E i \in 1 .. Len(d) : x \in Range(d[i].orders)
      BY QueuedByLevel
    <3>2. x \in Queued(e) <=> \E i \in 1 .. Len(e) : x \in Range(e[i].orders)
      BY <1>2, QueuedByLevel
    <3>3. x \in Range(fresh.orders) <=> x = id
      <4>1. Range(<<id>>) = {id}
        BY DEF Range
      <4> QED BY <4>1, <1>3
    <3> QED BY <2>5, <2>7, <2>8, <3>1, <3>2, <3>3
  <2> QED BY <1>2, <2>6, <2>9 DEF e, Joined
<1>8. CASE \E k \in 1 .. Len(d) : LevelJoined(d, price, id, open, e, k)
  <2>1. PICK k \in 1 .. Len(d) :
              /\ d[k].price = price
              /\ e = [d EXCEPT ![k] = Push(d[k], id, open)]
    BY <1>8 DEF LevelJoined
  <2> DEFINE p == Push(d[k], id, open)
  <2> HIDE DEF e, fresh
  <2>2. p \in Level /\ p.price = price /\ p.orders = Append(d[k].orders, id)
    BY <1>1, <2>1, PushIs
  <2>3. /\ d[k].orders \in Seq(Nat) /\ Len(d[k].orders) \in Nat
        /\ Len(p.orders) = Len(d[k].orders) + 1
        /\ \A j \in 1 .. Len(d[k].orders) : p.orders[j] = d[k].orders[j]
        /\ p.orders[Len(d[k].orders) + 1] = id
    <3>1. d[k].orders \in Seq(Nat)
      BY <1>1 DEF Level
    <3> QED BY <2>2, <3>1, AppendProperties
  <2>4. \A j \in 1 .. Len(d[k].orders) : d[k].orders[j] < id
    BY QueuedIs DEF Arriving
  <2>5. WellFormedLevel(side, p, ords)
    <3>1. /\ id \in DOMAIN ords /\ ords[id].side = side
          /\ ords[id].price = d[k].price /\ ords[id].open > 0
      BY <2>1 DEF Arriving
    <3> QED BY <1>1, <1>5, <2>4, <3>1, PushWellFormed
  <2> HIDE DEF p
  <2>6. Len(e) = Len(d) /\ \A i \in 1 .. Len(d) : e[i] = IF i = k THEN p ELSE d[i]
    BY <2>1, <2>2, ExceptSeq DEF p
  <2>7. WellFormed(side, e, ords)
    BY <1>5, <1>6, <2>1, <2>2, <2>5, <2>6 DEF WellFormed
  <2>8. ASSUME NEW x
        PROVE  x \in Queued(e) <=> x \in Queued(d) \/ x = id
    <3>1. x \in Queued(d) <=> \E i \in 1 .. Len(d) : x \in Range(d[i].orders)
      BY QueuedByLevel
    <3>2. x \in Queued(e) <=> \E i \in 1 .. Len(e) : x \in Range(e[i].orders)
      BY <1>2, QueuedByLevel
    <3>3. x \in Range(p.orders) <=> x \in Range(d[k].orders) \/ x = id
      <4>1. Range(Append(d[k].orders, id)) = Range(d[k].orders) \cup {id}
        BY <2>3, RangeAppend
      <4> QED BY <2>2, <4>1
    <3> QED BY <2>6, <3>1, <3>2, <3>3
  <2> QED BY <1>2, <2>7, <2>8 DEF e, Joined
<1>9. \/ \E k \in 1 .. Len(d) + 1 : LevelAdded(side, d, price, fresh, e, k)
      \/ \E k \in 1 .. Len(d) : LevelJoined(d, price, id, open, e, k)
  BY InsertIs
<1> QED BY <1>7, <1>8, <1>9

-----------------------------------------------------------------------------
(* Taking orders and levels away *)

\* A level depends on the heap only through the orders in its queue.
LEMMA SameOrdersWellFormedLevel ==
  ASSUME NEW side, NEW lv \in Level, NEW ords, NEW ords2,
         WellFormedLevel(side, lv, ords),
         DOMAIN ords2 = DOMAIN ords,
         \A x \in Range(lv.orders) : /\ ords2[x].side = ords[x].side
                                    /\ ords2[x].price = ords[x].price
                                    /\ ords2[x].open > 0
  PROVE  WellFormedLevel(side, lv, ords2)
<1>1. DOMAIN lv.orders = 1 .. Len(lv.orders)
  <2>1. lv.orders \in Seq(Nat)
    BY DEF Level
  <2> QED BY <2>1, LenProperties
<1>2. \A j \in 1 .. Len(lv.orders) : lv.orders[j] \in Range(lv.orders)
  BY <1>1 DEF Range
<1> QED BY <1>2 DEF WellFormedLevel

\* Levels have different prices, so no order is queued on two of them.
LEMMA LevelsDisjoint ==
  ASSUME NEW side, NEW d \in Seq(Level), NEW ords, WellFormed(side, d, ords),
         NEW i \in 1 .. Len(d), NEW h \in 1 .. Len(d),
         NEW x, x \in Range(d[i].orders), x \in Range(d[h].orders)
  PROVE  i = h
<1>1. Len(d) \in Nat /\ d[i] \in Level /\ d[h] \in Level
  OBVIOUS
<1>2. d[i].price \in Int /\ d[h].price \in Int /\ d[i].orders \in Seq(Nat) /\ d[h].orders \in Seq(Nat)
  BY <1>1 DEF Level
<1>3. /\ DOMAIN d[i].orders = 1 .. Len(d[i].orders)
      /\ DOMAIN d[h].orders = 1 .. Len(d[h].orders)
  BY <1>2, LenProperties
<1>4. d[i].price = ords[x].price /\ d[h].price = ords[x].price
  BY <1>3 DEF WellFormed, WellFormedLevel, Range
<1>5. ~(i < h) /\ ~(h < i)
  <2>1. ~Better(side, d[i].price, d[h].price) /\ ~Better(side, d[h].price, d[i].price)
    BY <1>2, <1>4, BetterIs
  <2> QED BY <2>1 DEF WellFormed
<1> QED BY <1>1, <1>5

\* Every level but the one at place k is well formed over heap ords.
OthersWellFormed(side, d, k, ords) ==
    \A i \in 1 .. Len(d) : i # k => WellFormedLevel(side, d[i], ords)

\* A ladder with one level left out.
LevelDropped(d, e, k) ==
    /\ e \in Seq(Level)
    /\ Len(e) = Len(d) - 1
    /\ \A i \in 1 .. Len(d) - 1 : e[i] = IF i < k THEN d[i] ELSE d[i+1]

\* A well-formed ladder stays so when a level is dropped: it loses that level's orders.
LEMMA LevelDroppedWellFormed ==
  ASSUME NEW side, NEW d \in Seq(Level), NEW ords, NEW ords2, WellFormed(side, d, ords),
         NEW k \in 1 .. Len(d), NEW e, LevelDropped(d, e, k),
         OthersWellFormed(side, d, k, ords2)
  PROVE  /\ WellFormed(side, e, ords2)
         /\ Queued(e) = Queued(d) \ Range(d[k].orders)
<1>1. /\ Len(d) \in Nat /\ e \in Seq(Level) /\ Len(e) = Len(d) - 1
      /\ \A i \in 1 .. Len(d) - 1 : e[i] = IF i < k THEN d[i] ELSE d[i+1]
  BY DEF LevelDropped
<1>2. ASSUME NEW i \in 1 .. Len(e)
      PROVE  \E h \in 1 .. Len(d) : h # k /\ e[i] = d[h]
  <2>1. CASE i < k
    BY <1>1, <2>1
  <2>2. CASE i >= k
    <3>1. i + 1 \in 1 .. Len(d) /\ i + 1 # k /\ e[i] = d[i+1]
      BY <1>1, <2>2
    <3> QED BY <3>1
  <2> QED BY <1>1, <2>1, <2>2
<1>3. ASSUME NEW h \in 1 .. Len(d), h # k
      PROVE  \E i \in 1 .. Len(e) : e[i] = d[h]
  <2>1. CASE h < k
    BY <1>1, <2>1
  <2>2. CASE h > k
    <3>1. h - 1 \in 1 .. Len(e) /\ h - 1 \in 1 .. Len(d) - 1 /\ ~(h - 1 < k) /\ (h - 1) + 1 = h
      BY <1>1, <2>2
    <3>2. e[h - 1] = d[h]
      BY <1>1, <3>1
    <3> QED BY <3>1, <3>2
  <2> QED BY <1>1, <1>3, <2>1, <2>2
<1>4. ASSUME NEW i \in 1 .. Len(e), NEW j \in 1 .. Len(e), i < j
      PROVE  Better(side, e[i].price, e[j].price)
  <2> DEFINE at(m) == IF m < k THEN m ELSE m + 1
  <2>1. at(i) \in 1 .. Len(d) /\ at(j) \in 1 .. Len(d) /\ at(i) < at(j)
    BY <1>1, <1>4
  <2>2. e[i] = d[at(i)] /\ e[j] = d[at(j)]
    BY <1>1
  <2> QED BY <2>1, <2>2 DEF WellFormed
<1>5. WellFormed(side, e, ords2)
  BY <1>2, <1>4 DEF WellFormed, OthersWellFormed
<1>6. ASSUME NEW x
      PROVE  x \in Queued(e) <=> x \in Queued(d) /\ x \notin Range(d[k].orders)
  <2>1. x \in Queued(d) <=> \E i \in 1 .. Len(d) : x \in Range(d[i].orders)
    BY QueuedByLevel
  <2>2. x \in Queued(e) <=> \E i \in 1 .. Len(e) : x \in Range(e[i].orders)
    BY <1>1, QueuedByLevel
  <2>3. ASSUME NEW i \in 1 .. Len(d), x \in Range(d[i].orders), i # k
        PROVE  x \notin Range(d[k].orders)
    BY <2>3, LevelsDisjoint
  <2> QED BY <1>2, <1>3, <2>1, <2>2, <2>3
<1> QED BY <1>5, <1>6

\* A ladder with one level replaced by one of the same price that lost the
\* orders gone.
LevelReplaced(d, e, k, lv, gone) ==
    /\ lv.price = d[k].price
    /\ gone \subseteq Range(d[k].orders)
    /\ Range(lv.orders) = Range(d[k].orders) \ gone
    /\ e = [d EXCEPT ![k] = lv]

\* A well-formed ladder stays so when a well-formed level takes the place of one,
\* at the same price, without the orders that are gone.
LEMMA LevelReplacedWellFormed ==
  ASSUME NEW side, NEW d \in Seq(Level), NEW ords, NEW ords2, WellFormed(side, d, ords),
         NEW k \in 1 .. Len(d), NEW lv \in Level, WellFormedLevel(side, lv, ords2),
         NEW gone, NEW e, LevelReplaced(d, e, k, lv, gone),
         OthersWellFormed(side, d, k, ords2)
  PROVE  /\ e \in Seq(Level)
         /\ WellFormed(side, e, ords2)
         /\ Queued(e) = Queued(d) \ gone
<1>1. /\ e \in Seq(Level) /\ Len(e) = Len(d)
      /\ \A i \in 1 .. Len(d) : e[i] = IF i = k THEN lv ELSE d[i]
  BY ExceptSeq DEF LevelReplaced
<1>2. WellFormed(side, e, ords2)
  BY <1>1 DEF WellFormed, OthersWellFormed, LevelReplaced
<1>3. ASSUME NEW x
      PROVE  x \in Queued(e) <=> x \in Queued(d) /\ x \notin gone
  <2>1. x \in Queued(d) <=> \E i \in 1 .. Len(d) : x \in Range(d[i].orders)
    BY QueuedByLevel
  <2>2. x \in Queued(e) <=> \E i \in 1 .. Len(e) : x \in Range(e[i].orders)
    BY <1>1, QueuedByLevel
  <2>3. ASSUME NEW i \in 1 .. Len(d), x \in Range(d[i].orders), i # k
        PROVE  x \notin Range(d[k].orders)
    BY <2>3, LevelsDisjoint
  <2> QED BY <1>1, <2>1, <2>2, <2>3 DEF LevelReplaced
<1> QED BY <1>1, <1>2, <1>3

\* The order of a queue: ids are handed out in arrival order.
ArrivalOrder(q) == \A a, b \in 1 .. Len(q) : a < b => q[a] < q[b]

\* A queue with the order at place k left out.
QueueShrunk(q, r, k) ==
    /\ r \in Seq(Nat)
    /\ Len(r) = Len(q) - 1
    /\ \A i \in 1 .. Len(q) - 1 : r[i] = IF i < k THEN q[i] ELSE q[i+1]

\* The order at place i of r stands at place i of q, or one further back.
MovedUp(q, r, k, i) == r[i] = IF i < k THEN q[i] ELSE q[i+1]

\* Leaving an order out changes nobody else's place.
LEMMA QueueShrunkIs ==
  ASSUME NEW q \in Seq(Nat), NEW r \in Seq(Nat), NEW k \in 1 .. Len(q), QueueShrunk(q, r, k),
         ArrivalOrder(q)
  PROVE  /\ Range(r) = Range(q) \ {q[k]}
         /\ ArrivalOrder(r)
<1>1. DOMAIN q = 1 .. Len(q) /\ DOMAIN r = 1 .. Len(r)
  BY LenProperties
<1>2. Len(q) \in Nat /\ Len(r) = Len(q) - 1 /\ k \in Nat /\ 1 <= k /\ k <= Len(q)
  BY DEF QueueShrunk
<1>3. \A i \in 1 .. Len(q) - 1 : MovedUp(q, r, k, i)
  BY DEF QueueShrunk, MovedUp
<1>4. \A i \in 1 .. Len(q) : q[i] \in Nat
  OBVIOUS
<1>5. ASSUME NEW h \in 1 .. Len(q), h # k PROVE q[h] # q[k]
  <2>1. h < k \/ k < h
    BY <1>2, <1>5
  <2>2. q[h] < q[k] \/ q[k] < q[h]
    BY <2>1 DEF ArrivalOrder
  <2> QED BY <1>4, <2>2
<1>6. ASSUME NEW i \in 1 .. Len(r)
      PROVE  \E h \in 1 .. Len(q) : /\ r[i] = q[h]
                                    /\ i < k => h = i
                                    /\ i >= k => h = i + 1
  <2>1. MovedUp(q, r, k, i)
    BY <1>2, <1>3
  <2>2. i \in 1 .. Len(q) /\ i + 1 \in 1 .. Len(q)
    BY <1>2
  <2>3. CASE i < k
    <3>1. r[i] = q[i] /\ ~(i >= k)
      BY <1>2, <2>1, <2>3 DEF MovedUp
    <3> QED BY <2>2, <2>3, <3>1
  <2>4. CASE ~(i < k)
    <3>1. r[i] = q[i+1]
      BY <2>1, <2>4 DEF MovedUp
    <3> QED BY <2>2, <2>4, <3>1
  <2> QED BY <2>3, <2>4
<1>7. ASSUME NEW h \in 1 .. Len(q), h # k
      PROVE  \E i \in 1 .. Len(r) : r[i] = q[h]
  <2>1. CASE h < k
    <3>1. h \in 1 .. Len(r) /\ h \in 1 .. Len(q) - 1
      BY <1>2, <2>1
    <3>2. r[h] = q[h]
      BY <1>3, <2>1, <3>1 DEF MovedUp
    <3> QED BY <3>1, <3>2
  <2>2. CASE h > k
    <3>1. PICK i \in 1 .. Len(r) : i \in 1 .. Len(q) - 1 /\ ~(i < k) /\ i + 1 = h
      <4>1. /\ h - 1 \in 1 .. Len(r) /\ h - 1 \in 1 .. Len(q) - 1
            /\ ~(h - 1 < k) /\ (h - 1) + 1 = h
        BY <1>2, <2>2
      <4> QED BY <4>1
    <3>2. r[i] = q[i+1]
      BY <1>3, <3>1 DEF MovedUp
    <3> QED BY <3>1, <3>2
  <2> QED BY <1>2, <1>7, <2>1, <2>2
<1>8. Range(r) = Range(q) \ {q[k]}
  <2>1. Range(r) = {r[i] : i \in 1 .. Len(r)} /\ Range(q) = {q[i] : i \in 1 .. Len(q)}
    BY <1>1 DEF Range
  <2>2. ASSUME NEW x \in Range(r) PROVE x \in Range(q) /\ x # q[k]
    <3>1. PICK i \in 1 .. Len(r) : x = r[i]
      BY <2>1
    <3>2. PICK h \in 1 .. Len(q) : r[i] = q[h] /\ (i < k => h = i) /\ (i >= k => h = i + 1)
      BY <1>6
    <3>3. i \in Nat /\ (i < k \/ i >= k) /\ ~(k < k) /\ (i >= k => i + 1 # k)
      BY <1>2
    <3>4. h # k
      BY ONLY <3>2, <3>3
    <3> QED BY <1>5, <2>1, <3>1, <3>2, <3>4
  <2>3. ASSUME NEW x \in Range(q), x # q[k] PROVE x \in Range(r)
    <3>1. PICK h \in 1 .. Len(q) : x = q[h]
      BY <2>1
    <3>2. \E i \in 1 .. Len(r) : r[i] = q[h]
      BY <1>7, <2>3, <3>1
    <3> QED BY <2>1, <3>1, <3>2
  <2> QED BY <2>2, <2>3
<1>9. ASSUME NEW i \in 1 .. Len(r), NEW j \in 1 .. Len(r), i < j
      PROVE  r[i] < r[j]
  <2>1. PICK g \in 1 .. Len(q) : r[i] = q[g] /\ (i < k => g = i) /\ (i >= k => g = i + 1)
    BY <1>6
  <2>2. PICK h \in 1 .. Len(q) : r[j] = q[h] /\ (j < k => h = j) /\ (j >= k => h = j + 1)
    BY <1>6
  <2>3. i \in Nat /\ j \in Nat /\ k \in Nat
    BY <1>2
  <2>4. (i < k \/ i >= k) /\ (j < k \/ j >= k) /\ i < j + 1 /\ i + 1 < j + 1 /\ ~(i >= k /\ j < k)
    BY <1>9, <2>3
  <2>5. g < h
    BY ONLY <1>9, <2>1, <2>2, <2>4
  <2> QED BY <2>1, <2>2, <2>5 DEF ArrivalOrder
<1> QED BY <1>8, <1>9 DEF ArrivalOrder

\* The level of a shrunk queue stays well formed if somebody is left in it.
LEMMA QueueShrunkWellFormed ==
  ASSUME NEW side, NEW ords, NEW ords2, NEW lv \in Level, NEW lv2 \in Level,
         WellFormedLevel(side, lv, ords), lv2.price = lv.price,
         NEW k \in 1 .. Len(lv.orders), QueueShrunk(lv.orders, lv2.orders, k),
         DOMAIN ords2 = DOMAIN ords,
         \A x \in Range(lv2.orders) : /\ ords2[x].side = ords[x].side
                                     /\ ords2[x].price = ords[x].price
                                     /\ ords2[x].open > 0
  PROVE  /\ Range(lv2.orders) = Range(lv.orders) \ {lv.orders[k]}
         /\ lv2.orders # <<>> => WellFormedLevel(side, lv2, ords2)
<1>1. /\ lv.orders \in Seq(Nat) /\ DOMAIN lv.orders = 1 .. Len(lv.orders)
      /\ lv2.orders \in Seq(Nat) /\ DOMAIN lv2.orders = 1 .. Len(lv2.orders)
  BY LenProperties DEF Level
<1>2. ArrivalOrder(lv.orders)
  BY DEF WellFormedLevel, ArrivalOrder
<1>3. /\ Range(lv2.orders) = Range(lv.orders) \ {lv.orders[k]}
      /\ \A i, j \in 1 .. Len(lv2.orders) : i < j => lv2.orders[i] < lv2.orders[j]
  <2>1. Range(lv2.orders) = Range(lv.orders) \ {lv.orders[k]} /\ ArrivalOrder(lv2.orders)
    BY <1>1, <1>2, QueueShrunkIs
  <2> QED BY <2>1 DEF ArrivalOrder
<1>4. \A x \in Range(lv.orders) : x \in DOMAIN ords /\ ords[x].side = side /\ ords[x].price = lv.price
  BY <1>1 DEF WellFormedLevel, Range
<1>5. \A i \in 1 .. Len(lv2.orders) : lv2.orders[i] \in Range(lv2.orders)
  BY <1>1 DEF Range
<1> QED BY <1>3, <1>4, <1>5 DEF WellFormedLevel

\* Removing an order from the middle of a queue.
LEMMA RemoveFromLevelIs ==
  ASSUME NEW side, NEW ords, NEW lv \in Level, WellFormedLevel(side, lv, ords),
         NEW id, id \in Range(lv.orders), NEW open \in Int
  PROVE  /\ RemoveFromLevel(lv, id, open) \in Level
         /\ RemoveFromLevel(lv, id, open).price = lv.price
         /\ Range(RemoveFromLevel(lv, id, open).orders) = Range(lv.orders) \ {id}
         /\ RemoveFromLevel(lv, id, open).orders # <<>> =>
              WellFormedLevel(side, RemoveFromLevel(lv, id, open), ords)
<1> DEFINE q == lv.orders
           left == RemoveFromLevel(lv, id, open)
<1>1. q \in Seq(Nat) /\ DOMAIN q = 1 .. Len(q) /\ Len(q) \in Nat
  BY LenProperties DEF Level
<1>2. PICK k \in 1 .. Len(q) : q[k] = id /\ RemoveFirst(q, id) = RemoveAt(q, k)
  <2>1. \E j \in 1 .. Len(q) : q[j] = id
    BY <1>1 DEF Range
  <2> QED BY <1>1, <2>1, RemoveFirstIs
<1>3. left \in Level /\ left.price = lv.price /\ left.orders = RemoveAt(q, k)
  <2>1. Int64(lv.total - open) \in Int
    BY Int64Type DEF Level
  <2>2. RemoveAt(q, k) \in Seq(Nat)
    BY <1>1, RemoveAtIs
  <2> QED BY <1>2, <2>1, <2>2 DEF RemoveFromLevel, Level
<1> HIDE DEF left
<1>4. QueueShrunk(q, left.orders, k)
  BY <1>1, <1>3, RemoveAtIs DEF QueueShrunk
<1>5. \A x \in Range(left.orders) : ords[x].open > 0
  <2>1. left.orders \in Seq(Nat) /\ Len(left.orders) = Len(q) - 1
    BY <1>4 DEF QueueShrunk
  <2>2. ASSUME NEW i \in 1 .. Len(left.orders) PROVE ords[left.orders[i]].open > 0
    <3>1. i \in 1 .. Len(q) /\ i + 1 \in 1 .. Len(q) /\ i \in 1 .. Len(q) - 1
      BY <1>1, <2>1
    <3>2. left.orders[i] = IF i < k THEN q[i] ELSE q[i+1]
      BY <1>4, <3>1 DEF QueueShrunk
    <3> QED BY <3>1, <3>2 DEF WellFormedLevel
  <2>3. DOMAIN left.orders = 1 .. Len(left.orders)
    BY <2>1, LenProperties
  <2> QED BY <2>2, <2>3 DEF Range
<1>6. /\ Range(left.orders) = Range(q) \ {q[k]}
      /\ left.orders # <<>> => WellFormedLevel(side, left, ords)
  BY <1>3, <1>4, <1>5, QueueShrunkWellFormed
<1> QED BY <1>2, <1>3, <1>6 DEF left

-----------------------------------------------------------------------------
(* RemoveOrder *)

\* The level that removeOrder looks an order up in is the one it queues at.
LEMMA HomeIs ==
  ASSUME NEW side, NEW d \in Seq(Level), NEW ords, WellFormed(side, d, ords),
         NEW id, id \in Queued(d)
  PROVE  /\ LevelAt(d, ords[id].price) \in 1 .. Len(d)
         /\ id \in Range(d[LevelAt(d, ords[id].price)].orders)
         /\ d[LevelAt(d, ords[id].price)].price = ords[id].price
<1> DEFINE price == ords[id].price
           k == LevelAt(d, price)
<1>1. PICK i \in 1 .. Len(d) : id \in Range(d[i].orders)
  BY QueuedByLevel
<1>2. Len(d) \in Nat /\ d[i] \in Level /\ \A h \in 1 .. Len(d) : d[h] \in Level /\ d[h].price \in Int
  <2>1. Len(d) \in Nat /\ \A h \in 1 .. Len(d) : d[h] \in Level
    OBVIOUS
  <2> QED BY <2>1 DEF Level
<1>3. d[i].price = price
  <2>1. d[i].orders \in Seq(Nat)
    BY <1>2 DEF Level
  <2>2. DOMAIN d[i].orders = 1 .. Len(d[i].orders)
    BY <2>1, LenProperties
  <2> QED BY <1>1, <2>2 DEF WellFormed, WellFormedLevel, Range
<1>4. k = i
  <2>1. k \in 1 .. Len(d) /\ d[k].price = price
    <3>1. /\ k \in 0 .. Len(d)
          /\ k = 0 => \A h \in 1 .. Len(d) : d[h].price # price
          /\ k # 0 => d[k].price = price
      BY LevelAtIs
    <3> HIDE DEF k
    <3> QED BY <1>2, <1>3, <3>1
  <2> HIDE DEF k
  <2>2. ~(k < i) /\ ~(i < k)
    <3>1. ~Better(side, d[k].price, d[i].price) /\ ~Better(side, d[i].price, d[k].price)
      BY <1>2, <1>3, <2>1, BetterIs
    <3> QED BY <2>1, <3>1 DEF WellFormed
  <2> QED BY <1>2, <2>1, <2>2
<1> QED BY <1>1, <1>3, <1>4

\* Removing a queued order finds it, keeps the ladder well formed and takes that
\* order and no other out of the queues.
LEMMA RemoveOrderWellFormed ==
  ASSUME NEW side, NEW d \in Seq(Level), NEW ords, WellFormed(side, d, ords),
         NEW id, id \in Queued(d), NEW open \in Int
  PROVE  /\ Holds(d, ords[id].price, id)
         /\ RemoveOrder(d, ords[id].price, id, open) \in Seq(Level)
         /\ WellFormed(side, RemoveOrder(d, ords[id].price, id, open), ords)
         /\ Queued(RemoveOrder(d, ords[id].price, id, open)) = Queued(d) \ {id}
<1> DEFINE price == ords[id].price
           k == LevelAt(d, price)
           left == RemoveFromLevel(d[k], id, open)
           e == RemoveOrder(d, price, id, open)
<1>1. PICK i \in 1 .. Len(d) : id \in Range(d[i].orders) /\ k = i
  BY HomeIs
<1>2. /\ Len(d) \in Nat
      /\ \A h \in 1 .. Len(d) : /\ d[h] \in Level /\ d[h].price \in Int
                               /\ d[h].orders \in Seq(Nat)
                               /\ DOMAIN d[h].orders = 1 .. Len(d[h].orders)
  <2>1. Len(d) \in Nat /\ \A h \in 1 .. Len(d) : d[h] \in Level
    OBVIOUS
  <2>2. \A h \in 1 .. Len(d) : d[h].price \in Int /\ d[h].orders \in Seq(Nat)
    BY <2>1 DEF Level
  <2> QED BY <2>1, <2>2, LenProperties
<1>4. k = i
  BY <1>1
<1>5. Holds(d, price, id)
  BY <1>1, <1>2, <1>4 DEF Holds, Contains, Range
<1>6. WellFormedLevel(side, d[i], ords) /\ \A h \in 1 .. Len(d) : WellFormedLevel(side, d[h], ords)
  BY DEF WellFormed
<1>7. /\ left \in Level
      /\ left.price = d[i].price
      /\ Range(left.orders) = Range(d[i].orders) \ {id}
      /\ left.orders # <<>> => WellFormedLevel(side, left, ords)
  <2>1. d[i] \in Level
    BY <1>2
  <2>2. left = RemoveFromLevel(d[i], id, open)
    BY <1>4
  <2> HIDE DEF left, k, e
  <2>3. WellFormedLevel(side, d[i], ords)
    BY <1>6
  <2>4. /\ RemoveFromLevel(d[i], id, open) \in Level
        /\ RemoveFromLevel(d[i], id, open).price = d[i].price
        /\ Range(RemoveFromLevel(d[i], id, open).orders) = Range(d[i].orders) \ {id}
        /\ RemoveFromLevel(d[i], id, open).orders # <<>> =>
             WellFormedLevel(side, RemoveFromLevel(d[i], id, open), ords)
    BY <1>1, <2>1, <2>3, RemoveFromLevelIs
  <2> QED BY <2>2, <2>4
<1>8. e = IF left.orders = <<>> THEN RemoveAt(d, i) ELSE [d EXCEPT ![i] = left]
  BY <1>4 DEF RemoveOrder
<1> HIDE DEF e, left, k
<1>9. CASE left.orders = <<>>
  <2>1. e = RemoveAt(d, i)
    BY <1>8, <1>9
  <2>2. LevelDropped(d, e, i)
    BY <2>1, RemoveAtIs DEF LevelDropped
  <2>3. WellFormed(side, e, ords) /\ Queued(e) = Queued(d) \ Range(d[i].orders)
    <3>1. OthersWellFormed(side, d, i, ords)
      BY <1>6 DEF OthersWellFormed
    <3>2. WellFormed(side, e, ords)
      BY <2>2, <3>1, LevelDroppedWellFormed
    <3>3. Queued(e) = Queued(d) \ Range(d[i].orders)
      BY <2>2, <3>1, LevelDroppedWellFormed
    <3> QED BY <3>2, <3>3
  <2>4. Range(d[i].orders) = {id}
    <3>1. Range(<<>>) = {}
      BY DEF Range
    <3> QED BY <1>1, <1>7, <1>9, <3>1
  <2> QED BY <1>5, <2>2, <2>3, <2>4 DEF e, LevelDropped
<1>10. CASE left.orders # <<>>
  <2>1. e = [d EXCEPT ![i] = left]
    BY <1>8, <1>10
  <2> DEFINE gone == {id}
  <2>2. left \in Level /\ WellFormedLevel(side, left, ords)
    BY <1>7, <1>10
  <2>3. LevelReplaced(d, e, i, left, gone)
    BY <1>1, <1>7, <2>1 DEF LevelReplaced
  <2>4. OthersWellFormed(side, d, i, ords)
    BY <1>6 DEF OthersWellFormed
  <2> HIDE DEF gone
  <2>5. e \in Seq(Level)
    BY <2>2, <2>3, <2>4, LevelReplacedWellFormed
  <2>6. WellFormed(side, e, ords)
    BY <2>2, <2>3, <2>4, LevelReplacedWellFormed
  <2>7. Queued(e) = Queued(d) \ gone
    BY <2>2, <2>3, <2>4, LevelReplacedWellFormed
  <2> QED BY <1>5, <2>5, <2>6, <2>7 DEF e, gone
<1> QED BY <1>9, <1>10

-----------------------------------------------------------------------------
(* HitBest *)

\* The heap after a fill: only the head of the best level has another quantity.
HeadHit(d, ords, ords2) ==
    /\ d # <<>>
    /\ DOMAIN ords2 = DOMAIN ords
    /\ \A x \in Queued(d) : /\ ords2[x].side = ords[x].side
                            /\ ords2[x].price = ords[x].price
                            /\ x # d[1].orders[1] => ords2[x].open = ords[x].open

\* The head of the best level of a ladder that is not empty.
LEMMA BestIs ==
  ASSUME NEW side, NEW d \in Seq(Level), NEW ords, WellFormed(side, d, ords), d # <<>>
  PROVE  /\ Len(d) \in Nat /\ 1 \in 1 .. Len(d) /\ d[1] \in Level
         /\ d[1].orders \in Seq(Nat) /\ d[1].orders # <<>>
         /\ Len(d[1].orders) \in Nat /\ 1 \in 1 .. Len(d[1].orders)
         /\ DOMAIN d[1].orders = 1 .. Len(d[1].orders)
         /\ d[1].orders[1] \in Queued(d)
<1>1. Len(d) \in Nat /\ 1 \in 1 .. Len(d) /\ d[1] \in Level
  <2>1. Len(d) \in Nat /\ Len(d) # 0
    BY EmptySeq
  <2>2. 1 \in 1 .. Len(d)
    BY <2>1
  <2> QED BY <2>1, <2>2
<1>2. d[1].orders \in Seq(Nat) /\ d[1].orders # <<>>
  BY <1>1 DEF WellFormed, WellFormedLevel, Level
<1>3. Len(d[1].orders) \in Nat /\ 1 \in 1 .. Len(d[1].orders)
  <2>1. Len(d[1].orders) \in Nat /\ Len(d[1].orders) # 0
    BY <1>2, EmptySeq
  <2> QED BY <2>1
<1>4. DOMAIN d[1].orders = 1 .. Len(d[1].orders)
  BY <1>2, LenProperties
<1>5. d[1].orders[1] \in Queued(d)
  BY <1>1, <1>3, QueuedIs
<1> QED BY <1>1, <1>2, <1>3, <1>4, <1>5

\* A fill leaves the levels behind the best one as they were.
LEMMA OthersAfterHit ==
  ASSUME NEW side, NEW d \in Seq(Level), NEW ords, NEW ords2, WellFormed(side, d, ords),
         HeadHit(d, ords, ords2)
  PROVE  OthersWellFormed(side, d, 1, ords2)
<1> SUFFICES ASSUME NEW i \in 1 .. Len(d), i # 1
             PROVE  WellFormedLevel(side, d[i], ords2)
  BY DEF OthersWellFormed
<1>1. d # <<>> /\ DOMAIN ords2 = DOMAIN ords
  BY DEF HeadHit
<1>2. 1 \in 1 .. Len(d) /\ 1 \in DOMAIN d[1].orders
  BY <1>1, BestIs
<1>3. d[i] \in Level /\ WellFormedLevel(side, d[i], ords)
  BY DEF WellFormed
<1>4. DOMAIN d[i].orders = 1 .. Len(d[i].orders)
  <2>1. d[i].orders \in Seq(Nat)
    BY <1>3 DEF Level
  <2> QED BY <2>1, LenProperties
<1>5. ASSUME NEW x \in Range(d[i].orders)
      PROVE  /\ ords2[x].side = ords[x].side
             /\ ords2[x].price = ords[x].price
             /\ ords2[x].open > 0
  <2>1. x \in Queued(d)
    BY QueuedByLevel
  <2>2. x # d[1].orders[1]
    <3> SUFFICES ASSUME x = d[1].orders[1] PROVE FALSE
      OBVIOUS
    <3>1. x \in Range(d[1].orders)
      BY <1>2 DEF Range
    <3>2. PICK h \in 1 .. Len(d) : h = 1
      BY <1>2
    <3>3. x \in Range(d[h].orders)
      BY <3>1, <3>2
    <3>4. i = h
      BY <3>3, LevelsDisjoint
    <3> QED BY <3>2, <3>4
  <2>3. ords[x].open > 0
    BY <1>3, <1>4 DEF WellFormedLevel, Range
  <2> QED BY <2>1, <2>2, <2>3 DEF HeadHit
<1> QED BY <1>1, <1>3, <1>5, SameOrdersWellFormedLevel

\* A fill that leaves something of the maker keeps the queues as they are.
LEMMA HitBestLeft ==
  ASSUME NEW side, NEW d \in Seq(Level), NEW ords, NEW ords2, WellFormed(side, d, ords),
         HeadHit(d, ords, ords2), ords2[d[1].orders[1]].open > 0, NEW n \in Int
  PROVE  /\ HitBest(d, n, FALSE) \in Seq(Level)
         /\ WellFormed(side, HitBest(d, n, FALSE), ords2)
         /\ Queued(HitBest(d, n, FALSE)) = Queued(d)
<1> DEFINE m    == d[1].orders[1]
           hit  == [d[1] EXCEPT !.total = Int64(@ - n)]
           e    == HitBest(d, n, FALSE)
           none == {}
<1>1. d # <<>> /\ DOMAIN ords2 = DOMAIN ords
  BY DEF HeadHit
<1>2. /\ Len(d) \in Nat /\ 1 \in 1 .. Len(d) /\ d[1] \in Level
      /\ d[1].orders # <<>> /\ DOMAIN d[1].orders = 1 .. Len(d[1].orders)
  BY <1>1, BestIs
<1>3. hit \in Level /\ hit.price = d[1].price /\ hit.orders = d[1].orders
  <2>0. d[1].total - n \in Int
    BY <1>2 DEF Level
  <2>1. Int64(d[1].total - n) \in Int
    BY <2>0, Int64Type
  <2> QED BY <1>2, <2>1 DEF Level
<1>4. e = [d EXCEPT ![1] = hit]
  <2>1. Head([d EXCEPT ![1] = hit]) = hit
    BY <1>2
  <2> QED BY <1>2, <1>3, <2>1 DEF HitBest, DropBestIfEmpty
<1>5. WellFormedLevel(side, hit, ords2)
  <2>1. WellFormedLevel(side, d[1], ords)
    BY <1>2 DEF WellFormed
  <2>2. ASSUME NEW x \in Range(d[1].orders)
        PROVE  /\ ords2[x].side = ords[x].side
               /\ ords2[x].price = ords[x].price
               /\ ords2[x].open > 0
    <3>1. x \in Queued(d)
      BY <1>2, QueuedByLevel
    <3>2. ords[x].open > 0
      BY <1>2, <2>1 DEF WellFormedLevel, Range
    <3> QED BY <3>1, <3>2 DEF HeadHit
  <2>3. WellFormedLevel(side, d[1], ords2)
    BY <1>1, <1>2, <2>1, <2>2, SameOrdersWellFormedLevel
  <2> HIDE DEF hit
  <2> QED BY <1>3, <2>3 DEF WellFormedLevel
<1> HIDE DEF hit, e
<1>6. LevelReplaced(d, e, 1, hit, none)
  BY <1>3, <1>4 DEF LevelReplaced
<1>7. OthersWellFormed(side, d, 1, ords2)
  BY OthersAfterHit
<1> HIDE DEF none
<1>8. e \in Seq(Level)
  BY <1>2, <1>3, <1>5, <1>6, <1>7, LevelReplacedWellFormed
<1>9. WellFormed(side, e, ords2)
  BY <1>2, <1>3, <1>5, <1>6, <1>7, LevelReplacedWellFormed
<1>10. Queued(e) = Queued(d) \ none
  BY <1>2, <1>3, <1>5, <1>6, <1>7, LevelReplacedWellFormed
<1> QED BY <1>8, <1>9, <1>10 DEF e, none

\* A fill that spends the maker takes it, and the level it drains, off the ladder.
LEMMA HitBestSpent ==
  ASSUME NEW side, NEW d \in Seq(Level), NEW ords, NEW ords2, WellFormed(side, d, ords),
         HeadHit(d, ords, ords2), NEW n \in Int
  PROVE  /\ HitBest(d, n, TRUE) \in Seq(Level)
         /\ WellFormed(side, HitBest(d, n, TRUE), ords2)
         /\ Queued(HitBest(d, n, TRUE)) = Queued(d) \ {d[1].orders[1]}
<1> DEFINE m    == d[1].orders[1]
           q    == d[1].orders
           rest == PopFront([d[1] EXCEPT !.total = Int64(@ - n)])
           e    == HitBest(d, n, TRUE)
           gone == {m}
<1>1. d # <<>> /\ DOMAIN ords2 = DOMAIN ords
  BY DEF HeadHit
<1>2. /\ Len(d) \in Nat /\ 1 \in 1 .. Len(d) /\ d[1] \in Level
      /\ q \in Seq(Nat) /\ q # <<>> /\ Len(q) \in Nat /\ 1 \in 1 .. Len(q)
      /\ DOMAIN q = 1 .. Len(q)
  BY <1>1, BestIs
<1>3. /\ Tail(q) \in Seq(Nat) /\ Len(Tail(q)) = Len(q) - 1
      /\ \A i \in 1 .. Len(q) - 1 : Tail(q)[i] = q[i+1]
  BY <1>2, HeadTailProperties
<1>4. rest \in Level /\ rest.price = d[1].price /\ rest.orders = Tail(q)
  <2>0. d[1].total - n \in Int
    BY <1>2 DEF Level
  <2>1. Int64(d[1].total - n) \in Int
    BY <2>0, Int64Type
  <2> QED BY <1>2, <1>3, <2>1 DEF Level, PopFront
<1>5. e = IF rest.orders = <<>> THEN Tail([d EXCEPT ![1] = rest]) ELSE [d EXCEPT ![1] = rest]
  <2>1. Head([d EXCEPT ![1] = rest]) = rest /\ [d EXCEPT ![1] = rest] # <<>>
    BY <1>2, SMTT(30)
  <2> QED BY <2>1 DEF HitBest, DropBestIfEmpty
<1> HIDE DEF rest, e
<1>6. QueueShrunk(q, rest.orders, 1)
  <2> HIDE DEF q
  <2>1. \A i \in 1 .. Len(q) - 1 : ~(i < 1) /\ rest.orders[i] = q[i+1]
    BY <1>2, <1>3, <1>4
  <2> QED BY <1>2, <1>3, <1>4, <2>1 DEF QueueShrunk
<1>7. OthersWellFormed(side, d, 1, ords2)
  BY OthersAfterHit
<1>8. WellFormedLevel(side, d[1], ords)
  BY <1>2 DEF WellFormed
<1>9. ArrivalOrder(q)
  BY <1>8 DEF WellFormedLevel, ArrivalOrder
<1>10. Range(rest.orders) = Range(q) \ {m}
  <2> HIDE DEF q
  <2>1. rest.orders \in Seq(Nat)
    BY <1>3, <1>4
  <2>2. Range(rest.orders) = Range(q) \ {q[1]}
    BY <1>2, <2>1, <1>6, <1>9, QueueShrunkIs
  <2> QED BY <2>2 DEF q
<1>11. m \in Range(q)
  BY <1>2 DEF Range
<1>12. CASE rest.orders = <<>>
  <2>1. e = Tail([d EXCEPT ![1] = rest])
    BY <1>5, <1>12
  <2>2. LevelDropped(d, e, 1)
    <3>1. /\ [d EXCEPT ![1] = rest] \in Seq(Level) /\ Len([d EXCEPT ![1] = rest]) = Len(d)
          /\ \A i \in 1 .. Len(d) : [d EXCEPT ![1] = rest][i] = IF i = 1 THEN rest ELSE d[i]
      BY <1>2, <1>4, ExceptSeq
    <3>2. [d EXCEPT ![1] = rest] # <<>>
      BY <1>2, <3>1
    <3> DEFINE f == [d EXCEPT ![1] = rest]
    <3> HIDE DEF f
    <3>3. /\ Tail(f) \in Seq(Level) /\ Len(Tail(f)) = Len(f) - 1
          /\ \A i \in 1 .. Len(f) - 1 : Tail(f)[i] = f[i+1]
      BY <3>1, <3>2, HeadTailProperties DEF f
    <3>4. \A i \in 1 .. Len(d) - 1 : f[i+1] = d[i+1]
      BY <1>2, <3>1 DEF f
    <3> QED BY <1>2, <2>1, <3>1, <3>3, <3>4 DEF LevelDropped, f
  <2>3. Range(q) = gone
    <3>1. Range(<<>>) = {}
      BY DEF Range
    <3> QED BY <1>10, <1>11, <1>12, <3>1
  <2>4. e \in Seq(Level)
    BY <2>2 DEF LevelDropped
  <2>5. WellFormed(side, e, ords2)
    BY <1>2, <1>7, <2>2, LevelDroppedWellFormed
  <2>6. Queued(e) = Queued(d) \ Range(d[1].orders)
    <3>1. 1 \in 1 .. Len(d)
      BY <1>2
    <3> HIDE DEF gone, q, m
    <3> QED BY <3>1, <1>7, <2>2, LevelDroppedWellFormed
  <2> QED BY <2>3, <2>4, <2>5, <2>6 DEF e
<1>13. CASE rest.orders # <<>>
  <2>1. e = [d EXCEPT ![1] = rest]
    BY <1>5, <1>13
  <2>2. LevelReplaced(d, e, 1, rest, gone)
    BY <1>4, <1>10, <1>11, <2>1 DEF LevelReplaced
  <2>3. WellFormedLevel(side, rest, ords2)
    <3>1. ASSUME NEW x \in Range(rest.orders)
          PROVE  /\ ords2[x].side = ords[x].side
                 /\ ords2[x].price = ords[x].price
                 /\ ords2[x].open > 0
      <4>1. x \in Range(q) /\ x # m
        BY <1>10
      <4>2. x \in Queued(d)
        BY <1>2, <4>1, QueuedByLevel
      <4>3. ords[x].open > 0
        BY <1>2, <1>8, <4>1 DEF WellFormedLevel, Range
      <4> QED BY <4>1, <4>2, <4>3 DEF HeadHit
    <3> QED BY <1>1, <1>2, <1>4, <1>6, <1>8, <1>13, <3>1, QueueShrunkWellFormed
  <2> HIDE DEF gone
  <2>4. e \in Seq(Level)
    BY <1>2, <1>4, <1>7, <2>2, <2>3, LevelReplacedWellFormed
  <2>5. WellFormed(side, e, ords2)
    BY <1>2, <1>4, <1>7, <2>2, <2>3, LevelReplacedWellFormed
  <2>6. Queued(e) = Queued(d) \ gone
    BY <1>2, <1>4, <1>7, <2>2, <2>3, LevelReplacedWellFormed
  <2> QED BY <2>4, <2>5, <2>6 DEF e, gone
<1> QED BY <1>12, <1>13

-----------------------------------------------------------------------------
(* What a well formed ladder says of the orders queued on it *)

\* Whoever rests on a well-formed ladder is on its side and has something left.
LEMMA QueuedOrdersAre ==
  ASSUME NEW side, NEW d \in Seq(Level), NEW ords, WellFormed(side, d, ords),
         NEW x \in Queued(d)
  PROVE  x \in DOMAIN ords /\ ords[x].side = side /\ ords[x].open > 0 /\ d # <<>>
<1>1. PICK i \in 1 .. Len(d) : \E j \in 1 .. Len(d[i].orders) : d[i].orders[j] = x
  BY QueuedIs
<1>2. d # <<>>
  BY <1>1
<1> QED BY <1>1, <1>2 DEF WellFormed, WellFormedLevel

\* The head of the best level comes before every other order on the ladder, by
\* price and then by age, and trades at the price of its level.
LEMMA BestIsFirst ==
  ASSUME NEW side, NEW d \in Seq(Level), NEW ords, WellFormed(side, d, ords), d # <<>>
  PROVE  /\ ords[d[1].orders[1]].price = d[1].price
         /\ \A x \in Queued(d) : x # d[1].orders[1] =>
               \/ Better(side, d[1].price, ords[x].price)
               \/ d[1].price = ords[x].price /\ d[1].orders[1] < x
<1>1. 1 \in 1 .. Len(d) /\ 1 \in 1 .. Len(d[1].orders) /\ Len(d) \in Nat
  BY BestIs
<1>2. ords[d[1].orders[1]].price = d[1].price
  BY <1>1 DEF WellFormed, WellFormedLevel
<1>3. ASSUME NEW x \in Queued(d), x # d[1].orders[1]
      PROVE  \/ Better(side, d[1].price, ords[x].price)
             \/ d[1].price = ords[x].price /\ d[1].orders[1] < x
  <2>1. PICK i \in 1 .. Len(d) : \E j \in 1 .. Len(d[i].orders) : d[i].orders[j] = x
    BY QueuedIs
  <2>2. ords[x].price = d[i].price
    BY <2>1 DEF WellFormed, WellFormedLevel
  <2>3. CASE i = 1
    <3>0. PICK j \in 1 .. Len(d[i].orders) : d[i].orders[j] = x
      BY <2>1
    <3>1. Len(d[1].orders) \in Nat /\ j \in 1 .. Len(d[1].orders) /\ j # 1
      BY <1>3, <2>3, <3>0, BestIs
    <3>2. 1 < j
      BY <3>1
    <3>3. d[1].orders[1] < d[1].orders[j]
      BY <1>1, <3>1, <3>2 DEF WellFormed, WellFormedLevel
    <3> QED BY <2>2, <2>3, <3>0, <3>3
  <2>4. CASE i # 1
    <3>1. 1 < i
      BY <1>1, <2>4
    <3>2. Better(side, d[1].price, d[i].price)
      BY <1>1, <3>1 DEF WellFormed
    <3> QED BY <2>2, <3>2
  <2> QED BY <2>3, <2>4
<1> QED BY <1>2, <1>3

\* Two heaps that agree on the orders of a ladder.
HeapsAgree(d, ords, ords2) ==
    /\ DOMAIN ords \subseteq DOMAIN ords2
    /\ \A x \in Queued(d) : /\ ords2[x].side = ords[x].side
                            /\ ords2[x].price = ords[x].price
                            /\ ords2[x].open = ords[x].open

\* A ladder that is well formed over one heap is so over any that agrees on its orders.
LEMMA HeapsAgreeWellFormed ==
  ASSUME NEW side, NEW d \in Seq(Level), NEW ords, NEW ords2, WellFormed(side, d, ords),
         HeapsAgree(d, ords, ords2)
  PROVE  WellFormed(side, d, ords2)
<1>1. \A i \in 1 .. Len(d) : \A j \in 1 .. Len(d[i].orders) : d[i].orders[j] \in Queued(d)
  BY QueuedIs
<1> QED BY <1>1 DEF WellFormed, WellFormedLevel, HeapsAgree
=============================================================================
