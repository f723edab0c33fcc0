------------------------------- MODULE Ladder -------------------------------
(***************************************************************************)
(* One side of the book (internal/engine/ladder.go): a slice of price      *)
(* levels held best-first, each with the FIFO queue of the orders resting  *)
(* at that price and a cached total of their open quantity.                *)
(*                                                                         *)
(* A ladder is a sequence of levels.  The queue of a level holds order     *)
(* ids, which stand for the *Order pointers of the code: the orders        *)
(* themselves live in the heap of module Book.  The operators below are    *)
(* the methods of the code as functions from the old ladder to the new.    *)
(***************************************************************************)
EXTENDS Types, SequencesExt

\* A level of the ladder; total is the sum the engine maintains and never
\* shows to the checker.
Level == [price : Int, orders : Seq(Nat), total : Int]

EmptyLevel(price) == [price |-> price, orders |-> <<>>, total |-> 0]

\* A plausible bug: the newcomer is put at the head of the queue.
PushAtHead(lv, id, open) ==
    [lv EXCEPT !.orders = <<id>> \o @, !.total = Int64(@ + open)]

\* Push joins the back of the queue: the only way in.
Push(lv, id, open) ==
    [lv EXCEPT !.orders = Append(@, id), !.total = Int64(@ + open)]

\* PopFront drops the filled head; its open quantity is already out of total.
PopFront(lv) == [lv EXCEPT !.orders = Tail(@)]

\* Plausible bugs: the head leaves in place of the order that was named; the hole
\* is filled with the last of the queue; the cached total is forgotten.
RemoveHead(lv, id, open) ==
    [lv EXCEPT !.orders = Tail(@), !.total = Int64(@ - open)]

RemoveBySwap(lv, id, open) ==
    LET q == lv.orders
        filled == [q EXCEPT ![SelectInSeq(q, LAMBDA e : e = id)] = Last(q)]
    IN  [lv EXCEPT !.orders = Front(filled), !.total = Int64(@ - open)]

RemoveKeepingTotal(lv, id, open) == [lv EXCEPT !.orders = RemoveFirst(@, id)]

\* Remove takes an order out of the middle of the queue (a cancel).
RemoveFromLevel(lv, id, open) ==
    [lv EXCEPT !.orders = RemoveFirst(@, id), !.total = Int64(@ - open)]

\* A plausible bug: both sides sorted the way bids are.
BetterIsHigher(side, a, b) == a > b

\* Does price a come before price b on this side?
Better(side, a, b) == IF side = Buy THEN a > b ELSE a < b

\* A plausible bug: the scan looks for this price only, so a new level goes last.
InsertStopAtPrice(side, d, price) == SelectInSeq(d, LAMBDA lv : lv.price = price)

\* The scan of insert stops at the first level with this price or a worse one;
\* 0 when every level is better.
InsertStop(side, d, price) ==
    SelectInSeq(d, LAMBDA lv : lv.price = price \/ Better(side, price, lv.price))

\* Join the level of this price, or create it where it keeps the order.
Insert(side, d, price, id, open) ==
    LET stop  == InsertStop(side, d, price)
        fresh == Push(EmptyLevel(price), id, open)
    IN  IF stop = 0 THEN Append(d, fresh)
        ELSE IF d[stop].price = price
             THEN [d EXCEPT ![stop] = Push(@, id, open)]
             ELSE InsertAt(d, stop, fresh)

\* A plausible bug: nobody drops the level.
KeepBest(d) == d

\* A drained best level must not linger.
DropBestIfEmpty(d) ==
    IF d # <<>> /\ Head(d).orders = <<>> THEN Tail(d) ELSE d

\* A plausible bug: the cached total is not told of the fill.
HitBestKeepingTotal(d, n, spent) ==
    DropBestIfEmpty([d EXCEPT ![1] = IF spent THEN PopFront(@) ELSE @])

\* A fill of n against the head of the best level, which leaves when it is spent.
HitBest(d, n, spent) ==
    LET hit == [d[1] EXCEPT !.total = Int64(@ - n)]
    IN  DropBestIfEmpty([d EXCEPT ![1] = IF spent THEN PopFront(hit) ELSE hit])

\* The first level with this price, 0 when there is none.
LevelAt(d, price) == SelectInSeq(d, LAMBDA lv : lv.price = price)

\* removeOrder returns false exactly when this does not hold.
Holds(d, price, id) ==
    LevelAt(d, price) # 0 /\ Contains(d[LevelAt(d, price)].orders, id)

\* removeOrder, when Holds(d, price, id): a level it drains goes with the order.
RemoveOrder(d, price, id, open) ==
    LET i    == LevelAt(d, price)
        left == RemoveFromLevel(d[i], id, open)
    IN  IF left.orders = <<>> THEN RemoveAt(d, i) ELSE [d EXCEPT ![i] = left]

\* The order the queues and the slice of levels keep, which matching relies on
\* and no check inside it enforces: each queue in arrival order, never empty, its
\* orders at home in their level and alive; the levels strictly best-first.
WellFormedLevel(side, lv, ords) ==
    /\ lv.orders # <<>>
    /\ \A j, k \in 1 .. Len(lv.orders) : j < k => lv.orders[j] < lv.orders[k]
    /\ \A j \in 1 .. Len(lv.orders) :
         LET id == lv.orders[j]
         IN  /\ id \in DOMAIN ords
             /\ ords[id].side = side
             /\ ords[id].price = lv.price
             /\ ords[id].open > 0

WellFormed(side, d, ords) ==
    /\ \A i, j \in 1 .. Len(d) : i < j => Better(side, d[i].price, d[j].price)
    /\ \A i \in 1 .. Len(d) : WellFormedLevel(side, d[i], ords)

\* The ids queued anywhere on the ladder.
Queued(d) == UNION {Range(d[i].orders) : i \in DOMAIN d}
=============================================================================
