-------------------------------- MODULE Book --------------------------------
(***************************************************************************)
(* The matching engine (internal/engine): one book, one command at a time. *)
(*                                                                         *)
(* Book.Apply is called by a single goroutine, so its calls never overlap; *)
(* but a submit that crosses is a loop of fills, and what the loop does to *)
(* the ladders between two fills is where price-time priority is won or    *)
(* lost.  The model therefore cuts Apply(Submit) at the head of the loop:  *)
(* AcceptSubmit runs up to it, each Fill is one trip around it, and Finish *)
(* is everything after it.  A rejected submit and a cancel are one step.   *)
(*                                                                         *)
(* The heap "order" is the sequence of every order ever accepted: position *)
(* i is the *Order with ID i, nextID is Len(order), and the queues of the  *)
(* ladders and the index hold ids where the code holds pointers.  An order *)
(* neither structure reaches any more is garbage; nothing reads it.        *)
(***************************************************************************)
EXTENDS Ladder, Invariant

CONSTANTS
    Prices,      \* the prices a Submit may carry, good and bad
    Qtys,        \* the quantities a Submit may carry, good and bad
    Depth,       \* the price levels a side that a Snapshot shows
    MaxCommands  \* a bound on the run: the commands applied

ASSUME CommandAssumption ==
    /\ Prices \subseteq Int64s /\ Qtys \subseteq Int64s /\ MaxCommands \in Nat
    /\ Depth \in Nat \ {0}

VARIABLES
    ladder,  \* bids and asks: a sequence of levels for each side
    order,   \* the heap of orders, by id
    index,   \* the ids of the orders in b.index
    seq,     \* commands applied so far; an order's arrival ordinal
    lastTrade, \* the last trade ever executed, <<>> before the first
    led,     \* the ledger folded from the emitted events
    pc,      \* "idle" between commands, "sweep" at the head of the match loop
    pre,     \* local to Apply: the frontiers photographed before the command
    fills,   \* local to Apply: the trades of this command, for the checker
    result   \* the Result of the last command: its events, its report

vars == <<ladder, order, index, seq, lastTrade, led, pc, pre, fills, result>>

Order == [session : Sessions, side : Sides, price : Int64s, qty : Int64s,
          open : Int64s, seq : Nat]

\* The events of the engine.  Of a Traded, a Rested and a Canceled only what is
\* not read off the orders they name is kept.
Event ==
    [type : {"accepted"}, id : Nat, session : Sessions, side : Sides,
     price : Int64s, open : Int64s]
    \cup [type : {"rejected"}, session : Sessions, reason : RejectReasons]
    \cup [type : {"traded"}, price : Int64s, qty : Int64s, taker : Nat, maker : Nat,
          makerLeft : Int64s]
    \cup [type : {"rested"}, id : Nat, open : Int64s]
    \cup [type : {"canceled"}, id : Nat, session : Sessions, released : Int64s]

\* A trade as the checker is told of it.
Trade == [price : Int64s, qty : Int64s, makerSeq : Nat, makerLeft : Int64s]

\* During a sweep the taker is the youngest order of the heap.
Taker == Len(order)
Opp == ladder[Opposite(order[Taker].side)]

\* frontier photographs the head of the best level.
Frontier(d) ==
    IF d = <<>> \/ d[1].orders = <<>> THEN NoFrontier
    ELSE [empty |-> FALSE, price |-> d[1].price, headSeq |-> order[Head(d[1].orders)].seq]

NoFrontiers == [s \in Sides |-> NoFrontier]

\* All that the read-only window shows the checker of ladder d over heap ords.
View(d, ords) ==
    [i \in DOMAIN d |->
        [price  |-> d[i].price,
         orders |-> [j \in DOMAIN d[i].orders |->
                        LET o == ords[d[i].orders[j]] IN [seq |-> o.seq, open |-> o.open]]]]

\* What the outside world sees of the book: its best levels, aggregated, and the
\* running totals.  The resting total is summed from the cached totals.
Snapshot ==
    [seq       |-> seq,
     levels    |-> [s \in Sides |->
                      [i \in 1 .. (IF Len(ladder[s]) < Depth THEN Len(ladder[s]) ELSE Depth) |->
                         [price  |-> ladder[s][i].price,
                          qty    |-> ladder[s][i].total,
                          orders |-> Len(ladder[s][i].orders)]]],
     lastTrade |-> lastTrade,
     submitted |-> led.submitted,
     resting   |-> [s \in Sides |->
                      Int64(SumFunction([i \in DOMAIN ladder[s] |-> ladder[s][i].total]))],
     filled    |-> led.filled,
     canceled  |-> led.canceled]

\* The check on the way out of Apply, on the book as the command leaves it.
Report(taker) ==
    Check([book   |-> [s \in Sides |-> View(ladder'[s], order')],
           ledger |-> led',
           pre    |-> pre,
           fills  |-> fills,
           taker  |-> taker])

Init ==
    /\ ladder = [s \in Sides |-> <<>>]
    /\ order = <<>>
    /\ index = {}
    /\ seq = 0
    /\ lastTrade = <<>>
    /\ led = EmptyLedger
    /\ pc = "idle"
    /\ pre = NoFrontiers
    /\ fills = <<>>
    /\ result = [events |-> <<>>, report |-> {}]

-----------------------------------------------------------------------------
(* Apply(Submit) *)

\* The prologue of Apply, shared by every command.
Begin ==
    /\ pc = "idle"
    /\ seq < MaxCommands
    /\ seq' = seq + 1

\* A command that matched nothing returns one event and a fresh report.
Return(event) ==
    /\ result' = [events |-> <<event>>, report |-> Report(NoTaker)]
    /\ UNCHANGED <<lastTrade, pc, pre, fills>>

Reject(session, reason) ==
    /\ UNCHANGED <<ladder, order, index, led>>
    /\ Return([type |-> "rejected", session |-> session, reason |-> reason])

RejectSubmit(session, price, qty) ==
    /\ Begin
    /\ qty <= 0 \/ price <= 0
    /\ Reject(session, IF qty <= 0 THEN "BAD_QUANTITY" ELSE "BAD_PRICE")

AcceptSubmit(session, side, price, qty) ==
    LET o == [session |-> session, side |-> side, price |-> price,
              qty |-> qty, open |-> qty, seq |-> seq + 1]
    IN  /\ Begin
        /\ qty > 0 /\ price > 0
        /\ order' = Append(order, o)
        /\ led' = LedgerAccept(led, side, qty)
        /\ pre' = [s \in Sides |-> Frontier(ladder[s])]
        /\ result' = [events |-> <<[type |-> "accepted", id |-> Len(order) + 1, session |-> session,
                                    side |-> side, price |-> price, open |-> qty]>>,
                      report |-> {}]
        /\ pc' = "sweep"
        /\ UNCHANGED <<ladder, index, lastTrade, fills>>

\* A plausible bug: equal prices do not trade.
CrossesStrictly(side, takerPrice, restingPrice) ==
    IF side = Buy THEN takerPrice > restingPrice ELSE takerPrice < restingPrice

Crosses(side, takerPrice, restingPrice) ==
    IF side = Buy THEN takerPrice >= restingPrice ELSE takerPrice <= restingPrice

\* The condition of the match loop.
CanFill ==
    /\ order[Taker].open > 0
    /\ Opp # <<>>
    /\ Crosses(order[Taker].side, order[Taker].price, Opp[1].price)

\* A plausible bug: the sign of the fill is lost.
FillQtyNegated(taker, maker) == IF maker.open < taker.open THEN -maker.open ELSE -taker.open

FillQty(taker, maker) == IF maker.open < taker.open THEN maker.open ELSE taker.open

\* One trip around the inner loop: fill against the head of the best level, pop
\* it when it is spent, and drop the level when it is drained.
Fill ==
    LET side  == order[Taker].side
        lv    == Opp[1]
        maker == lv.orders[1]
        n     == FillQty(order[Taker], order[maker])
        left  == order[maker].open - n
        trade == [type |-> "traded", price |-> lv.price, qty |-> n,
                  taker |-> Taker, maker |-> maker, makerLeft |-> left]
    IN  /\ pc = "sweep"
        /\ CanFill
        /\ lv.orders # <<>>   \* levels never linger empty, or the loop would skip one here
        /\ order' = [order EXCEPT ![maker].open = @ - n, ![Taker].open = @ - n]
        /\ ladder' = [ladder EXCEPT ![Opposite(side)] = HitBest(@, n, left = 0)]
        /\ index' = IF left = 0 THEN index \ {maker} ELSE index
        /\ led' = LedgerFill(led, n, lv.price)
        /\ fills' = Append(fills, [price |-> lv.price, qty |-> n,
                                   makerSeq |-> order[maker].seq, makerLeft |-> left])
        /\ lastTrade' = trade
        /\ result' = [result EXCEPT !.events = Append(@, trade)]
        /\ UNCHANGED <<seq, pc, pre>>

\* The loop is over: rest the remainder, check the book, return.
Finish ==
    LET o      == order[Taker]
        rested == [type |-> "rested", id |-> Taker, open |-> o.open]
        taker  == [present |-> TRUE, side |-> o.side, price |-> o.price, left |-> o.open]
    IN  /\ pc = "sweep"
        /\ ~CanFill
        /\ IF o.open > 0
           THEN /\ ladder' = [ladder EXCEPT ![o.side] =
                                 Insert(o.side, @, o.price, Taker, o.open)]
                /\ index' = index \cup {Taker}
           ELSE UNCHANGED <<ladder, index>>
        /\ UNCHANGED <<order, seq, lastTrade, led>>
        /\ result' = [events |-> IF o.open > 0 THEN Append(result.events, rested)
                                               ELSE result.events,
                      report |-> Report(taker)]
        /\ pc' = "idle"
        /\ pre' = NoFrontiers
        /\ fills' = <<>>

-----------------------------------------------------------------------------
(* Apply(Cancel) *)

\* A plausible bug: anyone may cancel.
CancelRefusalOfNobody(session, id) ==
    IF id \notin index \/ ~Holds(ladder[order[id].side], order[id].price, id)
    THEN "UNKNOWN_ORDER" ELSE "NONE"

\* Why Apply refuses to cancel, "NONE" when it does not.
CancelRefusal(session, id) ==
    IF id \notin index THEN "UNKNOWN_ORDER"
    ELSE IF order[id].session # session THEN "NOT_OWNER"
    ELSE IF ~Holds(ladder[order[id].side], order[id].price, id) THEN "UNKNOWN_ORDER"
    ELSE "NONE"

RejectCancel(session, id) ==
    /\ Begin
    /\ CancelRefusal(session, id) # "NONE"
    /\ Reject(session, CancelRefusal(session, id))

CancelOrder(session, id) ==
    /\ Begin
    /\ CancelRefusal(session, id) = "NONE"
    /\ LET o == order[id]
       IN  /\ ladder' = [ladder EXCEPT ![o.side] = RemoveOrder(@, o.price, id, o.open)]
           /\ index' = index \ {id}
           /\ led' = LedgerCancel(led, o.side, o.open)
           /\ UNCHANGED order
           /\ Return([type |-> "canceled", id |-> id, session |-> session,
                      released |-> o.open])

-----------------------------------------------------------------------------

Next ==
    \/ \E s \in Sessions, p \in Prices, q \in Qtys :
         \/ RejectSubmit(s, p, q)
         \/ \E side \in Sides : AcceptSubmit(s, side, p, q)
    \/ Fill
    \/ Finish
    \/ \E s \in Sessions, id \in 1 .. MaxCommands :
         \/ RejectCancel(s, id)
         \/ CancelOrder(s, id)

Spec == Init /\ [][Next]_vars

\* Apply is plain code with no blocking call in it: once inside, it runs on.
\* Nothing obliges a client to send another command.
FairSpec == Spec /\ WF_vars(Fill) /\ WF_vars(Finish)

-----------------------------------------------------------------------------
(* Properties *)

\* The ids resting on either side, and where an order stands in priority: the
\* better price first, then the earlier arrival.
Resting == {id \in DOMAIN order : \E s \in Sides : id \in Queued(ladder[s])}

Before(a, b) ==
    \/ Better(order[a].side, order[a].price, order[b].price)
    \/ order[a].price = order[b].price /\ order[a].seq < order[b].seq

\* The sum of the open quantities of a queue of ids.
OpenOf(queue) == SumFunction([j \in DOMAIN queue |-> order[queue[j]].open])

TypeOK ==
    /\ ladder \in [Sides -> Seq(Level)]
    /\ order \in Seq(Order)
    /\ index \subseteq DOMAIN order
    /\ seq \in Nat
    /\ led \in [{"submitted", "filled", "canceled", "notional"} -> [Sides -> Int]]
    /\ pc \in {"idle", "sweep"}
    /\ pc = "sweep" => order # <<>>
    /\ lastTrade \in {<<>>} \cup Event
    /\ pre \in [Sides -> [empty : BOOLEAN, price : Int64s, headSeq : Nat]]
    /\ fills \in Seq(Trade)
    /\ result \in [events : Seq(Event), report : SUBSET Kinds]

\* The ladders and the index always agree, in the middle of a sweep too: an id
\* is indexed exactly when it is queued, it is queued once, at its own price and
\* on its own side, with something left to fill.  Book.cancel trusts the index
\* to find the order and the ladder to give it up (book.go:132-150).
IndexMatchesLadder ==
    /\ index = Resting
    /\ \A s \in Sides : \A i \in DOMAIN ladder[s] :
         \A j \in DOMAIN ladder[s][i].orders :
            LET id == ladder[s][i].orders[j]
            IN  /\ order[id].side = s
                /\ order[id].price = ladder[s][i].price
                /\ order[id].open > 0
                /\ \A k \in DOMAIN ladder[s] : \A l \in DOMAIN ladder[s][k].orders :
                     ladder[s][k].orders[l] = id => k = i /\ l = j

\* No bid is at or above an ask, even while a sweep is under way.
NotCrossed ==
    \A b, a \in index :
        order[b].side = Buy /\ order[a].side = Sell => order[b].price < order[a].price

\* What every step relies on and keeps, and the other invariants follow from: the
\* queues in arrival order and at home, the levels best-first, ids handed out in
\* arrival order, and the order that is matching on no ladder yet.  Apply reads
\* levels[0].orders[0] as the best order of a side (match.go:34-43) and crosses
\* nothing that rests: both lean on all of this at once.
LaddersWellFormed == \A s \in Sides : WellFormed(s, ladder[s], order)

IdsInArrivalOrder ==
    /\ \A a, b \in DOMAIN order : a < b => order[a].seq < order[b].seq
    /\ \A a \in DOMAIN order : order[a].seq <= seq

TakerApart == pc = "sweep" => Taker \notin index /\ order[Taker].open >= 0

Inductive ==
    /\ TypeOK
    /\ LaddersWellFormed
    /\ IdsInArrivalOrder
    /\ index = Resting
    /\ TakerApart
    /\ NotCrossed

\* The cached total of a level, which no check ever sees and the snapshot
\* publishes, is the sum of the queue under it (ladder.go:11).
TotalsHonest ==
    \A s \in Sides : \A i \in DOMAIN ladder[s] :
        ladder[s][i].total = Int64(OpenOf(ladder[s][i].orders))

\* What is published after a command adds up: on each side the resting quantity,
\* summed from totals the checker never reads, with what was filled and what was
\* canceled, is what was submitted.
SnapshotAddsUp ==
    pc = "idle" =>
        \A s \in Sides :
            Snapshot.submitted[s] =
                Int64(Snapshot.resting[s] + Snapshot.filled[s] + Snapshot.canceled[s])

\* The checker never condemns this matcher: every report is clean, which is what
\* keeps the runner from halting the market (runner.go:207-216).
NoFalseHalt == result.report = {}

\* At every fill of a sweep, not only between commands, each side's accepted
\* quantity is what rests, what the taker still carries, what was filled and
\* what was canceled.
ConservedMidSweep ==
    \A s \in Sides :
        LET live == index \cup (IF pc = "sweep" THEN {Taker} ELSE {})
            held == SumFunctionOnSet([id \in DOMAIN order |-> order[id].open],
                                     {id \in live : order[id].side = s})
        IN  led.submitted[s] = Int64(held + led.filled[s] + led.canceled[s])

\* What the checker will be told of a sweep (match.go:35-65, priority.go) is true
\* all along it: the fills so far start at the frontier photographed before the
\* command, go through the opposite side in strict priority order within the
\* taker's limit, agree with what the heap holds of their makers, and stand before
\* whatever still rests there.  Between commands there is nothing to tell.
Follows(side, f, price, arrival) ==
    \/ Better(side, f.price, price)
    \/ f.price = price /\ f.makerSeq < arrival

Told(f) ==
    \E m \in DOMAIN order :
        /\ m # Taker /\ order[m].seq = f.makerSeq
        /\ order[m].open = f.makerLeft /\ f.makerLeft >= 0
        /\ m \in index <=> f.makerLeft > 0
        /\ f.makerLeft > 0 => order[Taker].open = 0

SweepInOrder ==
    IF pc = "idle" THEN fills = <<>>
    ELSE LET o == order[Taker]
             s == Opposite(o.side)
         IN  IF fills = <<>> THEN pre[s] = Frontier(Opp)
             ELSE /\ ~ pre[s].empty
                  /\ fills[1].makerSeq = pre[s].headSeq /\ fills[1].price = pre[s].price
                  /\ \A i \in 2 .. Len(fills) :
                       Follows(s, fills[i-1], fills[i].price, fills[i].makerSeq)
                  /\ \A i \in 1 .. Len(fills) :
                       fills[i].qty > 0 /\ Crosses(o.side, o.price, fills[i].price) /\ Told(fills[i])
                  /\ o.open > 0 =>
                       \A x \in index : order[x].side = s =>
                          Follows(s, fills[Len(fills)], order[x].price, order[x].seq)

\* Every fill takes the one order that stands first among all the orders resting
\* on the other side, at that order's price and within the taker's limit
\* (match.go:35-65).
FillTakesBest ==
    \A m \in index :
        pc = "sweep" /\ order'[m].open < order[m].open =>
            /\ order[m].side = Opposite(order[Taker].side)
            /\ \A k \in index \ {m} : order[k].side = order[m].side => Before(m, k)
            /\ Crosses(order[Taker].side, order[Taker].price, order[m].price)
            /\ fills'[Len(fills')].price = order[m].price

FillsBestMaker == [][FillTakesBest]_vars

\* Between two orders at one price, nothing that happens to the rest of the book,
\* a cancel in the middle of the queue included, changes who is ahead
\* (ladder.go:14-36).
QueuesKeepOrder ==
    \A s \in Sides : \A i \in DOMAIN ladder[s], i2 \in DOMAIN ladder'[s] :
        LET q == ladder[s][i].orders
            r == ladder'[s][i2].orders
        IN  \A a, b \in DOMAIN q : \A a2, b2 \in DOMAIN r :
               q[a] = r[a2] /\ q[b] = r[b2] /\ a < b => a2 < b2

NoQueueJump == [][QueuesKeepOrder]_vars

\* An order leaves the book filled to the last share or released to the very
\* session that placed it, never otherwise (book.go:132-157, match.go:78-81).
LeavesProperly ==
    \A id \in index \ index' :
        \/ order'[id].open = 0
        \/ /\ order'[id].open = order[id].open
           /\ \E i \in DOMAIN result'.events :
                LET e == result'.events[i]
                IN  /\ e.type = "canceled" /\ e.id = id
                    /\ e.session = order[id].session
                    /\ e.released = order[id].open

LeavesFilledOrReleased == [][LeavesProperly]_vars

\* The market of PriceTime that this book stands for.
MarketOrder(id) ==
    [id |-> id, session |-> order[id].session, side |-> order[id].side,
     price |-> order[id].price, open |-> order[id].open]

Market == INSTANCE PriceTime WITH
    resting  <- {MarketOrder(id) : id \in index},
    incoming <- IF pc = "sweep" THEN {MarketOrder(Taker)} ELSE {},
    arrivals <- Len(order),
    said     <- IF result.events = <<>> THEN <<>> ELSE Last(result.events)

\* The ladders, the index and the loop implement price-time priority, event by
\* event: one step of the engine is one step of the market.
ImplementsPriceTime == Market!Spec

\* A sweep comes to an end: Apply returns.
ApplyReturns == pc = "sweep" ~> pc = "idle"
=============================================================================
