----------------------------- MODULE BookProofs -----------------------------
(***************************************************************************)
(* Theorems about the matching engine: what module Book's runs show for a  *)
(* few prices and quantities, for any of them.                             *)
(*                                                                         *)
(* Everything hangs on Inductive: one lemma for each action shows that it  *)
(* is kept, by the lemmas of LadderProofs on Insert, HitBest and           *)
(* RemoveOrder.                                                            *)
(***************************************************************************)
EXTENDS Book, LadderProofs

-----------------------------------------------------------------------------
(* Reading the invariant *)

\* Machine integers are integers, zero is one, and so is whatever lies between zero and one.
LEMMA Int64sAre ==
  /\ Int64s \subseteq Int
  /\ 0 \in Int64s
  /\ \A x \in Int64s, y \in Int : 0 <= y /\ y <= x => y \in Int64s
<1>1. Int64Half \in Int /\ Int64Half >= 1
  BY Int64HalfAssumption
<1> QED BY <1>1 DEF Int64s

\* What the heap holds under an id: a record with the types its fields are read with.
LEMMA OrdersAre ==
  ASSUME order \in Seq(Order), NEW id \in DOMAIN order
  PROVE  /\ order[id] \in Order
         /\ id \in Nat /\ id \in 1 .. Len(order)
         /\ order[id].session \in Sessions
         /\ order[id].side \in Sides
         /\ order[id].price \in Int64s /\ order[id].price \in Int
         /\ order[id].open \in Int64s /\ order[id].open \in Int
         /\ order[id].seq \in Nat
<1>1. DOMAIN order = 1 .. Len(order) /\ Len(order) \in Nat
  BY LenProperties
<1>2. order[id] \in Order
  BY <1>1
<1>3. /\ order[id].session \in Sessions /\ order[id].side \in Sides /\ order[id].seq \in Nat
      /\ order[id].price \in Int64s /\ order[id].open \in Int64s
  BY <1>2 DEF Order
<1>4. order[id].price \in Int /\ order[id].open \in Int
  BY <1>3, Int64sAre
<1> QED BY <1>1, <1>2, <1>3, <1>4

\* There are two sides, each the opposite of the other.
LEMMA SidesAre ==
  ASSUME NEW s \in Sides
  PROVE  Opposite(s) \in Sides /\ Opposite(s) # s /\ \A o \in Sides : o = s \/ o = Opposite(s)
BY DEF Sides, Opposite, Buy, Sell

\* The ladder of a side, and the orders queued on it: those of the index that
\* are on this side.
LEMMA SideIs ==
  ASSUME TypeOK, LaddersWellFormed, index = Resting, NEW s \in Sides
  PROVE  /\ ladder[s] \in Seq(Level)
         /\ WellFormed(s, ladder[s], order)
         /\ \A id : id \in Queued(ladder[s]) <=> id \in index /\ order[id].side = s
<1>1. \A o \in Sides : ladder[o] \in Seq(Level) /\ WellFormed(o, ladder[o], order)
  BY DEF TypeOK, LaddersWellFormed
<1>2. ASSUME NEW o \in Sides, NEW id \in Queued(ladder[o])
      PROVE  id \in DOMAIN order /\ order[id].side = o
  BY <1>1, <1>2, QueuedOrdersAre
<1>3. ASSUME NEW id PROVE id \in Queued(ladder[s]) <=> id \in index /\ order[id].side = s
  BY <1>2 DEF Resting
<1> QED BY <1>1, <1>3

\* How Resting is shown to follow the index in the next state.
LEMMA RestingIs ==
  ASSUME NEW S, NEW d, NEW ords, S \subseteq DOMAIN ords,
         \A s \in Sides : \A id : id \in Queued(d[s]) <=> id \in S /\ ords[id].side = s,
         \A id \in S : ords[id].side \in Sides
  PROVE  S = {id \in DOMAIN ords : \E s \in Sides : id \in Queued(d[s])}
<1>1. ASSUME NEW id \in S PROVE \E s \in Sides : id \in Queued(d[s])
  OBVIOUS
<1>2. ASSUME NEW id, NEW s \in Sides, id \in Queued(d[s]) PROVE id \in S
  BY <1>2
<1> QED BY <1>1, <1>2

\* The ledger keeps its type through the three entries the engine makes in it.
LEMMA LedgerIs ==
  ASSUME NEW l \in [{"submitted", "filled", "canceled", "notional"} -> [Sides -> Int]],
         NEW s \in Sides, NEW q \in Int, NEW p \in Int
  PROVE  /\ LedgerAccept(l, s, q) \in [{"submitted", "filled", "canceled", "notional"} -> [Sides -> Int]]
         /\ LedgerCancel(l, s, q) \in [{"submitted", "filled", "canceled", "notional"} -> [Sides -> Int]]
         /\ LedgerFill(l, q, p) \in [{"submitted", "filled", "canceled", "notional"} -> [Sides -> Int]]
<1>1. \A x \in Int : Int64(x) \in Int
  BY Int64Type
<1>2. p * q \in Int
  OBVIOUS
<1>3. LedgerAccept(l, s, q) \in [{"submitted", "filled", "canceled", "notional"} -> [Sides -> Int]]
  BY <1>1 DEF LedgerAccept
<1>4. LedgerCancel(l, s, q) \in [{"submitted", "filled", "canceled", "notional"} -> [Sides -> Int]]
  BY <1>1 DEF LedgerCancel
<1>5. LedgerFill(l, q, p) \in [{"submitted", "filled", "canceled", "notional"} -> [Sides -> Int]]
  <2>1. \A o \in Sides : Int64(l.filled[o] + q) \in Int /\ Int64(l.notional[o] + p * q) \in Int
    BY <1>1, <1>2
  <2>2. [o \in Sides |-> Int64(l.filled[o] + q)] \in [Sides -> Int]
    BY <2>1
  <2>3. [o \in Sides |-> Int64(l.notional[o] + p * q)] \in [Sides -> Int]
    BY <2>1
  <2> DEFINE F == [o \in Sides |-> Int64(l.filled[o] + q)]
             N == [o \in Sides |-> Int64(l.notional[o] + p * q)]
  <2>4. LedgerFill(l, q, p) = [l EXCEPT !.filled = F, !.notional = N]
    BY DEF LedgerFill
  <2> HIDE DEF F, N
  <2> QED BY <2>2, <2>3, <2>4 DEF F, N
<1> QED BY <1>3, <1>4, <1>5

\* Whatever it is shown, a report names checks and nothing else.
LEMMA CheckIs == \A in : Check(in) \subseteq Kinds
BY DEF Check

\* The photograph of a ladder.
LEMMA FrontierIs ==
  ASSUME TypeOK, LaddersWellFormed, index = Resting, NEW s \in Sides
  PROVE  Frontier(ladder[s]) \in [empty : BOOLEAN, price : Int64s, headSeq : Nat]
<1> DEFINE d == ladder[s]
<1>1. d \in Seq(Level) /\ WellFormed(s, d, order)
  BY SideIs
<1>2. CASE d = <<>>
  BY <1>2, Int64sAre DEF Frontier, NoFrontier
<1>3. CASE d # <<>>
  <2>1. d[1].orders # <<>> /\ d[1].orders \in Seq(Nat) /\ d[1].orders[1] \in Queued(d)
    BY <1>1, <1>3, BestIs
  <2>2. order[d[1].orders[1]].price = d[1].price
    BY <1>1, <1>3, BestIsFirst
  <2>3. d[1].orders[1] \in DOMAIN order
    BY <1>1, <2>1, QueuedOrdersAre
  <2>4. d[1].price \in Int64s /\ order[d[1].orders[1]].seq \in Nat
    BY <2>2, <2>3, OrdersAre DEF TypeOK
  <2>5. Head(d[1].orders) = d[1].orders[1]
    BY <2>1
  <2> QED BY <1>3, <2>1, <2>4, <2>5 DEF Frontier
<1> QED BY <1>2, <1>3

-----------------------------------------------------------------------------
(* The actions keep the invariant *)

\* An empty book has no order to misplace.
LEMMA InitInductive == Init => Inductive
<1> SUFFICES ASSUME Init PROVE Inductive
  OBVIOUS
<1> USE DEF Init
<1>1. Queued(<<>>) = {}
  BY DEF Queued
<1>2. TypeOK
  <2>1. led \in [{"submitted", "filled", "canceled", "notional"} -> [Sides -> Int]]
    BY DEF EmptyLedger
  <2>2. pre \in [Sides -> [empty : BOOLEAN, price : Int64s, headSeq : Nat]]
    BY Int64sAre DEF NoFrontiers, NoFrontier
  <2> QED BY <2>1, <2>2 DEF TypeOK
<1>3. LaddersWellFormed
  BY DEF LaddersWellFormed, WellFormed
<1>4. index = Resting
  BY DEF Resting
<1>5. IdsInArrivalOrder /\ TakerApart /\ NotCrossed
  BY DEF IdsInArrivalOrder, TakerApart, NotCrossed
<1> QED BY <1>2, <1>3, <1>4, <1>5 DEF Inductive

\* The invariant reads only the variables of the module.
LEMMA StutterInductive ==
  ASSUME Inductive, UNCHANGED vars
  PROVE  Inductive'
BY DEF Inductive, vars, TypeOK, LaddersWellFormed, IdsInArrivalOrder, Resting, TakerApart,
       Taker, NotCrossed

\* A refusal changes nothing but the count of commands and the result.
LEMMA RejectInductive ==
  ASSUME Inductive, Begin, NEW session \in Sessions, NEW reason \in RejectReasons,
         Reject(session, reason)
  PROVE  Inductive'
<1> USE DEF Inductive, Reject, Begin
<1>1. UNCHANGED <<ladder, order, index, led, lastTrade, pc, pre, fills>>
      /\ seq \in Nat /\ seq' = seq + 1 /\ pc = "idle"
  BY DEF TypeOK, Return
<1>2. result' \in [events : Seq(Event), report : SUBSET Kinds]
  <2> DEFINE e == [type |-> "rejected", session |-> session, reason |-> reason]
  <2>1. e \in Event
    BY DEF Event
  <2>2. <<e>> \in Seq(Event)
    BY <2>1
  <2>3. Report(NoTaker) \subseteq Kinds
    BY CheckIs DEF Report
  <2> QED BY <2>2, <2>3 DEF Return
<1>3. TypeOK'
  BY <1>1, <1>2 DEF TypeOK
<1>4. LaddersWellFormed' /\ (index = Resting)' /\ TakerApart' /\ NotCrossed'
  BY <1>1 DEF LaddersWellFormed, Resting, TakerApart, Taker, NotCrossed
<1>5. IdsInArrivalOrder'
  <2>1. \A a \in DOMAIN order : order[a].seq \in Nat
    BY OrdersAre DEF TypeOK
  <2> QED BY <1>1, <2>1 DEF IdsInArrivalOrder
<1> QED BY <1>3, <1>4, <1>5

\* An order that arrives is the youngest of the heap and is queued nowhere.
LEMMA AcceptSubmitInductive ==
  ASSUME Inductive, NEW session \in Sessions, NEW side \in Sides, NEW price \in Prices,
         NEW qty \in Qtys, AcceptSubmit(session, side, price, qty)
  PROVE  Inductive'
<1> DEFINE o == [session |-> session, side |-> side, price |-> price,
                 qty |-> qty, open |-> qty, seq |-> seq + 1]
           e == [type |-> "accepted", id |-> Len(order) + 1, session |-> session,
                 side |-> side, price |-> price, open |-> qty]
<1>1. /\ pc = "idle" /\ seq' = seq + 1 /\ qty > 0 /\ order' = Append(order, o)
      /\ led' = LedgerAccept(led, side, qty)
      /\ pre' = [s \in Sides |-> Frontier(ladder[s])]
      /\ result' = [events |-> <<e>>, report |-> {}]
      /\ pc' = "sweep"
      /\ UNCHANGED <<ladder, index, lastTrade, fills>>
  BY DEF AcceptSubmit, Begin
<1>2. /\ TypeOK /\ LaddersWellFormed /\ IdsInArrivalOrder /\ index = Resting /\ NotCrossed
      /\ order \in Seq(Order) /\ index \subseteq DOMAIN order /\ seq \in Nat
  BY DEF Inductive, TypeOK
<1>3. price \in Int64s /\ qty \in Int64s /\ qty \in Int
  BY CommandAssumption, Int64sAre
<1>4. o \in Order
  BY <1>2, <1>3 DEF Order
<1> HIDE DEF o
<1>5. /\ DOMAIN order = 1 .. Len(order) /\ Len(order) \in Nat
      /\ order' \in Seq(Order) /\ Len(order') = Len(order) + 1
      /\ DOMAIN order' = 1 .. Len(order) + 1
      /\ \A a \in DOMAIN order : order'[a] = order[a]
      /\ order'[Len(order) + 1] = o
  BY <1>1, <1>2, <1>4, AppendProperties, LenProperties
<1>6. TypeOK'
  <2>1. result' \in [events : Seq(Event), report : SUBSET Kinds]
    <3>1. e \in Event
      BY <1>3, <1>5 DEF Event
    <3> HIDE DEF e
    <3>2. <<e>> \in Seq(Event)
      BY <3>1
    <3> QED BY <1>1, <3>2
  <2>2. led' \in [{"submitted", "filled", "canceled", "notional"} -> [Sides -> Int]]
    <3>1. led \in [{"submitted", "filled", "canceled", "notional"} -> [Sides -> Int]]
      BY <1>2 DEF TypeOK
    <3> QED BY <1>1, <1>3, <3>1, LedgerIs
  <2>3. pre' \in [Sides -> [empty : BOOLEAN, price : Int64s, headSeq : Nat]]
    BY <1>1, <1>2, FrontierIs
  <2>4. index' \subseteq DOMAIN order' /\ order' # <<>>
    BY <1>1, <1>2, <1>5, SMTT(30)
  <2>5. seq' \in Nat /\ pc' \in {"idle", "sweep"}
    BY <1>1, <1>2
  <2>6. UNCHANGED <<ladder, lastTrade, fills>>
    BY <1>1
  <2> QED BY <1>2, <1>5, <2>1, <2>2, <2>3, <2>4, <2>5, <2>6 DEF TypeOK
<1>7. \A s \in Sides : HeapsAgree(ladder[s], order, order')
  <2> SUFFICES ASSUME NEW s \in Sides PROVE HeapsAgree(ladder[s], order, order')
    OBVIOUS
  <2>1. \A id \in Queued(ladder[s]) : id \in DOMAIN order
    BY <1>2, SideIs
  <2> QED BY <1>5, <2>1 DEF HeapsAgree
<1>8. LaddersWellFormed'
  <2> SUFFICES ASSUME NEW s \in Sides PROVE WellFormed(s, ladder[s], order')
    BY <1>1 DEF LaddersWellFormed
  <2> QED BY <1>2, <1>7, SideIs, HeapsAgreeWellFormed
<1>9. IdsInArrivalOrder'
  <2>1. \A a \in DOMAIN order : order[a].seq \in Nat /\ order[a].seq < seq'
    <3>1. \A a \in DOMAIN order : order[a].seq \in Nat /\ order[a].seq <= seq
      BY <1>2, OrdersAre DEF IdsInArrivalOrder
    <3> QED BY <1>1, <1>2, <3>1
  <2>2. o.seq = seq'
    BY <1>1 DEF o
  <2>3. \A a \in DOMAIN order' : a \in DOMAIN order \/ a = Len(order) + 1
    BY <1>5
  <2>4. \A a \in DOMAIN order : order'[a].seq < order'[Len(order) + 1].seq
    BY <1>5, <2>1, <2>2
  <2>5. \A a, b \in DOMAIN order : a < b => order'[a].seq < order'[b].seq
    BY <1>2, <1>5 DEF IdsInArrivalOrder
  <2>6. \A a, b \in DOMAIN order' : a < b => order'[a].seq < order'[b].seq
    BY <1>5, <2>3, <2>4, <2>5
  <2>7. \A a \in DOMAIN order' : order'[a].seq <= seq'
    BY <1>1, <1>2, <1>5, <2>1, <2>2, <2>3
  <2> QED BY <2>6, <2>7 DEF IdsInArrivalOrder
<1>10. (index = Resting)'
  <2>1. ASSUME NEW s \in Sides, NEW id
        PROVE  id \in Queued(ladder[s]) <=> id \in index /\ order'[id].side = s
    BY <1>2, <1>5, SideIs
  <2>2. \A id \in index : order'[id].side \in Sides
    BY <1>2, <1>5, OrdersAre
  <2>3. index \subseteq DOMAIN order'
    BY <1>2, <1>5
  <2>4. index = {id \in DOMAIN order' : \E s \in Sides : id \in Queued(ladder[s])}
    BY <2>1, <2>2, <2>3, RestingIs
  <2> QED BY <1>1, <2>4 DEF Resting
<1>11. TakerApart'
  <2>1. o.open = qty
    BY DEF o
  <2>2. Len(order) + 1 \notin index
    BY <1>2, <1>5
  <2>3. order'[Len(order')].open >= 0
    BY <1>1, <1>3, <1>5, <2>1
  <2> QED BY <1>1, <1>5, <2>2, <2>3 DEF TakerApart, Taker
<1>12. NotCrossed'
  BY <1>1, <1>2, <1>5 DEF NotCrossed
<1> QED BY <1>6, <1>8, <1>9, <1>10, <1>11, <1>12 DEF Inductive

\* A cancel takes one order off its ladder and out of the index.
LEMMA CancelOrderInductive ==
  ASSUME Inductive, NEW session \in Sessions, NEW id \in Int, CancelOrder(session, id)
  PROVE  Inductive'
<1> DEFINE o == order[id]
           d == ladder[o.side]
           e == [type |-> "canceled", id |-> id, session |-> session, released |-> o.open]
<1>1. /\ pc = "idle" /\ seq' = seq + 1 /\ CancelRefusal(session, id) = "NONE"
      /\ ladder' = [ladder EXCEPT ![o.side] = RemoveOrder(d, o.price, id, o.open)]
      /\ index' = index \ {id}
      /\ led' = LedgerCancel(led, o.side, o.open)
      /\ result' = [events |-> <<e>>, report |-> Report(NoTaker)]
      /\ UNCHANGED <<order, lastTrade, pc, pre, fills>>
  BY DEF CancelOrder, Begin, Return
<1>2. /\ TypeOK /\ LaddersWellFormed /\ IdsInArrivalOrder /\ index = Resting /\ NotCrossed
      /\ order \in Seq(Order) /\ index \subseteq DOMAIN order /\ seq \in Nat
      /\ ladder \in [Sides -> Seq(Level)]
  BY DEF Inductive, TypeOK
<1>3. id \in index
  BY <1>1 DEF CancelRefusal
<1>4. /\ o.side \in Sides /\ o.price \in Int /\ o.open \in Int64s /\ o.open \in Int /\ id \in Nat
  BY <1>2, <1>3, OrdersAre
<1>5. d \in Seq(Level) /\ WellFormed(o.side, d, order) /\ id \in Queued(d)
  BY <1>2, <1>3, <1>4, SideIs
<1> DEFINE f == RemoveOrder(d, o.price, id, o.open)
<1>6. f \in Seq(Level) /\ WellFormed(o.side, f, order)
  BY <1>4, <1>5, RemoveOrderWellFormed
<1>7. Queued(f) = Queued(d) \ {id}
  <2> DEFINE open == o.open
             side == o.side
  <2>1. open \in Int /\ WellFormed(side, d, order)
    BY <1>4, <1>5
  <2> HIDE DEF d, open, side
  <2>2. Queued(RemoveOrder(d, order[id].price, id, open)) = Queued(d) \ {id}
    BY <1>5, <2>1, RemoveOrderWellFormed, SMTT(30)
  <2> QED BY <2>2 DEF open
<1> HIDE DEF f
<1>8. ladder' \in [Sides -> Seq(Level)] /\ ladder'[o.side] = f
      /\ \A s \in Sides : s # o.side => ladder'[s] = ladder[s]
  BY <1>1, <1>2, <1>4, <1>6 DEF f
<1>9. TypeOK'
  <2>1. result' \in [events : Seq(Event), report : SUBSET Kinds]
    <3>1. e \in Event
      BY <1>4 DEF Event
    <3> HIDE DEF e
    <3>2. <<e>> \in Seq(Event)
      BY <3>1
    <3>3. Report(NoTaker) \subseteq Kinds
      BY CheckIs DEF Report
    <3> QED BY <1>1, <3>2, <3>3
  <2>2. led' \in [{"submitted", "filled", "canceled", "notional"} -> [Sides -> Int]]
    <3>1. led \in [{"submitted", "filled", "canceled", "notional"} -> [Sides -> Int]]
      BY <1>2 DEF TypeOK
    <3> QED BY <1>1, <1>4, <3>1, LedgerIs
  <2>3. index' \subseteq DOMAIN order' /\ seq' \in Nat
    BY <1>1, <1>2
  <2>4. UNCHANGED <<order, lastTrade, pc, pre, fills>>
    BY <1>1
  <2> QED BY <1>2, <1>8, <2>1, <2>2, <2>3, <2>4 DEF TypeOK
<1>10. LaddersWellFormed'
  BY <1>1, <1>2, <1>6, <1>8 DEF LaddersWellFormed
<1>11. IdsInArrivalOrder'
  <2>1. \A a \in DOMAIN order : order[a].seq \in Nat
    BY <1>2, OrdersAre
  <2> QED BY <1>1, <1>2, <2>1 DEF IdsInArrivalOrder
<1>12. (index = Resting)'
  <2>1. ASSUME NEW s \in Sides, NEW x
        PROVE  x \in Queued(ladder'[s]) <=> x \in index' /\ order[x].side = s
    <3>1. CASE s = o.side
      BY <1>1, <1>2, <1>7, <1>8, <3>1, SideIs
    <3>2. CASE s # o.side
      BY <1>1, <1>2, <1>8, <3>2, SideIs
    <3> QED BY <3>1, <3>2
  <2>2. index' \subseteq DOMAIN order /\ \A x \in index' : order[x].side \in Sides
    BY <1>1, <1>2, OrdersAre
  <2>3. index' = {x \in DOMAIN order : \E s \in Sides : x \in Queued(ladder'[s])}
    BY <2>1, <2>2, RestingIs
  <2> QED BY <1>1, <2>3 DEF Resting
<1>13. TakerApart' /\ NotCrossed'
  BY <1>1, <1>2 DEF TakerApart, NotCrossed
<1> QED BY <1>9, <1>10, <1>11, <1>12, <1>13 DEF Inductive

\* The order that is matching, and the order it would match.
LEMMA TakerIs ==
  ASSUME Inductive, pc = "sweep"
  PROVE  /\ Taker \in DOMAIN order /\ Taker \in Nat /\ Taker = Len(order)
         /\ Taker \notin index /\ order[Taker].open >= 0
         /\ Opp = ladder[Opposite(order[Taker].side)]
         /\ order[Taker].side \in Sides /\ Opposite(order[Taker].side) \in Sides
         /\ \A id \in DOMAIN order : id # Taker => id < Taker
<1>1. order \in Seq(Order) /\ order # <<>>
  BY DEF Inductive, TypeOK
<1>2. Len(order) \in Nat /\ Len(order) # 0 /\ DOMAIN order = 1 .. Len(order)
  BY <1>1, EmptySeq, LenProperties
<1>3. Taker \in DOMAIN order /\ Taker \in Nat /\ \A id \in DOMAIN order : id # Taker => id < Taker
  BY <1>2 DEF Taker
<1>4. order[Taker].side \in Sides
  BY <1>1, <1>3, OrdersAre
<1>5. Opposite(order[Taker].side) \in Sides
  BY <1>4, SidesAre
<1> QED BY <1>3, <1>4, <1>5 DEF Inductive, TakerApart, Opp, Taker

\* The head of the other side, which Fill takes, is a live order other than the
\* taker, at home in its level and in the index (match.go:35).
LEMMA MakerIs ==
  ASSUME Inductive, pc = "sweep", Opp # <<>>
  PROVE  LET maker == Opp[1].orders[1]
         IN  /\ Opp \in Seq(Level) /\ WellFormed(Opposite(order[Taker].side), Opp, order)
             /\ maker \in Queued(Opp) /\ maker \in index /\ maker \in DOMAIN order
             /\ maker # Taker
             /\ order[maker].side = Opposite(order[Taker].side)
             /\ order[maker].price = Opp[1].price
             /\ order[maker].open > 0
             /\ Opp[1].orders # <<>>
<1> DEFINE maker == Opp[1].orders[1]
           s     == Opposite(order[Taker].side)
<1>1. s \in Sides /\ Opp = ladder[s] /\ Taker \notin index
  BY TakerIs
<1>2. /\ Opp \in Seq(Level) /\ WellFormed(s, Opp, order)
      /\ \A id : id \in Queued(Opp) <=> id \in index /\ order[id].side = s
  BY <1>1, SideIs DEF Inductive
<1> HIDE DEF s
<1>3. maker \in Queued(Opp) /\ Opp[1].orders # <<>>
  BY <1>2, BestIs
<1>4. maker \in DOMAIN order /\ order[maker].side = s /\ order[maker].open > 0
  BY <1>2, <1>3, QueuedOrdersAre
<1>5. order[maker].price = Opp[1].price
  BY <1>2, BestIsFirst
<1>6. maker \in index /\ maker # Taker
  BY <1>1, <1>2, <1>3
<1> QED BY <1>2, <1>3, <1>4, <1>5, <1>6 DEF s

\* What a fill does to the heap.
LEMMA FillIs ==
  ASSUME Inductive, Fill
  PROVE  LET maker == Opp[1].orders[1]
             n     == FillQty(order[Taker], order[maker])
         IN  /\ n \in Int64s /\ n \in Int /\ n > 0
             /\ n <= order[maker].open /\ n <= order[Taker].open
             /\ order' \in Seq(Order) /\ DOMAIN order' = DOMAIN order /\ Len(order') = Len(order)
             /\ \A id \in DOMAIN order :
                   /\ order'[id].side = order[id].side
                   /\ order'[id].price = order[id].price
                   /\ order'[id].seq = order[id].seq
                   /\ order'[id].session = order[id].session
                   /\ id # maker /\ id # Taker => order'[id].open = order[id].open
             /\ order'[maker].open = order[maker].open - n
             /\ order'[Taker].open = order[Taker].open - n
<1> DEFINE maker == Opp[1].orders[1]
           n     == FillQty(order[Taker], order[maker])
           mo    == [order[maker] EXCEPT !.open = @ - n]
           to    == [order[Taker] EXCEPT !.open = @ - n]
<1>1. /\ pc = "sweep" /\ Opp # <<>> /\ order[Taker].open > 0
      /\ order' = [order EXCEPT ![maker].open = @ - n, ![Taker].open = @ - n]
  BY DEF Fill, CanFill
<1>2. order \in Seq(Order)
  BY DEF Inductive, TypeOK
<1>3. /\ maker \in DOMAIN order /\ maker # Taker /\ order[maker].open > 0 /\ Taker \in DOMAIN order
  BY <1>1, MakerIs, TakerIs
<1> HIDE DEF maker
<1>4. /\ order[maker] \in Order /\ order[maker].open \in Int64s /\ order[maker].open \in Int
      /\ order[Taker] \in Order /\ order[Taker].open \in Int64s /\ order[Taker].open \in Int
  BY <1>2, <1>3, OrdersAre
<1>5. /\ n \in Int64s /\ n \in Int /\ n > 0 /\ n <= order[maker].open /\ n <= order[Taker].open
  BY <1>1, <1>3, <1>4 DEF FillQty
<1> HIDE DEF n
<1>6. order[maker].open - n \in Int64s /\ order[Taker].open - n \in Int64s
  <2>1. 0 <= order[maker].open - n /\ order[maker].open - n <= order[maker].open
    BY <1>4, <1>5
  <2>2. 0 <= order[Taker].open - n /\ order[Taker].open - n <= order[Taker].open
    BY <1>4, <1>5
  <2>3. order[maker].open - n \in Int /\ order[Taker].open - n \in Int
    BY <1>4, <1>5
  <2> QED BY <1>4, <2>1, <2>2, <2>3, Int64sAre
<1>7. /\ mo \in Order /\ mo.open = order[maker].open - n /\ mo.side = order[maker].side
      /\ mo.price = order[maker].price /\ mo.seq = order[maker].seq
      /\ mo.session = order[maker].session
  BY <1>4, <1>6 DEF Order
<1>8. /\ to \in Order /\ to.open = order[Taker].open - n /\ to.side = order[Taker].side
      /\ to.price = order[Taker].price /\ to.seq = order[Taker].seq
      /\ to.session = order[Taker].session
  BY <1>4, <1>6 DEF Order
<1>9. order' = [[order EXCEPT ![maker] = mo] EXCEPT ![Taker] = to]
  BY <1>1, <1>3
<1> HIDE DEF mo, to
<1>10. /\ DOMAIN order = 1 .. Len(order)
       /\ [order EXCEPT ![maker] = mo] \in Seq(Order)
       /\ Len([order EXCEPT ![maker] = mo]) = Len(order)
       /\ \A id \in 1 .. Len(order) :
             [order EXCEPT ![maker] = mo][id] = IF id = maker THEN mo ELSE order[id]
  BY <1>2, <1>3, <1>7, LenProperties, ExceptSeq
<1>11. /\ order' \in Seq(Order) /\ Len(order') = Len(order) /\ DOMAIN order' = DOMAIN order
       /\ \A id \in DOMAIN order :
             order'[id] = IF id = Taker THEN to ELSE IF id = maker THEN mo ELSE order[id]
  <2> DEFINE f == [order EXCEPT ![maker] = mo]
  <2> HIDE DEF f
  <2>1. f \in Seq(Order) /\ Len(f) = Len(order) /\ Taker \in 1 .. Len(f)
    BY <1>3, <1>10 DEF f
  <2>2. /\ [f EXCEPT ![Taker] = to] \in Seq(Order)
        /\ Len([f EXCEPT ![Taker] = to]) = Len(f)
        /\ \A id \in 1 .. Len(f) : [f EXCEPT ![Taker] = to][id] = IF id = Taker THEN to ELSE f[id]
    BY <1>8, <2>1, ExceptSeq
  <2>3. order' = [f EXCEPT ![Taker] = to]
    BY <1>9 DEF f
  <2>4. order' \in Seq(Order) /\ Len(order') = Len(order)
        /\ \A id \in DOMAIN order : order'[id] = IF id = Taker THEN to ELSE f[id]
    BY <1>10, <2>1, <2>2, <2>3
  <2>5. DOMAIN order' = DOMAIN order
    BY <1>10, <2>4, LenProperties
  <2> QED BY <1>10, <2>4, <2>5 DEF f
<1>12. order'[maker] = mo /\ order'[Taker] = to
  BY <1>3, <1>11
<1>13. \A id \in DOMAIN order :
          /\ order'[id].side = order[id].side
          /\ order'[id].price = order[id].price
          /\ order'[id].seq = order[id].seq
          /\ order'[id].session = order[id].session
          /\ id # maker /\ id # Taker => order'[id].open = order[id].open
  BY <1>7, <1>8, <1>11
<1> QED BY <1>5, <1>7, <1>8, <1>11, <1>12, <1>13 DEF maker, n

\* What a fill does to the ladders: the maker goes if it is spent.
LEMMA FillLadder ==
  ASSUME Inductive, Fill
  PROVE  LET maker == Opp[1].orders[1]
             n     == FillQty(order[Taker], order[maker])
             s     == Opposite(order[Taker].side)
             spent == order'[maker].open = 0
         IN  /\ ladder' \in [Sides -> Seq(Level)]
             /\ \A o \in Sides : WellFormed(o, ladder'[o], order')
             /\ index' = IF spent THEN index \ {maker} ELSE index
             /\ \A id : id \in Queued(ladder'[s]) <=>
                          id \in Queued(ladder[s]) /\ ~(spent /\ id = maker)
             /\ \A o \in Sides : o # s => ladder'[o] = ladder[o]
<1> DEFINE maker == Opp[1].orders[1]
           n     == FillQty(order[Taker], order[maker])
           s     == Opposite(order[Taker].side)
           d     == ladder[s]
           spent == order'[maker].open = 0
           e     == HitBest(d, n, spent)
<1>1. /\ pc = "sweep" /\ Opp # <<>>
      /\ ladder' = [ladder EXCEPT ![s] = HitBest(@, n, order[maker].open - n = 0)]
      /\ index' = IF order[maker].open - n = 0 THEN index \ {maker} ELSE index
  BY DEF Fill, CanFill
<1>2. /\ n \in Int /\ n <= order[maker].open
      /\ DOMAIN order' = DOMAIN order
      /\ \A id \in DOMAIN order : /\ order'[id].side = order[id].side
                                  /\ order'[id].price = order[id].price
                                  /\ id # maker /\ id # Taker => order'[id].open = order[id].open
      /\ order'[maker].open = order[maker].open - n
  BY FillIs
<1>3. /\ TypeOK /\ LaddersWellFormed /\ index = Resting /\ order \in Seq(Order)
      /\ ladder \in [Sides -> Seq(Level)]
  BY DEF Inductive, TypeOK
<1>4. Opp = d /\ s \in Sides /\ Taker \notin index
  BY <1>1, TakerIs
<1>5. /\ maker \in Queued(d) /\ maker \in DOMAIN order /\ maker = d[1].orders[1] /\ d # <<>>
  BY <1>1, <1>4, MakerIs
<1> HIDE DEF maker, n, s
<1>6. order[maker].open \in Int /\ order'[maker].open >= 0 /\ order'[maker].open \in Int
  <2>1. order[maker].open \in Int
    BY <1>3, <1>5, OrdersAre
  <2> QED BY <1>2, <2>1
<1>7. /\ d \in Seq(Level) /\ WellFormed(s, d, order)
      /\ \A id : id \in Queued(d) <=> id \in index /\ order[id].side = s
  BY <1>3, <1>4, SideIs
<1>8. \A id \in Queued(d) : id \in DOMAIN order /\ id # Taker
  BY <1>4, <1>7, QueuedOrdersAre
<1>9. HeadHit(d, order, order')
  BY <1>2, <1>5, <1>8 DEF HeadHit
<1>10. ladder' = [ladder EXCEPT ![s] = e] /\ index' = IF spent THEN index \ {maker} ELSE index
  BY <1>1, <1>2
<1>11. /\ e \in Seq(Level) /\ WellFormed(s, e, order')
       /\ \A id : id \in Queued(e) <=> id \in Queued(d) /\ ~(spent /\ id = maker)
  <2>1. CASE spent
    <3>1. HitBest(d, n, TRUE) \in Seq(Level) /\ WellFormed(s, HitBest(d, n, TRUE), order')
      BY <1>2, <1>7, <1>9, HitBestSpent
    <3>2. Queued(HitBest(d, n, TRUE)) = Queued(d) \ {d[1].orders[1]}
      <4> HIDE DEF d
      <4> QED BY <1>2, <1>7, <1>9, HitBestSpent
    <3>3. e = HitBest(d, n, TRUE)
      BY <2>1
    <3> HIDE DEF e
    <3> QED BY <1>5, <2>1, <3>1, <3>2, <3>3
  <2>2. CASE ~spent
    <3>0. order'[d[1].orders[1]].open > 0
      BY <1>5, <1>6, <2>2
    <3>1. HitBest(d, n, FALSE) \in Seq(Level) /\ WellFormed(s, HitBest(d, n, FALSE), order')
      BY <1>2, <1>7, <1>9, <3>0, HitBestLeft
    <3>2. Queued(HitBest(d, n, FALSE)) = Queued(d)
      <4> HIDE DEF d
      <4> QED BY <1>2, <1>7, <1>9, <3>0, HitBestLeft
    <3>3. e = HitBest(d, n, FALSE)
      BY <2>2
    <3> HIDE DEF e
    <3> QED BY <2>2, <3>1, <3>2, <3>3
  <2> QED BY <2>1, <2>2
<1> HIDE DEF e
<1>12. /\ ladder' \in [Sides -> Seq(Level)] /\ ladder'[s] = e
       /\ \A o \in Sides : o # s => ladder'[o] = ladder[o]
  BY <1>3, <1>4, <1>10, <1>11
<1>13. \A o \in Sides : WellFormed(o, ladder'[o], order')
  <2> SUFFICES ASSUME NEW o \in Sides PROVE WellFormed(o, ladder'[o], order')
    OBVIOUS
  <2>1. CASE o = s
    BY <1>11, <1>12, <2>1
  <2>2. CASE o # s
    <3>1. /\ ladder[o] \in Seq(Level) /\ WellFormed(o, ladder[o], order)
          /\ \A id : id \in Queued(ladder[o]) <=> id \in index /\ order[id].side = o
      BY <1>3, SideIs
    <3>2. order[maker].side = s
      BY <1>5, <1>7
    <3>3. \A id \in Queued(ladder[o]) : id \in DOMAIN order /\ id # Taker /\ id # maker
      BY <1>4, <2>2, <3>1, <3>2, QueuedOrdersAre
    <3>4. HeapsAgree(ladder[o], order, order')
      BY <1>2, <3>3 DEF HeapsAgree
    <3>5. WellFormed(o, ladder[o], order')
      BY <3>1, <3>4, HeapsAgreeWellFormed
    <3> QED BY <1>12, <2>2, <3>5
  <2> QED BY <2>1, <2>2
<1> HIDE DEF d, spent
<1> QED BY <1>10, <1>11, <1>12, <1>13 DEF d, spent, maker, n, s

\* Each of the two outcomes of a fill, the maker drained or not, keeps the invariant.
LEMMA FillInductive ==
  ASSUME Inductive, Fill
  PROVE  Inductive'
<1> DEFINE maker == Opp[1].orders[1]
           n     == FillQty(order[Taker], order[maker])
           s     == Opposite(order[Taker].side)
           left  == order[maker].open - n
           price == Opp[1].price
           trade == [type |-> "traded", price |-> price, qty |-> n,
                     taker |-> Taker, maker |-> maker, makerLeft |-> left]
           told  == [price |-> price, qty |-> n, makerSeq |-> order[maker].seq, makerLeft |-> left]
           spent == order'[maker].open = 0
<1>1. /\ pc = "sweep" /\ Opp # <<>>
      /\ led' = LedgerFill(led, n, price)
      /\ fills' = Append(fills, told)
      /\ lastTrade' = trade
      /\ result' = [result EXCEPT !.events = Append(@, trade)]
      /\ UNCHANGED <<seq, pc, pre>>
  BY DEF Fill, CanFill
<1>2. /\ n \in Int64s /\ n \in Int /\ n > 0 /\ n <= order[maker].open /\ n <= order[Taker].open
      /\ order' \in Seq(Order) /\ DOMAIN order' = DOMAIN order /\ Len(order') = Len(order)
      /\ \A id \in DOMAIN order : /\ order'[id].side = order[id].side
                                  /\ order'[id].price = order[id].price
                                  /\ order'[id].seq = order[id].seq
      /\ order'[maker].open = left
      /\ order'[Taker].open = order[Taker].open - n
  BY FillIs
<1>3. /\ TypeOK /\ LaddersWellFormed /\ index = Resting /\ IdsInArrivalOrder /\ NotCrossed
      /\ order \in Seq(Order) /\ index \subseteq DOMAIN order
  BY DEF Inductive, TypeOK
<1>4. Taker \in DOMAIN order /\ Taker \in Nat /\ Taker \notin index /\ s \in Sides
  BY <1>1, TakerIs
<1>5. maker \in DOMAIN order /\ maker \in index /\ order[maker].price = price
      /\ order[maker].side = s
  BY <1>1, MakerIs
<1>6. /\ ladder' \in [Sides -> Seq(Level)]
      /\ \A o \in Sides : WellFormed(o, ladder'[o], order')
      /\ index' = IF spent THEN index \ {maker} ELSE index
      /\ \A id : id \in Queued(ladder'[s]) <=>
                   id \in Queued(ladder[s]) /\ ~(spent /\ id = maker)
      /\ \A o \in Sides : o # s => ladder'[o] = ladder[o]
  BY FillLadder
<1> HIDE DEF maker, n, s, price
<1>7. /\ maker \in Nat /\ price \in Int64s /\ price \in Int /\ order[maker].seq \in Nat
      /\ order[maker].open \in Int64s /\ order[maker].open \in Int /\ order[Taker].open \in Int
  BY <1>3, <1>4, <1>5, OrdersAre
<1>8. left \in Int64s
  <2>1. left \in Int /\ 0 <= left /\ left <= order[maker].open
    BY <1>2, <1>7
  <2> HIDE DEF left
  <2> QED BY <1>7, <2>1, Int64sAre
<1> HIDE DEF left
<1>9. TypeOK'
  <2>1. trade \in Event
    BY <1>2, <1>4, <1>7, <1>8 DEF Event
  <2>2. told \in Trade
    BY <1>2, <1>7, <1>8 DEF Trade
  <2> HIDE DEF trade, told
  <2>3. result' \in [events : Seq(Event), report : SUBSET Kinds]
    <3>1. result \in [events : Seq(Event), report : SUBSET Kinds]
      BY <1>3 DEF TypeOK
    <3>2. Append(result.events, trade) \in Seq(Event)
      BY <2>1, <3>1
    <3> QED BY <1>1, <3>1, <3>2
  <2>4. fills' \in Seq(Trade)
    BY <1>1, <1>3, <2>2 DEF TypeOK
  <2>5. led' \in [{"submitted", "filled", "canceled", "notional"} -> [Sides -> Int]]
    <3>1. led \in [{"submitted", "filled", "canceled", "notional"} -> [Sides -> Int]]
      BY <1>3 DEF TypeOK
    <3> QED BY <1>1, <1>2, <1>4, <1>7, <3>1, LedgerIs
  <2>6. order' # <<>>
    BY <1>2, <1>4
  <2>7. index' \subseteq DOMAIN order'
    BY <1>2, <1>3, <1>6
  <2>8. lastTrade' \in {<<>>} \cup Event
    BY <1>1, <2>1
  <2>9. UNCHANGED <<seq, pc, pre>>
    BY <1>1
  <2> QED BY <1>2, <1>3, <1>6, <2>3, <2>4, <2>5, <2>6, <2>7, <2>8, <2>9 DEF TypeOK
<1>10. LaddersWellFormed'
  BY <1>6 DEF LaddersWellFormed
<1>11. IdsInArrivalOrder'
  BY <1>1, <1>2, <1>3 DEF IdsInArrivalOrder
<1>12. (index = Resting)'
  <2>1. ASSUME NEW o \in Sides, NEW id
        PROVE  id \in Queued(ladder'[o]) <=> id \in index' /\ order'[id].side = o
    <3>1. \A x \in index : order'[x].side = order[x].side
      BY <1>2, <1>3
    <3>2. id \in Queued(ladder[o]) <=> id \in index /\ order[id].side = o
      BY <1>3, SideIs
    <3>3. CASE o = s
      BY <1>6, <3>1, <3>2, <3>3
    <3>4. CASE o # s
      BY <1>5, <1>6, <3>1, <3>2, <3>4
    <3> QED BY <3>3, <3>4
  <2>2. index' \subseteq DOMAIN order' /\ \A x \in index' : order'[x].side \in Sides
    BY <1>2, <1>3, <1>6, OrdersAre
  <2>3. index' = {x \in DOMAIN order' : \E o \in Sides : x \in Queued(ladder'[o])}
    BY <2>1, <2>2, RestingIs
  <2> QED BY <2>3 DEF Resting
<1>13. TakerApart'
  <2>1. Taker' = Taker /\ Taker \notin index'
    BY <1>2, <1>4, <1>6 DEF Taker
  <2>2. order'[Taker].open >= 0
    BY <1>2, <1>7
  <2> QED BY <2>1, <2>2 DEF TakerApart
<1>14. NotCrossed'
  <2>1. index' \subseteq index
    BY <1>6
  <2>2. \A x \in index : order'[x].side = order[x].side /\ order'[x].price = order[x].price
    BY <1>2, <1>3
  <2> QED BY <1>3, <2>1, <2>2 DEF NotCrossed
<1> QED BY <1>9, <1>10, <1>11, <1>12, <1>13, <1>14 DEF Inductive

\* Whoever still rests on the other side when the loop is over does not cross
\* what is left of the taker.
LEMMA NobodyLeft ==
  ASSUME Inductive, pc = "sweep", ~CanFill, order[Taker].open > 0,
         NEW id \in index, order[id].side = Opposite(order[Taker].side)
  PROVE  ~Crosses(order[Taker].side, order[Taker].price, order[id].price)
<1> DEFINE s == Opposite(order[Taker].side)
<1>1. /\ Taker \in DOMAIN order /\ Opp = ladder[s] /\ s \in Sides
      /\ order[Taker].side \in Sides
  BY TakerIs
<1>2. /\ Opp \in Seq(Level) /\ WellFormed(s, Opp, order) /\ id \in Queued(Opp)
  BY <1>1, SideIs DEF Inductive
<1>3. Opp # <<>> /\ id \in DOMAIN order
  BY <1>2, QueuedOrdersAre
<1>4. ~Crosses(order[Taker].side, order[Taker].price, Opp[1].price)
  BY <1>3 DEF CanFill
<1>5. /\ Opp[1].price = order[id].price \/ Better(s, Opp[1].price, order[id].price)
      /\ Opp[1].price \in Int
  <2>1. Opp[1].price = order[id].price \/ Better(s, Opp[1].price, order[id].price)
    <3>1. CASE id = Opp[1].orders[1]
      BY <1>2, <1>3, <3>1, BestIsFirst
    <3>2. CASE id # Opp[1].orders[1]
      BY <1>2, <1>3, <3>2, BestIsFirst
    <3> QED BY <3>1, <3>2
  <2>2. Opp[1] \in Level
    BY <1>2, <1>3, BestIs
  <2> QED BY <2>1, <2>2 DEF Level
<1>6. order[id].price \in Int /\ order[Taker].price \in Int
  BY <1>1, <1>3, OrdersAre DEF Inductive, TypeOK
<1> QED BY <1>1, <1>4, <1>5, <1>6 DEF Crosses, Better, Sides, Opposite, Buy, Sell

\* The remainder rests behind everybody of its price, and crosses nobody.
LEMMA FinishInductive ==
  ASSUME Inductive, Finish
  PROVE  Inductive'
<1> DEFINE o      == order[Taker]
           d      == ladder[o.side]
           rested == [type |-> "rested", id |-> Taker, open |-> o.open]
           taker  == [present |-> TRUE, side |-> o.side, price |-> o.price, left |-> o.open]
           e      == Insert(o.side, d, o.price, Taker, o.open)
<1>1. /\ pc = "sweep" /\ ~CanFill
      /\ IF o.open > 0
         THEN ladder' = [ladder EXCEPT ![o.side] = e] /\ index' = index \cup {Taker}
         ELSE UNCHANGED <<ladder, index>>
      /\ UNCHANGED <<order, seq, lastTrade, led>>
      /\ result' = [events |-> IF o.open > 0 THEN Append(result.events, rested)
                                             ELSE result.events,
                    report |-> Report(taker)]
      /\ pc' = "idle" /\ pre' = NoFrontiers /\ fills' = <<>>
  BY DEF Finish
<1>2. /\ TypeOK /\ LaddersWellFormed /\ index = Resting /\ IdsInArrivalOrder /\ NotCrossed
      /\ order \in Seq(Order) /\ index \subseteq DOMAIN order
      /\ ladder \in [Sides -> Seq(Level)]
  BY DEF Inductive, TypeOK
<1>3. /\ Taker \in DOMAIN order /\ Taker \in Nat /\ Taker \notin index
      /\ \A id \in DOMAIN order : id # Taker => id < Taker
  BY <1>1, TakerIs
<1>4. /\ o.side \in Sides /\ o.price \in Int /\ o.open \in Int64s /\ o.open \in Int
  BY <1>2, <1>3, OrdersAre
<1>5. TakerApart'
  BY <1>1 DEF TakerApart
<1>6. ASSUME ladder' \in [Sides -> Seq(Level)], index' \subseteq DOMAIN order
      PROVE  TypeOK' /\ IdsInArrivalOrder' /\ TakerApart'
  <2>1. result' \in [events : Seq(Event), report : SUBSET Kinds]
    <3>1. rested \in Event
      BY <1>3, <1>4 DEF Event
    <3>2. Report(taker) \subseteq Kinds
      BY CheckIs DEF Report
    <3>3. result.events \in Seq(Event)
      BY <1>2 DEF TypeOK
    <3> HIDE DEF rested, taker
    <3> QED BY <1>1, <3>1, <3>2, <3>3
  <2>2. pre' \in [Sides -> [empty : BOOLEAN, price : Int64s, headSeq : Nat]]
    BY <1>1, Int64sAre DEF NoFrontiers, NoFrontier
  <2>3. fills' \in Seq(Trade) /\ pc' \in {"idle", "sweep"} /\ ~(pc' = "sweep")
    BY <1>1
  <2>4. UNCHANGED <<order, seq, lastTrade, led>>
    BY <1>1
  <2>5. TypeOK'
    BY <1>2, <1>6, <2>1, <2>2, <2>3, <2>4 DEF TypeOK
  <2>6. IdsInArrivalOrder'
    BY <1>2, <2>4 DEF IdsInArrivalOrder
  <2> QED BY <1>5, <2>5, <2>6
<1>7. CASE ~(o.open > 0)
  <2>1. UNCHANGED <<ladder, index, order>>
    BY <1>1, <1>7
  <2>2. LaddersWellFormed' /\ (index = Resting)' /\ NotCrossed'
    BY <1>2, <2>1 DEF LaddersWellFormed, Resting, NotCrossed
  <2>3. ladder' \in [Sides -> Seq(Level)] /\ index' \subseteq DOMAIN order
    BY <1>2, <2>1
  <2>4. TypeOK' /\ IdsInArrivalOrder' /\ TakerApart'
    BY <1>6, <2>3
  <2> QED BY <2>2, <2>4 DEF Inductive
<1>8. CASE o.open > 0
  <2>1. /\ ladder' = [ladder EXCEPT ![o.side] = e] /\ index' = index \cup {Taker}
        /\ order' = order
    BY <1>1, <1>8
  <2>2. /\ d \in Seq(Level) /\ WellFormed(o.side, d, order)
        /\ \A id : id \in Queued(d) <=> id \in index /\ order[id].side = o.side
    BY <1>2, <1>4, SideIs
  <2>3. Arriving(o.side, d, order, o.price, Taker)
    BY <1>2, <1>3, <1>8, <2>2 DEF Arriving
  <2>4. Joined(o.side, d, order, Taker, e)
    BY <1>3, <1>4, <2>2, <2>3, InsertWellFormed
  <2>5. /\ e \in Seq(Level) /\ WellFormed(o.side, e, order)
        /\ \A x : x \in Queued(e) <=> x \in Queued(d) \/ x = Taker
    BY <2>4 DEF Joined
  <2> HIDE DEF e
  <2>6. /\ ladder' \in [Sides -> Seq(Level)] /\ ladder'[o.side] = e
        /\ \A s \in Sides : s # o.side => ladder'[s] = ladder[s]
    BY <1>2, <1>4, <2>1, <2>5
  <2>7. index' \subseteq DOMAIN order
    BY <1>2, <1>3, <2>1
  <2>8. TypeOK' /\ IdsInArrivalOrder' /\ TakerApart'
    BY <1>6, <2>6, <2>7
  <2>9. LaddersWellFormed'
    BY <1>2, <2>1, <2>5, <2>6 DEF LaddersWellFormed
  <2>10. (index = Resting)'
    <3>1. ASSUME NEW s \in Sides, NEW id
          PROVE  id \in Queued(ladder'[s]) <=> id \in index' /\ order[id].side = s
      <4>1. CASE s = o.side
        BY <2>1, <2>2, <2>5, <2>6, <4>1
      <4>2. CASE s # o.side
        BY <1>2, <2>1, <2>6, <4>2, SideIs
      <4> QED BY <4>1, <4>2
    <3>2. \A x \in index' : order[x].side \in Sides
      BY <1>2, <2>7, OrdersAre
    <3>3. index' = {x \in DOMAIN order : \E s \in Sides : x \in Queued(ladder'[s])}
      BY <2>7, <3>1, <3>2, RestingIs
    <3> QED BY <2>1, <3>3 DEF Resting
  <2>11. NotCrossed'
    <3> SUFFICES ASSUME NEW b \in index', NEW a \in index',
                        order[b].side = Buy, order[a].side = Sell
                 PROVE  order[b].price < order[a].price
      BY <2>1 DEF NotCrossed
    <3>1. order[b].price \in Int /\ order[a].price \in Int /\ a # b
      BY <1>2, <2>7, OrdersAre DEF Buy, Sell
    <3>2. CASE a \in index /\ b \in index
      BY <1>2, <3>2 DEF NotCrossed
    <3>3. CASE b = Taker
      <4>1. a \in index /\ order[a].side = Opposite(o.side)
        BY <2>1, <3>1, <3>3 DEF Opposite, Buy, Sell
      <4>2. ~Crosses(o.side, o.price, order[a].price)
        BY <1>1, <1>8, <4>1, NobodyLeft
      <4> QED BY <3>1, <3>3, <4>2 DEF Crosses
    <3>4. CASE a = Taker
      <4>1. b \in index /\ order[b].side = Opposite(o.side)
        BY <2>1, <3>1, <3>4 DEF Opposite, Buy, Sell
      <4>2. ~Crosses(o.side, o.price, order[b].price)
        BY <1>1, <1>8, <4>1, NobodyLeft
      <4> QED BY <3>1, <3>4, <4>2 DEF Crosses, Buy, Sell
    <3> QED BY <2>1, <3>2, <3>3, <3>4
  <2> QED BY <2>8, <2>9, <2>10, <2>11 DEF Inductive
<1> QED BY <1>7, <1>8

\* Every step of the engine keeps the invariant: one lemma for each action.
LEMMA NextInductive ==
  ASSUME Inductive, [Next]_vars
  PROVE  Inductive'
<1>1. ASSUME NEW s \in Sessions, NEW p \in Prices, NEW q \in Qtys, RejectSubmit(s, p, q)
      PROVE  Inductive'
  <2>1. Begin /\ Reject(s, IF q <= 0 THEN "BAD_QUANTITY" ELSE "BAD_PRICE")
    BY <1>1 DEF RejectSubmit
  <2>2. (IF q <= 0 THEN "BAD_QUANTITY" ELSE "BAD_PRICE") \in RejectReasons
    BY DEF RejectReasons
  <2> QED BY <2>1, <2>2, RejectInductive
<1>2. ASSUME NEW s \in Sessions, NEW side \in Sides, NEW p \in Prices, NEW q \in Qtys,
             AcceptSubmit(s, side, p, q)
      PROVE  Inductive'
  BY <1>2, AcceptSubmitInductive
<1>3. ASSUME Fill PROVE Inductive'
  BY <1>3, FillInductive
<1>4. ASSUME Finish PROVE Inductive'
  BY <1>4, FinishInductive
<1>5. ASSUME NEW s \in Sessions, NEW id \in 1 .. MaxCommands, RejectCancel(s, id)
      PROVE  Inductive'
  <2>1. Begin /\ CancelRefusal(s, id) # "NONE" /\ Reject(s, CancelRefusal(s, id))
    BY <1>5 DEF RejectCancel
  <2>2. CancelRefusal(s, id) \in RejectReasons
    BY <2>1 DEF CancelRefusal, RejectReasons
  <2> QED BY <2>1, <2>2, RejectInductive
<1>6. ASSUME NEW s \in Sessions, NEW id \in 1 .. MaxCommands, CancelOrder(s, id)
      PROVE  Inductive'
  <2>1. id \in Int
    BY CommandAssumption
  <2> QED BY <1>6, <2>1, CancelOrderInductive
<1>7. ASSUME UNCHANGED vars PROVE Inductive'
  BY <1>7, StutterInductive
<1> QED BY <1>1, <1>2, <1>3, <1>4, <1>5, <1>6, <1>7 DEF Next

-----------------------------------------------------------------------------
(* Theorems *)

\* The inductive invariant holds in every state of every run, whatever the
\* prices, the quantities, the sessions and the number of commands.
THEOREM InductiveHolds == Spec => []Inductive
<1>1. Init => Inductive
  BY InitInductive
<1>2. Inductive /\ [Next]_vars => Inductive'
  BY NextInductive
<1> QED BY <1>1, <1>2, PTL DEF Spec

\* Every variable of the engine keeps its type: no quantity leaves the int64
\* range, no event is malformed, no id dangles.
THEOREM TypeCorrect == Spec => []TypeOK
<1>1. Inductive => TypeOK
  BY DEF Inductive
<1> QED BY <1>1, InductiveHolds, PTL

\* The book is never crossed, not even in the middle of a sweep.
THEOREM NeverCrossed == Spec => []NotCrossed
<1>1. Inductive => NotCrossed
  BY DEF Inductive
<1> QED BY <1>1, InductiveHolds, PTL

\* The index and the ladders agree in every state.
THEOREM IndexAndLaddersAgree == Spec => []IndexMatchesLadder
<1>1. ASSUME Inductive PROVE IndexMatchesLadder
  <2>1. ASSUME NEW s \in Sides, NEW i \in DOMAIN ladder[s], NEW j \in DOMAIN ladder[s][i].orders
        PROVE  LET id == ladder[s][i].orders[j]
               IN  /\ order[id].side = s
                   /\ order[id].price = ladder[s][i].price
                   /\ order[id].open > 0
                   /\ \A k \in DOMAIN ladder[s] : \A l \in DOMAIN ladder[s][k].orders :
                        ladder[s][k].orders[l] = id => k = i /\ l = j
    <3> DEFINE d == ladder[s]
               id == d[i].orders[j]
    <3>1. d \in Seq(Level) /\ WellFormed(s, d, order)
      BY <1>1, SideIs DEF Inductive
    <3>2. DOMAIN d = 1 .. Len(d) /\ i \in 1 .. Len(d)
      BY <2>1, <3>1, LenProperties
    <3>3. \A k \in DOMAIN d : /\ d[k].orders \in Seq(Nat)
                              /\ DOMAIN d[k].orders = 1 .. Len(d[k].orders)
      <4>1. \A k \in DOMAIN d : d[k] \in Level
        BY <3>1, <3>2
      <4>2. \A k \in DOMAIN d : d[k].orders \in Seq(Nat)
        BY <4>1 DEF Level
      <4> QED BY <4>2, LenProperties
    <3>4. order[id].side = s /\ order[id].price = d[i].price /\ order[id].open > 0
      BY <2>1, <3>1, <3>2, <3>3 DEF WellFormed, WellFormedLevel
    <3>5. ASSUME NEW k \in DOMAIN d, NEW l \in DOMAIN d[k].orders, d[k].orders[l] = id
          PROVE  k = i /\ l = j
      <4>1. id \in Range(d[i].orders) /\ id \in Range(d[k].orders)
        BY <2>1, <3>5 DEF Range
      <4>2. k \in 1 .. Len(d)
        BY <3>2, <3>5
      <4>3. k = i
        BY <3>1, <3>2, <4>1, <4>2, LevelsDisjoint
      <4>4. \A a, b \in 1 .. Len(d[i].orders) : a < b => d[i].orders[a] < d[i].orders[b]
        BY <3>1, <3>2 DEF WellFormed, WellFormedLevel
      <4>5. l \in 1 .. Len(d[i].orders) /\ j \in 1 .. Len(d[i].orders) /\ Len(d[i].orders) \in Nat
        BY <2>1, <3>3, <3>5, <4>3
      <4>6. d[i].orders[l] = d[i].orders[j] /\ d[i].orders[j] \in Nat
        BY <3>3, <3>5, <4>3, <4>5
      <4>7. ~(l < j) /\ ~(j < l)
        <5>1. ~(d[i].orders[j] < d[i].orders[j])
          BY <4>6
        <5> QED BY <4>4, <4>5, <4>6, <5>1
      <4> QED BY <4>3, <4>5, <4>7
    <3> QED BY <3>4, <3>5
  <2> QED BY <1>1, <2>1 DEF IndexMatchesLadder, Inductive
<1> QED BY <1>1, InductiveHolds, PTL

\* Time priority is never lost: who is ahead of whom at a price does not change,
\* because every queue of every state is in the order of the ids.
THEOREM NobodyJumpsTheQueue == Spec => NoQueueJump
<1>1. ASSUME Inductive, Inductive' PROVE QueuesKeepOrder
  <2> SUFFICES ASSUME NEW s \in Sides, NEW i \in DOMAIN ladder[s], NEW i2 \in DOMAIN ladder'[s],
                      NEW a \in DOMAIN ladder[s][i].orders, NEW b \in DOMAIN ladder[s][i].orders,
                      NEW a2 \in DOMAIN ladder'[s][i2].orders,
                      NEW b2 \in DOMAIN ladder'[s][i2].orders,
                      ladder[s][i].orders[a] = ladder'[s][i2].orders[a2],
                      ladder[s][i].orders[b] = ladder'[s][i2].orders[b2],
                      a < b
               PROVE  a2 < b2
    BY DEF QueuesKeepOrder
  <2> DEFINE q == ladder[s][i].orders
             r == ladder'[s][i2].orders
  <2>1. ladder[s] \in Seq(Level) /\ WellFormed(s, ladder[s], order)
    BY <1>1 DEF Inductive, TypeOK, LaddersWellFormed
  <2>2. ladder'[s] \in Seq(Level) /\ WellFormed(s, ladder'[s], order')
    BY <1>1 DEF Inductive, TypeOK, LaddersWellFormed
  <2>3. i \in 1 .. Len(ladder[s]) /\ i2 \in 1 .. Len(ladder'[s])
    BY <2>1, <2>2, LenProperties
  <2>4. ladder[s][i] \in Level /\ ladder'[s][i2] \in Level
    BY <2>1, <2>2, <2>3
  <2>5. q \in Seq(Nat) /\ r \in Seq(Nat)
    BY <2>4 DEF Level
  <2>6. /\ DOMAIN q = 1 .. Len(q) /\ Len(q) \in Nat
        /\ DOMAIN r = 1 .. Len(r) /\ Len(r) \in Nat
    BY <2>5, LenProperties
  <2>7. q[a] < q[b]
    BY <2>1, <2>3, <2>6 DEF WellFormed, WellFormedLevel
  <2>8. \A j, k \in 1 .. Len(r) : j < k => r[j] < r[k]
    BY <2>2, <2>3 DEF WellFormed, WellFormedLevel
  <2>9. q[a] = r[a2] /\ q[b] = r[b2]
    OBVIOUS
  <2> HIDE DEF q, r
  <2>10. a2 \in 1 .. Len(r) /\ b2 \in 1 .. Len(r) /\ r[a2] < r[b2]
    BY <2>6, <2>7, <2>9 DEF r
  <2>11. r[a2] \in Nat /\ r[b2] \in Nat
    BY <2>5, <2>10
  <2>12. ~(b2 < a2) /\ a2 # b2
    BY <2>8, <2>10, <2>11
  <2> QED BY <2>6, <2>10, <2>12
<1>2. Inductive /\ Inductive' => [QueuesKeepOrder]_vars
  BY <1>1
<1> QED BY <1>2, InductiveHolds, PTL DEF NoQueueJump

\* No order is lost: what leaves the book is filled or given back to its owner.
THEOREM OrdersLeaveProperly == Spec => LeavesFilledOrReleased
<1>1. ASSUME Inductive, [Next]_vars PROVE [LeavesProperly]_vars
  <2> SUFFICES ASSUME Next, NEW id \in index \ index'
               PROVE  \/ order'[id].open = 0
                      \/ /\ order'[id].open = order[id].open
                         /\ \E i \in DOMAIN result'.events :
                              LET e == result'.events[i]
                              IN  /\ e.type = "canceled" /\ e.id = id
                                  /\ e.session = order[id].session
                                  /\ e.released = order[id].open
    BY <1>1 DEF LeavesProperly
  <2>1. CASE Fill
    <3>1. /\ index' = IF order'[Opp[1].orders[1]].open = 0 THEN index \ {Opp[1].orders[1]}
                                                          ELSE index
      BY <1>1, <2>1, FillLadder
    <3> QED BY <3>1
  <2>2. ASSUME NEW s \in Sessions, NEW x \in 1 .. MaxCommands, CancelOrder(s, x)
        PROVE  /\ order'[id].open = order[id].open
               /\ \E i \in DOMAIN result'.events :
                    LET e == result'.events[i]
                    IN  /\ e.type = "canceled" /\ e.id = id
                        /\ e.session = order[id].session
                        /\ e.released = order[id].open
    <3> DEFINE e == [type |-> "canceled", id |-> x, session |-> s, released |-> order[x].open]
    <3>1. /\ index' = index \ {x} /\ order' = order /\ CancelRefusal(s, x) = "NONE"
          /\ result' = [events |-> <<e>>, report |-> Report(NoTaker)]
      BY <2>2 DEF CancelOrder, Return
    <3>2. id = x /\ order[x].session = s
      BY <3>1 DEF CancelRefusal
    <3>3. result'.events = <<e>> /\ 1 \in DOMAIN <<e>> /\ <<e>>[1] = e
      BY <3>1
    <3>4. e.type = "canceled" /\ e.id = id /\ e.session = order[id].session
          /\ e.released = order[id].open
      BY <3>2
    <3> HIDE DEF e
    <3> QED BY <3>1, <3>3, <3>4
  <2>3. CASE Finish
    BY <2>3 DEF Finish
  <2>4. ASSUME NEW s \in Sessions, NEW p \in Prices, NEW q \in Qtys, NEW side \in Sides,
               RejectSubmit(s, p, q) \/ AcceptSubmit(s, side, p, q)
        PROVE  FALSE
    BY <2>4 DEF RejectSubmit, Reject, AcceptSubmit
  <2>5. ASSUME NEW s \in Sessions, NEW x \in 1 .. MaxCommands, RejectCancel(s, x)
        PROVE  FALSE
    BY <2>5 DEF RejectCancel, Reject
  <2> QED
    <3>1. Buy \in Sides
      BY DEF Sides
    <3> QED BY <2>1, <2>2, <2>3, <2>4, <2>5, <3>1 DEF Next
<1> QED BY <1>1, InductiveHolds, PTL DEF Spec, LeavesFilledOrReleased

\* Price-time priority: a fill takes the order that stands first among all those
\* resting on the other side, and pays its price.
THEOREM FillsTakeTheBest == Spec => FillsBestMaker
<1>1. ASSUME Inductive, Fill PROVE FillTakesBest
  <2> DEFINE maker == Opp[1].orders[1]
             s     == Opposite(order[Taker].side)
  <2>1. pc = "sweep" /\ CanFill /\ Opp # <<>>
    BY <1>1 DEF Fill, CanFill
  <2>2. /\ Opp \in Seq(Level) /\ WellFormed(s, Opp, order)
        /\ maker \in DOMAIN order /\ order[maker].side = s /\ order[maker].price = Opp[1].price
    BY <1>1, <2>1, MakerIs
  <2>3. /\ Opp = ladder[s] /\ s \in Sides /\ Taker \notin index
        /\ \A k : k \in Queued(ladder[s]) <=> k \in index /\ order[k].side = s
    <3>1. Opp = ladder[s] /\ s \in Sides /\ Taker \notin index
      BY <1>1, <2>1, TakerIs
    <3> QED BY <1>1, <3>1, SideIs DEF Inductive
  <2>4. index \subseteq DOMAIN order /\ order \in Seq(Order) /\ IdsInArrivalOrder
    BY <1>1 DEF Inductive, TypeOK
  <2>5. fills' = Append(fills, [price |-> Opp[1].price, qty |-> FillQty(order[Taker], order[maker]),
                                makerSeq |-> order[maker].seq,
                                makerLeft |-> order[maker].open - FillQty(order[Taker], order[maker])])
    BY <1>1 DEF Fill
  <2>6. fills'[Len(fills')].price = Opp[1].price
    <3>1. fills \in Seq(Trade)
      BY <1>1 DEF Inductive, TypeOK
    <3> DEFINE told == [price |-> Opp[1].price, qty |-> FillQty(order[Taker], order[maker]),
                        makerSeq |-> order[maker].seq,
                        makerLeft |-> order[maker].open - FillQty(order[Taker], order[maker])]
    <3>2. told.price = Opp[1].price
      OBVIOUS
    <3> HIDE DEF told
    <3>3. Append(fills, told)[Len(Append(fills, told))] = told
      BY <3>1
    <3>4. fills' = Append(fills, told)
      BY <2>5 DEF told
    <3> QED BY <3>2, <3>3, <3>4
  <2>7. ASSUME NEW m \in index, order'[m].open < order[m].open
        PROVE  m = maker
    <3>1. \A id \in DOMAIN order : id # maker /\ id # Taker => order'[id].open = order[id].open
      BY <1>1, FillIs
    <3>2. m # Taker /\ m \in DOMAIN order /\ order[m].open \in Int
      BY <2>3, <2>4, OrdersAre
    <3> HIDE DEF maker
    <3> QED BY <2>7, <3>1, <3>2
  <2>8. ASSUME NEW k \in index \ {maker}, order[k].side = order[maker].side
        PROVE  Before(maker, k)
    <3>1. k \in Queued(Opp) /\ k # maker
      BY <2>2, <2>3, <2>8
    <3>2. \/ Better(s, Opp[1].price, order[k].price)
          \/ Opp[1].price = order[k].price /\ maker < k
      BY <2>1, <2>2, <3>1, BestIsFirst
    <3>3. maker < k => order[maker].seq < order[k].seq
      BY <2>2, <2>4, <2>8 DEF IdsInArrivalOrder
    <3> HIDE DEF maker, s
    <3> QED BY <2>2, <3>2, <3>3 DEF Before
  <2>9. Crosses(order[Taker].side, order[Taker].price, Opp[1].price)
    BY <2>1 DEF CanFill
  <2> HIDE DEF maker, s
  <2> QED BY <2>2, <2>6, <2>7, <2>8, <2>9 DEF FillTakesBest, s
<1>2. ASSUME Inductive, [Next]_vars, ~Fill PROVE [FillTakesBest]_vars
  <2> SUFFICES ASSUME NEW m \in index PROVE ~(order'[m].open < order[m].open) \/ UNCHANGED vars \/ pc # "sweep"
    BY DEF FillTakesBest
  <2>1. m \in DOMAIN order /\ order[m].open \in Int
    BY <1>2, OrdersAre DEF Inductive, TypeOK
  <2>2. CASE Finish
    BY <2>1, <2>2 DEF Finish
  <2>3. CASE pc = "sweep" /\ ~Finish
    BY <1>2, <2>3 DEF Next, RejectSubmit, AcceptSubmit, RejectCancel, CancelOrder, Begin
  <2> QED BY <2>2, <2>3
<1>3. Inductive /\ [Next]_vars => [FillTakesBest]_vars
  BY <1>1, <1>2
<1> QED BY <1>3, InductiveHolds, PTL DEF Spec, FillsBestMaker

-----------------------------------------------------------------------------
(* The engine implements the market of PriceTime *)

\* The market of a state, as the instance Market substitutes it.
Incoming == IF pc = "sweep" THEN {MarketOrder(Taker)} ELSE {}
Said == IF result.events = <<>> THEN <<>> ELSE Last(result.events)
RestingOrders == {MarketOrder(id) : id \in index}

\* A rejected command (book.go:90-95, :132-152) changes nothing in the market.
LEMMA RejectIsRefuse ==
  ASSUME Inductive, Begin, NEW s \in Sessions, NEW why \in RejectReasons, Reject(s, why)
  PROVE  Market!Next
<1> DEFINE e == [type |-> "rejected", session |-> s, reason |-> why]
<1>1. /\ pc = "idle" /\ UNCHANGED <<ladder, order, index, pc>>
      /\ result'.events = <<e>>
  BY DEF Reject, Return, Begin
<1>2. Incoming = {} /\ Incoming' = {} /\ RestingOrders' = RestingOrders
  BY <1>1 DEF Incoming, RestingOrders, MarketOrder
<1>3. Said' = e
  <2> HIDE DEF e
  <2>1. Last(<<e>>) = e /\ <<e>> # <<>>
    BY DEF Last
  <2> QED BY <1>1, <2>1 DEF Said
<1>4. Market!Refuse
  <2>1. why \in Market!RejectReasons
    BY DEF Market!RejectReasons, RejectReasons
  <2> QED BY <1>1, <1>2, <1>3, <2>1 DEF Market!Refuse, Incoming, Said, RestingOrders
<1> QED BY <1>4 DEF Market!Next

\* An accepted submit (book.go:97-107) puts one arriving order in front of the market.
LEMMA AcceptIsArrive ==
  ASSUME Inductive, NEW s \in Sessions, NEW side \in Sides, NEW price \in Prices,
         NEW qty \in Qtys, AcceptSubmit(s, side, price, qty)
  PROVE  Market!Next
<1> DEFINE o == [session |-> s, side |-> side, price |-> price,
                 qty |-> qty, open |-> qty, seq |-> seq + 1]
           e == [type |-> "accepted", id |-> Len(order) + 1, session |-> s,
                 side |-> side, price |-> price, open |-> qty]
           m == [id |-> Len(order) + 1, session |-> s, side |-> side, price |-> price, open |-> qty]
<1>1. /\ pc = "idle" /\ pc' = "sweep" /\ qty > 0 /\ price > 0
      /\ order' = Append(order, o) /\ result'.events = <<e>> /\ index' = index
  BY DEF AcceptSubmit, Begin
<1>2. order \in Seq(Order) /\ index \subseteq DOMAIN order
  BY DEF Inductive, TypeOK
<1>3. price \in 1 .. (Int64Half - 1) /\ qty \in 1 .. (Int64Half - 1)
  <2>1. price \in Int64s /\ qty \in Int64s /\ Int64Half \in Int
    BY CommandAssumption, Int64HalfAssumption
  <2> QED BY <1>1, <2>1 DEF Int64s
<1>4. o \in Order
  <2>1. price \in Int64s /\ qty \in Int64s /\ seq \in Nat
    BY CommandAssumption DEF Inductive, TypeOK
  <2> QED BY <2>1 DEF Order
<1>5. o.session = s /\ o.side = side /\ o.price = price /\ o.open = qty
  OBVIOUS
<1> HIDE DEF o
<1>6. /\ Len(order) \in Nat /\ Len(order') = Len(order) + 1
      /\ \A a \in DOMAIN order : order'[a] = order[a]
      /\ order'[Len(order) + 1] = o
  BY <1>1, <1>2, <1>4, AppendProperties, LenProperties
<1>7. RestingOrders' = RestingOrders
  BY <1>1, <1>2, <1>6 DEF RestingOrders, MarketOrder
<1>8. Incoming = {} /\ Incoming' = {m}
  BY <1>1, <1>5, <1>6 DEF Incoming, MarketOrder, Taker
<1>9. Said' = e
  <2> HIDE DEF e
  <2>1. Last(<<e>>) = e /\ <<e>> # <<>>
    BY DEF Last
  <2> QED BY <1>1, <2>1 DEF Said
<1>10. Market!Arrive(s, side, price, qty)
  BY <1>1, <1>6, <1>7, <1>8, <1>9 DEF Market!Arrive, Incoming, Said, RestingOrders
<1>11. side \in Market!Sides
  BY DEF Market!Sides, Market!Buy, Market!Sell, Sides, Buy, Sell
<1> QED BY <1>3, <1>10, <1>11 DEF Market!Next

\* A cancel (book.go:143-157) withdraws the order from the market and nothing else.
LEMMA CancelIsWithdraw ==
  ASSUME Inductive, NEW s \in Sessions, NEW id \in Int, CancelOrder(s, id)
  PROVE  Market!Next
<1> DEFINE m == MarketOrder(id)
           e == [type |-> "canceled", id |-> id, session |-> s, released |-> order[id].open]
<1>1. /\ pc = "idle" /\ index' = index \ {id} /\ result'.events = <<e>>
      /\ UNCHANGED <<order, pc>> /\ id \in index /\ order[id].session = s
  BY DEF CancelOrder, Begin, Return, CancelRefusal
<1>2. Incoming = {} /\ Incoming' = {}
  BY <1>1 DEF Incoming
<1>3. m \in RestingOrders /\ m.id = id /\ m.session = s /\ m.open = order[id].open
  BY <1>1 DEF RestingOrders, MarketOrder
<1>4. RestingOrders' = RestingOrders \ {m}
  <2>1. \A x : MarketOrder(x).id = x
    BY DEF MarketOrder
  <2>2. RestingOrders' = {MarketOrder(x) : x \in index \ {id}}
    BY <1>1 DEF RestingOrders, MarketOrder
  <2>3. ASSUME NEW x \in index PROVE MarketOrder(x) = m <=> x = id
    BY <2>1
  <2> HIDE DEF m
  <2> QED BY <2>2, <2>3 DEF RestingOrders
<1>5. Said' = e
  <2> HIDE DEF e
  <2>1. Last(<<e>>) = e /\ <<e>> # <<>>
    BY DEF Last
  <2> QED BY <1>1, <2>1 DEF Said
<1> HIDE DEF m
<1>6. Market!Withdraw(m)
  BY <1>1, <1>2, <1>3, <1>4, <1>5 DEF Market!Withdraw, Incoming, Said, RestingOrders
<1> QED BY <1>3, <1>6 DEF Market!Next, RestingOrders

\* The words of the market mean what they mean in the engine.
LEMMA SameWords ==
  /\ \A s \in Sides : Market!Opposite(s) = Opposite(s)
  /\ Market!Buy = Buy /\ Market!Sell = Sell
BY DEF Market!Opposite, Opposite, Market!Buy, Market!Sell, Buy, Sell

\* A trip of the match loop is one trade of the market with the order it must trade with.
LEMMA FillIsTrade ==
  ASSUME Inductive, Fill
  PROVE  Market!Next
<1> DEFINE maker == Opp[1].orders[1]
           n     == FillQty(order[Taker], order[maker])
           s     == Opposite(order[Taker].side)
           spent == order'[maker].open = 0
           t     == MarketOrder(Taker)
           m     == MarketOrder(maker)
           trade == [type |-> "traded", price |-> Opp[1].price, qty |-> n,
                     taker |-> Taker, maker |-> maker, makerLeft |-> order[maker].open - n]
<1>1. /\ pc = "sweep" /\ pc' = "sweep" /\ CanFill /\ Opp # <<>> /\ order[Taker].open > 0
      /\ Crosses(order[Taker].side, order[Taker].price, Opp[1].price)
      /\ result' = [result EXCEPT !.events = Append(@, trade)]
  BY DEF Fill, CanFill
<1>2. /\ TypeOK /\ index \subseteq DOMAIN order /\ order \in Seq(Order)
      /\ result.events \in Seq(Event)
  BY DEF Inductive, TypeOK
<1>3. /\ n \in Int /\ n \in Int64s /\ n > 0 /\ n <= order[maker].open
      /\ Len(order') = Len(order)
      /\ \A id \in DOMAIN order :
            /\ order'[id].side = order[id].side
            /\ order'[id].price = order[id].price
            /\ order'[id].session = order[id].session
            /\ id # maker /\ id # Taker => order'[id].open = order[id].open
      /\ order'[maker].open = order[maker].open - n
      /\ order'[Taker].open = order[Taker].open - n
  BY FillIs
<1>4. /\ Opp \in Seq(Level) /\ WellFormed(s, Opp, order)
      /\ maker \in Queued(Opp) /\ maker \in index /\ maker \in DOMAIN order
      /\ maker # Taker
      /\ order[maker].side = s /\ order[maker].price = Opp[1].price /\ order[maker].open > 0
  BY <1>1, MakerIs
<1>5. /\ Taker \in DOMAIN order /\ Taker \in Nat /\ Taker \notin index
      /\ Opp = ladder[s] /\ order[Taker].side \in Sides /\ s \in Sides
  BY <1>1, TakerIs
<1>6. index' = IF spent THEN index \ {maker} ELSE index
  BY FillLadder
<1>7. n = IF order[maker].open < order[Taker].open THEN order[maker].open ELSE order[Taker].open
  BY DEF FillQty
<1>8. trade \in Event
  <2>1. Opp[1].price \in Int64s /\ order[maker].open \in Int64s /\ maker \in Nat
    BY <1>2, <1>4, OrdersAre
  <2>2. order[maker].open - n \in Int64s
    <3>1. order[maker].open \in Int
      BY <2>1, Int64sAre
    <3>2. 0 <= order[maker].open - n /\ order[maker].open - n <= order[maker].open
          /\ order[maker].open - n \in Int
      BY <1>3, <3>1
    <3> QED BY <2>1, <3>2, Int64sAre
  <2> QED BY <1>3, <1>5, <2>1, <2>2 DEF Event
<1> HIDE DEF trade
<1>9. Said' = trade
  <2>1. result' .events = Append(result.events, trade)
    BY <1>1, <1>2 DEF TypeOK
  <2>2. Append(result.events, trade) # <<>> /\ Last(Append(result.events, trade)) = trade
    BY <1>2, <1>8 DEF Last
  <2> QED BY <2>1, <2>2 DEF Said
<1> HIDE DEF n, maker, s
<1>10. /\ t.open = order[Taker].open /\ t.side = order[Taker].side /\ t.price = order[Taker].price
       /\ t.id = Taker /\ t = [id |-> Taker, session |-> order[Taker].session, side |-> order[Taker].side,
                               price |-> order[Taker].price, open |-> order[Taker].open]
       /\ m.open = order[maker].open /\ m.side = s /\ m.price = Opp[1].price /\ m.id = maker
       /\ m = [id |-> maker, session |-> order[maker].session, side |-> order[maker].side,
               price |-> order[maker].price, open |-> order[maker].open]
  BY <1>4 DEF MarketOrder
<1>11. Incoming = {t} /\ Incoming' = {[t EXCEPT !.open = @ - n]}
  <2>1. Taker' = Taker
    BY <1>3 DEF Taker
  <2>2. MarketOrder(Taker)' = [t EXCEPT !.open = @ - n]
    <3>1. [t EXCEPT !.open = @ - n] =
            [id |-> Taker, session |-> order[Taker].session, side |-> order[Taker].side,
             price |-> order[Taker].price, open |-> order[Taker].open - n]
      BY <1>10
    <3>2. MarketOrder(Taker)' =
            [id |-> Taker, session |-> order'[Taker].session, side |-> order'[Taker].side,
             price |-> order'[Taker].price, open |-> order'[Taker].open]
      BY <2>1 DEF MarketOrder
    <3> QED BY <1>3, <1>5, <3>1, <3>2
  <2> QED BY <1>1, <2>1, <2>2 DEF Incoming
<1>12. m \in RestingOrders
  BY <1>4 DEF RestingOrders
<1>13. RestingOrders' = (RestingOrders \ {m}) \cup {k \in {[m EXCEPT !.open = @ - n]} : k.open > 0}
  <2> DEFINE after(x) == [id |-> x, session |-> order'[x].session, side |-> order'[x].side,
                          price |-> order'[x].price, open |-> order'[x].open]
             left     == [m EXCEPT !.open = @ - n]
  <2>1. RestingOrders' = {after(x) : x \in index'}
    BY DEF RestingOrders, MarketOrder
  <2>2. \A x \in index : x # maker => after(x) = MarketOrder(x) /\ MarketOrder(x) # m
    BY <1>2, <1>3, <1>5, <1>10 DEF MarketOrder
  <2>3. after(maker) = left
    BY <1>3, <1>4, <1>10
  <2>4. left.open = order[maker].open - n
    BY <1>10
  <2>5. (left.open > 0) <=> ~spent
    <3>1. order[maker].open \in Int
      BY <1>2, <1>4, OrdersAre
    <3> QED BY <1>3, <2>4, <3>1
  <2>6. \A x \in index' : x \in index
    BY <1>6
  <2>7. m = MarketOrder(maker)
    OBVIOUS
  <2> HIDE DEF after, left, m, t
  <2>8. ASSUME NEW k \in RestingOrders' PROVE k \in RestingOrders \ {m} \/ (k = left /\ left.open > 0)
    <3>1. PICK x \in index' : k = after(x)
      BY <2>1
    <3>2. CASE x = maker
      BY <1>6, <2>3, <2>5, <3>1, <3>2
    <3>3. CASE x # maker
      BY <2>2, <2>6, <3>1, <3>3 DEF RestingOrders
    <3> QED BY <3>2, <3>3
  <2>9. ASSUME NEW k \in RestingOrders, k # m PROVE k \in RestingOrders'
    <3>1. PICK x \in index : k = MarketOrder(x)
      BY DEF RestingOrders
    <3>2. x # maker /\ x \in index'
      BY <1>6, <2>7, <2>9, <3>1
    <3> QED BY <2>1, <2>2, <3>1, <3>2
  <2>10. left.open > 0 => left \in RestingOrders'
    BY <1>4, <1>6, <2>1, <2>3, <2>5
  <2> QED BY <2>8, <2>9, <2>10 DEF left
<1>14. Market!Willing(t, m)
  BY <1>1, <1>5, <1>10, SameWords DEF Market!Willing, Crosses, s
<1>15. Market!First(m)
  <2> SUFFICES ASSUME NEW k \in RestingOrders \ {m}, k.side = m.side PROVE Market!Precedes(m, k)
    BY DEF Market!First, RestingOrders
  <2>1. PICK x \in index : k = MarketOrder(x)
    BY DEF RestingOrders
  <2>2. /\ k.side = order[x].side /\ k.price = order[x].price /\ k.id = x /\ x # maker
        /\ order[x].side = s
    BY <1>10, <2>1 DEF MarketOrder
  <2>3. x \in Queued(Opp)
    BY <1>5, <2>2, SideIs DEF Inductive
  <2>4. \/ Better(s, Opp[1].price, order[x].price)
        \/ Opp[1].price = order[x].price /\ maker < x
    BY <1>1, <1>4, <2>2, <2>3, BestIsFirst DEF maker
  <2> HIDE DEF m, t
  <2> QED BY <1>10, <2>2, <2>4, SameWords DEF Market!Precedes, Better
<1>16. Market!Trade(t, m)
  <2> HIDE DEF m, t
  <2>1. n = IF m.open < t.open THEN m.open ELSE t.open
    BY <1>7, <1>10
  <2>2. Said' = [type |-> "traded", price |-> m.price, qty |-> n,
                 taker |-> t.id, maker |-> m.id, makerLeft |-> m.open - n]
    BY <1>9, <1>10 DEF trade
  <2> QED BY <1>1, <1>3, <1>10, <1>11, <1>13, <1>14, <1>15, <2>1, <2>2
      DEF Market!Trade, Incoming, Said, RestingOrders
<1> HIDE DEF m, t
<1> QED BY <1>11, <1>12, <1>16 DEF Market!Next, Incoming, RestingOrders

\* The end of a submit (book.go:115) leaves the remainder resting or nothing.
LEMMA FinishIsSettle ==
  ASSUME Inductive, Finish
  PROVE  Market!Next
<1> DEFINE o      == order[Taker]
           t      == MarketOrder(Taker)
           rested == [type |-> "rested", id |-> Taker, open |-> o.open]
<1>1. /\ pc = "sweep" /\ pc' = "idle" /\ ~CanFill /\ order' = order
      /\ index' = IF o.open > 0 THEN index \cup {Taker} ELSE index
      /\ result'.events = IF o.open > 0 THEN Append(result.events, rested) ELSE result.events
  BY DEF Finish
<1>2. /\ order \in Seq(Order) /\ index \subseteq DOMAIN order /\ index = Resting
      /\ result.events \in Seq(Event)
  BY DEF Inductive, TypeOK
<1>3. Taker \in DOMAIN order /\ Taker \in Nat /\ o.side \in Sides /\ o.open >= 0
  BY <1>1, TakerIs
<1>4. o.open \in Int64s /\ o.open \in Int
  BY <1>2, <1>3, OrdersAre
<1>5. t.id = Taker /\ t.side = o.side /\ t.price = o.price /\ t.open = o.open
  BY DEF MarketOrder
<1>6. Incoming = {t} /\ Incoming' = {}
  BY <1>1 DEF Incoming
<1>7. RestingOrders' = IF o.open > 0 THEN RestingOrders \cup {t} ELSE RestingOrders
  BY <1>1 DEF RestingOrders, MarketOrder
<1>8. Said' = IF o.open > 0 THEN rested ELSE Said
  <2>1. CASE o.open > 0
    <3>1. rested \in Event
      BY <1>3, <1>4 DEF Event
    <3> HIDE DEF rested
    <3>2. Append(result.events, rested) # <<>> /\ Last(Append(result.events, rested)) = rested
      BY <1>2, <3>1 DEF Last
    <3> QED BY <1>1, <2>1, <3>2 DEF Said
  <2>2. CASE ~(o.open > 0)
    BY <1>1, <2>2 DEF Said
  <2> QED BY <2>1, <2>2
<1>9. t.open = 0 \/ \A m \in RestingOrders : ~Market!Willing(t, m)
  <2> SUFFICES ASSUME o.open > 0, NEW x \in index, Market!Willing(t, MarketOrder(x)) PROVE FALSE
    BY <1>3, <1>4, <1>5 DEF RestingOrders
  <2>1. MarketOrder(x).side = order[x].side /\ MarketOrder(x).price = order[x].price
    BY DEF MarketOrder
  <2> HIDE DEF t
  <2>2. order[x].side = Opposite(o.side) /\ Crosses(o.side, o.price, order[x].price)
    BY <1>3, <1>5, <2>1, SameWords DEF Market!Willing, Crosses
  <2> QED BY <1>1, <2>2, NobodyLeft
<1>10. Market!Settle(t)
  <2> HIDE DEF t
  <2> QED BY <1>1, <1>5, <1>6, <1>7, <1>8, <1>9 DEF Market!Settle, Incoming, Said, RestingOrders
<1> HIDE DEF t
<1> QED BY <1>6, <1>10 DEF Market!Next, Incoming

\* The matching engine is a price-time priority market: its ladders, its index and
\* its loop, event by event, do what PriceTime promises, for every value of the
\* constants.
THEOREM BookImplementsPriceTime == Spec => ImplementsPriceTime
<1>1. Init => Market!Init
  BY DEF Init, Market!Init
<1>2. ASSUME Inductive, [Next]_vars PROVE [Market!Next]_(Market!vars)
  <2>1. CASE UNCHANGED vars
    <3>1. RestingOrders' = RestingOrders /\ Incoming' = Incoming /\ Said' = Said
          /\ Len(order)' = Len(order)
      BY <2>1 DEF vars, RestingOrders, Incoming, Said, MarketOrder, Taker
    <3> QED BY <3>1 DEF Market!vars, RestingOrders, Incoming, Said
  <2>2. ASSUME NEW s \in Sessions, NEW p \in Prices, NEW q \in Qtys, RejectSubmit(s, p, q)
        PROVE  Market!Next
    <3>1. Begin /\ Reject(s, IF q <= 0 THEN "BAD_QUANTITY" ELSE "BAD_PRICE")
      BY <2>2 DEF RejectSubmit
    <3>2. (IF q <= 0 THEN "BAD_QUANTITY" ELSE "BAD_PRICE") \in RejectReasons
      BY DEF RejectReasons
    <3> QED BY <1>2, <3>1, <3>2, RejectIsRefuse
  <2>3. ASSUME NEW s \in Sessions, NEW side \in Sides, NEW p \in Prices, NEW q \in Qtys,
               AcceptSubmit(s, side, p, q)
        PROVE  Market!Next
    BY <1>2, <2>3, AcceptIsArrive
  <2>4. ASSUME NEW s \in Sessions, NEW id \in 1 .. MaxCommands, RejectCancel(s, id)
        PROVE  Market!Next
    <3>1. Begin /\ CancelRefusal(s, id) # "NONE" /\ Reject(s, CancelRefusal(s, id))
      BY <2>4 DEF RejectCancel
    <3>2. CancelRefusal(s, id) \in RejectReasons
      BY <3>1 DEF CancelRefusal, RejectReasons
    <3> QED BY <1>2, <3>1, <3>2, RejectIsRefuse
  <2>5. ASSUME NEW s \in Sessions, NEW id \in 1 .. MaxCommands, CancelOrder(s, id)
        PROVE  Market!Next
    <3>1. id \in Int
      BY CommandAssumption
    <3> QED BY <1>2, <2>5, <3>1, CancelIsWithdraw
  <2>6. CASE Fill
    BY <1>2, <2>6, FillIsTrade
  <2>7. CASE Finish
    BY <1>2, <2>7, FinishIsSettle
  <2> QED BY <1>2, <2>1, <2>2, <2>3, <2>4, <2>5, <2>6, <2>7 DEF Next
<1> QED BY <1>1, <1>2, InductiveHolds, PTL DEF Spec, ImplementsPriceTime, Market!Spec
=============================================================================
