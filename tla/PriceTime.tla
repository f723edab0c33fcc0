----------------------------- MODULE PriceTime -----------------------------
(***************************************************************************)
(* What the engine promises: a market with price-time priority, told       *)
(* without ladders, queues, an index or a ledger.                          *)
(*                                                                         *)
(* The book is a set of resting orders.  An order arrives, trades with the *)
(* best resting order of the other side for as long as one is willing, and *)
(* what is left of it rests.  Its owner may withdraw it.  Each step emits  *)
(* one event, and the event together with the market before it determines  *)
(* the market after it: replaying the stream rebuilds the book             *)
(* (event.go:11-12).                                                       *)
(***************************************************************************)
EXTENDS Types

VARIABLES
    resting,   \* the set of resting orders
    incoming,  \* the order that is trading its way in, as a set of at most one
    arrivals,  \* how many orders were accepted: the id of the last one
    said       \* the last event, <<>> before the first

vars == <<resting, incoming, arrivals, said>>

Willing(taker, maker) ==
    /\ maker.side = Opposite(taker.side)
    /\ IF taker.side = Buy THEN taker.price >= maker.price ELSE taker.price <= maker.price

\* m comes before k: a better price, or the same price and an earlier arrival.
Precedes(m, k) ==
    \/ IF m.side = Buy THEN m.price > k.price ELSE m.price < k.price
    \/ m.price = k.price /\ m.id < k.id

\* The first in line of the orders resting on m's side.
First(m) == \A k \in resting \ {m} : k.side = m.side => Precedes(m, k)

Init ==
    /\ resting = {}
    /\ incoming = {}
    /\ arrivals = 0
    /\ said = <<>>

Refuse ==
    /\ incoming = {}
    /\ \E s \in Sessions, why \in RejectReasons :
         said' = [type |-> "rejected", session |-> s, reason |-> why]
    /\ UNCHANGED <<resting, incoming, arrivals>>

Arrive(s, side, price, qty) ==
    LET o == [id |-> arrivals + 1, session |-> s, side |-> side, price |-> price, open |-> qty]
    IN  /\ incoming = {}
        /\ price > 0 /\ qty > 0
        /\ incoming' = {o}
        /\ arrivals' = o.id
        /\ said' = [type |-> "accepted", id |-> o.id, session |-> s, side |-> side,
                    price |-> price, open |-> qty]
        /\ UNCHANGED resting

Trade(t, m) ==
    LET n == IF m.open < t.open THEN m.open ELSE t.open
    IN  /\ t.open > 0
        /\ Willing(t, m)
        /\ First(m)
        /\ incoming' = {[t EXCEPT !.open = @ - n]}
        /\ resting' = (resting \ {m}) \cup
                      {k \in {[m EXCEPT !.open = @ - n]} : k.open > 0}
        /\ said' = [type |-> "traded", price |-> m.price, qty |-> n,
                    taker |-> t.id, maker |-> m.id, makerLeft |-> m.open - n]
        /\ UNCHANGED arrivals

\* Nobody is willing any more, or nothing is left.
Settle(t) ==
    /\ t.open = 0 \/ \A m \in resting : ~Willing(t, m)
    /\ incoming' = {}
    /\ IF t.open > 0
       THEN /\ resting' = resting \cup {t}
            /\ said' = [type |-> "rested", id |-> t.id, open |-> t.open]
       ELSE UNCHANGED <<resting, said>>
    /\ UNCHANGED arrivals

Withdraw(m) ==
    /\ incoming = {}
    /\ resting' = resting \ {m}
    /\ said' = [type |-> "canceled", id |-> m.id, session |-> m.session, released |-> m.open]
    /\ UNCHANGED <<incoming, arrivals>>

Next ==
    \/ Refuse
    \/ \E s \in Sessions, side \in Sides, price, qty \in 1 .. (Int64Half - 1) :
         Arrive(s, side, price, qty)
    \/ \E t \in incoming : Settle(t) \/ \E m \in resting : Trade(t, m)
    \/ \E m \in resting : Withdraw(m)

Spec == Init /\ [][Next]_vars
=============================================================================
