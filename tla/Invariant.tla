----------------------------- MODULE Invariant -----------------------------
(***************************************************************************)
(* The checker of internal/invariant: the ledger it reads and the pure     *)
(* function Check that the engine runs after every command.                *)
(*                                                                         *)
(* A Report is abstracted to the set of the kinds of check that failed     *)
(* (Passed[k] = FALSE); the wording of the violations, and how many of one *)
(* kind there are, is left out.  The input of Check is a record            *)
(*   book   |-> [Sides -> sequence of [price, orders]], an order being     *)
(*              [seq, open]: all the read-only interface lets it see,      *)
(*   ledger |-> the ledger folded from the emitted events,                 *)
(*   pre    |-> [Sides -> frontier photographed before the command],       *)
(*   fills  |-> the trades of the command, in execution order,             *)
(*   taker  |-> [present, side, price, left].                              *)
(* HeadOpen of a frontier is never read by a check and is left out.        *)
(***************************************************************************)
EXTENDS Types, SequencesExt

Kinds == {"CONSERVATION", "NO_CROSSED_BOOK", "PRICE_TIME_PRIORITY", "SWEEP_COMPLETE"}

-----------------------------------------------------------------------------
(* The ledger *)

EmptyLedger ==
    LET zero == [s \in Sides |-> 0]
    IN  [submitted |-> zero, filled |-> zero, canceled |-> zero, notional |-> zero]

LedgerAccept(led, side, qty) ==
    [led EXCEPT !.submitted[side] = Int64(@ + qty)]

\* Plausible bugs: only the buyer is credited; quantity and price change places.
LedgerFillOneSide(led, qty, price) ==
    [led EXCEPT !.filled[Buy] = Int64(@ + qty), !.notional[Buy] = Int64(@ + price * qty)]

LedgerFillSwapped(led, qty, price) ==
    [led EXCEPT !.filled   = [s \in Sides |-> Int64(@[s] + price)],
                !.notional = [s \in Sides |-> Int64(@[s] + price * qty)]]

\* A trade is a transfer: it credits both sides.
LedgerFill(led, qty, price) ==
    [led EXCEPT !.filled   = [s \in Sides |-> Int64(@[s] + qty)],
                !.notional = [s \in Sides |-> Int64(@[s] + price * qty)]]

LedgerCancel(led, side, qty) ==
    [led EXCEPT !.canceled[side] = Int64(@ + qty)]

-----------------------------------------------------------------------------
(* The walk over the book *)

NoFrontier == [empty |-> TRUE, price |-> 0, headSeq |-> 0]
NoTaker    == [present |-> FALSE, side |-> Buy, price |-> 0, left |-> 0]

\* Every order of one side, in the order the walk meets them.
Refs(levels) == FlattenSeq([i \in DOMAIN levels |-> levels[i].orders])

\* The walk adds with wrapping additions; wrapping the sum once is the same.
WalkedLevel(lv)     == SumFunction([j \in DOMAIN lv.orders |-> lv.orders[j].open])
WalkedTotal(levels) == Int64(SumFunction([i \in DOMAIN levels |-> WalkedLevel(levels[i])]))

\* What walkSide reports: an empty level, levels out of order or doubled, a
\* non-positive quantity, a queue out of arrival order.
BadLadder(side, levels) ==
    \/ \E i \in DOMAIN levels : levels[i].orders = <<>>
    \/ \E i \in 2 .. Len(levels) :
         IF side = Buy THEN levels[i].price >= levels[i-1].price
                       ELSE levels[i].price <= levels[i-1].price
    \/ \E i \in DOMAIN levels :
         LET q == levels[i].orders
         IN  \/ \E j \in DOMAIN q : q[j].open <= 0
             \/ \E j \in 2 .. Len(q) : q[j].seq <= q[j-1].seq

-----------------------------------------------------------------------------
(* The four checks *)

\* The last fill against a maker must agree with what the book holds of it.
BadResidual(in) ==
    LET refs == Refs(in.book[Buy]) \o Refs(in.book[Sell])
    IN  \E i \in DOMAIN in.fills :
          LET f  == in.fills[i]
              at == SelectLastInSeq(refs, LAMBDA o : o.seq = f.makerSeq)
          IN  /\ \A k \in (i+1) .. Len(in.fills) : in.fills[k].makerSeq # f.makerSeq
              /\ \/ f.makerLeft < 0
                 \/ f.makerLeft = 0 /\ at # 0
                 \/ f.makerLeft > 0 /\ at = 0
                 \/ f.makerLeft > 0 /\ at # 0 /\ refs[at].open # f.makerLeft

BadConservation(in) ==
    LET l == in.ledger
    IN  \/ \E s \in Sides :
             l.submitted[s] # Int64(WalkedTotal(in.book[s]) + l.filled[s] + l.canceled[s])
        \/ l.filled[Buy] # l.filled[Sell]
        \/ l.notional[Buy] # l.notional[Sell]
        \/ BadResidual(in)

Crossed(in) ==
    /\ in.book[Buy] # <<>> /\ in.book[Sell] # <<>>
    /\ in.book[Buy][1].price >= in.book[Sell][1].price

\* Base case on the frontier, inductive step over the trade list, and the
\* taker's limit.
BadSweepOrder(in) ==
    LET fills == in.fills
        front == in.pre[Opposite(in.taker.side)]
        buyer == in.taker.side = Buy
    IN  /\ fills # <<>> /\ in.taker.present
        /\ \/ front.empty
           \/ fills[1].makerSeq # front.headSeq
           \/ fills[1].price # front.price
           \/ \E i \in 2 .. Len(fills) :
                IF fills[i].price = fills[i-1].price
                THEN fills[i].makerSeq <= fills[i-1].makerSeq
                ELSE buyer <=> fills[i].price < fills[i-1].price
           \/ \E i \in DOMAIN fills :
                \/ fills[i].qty <= 0
                \/ IF buyer THEN fills[i].price > in.taker.price
                            ELSE fills[i].price < in.taker.price

\* The aggressor stopped although the other side was still crossable.
StoppedEarly(in) ==
    LET opp == in.book[Opposite(in.taker.side)]
    IN  /\ in.taker.present /\ in.taker.left > 0 /\ opp # <<>>
        /\ IF in.taker.side = Buy THEN opp[1].price <= in.taker.price
                                  ELSE opp[1].price >= in.taker.price

\* The report of a command: the kinds of check that failed.
Check(in) ==
    {k \in Kinds :
        \/ k = "CONSERVATION" /\ BadConservation(in)
        \/ k = "NO_CROSSED_BOOK" /\ Crossed(in)
        \/ k = "PRICE_TIME_PRIORITY" /\ ( \/ \E s \in Sides : BadLadder(s, in.book[s])
                                          \/ BadSweepOrder(in) )
        \/ k = "SWEEP_COMPLETE" /\ StoppedEarly(in)}
=============================================================================
