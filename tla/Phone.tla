------------------------------- MODULE Phone --------------------------------
(***************************************************************************)
(* One trader's phone and the way of its orders: the optimistic rows of    *)
(* the trader view, the reconnecting socket with its buffer, the decoder,  *)
(* the loop, the frames of the trader's own topic, and back to the rows.   *)
(*                                                                         *)
(* The book is here as what it may answer: fills, best price first and     *)
(* never worse than the limit, and then perhaps a remainder that rests.    *)
(* Whom it trades with, and how busy the loop is, is up to the room.       *)
(* Quantities and the top of the book do not decide which row a frame      *)
(* settles and are left out.  Taps are numbered, which the phone does not  *)
(* do: a row and a frame remember which tap they belong to, and no action  *)
(* looks at it.                                                            *)
(***************************************************************************)
EXTENDS Integers, SequencesExt

CONSTANTS
    Asked,       \* the prices that are asked on the phone, all positive
    MaxPrice,    \* the highest the decoder lets pass (100_000_000)
    MaxQueued,   \* the capacity of the buffer for a socket that is down (8)
    PubDepth,    \* the capacity of the hub's channel of published frames (256)
    SendBuffer,  \* the capacity of the client's send channel (64)
    MaxTaps,     \* a bound on the run: the orders tapped
    MaxFills,    \* a bound on the run: the fills of one order on arrival
    MaxBreaks    \* a bound on the run: how often the connection is lost

VARIABLES
    taps,      \* the orders tapped so far
    rows,      \* st.fills, newest first
    up,        \* the socket is open
    queued,    \* the orders waiting for it
    breaks,    \* how often it was lost
    wire,      \* the orders on their way to the server
    cmds,      \* this trader's commands in the loop's channel
    resting,   \* this trader's orders in the book
    pub,       \* this trader's frames in the hub's channel
    retained,  \* the last of them the hub has seen, as a sequence of at most one
    sock       \* the frames on their way to the phone

phone  == <<taps, rows>>
socket == <<up, queued, breaks>>
server == <<cmds, resting>>
hub    == <<pub, retained, sock>>
vars   == <<phone, socket, wire, server, hub>>

Order == [side : {"buy", "sell"}, px : Asked, tap : 1 .. MaxTaps]

\* A row waits while it was settled by nobody's answer.
Waiting(r) == r.by = 0

Init ==
    /\ taps = 0 /\ rows = <<>>
    /\ up = FALSE /\ queued = <<>> /\ breaks = 0
    /\ wire = <<>> /\ cmds = <<>> /\ resting = {}
    /\ pub = <<>> /\ retained = <<>> /\ sock = <<>>

-----------------------------------------------------------------------------
(* Out: a tap, the socket, the decoder *)

\* A full buffer loses its oldest order.
Buffer(o) ==
    LET q == Append(queued, o)
    IN  IF Len(q) > MaxQueued THEN Tail(q) ELSE q

\* The row appears at once, whatever becomes of the order.
Tap ==
    /\ taps < MaxTaps
    /\ taps' = taps + 1
    /\ \E side \in {"buy", "sell"}, px \in Asked :
        LET o == [side |-> side, px |-> px, tap |-> taps']
        IN  /\ rows' = <<[side |-> side, px |-> px, tap |-> taps', by |-> 0]>> \o rows
            /\ \/ up /\ wire' = Append(wire, o) /\ UNCHANGED queued
               \/ ~up /\ queued' = Buffer(o) /\ UNCHANGED wire
    /\ UNCHANGED <<up, breaks, server, hub>>

\* onopen flushes the buffer; the hub replays the last frame of the trader's topic.
Connect ==
    /\ ~up
    /\ up' = TRUE
    /\ wire' = queued /\ queued' = <<>>
    /\ sock' = retained
    /\ UNCHANGED <<phone, breaks, server, pub, retained>>

\* What is on its way, in either direction, is lost with the connection.
Disconnect ==
    /\ up /\ breaks < MaxBreaks
    /\ up' = FALSE /\ breaks' = breaks + 1
    /\ wire' = <<>> /\ sock' = <<>>
    /\ UNCHANGED <<phone, queued, server, pub, retained>>

Offered(q, cap, fs) == q \o SubSeq(fs, 1, Min({cap - Len(q), Len(fs)}))

Publish(fs) == pub' = Offered(pub, PubDepth, fs)

\* What DecodeCommand objects to in an order of this phone.
OutOfRange(o) == o.px > MaxPrice

Busy(o) == [kind |-> "reject", side |-> o.side, px |-> o.px, of |-> o.tap]

\* The read pump: an order that does not decode is no event, one the loop has no room
\* for is rejected, any other goes into the loop.
ReadOrder ==
    /\ wire # <<>>
    /\ wire' = Tail(wire)
    /\ LET o == Head(wire)
       IN  \/ OutOfRange(o) /\ UNCHANGED <<cmds, pub>>
           \/ ~OutOfRange(o) /\ cmds' = Append(cmds, o) /\ UNCHANGED pub
           \/ ~OutOfRange(o) /\ Publish(<<Busy(o)>>) /\ UNCHANGED cmds
    /\ UNCHANGED <<phone, socket, resting, retained, sock>>

-----------------------------------------------------------------------------
(* The loop and the frames it has for this trader *)

Filled(o, px) == [kind |-> "fill", side |-> o.side, px |-> px, of |-> o.tap]
Rested(o)     == [kind |-> "rested", side |-> o.side, px |-> o.px, of |-> o.tap]

\* The prices at which an order may trade, and the order in which a sweep takes them.
NoWorse(side, a, b) == IF side = "buy" THEN a <= b ELSE a >= b

Sweeps(o) ==
    {s \in BoundedSeq({p \in 1 .. MaxPrice : NoWorse(o.side, p, o.px)}, MaxFills) :
        \A i \in 1 .. Len(s) - 1 : NoWorse(o.side, s[i], s[i + 1])}

\* The fills of the arriving order, and what is left of it rests.
Apply ==
    /\ cmds # <<>>
    /\ cmds' = Tail(cmds)
    /\ LET o == Head(cmds)
       IN  \E s \in Sweeps(o), rests \in BOOLEAN :
            /\ s # <<>> \/ rests
            /\ Publish([i \in DOMAIN s |-> Filled(o, s[i])] \o IF rests THEN <<Rested(o)>> ELSE <<>>)
            /\ resting' = IF rests THEN resting \cup {o} ELSE resting
    /\ UNCHANGED <<phone, socket, wire, retained, sock>>

\* Somebody trades with an order that rests, in part or in full.
Lifted ==
    /\ \E o \in resting :
        /\ Publish(<<Filled(o, o.px)>>)
        /\ resting' \in {resting, resting \ {o}}
    /\ UNCHANGED <<phone, socket, wire, cmds, retained, sock>>

\* The hub retains the frame, and sends it if the phone is there and has room.
Deliver ==
    /\ pub # <<>>
    /\ pub' = Tail(pub)
    /\ retained' = <<Head(pub)>>
    /\ sock' = IF up THEN Offered(sock, SendBuffer, <<Head(pub)>>) ELSE sock
    /\ UNCHANGED <<phone, socket, wire, server>>

-----------------------------------------------------------------------------
(* Back: the rows *)

SameOrder(f, r) == r.side = f.side /\ r.px = f.px

\* The rows a frame may settle: a rejection takes any that waits.
Candidates(f) ==
    {i \in DOMAIN rows :
        Waiting(rows[i]) /\ (f.kind = "reject" \/ SameOrder(f, rows[i]))}

\* The newest of them is settled.
Settle(f) == [rows EXCEPT ![Min(Candidates(f))].by = f.of]

NewRow(f) == <<[side |-> f.side, px |-> f.px, tap |-> 0, by |-> f.of]>> \o rows

\* A fill that finds no row has one of its own, any other frame is forgotten.
ApplyFrame(f) ==
    CASE Candidates(f) # {}                      -> Settle(f)
      [] Candidates(f) = {} /\ f.kind = "fill"   -> NewRow(f)
      [] Candidates(f) = {} /\ f.kind # "fill"   -> rows

Receive ==
    /\ sock # <<>>
    /\ sock' = Tail(sock)
    /\ rows' = ApplyFrame(Head(sock))
    /\ UNCHANGED <<taps, socket, wire, server, pub, retained>>

Next ==
    \/ Tap \/ Connect \/ Disconnect \/ ReadOrder
    \/ Apply \/ Lifted \/ Deliver
    \/ Receive

Spec == Init /\ [][Next]_vars

-----------------------------------------------------------------------------
(* Properties *)

\* Everything that was sent has been answered, and every answer has arrived.
AllAnswered == up /\ \A q \in {queued, wire, cmds, pub, sock} : q = <<>>

\* When the server has answered, each optimistic row has been reconciled, and with an
\* answer to the order it stands for (trader.js:140-141, 222-241).
RowsSettle ==
    AllAnswered => \A i \in DOMAIN rows : rows[i].tap # 0 => rows[i].by = rows[i].tap
=============================================================================
