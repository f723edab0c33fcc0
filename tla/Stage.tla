------------------------------- MODULE Stage --------------------------------
(***************************************************************************)
(* The demonstration end to end: the loop, the chaos line, the hub and the *)
(* projector with its two panes and two sockets, the server dying and      *)
(* coming back, the sockets breaking and reconnecting.                     *)
(*                                                                         *)
(* Each part is here as what its own module shows of it.  The loop offers  *)
(* a book after every good command and at every keyframe, one halt, and    *)
(* then nothing (Runner).  The chaos line is a bounded queue that keeps    *)
(* the order and may lose frames while it is armed (Chaos implements       *)
(* LossyFifo).  The hub retains, replays to whoever joins, and drops what  *)
(* does not fit a client's channel (Hub).  A frame is its topic and its    *)
(* seq, so a keyframe is the same frame again.  Frames for phones and      *)
(* stats frames, which only take up room, are left out.                    *)
(***************************************************************************)
EXTENDS Integers, SequencesExt

CONSTANTS
    LineDepth,  \* how many frames the chaos line holds, channel and ring (512 each)
    PubDepth,   \* the capacity of the hub's channel of published frames (256)
    SendBuffer, \* the capacity of a client's send channel (64)
    Flaky,      \* a bound on the run: the sockets that may break while the server lives
    MaxLives,   \* a bound on the run: the lives of the server
    MaxCommands \* a bound on the run: the commands in the last life, one fewer in each before it

ASSUME StageAssumption ==
    /\ {LineDepth, PubDepth, MaxLives} \subseteq Nat \ {0} /\ MaxCommands \in Nat
    /\ Flaky \subseteq {"fresh", "stale"}
    /\ SendBuffer \in Nat /\ SendBuffer >= 2

VARIABLES
    life,      \* which life of the server this is
    seq,       \* the engine's Seq
    lastGood,  \* the seq of the last good result, 0 while there is none
    halted,
    armed,     \* the chaos line's policy
    line,      \* the frames in the chaos line
    pub,       \* the hub's channel of published frames
    retained,  \* the last frame of each topic, as a sequence of at most one
    up,        \* which sockets of the projector are connected
    sock,      \* what is on its way on each
    panes,     \* the seq each pane shows, 0 while it shows none
    paneLife,  \* history: the life that book is from
    haltSeen   \* the life of the halt on screen, 0 while there is none

loop   == <<life, seq, lastGood, halted>>
chaos  == <<armed, line>>
hub    == <<pub, retained>>
wires  == <<up, sock>>
screen == <<panes, paneLife, haltSeen>>
vars   == <<loop, chaos, hub, wires, screen>>

Panes  == {"fresh", "stale"}
Topics == Panes \cup {"halt"}

\* What each socket of the projector subscribes to, in order (main.go:166-170).
TopicsOf == [fresh |-> <<"fresh", "halt">>, stale |-> <<"stale", "halt">>]

Frame == [topic : Topics, seq : Nat]

TypeOK ==
    /\ life \in 1 .. MaxLives
    /\ seq \in 0 .. MaxCommands /\ lastGood \in 0 .. seq
    /\ {halted, armed} \subseteq BOOLEAN
    /\ line \in Seq(Frame) /\ Len(line) <= LineDepth
    /\ pub \in Seq(Frame) /\ Len(pub) <= PubDepth
    /\ \A t \in Topics : retained[t] \in Seq(Frame) /\ Len(retained[t]) <= 1
    /\ up \subseteq Panes
    /\ \A p \in Panes : sock[p] \in Seq(Frame) /\ Len(sock[p]) <= SendBuffer
    /\ panes \in [Panes -> 0 .. MaxCommands] /\ paneLife \in [Panes -> 0 .. life]
    /\ haltSeen \in 0 .. life

Init ==
    /\ life = 1 /\ seq = 0 /\ lastGood = 0 /\ halted = FALSE
    /\ armed = FALSE /\ line = <<>>
    /\ pub = <<>> /\ retained = [t \in Topics |-> <<>>]
    /\ up = {} /\ sock = [p \in Panes |-> <<>>]
    /\ panes = [p \in Panes |-> 0] /\ paneLife = [p \in Panes |-> 0]
    /\ haltSeen = 0

Room(q, cap) == Len(q) < cap

\* A plausible bug: the channel is thought to hold one more.
OfferedOneMore(q, cap, fs) == q \o SubSeq(fs, 1, Min({cap + 1 - Len(q), Len(fs)}))

\* A send that gives up at once when the channel is full.
Offered(q, cap, fs) == q \o SubSeq(fs, 1, Min({cap - Len(q), Len(fs)}))

-----------------------------------------------------------------------------
(* The loop *)

\* The bound on the run: more are not sent in this life.
MoreCommands == seq < MaxCommands - (MaxLives - life)

Publish(fs) == pub' = Offered(pub, PubDepth, fs)

Degrade(f) == line' = Offered(line, LineDepth, <<f>>)

ApplyGood ==
    /\ ~halted /\ MoreCommands
    /\ seq' = seq + 1 /\ lastGood' = seq'
    /\ Publish(<<[topic |-> "fresh", seq |-> seq']>>)
    /\ Degrade([topic |-> "stale", seq |-> seq'])
    /\ UNCHANGED <<life, halted, armed, retained, wires, screen>>

\* A plausible bug: the book goes out before its report is looked at.
BookAndHalt(n) == <<[topic |-> "fresh", seq |-> n], [topic |-> "halt", seq |-> n]>>

HaltAlone(n) == <<[topic |-> "halt", seq |-> n]>>

ApplyBad ==
    /\ ~halted /\ MoreCommands
    /\ seq' = seq + 1 /\ halted' = TRUE
    /\ Publish(HaltAlone(seq'))
    /\ Degrade([topic |-> "halt", seq |-> seq'])
    /\ UNCHANGED <<life, lastGood, armed, retained, wires, screen>>

\* A plausible bug: the keyframe goes out on the direct lane alone.
DirectOnly(f) == UNCHANGED line

DegradeKeyframe(f) == Degrade(f)

Keyframe ==
    /\ lastGood > 0 /\ ~halted
    /\ Publish(<<[topic |-> "fresh", seq |-> lastGood]>>)
    /\ DegradeKeyframe([topic |-> "stale", seq |-> lastGood])
    /\ UNCHANGED <<loop, armed, retained, wires, screen>>

-----------------------------------------------------------------------------
(* The chaos line *)

Toggle ==
    /\ armed' = ~armed
    /\ UNCHANGED <<loop, line, hub, wires, screen>>

\* The delay is over, or the line is disarmed: the head leaves for the hub, and
\* whether the hub took it is not looked at.
PassOn ==
    /\ line # <<>>
    /\ Publish(<<Head(line)>>)
    /\ line' = Tail(line)
    /\ UNCHANGED <<loop, armed, retained, wires, screen>>

\* Every DropEvery-th frame, or the oldest of a full ring.
LineDrops ==
    /\ armed
    /\ \E i \in DOMAIN line : line' = RemoveAt(line, i)
    /\ UNCHANGED <<loop, armed, hub, wires, screen>>

-----------------------------------------------------------------------------
(* The hub *)

Hears(p, t) == p \in up /\ t \in Range(TopicsOf[p])

Deliver ==
    /\ pub # <<>>
    /\ LET f == Head(pub)
       IN  /\ retained' = [retained EXCEPT ![f.topic] = <<f>>]
           /\ sock' = [p \in Panes |->
                  IF Hears(p, f.topic) THEN Offered(sock[p], SendBuffer, <<f>>) ELSE sock[p]]
    /\ pub' = Tail(pub)
    /\ UNCHANGED <<loop, chaos, up, screen>>

-----------------------------------------------------------------------------
(* The projector *)

\* A plausible bug: a halt is not among what is replayed.
ReplayBook(p) == retained[p]

\* A plausible bug: a halt takes the place of the book it follows.
ReplayHaltFirst(p) == IF retained["halt"] = <<>> THEN retained[p] ELSE retained["halt"]

\* Registration replays what is retained on the socket's topics.
Replay(p) == FlattenSeq([i \in DOMAIN TopicsOf[p] |-> retained[TopicsOf[p][i]]])

Connect(p) ==
    /\ p \notin up
    /\ up' = up \cup {p}
    /\ sock' = [sock EXCEPT ![p] = Replay(p)]
    /\ UNCHANGED <<loop, chaos, hub, screen>>

Disconnect(p) ==
    /\ p \in up \cap Flaky
    /\ up' = up \ {p}
    /\ sock' = [sock EXCEPT ![p] = <<>>]
    /\ UNCHANGED <<loop, chaos, hub, screen>>

\* A plausible bug: no reorder guard.
AnyFrame(f) == TRUE

\* The reorder guard.
Newer(f) == f.seq > panes[f.topic]

\* applyFrame, for either socket.
Receive(p) ==
    /\ sock[p] # <<>>
    /\ sock' = [sock EXCEPT ![p] = Tail(@)]
    /\ LET f == Head(sock[p])
       IN  \/ /\ f.topic \in Panes
              /\ IF Newer(f)
                 THEN /\ panes' = [panes EXCEPT ![f.topic] = f.seq]
                      /\ paneLife' = [paneLife EXCEPT ![f.topic] = life]
                 ELSE UNCHANGED <<panes, paneLife>>
              /\ UNCHANGED haltSeen
           \/ f.topic = "halt" /\ haltSeen' = life /\ UNCHANGED <<panes, paneLife>>
    /\ UNCHANGED <<loop, chaos, hub, up>>

-----------------------------------------------------------------------------
(* The server dies and is started again: everything but the screen is new. *)

Restart ==
    /\ life < MaxLives
    /\ life' = life + 1 /\ seq' = 0 /\ lastGood' = 0 /\ halted' = FALSE
    /\ armed' = FALSE /\ line' = <<>>
    /\ pub' = <<>> /\ retained' = [t \in Topics |-> <<>>]
    /\ up' = {} /\ sock' = [p \in Panes |-> <<>>]
    /\ UNCHANGED screen

Next ==
    \/ ApplyGood \/ ApplyBad \/ Keyframe
    \/ Toggle \/ PassOn \/ LineDrops \/ Deliver
    \/ \E p \in Panes : Connect(p) \/ Disconnect(p) \/ Receive(p)
    \/ Restart

Spec == Init /\ [][Next]_vars

\* A keyframe comes again and again, and a browser tries again for as long as it is
\* disconnected.  Everybody gets round to what waits for him, and a channel that is
\* not always full is found with room now and then.  Nobody is obliged to trade, to
\* touch the chaos controls, or to stay connected.
RoomInSocks(t) == \A p \in Panes : Hears(p, t) => Room(sock[p], SendBuffer)

FairSpec ==
    /\ Spec
    /\ SF_vars(PassOn /\ Room(pub, PubDepth))
    /\ \A p \in Panes :
        /\ SF_vars(Deliver /\ Head(pub).topic = p /\ RoomInSocks(p))
        /\ WF_vars(Connect(p)) /\ WF_vars(Receive(p))
    /\ WF_vars(Deliver)

-----------------------------------------------------------------------------
(* Properties *)

\* No book is ever late: along the whole way from the screen back to the engine the
\* books of a pane only rise, a reconnecting pane is replayed nothing older than it
\* shows, and none is ahead of the last good book, the one that broke the book included
\* (projector.js:419-421; chaos.go:174-177; runner.go:172-173).
BooksInOrder ==
    \A p \in Panes :
        LET way   == sock[p] \o retained[p] \o pub \o line
            shown == IF paneLife[p] = life THEN panes[p] ELSE 0
            Books == {i \in DOMAIN way : way[i].topic = p}
        IN  /\ shown <= lastGood
            /\ \A i \in Books : way[i].seq \in shown .. lastGood
            /\ \A i, j \in Books : i < j => way[i].seq <= way[j].seq

\* Each pane is a mirror of the engine that only moves forward (projector.js:416-423).
Fresh == INSTANCE Mirror WITH truth <- lastGood, shown <- panes["fresh"], from <- paneLife["fresh"]
Stale == INSTANCE Mirror WITH truth <- lastGood, shown <- panes["stale"], from <- paneLife["stale"]

ImplementsMirror == Fresh!Spec /\ Stale!Spec

\* Keyframes go on, and now and then one finds its way clear: for the fresh pane room in
\* the hub's channel, for the stale one an empty line and an empty channel, as the line
\* may meet a full one.  The queues are drained at memory and network speed, and filled
\* twice a second.  After a halt there are no keyframes.
WayIsClear(p) ==
    IF p = "fresh" THEN Room(pub, PubDepth) ELSE pub = <<>> /\ line = <<>>

KeyframesGoOn(p) == []<><<Keyframe /\ WayIsClear(p)>>_vars

\* A pane is where the engine is, or the screen is stuck on a book of an earlier life
\* of the server that the present one has not passed.
CaughtUp(p) ==
    \/ panes[p] = lastGood
    \/ paneLife[p] # life /\ panes[p] > lastGood

\* The stale pane rots and then snaps back: as long as keyframes go on, once chaos is
\* off for good and the socket stays, it comes to show what the engine holds and
\* stays there, whatever was dropped, refused or shed on the way; so does the fresh
\* pane (runner.go:162-164).
SnapsBack ==
    /\ KeyframesGoOn("stale") =>
           (<>[](~armed /\ "stale" \in up) => <>[]CaughtUp("stale"))
    /\ KeyframesGoOn("fresh") =>
           (<>[]("fresh" \in up) => <>[]CaughtUp("fresh"))

\* A pane whose socket is down while a book and the halt are retained will show that
\* book or a later one, and the halt, though no keyframe follows: a joiner's channel has
\* room for what is replayed, whatever else is delivered meanwhile.  Unless the socket
\* keeps breaking or the server dies.  It is not promised the books that the line gives
\* up only after the join: those may find the channel full, and are not sent again
\* (hub.go:158-168, 216-222; runner.go:172-173, 220; chaos.go:172-181).
LateJoinerSeesAll ==
    \A p \in Flaky, n \in 1 .. MaxCommands - 1 :
        LET Late  == p \notin up
            Owed  == /\ retained[p] # <<>> /\ Head(retained[p]).seq >= n
                     /\ retained["halt"] # <<>>
            Shown == Owed => panes[p] >= n /\ haltSeen = life
        IN  [](Late /\ Owed => <>Shown \/ []<>Late)
=============================================================================
