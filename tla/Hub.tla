-------------------------------- MODULE Hub --------------------------------
(***************************************************************************)
(* The fan-out (internal/hub), the handler that serves one connection      *)
(* (main.go, /ws), and the shutdown of the server: one goroutine that owns *)
(* the registry, and for every connection a read pump, a write pump and a  *)
(* peer at the other end of a socket.                                      *)
(*                                                                         *)
(* A frame is its topic and its place in the order the hub accepted it.    *)
(* What a peer sends is reduced to the close frame: a command changes      *)
(* nothing here.  Peers close as cmd/swarm does (send a close frame, wait  *)
(* for the server's, hang up), or stop reading.  A socket may take a write *)
(* or fail it at any time, since both ends buffer, and a deadline is one   *)
(* of the ways in which Write, PingFails and ReadFails come about.         *)
(***************************************************************************)
EXTENDS Integers, FiniteSets, SequencesExt

CONSTANTS
    Conns,       \* connections, each of which happens once
    Topics,
    TopicsOf,    \* for each connection its subscriptions, in order
    Faults,      \* for each connection what its peer may do, of "silence" and "close"
    SendBuffer,  \* the capacity of a client's send channel (64)
    UnregDepth,  \* the capacity of the channel of unregistrations (64)
    MaxFrames    \* a bound on the run: the frames delivered

ASSUME HubAssumption ==
    /\ TopicsOf \in [Conns -> Seq(Topics)]
    /\ \A c \in Conns : IsInjective(TopicsOf[c])
    /\ Faults \in [Conns -> SUBSET {"silence", "close"}]
    /\ {SendBuffer, UnregDepth, MaxFrames} \subseteq Nat \ {0}

VARIABLES
    unreg,     \* the channel of unregistrations
    clients,   \* the registry
    retained,  \* the last frame of each topic, as a sequence of at most one
    hubDone,   \* Run has returned
    send,      \* each client's send channel
    closed,    \* which of them are closed
    dropped,   \* frames each client's full channel did not take
    reader,    \* where each handler and read pump is
    writer,    \* where each write pump is
    open,      \* the connections whose server end is not closed
    peer,      \* what each peer is up to
    conns,     \* the wait group: the connections counted in it
    main,      \* where main is
    panicked,  \* somebody sent on a closed channel, or closed one twice
    log,       \* history: every frame delivered, in order
    joined,    \* history: the length of the log when the client registered
    taken      \* history: the frames each write pump has taken

hub     == <<unreg, clients, retained, hubDone, log, joined>>
chans   == <<send, closed, dropped, panicked, taken>>
ends    == <<reader, writer, open, peer>>
process == <<conns, main>>
vars    == <<hub, chans, ends, process>>

Frame == [topic : Topics, n : 1 .. MaxFrames]
Hello == [topic |-> "hello", n |-> 0]

TypeOK ==
    /\ unreg \in Seq(Conns) /\ Len(unreg) <= UnregDepth
    /\ clients \subseteq Conns
    /\ \A t \in Topics : retained[t] \in {<<>>} \cup {<<f>> : f \in Frame}
    /\ hubDone \in BOOLEAN /\ panicked \in BOOLEAN
    /\ \A c \in Conns : send[c] \in Seq(Frame \cup {Hello}) /\ Len(send[c]) <= SendBuffer
    /\ closed \subseteq Conns
    /\ dropped \in [Conns -> Nat]
    /\ reader \in [Conns -> {"out", "register", "reading", "unregister",
                             "joining", "returned"}]
    /\ writer \in [Conns -> {"off", "select", "done"}]
    /\ open \subseteq Conns /\ conns \subseteq Conns
    /\ peer \in [Conns -> {"live", "silent", "closing", "answered", "parted", "gone"}]
    /\ main \in {"serving", "cancelled", "waiting", "exited"}
    /\ log \in Seq(Frame)

Init ==
    /\ unreg = <<>> /\ clients = {} /\ retained = [t \in Topics |-> <<>>] /\ hubDone = FALSE
    /\ log = <<>> /\ joined = [c \in Conns |-> 0]
    /\ send = [c \in Conns |-> <<>>] /\ closed = {} /\ taken = [c \in Conns |-> <<>>]
    /\ dropped = [c \in Conns |-> 0] /\ panicked = FALSE
    /\ reader = [c \in Conns |-> "out"] /\ writer = [c \in Conns |-> "off"]
    /\ open = {} /\ peer = [c \in Conns |-> "live"]
    /\ conns = {} /\ main = "serving"

-----------------------------------------------------------------------------
(* The hub *)

Subscribed(c, t) == t \in Range(TopicsOf[c])

\* A plausible bug: the channel is thought to hold one more.
RoomForOneMore(c) == SendBuffer + 1 - Len(send[c])

RoomFor(c) == SendBuffer - Len(send[c])

\* trySend, for each client the frames fs[c] in turn: what has no room is dropped
\* and counted.
TrySend(fs) ==
    LET Taken(c) == SubSeq(fs[c], 1, Min({RoomFor(c), Len(fs[c])}))
    IN  /\ send' = [c \in Conns |-> send[c] \o Taken(c)]
        /\ dropped' = [c \in Conns |-> dropped[c] + Len(fs[c]) - Len(Taken(c))]
        /\ panicked' = (panicked \/ \E c \in closed : fs[c] # <<>>)

\* A plausible bug: a topic is retained only while somebody listens.
KeepIfHeard(t) == \E c \in clients : Subscribed(c, t)

Keep(t) == TRUE

\* The branches for a published frame and for the stats ticker, which both deliver:
\* retain, then send to whoever subscribes.
Deliver(t) ==
    LET f == [topic |-> t, n |-> Len(log) + 1]
    IN  /\ ~hubDone
        /\ Len(log) < MaxFrames
        /\ log' = Append(log, f)
        /\ retained' = IF Keep(t) THEN [retained EXCEPT ![t] = <<f>>] ELSE retained
        /\ TrySend([c \in Conns |-> IF c \in clients /\ Subscribed(c, t) THEN <<f>> ELSE <<>>])
        /\ UNCHANGED <<unreg, clients, hubDone, joined, closed, taken, ends, process>>

\* The retained frames a client is owed when it registers.
Replay(c) == FlattenSeq([i \in DOMAIN TopicsOf[c] |-> retained[TopicsOf[c][i]]])

\* The rendezvous on the unbuffered channel, and the replay in the same step.
Register(c) ==
    /\ ~hubDone
    /\ reader[c] = "register"
    /\ clients' = clients \cup {c}
    /\ TrySend([d \in Conns |-> IF d = c THEN Replay(c) ELSE <<>>])
    /\ joined' = [joined EXCEPT ![c] = Len(log)]
    /\ reader' = [reader EXCEPT ![c] = "reading"]
    /\ UNCHANGED <<unreg, retained, hubDone, log, closed, taken, writer, open, peer, process>>

\* close(c.send).  With the client in the registry ends what is told of it.
Close(cs) ==
    /\ closed' = closed \cup cs
    /\ panicked' = (panicked \/ closed \cap cs # {})
    /\ dropped' = [c \in Conns |-> IF c \in cs THEN 0 ELSE dropped[c]]
    /\ joined' = [c \in Conns |-> IF c \in cs THEN 0 ELSE joined[c]]
    /\ taken' = [c \in Conns |-> IF c \in cs THEN <<>> ELSE taken[c]]

\* A plausible bug: the channel is closed and the client stays in the registry.
CloseOnly(c) == clients

Without(c) == clients \ {c}

\* remove: nothing for a client the hub does not have; the delete comes first.
Unregister ==
    /\ ~hubDone
    /\ unreg # <<>>
    /\ unreg' = Tail(unreg)
    /\ IF Head(unreg) \in clients
       THEN clients' = Without(Head(unreg)) /\ Close({Head(unreg)})
       ELSE UNCHANGED <<clients, closed, panicked, dropped, joined, taken>>
    /\ UNCHANGED <<retained, hubDone, log, send, ends, process>>

\* The context is cancelled: every client is retired, and Run returns.
ShutDown ==
    /\ ~hubDone
    /\ main # "serving"
    /\ Close(clients)
    /\ clients' = {}
    /\ hubDone' = TRUE
    /\ UNCHANGED <<unreg, retained, log, send, ends, process>>

-----------------------------------------------------------------------------
(* The handler of one connection, which becomes its read pump *)

ReaderTo(c, place) == reader' = [reader EXCEPT ![c] = place]
WriterTo(c, place) == writer' = [writer EXCEPT ![c] = place]

\* Upgrade, conns.Add, the write pump started, and hello queued ahead of everything.
Serve(c) ==
    /\ reader[c] = "out"
    /\ main \in {"serving", "cancelled"}
    /\ conns' = conns \cup {c}
    /\ open' = open \cup {c}
    /\ ReaderTo(c, "register")
    /\ WriterTo(c, "select")
    /\ send' = [send EXCEPT ![c] = <<Hello>>]
    /\ UNCHANGED <<hub, closed, dropped, panicked, taken, peer, main>>

\* The hub is gone before it took the client: the handler closes the channel itself.
HubGone(c) ==
    /\ hubDone
    /\ reader[c] = "register"
    /\ ReaderTo(c, "joining")
    /\ Close({c})
    /\ UNCHANGED <<unreg, clients, retained, hubDone, log, send, writer, open, peer, process>>

\* The peer's close frame arrives and is echoed.
ReadClose(c) ==
    /\ reader[c] = "reading"
    /\ c \in open
    /\ peer[c] = "closing"
    /\ peer' = [peer EXCEPT ![c] = "answered"]
    /\ ReaderTo(c, "unregister")
    /\ UNCHANGED <<hub, chans, writer, open, process>>

\* The server's own end is closed, the peer is gone, or pongWait has passed.
ReadFails(c) ==
    /\ reader[c] = "reading"
    /\ c \notin open \/ peer[c] \in {"silent", "gone", "parted"}
    /\ ReaderTo(c, "unregister")
    /\ UNCHANGED <<hub, chans, writer, open, peer, process>>

\* A plausible bug: the read pump insists on being heard.
OnlyIfHeard == FALSE

NobodyListens == hubDone

\* The select of readPump's last breath.
ReportEnd(c) ==
    /\ reader[c] = "unregister"
    /\ \/ Len(unreg) < UnregDepth /\ unreg' = Append(unreg, c)
       \/ NobodyListens /\ UNCHANGED unreg
    /\ ReaderTo(c, "joining")
    /\ UNCHANGED <<clients, retained, hubDone, log, joined, chans, writer, open, peer, process>>

\* The write pump is done: the handler returns and conns.Done runs.  The socket is
\* closed; how the peer takes that is not followed further.
Return(c) ==
    /\ reader[c] = "joining"
    /\ writer[c] = "done"
    /\ ReaderTo(c, "returned")
    /\ conns' = conns \ {c}
    /\ peer' = [peer EXCEPT ![c] = "gone"]
    /\ UNCHANGED <<hub, chans, writer, open, main>>

-----------------------------------------------------------------------------
(* The write pump *)

\* The way out of the write pump: the deferred conn.Close unblocks the read pump.
CloseConn(c) ==
    /\ WriterTo(c, "done")
    /\ open' = open \ {c}

\* The next frame, which a closed channel still yields, is written or fails.  A frame
\* that is being written counts as one still in the channel.
Write(c) ==
    /\ writer[c] = "select"
    /\ send[c] # <<>>
    /\ send' = [send EXCEPT ![c] = Tail(@)]
    /\ taken' = IF c \in closed THEN taken ELSE [taken EXCEPT ![c] = Append(@, Head(send[c]))]
    /\ UNCHANGED <<writer, open>> \/ CloseConn(c)
    /\ UNCHANGED <<hub, closed, dropped, panicked, reader, peer, process>>

PingFails(c) ==
    /\ writer[c] = "select"
    /\ peer[c] \in {"silent", "gone", "parted"}
    /\ CloseConn(c)
    /\ UNCHANGED <<hub, chans, reader, peer, process>>

\* A plausible bug: the write pump waits for the peer's close frame.
EchoFirst(c) == peer[c] \in {"closing", "answered", "parted", "gone"}

\* A server may close whenever it chooses: a phone on dead wifi never echoes.
NoEchoNeeded(c) == TRUE

\* The channel is closed and empty: a close frame goes out.
WriteClose(c) ==
    /\ writer[c] = "select"
    /\ c \in closed
    /\ send[c] = <<>>
    /\ NoEchoNeeded(c)
    /\ CloseConn(c)
    /\ peer' = IF peer[c] = "closing" THEN [peer EXCEPT ![c] = "answered"] ELSE peer
    /\ UNCHANGED <<hub, chans, reader, process>>

-----------------------------------------------------------------------------
(* The peer *)

PeerTo(c, what) ==
    /\ reader[c] \notin {"out", "returned"}
    /\ peer' = [peer EXCEPT ![c] = what]
    /\ UNCHANGED <<hub, chans, reader, writer, open, process>>

FallSilent(c) == "silence" \in Faults[c] /\ peer[c] = "live" /\ PeerTo(c, "silent")

\* shutdownConn: the close frame, the wait for the server's, the end of the wait.
SendClose(c) == "close" \in Faults[c] /\ peer[c] = "live" /\ PeerTo(c, "closing")

\* A plausible bug: the close frame is sent and the socket closed at once.
Impatient(c) == peer[c] \in {"closing", "answered"}

Answered(c) == peer[c] = "answered"

HangUp(c) == Answered(c) /\ PeerTo(c, "parted")
GraceOver(c) == peer[c] = "closing" /\ PeerTo(c, "gone")

-----------------------------------------------------------------------------
(* main, once the listener runs *)

MainTo(from, to) ==
    /\ main = from
    /\ main' = to
    /\ UNCHANGED <<hub, chans, ends, conns>>

Interrupt == MainTo("serving", "cancelled")

\* srv.Shutdown: nobody is upgraded any more; hijacked connections are not waited for.
StopListening == MainTo("cancelled", "waiting")

\* waitConns, with its two ways out, and stack.stop, which waits for the hub.
ConnsDrained == conns = {} /\ hubDone /\ MainTo("waiting", "exited")
BudgetSpent == conns # {} /\ hubDone /\ MainTo("waiting", "exited")

-----------------------------------------------------------------------------
Handler(c) ==
    \/ Register(c) \/ HubGone(c)
    \/ ReadClose(c) \/ ReadFails(c) \/ ReportEnd(c) \/ Return(c)

WritePump(c) == Write(c) \/ PingFails(c) \/ WriteClose(c)

Peer(c) == FallSilent(c) \/ SendClose(c) \/ HangUp(c) \/ GraceOver(c)

Next ==
    /\ main # "exited"
    /\ \/ \E t \in Topics : Deliver(t)
       \/ Unregister \/ ShutDown
       \/ \E c \in Conns : Serve(c) \/ Handler(c) \/ WritePump(c) \/ Peer(c)
       \/ Interrupt \/ StopListening \/ ConnsDrained \/ BudgetSpent

Spec == Init /\ [][Next]_vars

Running(A) == main # "exited" /\ A

\* Every goroutine is weakly fair: the hub's select takes a ready branch at random
\* and no branch blocks; a pump goes on when it can; a write ends in success or at
\* its deadline, and a silent peer runs into the read deadline.  No peer is obliged
\* to do anything, nobody has to interrupt the server, and the drain budget need
\* not run out.
FairSpec ==
    /\ Spec
    /\ WF_vars(Running(Unregister \/ ShutDown))
    /\ \A c \in Conns : WF_vars(Running(Handler(c))) /\ WF_vars(Running(WritePump(c)))
    /\ WF_vars(StopListening \/ ConnsDrained)

-----------------------------------------------------------------------------
(* Properties *)

\* What a registered client is owed, told from the history of deliveries alone:
\* hello, the latest frame of each of its topics when it registered, and every frame
\* since.
Due(c) ==
    LET Latest(k) == \A m \in k + 1 .. joined[c] : log[m].topic # log[k].topic
    IN  {Hello} \cup {log[k] : k \in {n \in DOMAIN log : Subscribed(c, log[n].topic) /\ Latest(n)}}

\* Which of two comes first: hello before all, then the replay in the order of the
\* subscriptions, then the rest in the order of delivery.
Before(c, f, g) ==
    \/ f.n < g.n /\ (f = Hello \/ g.n > joined[c])
    \/ /\ {f.n, g.n} \subseteq 1 .. joined[c]
       /\ \E i, j \in DOMAIN TopicsOf[c] :
              i < j /\ TopicsOf[c][i] = f.topic /\ TopicsOf[c][j] = g.topic

\* The join is gapless: what a client was sent and what waits for it is what it is
\* owed, in order, from hello on, short of exactly as many frames as were counted
\* (hub.go:156-168, 209-223; client.go:54-60).
JoinIsGapless ==
    \A c \in clients :
        LET got == taken[c] \o send[c]
        IN  /\ Hello \in Range(got) /\ Range(got) \subseteq Due(c)
            /\ \A i, j \in DOMAIN got : i < j => Before(c, got[i], got[j])
            /\ Cardinality(Due(c)) = Len(got) + dropped[c]

\* Nobody sends on a closed channel or closes one twice, whoever retires a client:
\* its read pump, the shutdown, or the handler that finds the hub gone (hub.go:225-239).
NoPanic == ~panicked

\* A peer that does the closing handshake and waits for its end has hung up only
\* after its close frame was read, so the server does not log it as an abnormal
\* closure, unless it was going away itself (swarm/client.go:91-103).
CleanClose ==
    \A c \in Conns : peer[c] = "parted" /\ main = "serving" => reader[c] # "reading"

\* Nothing is left of a connection once its peer is gone, or never reads, or the
\* server goes down: both pumps end and the registry forgets it (client.go:74, 97-98;
\* hub.go:137-144).
Ending(c) ==
    /\ reader[c] # "out"
    /\ peer[c] \in {"silent", "answered", "parted", "gone"} \/ main # "serving"

Ended(c) == reader[c] = "returned" /\ writer[c] = "done" /\ c \notin clients \cup open

ConnectionsEnd == \A c \in Conns : Ending(c) ~> Ended(c) \/ main = "exited"

\* An interrupted server exits, without its drain budget running out (main.go:81-109).
ShutdownEnds == main = "cancelled" ~> main = "exited"
=============================================================================
