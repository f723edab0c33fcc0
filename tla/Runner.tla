------------------------------- MODULE Runner -------------------------------
(***************************************************************************)
(* The loop that owns the book (internal/loop): a bounded channel of       *)
(* commands, one goroutine that applies them, and the frames it offers to  *)
(* two lanes.                                                              *)
(*                                                                         *)
(* The engine is the Applier of the code: it counts the commands it is     *)
(* given and may report any of them bad, which is the branch a correct     *)
(* engine never takes and the runner exists to survive.  Commands are      *)
(* numbered in the order their Submit returned nil.  Of a frame its kind   *)
(* and the seq it shows are kept; "phones" stands for all the frames one   *)
(* result sends to its traders' own topics.  Downstream takes or refuses a *)
(* frame as it likes, at once.                                             *)
(***************************************************************************)
EXTENDS Integers, SequencesExt

CONSTANTS
    QueueDepth,   \* the capacity of the channel of commands (1024)
    MaxCommands,  \* a bound on the run: the calls of Submit
    MaxKeyframes  \* a bound on the run: the ticks of the keyframe ticker

ASSUME RunnerAssumption ==
    QueueDepth \in Nat \ {0} /\ MaxCommands \in Nat /\ MaxKeyframes \in Nat

VARIABLES
    accepted,   \* how many Submits returned nil
    busy,       \* how many returned ErrBusy
    cmds,       \* the channel: the numbers of the commands in it
    applied,    \* the engine: the commands Apply was called with; its Seq is the length
    taken,      \* how many commands Run has received
    halted,
    orders,     \* commands whose report was clean
    laneDrops,  \* frames the degraded lane refused
    lastGood,   \* the seq of the last good result, 0 while there is none
    direct,     \* the frames offered to the direct lane, in order
    degraded,   \* the frames offered to the degraded lane, in order
    refused,    \* which of those it refused: their positions
    reported,   \* the counters last pushed out: <<>> before the first push
    keyframes,  \* keyframes so far
    done        \* Run has returned

engine == <<applied, orders, halted>>
lanes  == <<direct, degraded, refused, laneDrops>>
vars   == <<accepted, busy, cmds, taken, engine, lanes, lastGood, reported, keyframes, done>>

Frame    == [kind : {"book", "halt", "top", "phones"}, seq : Nat]
Counters == [seq : Nat, orders : Nat, laneDrops : Nat, halted : BOOLEAN]

TypeOK ==
    /\ accepted \in Nat /\ busy \in Nat /\ taken \in Nat
    /\ cmds \in Seq(Nat) /\ Len(cmds) <= QueueDepth
    /\ applied \in Seq(Nat)
    /\ halted \in BOOLEAN /\ done \in BOOLEAN
    /\ orders \in Nat /\ laneDrops \in Nat /\ lastGood \in Nat
    /\ direct \in Seq(Frame) /\ degraded \in Seq(Frame)
    /\ refused \subseteq DOMAIN degraded
    /\ reported \in {<<>>} \cup Counters
    /\ keyframes \in Nat

Init ==
    /\ accepted = 0 /\ busy = 0 /\ taken = 0
    /\ cmds = <<>> /\ applied = <<>>
    /\ halted = FALSE /\ done = FALSE
    /\ orders = 0 /\ laneDrops = 0 /\ lastGood = 0
    /\ direct = <<>> /\ degraded = <<>> /\ refused = {}
    /\ reported = <<>>
    /\ keyframes = 0

-----------------------------------------------------------------------------
(* The senders *)

\* A plausible bug: one more than the channel holds.
RoomForOneMore == Len(cmds) <= QueueDepth

Room == Len(cmds) < QueueDepth

\* The select of Submit: whatever is ready, and busy when nothing is.
Submit ==
    /\ accepted + busy < MaxCommands
    /\ \/ /\ Room
          /\ cmds' = Append(cmds, accepted + 1)
          /\ accepted' = accepted + 1
          /\ UNCHANGED busy
       \/ /\ done \/ ~Room
          /\ busy' = busy + 1
          /\ UNCHANGED <<accepted, cmds>>
    /\ UNCHANGED <<taken, engine, lanes, lastGood, reported, keyframes, done>>

-----------------------------------------------------------------------------
(* Run *)

\* A plausible bug: the halt is announced on the direct lane alone.
OfferHaltOnce(f, others) ==
    /\ direct' = Append(direct, f) \o others
    /\ degraded' = IF f.kind = "halt" THEN degraded ELSE Append(degraded, f)
    /\ UNCHANGED <<refused, laneDrops>>

\* A frame, book or halt, goes to both lanes.  Nobody looks at the direct lane's answer,
\* a refusal of the degraded lane is counted, and the direct lane is given the others
\* after it.
Offer(f, others) ==
    /\ direct' = Append(direct, f) \o others
    /\ degraded' = Append(degraded, f)
    /\ \/ UNCHANGED <<refused, laneDrops>>
       \/ refused' = refused \cup {Len(degraded) + 1} /\ laneDrops' = laneDrops + 1

\* A plausible bug: the report is made up before the frames are offered.
PushReportFirst(seq) ==
    reported' = [seq |-> seq, orders |-> orders', laneDrops |-> laneDrops, halted |-> halted']

\* pushReport, on the way out of apply.
PushReport(seq) ==
    reported' = [seq |-> seq, orders |-> orders', laneDrops |-> laneDrops', halted |-> halted']

\* A plausible bug: the command is looked at and left in the channel.
Peek ==
    /\ ~done
    /\ cmds # <<>>
    /\ taken' = taken + 1
    /\ UNCHANGED <<accepted, busy, cmds, keyframes, done>>

Receive ==
    /\ ~done
    /\ cmds # <<>>
    /\ cmds' = Tail(cmds)
    /\ taken' = taken + 1
    /\ UNCHANGED <<accepted, busy, keyframes, done>>

\* A plausible bug: a halted loop stops receiving.
IgnoreNothing == FALSE

\* Quarantined: the command is received and forgotten.
Ignore ==
    /\ Receive
    /\ halted
    /\ UNCHANGED <<engine, lanes, lastGood, reported>>

ApplyGood ==
    /\ Receive
    /\ ~halted
    /\ applied' = Append(applied, Head(cmds))
    /\ orders' = orders + 1
    /\ lastGood' = Len(applied')
    /\ Offer([kind |-> "book", seq |-> Len(applied')],
             <<[kind |-> "top", seq |-> Len(applied')], [kind |-> "phones", seq |-> Len(applied')]>>)
    /\ UNCHANGED halted
    /\ PushReport(Len(applied'))

\* A report with a violation halts the market.
ApplyBad ==
    /\ Receive
    /\ ~halted
    /\ applied' = Append(applied, Head(cmds))
    /\ halted' = TRUE
    /\ Offer([kind |-> "halt", seq |-> Len(applied')], <<>>)
    /\ UNCHANGED <<orders, lastGood>>
    /\ PushReport(Len(applied'))

\* A plausible bug: keyframes go on after a halt.
NothingYet == lastGood = 0

\* Nothing to show before the first good book, nor after a halt.
NothingToShow == lastGood = 0 \/ halted

Keyframe ==
    /\ ~done
    /\ keyframes < MaxKeyframes
    /\ keyframes' = keyframes + 1
    /\ IF NothingToShow
       THEN UNCHANGED lanes
       ELSE Offer([kind |-> "book", seq |-> lastGood], <<>>)
    /\ UNCHANGED <<accepted, busy, cmds, taken, engine, lastGood, reported, done>>

\* The context is cancelled: Run returns without looking at the channel again.
Stop ==
    /\ ~done
    /\ done' = TRUE
    /\ UNCHANGED <<accepted, busy, cmds, taken, engine, lanes, lastGood, reported, keyframes>>

Next == Submit \/ Ignore \/ ApplyGood \/ ApplyBad \/ Keyframe \/ Stop

Spec == Init /\ [][Next]_vars

\* Run's select takes a ready branch at random and apply never blocks, so a command
\* in the channel and a tick of the keyframe ticker are both got round to.  Nobody
\* is obliged to submit or to stop the loop.
FairSpec == Spec /\ WF_vars(Ignore \/ ApplyGood \/ ApplyBad) /\ WF_vars(Keyframe)

-----------------------------------------------------------------------------
(* Properties *)

\* Commands reach the engine in the order they were accepted, none of them twice:
\* the channel and the loop add no order of their own (runner.go:132-146, 170).
CommandsAreLossyFifo == INSTANCE LossyFifo WITH sent <- accepted, got <- applied

ImplementsLossyFifo == CommandsAreLossyFifo!Spec

\* The places of the books and of the halts among the frames of a lane.
Public(frames) == {i \in DOMAIN frames : frames[i].kind \in {"book", "halt"}}

\* Both lanes are offered the same books and the same halt in the same order: the
\* n-th on the one is the n-th on the other, and only delivery tells them apart
\* (runner.go:226-229).
LanesAgree ==
    /\ Cardinality(Public(direct)) = Len(degraded)
    /\ \A i \in Public(direct) : direct[i] = degraded[Cardinality(Public(direct) \cap 1 .. i)]

\* On a lane the books only move forward, a halt shows a seq no book has shown, and
\* nothing follows it: the last good book stays retained (runner.go:171-174,
\* 219-224).
OnlyGoodBooksShown ==
    \A i, j \in DOMAIN degraded : i < j =>
        /\ degraded[i].kind = "book"
        /\ degraded[i].seq <= degraded[j].seq
        /\ degraded[j].kind = "halt" => degraded[i].seq < degraded[j].seq

\* What the room was last told adds up with what happened on the degraded lane: it is
\* the report of the last command the engine was given, and the only refusals that are
\* not in it are those of keyframes that repeat that command's book.  A halt has none
\* after it, so the count that stays on screen is the full one (runner.go:190-193,
\* 216, 219-232).
Since(n) == {i \in refused : \E j \in 1 .. i - 1 : degraded[j].seq = n}

ReportsAddUp ==
    IF reported = <<>> THEN applied = <<>> /\ refused = {}
    ELSE /\ reported.seq = Len(applied)
         /\ reported.halted = halted
         /\ reported.orders = IF halted THEN Len(applied) - 1 ELSE Len(applied)
         /\ reported.laneDrops + Cardinality(Since(reported.seq)) = Cardinality(refused)
         /\ halted => Since(reported.seq) = {}

\* An accepted command is received before long, halted or not, as long as the loop
\* runs (runner.go:155-160).
CommandsAreReceived ==
    \A c \in 1 .. MaxCommands : c \in Range(cmds) ~> c \notin Range(cmds) \/ done

\* No accepted command disappears without a trace: what the loop received, the
\* engine was given (main.go:195-197).
NeverSilentlyDropped == taken = Len(applied)

\* The loop leaves no accepted command behind (main.go:83-86, 106).
DrainedWhenDone == done => cmds = <<>>

\* What the degraded lane refused shows up in the counters that are pushed out
\* (runner_test.go:253-254).
RefusalsGetReported ==
    \A n \in 1 .. MaxCommands + MaxKeyframes :
        laneDrops = n ~> (reported # <<>> /\ reported.laneDrops >= n) \/ done
=============================================================================
