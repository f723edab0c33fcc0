------------------------------- MODULE Chaos -------------------------------
(***************************************************************************)
(* The degraded lane (internal/chaos): a bounded channel in front of one   *)
(* goroutine with one timer, a policy that arrives as a message, and a     *)
(* FIFO of delayed frames.                                                 *)
(*                                                                         *)
(* Its only publisher is the engine loop, so a frame is its ordinal in     *)
(* the order Publish was called.  Time is what is left to wait: a pending  *)
(* frame holds the ticks until its readyAt and the timer the ticks until   *)
(* it fires, and Tick lets both run down.  Each trip of Run around its     *)
(* select is one step; downstream is called synchronously and its verdict  *)
(* ignored, so a step appends to out whatever it forwards.                 *)
(***************************************************************************)
EXTENDS Integers, SequencesExt

CONSTANTS
    Presenters,  \* the HTTP requests that may be inside Configure at once
    Ring,        \* the capacity of the channel and of the pending queue (512)
    CtrlDepth,   \* the capacity of the channel of policies (8)
    Delays,      \* the delays a policy may ask for, in ticks
    DropRates,   \* the DropEvery a policy may ask for; 0 drops nothing
    MaxFrames,   \* a bound on the run: the frames published
    MaxRequests  \* a bound on the run: the policies requested

ASSUME ChaosAssumption ==
    /\ Ring \in Nat \ {0} /\ CtrlDepth \in Nat \ {0}
    /\ Delays \subseteq Nat /\ DropRates \subseteq Nat
    /\ MaxFrames \in Nat /\ MaxRequests \in Nat

Policy == [armed : BOOLEAN, delay : Delays, dropEvery : DropRates]

\* A timer that is not running.
Off == -1

\* The zero Policy, which New leaves in place; its delay is never read.
Disarmed == [armed |-> FALSE, delay |-> 0, dropEvery |-> 0]

VARIABLES
    published,  \* how often Publish was called
    refused,    \* how often it returned false, for the caller to count
    in,         \* the channel from Publish to Run
    latest,     \* the policy under the mutex
    asking,     \* for each presenter, the policy it still has to send: <<>> or <<policy>>
    requests,   \* the policies requested so far
    ctrl,       \* the channel from Configure to Run
    pol,        \* local to Run: the live policy
    pending,    \* local to Run: delayed frames, [frame, wait]
    seen,       \* local to Run: frames met while armed
    dropped,    \* local to Run: frames dropped or shed
    timer,      \* local to Run: ticks to go, or Off
    out,        \* every frame handed downstream, in order
    done        \* Run has returned

callers == <<published, refused, latest, asking, requests>>
line    == <<pol, pending, seen, dropped, timer, out>>
vars    == <<callers, in, ctrl, line, done>>

TypeOK ==
    /\ published \in 0 .. MaxFrames /\ refused \in Nat
    /\ in \in Seq(1 .. MaxFrames) /\ Len(in) <= Ring
    /\ latest \in Policy \cup {Disarmed}
    /\ asking \in [Presenters -> Seq(Policy)]
    /\ requests \in 0 .. MaxRequests
    /\ ctrl \in Seq(Policy) /\ Len(ctrl) <= CtrlDepth
    /\ pol \in Policy \cup {Disarmed}
    /\ pending \in Seq([frame : 1 .. MaxFrames, wait : Nat]) /\ Len(pending) <= Ring
    /\ seen \in Nat /\ dropped \in Nat
    /\ timer \in Nat \cup {Off}
    /\ out \in Seq(1 .. MaxFrames)
    /\ done \in BOOLEAN

Init ==
    /\ published = 0 /\ refused = 0
    /\ in = <<>> /\ ctrl = <<>>
    /\ latest = Disarmed /\ pol = Disarmed
    /\ asking = [p \in Presenters |-> <<>>]
    /\ requests = 0
    /\ pending = <<>> /\ timer = Off
    /\ seen = 0 /\ dropped = 0
    /\ out = <<>>
    /\ done = FALSE

-----------------------------------------------------------------------------
(* The callers *)

\* The select of Publish takes any branch that is ready, and falls through to
\* its default only when none is: after done is closed it may still queue.
Publish ==
    /\ published < MaxFrames
    /\ published' = published + 1
    /\ \/ Len(in) < Ring /\ in' = Append(in, published + 1) /\ UNCHANGED refused
       \/ (done \/ Len(in) = Ring) /\ refused' = refused + 1 /\ UNCHANGED in
    /\ UNCHANGED <<latest, asking, requests, ctrl, line, done>>

\* Configure, up to the unlock.
SetLatest(p, policy) ==
    /\ asking[p] = <<>>
    /\ requests < MaxRequests
    /\ requests' = requests + 1
    /\ latest' = policy
    /\ asking' = [asking EXCEPT ![p] = <<policy>>]
    /\ UNCHANGED <<published, refused, in, ctrl, line, done>>

\* A plausible bug: the select has no branch for a line that has gone.
SendPolicyUnguarded(p) ==
    /\ asking[p] # <<>>
    /\ Len(ctrl) < CtrlDepth
    /\ asking' = [asking EXCEPT ![p] = <<>>]
    /\ ctrl' = ctrl \o asking[p]
    /\ UNCHANGED <<published, refused, latest, requests, in, line, done>>

\* Configure, from the unlock on: it blocks until the channel has room or Run is
\* gone.
SendPolicy(p) ==
    /\ asking[p] # <<>>
    /\ asking' = [asking EXCEPT ![p] = <<>>]
    /\ \/ Len(ctrl) < CtrlDepth /\ ctrl' = ctrl \o asking[p]
       \/ done /\ UNCHANGED ctrl
    /\ UNCHANGED <<published, refused, latest, requests, in, line, done>>

-----------------------------------------------------------------------------
(* Run *)

FramesOf(items) == [i \in DOMAIN items |-> items[i].frame]

\* A plausible bug: the timer is left alone.
ArmForgotten(items) == Off

\* arm runs the timer down to the head of the queue.
Arm(items) == IF items = <<>> THEN Off ELSE Head(items).wait

\* A plausible bug: what is in flight is forgotten, not forwarded.
ReleasedNothing == <<>>

\* Switching chaos off releases everything in flight at once.
Released == FramesOf(pending)

TakePolicy ==
    /\ ~done /\ ctrl # <<>>
    /\ pol' = Head(ctrl)
    /\ ctrl' = Tail(ctrl)
    /\ IF pol'.armed
       THEN UNCHANGED <<pending, timer, out>>
       ELSE /\ out' = out \o Released
            /\ pending' = <<>>
            /\ timer' = Off
    /\ UNCHANGED <<callers, in, seen, dropped, done>>

PassThrough ==
    /\ ~done /\ in # <<>> /\ ~pol.armed
    /\ out' = Append(out, Head(in))
    /\ in' = Tail(in)
    /\ UNCHANGED <<callers, ctrl, pol, pending, seen, dropped, timer, done>>

\* One frame in every DropEvery is dropped on purpose.
Dropping == pol.dropEvery > 0 /\ (seen + 1) % pol.dropEvery = 0

DropFrame ==
    /\ ~done /\ in # <<>> /\ pol.armed /\ Dropping
    /\ seen' = seen + 1
    /\ dropped' = dropped + 1
    /\ in' = Tail(in)
    /\ UNCHANGED <<callers, ctrl, pol, pending, timer, out, done>>

\* A plausible bug: one more than the queue may hold.
FullTooLate == Len(pending) > Ring

Full == Len(pending) >= Ring

\* A full queue sheds its oldest; the timer is set only for a queue of one.
HoldFrame ==
    LET held == Append(IF Full THEN Tail(pending) ELSE pending,
                       [frame |-> Head(in), wait |-> pol.delay])
    IN  /\ ~done /\ in # <<>> /\ pol.armed /\ ~Dropping
        /\ seen' = seen + 1
        /\ dropped' = IF Full THEN dropped + 1 ELSE dropped
        /\ pending' = held
        /\ timer' = IF Len(held) = 1 THEN Arm(held) ELSE timer
        /\ in' = Tail(in)
        /\ UNCHANGED <<callers, ctrl, pol, out, done>>

\* A plausible bug: the head is left behind for the next time round.
ReadyButOne == 0

\* How many of the frames at the head of the queue are ready: flush stops at the
\* first that is not.
Ready == CHOOSE n \in 0 .. Len(pending) :
            /\ \A i \in 1 .. n : pending[i].wait = 0
            /\ n < Len(pending) => pending[n+1].wait > 0

\* A plausible bug: the last frame that was forwarded stays in the queue.
UnreadyAndOne == SubSeq(pending, IF Ready = 0 THEN 1 ELSE Ready, Len(pending))

Unready == SubSeq(pending, Ready + 1, Len(pending))

Flush ==
    /\ ~done /\ timer = 0
    /\ out' = out \o FramesOf(SubSeq(pending, 1, Ready))
    /\ pending' = Unready
    /\ timer' = Arm(pending')
    /\ UNCHANGED <<callers, in, ctrl, pol, seen, dropped, done>>

\* The context is cancelled: Run returns wherever its select finds it.
Stop ==
    /\ ~done
    /\ done' = TRUE
    /\ UNCHANGED <<callers, in, ctrl, line>>

LessOne(n) == IF n > 0 THEN n - 1 ELSE n

Tick ==
    /\ timer > 0 \/ \E i \in DOMAIN pending : pending[i].wait > 0
    /\ pending' = [i \in DOMAIN pending |-> [pending[i] EXCEPT !.wait = LessOne(@)]]
    /\ timer' = LessOne(timer)
    /\ UNCHANGED <<callers, in, ctrl, pol, seen, dropped, out, done>>

Next ==
    \/ Publish
    \/ \E p \in Presenters : SendPolicy(p) \/ \E policy \in Policy : SetLatest(p, policy)
    \/ TakePolicy \/ PassThrough \/ DropFrame \/ HoldFrame \/ Flush
    \/ Stop \/ Tick

Spec == Init /\ [][Next]_vars

\* Run's select takes a ready branch at random, so none that stays ready waits
\* for ever; time passes; and a blocked send goes through once there is room.
\* Nothing obliges anyone to publish, to ask for a policy or to stop the line.
FairSpec ==
    /\ Spec
    /\ WF_vars(TakePolicy) /\ WF_vars(PassThrough \/ DropFrame \/ HoldFrame)
    /\ WF_vars(Flush) /\ WF_vars(Tick)
    /\ \A p \in Presenters : WF_vars(SendPolicy(p))

-----------------------------------------------------------------------------
(* Properties *)

\* Every frame the loop published is in one place: refused to its face, still in
\* the channel, held back, counted as dropped, or handed downstream.  The counter
\* the projector shows rests on it (chaos.go:195-206).
Accounted ==
    published = refused + Len(in) + Len(pending) + dropped + Len(out)

\* Delay and loss, but never a frame twice and never two out of order, whatever
\* the policy is changed to while frames wait (chaos.go:48).
LaneIsLossyFifo == INSTANCE LossyFifo WITH sent <- published, got <- out

ImplementsLossyFifo == LaneIsLossyFifo!Spec

\* The one timer runs exactly while something waits: a queue it forgot would
\* never move again, since only a queue of one starts it (chaos.go:140-149,
\* 207-211).
TimerRunsWhilePending == (timer = Off) <=> (pending = <<>>)

\* What the line took in leaves it, downstream or into the drop counter, unless
\* the line is stopped.
Held(f) == f \in Range(in) \cup Range(FramesOf(pending))

FramesMoveOn == \A f \in 1 .. MaxFrames : Held(f) ~> ~Held(f) \/ done

\* Configure returns: a presenter is not left hanging by a full channel or by a
\* line that has gone (chaos.go:106-109).
ConfigureReturns == \A p \in Presenters : asking[p] # <<>> ~> asking[p] = <<>>

\* The policy Snapshot echoes to the presenter is the one the line runs, once
\* nothing is on its way (chaos.go:112-113).
EchoIsLive ==
    ~done /\ ctrl = <<>> /\ (\A p \in Presenters : asking[p] = <<>>) => pol = latest
=============================================================================
