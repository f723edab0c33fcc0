----------------------------- MODULE ChaosProofs ----------------------------
(***************************************************************************)
(* Theorems about the degraded lane, for queues of any capacity, any       *)
(* policies and any number of frames: it counts every frame, its timer     *)
(* runs exactly while something waits, and it is a lossy FIFO.             *)
(***************************************************************************)
EXTENDS Chaos, QueueProofs

-----------------------------------------------------------------------------
(* The invariant *)

\* A presenter has one policy to send at most.
OneAtATime == \A p \in Presenters : Len(asking[p]) <= 1

\* Nothing waits in a line that is not armed: PassThrough overtakes nobody.
DisarmedIsEmpty == ~pol.armed => pending = <<>>

\* What has left, what waits and what queues, in this order, only go up, and nothing
\* is there that was not published.
AllInOrder == Flow(out, FramesOf(pending), in, published)

Inductive ==
    /\ TypeOK
    /\ OneAtATime
    /\ TimerRunsWhilePending
    /\ DisarmedIsEmpty
    /\ Accounted
    /\ AllInOrder

-----------------------------------------------------------------------------
(* What the operators return *)

Item == [frame : 1 .. MaxFrames, wait : Nat]

\* The policy that runs asks for a delay that is a number, even the zero policy.
LEMMA PolicyIs ==
  ASSUME NEW x \in Policy \cup {Disarmed}
  PROVE  x.armed \in BOOLEAN /\ x.delay \in Nat /\ x.dropEvery \in Nat
<1>1. CASE x \in Policy
  BY <1>1, ChaosAssumption DEF Policy
<1>2. CASE x = Disarmed
  BY <1>2 DEF Disarmed
<1> QED BY <1>1, <1>2

\* The frames of a queue of delayed frames.
LEMMA FramesOfIs ==
  ASSUME NEW q \in Seq(Item)
  PROVE  /\ FramesOf(q) \in Seq(1 .. MaxFrames)
         /\ Len(FramesOf(q)) = Len(q)
         /\ \A i \in 1 .. Len(q) : FramesOf(q)[i] = q[i].frame
<1>1. Len(q) \in Nat /\ DOMAIN q = 1 .. Len(q) /\ \A i \in 1 .. Len(q) : q[i] \in Item
  OBVIOUS
<1>2. FramesOf(q) \in [1 .. Len(q) -> 1 .. MaxFrames]
  BY <1>1 DEF FramesOf, Item
<1>3. \A i \in 1 .. Len(q) : FramesOf(q)[i] = q[i].frame
  BY <1>1 DEF FramesOf
<1>4. FramesOf(q) \in Seq(1 .. MaxFrames) /\ Len(FramesOf(q)) = Len(q)
  BY <1>1, <1>2, SeqOfFunction
<1> QED BY <1>3, <1>4

\* flush has a place to stop at: before the first frame that is not ready, or at the end.
LEMMA ReadyIs ==
  ASSUME pending \in Seq(Item)
  PROVE  /\ Ready \in 0 .. Len(pending)
         /\ \A i \in 1 .. Ready : pending[i].wait = 0
         /\ Ready < Len(pending) => pending[Ready + 1].wait > 0
<1> DEFINE stops(n) == n < Len(pending) => pending[n + 1].wait > 0
           S == {n \in 0 .. Len(pending) : stops(n)}
<1>1. Len(pending) \in Nat /\ \A i \in 1 .. Len(pending) : pending[i].wait \in Nat
  <2>1. Len(pending) \in Nat /\ \A i \in 1 .. Len(pending) : pending[i] \in Item
    OBVIOUS
  <2> QED BY <2>1 DEF Item
<1>2. S \in SUBSET Nat /\ Len(pending) \in S
  BY <1>1
<1>3. PICK m \in S : \A k \in S : m <= k
  BY <1>2, LeastNat
<1>4. ASSUME NEW i \in 1 .. m PROVE pending[i].wait = 0
  <2>1. i - 1 \in 0 .. Len(pending) /\ i - 1 < m /\ (i - 1) + 1 = i /\ i \in 1 .. Len(pending)
    BY <1>1, <1>3, <1>4
  <2>2. i - 1 \notin S
    <3>1. m \in Nat /\ i - 1 \in Nat /\ ~(m <= i - 1)
      BY <2>1, <1>1
    <3> QED BY <3>1, <1>3, Zenon
  <2>3. ~(pending[i].wait > 0)
    BY <2>1, <2>2
  <2> QED BY <2>1, <2>3, <1>1
<1>5. \E n \in 0 .. Len(pending) :
         /\ \A i \in 1 .. n : pending[i].wait = 0
         /\ n < Len(pending) => pending[n+1].wait > 0
  BY <1>3, <1>4
<1> QED BY <1>5 DEF Ready

-----------------------------------------------------------------------------
(* The invariant is kept, one part at a time *)

\* An idle line, with nothing published, satisfies every conjunct.
LEMMA InitInductive == Init => Inductive
<1> SUFFICES ASSUME Init PROVE Inductive
  OBVIOUS
<1> USE DEF Init
<1>1. TypeOK /\ OneAtATime
  <2>1. published \in 0 .. MaxFrames /\ requests \in 0 .. MaxRequests
    BY ChaosAssumption
  <2>2. asking \in [Presenters -> Seq(Policy)] /\ OneAtATime
    BY DEF OneAtATime
  <2>3. in \in Seq(1 .. MaxFrames) /\ out \in Seq(1 .. MaxFrames) /\ Len(in) <= Ring
    BY ChaosAssumption
  <2>4. pending \in Seq(Item) /\ Len(pending) <= Ring
    BY ChaosAssumption
  <2>5. ctrl \in Seq(Policy) /\ Len(ctrl) <= CtrlDepth
    BY ChaosAssumption
  <2> QED BY <2>1, <2>2, <2>3, <2>4, <2>5 DEF TypeOK, Item
<1>2. TimerRunsWhilePending /\ DisarmedIsEmpty /\ Accounted
  BY DEF TimerRunsWhilePending, DisarmedIsEmpty, Accounted, Off
<1>3. FramesOf(pending) = <<>>
  BY DEF FramesOf
<1>4. AllInOrder
  BY <1>3, FlowOfNothing DEF AllInOrder
<1> QED BY <1>1, <1>2, <1>4 DEF Inductive


\* The sizes that Accounted adds up.
LEMMA SizesAre ==
  ASSUME TypeOK
  PROVE  /\ pending \in Seq(Item) /\ Len(pending) \in 0 .. Ring
         /\ in \in Seq(1 .. MaxFrames) /\ Len(in) \in 0 .. Ring
         /\ out \in Seq(1 .. MaxFrames) /\ Len(out) \in Nat
         /\ published \in Nat /\ refused \in Nat /\ dropped \in Nat /\ seen \in Nat
BY ChaosAssumption DEF TypeOK, Item

\* The next number goes to the back of the queue, or to the caller's counter.
LEMMA PublishInductive ==
  ASSUME Inductive, Publish PROVE Inductive'
<1>1. /\ published' = published + 1 /\ published' \in 1 .. MaxFrames
      /\ UNCHANGED <<latest, asking, requests, ctrl, line, done>>
      /\ UNCHANGED <<pending, timer, pol, out, dropped>>
  BY ChaosAssumption DEF Inductive, TypeOK, Publish, line
<1>2. \/ in' = Append(in, published + 1) /\ Len(in) < Ring /\ refused' = refused
      \/ in' = in /\ refused' = refused + 1
  BY DEF Publish
<1>3. /\ in' \in Seq(1 .. MaxFrames) /\ Len(in') <= Ring /\ refused' \in Nat
      /\ Len(in') + refused' = Len(in) + refused + 1
  <2>1. in \in Seq(1 .. MaxFrames) /\ Len(in) \in 0 .. Ring /\ refused \in Nat
    BY SizesAre DEF Inductive
  <2>2. Ring \in Nat /\ published + 1 \in 1 .. MaxFrames
    BY <1>1, ChaosAssumption
  <2>3. Append(in, published + 1) \in Seq(1 .. MaxFrames) /\ Len(Append(in, published + 1)) = Len(in) + 1
    BY <2>1, <2>2, AppendProperties
  <2>4. CASE in' = in /\ refused' = refused + 1
    BY <2>1, <2>2, <2>4
  <2>5. CASE in' = Append(in, published + 1) /\ Len(in) < Ring /\ refused' = refused
    <3>1. Len(in') = Len(in) + 1 /\ in' \in Seq(1 .. MaxFrames)
      BY <2>3, <2>5
    <3> QED BY <2>1, <2>2, <2>5, <3>1
  <2> QED BY <1>2, <2>4, <2>5
<1>4. (TypeOK /\ OneAtATime)'
  <2>1. published' \in 0 .. MaxFrames
    BY <1>1
  <2> QED BY <1>1, <1>3, <2>1 DEF Inductive, TypeOK, OneAtATime, line
<1>5. (TimerRunsWhilePending /\ DisarmedIsEmpty)'
  BY <1>1 DEF Inductive, TimerRunsWhilePending, DisarmedIsEmpty
<1>6. Accounted'
  <2>1. Len(in') \in Nat
    BY <1>3
  <2>2. /\ Len(in) \in Nat /\ Len(pending) \in Nat /\ Len(out) \in Nat
        /\ published \in Nat /\ refused \in Nat /\ dropped \in Nat
    BY SizesAre DEF Inductive
  <2> QED BY <1>1, <1>3, <2>1, <2>2 DEF Inductive, Accounted
<1>7. AllInOrder'
  <2>1. published \in Nat /\ published + 1 \in Nat /\ published <= published + 1
    BY SizesAre DEF Inductive
  <2>2. Flow(out, FramesOf(pending), in', published + 1)
    <3>1. Flow(out, FramesOf(pending), in, published)
      BY DEF Inductive, AllInOrder
    <3>2. CASE in' = in
      BY <3>1, <3>2, <2>1, FlowMore
    <3>3. CASE in' = Append(in, published + 1)
      BY <3>1, <3>3, FlowAccepts
    <3> QED BY <1>2, <3>2, <3>3
  <2> QED BY <1>1, <2>2 DEF AllInOrder, FramesOf
<1> QED BY <1>4, <1>5, <1>6, <1>7 DEF Inductive

\* The queue, the frames that wait, the counters and the timer are as they were.
SameLine == UNCHANGED <<published, refused, in, pol, pending, seen, dropped, timer, out>>

\* A step that leaves the line alone owes the invariant only the types and the order of requests.
LEMMA SameLineInductive ==
  ASSUME Inductive, SameLine, (TypeOK /\ OneAtATime)' PROVE Inductive'
BY DEF Inductive, SameLine, TimerRunsWhilePending, DisarmedIsEmpty, Accounted, AllInOrder, FramesOf

\* Recording a policy under the mutex does not touch the line.
LEMMA SetLatestInductive ==
  ASSUME Inductive, NEW p \in Presenters, NEW policy \in Policy, SetLatest(p, policy)
  PROVE  Inductive'
<1>1. SameLine /\ UNCHANGED <<ctrl, done>>
  BY DEF SetLatest, SameLine, line
<1>2. requests' \in 0 .. MaxRequests /\ latest' \in Policy
  BY ChaosAssumption DEF SetLatest, Inductive, TypeOK
<1>3. asking' \in [Presenters -> Seq(Policy)] /\ OneAtATime'
  <2>1. asking \in [Presenters -> Seq(Policy)] /\ asking' = [asking EXCEPT ![p] = <<policy>>]
    BY DEF SetLatest, Inductive, TypeOK
  <2>2. <<policy>> \in Seq(Policy) /\ Len(<<policy>>) = 1
    OBVIOUS
  <2> QED BY <2>1, <2>2 DEF Inductive, OneAtATime
<1>4. TypeOK'
  BY <1>1, <1>2, <1>3 DEF SameLine, Inductive, TypeOK
<1> QED BY <1>1, <1>3, <1>4, SameLineInductive

\* Nor does sending it to the control channel, after the unlock.
LEMMA SendPolicyInductive ==
  ASSUME Inductive, NEW p \in Presenters, SendPolicy(p) PROVE Inductive'
<1>1. SameLine /\ UNCHANGED <<latest, requests, done>>
  BY DEF SendPolicy, SameLine, line
<1>2. asking \in [Presenters -> Seq(Policy)] /\ asking' = [asking EXCEPT ![p] = <<>>]
  BY DEF SendPolicy, Inductive, TypeOK
<1>3. asking' \in [Presenters -> Seq(Policy)] /\ OneAtATime'
  <2>1. <<>> \in Seq(Policy) /\ Len(<<>>) = 0
    OBVIOUS
  <2> QED BY <1>2, <2>1 DEF Inductive, OneAtATime
<1>4. ctrl' \in Seq(Policy) /\ Len(ctrl') <= CtrlDepth
  <2>1. asking[p] \in Seq(Policy) /\ Len(asking[p]) <= 1
    BY <1>2 DEF Inductive, OneAtATime
  <2>2. ctrl \in Seq(Policy) /\ Len(ctrl) <= CtrlDepth
    BY DEF Inductive, TypeOK
  <2>3. \/ Len(ctrl) < CtrlDepth /\ ctrl' = ctrl \o asking[p]
        \/ ctrl' = ctrl
    BY DEF SendPolicy
  <2> QED BY <2>1, <2>2, <2>3, ChaosAssumption
<1>5. TypeOK'
  BY <1>1, <1>3, <1>4 DEF SameLine, Inductive, TypeOK
<1> QED BY <1>1, <1>3, <1>5, SameLineInductive

\* Cancellation stops the line and forgets its frames where they are.
LEMMA StopInductive ==
  ASSUME Inductive, Stop PROVE Inductive'
<1>1. SameLine /\ UNCHANGED <<latest, asking, requests, ctrl>> /\ done' = TRUE
  BY DEF Stop, SameLine, callers, line
<1>2. (TypeOK /\ OneAtATime)'
  BY <1>1 DEF SameLine, Inductive, TypeOK, OneAtATime
<1> QED BY <1>1, <1>2, SameLineInductive

\* The invariant reads only the variables of the module.
LEMMA StutterInductive ==
  ASSUME Inductive, UNCHANGED vars PROVE Inductive'
<1>1. SameLine /\ UNCHANGED <<latest, asking, requests, ctrl, done>>
  BY DEF vars, SameLine, callers, line
<1>2. (TypeOK /\ OneAtATime)'
  BY <1>1 DEF SameLine, Inductive, TypeOK, OneAtATime
<1> QED BY <1>1, <1>2, SameLineInductive

-----------------------------------------------------------------------------
(* The branches of Run *)

\* What the operations on the queue of delayed frames do to its frames.
LEMMA FramesOfAppend ==
  ASSUME NEW q \in Seq(Item), NEW f \in 1 .. MaxFrames, NEW w \in Nat
  PROVE  /\ Append(q, [frame |-> f, wait |-> w]) \in Seq(Item)
         /\ FramesOf(Append(q, [frame |-> f, wait |-> w])) = Append(FramesOf(q), f)
<1> DEFINE it == [frame |-> f, wait |-> w]
           a  == Append(q, it)
           b  == Append(FramesOf(q), f)
<1>1. it \in Item /\ it.frame = f
  BY DEF Item
<1>2. Len(q) \in Nat /\ FramesOf(q) \in Seq(1 .. MaxFrames) /\ Len(FramesOf(q)) = Len(q)
  BY FramesOfIs
<1> HIDE DEF it
<1>3. a \in Seq(Item) /\ Len(a) = Len(q) + 1 /\ \A i \in 1 .. Len(q) : a[i] = q[i]
  BY <1>1, AppendProperties
<1>4. a[Len(q) + 1] = it
  BY <1>1, AppendProperties
<1>5. b \in Seq(1 .. MaxFrames) /\ Len(b) = Len(q) + 1 /\ \A i \in 1 .. Len(q) : b[i] = FramesOf(q)[i]
  BY <1>2, AppendProperties
<1>6. b[Len(q) + 1] = f
  BY <1>2, AppendProperties
<1> HIDE DEF a, b
<1>7. FramesOf(a) \in Seq(1 .. MaxFrames) /\ Len(FramesOf(a)) = Len(q) + 1
      /\ \A i \in 1 .. Len(q) + 1 : FramesOf(a)[i] = a[i].frame
  BY <1>3, FramesOfIs
<1>8. ASSUME NEW i \in 1 .. Len(q) + 1 PROVE FramesOf(a)[i] = b[i]
  <2>1. CASE i = Len(q) + 1
    BY <2>1, <1>1, <1>4, <1>6, <1>7
  <2>2. CASE i # Len(q) + 1
    <3>1. i \in 1 .. Len(q)
      BY <2>2, <1>2
    <3>2. FramesOf(q)[i] = q[i].frame
      BY <3>1, FramesOfIs
    <3> QED BY <3>1, <3>2, <1>3, <1>5, <1>7
  <2> QED BY <2>1, <2>2
<1>9. FramesOf(a) = b
  BY <1>5, <1>7, <1>8, SeqEqual
<1> QED BY <1>3, <1>9 DEF a, b, it

\* The frames of a piece of the delay queue are that piece of its frames.
LEMMA FramesOfCut ==
  ASSUME NEW q \in Seq(Item), NEW a \in 1 .. Len(q) + 1, NEW b \in a - 1 .. Len(q)
  PROVE  FramesOf(SubSeq(q, a, b)) = SubSeq(FramesOf(q), a, b)
<1>1. /\ Len(q) \in Nat /\ FramesOf(q) \in Seq(1 .. MaxFrames) /\ Len(FramesOf(q)) = Len(q)
      /\ \A i \in 1 .. Len(q) : FramesOf(q)[i] = q[i].frame
  BY FramesOfIs
<1>2. /\ SubSeq(q, a, b) \in Seq(Item) /\ Len(SubSeq(q, a, b)) = b - a + 1
      /\ \A i \in 1 .. b - a + 1 : a + i - 1 \in 1 .. Len(q) /\ SubSeq(q, a, b)[i] = q[a + i - 1]
  BY CutIs
<1> DEFINE f == FramesOf(q)
<1> HIDE DEF f
<1>3. f \in Seq(1 .. MaxFrames) /\ a \in 1 .. Len(f) + 1 /\ b \in a - 1 .. Len(f)
  BY <1>1 DEF f
<1>4. /\ SubSeq(f, a, b) \in Seq(1 .. MaxFrames) /\ Len(SubSeq(f, a, b)) = b - a + 1
      /\ \A i \in 1 .. b - a + 1 : SubSeq(f, a, b)[i] = f[a + i - 1]
  BY <1>3, CutIs
<1>5. /\ FramesOf(SubSeq(q, a, b)) \in Seq(1 .. MaxFrames)
      /\ Len(FramesOf(SubSeq(q, a, b))) = b - a + 1
      /\ \A i \in 1 .. b - a + 1 : FramesOf(SubSeq(q, a, b))[i] = SubSeq(q, a, b)[i].frame
  BY <1>2, FramesOfIs
<1>6. \A i \in 1 .. b - a + 1 : FramesOf(SubSeq(q, a, b))[i] = SubSeq(f, a, b)[i]
  BY <1>1, <1>2, <1>4, <1>5, Zenon DEF f
<1>7. FramesOf(SubSeq(q, a, b)) = SubSeq(f, a, b)
  BY <1>4, <1>5, <1>6, SeqEqual
<1> QED BY <1>7 DEF f

\* A frame of the channel is a frame.
LEMMA HeadOfInIs ==
  ASSUME TypeOK, in # <<>>
  PROVE  /\ Head(in) \in 1 .. MaxFrames /\ Tail(in) \in Seq(1 .. MaxFrames)
         /\ Len(Tail(in)) = Len(in) - 1 /\ Len(in) \in 0 .. Ring
BY SizesAre, HeadTailProperties

\* A policy that disarms sends on all that waits, in order.
LEMMA TakePolicyInductive ==
  ASSUME Inductive, TakePolicy PROVE Inductive'
<1>1. /\ UNCHANGED <<callers, in, seen, dropped, done>>
      /\ UNCHANGED <<published, refused, latest, asking, requests>>
  BY DEF TakePolicy, callers
<1>2. pol' \in Policy /\ ctrl' \in Seq(Policy) /\ Len(ctrl') <= CtrlDepth /\ pol'.armed \in BOOLEAN
  <2>1. ctrl \in Seq(Policy) /\ Len(ctrl) <= CtrlDepth /\ ctrl # <<>>
    BY DEF Inductive, TypeOK, TakePolicy
  <2>2. pol' = Head(ctrl) /\ ctrl' = Tail(ctrl)
    BY DEF TakePolicy
  <2>3. Len(ctrl) \in Nat /\ CtrlDepth \in Nat
    BY <2>1, ChaosAssumption
  <2>4. pol' \in Policy /\ ctrl' \in Seq(Policy) /\ Len(ctrl') = Len(ctrl) - 1
    BY <2>1, <2>2, HeadTailProperties
  <2> QED BY <2>1, <2>3, <2>4 DEF Policy
<1>3. CASE pol'.armed
  <2>1. UNCHANGED <<pending, timer, out>>
    BY <1>3 DEF TakePolicy
  <2>2. (TypeOK /\ OneAtATime)'
    BY <1>1, <1>2, <2>1 DEF Inductive, TypeOK, OneAtATime
  <2>3. (TimerRunsWhilePending /\ DisarmedIsEmpty /\ Accounted)'
    BY <1>1, <1>3, <2>1 DEF Inductive, TimerRunsWhilePending, DisarmedIsEmpty, Accounted
  <2>4. AllInOrder'
    BY <1>1, <2>1 DEF Inductive, AllInOrder, FramesOf
  <2> QED BY <2>2, <2>3, <2>4 DEF Inductive
<1>4. CASE ~pol'.armed
  <2> DEFINE w == FramesOf(pending)
  <2>1. out' = out \o w /\ pending' = <<>> /\ timer' = Off
    BY <1>4 DEF TakePolicy, Released
  <2>2. w \in Seq(1 .. MaxFrames) /\ Len(w) = Len(pending) /\ Len(pending) \in Nat
    BY SizesAre, FramesOfIs DEF Inductive
  <2>3. out \in Seq(1 .. MaxFrames) /\ Len(out) \in Nat
    BY SizesAre DEF Inductive
  <2>4. out' \in Seq(1 .. MaxFrames) /\ Len(out') = Len(out) + Len(pending)
    <3> HIDE DEF w
    <3>1. out \o w \in Seq(1 .. MaxFrames) /\ Len(out \o w) = Len(out) + Len(w)
      BY <2>2, <2>3, ConcatIs
    <3> QED BY <2>1, <2>2, <3>1
  <2>5. pending' \in Seq(Item) /\ Len(pending') = 0
    BY <2>1
  <2>6. (TypeOK /\ OneAtATime)'
    <3>1. Len(pending') <= Ring
      BY <2>5, ChaosAssumption
    <3> QED BY <1>1, <1>2, <2>1, <2>4, <2>5, <3>1 DEF Inductive, TypeOK, OneAtATime, Item
  <2>7. (TimerRunsWhilePending /\ DisarmedIsEmpty)'
    BY <2>1 DEF TimerRunsWhilePending, DisarmedIsEmpty
  <2>8. Accounted'
    <3>1. /\ Len(in) \in Nat /\ published \in Nat /\ refused \in Nat /\ dropped \in Nat
      BY SizesAre DEF Inductive
    <3> QED BY <1>1, <2>2, <2>3, <2>4, <2>5, <3>1 DEF Inductive, Accounted
  <2>9. AllInOrder'
    <3>1. Flow(out, w, in, published)
      BY DEF Inductive, AllInOrder
    <3> HIDE DEF w
    <3>2. Len(w) \in 0 .. Len(w) /\ w \in Seq(Nat)
      BY <3>1, <2>2 DEF Flow
    <3>3. Flow(out \o SubSeq(w, 1, Len(w)), SubSeq(w, Len(w) + 1, Len(w)), in, published)
      BY <3>1, <3>2, FlowLeaves
    <3>4. SubSeq(w, 1, Len(w)) = w /\ SubSeq(w, Len(w) + 1, Len(w)) = <<>>
      BY <3>2, SubSeqFull, SubSeqEmpty
    <3>5. FramesOf(pending') = <<>>
      BY <2>1 DEF FramesOf
    <3> QED BY <1>1, <2>1, <3>3, <3>4, <3>5 DEF AllInOrder
  <2> QED BY <2>6, <2>7, <2>8, <2>9 DEF Inductive
<1> QED BY <1>2, <1>3, <1>4

\* A line that is not armed holds nothing, so what passes overtakes nothing.
LEMMA PassThroughInductive ==
  ASSUME Inductive, PassThrough PROVE Inductive'
<1>1. /\ in # <<>> /\ ~pol.armed
      /\ out' = Append(out, Head(in)) /\ in' = Tail(in)
      /\ UNCHANGED <<callers, ctrl, pol, pending, seen, dropped, timer, done>>
      /\ UNCHANGED <<published, refused, latest, asking, requests>>
  BY DEF PassThrough, callers
<1>2. /\ Head(in) \in 1 .. MaxFrames /\ in' \in Seq(1 .. MaxFrames)
      /\ Len(in') = Len(in) - 1 /\ Len(in) \in Nat /\ Len(in) <= Ring /\ Ring \in Nat
  BY <1>1, HeadOfInIs, ChaosAssumption DEF Inductive
<1>3. out' \in Seq(1 .. MaxFrames) /\ Len(out') = Len(out) + 1 /\ Len(out) \in Nat
  <2>1. out \in Seq(1 .. MaxFrames) /\ Len(out) \in Nat
    BY SizesAre DEF Inductive
  <2> QED BY <1>1, <1>2, <2>1, AppendProperties
<1>4. (TypeOK /\ OneAtATime)'
  <2>1. Len(in') <= Ring
    BY <1>2
  <2> QED BY <1>1, <1>2, <1>3, <2>1 DEF Inductive, TypeOK, OneAtATime
<1>5. (TimerRunsWhilePending /\ DisarmedIsEmpty)'
  BY <1>1 DEF Inductive, TimerRunsWhilePending, DisarmedIsEmpty
<1>6. Accounted'
  <2>1. /\ Len(pending) \in Nat /\ published \in Nat /\ refused \in Nat /\ dropped \in Nat
    BY SizesAre DEF Inductive
  <2> QED BY <1>1, <1>2, <1>3, <2>1 DEF Inductive, Accounted
<1>7. AllInOrder'
  <2>1. FramesOf(pending) = <<>> /\ FramesOf(pending') = <<>>
    BY <1>1 DEF Inductive, DisarmedIsEmpty, FramesOf
  <2>2. Flow(out, <<>>, in, published)
    BY <2>1 DEF Inductive, AllInOrder
  <2>3. Flow(Append(out, Head(in)), <<>>, Tail(in), published)
    BY <1>1, <2>2, FlowPasses
  <2> QED BY <1>1, <2>1, <2>3 DEF AllInOrder
<1> QED BY <1>4, <1>5, <1>6, <1>7 DEF Inductive

\* A frame that the policy drops is counted and goes nowhere (chaos.go:195).
LEMMA DropFrameInductive ==
  ASSUME Inductive, DropFrame PROVE Inductive'
<1>1. /\ in # <<>> /\ in' = Tail(in) /\ seen' = seen + 1 /\ dropped' = dropped + 1
      /\ UNCHANGED <<callers, ctrl, pol, pending, timer, out, done>>
      /\ UNCHANGED <<published, refused, latest, asking, requests>>
  BY DEF DropFrame, callers
<1>2. /\ in' \in Seq(1 .. MaxFrames)
      /\ Len(in') = Len(in) - 1 /\ Len(in) \in Nat /\ Len(in) <= Ring /\ Ring \in Nat
  BY <1>1, HeadOfInIs, ChaosAssumption DEF Inductive
<1>3. /\ Len(pending) \in Nat /\ published \in Nat /\ refused \in Nat /\ Len(out) \in Nat
      /\ dropped \in Nat /\ seen \in Nat
  BY SizesAre DEF Inductive
<1>4. (TypeOK /\ OneAtATime)'
  <2>1. Len(in') <= Ring /\ dropped' \in Nat /\ seen' \in Nat
    BY <1>1, <1>2, <1>3
  <2> QED BY <1>1, <1>2, <2>1 DEF Inductive, TypeOK, OneAtATime
<1>5. (TimerRunsWhilePending /\ DisarmedIsEmpty)'
  BY <1>1 DEF Inductive, TimerRunsWhilePending, DisarmedIsEmpty
<1>6. Accounted'
  BY <1>1, <1>2, <1>3 DEF Inductive, Accounted
<1>7. AllInOrder'
  <2>1. Flow(out, FramesOf(pending), Tail(in), published)
    BY <1>1, FlowDrops DEF Inductive, AllInOrder
  <2> QED BY <1>1, <2>1 DEF AllInOrder, FramesOf
<1> QED BY <1>4, <1>5, <1>6, <1>7 DEF Inductive

\* A frame that is held joins the back; a full queue has shed its oldest.
LEMMA HoldFrameInductive ==
  ASSUME Inductive, HoldFrame PROVE Inductive'
<1> DEFINE rest == IF Full THEN Tail(pending) ELSE pending
           held == Append(rest, [frame |-> Head(in), wait |-> pol.delay])
<1>1. /\ in # <<>> /\ pol.armed /\ in' = Tail(in) /\ seen' = seen + 1
      /\ dropped' = (IF Full THEN dropped + 1 ELSE dropped)
      /\ pending' = held
      /\ timer' = (IF Len(held) = 1 THEN Arm(held) ELSE timer)
      /\ UNCHANGED <<callers, ctrl, pol, out, done>>
      /\ UNCHANGED <<published, refused, latest, asking, requests>>
  BY Zenon DEF HoldFrame, callers
<1>2. /\ Head(in) \in 1 .. MaxFrames /\ in' \in Seq(1 .. MaxFrames)
      /\ Len(in') = Len(in) - 1 /\ Len(in) \in Nat /\ Len(in) <= Ring /\ Ring \in Nat \ {0}
  BY <1>1, HeadOfInIs, ChaosAssumption DEF Inductive
<1>3. /\ published \in Nat /\ refused \in Nat /\ Len(out) \in Nat
      /\ dropped \in Nat /\ seen \in Nat
      /\ pending \in Seq(Item) /\ Len(pending) \in Nat /\ Len(pending) <= Ring
  BY SizesAre DEF Inductive
<1>4. pol.delay \in Nat
  BY PolicyIs DEF Inductive, TypeOK
<1>5. /\ rest \in Seq(Item) /\ Len(rest) \in Nat /\ Len(rest) < Ring
      /\ Len(rest) + dropped' = Len(pending) + dropped
      /\ Flow(out, FramesOf(rest), in, published)
  <2>1. CASE ~Full
    BY <1>1, <1>2, <1>3, <2>1 DEF Full, Inductive, AllInOrder
  <2>2. CASE Full
    <3>1. pending # <<>> /\ rest = Tail(pending) /\ dropped' = dropped + 1
      BY <1>1, <1>2, <1>3, <2>2 DEF Full
    <3>2. rest \in Seq(Item) /\ Len(rest) = Len(pending) - 1
      BY <1>3, <3>1, HeadTailProperties
    <3>3. FramesOf(Tail(pending)) = Tail(FramesOf(pending)) /\ FramesOf(pending) # <<>>
      <4>1. /\ FramesOf(pending) \in Seq(1 .. MaxFrames)
            /\ Len(FramesOf(pending)) = Len(pending)
        BY <1>3, FramesOfIs
      <4>2. FramesOf(pending) # <<>>
        BY <1>3, <3>1, <4>1
      <4>3. /\ Tail(pending) = SubSeq(pending, 2, Len(pending))
            /\ Tail(FramesOf(pending)) = SubSeq(FramesOf(pending), 2, Len(pending))
        BY <1>3, <3>1, <4>1, <4>2, HeadIsCut
      <4>4. 2 \in 1 .. Len(pending) + 1 /\ Len(pending) \in 2 - 1 .. Len(pending)
        BY <1>3, <3>1
      <4> QED BY <1>3, <4>2, <4>3, <4>4, FramesOfCut
    <3>4. Flow(out, Tail(FramesOf(pending)), in, published)
      BY <3>3, FlowSheds DEF Inductive, AllInOrder
    <3>5. Len(rest) \in Nat /\ Len(rest) < Ring /\ Len(rest) + dropped' = Len(pending) + dropped
      <4>1. Len(pending) # 0
        BY <1>3, <3>1
      <4>2. Len(pending) \in Nat /\ Len(pending) <= Ring /\ Ring \in Nat /\ dropped \in Nat
        BY <1>2, <1>3
      <4>3. dropped' = dropped + 1 /\ Len(rest) = Len(pending) - 1
        BY <3>1, <3>2
      <4> HIDE DEF rest
      <4> QED BY <4>1, <4>2, <4>3
    <3> QED BY <3>1, <3>2, <3>3, <3>4, <3>5
  <2> QED BY <2>1, <2>2
<1> HIDE DEF rest
<1>6. /\ held \in Seq(Item) /\ Len(held) = Len(rest) + 1
      /\ FramesOf(held) = Append(FramesOf(rest), Head(in))
  <2>1. [frame |-> Head(in), wait |-> pol.delay] \in Item
    BY <1>2, <1>4 DEF Item
  <2>2. Len(held) = Len(rest) + 1
    BY <1>5, <2>1, AppendProperties
  <2> QED BY <1>2, <1>4, <1>5, <2>2, FramesOfAppend
<1>7. timer' \in Nat
  <2>1. CASE Len(held) = 1
    <3>1. held # <<>> /\ Head(held) \in Item
      <4> HIDE DEF held
      <4>1. held # <<>>
        BY <1>6, <2>1
      <4> QED BY <1>6, <4>1, HeadTailProperties
    <3>2. timer' = Head(held).wait
      BY <1>1, <2>1, <3>1 DEF Arm
    <3> QED BY <3>1, <3>2 DEF Item
  <2>2. CASE Len(held) # 1
    <3>1. timer' = timer /\ Len(rest) # 0
      BY <1>1, <1>5, <1>6, <2>2
    <3>2. pending # <<>>
      <4>1. CASE Full
        BY <4>1, <1>2, <1>3 DEF Full
      <4>2. CASE ~Full
        BY <4>2, <3>1 DEF rest
      <4> QED BY <4>1, <4>2
    <3>3. timer \in Nat \cup {Off} /\ timer # Off
      BY <3>2 DEF Inductive, TypeOK, TimerRunsWhilePending
    <3> QED BY <3>1, <3>3
  <2> QED BY <2>1, <2>2
<1> HIDE DEF held
<1>8. held # <<>> /\ Len(held) <= Ring
  <2>1. Len(held) # 0 /\ Len(held) <= Ring
    <3>1. Len(rest) \in Nat /\ Len(rest) < Ring /\ Ring \in Nat /\ Len(held) = Len(rest) + 1
      BY <1>2, <1>5, <1>6
    <3> QED BY <3>1
  <2>2. held # <<>>
    BY <2>1
  <2> QED BY <2>1, <2>2
<1>9. (TypeOK /\ OneAtATime)'
  <2>1. Len(in') <= Ring /\ dropped' \in Nat /\ seen' \in Nat
    BY <1>1, <1>2, <1>3
  <2> QED BY <1>1, <1>2, <1>6, <1>7, <1>8, <2>1 DEF Inductive, TypeOK, OneAtATime, Item
<1>10. (TimerRunsWhilePending /\ DisarmedIsEmpty)'
  <2>1. timer' # Off
    BY <1>7 DEF Off
  <2> QED BY <1>1, <1>8, <2>1 DEF TimerRunsWhilePending, DisarmedIsEmpty
<1>11. Accounted'
  <2>1. dropped' \in Nat
    BY <1>1, <1>3
  <2>2. /\ Len(pending') = Len(rest) + 1 /\ Len(rest) + dropped' = Len(pending) + dropped
        /\ Len(in') = Len(in) - 1 /\ UNCHANGED <<published, refused, out>>
    BY <1>1, <1>2, <1>5, <1>6
  <2>3. published = refused + Len(in) + Len(pending) + dropped + Len(out)
    BY DEF Inductive, Accounted
  <2>4. /\ Len(in) \in Nat /\ Len(pending) \in Nat /\ Len(rest) \in Nat /\ Len(out) \in Nat
        /\ refused \in Nat /\ dropped \in Nat
    BY <1>2, <1>3, <1>5
  <2>5. Len(in') + Len(pending') + dropped' = Len(in) + Len(pending) + dropped
    <3>1. Len(in') + Len(pending') = Len(in) + Len(rest)
      BY <2>2, <2>4
    <3>2. Len(rest) + dropped' = Len(pending) + dropped
      BY <2>2
    <3> QED BY <2>1, <2>2, <2>4, <3>1, <3>2
  <2>6. Len(in') \in Nat /\ Len(pending') \in Nat
    BY <1>2, <2>2, <2>4
  <2>7. published = refused + (Len(in') + Len(pending') + dropped') + Len(out)
    BY <2>3, <2>4, <2>5
  <2>8. published = refused + Len(in') + Len(pending') + dropped' + Len(out)
    BY <2>1, <2>4, <2>6, <2>7
  <2> QED BY <2>2, <2>8 DEF Accounted
<1>12. AllInOrder'
  <2>1. Flow(out, Append(FramesOf(rest), Head(in)), Tail(in), published)
    BY <1>1, <1>5, FlowHolds
  <2> QED BY <1>1, <1>6, <2>1 DEF AllInOrder
<1> QED BY <1>9, <1>10, <1>11, <1>12 DEF Inductive

\* What is ready leaves from the front; the timer runs for the new head.
LEMMA FlushInductive ==
  ASSUME Inductive, Flush PROVE Inductive'
<1> DEFINE f == FramesOf(pending)
<1>1. /\ out' = out \o FramesOf(SubSeq(pending, 1, Ready))
      /\ pending' = SubSeq(pending, Ready + 1, Len(pending))
      /\ timer' = Arm(pending')
      /\ UNCHANGED <<callers, in, ctrl, pol, seen, dropped, done>>
      /\ UNCHANGED <<published, refused, latest, asking, requests>>
  BY DEF Flush, Unready, callers
<1>2. /\ published \in Nat /\ refused \in Nat /\ dropped \in Nat /\ Len(in) \in Nat
      /\ out \in Seq(1 .. MaxFrames) /\ Len(out) \in Nat
      /\ pending \in Seq(Item) /\ Len(pending) \in Nat /\ Len(pending) <= Ring
  BY SizesAre DEF Inductive
<1>3. Ready \in 0 .. Len(pending)
  BY <1>2, ReadyIs
<1>4. f \in Seq(1 .. MaxFrames) /\ Len(f) = Len(pending)
  BY <1>2, FramesOfIs
<1>5. /\ FramesOf(SubSeq(pending, 1, Ready)) = SubSeq(f, 1, Ready)
      /\ FramesOf(pending') = SubSeq(f, Ready + 1, Len(f))
  <2> HIDE DEF f
  <2>1. FramesOf(SubSeq(pending, 1, Ready)) = SubSeq(f, 1, Ready)
    <3>1. 1 \in 1 .. Len(pending) + 1 /\ Ready \in 1 - 1 .. Len(pending)
      BY <1>2, <1>3
    <3> QED BY <1>2, <3>1, FramesOfCut DEF f
  <2>2. FramesOf(SubSeq(pending, Ready + 1, Len(pending))) = SubSeq(f, Ready + 1, Len(pending))
    <3>1. Ready + 1 \in 1 .. Len(pending) + 1 /\ Len(pending) \in Ready + 1 - 1 .. Len(pending)
      BY <1>2, <1>3
    <3> QED BY <1>2, <3>1, FramesOfCut DEF f
  <2> QED BY <1>1, <1>4, <2>1, <2>2
<1>6. pending' \in Seq(Item) /\ Len(pending') = Len(pending) - Ready
  <2>1. Ready + 1 \in 1 .. Len(pending) + 1 /\ Len(pending) \in Ready + 1 - 1 .. Len(pending)
    BY <1>2, <1>3
  <2>2. Len(pending) - (Ready + 1) + 1 = Len(pending) - Ready
    BY <1>2, <1>3
  <2> QED BY <1>1, <1>2, <2>1, <2>2, CutIs
<1> HIDE DEF f
<1>7. out' \in Seq(1 .. MaxFrames) /\ Len(out') = Len(out) + Ready
  <2>1. SubSeq(f, 1, Ready) \in Seq(1 .. MaxFrames) /\ Len(SubSeq(f, 1, Ready)) = Ready
    <3>1. 1 \in 1 .. Len(f) + 1 /\ Ready \in 1 - 1 .. Len(f) /\ Ready - 1 + 1 = Ready
      BY <1>2, <1>3, <1>4
    <3> QED BY <1>4, <3>1, CutIs
  <2>2. /\ out \o SubSeq(f, 1, Ready) \in Seq(1 .. MaxFrames)
        /\ Len(out \o SubSeq(f, 1, Ready)) = Len(out) + Ready
    BY <1>2, <2>1, ConcatIs
  <2> QED BY <1>1, <1>5, <2>2
<1>8. TimerRunsWhilePending' /\ timer' \in Nat \cup {Off}
  <2>1. CASE pending' = <<>>
    BY <1>1, <2>1 DEF Arm, TimerRunsWhilePending
  <2>2. CASE pending' # <<>>
    <3>1. Head(pending') \in Item
      BY <1>6, <2>2, HeadTailProperties
    <3>2. timer' \in Nat
      BY <1>1, <2>2, <3>1 DEF Arm, Item
    <3> QED BY <2>2, <3>2 DEF TimerRunsWhilePending, Off
  <2> QED BY <2>1, <2>2
<1>9. (TypeOK /\ OneAtATime)'
  <2>1. Len(pending') <= Ring
    BY <1>2, <1>3, <1>6, ChaosAssumption
  <2> QED BY <1>1, <1>6, <1>7, <1>8, <2>1 DEF Inductive, TypeOK, OneAtATime, Item
<1>10. DisarmedIsEmpty'
  <2>1. CASE pol.armed
    BY <1>1, <2>1 DEF DisarmedIsEmpty
  <2>2. CASE ~pol.armed
    <3>1. pending = <<>>
      BY <2>2 DEF Inductive, DisarmedIsEmpty
    <3>2. Len(pending') = 0
      BY <1>2, <1>3, <1>6, <3>1
    <3> QED BY <1>6, <3>2 DEF DisarmedIsEmpty
  <2> QED BY <2>1, <2>2
<1>11. Accounted'
  <2>1. /\ Len(pending') = Len(pending) - Ready /\ Len(out') = Len(out) + Ready
        /\ UNCHANGED <<published, refused, in, dropped>> /\ Ready \in Nat
    BY <1>1, <1>2, <1>3, <1>6, <1>7
  <2>2. published = refused + Len(in) + Len(pending) + dropped + Len(out)
    BY DEF Inductive, Accounted
  <2>3. published = refused + Len(in) + Len(pending') + dropped + Len(out')
    BY <1>2, <2>1, <2>2
  <2> QED BY <2>1, <2>3 DEF Accounted
<1>12. AllInOrder'
  <2>1. Flow(out, f, in, published) /\ Ready \in 0 .. Len(f)
    BY <1>3, <1>4 DEF Inductive, AllInOrder, f
  <2>2. Flow(out \o SubSeq(f, 1, Ready), SubSeq(f, Ready + 1, Len(f)), in, published)
    BY <2>1, FlowLeaves
  <2> QED BY <1>1, <1>5, <2>2 DEF AllInOrder
<1> QED BY <1>8, <1>9, <1>10, <1>11, <1>12 DEF Inductive

\* Time passes: what there is to wait gets less, and nothing moves.
LEMMA TickInductive ==
  ASSUME Inductive, Tick PROVE Inductive'
<1>1. /\ pending' = [i \in DOMAIN pending |-> [pending[i] EXCEPT !.wait = LessOne(@)]]
      /\ timer' = LessOne(timer)
      /\ UNCHANGED <<callers, in, ctrl, pol, seen, dropped, out, done>>
      /\ UNCHANGED <<published, refused, latest, asking, requests>>
  BY DEF Tick, callers
<1>2. pending \in Seq(Item) /\ Len(pending) \in 0 .. Ring
  BY SizesAre DEF Inductive
<1>3. /\ Len(pending) \in Nat /\ DOMAIN pending = 1 .. Len(pending)
      /\ \A i \in 1 .. Len(pending) : pending[i] \in Item
  BY <1>2
<1>4. \A it \in Item : /\ [it EXCEPT !.wait = LessOne(@)] \in Item
                       /\ [it EXCEPT !.wait = LessOne(@)].frame = it.frame
  BY DEF Item, LessOne
<1>5. pending' \in [1 .. Len(pending) -> Item]
  BY <1>1, <1>3, <1>4
<1>6. pending' \in Seq(Item) /\ Len(pending') = Len(pending)
  BY <1>3, <1>5, SeqOfFunction
<1>7. FramesOf(pending') = FramesOf(pending)
  <2>1. DOMAIN pending' = 1 .. Len(pending)
    BY <1>5
  <2>2. ASSUME NEW i \in 1 .. Len(pending) PROVE pending'[i].frame = pending[i].frame
    BY <1>1, <1>3, <1>4, <2>2
  <2> QED BY <1>3, <2>1, <2>2, Zenon DEF FramesOf
<1>8. timer' \in Nat \cup {Off} /\ (timer' = Off <=> timer = Off)
  BY <1>1 DEF Inductive, TypeOK, LessOne, Off
<1>9. pending' = <<>> <=> pending = <<>>
  BY <1>2, <1>6
<1>10. (TypeOK /\ OneAtATime)'
  <2>1. Len(pending') <= Ring
    BY <1>2, <1>6, ChaosAssumption
  <2> QED BY <1>1, <1>6, <1>8, <2>1 DEF Inductive, TypeOK, OneAtATime, Item
<1>11. (TimerRunsWhilePending /\ DisarmedIsEmpty /\ Accounted)'
  BY <1>1, <1>6, <1>8, <1>9
     DEF Inductive, TimerRunsWhilePending, DisarmedIsEmpty, Accounted
<1>12. AllInOrder'
  BY <1>1, <1>7 DEF Inductive, AllInOrder
<1> QED BY <1>10, <1>11, <1>12 DEF Inductive

\* Every step of the line keeps the invariant: one lemma for each action.
LEMMA NextInductive == Inductive /\ [Next]_vars => Inductive'
<1> SUFFICES ASSUME Inductive, [Next]_vars PROVE Inductive'
  OBVIOUS
<1>1. CASE Publish
  BY <1>1, PublishInductive
<1>2. ASSUME NEW p \in Presenters, SendPolicy(p) PROVE Inductive'
  BY <1>2, SendPolicyInductive
<1>3. ASSUME NEW p \in Presenters, NEW policy \in Policy, SetLatest(p, policy) PROVE Inductive'
  BY <1>3, SetLatestInductive
<1>4. CASE TakePolicy
  BY <1>4, TakePolicyInductive
<1>5. CASE PassThrough
  BY <1>5, PassThroughInductive
<1>6. CASE DropFrame
  BY <1>6, DropFrameInductive
<1>7. CASE HoldFrame
  BY <1>7, HoldFrameInductive
<1>8. CASE Flush
  BY <1>8, FlushInductive
<1>9. CASE Stop
  BY <1>9, StopInductive
<1>10. CASE Tick
  BY <1>10, TickInductive
<1>11. CASE UNCHANGED vars
  BY <1>11, StutterInductive
<1> QED BY <1>1, <1>2, <1>3, <1>4, <1>5, <1>6, <1>7, <1>8, <1>9, <1>10, <1>11 DEF Next

-----------------------------------------------------------------------------
(* The line is a lossy FIFO, step by step *)

\* What leaves the line arrives.
LEMMA LeavingArrives ==
  ASSUME Inductive, Inductive', NEW a \in Seq(Nat), out' = out \o a, UNCHANGED published
  PROVE  LaneIsLossyFifo!Next \/ UNCHANGED <<published, out>>
<1>1. CASE a = <<>>
  <2>1. out \in Seq(Nat)
    BY DEF Inductive, AllInOrder, Flow
  <2>2. out' = out
    BY <1>1, <2>1
  <2> QED BY <2>2
<1>2. CASE a # <<>>
  <2>1. out \in Seq(Nat) /\ Flow(out \o a, FramesOf(pending'), in', published)
    BY Zenon DEF Inductive, AllInOrder, Flow, FramesOf
  <2>2. /\ Len(out') > Len(out) /\ SubSeq(out', 1, Len(out)) = out
        /\ InOrder(out') /\ out'[Len(out')] <= published
    BY <1>2, <2>1, FlowArrives
  <2>3. LaneIsLossyFifo!InOrder(out')
    BY <2>2 DEF InOrder, LaneIsLossyFifo!InOrder
  <2>4. LaneIsLossyFifo!Arrive
    BY <2>2, <2>3 DEF LaneIsLossyFifo!Arrive
  <2> QED BY <2>4 DEF LaneIsLossyFifo!Next
<1> QED BY <1>1, <1>2

\* Every step of the line is a step of the FIFO, or is none of its business.
LEMMA NextArrives ==
  ASSUME Inductive, Inductive', [Next]_vars
  PROVE  LaneIsLossyFifo!Next \/ UNCHANGED <<published, out>>
<1>1. CASE Publish
  <2>1. published' = published + 1 /\ UNCHANGED out
    BY <1>1 DEF Publish, line
  <2> QED BY <2>1 DEF LaneIsLossyFifo!Next, LaneIsLossyFifo!Send
<1>2. ASSUME NEW p \in Presenters, SendPolicy(p) PROVE UNCHANGED <<published, out>>
  BY <1>2 DEF SendPolicy, line
<1>3. ASSUME NEW p \in Presenters, NEW policy \in Policy, SetLatest(p, policy)
      PROVE  UNCHANGED <<published, out>>
  BY <1>3 DEF SetLatest, line
<1>4. CASE TakePolicy
  <2>1. UNCHANGED published
    BY <1>4 DEF TakePolicy, callers
  <2>2. CASE pol'.armed
    BY <1>4, <2>1, <2>2 DEF TakePolicy
  <2>3. CASE ~pol'.armed
    <3>1. out' = out \o FramesOf(pending)
      BY <1>4, <2>3 DEF TakePolicy, Released
    <3>2. FramesOf(pending) \in Seq(Nat)
      BY DEF Inductive, AllInOrder, Flow
    <3> QED BY <2>1, <3>1, <3>2, LeavingArrives
  <2> QED BY <2>2, <2>3
<1>5. CASE PassThrough
  <2>1. UNCHANGED published /\ out' = Append(out, Head(in)) /\ in # <<>>
    BY <1>5 DEF PassThrough, callers
  <2>2. out \in Seq(Nat) /\ in \in Seq(Nat)
    BY DEF Inductive, AllInOrder, Flow
  <2>3. Head(in) \in Nat
    BY <2>1, <2>2
  <2>4. out' = out \o <<Head(in)>> /\ <<Head(in)>> \in Seq(Nat)
    BY <2>1, <2>2, <2>3, AppendIs
  <2> QED BY <2>1, <2>4, LeavingArrives
<1>6. CASE DropFrame
  BY <1>6 DEF DropFrame, callers
<1>7. CASE HoldFrame
  BY <1>7 DEF HoldFrame, callers
<1>8. CASE Flush
  <2>1. UNCHANGED published /\ out' = out \o FramesOf(SubSeq(pending, 1, Ready))
    BY <1>8 DEF Flush, callers
  <2>2. pending \in Seq(Item) /\ Len(pending) \in Nat
    BY SizesAre DEF Inductive
  <2>3. 1 \in 1 .. Len(pending) + 1 /\ Ready \in 1 - 1 .. Len(pending)
    BY <2>2, ReadyIs
  <2>4. SubSeq(pending, 1, Ready) \in Seq(Item)
    BY <2>2, <2>3, CutIs
  <2>5. FramesOf(SubSeq(pending, 1, Ready)) \in Seq(1 .. MaxFrames)
    BY <2>4, FramesOfIs
  <2>6. FramesOf(SubSeq(pending, 1, Ready)) \in Seq(Nat)
    <3>1. 1 .. MaxFrames \subseteq Nat
      OBVIOUS
    <3>2. Seq(1 .. MaxFrames) \subseteq Seq(Nat)
      BY <3>1, SeqMonotonic
    <3> QED BY <2>5, <3>2, Zenon
  <2> QED BY <2>1, <2>6, LeavingArrives
<1>9. CASE Stop
  BY <1>9 DEF Stop, callers, line
<1>10. CASE Tick
  BY <1>10 DEF Tick, callers
<1>11. CASE UNCHANGED vars
  BY <1>11 DEF vars, callers, line
<1> QED BY <1>1, <1>2, <1>3, <1>4, <1>5, <1>6, <1>7, <1>8, <1>9, <1>10, <1>11 DEF Next

-----------------------------------------------------------------------------
(* Theorems *)

\* What the proofs about the line rest on holds in every state of every run,
\* whatever the capacities, the policies and the number of frames and presenters.
THEOREM InductiveHolds == Spec => []Inductive
<1> QED BY InitInductive, NextInductive, PTL DEF Spec

\* Every variable of the line keeps its type, and neither channel nor the queue of
\* delayed frames grows past its capacity (chaos.go:80-93, 177-182).
THEOREM TypeCorrect == Spec => []TypeOK
<1>1. Inductive => TypeOK
  BY DEF Inductive
<1> QED BY <1>1, InductiveHolds, PTL

\* Every frame that was published is refused, queued, held, counted as dropped or
\* handed on, and none is counted twice.
THEOREM EveryFrameAccounted == Spec => []Accounted
<1>1. Inductive => Accounted
  BY DEF Inductive
<1> QED BY <1>1, InductiveHolds, PTL

\* The timer runs exactly while something waits, through toggles, shedding and
\* partial flushes.
THEOREM TimerNeverForgets == Spec => []TimerRunsWhilePending
<1>1. Inductive => TimerRunsWhilePending
  BY DEF Inductive
<1> QED BY <1>1, InductiveHolds, PTL

\* Whatever the policies are changed to while frames wait, the degraded audience gets
\* no frame twice, none out of order and none that was not published (chaos.go:48).
THEOREM LaneIsALossyFifo == Spec => ImplementsLossyFifo
<1>1. Init => LaneIsLossyFifo!Init
  BY DEF Init, LaneIsLossyFifo!Init
<1>2. Inductive /\ Inductive' /\ [Next]_vars => [LaneIsLossyFifo!Next]_<<published, out>>
  BY NextArrives
<1> QED BY <1>1, <1>2, InductiveHolds, PTL DEF Spec, ImplementsLossyFifo, LaneIsLossyFifo!Spec
=============================================================================
