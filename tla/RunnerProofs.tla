---------------------------- MODULE RunnerProofs ----------------------------
(***************************************************************************)
(* Theorems about the loop that owns the book, for a channel of any        *)
(* capacity, any number of commands and of keyframes, an engine that       *)
(* reports what it likes and lanes that refuse what they like.             *)
(***************************************************************************)
EXTENDS Runner, QueueProofs, FiniteSetTheorems

-----------------------------------------------------------------------------
(* The invariant *)

\* What the engine was given and what is still in the channel only go up.
CommandsInOrder == Flow(applied, <<>>, cmds, accepted)

\* Until a halt the last good book is the engine's last result; afterwards it is an
\* earlier one.
LastGoodIsPast ==
    /\ lastGood <= Len(applied)
    /\ ~halted => lastGood = Len(applied)

\* The degraded lane is offered books no newer than the last good one, and after
\* a halt the halt.
BooksAreGood ==
    \A i \in DOMAIN degraded :
        \/ degraded[i].kind = "book" /\ degraded[i].seq <= lastGood
        \/ degraded[i].kind = "halt" /\ halted

\* Frames are refused one at a time, so there is a number of them.
RefusedIsFinite == IsFiniteSet(refused)

\* The counters of the loop are exact: a refusal is counted on the spot, an order when
\* its report is clean.
CountersAreExact ==
    /\ laneDrops = Cardinality(refused)
    /\ orders = IF halted THEN Len(applied) - 1 ELSE Len(applied)

\* No frame is newer than the engine's last result, and the last good book has been
\* offered at least once.
LastGoodIsShown ==
    /\ \A i \in DOMAIN degraded : degraded[i].seq <= Len(applied)
    /\ lastGood > 0 => \E j \in DOMAIN degraded : degraded[j].seq = lastGood

Inductive ==
    /\ TypeOK
    /\ CommandsInOrder
    /\ LastGoodIsPast
    /\ BooksAreGood
    /\ OnlyGoodBooksShown
    /\ RefusedIsFinite
    /\ CountersAreExact
    /\ LastGoodIsShown
    /\ ReportsAddUp
    /\ LanesAgree

-----------------------------------------------------------------------------
(* What the operations give *)

\* The head of the channel leaves it, and none of it is out of order.
LEMMA ReceiveIs ==
  ASSUME Inductive, Receive
  PROVE  /\ cmds # <<>> /\ Head(cmds) \in Nat
         /\ cmds' \in Seq(Nat) /\ Len(cmds') <= QueueDepth
         /\ taken' \in Nat
         /\ UNCHANGED <<accepted, busy, keyframes, done>>
         /\ Flow(applied, <<>>, cmds', accepted)
         /\ Flow(Append(applied, Head(cmds)), <<>>, cmds', accepted)
<1>1. cmds \in Seq(Nat) /\ Len(cmds) <= QueueDepth /\ cmds # <<>> /\ taken \in Nat
  BY DEF Inductive, TypeOK, Receive
<1>2. cmds' = Tail(cmds) /\ taken' = taken + 1 /\ UNCHANGED <<accepted, busy, keyframes, done>>
  BY DEF Receive
<1>3. Head(cmds) \in Nat /\ Tail(cmds) \in Seq(Nat) /\ Len(Tail(cmds)) = Len(cmds) - 1
  BY <1>1, HeadTailProperties
<1>4. Len(cmds) \in Nat /\ QueueDepth \in Nat
  BY <1>1, RunnerAssumption
<1>5. Len(Tail(cmds)) <= QueueDepth /\ taken + 1 \in Nat
  BY <1>1, <1>3, <1>4
<1>6. Flow(applied, <<>>, cmds, accepted)
  BY DEF Inductive, CommandsInOrder
<1>7. Flow(applied, <<>>, Tail(cmds), accepted)
  BY <1>1, <1>6, FlowDrops
<1>8. Flow(Append(applied, Head(cmds)), <<>>, Tail(cmds), accepted)
  BY <1>1, <1>6, FlowPasses
<1> QED BY <1>1, <1>2, <1>3, <1>5, <1>7, <1>8

\* A frame that is not public may follow without a trace; one that is gets the next
\* place.
LEMMA PublicMore ==
  ASSUME NEW d \in Seq(Frame), NEW f \in Frame
  PROVE  /\ Append(d, f) \in Seq(Frame) /\ Len(Append(d, f)) = Len(d) + 1 /\ Len(d) \in Nat
         /\ \A i \in 1 .. Len(d) : Append(d, f)[i] = d[i]
         /\ Append(d, f)[Len(d) + 1] = f
         /\ Public(d) \subseteq 1 .. Len(d) /\ IsFiniteSet(Public(d))
         /\ Public(Append(d, f)) =
                Public(d) \cup (IF f.kind \in {"book", "halt"} THEN {Len(d) + 1} ELSE {})
<1> DEFINE e == Append(d, f)
<1>1. /\ e \in Seq(Frame) /\ Len(e) = Len(d) + 1 /\ Len(d) \in Nat
      /\ \A i \in 1 .. Len(d) : e[i] = d[i]
      /\ e[Len(d) + 1] = f
  BY AppendProperties
<1>2. DOMAIN d = 1 .. Len(d) /\ DOMAIN e = 1 .. Len(e)
  BY <1>1
<1> HIDE DEF e
<1>3. 1 .. Len(e) = 1 .. Len(d) \cup {Len(d) + 1}
  BY <1>1
<1>4. Public(e) = Public(d) \cup (IF f.kind \in {"book", "halt"} THEN {Len(d) + 1} ELSE {})
  BY <1>1, <1>2, <1>3, Zenon DEF Public
<1>5. Public(d) \subseteq 1 .. Len(d)
  BY <1>2 DEF Public
<1>6. IsFiniteSet(Public(d))
  <2>1. IsFiniteSet(1 .. Len(d))
    BY <1>1, FS_Interval
  <2> QED BY <1>5, <2>1, FS_Subset
<1> QED BY <1>1, <1>4, <1>5, <1>6 DEF e

\* What it is that the two lanes agree on.
Agree(d, g) ==
    /\ Cardinality(Public(d)) = Len(g)
    /\ \A i \in Public(d) : d[i] = g[Cardinality(Public(d) \cap 1 .. i)]

\* A frame only the direct lane gets is none of their business.
LEMMA AgreeApart ==
  ASSUME NEW d \in Seq(Frame), NEW g \in Seq(Frame), NEW f \in Frame,
         f.kind \notin {"book", "halt"}, Agree(d, g)
  PROVE  Agree(Append(d, f), g)
<1>1. Public(Append(d, f)) = Public(d) /\ Public(d) \subseteq 1 .. Len(d)
  <2>1. /\ Public(d) \subseteq 1 .. Len(d)
        /\ Public(Append(d, f)) =
               Public(d) \cup (IF f.kind \in {"book", "halt"} THEN {Len(d) + 1} ELSE {})
    BY PublicMore
  <2> QED BY <2>1, Zenon
<1>2. \A i \in Public(d) : Append(d, f)[i] = d[i]
  BY <1>1, PublicMore
<1> QED BY <1>1, <1>2, Zenon DEF Agree

\* A frame both lanes get is the next one on both.
LEMMA AgreeOnBoth ==
  ASSUME NEW d \in Seq(Frame), NEW g \in Seq(Frame), NEW f \in Frame,
         f.kind \in {"book", "halt"}, Agree(d, g)
  PROVE  Agree(Append(d, f), Append(g, f))
<1> DEFINE D == Append(d, f)
           G == Append(g, f)
           n == Len(d) + 1
<1>1. /\ Len(d) \in Nat /\ \A i \in 1 .. Len(d) : D[i] = d[i]
      /\ D[n] = f
      /\ Public(d) \subseteq 1 .. Len(d) /\ IsFiniteSet(Public(d))
      /\ Public(D) = Public(d) \cup {n}
  BY PublicMore
<1>2. /\ Len(g) \in Nat /\ Len(G) = Len(g) + 1
      /\ \A i \in 1 .. Len(g) : G[i] = g[i]
      /\ G[Len(g) + 1] = f
  BY AppendProperties
<1> HIDE DEF D, G
<1>3. n \notin Public(d)
  BY <1>1
<1>4. Cardinality(Public(D)) = Len(G)
  <2>1. Cardinality(Public(d) \cup {n}) = Cardinality(Public(d)) + 1
    BY <1>1, <1>3, FS_AddElement
  <2> QED BY <1>1, <1>2, <2>1 DEF Agree
<1>5. ASSUME NEW i \in Public(d) PROVE D[i] = G[Cardinality(Public(D) \cap 1 .. i)]
  <2>1. i \in 1 .. Len(d)
    BY <1>1
  <2>2. n \notin 1 .. i
    BY <1>1, <2>1
  <2>3. Public(D) \cap 1 .. i = Public(d) \cap 1 .. i
    BY <1>1, <2>2
  <2> DEFINE c == Cardinality(Public(d) \cap 1 .. i)
  <2>4. c \in 1 .. Len(g)
    <3>1. IsFiniteSet(Public(d) \cap 1 .. i) /\ c <= Cardinality(Public(d))
      BY <1>1, FS_Subset
    <3>2. c \in Nat
      BY <3>1, FS_CardinalityType
    <3>3. i \in Public(d) \cap 1 .. i
      BY <2>1
    <3>4. c # 0
      BY <3>1, <3>3, FS_EmptySet
    <3>5. c <= Len(g)
      BY <3>1 DEF Agree
    <3> HIDE DEF c
    <3> QED BY <1>2, <3>2, <3>4, <3>5
  <2>5. d[i] = g[c]
    BY DEF Agree
  <2> HIDE DEF c
  <2>6. D[i] = G[c]
    BY <1>1, <1>2, <2>1, <2>4, <2>5
  <2> QED BY <2>3, <2>6 DEF c
<1>6. D[n] = G[Cardinality(Public(D) \cap 1 .. n)]
  <2>1. Public(D) \subseteq 1 .. n
    BY <1>1
  <2>2. Public(D) \cap 1 .. n = Public(D)
    BY <2>1
  <2> QED BY <1>1, <1>2, <1>4, <2>2
<1>7. Agree(D, G)
  BY <1>1, <1>4, <1>5, <1>6 DEF Agree
<1> QED BY <1>7 DEF D, G

\* A frame that goes to both lanes, with none or more that go to the direct lane alone.
LEMMA OfferKeeps ==
  ASSUME Inductive, NEW f \in Frame, f.kind \in {"book", "halt"}, NEW others,
         \/ others = <<>>
         \/ \E g, h \in Frame : /\ others = <<g, h>>
                                /\ {g.kind, h.kind} \cap {"book", "halt"} = {},
         Offer(f, others)
  PROVE  /\ direct' \in Seq(Frame) /\ degraded' = Append(degraded, f)
         /\ degraded' \in Seq(Frame) /\ LanesAgree'
         /\ refused' \subseteq DOMAIN degraded' /\ IsFiniteSet(refused')
         /\ laneDrops' \in Nat /\ laneDrops' = Cardinality(refused')
         /\ refused' \in {refused, refused \cup {Len(degraded) + 1}}
<1>1. /\ direct \in Seq(Frame) /\ degraded \in Seq(Frame)
      /\ refused \subseteq DOMAIN degraded /\ IsFiniteSet(refused)
      /\ laneDrops \in Nat /\ laneDrops = Cardinality(refused)
      /\ Agree(direct, degraded)
  BY DEF Inductive, TypeOK, RefusedIsFinite, CountersAreExact, LanesAgree, Agree
<1>2. /\ direct' = Append(direct, f) \o others
      /\ degraded' = Append(degraded, f)
      /\ \/ UNCHANGED <<refused, laneDrops>>
         \/ refused' = refused \cup {Len(degraded) + 1} /\ laneDrops' = laneDrops + 1
  BY DEF Offer
<1>3. /\ degraded' \in Seq(Frame) /\ Len(degraded') = Len(degraded) + 1 /\ Len(degraded) \in Nat
  BY <1>1, <1>2, AppendProperties
<1>4. /\ Append(direct, f) \in Seq(Frame)
      /\ Agree(Append(direct, f), degraded')
  BY <1>1, <1>2, PublicMore, AgreeOnBoth
<1> DEFINE e == Append(direct, f)
<1> HIDE DEF e
<1>5. direct' \in Seq(Frame) /\ Agree(direct', degraded')
  <2>1. CASE others = <<>>
    <3>1. direct' = e
      BY <1>2, <1>4, <2>1 DEF e
    <3> QED BY <1>4, <3>1 DEF e
  <2>2. ASSUME NEW g \in Frame, NEW h \in Frame, others = <<g, h>>,
               {g.kind, h.kind} \cap {"book", "halt"} = {}
        PROVE  direct' \in Seq(Frame) /\ Agree(direct', degraded')
    <3>1. direct' = Append(Append(e, g), h)
      BY <1>2, <1>4, <2>2 DEF e
    <3>2. g.kind \notin {"book", "halt"} /\ h.kind \notin {"book", "halt"}
      BY <2>2
    <3>3. Append(e, g) \in Seq(Frame) /\ Agree(Append(e, g), degraded')
      BY <1>3, <1>4, <3>2, AgreeApart, PublicMore DEF e
    <3>4. Append(Append(e, g), h) \in Seq(Frame) /\ Agree(Append(Append(e, g), h), degraded')
      BY <1>3, <3>2, <3>3, AgreeApart, PublicMore
    <3> QED BY <3>1, <3>4
  <2> QED BY <2>1, <2>2
<1>6. DOMAIN degraded = 1 .. Len(degraded) /\ DOMAIN degraded' = 1 .. Len(degraded) + 1
  BY <1>1, <1>3
<1>7. /\ refused' \subseteq DOMAIN degraded' /\ IsFiniteSet(refused')
      /\ laneDrops' \in Nat /\ laneDrops' = Cardinality(refused')
  <2>1. CASE UNCHANGED <<refused, laneDrops>>
    BY <1>1, <1>3, <1>6, <2>1
  <2>2. CASE refused' = refused \cup {Len(degraded) + 1} /\ laneDrops' = laneDrops + 1
    <3>1. Len(degraded) + 1 \notin refused
      BY <1>1, <1>3, <1>6
    <3>2. IsFiniteSet(refused') /\ Cardinality(refused') = Cardinality(refused) + 1
      BY <1>1, <2>2, <3>1, FS_AddElement
    <3>3. refused' \subseteq DOMAIN degraded'
      BY <1>1, <1>3, <1>6, <2>2
    <3> QED BY <1>1, <2>2, <3>2, <3>3
  <2> QED BY <1>2, <2>1, <2>2
<1>8. LanesAgree'
  BY <1>5 DEF Agree, LanesAgree
<1>9. refused' \in {refused, refused \cup {Len(degraded) + 1}}
  BY <1>2
<1> QED BY <1>2, <1>3, <1>5, <1>7, <1>8, <1>9

\* A book that is no older than any before it, or a halt that is newer than all of
\* them, keeps the degraded lane in order.
LEMMA ShownKeeps ==
  ASSUME Inductive, ~halted, NEW f \in Frame, degraded' = Append(degraded, f),
         \/ f.kind = "book" /\ lastGood <= f.seq
         \/ f.kind = "halt" /\ lastGood < f.seq
  PROVE  /\ OnlyGoodBooksShown'
         /\ \A i \in DOMAIN degraded' :
                \/ degraded'[i].kind = "book" /\ degraded'[i].seq <= lastGood
                \/ degraded'[i] = f
<1>1. degraded \in Seq(Frame) /\ lastGood \in Nat /\ f.seq \in Nat
  BY DEF Inductive, TypeOK, Frame
<1>2. /\ DOMAIN degraded' = 1 .. Len(degraded) + 1 /\ Len(degraded) \in Nat
      /\ DOMAIN degraded = 1 .. Len(degraded)
      /\ \A i \in 1 .. Len(degraded) : degraded'[i] = degraded[i]
      /\ degraded'[Len(degraded) + 1] = f
  BY <1>1, AppendProperties
<1>3. \A i \in 1 .. Len(degraded) :
         degraded[i].kind = "book" /\ degraded[i].seq <= lastGood /\ degraded[i].seq \in Nat
  <2>1. ASSUME NEW i \in 1 .. Len(degraded)
        PROVE  degraded[i].kind = "book" /\ degraded[i].seq <= lastGood
    BY <1>2, <2>1, Zenon DEF Inductive, BooksAreGood
  <2>2. ASSUME NEW i \in 1 .. Len(degraded) PROVE degraded[i].seq \in Nat
    <3>1. degraded[i] \in Frame
      BY <1>1
    <3> QED BY <3>1 DEF Frame
  <2> QED BY <2>1, <2>2
<1>4. ASSUME NEW i \in DOMAIN degraded', NEW j \in DOMAIN degraded', i < j
      PROVE  /\ degraded'[i].kind = "book"
             /\ degraded'[i].seq <= degraded'[j].seq
             /\ degraded'[j].kind = "halt" => degraded'[i].seq < degraded'[j].seq
  <2>1. i \in 1 .. Len(degraded)
    BY <1>2, <1>4
  <2>2. degraded'[i] = degraded[i] /\ degraded[i].kind = "book" /\ degraded[i].seq <= lastGood
        /\ degraded[i].seq \in Nat
    BY <1>2, <1>3, <2>1
  <2>3. CASE j \in 1 .. Len(degraded)
    <3>1. degraded'[j] = degraded[j] /\ degraded[j].kind = "book"
      BY <1>2, <1>3, <2>3
    <3>2. degraded[i].seq <= degraded[j].seq
      BY <1>2, <1>4, <2>1, <2>3, Zenon DEF Inductive, OnlyGoodBooksShown
    <3>3. degraded'[j].kind # "halt"
      BY <3>1
    <3> QED BY <2>2, <3>1, <3>2, <3>3
  <2>4. CASE j = Len(degraded) + 1
    <3>1. degraded'[j] = f
      BY <1>2, <2>4
    <3>2. /\ degraded[i].seq <= f.seq
          /\ f.kind = "halt" => degraded[i].seq < f.seq
      BY <1>1, <2>2
    <3> QED BY <2>2, <3>1, <3>2
  <2> QED BY <1>2, <2>3, <2>4
<1>5. ASSUME NEW i \in DOMAIN degraded'
      PROVE  \/ degraded'[i].kind = "book" /\ degraded'[i].seq <= lastGood
             \/ degraded'[i] = f
  <2>1. CASE i \in 1 .. Len(degraded)
    BY <1>2, <1>3, <2>1
  <2>2. CASE i = Len(degraded) + 1
    BY <1>2, <2>2
  <2> QED BY <1>2, <2>1, <2>2
<1> QED BY <1>4, <1>5 DEF OnlyGoodBooksShown

\* Of the places r of the frames g, those that come after one that shows n.
After(n, r, g) == {i \in r : \E j \in 1 .. i - 1 : g[j].seq = n}

\* A frame that shows something new comes after nothing that shows it.
LEMMA NothingAfterNew ==
  ASSUME NEW g \in Seq(Frame), NEW f \in Frame,
         \A i \in DOMAIN g : g[i].seq < f.seq,
         NEW r \in SUBSET DOMAIN Append(g, f)
  PROVE  After(f.seq, r, Append(g, f)) = {}
<1> DEFINE h == Append(g, f)
<1>1. /\ Len(g) \in Nat /\ DOMAIN g = 1 .. Len(g) /\ DOMAIN h = 1 .. Len(g) + 1
      /\ \A i \in 1 .. Len(g) : h[i] = g[i]
  BY AppendProperties
<1> HIDE DEF h
<1>2. ASSUME NEW i \in r, NEW j \in 1 .. i - 1, h[j].seq = f.seq PROVE FALSE
  <2>1. i \in 1 .. Len(g) + 1
    BY <1>1 DEF h
  <2>2. j \in 1 .. Len(g)
    BY <1>1, <2>1
  <2>3. g[j].seq < f.seq /\ h[j] = g[j]
    BY <1>1, <2>2
  <2>4. f.seq \in Nat
    BY DEF Frame
  <2> QED BY <1>2, <2>3, <2>4
<1> QED BY <1>2 DEF After, h

\* A frame appended to others, one of which shows n, comes after that one, and nothing
\* changes for those.
LEMMA AfterMore ==
  ASSUME NEW g \in Seq(Frame), NEW f \in Frame, NEW n \in Nat,
         NEW r \in SUBSET DOMAIN g,
         \E j \in DOMAIN g : g[j].seq = n
  PROVE  /\ After(n, r, Append(g, f)) = After(n, r, g)
         /\ After(n, r \cup {Len(g) + 1}, Append(g, f)) = After(n, r, g) \cup {Len(g) + 1}
         /\ Len(g) + 1 \notin r
<1> DEFINE h == Append(g, f)
           k == Len(g) + 1
<1>1. /\ Len(g) \in Nat /\ DOMAIN g = 1 .. Len(g)
      /\ \A i \in 1 .. Len(g) : h[i] = g[i]
  BY AppendProperties
<1> HIDE DEF h
<1>2. r \subseteq 1 .. Len(g) /\ k \notin r
  BY <1>1
<1>3. ASSUME NEW i \in r
      PROVE  (\E j \in 1 .. i - 1 : h[j].seq = n) <=> (\E j \in 1 .. i - 1 : g[j].seq = n)
  <2>1. \A j \in 1 .. i - 1 : h[j] = g[j]
    BY <1>1, <1>2
  <2> QED BY <2>1
<1>4. \E j \in 1 .. k - 1 : h[j].seq = n
  <2>1. PICK j \in 1 .. Len(g) : g[j].seq = n
    BY <1>1
  <2>2. j \in 1 .. k - 1 /\ h[j] = g[j]
    BY <1>1, <2>1
  <2> QED BY <2>1, <2>2
<1> HIDE DEF k
<1>5. After(n, r, h) = After(n, r, g)
  BY <1>3, Zenon DEF After
<1>6. After(n, r \cup {k}, h) = After(n, r, h) \cup {k}
  BY <1>4, Zenon DEF After
<1> QED BY <1>2, <1>5, <1>6 DEF h, k

\* apply offers one frame, newer than all before it, and makes up its report after
\* that: nothing that was refused is missing from it.
LEMMA ApplyReports ==
  ASSUME Inductive, NEW f \in Frame, f.seq = Len(applied) + 1,
         Len(applied') = Len(applied) + 1, degraded' = Append(degraded, f),
         refused' \subseteq DOMAIN degraded',
         laneDrops' \in Nat, laneDrops' = Cardinality(refused'),
         halted' \in BOOLEAN,
         orders' = IF halted' THEN Len(applied') - 1 ELSE Len(applied'),
         reported' = [seq |-> f.seq, orders |-> orders', laneDrops |-> laneDrops',
                      halted |-> halted'],
         lastGood' \in {lastGood, f.seq}
  PROVE  CountersAreExact' /\ LastGoodIsShown' /\ ReportsAddUp'
<1>1. /\ degraded \in Seq(Frame) /\ applied \in Seq(Nat) /\ Len(applied) \in Nat
      /\ lastGood \in Nat
      /\ \A i \in DOMAIN degraded : degraded[i].seq <= Len(applied)
      /\ lastGood > 0 => \E j \in DOMAIN degraded : degraded[j].seq = lastGood
  BY DEF Inductive, TypeOK, LastGoodIsShown
<1>2. \A i \in DOMAIN degraded : degraded[i].seq \in Nat
  <2>1. \A i \in DOMAIN degraded : degraded[i] \in Frame
    BY <1>1
  <2> QED BY <2>1 DEF Frame
<1>3. /\ Len(degraded) \in Nat /\ DOMAIN degraded = 1 .. Len(degraded)
      /\ DOMAIN degraded' = 1 .. Len(degraded) + 1
      /\ \A i \in 1 .. Len(degraded) : degraded'[i] = degraded[i]
      /\ degraded'[Len(degraded) + 1] = f
  BY <1>1, AppendProperties
<1>4. CountersAreExact'
  BY DEF CountersAreExact
<1>5. LastGoodIsShown'
  <2>1. \A i \in DOMAIN degraded' : degraded'[i].seq <= Len(applied')
    BY <1>1, <1>2, <1>3
  <2>2. ASSUME lastGood' > 0 PROVE \E j \in DOMAIN degraded' : degraded'[j].seq = lastGood'
    <3>1. CASE lastGood' = f.seq
      BY <1>3, <3>1
    <3>2. CASE lastGood' = lastGood
      BY <1>1, <1>3, <2>2, <3>2
    <3> QED BY <3>1, <3>2
  <2> QED BY <2>1, <2>2 DEF LastGoodIsShown
<1>6. After(f.seq, refused', degraded') = {}
  <2>1. \A i \in DOMAIN degraded : degraded[i].seq < f.seq
    BY <1>1, <1>2
  <2> QED BY <1>1, <2>1, NothingAfterNew
<1>7. reported' # <<>> /\ reported'.seq = Len(applied') /\ reported'.halted = halted'
      /\ reported'.orders = orders' /\ reported'.laneDrops = laneDrops'
  OBVIOUS
<1>8. Since(reported.seq)' = {}
  BY <1>6, <1>7 DEF After, Since
<1>9. laneDrops' + Cardinality(Since(reported.seq)') = Cardinality(refused')
  <2>1. Cardinality({}) = 0
    BY FS_EmptySet, Zenon
  <2>2. Cardinality(Since(reported.seq)') = 0
    BY <1>8, <2>1, Zenon
  <2> DEFINE c == Cardinality(Since(reported.seq)')
  <2>3. c = 0
    BY <2>2
  <2> HIDE DEF c
  <2>4. laneDrops' + c = laneDrops'
    BY <2>3
  <2> QED BY <2>4 DEF c
<1>10. ReportsAddUp'
  BY <1>7, <1>8, <1>9 DEF ReportsAddUp
<1> QED BY <1>4, <1>5, <1>10

\* A keyframe repeats the last good book and pushes no report: a refusal of it is the
\* one more that is missing.
LEMMA KeyframeReports ==
  ASSUME Inductive, ~halted, lastGood > 0, NEW f \in Frame, f.seq = lastGood,
         UNCHANGED <<applied, orders, halted, lastGood, reported>>,
         degraded' = Append(degraded, f),
         refused' \in {refused, refused \cup {Len(degraded) + 1}},
         IsFiniteSet(refused'), laneDrops' = Cardinality(refused')
  PROVE  CountersAreExact' /\ LastGoodIsShown' /\ ReportsAddUp'
<1> DEFINE n == lastGood
           k == Len(degraded) + 1
<1>1. /\ degraded \in Seq(Frame) /\ refused \in SUBSET DOMAIN degraded
      /\ IsFiniteSet(refused)
      /\ Len(applied) = n /\ n \in Nat
      /\ \A i \in DOMAIN degraded : degraded[i].seq <= Len(applied)
      /\ \E j \in DOMAIN degraded : degraded[j].seq = n
      /\ orders = IF halted THEN Len(applied) - 1 ELSE Len(applied)
      /\ reported = <<>> \/ reported \in Counters
  BY DEF Inductive, TypeOK, LastGoodIsPast, LastGoodIsShown, CountersAreExact, RefusedIsFinite
<1>2. applied # <<>>
  BY <1>1
<1>3. /\ reported # <<>> /\ reported.seq = n /\ reported.halted = halted
      /\ reported.orders = IF halted THEN Len(applied) - 1 ELSE Len(applied)
      /\ reported.laneDrops + Cardinality(Since(n)) = Cardinality(refused)
  <2>1. reported # <<>>
    BY <1>2 DEF Inductive, ReportsAddUp
  <2> QED BY <1>1, <2>1 DEF Inductive, ReportsAddUp
<1>4. Since(n) = After(n, refused, degraded)
  BY DEF Since, After
<1>5. /\ After(n, refused, degraded') = After(n, refused, degraded)
      /\ After(n, refused \cup {k}, degraded') = After(n, refused, degraded) \cup {k}
      /\ k \notin refused
  BY <1>1, AfterMore
<1>6. reported.laneDrops + Cardinality(After(n, refused', degraded')) = Cardinality(refused')
  <2>1. CASE refused' = refused
    BY <1>3, <1>4, <1>5, <2>1
  <2>2. CASE refused' = refused \cup {k}
    <3> DEFINE a == After(n, refused, degraded)
    <3>1. a \subseteq refused
      BY DEF After
    <3>2. IsFiniteSet(a) /\ k \notin a
      BY <1>1, <1>5, <3>1, FS_Subset
    <3>3. /\ Cardinality(a \cup {k}) = Cardinality(a) + 1
          /\ Cardinality(refused \cup {k}) = Cardinality(refused) + 1
      <4> HIDE DEF a
      <4> QED BY <1>1, <1>5, <3>2, FS_AddElement
    <3>4. Cardinality(a) \in Nat /\ Cardinality(refused) \in Nat /\ reported.laneDrops \in Nat
      <4>1. reported.laneDrops \in Nat
        BY <1>1, <1>3 DEF Counters
      <4> HIDE DEF a
      <4> QED BY <1>1, <3>2, <4>1, FS_CardinalityType
    <3>5. reported.laneDrops + Cardinality(a) = Cardinality(refused)
      BY <1>3, <1>4
    <3>6. Cardinality(After(n, refused', degraded')) = Cardinality(a) + 1
      BY <1>5, <2>2, <3>3
    <3>7. Cardinality(refused') = Cardinality(refused) + 1
      BY <2>2, <3>3
    <3> HIDE DEF a
    <3> QED BY <3>4, <3>5, <3>6, <3>7
  <2> QED BY <2>1, <2>2
<1>7. Since(reported.seq)' = After(n, refused', degraded')
  BY <1>3 DEF Since, After
<1>8. ReportsAddUp'
  <2>1. reported.laneDrops + Cardinality(Since(reported.seq)') = Cardinality(refused')
    BY <1>6, <1>7
  <2>2. ~halted' /\ reported' = reported /\ applied' = applied
    OBVIOUS
  <2>3. reported'.laneDrops + Cardinality(Since(reported.seq)') = Cardinality(refused')
    BY <2>1, <2>2
  <2>4. /\ reported' # <<>> /\ reported'.seq = Len(applied') /\ reported'.halted = halted'
        /\ reported'.orders = IF halted' THEN Len(applied') - 1 ELSE Len(applied')
    BY <1>1, <1>3, <2>2
  <2> QED BY <2>2, <2>3, <2>4 DEF ReportsAddUp
<1>9. CountersAreExact'
  BY <1>1 DEF CountersAreExact
<1>10. LastGoodIsShown'
  <2>1. /\ Len(degraded) \in Nat /\ DOMAIN degraded = 1 .. Len(degraded)
        /\ DOMAIN degraded' = 1 .. Len(degraded) + 1
        /\ \A i \in 1 .. Len(degraded) : degraded'[i] = degraded[i]
        /\ degraded'[Len(degraded) + 1] = f
    BY <1>1, AppendProperties
  <2>2. \A i \in DOMAIN degraded' : degraded'[i].seq <= Len(applied')
    BY <1>1, <2>1
  <2>3. \E j \in DOMAIN degraded' : degraded'[j].seq = lastGood'
    BY <2>1
  <2> QED BY <2>2, <2>3 DEF LastGoodIsShown
<1> QED BY <1>8, <1>9, <1>10

-----------------------------------------------------------------------------
(* Every step keeps it *)

\* A loop that has received nothing satisfies every conjunct.
LEMMA InitInductive == Init => Inductive
<1> SUFFICES ASSUME Init PROVE Inductive
  OBVIOUS
<1>1. /\ accepted = 0 /\ busy = 0 /\ taken = 0
      /\ cmds = <<>> /\ applied = <<>>
      /\ halted = FALSE /\ done = FALSE
      /\ orders = 0 /\ laneDrops = 0 /\ lastGood = 0
      /\ direct = <<>> /\ degraded = <<>> /\ refused = {}
      /\ reported = <<>> /\ keyframes = 0
  BY DEF Init
<1>2. <<>> \in Seq(Nat) /\ <<>> \in Seq(Frame) /\ Len(<<>>) = 0 /\ DOMAIN <<>> = {}
  OBVIOUS
<1>3. TypeOK
  <2>1. cmds \in Seq(Nat) /\ Len(cmds) <= QueueDepth /\ applied \in Seq(Nat)
    BY <1>1, <1>2, RunnerAssumption
  <2>2. direct \in Seq(Frame) /\ degraded \in Seq(Frame) /\ refused \subseteq DOMAIN degraded
    BY <1>1, <1>2
  <2>3. reported \in {<<>>} \cup Counters
    BY <1>1
  <2> QED BY <1>1, <2>1, <2>2, <2>3 DEF TypeOK
<1>4. CommandsInOrder
  BY <1>1, FlowOfNothing DEF CommandsInOrder
<1>5. LastGoodIsPast /\ BooksAreGood /\ OnlyGoodBooksShown
  BY <1>1, <1>2 DEF LastGoodIsPast, BooksAreGood, OnlyGoodBooksShown
<1>6. RefusedIsFinite /\ CountersAreExact /\ LastGoodIsShown /\ ReportsAddUp
  BY <1>1, <1>2, FS_EmptySet
     DEF RefusedIsFinite, CountersAreExact, LastGoodIsShown, ReportsAddUp
<1>7. LanesAgree
  <2>1. Public(direct) = {}
    BY <1>1, <1>2 DEF Public
  <2> QED BY <1>1, <1>2, <2>1, FS_EmptySet DEF LanesAgree
<1> QED BY <1>3, <1>4, <1>5, <1>6, <1>7 DEF Inductive

\* What a step that leaves the lanes alone keeps.
LEMMA SameLanes ==
  ASSUME Inductive, UNCHANGED <<engine, lanes, lastGood, reported>>
  PROVE  (LastGoodIsPast /\ BooksAreGood /\ OnlyGoodBooksShown /\ RefusedIsFinite
          /\ CountersAreExact /\ LastGoodIsShown /\ ReportsAddUp /\ LanesAgree)'
<1>1. UNCHANGED <<applied, orders, halted, direct, degraded, refused, laneDrops, lastGood, reported>>
  BY DEF engine, lanes
<1>2. (LastGoodIsPast /\ BooksAreGood /\ OnlyGoodBooksShown /\ RefusedIsFinite
       /\ CountersAreExact /\ LastGoodIsShown)'
  BY <1>1 DEF Inductive, LastGoodIsPast, BooksAreGood, OnlyGoodBooksShown,
              RefusedIsFinite, CountersAreExact, LastGoodIsShown
<1>3. ReportsAddUp'
  BY <1>1 DEF Inductive, ReportsAddUp, Since
<1>4. LanesAgree'
  BY <1>1 DEF Inductive, LanesAgree, Public
<1> QED BY <1>2, <1>3, <1>4

\* Submit queues the command or refuses it (runner.go:135); the lanes do not move.
LEMMA SubmitInductive ==
  ASSUME Inductive, Submit PROVE Inductive'
<1>1. /\ UNCHANGED <<taken, engine, lanes, lastGood, reported, keyframes, done>>
      /\ UNCHANGED <<applied, orders, halted, direct, degraded, refused, laneDrops>>
  BY DEF Submit, engine, lanes
<1>2. /\ accepted \in Nat /\ busy \in Nat /\ cmds \in Seq(Nat) /\ Len(cmds) <= QueueDepth
      /\ QueueDepth \in Nat /\ Len(cmds) \in Nat
      /\ Flow(applied, <<>>, cmds, accepted)
  BY RunnerAssumption DEF Inductive, TypeOK, CommandsInOrder
<1>3. /\ accepted' \in Nat /\ busy' \in Nat /\ cmds' \in Seq(Nat) /\ Len(cmds') <= QueueDepth
      /\ Flow(applied, <<>>, cmds', accepted')
  <2>1. CASE Room /\ cmds' = Append(cmds, accepted + 1) /\ accepted' = accepted + 1
             /\ UNCHANGED busy
    <3>1. cmds' \in Seq(Nat) /\ Len(cmds') = Len(cmds) + 1
      BY <1>2, <2>1, AppendProperties
    <3>2. Len(cmds') <= QueueDepth /\ accepted' \in Nat
      BY <1>2, <2>1, <3>1 DEF Room
    <3>3. Flow(applied, <<>>, cmds', accepted')
      BY <1>2, <2>1, FlowAccepts
    <3> QED BY <1>2, <2>1, <3>1, <3>2, <3>3
  <2>2. CASE busy' = busy + 1 /\ UNCHANGED <<accepted, cmds>>
    BY <1>2, <2>2
  <2> QED BY <2>1, <2>2 DEF Submit
<1>4. TypeOK'
  BY <1>1, <1>3 DEF Inductive, TypeOK
<1>5. CommandsInOrder'
  BY <1>1, <1>3 DEF CommandsInOrder
<1> QED BY <1>1, <1>4, <1>5, SameLanes DEF Inductive

\* A command received after the halt changes nothing (runner.go:171).
LEMMA IgnoreInductive ==
  ASSUME Inductive, Ignore PROVE Inductive'
<1>1. /\ Receive /\ UNCHANGED <<engine, lanes, lastGood, reported>>
      /\ UNCHANGED <<applied, orders, halted, direct, degraded, refused, laneDrops>>
  BY DEF Ignore, engine, lanes
<1>2. TypeOK'
  BY <1>1, ReceiveIs DEF Inductive, TypeOK
<1>3. CommandsInOrder'
  BY <1>1, ReceiveIs DEF CommandsInOrder
<1> QED BY <1>1, <1>2, <1>3, SameLanes DEF Inductive

\* A good report: the book moves on, and both lanes show it.
LEMMA ApplyGoodInductive ==
  ASSUME Inductive, ApplyGood PROVE Inductive'
<1> DEFINE n == Len(applied) + 1
           f == [kind |-> "book", seq |-> n]
           others == <<[kind |-> "top", seq |-> n], [kind |-> "phones", seq |-> n]>>
<1>1. /\ Receive /\ ~halted /\ applied' = Append(applied, Head(cmds))
      /\ orders' = orders + 1 /\ UNCHANGED halted
  BY DEF ApplyGood
<1>2. /\ cmds' \in Seq(Nat) /\ Len(cmds') <= QueueDepth /\ taken' \in Nat
      /\ Head(cmds) \in Nat /\ UNCHANGED <<accepted, busy, keyframes, done>>
      /\ Flow(applied', <<>>, cmds', accepted)
  BY <1>1, ReceiveIs
<1>3. /\ applied \in Seq(Nat) /\ orders \in Nat /\ lastGood \in Nat /\ laneDrops \in Nat
      /\ halted \in BOOLEAN /\ (reported = <<>> \/ reported \in Counters)
      /\ lastGood = Len(applied)
  BY <1>1 DEF Inductive, TypeOK, LastGoodIsPast
<1>4. applied' \in Seq(Nat) /\ Len(applied') = n /\ Len(applied) \in Nat /\ n \in Nat
  BY <1>1, <1>2, <1>3, AppendProperties
<1>5. /\ lastGood' = n /\ Offer(f, others)
      /\ reported' = [seq |-> n, orders |-> orders', laneDrops |-> laneDrops', halted |-> halted']
  BY <1>4, Zenon DEF ApplyGood, PushReport
<1> HIDE DEF n
<1>6. f \in Frame /\ f.kind = "book" /\ f.seq = n
  BY <1>4 DEF Frame
<1>7. \E g, h \in Frame : others = <<g, h>> /\ {g.kind, h.kind} \cap {"book", "halt"} = {}
  <2>1. /\ [kind |-> "top", seq |-> n] \in Frame /\ [kind |-> "phones", seq |-> n] \in Frame
        /\ {[kind |-> "top", seq |-> n].kind, [kind |-> "phones", seq |-> n].kind}
               \cap {"book", "halt"} = {}
    BY <1>4 DEF Frame
  <2> QED BY <2>1
<1> HIDE DEF f, others
<1>8. /\ direct' \in Seq(Frame) /\ degraded' = Append(degraded, f)
      /\ degraded' \in Seq(Frame) /\ LanesAgree'
      /\ refused' \subseteq DOMAIN degraded' /\ IsFiniteSet(refused')
      /\ laneDrops' \in Nat /\ laneDrops' = Cardinality(refused')
  BY <1>5, <1>6, <1>7, OfferKeeps
<1>9. reported' \in Counters /\ reported'.laneDrops = laneDrops'
  BY <1>1, <1>3, <1>4, <1>5, <1>8 DEF Counters
<1>10. TypeOK'
  BY <1>1, <1>2, <1>3, <1>4, <1>5, <1>8, <1>9 DEF Inductive, TypeOK
<1>11. CommandsInOrder'
  BY <1>2 DEF CommandsInOrder
<1>12. LastGoodIsPast'
  BY <1>4, <1>5 DEF LastGoodIsPast
<1>13. /\ OnlyGoodBooksShown'
       /\ \A i \in DOMAIN degraded' :
              \/ degraded'[i].kind = "book" /\ degraded'[i].seq <= lastGood
              \/ degraded'[i] = f
  BY <1>1, <1>3, <1>4, <1>6, <1>8, ShownKeeps DEF n
<1>14. BooksAreGood'
  <2>1. ASSUME NEW i \in DOMAIN degraded', degraded'[i].seq <= lastGood
        PROVE  degraded'[i].seq <= lastGood'
    <3>1. degraded'[i] \in Frame
      BY <1>8
    <3> QED BY <1>3, <1>4, <1>5, <2>1, <3>1 DEF n, Frame
  <2> QED BY <1>5, <1>6, <1>13, <2>1, <1>4 DEF BooksAreGood
<1>15. RefusedIsFinite'
  BY <1>8 DEF RefusedIsFinite
<1>16. CountersAreExact' /\ LastGoodIsShown' /\ ReportsAddUp'
  <2>1. orders = Len(applied)
    BY <1>1 DEF Inductive, CountersAreExact
  <2>2. halted' = FALSE /\ orders' = Len(applied')
    BY <1>1, <1>3, <1>4, <2>1 DEF n
  <2>3. f.seq = Len(applied) + 1 /\ Len(applied') = Len(applied) + 1
    BY <1>4, <1>6 DEF n
  <2>4. reported' = [seq |-> f.seq, orders |-> orders', laneDrops |-> laneDrops',
                     halted |-> halted']
    BY <1>5, <1>6
  <2> QED BY <1>5, <1>6, <1>8, <2>2, <2>3, <2>4, ApplyReports
<1> QED BY <1>8, <1>10, <1>11, <1>12, <1>13, <1>14, <1>15, <1>16 DEF Inductive

\* A bad report: the halt goes to both lanes and shows a seq no book has.
LEMMA ApplyBadInductive ==
  ASSUME Inductive, ApplyBad PROVE Inductive'
<1> DEFINE n == Len(applied) + 1
           f == [kind |-> "halt", seq |-> n]
<1>1. /\ Receive /\ ~halted /\ applied' = Append(applied, Head(cmds))
      /\ halted' = TRUE /\ UNCHANGED <<orders, lastGood>>
  BY DEF ApplyBad
<1>2. /\ cmds' \in Seq(Nat) /\ Len(cmds') <= QueueDepth /\ taken' \in Nat
      /\ Head(cmds) \in Nat /\ UNCHANGED <<accepted, busy, keyframes, done>>
      /\ Flow(applied', <<>>, cmds', accepted)
  BY <1>1, ReceiveIs
<1>3. /\ applied \in Seq(Nat) /\ orders \in Nat /\ lastGood \in Nat /\ laneDrops \in Nat
      /\ lastGood = Len(applied)
  BY <1>1 DEF Inductive, TypeOK, LastGoodIsPast
<1>4. applied' \in Seq(Nat) /\ Len(applied') = n /\ Len(applied) \in Nat /\ n \in Nat
  BY <1>1, <1>2, <1>3, AppendProperties
<1>5. /\ Offer(f, <<>>)
      /\ reported' = [seq |-> n, orders |-> orders', laneDrops |-> laneDrops', halted |-> halted']
  BY <1>4, Zenon DEF ApplyBad, PushReport
<1> HIDE DEF n
<1>6. f \in Frame /\ f.kind = "halt" /\ f.seq = n
  BY <1>4 DEF Frame
<1> HIDE DEF f
<1>7. /\ direct' \in Seq(Frame) /\ degraded' = Append(degraded, f)
      /\ degraded' \in Seq(Frame) /\ LanesAgree'
      /\ refused' \subseteq DOMAIN degraded' /\ IsFiniteSet(refused')
      /\ laneDrops' \in Nat /\ laneDrops' = Cardinality(refused')
  BY <1>5, <1>6, OfferKeeps
<1>8. reported' \in Counters /\ reported'.laneDrops = laneDrops'
  BY <1>1, <1>3, <1>4, <1>5, <1>7 DEF Counters
<1>9. TypeOK'
  BY <1>1, <1>2, <1>3, <1>4, <1>5, <1>7, <1>8 DEF Inductive, TypeOK
<1>10. CommandsInOrder'
  BY <1>2 DEF CommandsInOrder
<1>11. LastGoodIsPast'
  <2>1. lastGood <= n
    BY <1>3, <1>4 DEF n
  <2> QED BY <1>1, <1>4, <2>1 DEF LastGoodIsPast
<1>12. /\ OnlyGoodBooksShown'
       /\ \A i \in DOMAIN degraded' :
              \/ degraded'[i].kind = "book" /\ degraded'[i].seq <= lastGood
              \/ degraded'[i] = f
  <2>1. lastGood < f.seq
    BY <1>3, <1>4, <1>6 DEF n
  <2> QED BY <1>1, <1>6, <1>7, <2>1, ShownKeeps
<1>13. BooksAreGood'
  BY <1>1, <1>6, <1>12 DEF BooksAreGood
<1>14. RefusedIsFinite'
  BY <1>7 DEF RefusedIsFinite
<1>15. CountersAreExact' /\ LastGoodIsShown' /\ ReportsAddUp'
  <2>1. orders = Len(applied)
    BY <1>1 DEF Inductive, CountersAreExact
  <2>2. orders' = Len(applied') - 1
    BY <1>1, <1>4, <2>1 DEF n
  <2>3. f.seq = Len(applied) + 1 /\ Len(applied') = Len(applied) + 1
    BY <1>4, <1>6 DEF n
  <2>4. reported' = [seq |-> f.seq, orders |-> orders', laneDrops |-> laneDrops',
                     halted |-> halted']
    BY <1>5, <1>6
  <2> QED BY <1>1, <1>6, <1>7, <2>2, <2>3, <2>4, ApplyReports
<1> QED BY <1>7, <1>9, <1>10, <1>11, <1>12, <1>13, <1>14, <1>15 DEF Inductive

\* A keyframe shows the last good book again, and only while the market runs.
LEMMA KeyframeInductive ==
  ASSUME Inductive, Keyframe PROVE Inductive'
<1>1. /\ UNCHANGED <<accepted, busy, cmds, taken, applied, orders, halted, lastGood, reported, done>>
      /\ keyframes' = keyframes + 1 /\ UNCHANGED engine
  BY DEF Keyframe, engine
<1>2. /\ lastGood \in Nat /\ laneDrops \in Nat /\ (reported = <<>> \/ reported \in Counters)
      /\ keyframes \in Nat
  BY DEF Inductive, TypeOK
<1>3. CommandsInOrder' /\ LastGoodIsPast'
  BY <1>1 DEF Inductive, CommandsInOrder, LastGoodIsPast
<1>4. CASE NothingToShow
  <2>1. UNCHANGED lanes /\ UNCHANGED <<direct, degraded, refused, laneDrops>>
    BY <1>4 DEF Keyframe, lanes
  <2>2. TypeOK'
    BY <1>1, <1>2, <2>1 DEF Inductive, TypeOK
  <2> QED BY <1>1, <1>3, <2>1, <2>2, SameLanes DEF Inductive
<1>5. CASE ~NothingToShow
  <2> DEFINE f == [kind |-> "book", seq |-> lastGood]
  <2>1. Offer(f, <<>>) /\ ~halted
    BY <1>5 DEF Keyframe, NothingToShow
  <2>2. f \in Frame /\ f.kind = "book" /\ f.seq = lastGood
    BY <1>2 DEF Frame
  <2> HIDE DEF f
  <2>3. /\ direct' \in Seq(Frame) /\ degraded' = Append(degraded, f)
        /\ degraded' \in Seq(Frame) /\ LanesAgree'
        /\ refused' \subseteq DOMAIN degraded' /\ IsFiniteSet(refused')
        /\ laneDrops' \in Nat /\ laneDrops' = Cardinality(refused')
        /\ refused' \in {refused, refused \cup {Len(degraded) + 1}}
    BY <2>1, <2>2, OfferKeeps
  <2>4. TypeOK'
    BY <1>1, <1>2, <2>3 DEF Inductive, TypeOK
  <2>5. /\ OnlyGoodBooksShown'
        /\ \A i \in DOMAIN degraded' :
               \/ degraded'[i].kind = "book" /\ degraded'[i].seq <= lastGood
               \/ degraded'[i] = f
    BY <1>2, <2>1, <2>2, <2>3, ShownKeeps
  <2>6. BooksAreGood'
    BY <1>1, <1>2, <2>2, <2>5 DEF BooksAreGood
  <2>7. RefusedIsFinite'
    BY <2>3 DEF RefusedIsFinite
  <2>8. CountersAreExact' /\ LastGoodIsShown' /\ ReportsAddUp'
    <3>1. lastGood > 0
      BY <1>2, <1>5 DEF NothingToShow
    <3> QED BY <1>1, <2>1, <2>2, <2>3, <3>1, KeyframeReports
  <2> QED BY <1>3, <2>3, <2>4, <2>5, <2>6, <2>7, <2>8 DEF Inductive
<1> QED BY <1>4, <1>5

\* Neither the end of the loop nor a stutter moves a lane.
LEMMA StopInductive ==
  ASSUME Inductive, Stop \/ UNCHANGED vars PROVE Inductive'
<1>1. UNCHANGED <<accepted, busy, cmds, taken, engine, lanes, lastGood, reported, keyframes>>
      /\ (done' = TRUE \/ done' = done)
  BY DEF Stop, vars
<1>2. UNCHANGED <<applied, orders, halted, direct, degraded, refused, laneDrops>>
  BY <1>1 DEF engine, lanes
<1>3. TypeOK'
  BY <1>1, <1>2 DEF Inductive, TypeOK
<1>4. CommandsInOrder'
  BY <1>1, <1>2 DEF Inductive, CommandsInOrder
<1> QED BY <1>1, <1>3, <1>4, SameLanes DEF Inductive

\* Every step of the loop keeps the invariant: one lemma for each action.
LEMMA NextInductive == Inductive /\ [Next]_vars => Inductive'
BY SubmitInductive, IgnoreInductive, ApplyGoodInductive, ApplyBadInductive, KeyframeInductive,
   StopInductive DEF Next

-----------------------------------------------------------------------------
(* The way from Submit to the engine is a lossy FIFO, step by step *)

\* A command that reaches the engine arrives.
LEMMA ApplyingArrives ==
  ASSUME Inductive, Inductive', Receive, applied' = Append(applied, Head(cmds))
  PROVE  CommandsAreLossyFifo!Arrive
<1>1. /\ applied \in Seq(Nat) /\ Head(cmds) \in Nat /\ UNCHANGED accepted
      /\ Flow(applied', <<>>, cmds', accepted)
  BY ReceiveIs DEF Inductive, TypeOK
<1>2. applied' = applied \o <<Head(cmds)>> /\ <<Head(cmds)>> \in Seq(Nat)
  BY <1>1, AppendIs
<1>3. <<Head(cmds)>> # <<>>
  OBVIOUS
<1>4. /\ Len(applied') > Len(applied) /\ SubSeq(applied', 1, Len(applied)) = applied
      /\ InOrder(applied') /\ applied'[Len(applied')] <= accepted
  BY <1>1, <1>2, <1>3, FlowArrives
<1> QED BY <1>1, <1>4 DEF InOrder, CommandsAreLossyFifo!InOrder, CommandsAreLossyFifo!Arrive

\* To the abstract channel, a step accepts one command, delivers one, or does nothing.
LEMMA NextArrives ==
  ASSUME Inductive, Inductive', [Next]_vars
  PROVE  CommandsAreLossyFifo!Next \/ UNCHANGED <<accepted, applied>>
<1>1. CASE Submit
  BY <1>1 DEF Submit, engine, CommandsAreLossyFifo!Next, CommandsAreLossyFifo!Send
<1>2. CASE Ignore
  BY <1>2 DEF Ignore, Receive, engine
<1>3. CASE ApplyGood
  BY <1>3, ApplyingArrives DEF ApplyGood, CommandsAreLossyFifo!Next
<1>4. CASE ApplyBad
  BY <1>4, ApplyingArrives DEF ApplyBad, CommandsAreLossyFifo!Next
<1>5. CASE Keyframe
  BY <1>5 DEF Keyframe, engine
<1>6. CASE Stop
  BY <1>6 DEF Stop, engine
<1>7. CASE UNCHANGED vars
  BY <1>7 DEF vars, engine
<1> QED BY <1>1, <1>2, <1>3, <1>4, <1>5, <1>6, <1>7 DEF Next

-----------------------------------------------------------------------------
(* Theorems *)

\* What the proofs about the loop rest on holds in every state of every run.
THEOREM InductiveHolds == Spec => []Inductive
<1> QED BY InitInductive, NextInductive, PTL DEF Spec

\* Every variable of the loop keeps its type, and the channel of commands never holds
\* more than its capacity (runner.go:132-146).
THEOREM TypeCorrect == Spec => []TypeOK
<1>1. Inductive => TypeOK
  BY DEF Inductive
<1> QED BY <1>1, InductiveHolds, PTL

\* Whatever the engine reports and whenever the keyframe ticker ticks, the n-th book
\* or halt on the direct lane is the n-th on the degraded one (runner.go:226-229).
THEOREM LanesAlwaysAgree == Spec => []LanesAgree
<1>1. Inductive => LanesAgree
  BY DEF Inductive
<1> QED BY <1>1, InductiveHolds, PTL

\* However often an engine reports a bad book, no lane is offered one: books only move
\* forward, and a halt is newer than all of them and the last thing there is
\* (runner.go:171-174, 219-224).
THEOREM NoBadBookShown == Spec => []OnlyGoodBooksShown
<1>1. Inductive => OnlyGoodBooksShown
  BY DEF Inductive
<1> QED BY <1>1, InductiveHolds, PTL

\* For any number of keyframes and of refusals, what the room was last told is the
\* report of the last command, and it misses none of what the degraded lane refused but
\* keyframes that came after that command; of a halt it misses nothing (runner.go:190-193,
\* 216, 230-232).
THEOREM ReportsAlwaysAddUp == Spec => []ReportsAddUp
<1>1. Inductive => ReportsAddUp
  BY DEF Inductive
<1> QED BY <1>1, InductiveHolds, PTL

\* Commands reach the engine in the order in which their Submits returned nil, and
\* none of them twice (runner.go:132-146, 170).
THEOREM CommandsKeepTheirOrder == Spec => ImplementsLossyFifo
<1>1. Init => CommandsAreLossyFifo!Init
  BY DEF Init, CommandsAreLossyFifo!Init
<1>2. Inductive /\ Inductive' /\ [Next]_vars => [CommandsAreLossyFifo!Next]_<<accepted, applied>>
  BY NextArrives
<1> QED BY <1>1, <1>2, InductiveHolds, PTL
        DEF Spec, ImplementsLossyFifo, CommandsAreLossyFifo!Spec
=============================================================================
