------------------------------ MODULE HubProofs ------------------------------
(***************************************************************************)
(* Theorems about the fan-out, for any connections, subscriptions, faults  *)
(* of the peers, capacities of the channels and number of frames.          *)
(***************************************************************************)
EXTENDS Hub, QueueProofs

-----------------------------------------------------------------------------
(* What a client is owed, from the history alone *)

Sendable == Frame \cup {Hello}

\* The frames of a history are numbered.
Numbered(lg) == \A k \in 1 .. Len(lg) : lg[k].n = k

\* The places of the frames that are owed to a client that joined at j.
Places(c, lg, j) ==
    {k \in 1 .. Len(lg) :
        /\ Subscribed(c, lg[k].topic)
        /\ \A m \in k + 1 .. j : lg[m].topic # lg[k].topic}

Owed(c, lg, j) == {Hello} \cup {lg[k] : k \in Places(c, lg, j)}

First(c, j, f, g) ==
    \/ f.n < g.n /\ (f = Hello \/ g.n > j)
    \/ /\ {f.n, g.n} \subseteq 1 .. j
       /\ \E i, k \in DOMAIN TopicsOf[c] :
              i < k /\ TopicsOf[c][i] = f.topic /\ TopicsOf[c][k] = g.topic

\* What it got is what it is owed, in order, short of d.
Gapless(c, lg, j, got, d) ==
    /\ Hello \in Range(got) /\ Range(got) \subseteq Owed(c, lg, j)
    /\ \A a, b \in DOMAIN got : a < b => First(c, j, got[a], got[b])
    /\ Cardinality(Owed(c, lg, j)) = Len(got) + d

\* The invariant of the runs is this, of every client.
LEMMA GaplessIs ==
  ASSUME DOMAIN log = 1 .. Len(log)
  PROVE  JoinIsGapless <=>
            \A c \in clients : Gapless(c, log, joined[c], taken[c] \o send[c], dropped[c])
<1>1. \A c : Due(c) = Owed(c, log, joined[c])
  BY DEF Due, Owed, Places
<1>2. \A c, f, g : Before(c, f, g) <=> First(c, joined[c], f, g)
  BY DEF Before, First
<1> QED BY <1>1, <1>2, Zenon DEF JoinIsGapless, Gapless

\* So it is after a step.
LEMMA GaplessThen ==
  ASSUME DOMAIN log' = 1 .. Len(log'),
         \A c \in clients' : Gapless(c, log', joined'[c], taken'[c] \o send'[c], dropped'[c])
  PROVE  JoinIsGapless'
<1>1. \A c : Due(c)' = Owed(c, log', joined'[c])
  BY DEF Due, Owed, Places, Hello, Subscribed
<1>2. \A c, f, g : Before(c, f, g)' <=> First(c, joined'[c], f, g)
  BY DEF Before, First, Hello
<1> QED BY <1>1, <1>2, Zenon DEF JoinIsGapless, Gapless, Hello

\* Hello and the frames, and what tells them apart.
LEMMA HelloIs ==
  /\ Hello \in Sendable /\ Hello.n = 0
  /\ \A f \in Frame : f # Hello /\ f.n \in 1 .. MaxFrames /\ f.topic \in Topics /\ f.n \in Nat
                      /\ f \in Sendable
BY DEF Hello, Frame, Sendable

\* What is owed is finite, and all of it is hello or in the history.
LEMMA OwedIs ==
  ASSUME NEW c, NEW lg \in Seq(Frame), NEW j \in Nat
  PROVE  /\ IsFiniteSet(Owed(c, lg, j)) /\ Cardinality(Owed(c, lg, j)) \in Nat
         /\ \A f \in Owed(c, lg, j) : f = Hello \/ \E k \in 1 .. Len(lg) : f = lg[k]
<1>1. Places(c, lg, j) \subseteq 1 .. Len(lg)
  BY DEF Places
<1>2. IsFiniteSet(1 .. Len(lg))
  BY FS_Interval
<1> DEFINE all == {lg[k] : k \in 1 .. Len(lg)}
<1>3. IsFiniteSet(all)
  <2> DEFINE f == [k \in 1 .. Len(lg) |-> lg[k]]
  <2>1. f \in [1 .. Len(lg) -> all] /\ \A t \in all : \E k \in 1 .. Len(lg) : f[k] = t
    OBVIOUS
  <2> HIDE DEF f
  <2>2. f \in Surjection(1 .. Len(lg), all)
    BY <2>1 DEF Surjection
  <2> QED BY <1>2, <2>2, FS_Surjection
<1>4. IsFiniteSet(all \cup {Hello})
  BY <1>3, FS_AddElement
<1>5. Owed(c, lg, j) \subseteq all \cup {Hello}
  BY <1>1 DEF Owed
<1>6. IsFiniteSet(Owed(c, lg, j))
  BY <1>4, <1>5, FS_Subset
<1>7. Cardinality(Owed(c, lg, j)) \in Nat
  BY <1>6, FS_CardinalityType
<1> QED BY <1>5, <1>6, <1>7

\* A frame is delivered after the client joined: it is owed if it is subscribed to.
LEMMA OwedMore ==
  ASSUME NEW c, NEW lg \in Seq(Frame), NEW j \in 0 .. Len(lg), NEW f \in Frame
  PROVE  Owed(c, Append(lg, f), j) =
             Owed(c, lg, j) \cup (IF Subscribed(c, f.topic) THEN {f} ELSE {})
<1> DEFINE h == Append(lg, f)
           n == Len(lg) + 1
<1>1. /\ Len(lg) \in Nat /\ Len(h) = n /\ h[n] = f
      /\ \A k \in 1 .. Len(lg) : h[k] = lg[k]
  BY AppendProperties
<1> HIDE DEF h
<1>2. ASSUME NEW k \in 1 .. Len(lg)
      PROVE  k \in Places(c, h, j) <=> k \in Places(c, lg, j)
  <2>1. k \in 1 .. Len(h)
    BY <1>1
  <2>2. \A m \in k + 1 .. j : h[m] = lg[m]
    BY <1>1
  <2>3. h[k] = lg[k]
    BY <1>1
  <2> QED BY <2>1, <2>2, <2>3 DEF Places
<1>3. n \in Places(c, h, j) <=> Subscribed(c, f.topic)
  <2>1. n \in 1 .. Len(h) /\ n + 1 .. j = {}
    BY <1>1
  <2> QED BY <1>1, <2>1 DEF Places
<1>4. \A k \in 1 .. Len(h) : k \in 1 .. Len(lg) \/ k = n
  BY <1>1
<1>5. Places(c, h, j) \subseteq 1 .. Len(h) /\ Places(c, lg, j) \subseteq 1 .. Len(lg)
  BY DEF Places
<1>6. Places(c, h, j) = Places(c, lg, j) \cup (IF Subscribed(c, f.topic) THEN {n} ELSE {})
  BY <1>2, <1>3, <1>4, <1>5, Zenon
<1>7. \A k \in Places(c, lg, j) : h[k] = lg[k]
  BY <1>1, <1>5
<1>8. {h[k] : k \in Places(c, h, j)} =
         {lg[k] : k \in Places(c, lg, j)} \cup (IF Subscribed(c, f.topic) THEN {f} ELSE {})
  BY <1>1, <1>6, <1>7, Zenon
<1>9. Owed(c, h, j) = Owed(c, lg, j) \cup (IF Subscribed(c, f.topic) THEN {f} ELSE {})
  BY <1>8, Zenon DEF Owed
<1> QED BY <1>9 DEF h

\* Nobody who does not subscribe to it notices a frame.
LEMMA GaplessApart ==
  ASSUME NEW c, NEW lg \in Seq(Frame), NEW j \in 0 .. Len(lg), NEW f \in Frame,
         ~Subscribed(c, f.topic), NEW got, NEW d, Gapless(c, lg, j, got, d)
  PROVE  Gapless(c, Append(lg, f), j, got, d)
<1>1. Owed(c, Append(lg, f), j) = Owed(c, lg, j)
  <2>1. Owed(c, Append(lg, f), j) =
            Owed(c, lg, j) \cup (IF Subscribed(c, f.topic) THEN {f} ELSE {})
    BY OwedMore
  <2> QED BY <2>1, Zenon
<1> QED BY <1>1, Zenon DEF Gapless

\* A frame that is delivered is one more that is owed to whoever subscribes to it.
LEMMA OwedCount ==
  ASSUME NEW c, NEW lg \in Seq(Frame), Numbered(lg), NEW j \in 0 .. Len(lg),
         NEW f \in Frame, f.n = Len(lg) + 1, Subscribed(c, f.topic)
  PROVE  /\ Owed(c, Append(lg, f), j) = Owed(c, lg, j) \cup {f}
         /\ Cardinality(Owed(c, Append(lg, f), j)) = Cardinality(Owed(c, lg, j)) + 1
         /\ Cardinality(Owed(c, lg, j)) \in Nat
<1>1. Owed(c, Append(lg, f), j) = Owed(c, lg, j) \cup {f}
  BY OwedMore, Zenon
<1>2. f \notin Owed(c, lg, j)
  <2>1. j \in Nat /\ Len(lg) \in Nat
    OBVIOUS
  <2>2. \A k \in 1 .. Len(lg) : lg[k] # f
    BY <2>1 DEF Numbered
  <2>3. f # Hello
    BY HelloIs
  <2> QED BY <2>1, <2>2, <2>3, OwedIs
<1>3. IsFiniteSet(Owed(c, lg, j)) /\ Cardinality(Owed(c, lg, j)) \in Nat
  <2>1. j \in Nat
    OBVIOUS
  <2> QED BY <2>1, OwedIs
<1>4. Cardinality(Owed(c, lg, j) \cup {f}) = Cardinality(Owed(c, lg, j)) + 1
  BY <1>2, <1>3, FS_AddElement
<1> QED BY <1>1, <1>3, <1>4

\* A frame that was delivered and had no room is counted.
LEMMA GaplessDropped ==
  ASSUME NEW c, NEW lg \in Seq(Frame), Numbered(lg), NEW j \in 0 .. Len(lg),
         NEW f \in Frame, f.n = Len(lg) + 1, Subscribed(c, f.topic),
         NEW got \in Seq(Sendable), NEW d \in Nat, Gapless(c, lg, j, got, d)
  PROVE  Gapless(c, Append(lg, f), j, got, d + 1)
<1>1. /\ Owed(c, Append(lg, f), j) = Owed(c, lg, j) \cup {f}
      /\ Cardinality(Owed(c, Append(lg, f), j)) = Cardinality(Owed(c, lg, j)) + 1
  BY OwedCount
<1>2. Cardinality(Owed(c, lg, j)) = Len(got) + d /\ Len(got) \in Nat
  BY DEF Gapless
<1>3. Cardinality(Owed(c, Append(lg, f), j)) = Len(got) + (d + 1)
  BY <1>1, <1>2
<1> QED BY <1>1, <1>3, Zenon DEF Gapless

\* A frame that was delivered joins the back.
LEMMA GaplessSent ==
  ASSUME NEW c, NEW lg \in Seq(Frame), Numbered(lg), NEW j \in 0 .. Len(lg),
         NEW f \in Frame, f.n = Len(lg) + 1, Subscribed(c, f.topic),
         NEW got \in Seq(Sendable), NEW d \in Nat, Gapless(c, lg, j, got, d)
  PROVE  Gapless(c, Append(lg, f), j, got \o <<f>>, d)
<1> DEFINE new == got \o <<f>>
<1>1. <<f>> \in Seq(Sendable)
  BY HelloIs
<1>2. /\ new \in Seq(Sendable) /\ Len(new) = Len(got) + 1 /\ Len(got) \in Nat
      /\ \A a \in 1 .. Len(got) : new[a] = got[a]
      /\ new[Len(got) + 1] = f
      /\ DOMAIN got = 1 .. Len(got) /\ DOMAIN new = 1 .. Len(got) + 1
  BY <1>1
<1> HIDE DEF new
<1>3. \A a \in 1 .. Len(got) + 1 : a \in 1 .. Len(got) \/ a = Len(got) + 1
  BY <1>2
<1>4. \A a \in 1 .. Len(got) : a \in 1 .. Len(got) + 1
  BY <1>2
<1>5. Range(new) = Range(got) \cup {f}
  <2>1. Len(got) + 1 \in 1 .. Len(got) + 1
    BY <1>2
  <2> QED BY <1>2, <1>3, <1>4, <2>1, Zenon DEF Range
<1>6. /\ Owed(c, Append(lg, f), j) = Owed(c, lg, j) \cup {f}
      /\ Cardinality(Owed(c, Append(lg, f), j)) = Cardinality(Owed(c, lg, j)) + 1
  BY OwedCount
<1>7. Hello \in Range(new) /\ Range(new) \subseteq Owed(c, Append(lg, f), j)
  BY <1>5, <1>6, Zenon DEF Gapless
<1>8. ASSUME NEW a \in DOMAIN new, NEW b \in DOMAIN new, a < b
      PROVE  First(c, j, new[a], new[b])
  <2>1. CASE b \in 1 .. Len(got)
    <3>1. a \in 1 .. Len(got)
      BY <1>2, <1>8, <2>1
    <3> QED BY <1>2, <1>8, <2>1, <3>1, Zenon DEF Gapless
  <2>2. CASE b = Len(got) + 1
    <3>1. a \in 1 .. Len(got)
      BY <1>2, <1>8, <2>2
    <3>2. new[a] = got[a] /\ new[b] = f
      BY <1>2, <2>2, <3>1
    <3>3. got[a] \in Owed(c, lg, j)
      BY <1>2, <3>1 DEF Gapless, Range
    <3>4. j \in Nat /\ Len(lg) \in Nat /\ j <= Len(lg)
      OBVIOUS
    <3>5. got[a] = Hello \/ \E k \in 1 .. Len(lg) : got[a] = lg[k]
      BY <3>3, <3>4, OwedIs
    <3>6. got[a].n \in 0 .. Len(lg)
      BY <3>4, <3>5, HelloIs DEF Numbered
    <3>7. got[a].n < f.n /\ f.n > j
      BY <3>4, <3>6
    <3> QED BY <3>2, <3>7 DEF First
  <2> QED BY <1>2, <1>3, <2>1, <2>2
<1>9. Cardinality(Owed(c, Append(lg, f), j)) = Len(new) + d
  <2>1. Cardinality(Owed(c, lg, j)) = Len(got) + d
    BY DEF Gapless
  <2> QED BY <1>2, <1>6, <2>1
<1>10. Gapless(c, Append(lg, f), j, new, d)
  BY <1>7, <1>8, <1>9 DEF Gapless
<1> QED BY <1>10 DEF new

-----------------------------------------------------------------------------
(* What a client is owed when it joins *)

\* What is retained of a topic is the last frame of it in the history.
LastOfTopic(lg, ret) ==
    \A t \in Topics :
        \/ ret[t] = <<>> /\ \A k \in 1 .. Len(lg) : lg[k].topic # t
        \/ \E k \in 1 .. Len(lg) :
               /\ ret[t] = <<lg[k]>> /\ lg[k].topic = t
               /\ \A m \in k + 1 .. Len(lg) : lg[m].topic # t

ReplayOf(c, ret) == FlattenSeq([i \in DOMAIN TopicsOf[c] |-> ret[TopicsOf[c][i]]])

\* The replay, frame by frame: frame a is the last of topic at[a].
IsReplay(c, ret, r) ==
    \E at \in [1 .. Len(r) -> DOMAIN TopicsOf[c]] :
        /\ \A a, b \in 1 .. Len(r) : a < b => at[a] < at[b]
        /\ \A a \in 1 .. Len(r) : ret[TopicsOf[c][at[a]]] = <<r[a]>>
        /\ \A i \in DOMAIN TopicsOf[c] :
              ret[TopicsOf[c][i]] # <<>> => \E a \in 1 .. Len(r) : at[a] = i

\* What registration replays is that.
LEMMA ReplayIs ==
  ASSUME NEW c \in Conns, NEW lg \in Seq(Frame), NEW ret, LastOfTopic(lg, ret)
  PROVE  ReplayOf(c, ret) \in Seq(Frame) /\ IsReplay(c, ret, ReplayOf(c, ret))
<1> DEFINE ts == TopicsOf[c]
           qs == [i \in DOMAIN ts |-> ret[ts[i]]]
<1>1. ts \in Seq(Topics)
  BY HubAssumption
<1> HIDE DEF ts
<1>2. DOMAIN ts = 1 .. Len(ts) /\ Len(ts) \in Nat /\ \A i \in 1 .. Len(ts) : ts[i] \in Topics
  BY <1>1
<1>3. ASSUME NEW t \in Topics PROVE ret[t] \in Seq(Frame) /\ Len(ret[t]) <= 1
  <2>1. CASE ret[t] = <<>>
    BY <2>1
  <2>2. ASSUME NEW k \in 1 .. Len(lg), ret[t] = <<lg[k]>> PROVE ret[t] \in Seq(Frame) /\ Len(ret[t]) <= 1
    <3>1. lg[k] \in Frame
      OBVIOUS
    <3> QED BY <2>2, <3>1
  <2> QED BY <2>1, <2>2 DEF LastOfTopic
<1>4. /\ qs \in [1 .. Len(ts) -> Seq(Frame)]
      /\ \A i \in 1 .. Len(ts) : qs[i] = ret[ts[i]]
  BY <1>2, <1>3
<1> HIDE DEF qs
<1>5. qs \in Seq(Seq(Frame)) /\ Len(qs) = Len(ts)
  BY <1>2, <1>4, SeqOfFunction
<1>6. \A i \in 1 .. Len(qs) : Len(qs[i]) <= 1
  BY <1>2, <1>3, <1>4, <1>5
<1> DEFINE r == FlattenSeq(qs)
<1>7. r \in Seq(Frame) /\ MadeOf(r, qs, Len(qs))
  BY <1>5, <1>6, FlattenOnes
<1> HIDE DEF r
<1>8. \E at \in [1 .. Len(r) -> DOMAIN ts] :
          /\ \A a, b \in 1 .. Len(r) : a < b => at[a] < at[b]
          /\ \A a \in 1 .. Len(r) : ret[ts[at[a]]] = <<r[a]>>
          /\ \A i \in DOMAIN ts : ret[ts[i]] # <<>> => \E a \in 1 .. Len(r) : at[a] = i
  <2>1. PICK at \in [1 .. Len(r) -> 1 .. Len(qs)] :
            /\ \A a, b \in 1 .. Len(r) : a < b => at[a] < at[b]
            /\ \A a \in 1 .. Len(r) : qs[at[a]] = <<r[a]>>
            /\ \A i \in 1 .. Len(qs) : qs[i] # <<>> => \E a \in 1 .. Len(r) : at[a] = i
    BY <1>7 DEF MadeOf
  <2>2. at \in [1 .. Len(r) -> DOMAIN ts]
    BY <1>2, <1>5
  <2>3. \A a \in 1 .. Len(r) : ret[ts[at[a]]] = <<r[a]>>
    BY <1>2, <1>4, <2>1, <2>2
  <2>4. \A i \in DOMAIN ts : ret[ts[i]] # <<>> => \E a \in 1 .. Len(r) : at[a] = i
    BY <1>2, <1>4, <1>5, <2>1
  <2> QED BY <2>1, <2>2, <2>3, <2>4
<1>9. IsReplay(c, ret, r)
  BY <1>8 DEF IsReplay, ts
<1>10. r = ReplayOf(c, ret)
  BY Zenon DEF r, qs, ts, ReplayOf
<1> QED BY <1>7, <1>9, <1>10, Zenon

\* A client joins with hello: the replay follows it, short of what had no room.
LEMMA GaplessJoin ==
  ASSUME NEW c \in Conns, NEW lg \in Seq(Frame), Numbered(lg), NEW ret, LastOfTopic(lg, ret),
         NEW k \in 0 .. Len(ReplayOf(c, ret))
  PROVE  LET r == ReplayOf(c, ret)
         IN  Gapless(c, lg, Len(lg), <<Hello>> \o SubSeq(r, 1, k), Len(r) - k)
<1> DEFINE r == ReplayOf(c, ret)
           ts == TopicsOf[c]
           j == Len(lg)
           all == <<Hello>> \o r
           got == <<Hello>> \o SubSeq(r, 1, k)
<1>1. r \in Seq(Frame) /\ Len(r) \in Nat /\ k \in Nat /\ k <= Len(r)
  BY ReplayIs
<1>2. PICK at \in [1 .. Len(r) -> DOMAIN ts] :
          /\ \A a, b \in 1 .. Len(r) : a < b => at[a] < at[b]
          /\ \A a \in 1 .. Len(r) : ret[ts[at[a]]] = <<r[a]>>
          /\ \A i \in DOMAIN ts : ret[ts[i]] # <<>> => \E a \in 1 .. Len(r) : at[a] = i
  <2>1. IsReplay(c, ret, r)
    BY ReplayIs
  <2> HIDE DEF r
  <2> QED BY <2>1, Zenon DEF IsReplay
<1>3. /\ ts \in Seq(Topics) /\ DOMAIN ts = 1 .. Len(ts) /\ Len(ts) \in Nat
      /\ \A i \in DOMAIN ts : ts[i] \in Topics
      /\ \A a, b \in DOMAIN ts : ts[a] = ts[b] => a = b
  BY HubAssumption DEF IsInjective
<1> HIDE DEF r, ts
<1>4. ASSUME NEW a \in 1 .. Len(r)
      PROVE  /\ at[a] \in DOMAIN ts /\ r[a] \in Frame /\ r[a].topic = ts[at[a]]
             /\ r[a].n \in 1 .. j /\ r[a] = lg[r[a].n] /\ r[a].n \in Places(c, lg, j)
  <2>1. at[a] \in DOMAIN ts /\ ts[at[a]] \in Topics /\ ret[ts[at[a]]] = <<r[a]>>
    BY <1>2, <1>3
  <2>2. <<r[a]>> # <<>>
    OBVIOUS
  <2>3. PICK m \in 1 .. Len(lg) :
            /\ ret[ts[at[a]]] = <<lg[m]>> /\ lg[m].topic = ts[at[a]]
            /\ \A i \in m + 1 .. Len(lg) : lg[i].topic # ts[at[a]]
    BY <2>1, <2>2, Zenon DEF LastOfTopic
  <2>4. r[a] = lg[m]
    BY <2>1, <2>3
  <2>5. r[a].n = m
    BY <2>4 DEF Numbered
  <2>6. Subscribed(c, lg[m].topic)
    BY <2>1, <2>3, Zenon DEF Subscribed, Range, ts
  <2>7. m \in Places(c, lg, j)
    BY <2>3, <2>6 DEF Places
  <2> QED BY <1>1, <2>1, <2>3, <2>4, <2>5, <2>7
<1>5. ASSUME NEW p \in Places(c, lg, j) PROVE \E a \in 1 .. Len(r) : r[a] = lg[p]
  <2>1. /\ p \in 1 .. Len(lg) /\ Subscribed(c, lg[p].topic)
        /\ \A i \in p + 1 .. Len(lg) : lg[i].topic # lg[p].topic
    BY DEF Places
  <2>2. PICK i \in DOMAIN ts : ts[i] = lg[p].topic
    BY <2>1 DEF Subscribed, Range, ts
  <2>3. ts[i] \in Topics
    BY <1>3
  <2>4. ret[ts[i]] # <<>>
    <3>1. \A m \in 1 .. Len(lg) : <<lg[m]>> # <<>>
      OBVIOUS
    <3>2. ~\A m \in 1 .. Len(lg) : lg[m].topic # ts[i]
      BY <2>1, <2>2
    <3> QED BY <2>3, <3>1, <3>2, Zenon DEF LastOfTopic
  <2>5. PICK a \in 1 .. Len(r) : at[a] = i
    BY <1>2, <2>4
  <2>6. r[a].topic = lg[p].topic /\ r[a].n \in 1 .. Len(lg) /\ r[a] = lg[r[a].n]
        /\ r[a].n \in Places(c, lg, j)
    BY <1>4, <2>2, <2>5
  <2>7. \A i2 \in r[a].n + 1 .. Len(lg) : lg[i2].topic # lg[r[a].n].topic
    BY <2>6 DEF Places
  <2>8. r[a].n = p
    <3>1. ~(p < r[a].n)
      <4>1. p < r[a].n => r[a].n \in p + 1 .. Len(lg)
        BY <2>1, <2>6
      <4> QED BY <2>1, <2>6, <4>1
    <3>2. ~(r[a].n < p)
      <4>1. r[a].n < p => p \in r[a].n + 1 .. Len(lg)
        BY <2>1, <2>6
      <4> QED BY <2>6, <2>7, <4>1
    <3> QED BY <2>1, <2>6, <3>1, <3>2
  <2> QED BY <2>6, <2>8
<1>6. \A a, b \in 1 .. Len(r) : r[a] = r[b] => a = b
  <2> SUFFICES ASSUME NEW a \in 1 .. Len(r), NEW b \in 1 .. Len(r), r[a] = r[b] PROVE a = b
    OBVIOUS
  <2>1. at[a] = at[b]
    <3>1. r[a].topic = r[b].topic
      OBVIOUS
    <3>2. ts[at[a]] = ts[at[b]] /\ at[a] \in DOMAIN ts /\ at[b] \in DOMAIN ts
      BY <1>4, <3>1, Zenon
    <3> QED BY <1>3, <3>2, Zenon
  <2>2. ~(a < b) /\ ~(b < a)
    BY <1>2, <1>3, <1>4, <2>1
  <2> QED BY <2>2
<1>7. <<Hello>> \in Seq(Sendable) /\ r \in Seq(Sendable)
  <2>1. Frame \subseteq Sendable
    BY DEF Sendable
  <2> QED BY <1>1, <2>1, SeqMonotonic, HelloIs
<1>8. /\ all \in Seq(Sendable) /\ Len(all) = 1 + Len(r)
      /\ all[1] = Hello /\ \A a \in 1 .. Len(r) : all[1 + a] = r[a]
      /\ \A a \in 1 .. 1 + Len(r) : a = 1 \/ \E b \in 1 .. Len(r) : a = 1 + b
  <2>1. /\ all \in Seq(Sendable) /\ Len(all) = 1 + Len(r)
        /\ all[1] = Hello /\ \A a \in 1 .. Len(r) : all[1 + a] = r[a]
    BY <1>7
  <2>2. ASSUME NEW a \in 1 .. 1 + Len(r), a # 1 PROVE \E b \in 1 .. Len(r) : a = 1 + b
    <3>1. a - 1 \in 1 .. Len(r) /\ a = 1 + (a - 1)
      BY <1>1, <2>2
    <3> QED BY <3>1
  <2> QED BY <2>1, <2>2
<1> HIDE DEF all
<1>9. Cardinality(Owed(c, lg, j)) = 1 + Len(r)
  <2>1. \A a, b \in 1 .. Len(all) : all[a] = all[b] => a = b
    <3> SUFFICES ASSUME NEW a \in 1 .. Len(all), NEW b \in 1 .. Len(all), all[a] = all[b]
                 PROVE  a = b
      OBVIOUS
    <3>1. CASE a = 1 /\ b = 1
      BY <3>1
    <3>2. ASSUME a = 1, NEW d \in 1 .. Len(r), b = 1 + d PROVE FALSE
      BY <1>4, <1>8, <3>2, HelloIs
    <3>3. ASSUME b = 1, NEW d \in 1 .. Len(r), a = 1 + d PROVE FALSE
      BY <1>4, <1>8, <3>3, HelloIs
    <3>4. ASSUME NEW d \in 1 .. Len(r), NEW e \in 1 .. Len(r), a = 1 + d, b = 1 + e PROVE a = b
      <4>1. r[d] = r[e]
        BY <1>8, <3>4
      <4> QED BY <1>6, <3>4, <4>1
    <3> QED BY <1>8, <3>1, <3>2, <3>3, <3>4
  <2>2. Cardinality({all[i] : i \in 1 .. Len(all)}) = Len(all)
    BY <1>8, <2>1, CardOfSeq
  <2>3. {all[i] : i \in 1 .. Len(all)} = Owed(c, lg, j)
    <3>1. \A i \in 1 .. Len(all) : all[i] \in Owed(c, lg, j)
      <4>1. \A a \in 1 .. Len(r) : r[a] \in Owed(c, lg, j)
        BY <1>4 DEF Owed
      <4>2. Hello \in Owed(c, lg, j)
        BY DEF Owed
      <4>3. ASSUME NEW i \in 1 .. Len(all) PROVE all[i] \in Owed(c, lg, j)
        <5>1. i \in 1 .. 1 + Len(r)
          BY <1>8, <4>3
        <5>2. CASE i = 1
          BY <1>8, <4>2, <5>2
        <5>3. CASE i # 1
          <6>1. PICK b \in 1 .. Len(r) : i = 1 + b
            BY <1>8, <5>1, <5>3
          <6>2. all[i] = r[b]
            BY <1>8, <6>1
          <6> QED BY <4>1, <6>1, <6>2
        <5> QED BY <5>2, <5>3
      <4> QED BY <4>3
    <3>2. ASSUME NEW f \in Owed(c, lg, j) PROVE \E i \in 1 .. Len(all) : all[i] = f
      <4>1. CASE f = Hello
        <5>1. 1 \in 1 .. Len(all)
          BY <1>1, <1>8
        <5> QED BY <1>8, <4>1, <5>1
      <4>2. CASE f # Hello
        <5>1. PICK p \in Places(c, lg, j) : f = lg[p]
          BY <4>2 DEF Owed
        <5>2. PICK a \in 1 .. Len(r) : r[a] = f
          BY <1>5, <5>1
        <5>3. 1 + a \in 1 .. Len(all)
          BY <1>1, <1>8
        <5> QED BY <1>8, <5>2, <5>3
      <4> QED BY <4>1, <4>2
    <3> QED BY <3>1, <3>2, Zenon
  <2> QED BY <1>8, <2>2, <2>3
<1>10. /\ Len(got) = 1 + k /\ DOMAIN got = 1 .. 1 + k
       /\ got[1] = Hello /\ \A a \in 1 .. k : got[1 + a] = r[a] /\ a \in 1 .. Len(r)
       /\ \A a \in 1 .. 1 + k : a = 1 \/ \E b \in 1 .. k : a = 1 + b
  <2>1. /\ SubSeq(r, 1, k) \in Seq(Sendable) /\ Len(SubSeq(r, 1, k)) = k
        /\ \A a \in 1 .. k : SubSeq(r, 1, k)[a] = r[a] /\ a \in 1 .. Len(r)
    BY <1>1, <1>7
  <2>2. /\ Len(got) = 1 + k /\ DOMAIN got = 1 .. 1 + k /\ got[1] = Hello
        /\ \A a \in 1 .. k : got[1 + a] = SubSeq(r, 1, k)[a]
    BY <1>1, <1>7, <2>1
  <2>3. ASSUME NEW a \in 1 .. 1 + k, a # 1 PROVE \E b \in 1 .. k : a = 1 + b
    <3>1. a - 1 \in 1 .. k /\ a = 1 + (a - 1)
      BY <1>1, <2>3
    <3> QED BY <3>1
  <2> QED BY <2>1, <2>2, <2>3
<1> HIDE DEF got
<1>11. Hello \in Range(got) /\ Range(got) \subseteq Owed(c, lg, j)
  <2>1. \A a \in 1 .. Len(r) : r[a] \in Owed(c, lg, j)
    BY <1>4 DEF Owed
  <2>2. Hello \in Owed(c, lg, j)
    BY DEF Owed
  <2>3. 1 \in 1 .. 1 + k
    BY <1>1
  <2>4. ASSUME NEW a \in DOMAIN got PROVE got[a] \in Owed(c, lg, j)
    <3>1. CASE a = 1
      BY <1>10, <2>2, <3>1
    <3>2. ASSUME NEW b \in 1 .. k, a = 1 + b PROVE got[a] \in Owed(c, lg, j)
      BY <1>10, <2>1, <3>2
    <3> QED BY <1>10, <3>1, <3>2
  <2> QED BY <1>10, <2>3, <2>4, Zenon DEF Range
<1>12. ASSUME NEW a \in DOMAIN got, NEW b \in DOMAIN got, a < b PROVE First(c, j, got[a], got[b])
  <2>1. PICK e \in 1 .. k : b = 1 + e
    <3>1. b # 1
      BY <1>1, <1>10, <1>12
    <3> QED BY <1>10, <3>1
  <2>2. got[b] = r[e] /\ e \in 1 .. Len(r) /\ r[e].n \in 1 .. j
    BY <1>4, <1>10, <2>1
  <2>3. CASE a = 1
    <3>1. got[a] = Hello /\ Hello.n = 0 /\ Hello.n < r[e].n
      BY <1>10, <2>2, <2>3, HelloIs
    <3> QED BY <2>2, <3>1 DEF First
  <2>4. ASSUME NEW d \in 1 .. k, a = 1 + d PROVE First(c, j, got[a], got[b])
    <3>1. got[a] = r[d] /\ d \in 1 .. Len(r) /\ r[d].n \in 1 .. j /\ d < e
      BY <1>4, <1>10, <1>12, <2>1, <2>4
    <3>2. /\ at[d] \in DOMAIN ts /\ at[e] \in DOMAIN ts /\ at[d] < at[e]
          /\ ts[at[d]] = r[d].topic /\ ts[at[e]] = r[e].topic
      BY <1>2, <1>4, <2>2, <3>1
    <3> QED BY <2>2, <3>1, <3>2, Zenon DEF First, ts
  <2> QED BY <1>10, <2>3, <2>4
<1>13. Len(got) + (Len(r) - k) = 1 + Len(r)
  BY <1>1, <1>10
<1>14. Gapless(c, lg, j, got, Len(r) - k)
  BY <1>9, <1>11, <1>12, <1>13 DEF Gapless
<1> QED BY <1>14 DEF got, r

-----------------------------------------------------------------------------
(* The invariant *)

Types ==
    /\ TypeOK
    /\ retained \in [Topics -> Seq(Frame)]
    /\ send \in [Conns -> Seq(Sendable)] /\ taken \in [Conns -> Seq(Sendable)]
    /\ joined \in [Conns -> Nat]

\* A client that is in the registry has an open channel, and is in it only after
\* its handler has registered it and as long as the hub runs; only a read pump that
\* has had its last breath is waiting to be unregistered.
Registry ==
    /\ hubDone => clients = {}
    /\ closed \cap clients = {}
    /\ \A c \in Conns : reader[c] \in {"out", "register"} => c \notin closed \cup clients
    /\ \A c \in Conns : reader[c] = "out" => writer[c] = "off"
    /\ \A i \in 1 .. Len(unreg) : reader[unreg[i]] \in {"joining", "returned"}

\* As long as the server serves, nobody is told goodbye by a connection whose read
\* pump has not read his.
Handshake ==
    main = "serving" =>
        \A c \in Conns : reader[c] \in {"out", "register", "reading"} =>
            c \notin closed /\ peer[c] \notin {"answered", "parted"}

\* The frames are numbered as they were delivered, the last of each topic is
\* retained, and nobody joined later than now.
History ==
    /\ Len(log) <= MaxFrames /\ Numbered(log)
    /\ LastOfTopic(log, retained)
    /\ \A c \in Conns : joined[c] <= Len(log)

\* Before it registers, a client is owed hello and nothing else.
Waiting ==
    \A c \in Conns :
        /\ reader[c] = "out" => taken[c] = <<>> /\ dropped[c] = 0
        /\ reader[c] = "register" => taken[c] \o send[c] = <<Hello>> /\ dropped[c] = 0

Inductive ==
    Types /\ Registry /\ Handshake /\ NoPanic /\ History /\ Waiting /\ JoinIsGapless

\* The capacities are numbers, and none is 0.
LEMMA CapacitiesAre ==
  /\ SendBuffer \in Nat /\ SendBuffer > 0 /\ UnregDepth \in Nat /\ UnregDepth > 0
  /\ MaxFrames \in Nat /\ MaxFrames > 0
BY HubAssumption

-----------------------------------------------------------------------------
(* What the operations give *)

\* Each client is sent as many of its frames as it has room for, and the others are
\* counted.
LEMMA TrySendIs ==
  ASSUME Types, NEW fs \in [Conns -> Seq(Frame)], TrySend(fs)
  PROVE  /\ send' \in [Conns -> Seq(Sendable)] /\ dropped' \in [Conns -> Nat]
         /\ \A c \in Conns :
               /\ Len(send'[c]) <= SendBuffer
               /\ \E k \in 0 .. Len(fs[c]) :
                     /\ send'[c] = send[c] \o SubSeq(fs[c], 1, k)
                     /\ dropped'[c] = dropped[c] + (Len(fs[c]) - k)
         /\ panicked' = (panicked \/ \E c \in closed : fs[c] # <<>>)
<1> DEFINE Took(c) == SubSeq(fs[c], 1, Min({RoomFor(c), Len(fs[c])}))
<1>1. /\ send' = [c \in Conns |-> send[c] \o Took(c)]
      /\ dropped' = [c \in Conns |-> dropped[c] + Len(fs[c]) - Len(Took(c))]
      /\ panicked' = (panicked \/ \E c \in closed : fs[c] # <<>>)
  BY Zenon DEF TrySend
<1>2. /\ send \in [Conns -> Seq(Sendable)] /\ dropped \in [Conns -> Nat]
      /\ \A c \in Conns : Len(send[c]) <= SendBuffer
  BY DEF Types, TypeOK
<1>3. ASSUME NEW c \in Conns
      PROVE  \E k \in 0 .. Len(fs[c]) :
                /\ Took(c) = SubSeq(fs[c], 1, k) /\ Took(c) \in Seq(Sendable) /\ Len(Took(c)) = k
                /\ Len(send[c]) + k <= SendBuffer
  <2> DEFINE room == SendBuffer - Len(send[c])
             size == Len(fs[c])
             k == Min({room, size})
  <2>1. fs[c] \in Seq(Frame) /\ size \in Nat /\ Len(send[c]) \in Nat /\ room \in Nat
    BY <1>2, CapacitiesAre
  <2>2. k \in 0 .. size /\ k <= room
    <3> HIDE DEF room, size
    <3>1. \E x \in {room, size} : \A y \in {room, size} : x <= y
      <4>1. CASE room <= size
        BY <2>1, <4>1
      <4>2. CASE size <= room
        BY <2>1, <4>2
      <4> QED BY <2>1, <4>1, <4>2
    <3>2. k \in {room, size} /\ \A y \in {room, size} : k <= y
      BY <3>1, Zenon DEF Min
    <3> QED BY <2>1, <3>2
  <2> HIDE DEF k
  <2>3. Took(c) = SubSeq(fs[c], 1, k)
    BY Zenon DEF k, RoomFor
  <2>4. SubSeq(fs[c], 1, k) \in Seq(Frame) /\ Len(SubSeq(fs[c], 1, k)) = k
    <3>1. 1 \in 1 .. size + 1 /\ k \in 1 - 1 .. size /\ k - 1 + 1 = k
      BY <2>1, <2>2
    <3> QED BY <2>1, <3>1, CutIs
  <2>5. Frame \subseteq Sendable
    BY DEF Sendable
  <2>6. SubSeq(fs[c], 1, k) \in Seq(Sendable)
    BY <2>4, <2>5, SeqMonotonic
  <2>7. Len(send[c]) + k <= SendBuffer
    BY <2>1, <2>2, CapacitiesAre
  <2> QED BY <2>2, <2>3, <2>4, <2>6, <2>7
<1> HIDE DEF Took
<1>4. ASSUME NEW c \in Conns
      PROVE  /\ send'[c] \in Seq(Sendable) /\ Len(send'[c]) <= SendBuffer /\ dropped'[c] \in Nat
             /\ \E k \in 0 .. Len(fs[c]) :
                   /\ send'[c] = send[c] \o SubSeq(fs[c], 1, k)
                   /\ dropped'[c] = dropped[c] + (Len(fs[c]) - k)
  <2>1. PICK k \in 0 .. Len(fs[c]) :
            /\ Took(c) = SubSeq(fs[c], 1, k) /\ Took(c) \in Seq(Sendable) /\ Len(Took(c)) = k
            /\ Len(send[c]) + k <= SendBuffer
    BY <1>3
  <2>2. send'[c] = send[c] \o Took(c) /\ dropped'[c] = dropped[c] + Len(fs[c]) - Len(Took(c))
    BY <1>1
  <2>3. send[c] \in Seq(Sendable) /\ Len(fs[c]) \in Nat /\ dropped[c] \in Nat
    BY <1>2
  <2>4. send'[c] \in Seq(Sendable) /\ Len(send'[c]) = Len(send[c]) + Len(Took(c))
    BY <2>1, <2>2, <2>3, ConcatIs
  <2>5. dropped'[c] = dropped[c] + (Len(fs[c]) - k) /\ dropped'[c] \in Nat
    BY <2>1, <2>2, <2>3
  <2>6. Len(send'[c]) <= SendBuffer
    BY <2>1, <2>4
  <2> QED BY <2>1, <2>2, <2>4, <2>5, <2>6
<1>5. send' \in [Conns -> Seq(Sendable)]
  <2>1. send' = [c \in Conns |-> send'[c]]
    BY <1>1
  <2> QED BY <1>4, <2>1, Zenon
<1>6. dropped' \in [Conns -> Nat]
  <2>1. dropped' = [c \in Conns |-> dropped'[c]]
    BY <1>1
  <2> QED BY <1>4, <2>1, Zenon
<1> QED BY <1>1, <1>4, <1>5, <1>6

\* What closing channels changes.
LEMMA CloseIs ==
  ASSUME Types, NEW cs \in SUBSET Conns, Close(cs)
  PROVE  /\ closed' = closed \cup cs /\ closed' \subseteq Conns
         /\ panicked' = (panicked \/ closed \cap cs # {}) /\ panicked' \in BOOLEAN
         /\ dropped' \in [Conns -> Nat] /\ joined' \in [Conns -> Nat]
         /\ taken' \in [Conns -> Seq(Sendable)]
         /\ \A c \in Conns \ cs : /\ dropped'[c] = dropped[c] /\ joined'[c] = joined[c]
                                  /\ taken'[c] = taken[c]
         /\ \A c \in Conns : joined'[c] \in {0, joined[c]}
<1>1. /\ closed \subseteq Conns /\ panicked \in BOOLEAN /\ dropped \in [Conns -> Nat]
      /\ joined \in [Conns -> Nat] /\ taken \in [Conns -> Seq(Sendable)]
  BY DEF Types, TypeOK
<1>2. <<>> \in Seq(Sendable)
  OBVIOUS
<1> QED BY <1>1, <1>2 DEF Close

\* What a step that delivers nothing and moves nobody keeps.
LEMMA SameHistory ==
  ASSUME Inductive, UNCHANGED <<log, retained>>,
         joined' \in [Conns -> Nat], \A c \in Conns : joined'[c] \in {0, joined[c]}
  PROVE  History'
<1>1. \A c \in Conns : joined[c] <= Len(log)
  BY DEF Inductive, History
<1>2. log \in Seq(Frame) /\ Len(log) \in Nat
  BY DEF Inductive, Types, TypeOK
<1>3. \A c \in Conns : joined'[c] <= Len(log')
  BY <1>1, <1>2
<1> QED BY <1>3 DEF Inductive, History, Numbered, LastOfTopic

\* Clients that were sent nothing new and had nothing taken away are where they were.
LEMMA SameGap ==
  ASSUME Inductive, UNCHANGED log, clients' \subseteq clients,
         \A c \in clients' : /\ joined'[c] = joined[c] /\ dropped'[c] = dropped[c]
                             /\ taken'[c] \o send'[c] = taken[c] \o send[c]
  PROVE  JoinIsGapless'
<1>1. DOMAIN log = 1 .. Len(log)
  BY DEF Inductive, Types, TypeOK
<1>2. \A c \in clients : Gapless(c, log, joined[c], taken[c] \o send[c], dropped[c])
  BY <1>1, GaplessIs DEF Inductive
<1>3. \A c \in clients' : Gapless(c, log', joined'[c], taken'[c] \o send'[c], dropped'[c])
  BY <1>2, Zenon
<1>4. DOMAIN log' = 1 .. Len(log')
  BY <1>1
<1> QED BY <1>3, <1>4, GaplessThen

-----------------------------------------------------------------------------
(* Every step keeps it *)

\* Before the first connection nothing is registered, retained or owed.
LEMMA InitInductive == Init => Inductive
<1> SUFFICES ASSUME Init PROVE Inductive
  OBVIOUS
<1> USE DEF Init
<1>1. Types
  <2>1. \A t \in Topics : retained[t] \in {<<>>} \cup {<<f>> : f \in Frame}
    OBVIOUS
  <2>2. \A c \in Conns : send[c] \in Seq(Frame \cup {Hello}) /\ Len(send[c]) <= SendBuffer
    BY CapacitiesAre
  <2>3. unreg \in Seq(Conns) /\ Len(unreg) <= UnregDepth /\ log \in Seq(Frame)
    BY CapacitiesAre
  <2>4. TypeOK
    BY <2>1, <2>2, <2>3 DEF TypeOK
  <2> QED BY <2>4 DEF Types
<1>2. Registry /\ NoPanic
  BY DEF Registry, NoPanic
<1>3. Handshake
  BY DEF Handshake
<1>4. History
  <2>1. Len(log) = 0 /\ 1 .. Len(log) = {}
    OBVIOUS
  <2> QED BY <2>1, CapacitiesAre DEF History, Numbered, LastOfTopic
<1>5. Waiting /\ JoinIsGapless
  BY DEF Waiting, JoinIsGapless
<1> QED BY <1>1, <1>2, <1>3, <1>4, <1>5 DEF Inductive

\* What a client that does not hear of it is sent of a frame: nothing.
LEMMA Nothing ==
  ASSUME NEW S, NEW s \in Seq(S), NEW T, NEW q \in Seq(T), q = <<>>, NEW k \in 0 .. Len(q)
  PROVE  s \o SubSeq(q, 1, k) = s /\ k = 0 /\ Len(q) = 0
<1>1. Len(q) = 0 /\ k = 0
  OBVIOUS
<1>2. SubSeq(q, 1, k) = <<>>
  BY <1>1
<1>3. s \o <<>> = s
  OBVIOUS
<1> QED BY <1>1, <1>2, <1>3

\* A frame is retained and sent to whoever subscribes to its topic.
LEMMA DeliverInductive ==
  ASSUME Inductive, NEW t \in Topics, Deliver(t) PROVE Inductive'
<1> DEFINE f == [topic |-> t, n |-> Len(log) + 1]
           fs == [c \in Conns |-> IF c \in clients /\ Subscribed(c, t) THEN <<f>> ELSE <<>>]
<1>1. /\ Len(log) < MaxFrames /\ log' = Append(log, f)
      /\ retained' = [retained EXCEPT ![t] = <<f>>] /\ TrySend(fs)
      /\ UNCHANGED <<unreg, clients, hubDone, joined, closed, taken, ends, process>>
      /\ UNCHANGED <<reader, writer, open, peer, conns, main>>
  BY Zenon DEF Deliver, Keep, ends, process
<1>2. /\ Types /\ log \in Seq(Frame) /\ Len(log) \in Nat
      /\ retained \in [Topics -> Seq(Frame)] /\ joined \in [Conns -> Nat]
      /\ \A u \in Topics : retained[u] \in {<<>>} \cup {<<g>> : g \in Frame}
  BY DEF Inductive, Types, TypeOK
<1>3. f \in Frame /\ f.n = Len(log) + 1 /\ f.topic = t
  BY <1>1, <1>2, CapacitiesAre DEF Frame
<1> HIDE DEF f
<1>4. fs \in [Conns -> Seq(Frame)]
  BY <1>3
<1>5. \A c \in Conns : fs[c] = IF c \in clients /\ Subscribed(c, t) THEN <<f>> ELSE <<>>
  OBVIOUS
<1> HIDE DEF fs
<1>6. /\ send' \in [Conns -> Seq(Sendable)] /\ dropped' \in [Conns -> Nat]
      /\ \A c \in Conns :
            /\ Len(send'[c]) <= SendBuffer
            /\ \E k \in 0 .. Len(fs[c]) :
                  /\ send'[c] = send[c] \o SubSeq(fs[c], 1, k)
                  /\ dropped'[c] = dropped[c] + (Len(fs[c]) - k)
      /\ panicked' = (panicked \/ \E c \in closed : fs[c] # <<>>)
  BY <1>1, <1>2, <1>4, TrySendIs
<1>7. /\ log' \in Seq(Frame) /\ Len(log') = Len(log) + 1 /\ log'[Len(log) + 1] = f
      /\ \A k \in 1 .. Len(log) : log'[k] = log[k]
  BY <1>1, <1>2, <1>3, AppendProperties
<1>8. NoPanic'
  <2>1. \A c \in closed : c \in Conns /\ c \notin clients
    BY DEF Inductive, Types, TypeOK, Registry
  <2>2. \A c \in closed : fs[c] = <<>>
    BY <1>5, <2>1
  <2> QED BY <1>6, <2>2 DEF Inductive, NoPanic
<1>9. Types'
  <2>1. \A u \in Topics : retained'[u] \in {<<>>} \cup {<<g>> : g \in Frame}
    BY <1>1, <1>2, <1>3
  <2>2. retained' \in [Topics -> Seq(Frame)]
    BY <1>1, <1>2, <1>3
  <2>3. \A c \in Conns : send'[c] \in Seq(Frame \cup {Hello}) /\ Len(send'[c]) <= SendBuffer
    BY <1>6 DEF Sendable
  <2>4. panicked' \in BOOLEAN
    BY <1>6, Zenon
  <2>5. TypeOK'
    BY <1>1, <1>6, <1>7, <2>1, <2>3, <2>4 DEF Inductive, Types, TypeOK, Hello
  <2> QED BY <1>1, <1>6, <2>2, <2>5 DEF Inductive, Types, Sendable, Hello
<1>10. Registry' /\ Handshake'
  BY <1>1 DEF Inductive, Registry, Handshake
<1>11. History'
  <2>1. Len(log') <= MaxFrames
    BY <1>1, <1>2, <1>7, CapacitiesAre
  <2>2. Numbered(log')
    <3>1. \A k \in 1 .. Len(log') : k \in 1 .. Len(log) \/ k = Len(log) + 1
      BY <1>2, <1>7
    <3>2. \A k \in 1 .. Len(log) : log[k].n = k
      BY DEF Inductive, History, Numbered
    <3> QED BY <1>3, <1>7, <3>1, <3>2, Zenon DEF Numbered
  <2>3. LastOfTopic(log', retained')
    <3>1. ASSUME NEW u \in Topics, u # t
          PROVE  \/ retained'[u] = <<>> /\ \A k \in 1 .. Len(log') : log'[k].topic # u
                 \/ \E k \in 1 .. Len(log') :
                        /\ retained'[u] = <<log'[k]>> /\ log'[k].topic = u
                        /\ \A m \in k + 1 .. Len(log') : log'[m].topic # u
      <4>1. retained'[u] = retained[u]
        BY <1>1, <1>2, <3>1
      <4>2. \A k \in 1 .. Len(log') : k \in 1 .. Len(log) \/ k = Len(log) + 1
        BY <1>2, <1>7
      <4>3. log'[Len(log) + 1].topic # u
        BY <1>3, <1>7, <3>1
      <4>4. CASE retained[u] = <<>> /\ \A k \in 1 .. Len(log) : log[k].topic # u
        BY <1>7, <4>1, <4>2, <4>3, <4>4
      <4>5. ASSUME NEW k \in 1 .. Len(log), retained[u] = <<log[k]>>, log[k].topic = u,
                   \A m \in k + 1 .. Len(log) : log[m].topic # u
            PROVE  \E i \in 1 .. Len(log') :
                      /\ retained'[u] = <<log'[i]>> /\ log'[i].topic = u
                      /\ \A m \in i + 1 .. Len(log') : log'[m].topic # u
        <5>1. k \in 1 .. Len(log') /\ log'[k] = log[k]
          BY <1>2, <1>7
        <5>2. ASSUME NEW m \in k + 1 .. Len(log') PROVE log'[m].topic # u
          <6>1. CASE m = Len(log) + 1
            BY <4>3, <6>1
          <6>2. CASE m # Len(log) + 1
            <7>1. Len(log) \in Nat /\ Len(log') = Len(log) + 1
              BY <1>2, <1>7
            <7>2. m \in 1 .. Len(log) /\ m \in k + 1 .. Len(log)
              BY <6>2, <7>1
            <7> QED BY <1>7, <4>5, <7>2
          <6> QED BY <6>1, <6>2
        <5> QED BY <4>1, <4>5, <5>1, <5>2
      <4> QED BY <4>4, <4>5 DEF Inductive, History, LastOfTopic
    <3>2. \E k \in 1 .. Len(log') :
              /\ retained'[t] = <<log'[k]>> /\ log'[k].topic = t
              /\ \A m \in k + 1 .. Len(log') : log'[m].topic # t
      <4>1. Len(log) + 1 \in 1 .. Len(log') /\ Len(log) + 1 + 1 .. Len(log') = {}
        BY <1>2, <1>7
      <4>2. retained'[t] = <<f>>
        BY <1>1, <1>2
      <4> QED BY <1>3, <1>7, <4>1, <4>2
    <3> QED BY <3>1, <3>2 DEF LastOfTopic
  <2>4. \A c \in Conns : joined'[c] <= Len(log')
    BY <1>1, <1>2, <1>7 DEF Inductive, History
  <2> QED BY <2>1, <2>2, <2>3, <2>4 DEF History
<1>12. Waiting'
  <2> SUFFICES ASSUME NEW c \in Conns, reader[c] \in {"out", "register"}
               PROVE  send'[c] = send[c] /\ dropped'[c] = dropped[c]
    BY <1>1 DEF Inductive, Waiting, Hello
  <2>1. c \notin clients
    BY DEF Inductive, Registry
  <2>2. fs[c] = <<>> /\ fs[c] \in Seq(Frame)
    BY <1>4, <1>5, <2>1
  <2>3. send[c] \in Seq(Sendable) /\ dropped[c] \in Nat
    BY DEF Inductive, Types, TypeOK
  <2>4. PICK k \in 0 .. Len(fs[c]) : /\ send'[c] = send[c] \o SubSeq(fs[c], 1, k)
                                     /\ dropped'[c] = dropped[c] + (Len(fs[c]) - k)
    BY <1>6
  <2>5. send[c] \o SubSeq(fs[c], 1, k) = send[c] /\ k = 0 /\ Len(fs[c]) = 0
    BY <2>2, <2>3, Nothing
  <2> QED BY <2>3, <2>4, <2>5
<1>13. JoinIsGapless'
  <2>1. \A c \in clients : Gapless(c, log, joined[c], taken[c] \o send[c], dropped[c])
    <3>1. DOMAIN log = 1 .. Len(log)
      BY <1>2
    <3> QED BY <3>1, GaplessIs DEF Inductive
  <2>2. ASSUME NEW c \in clients
        PROVE  Gapless(c, log', joined'[c], taken'[c] \o send'[c], dropped'[c])
    <3> DEFINE got == taken[c] \o send[c]
               d == dropped[c]
               j == joined[c]
    <3>1. /\ c \in Conns /\ taken[c] \in Seq(Sendable) /\ send[c] \in Seq(Sendable) /\ d \in Nat
      BY DEF Inductive, Types, TypeOK
    <3>2. got \in Seq(Sendable) /\ j \in 0 .. Len(log) /\ Numbered(log)
      BY <1>2, <3>1, ConcatIs DEF Inductive, History
    <3>3. Gapless(c, log, j, got, d)
      BY <2>1
    <3>4. PICK k \in 0 .. Len(fs[c]) : /\ send'[c] = send[c] \o SubSeq(fs[c], 1, k)
                                       /\ dropped'[c] = d + (Len(fs[c]) - k)
      BY <1>6, <3>1
    <3>5. CASE ~Subscribed(c, t)
      <4>1. fs[c] = <<>> /\ fs[c] \in Seq(Frame)
        BY <1>4, <1>5, <3>1, <3>5
      <4>2. send[c] \o SubSeq(fs[c], 1, k) = send[c] /\ k = 0 /\ Len(fs[c]) = 0
        <5> DEFINE s == send[c]
                   q == fs[c]
        <5>1. s \in Seq(Sendable) /\ q \in Seq(Frame) /\ q = <<>> /\ k \in 0 .. Len(q)
          BY <3>1, <4>1
        <5> HIDE DEF got, d, j, s, q
        <5>2. s \o SubSeq(q, 1, k) = s /\ k = 0 /\ Len(q) = 0
          BY <5>1, Nothing
        <5> QED BY <5>2 DEF s, q
      <4>3. send'[c] = send[c] /\ dropped'[c] = d
        BY <3>1, <3>4, <4>2
      <4> HIDE DEF got, d, j
      <4>4. Gapless(c, Append(log, f), j, got, d)
        BY <1>2, <1>3, <3>2, <3>3, <3>5, GaplessApart
      <4> QED BY <1>1, <4>3, <4>4 DEF got, d, j
    <3>6. CASE Subscribed(c, t)
      <4>1. fs[c] = <<f>>
        BY <1>5, <3>1, <3>6
      <4>2. Len(fs[c]) = 1 /\ (k = 0 \/ k = 1)
        BY <4>1
      <4>3. CASE k = 0
        <5>1. SubSeq(<<f>>, 1, 0) = <<>> /\ send[c] \o <<>> = send[c]
          BY <1>3, <3>1
        <5>2. send'[c] = send[c] /\ dropped'[c] = d + 1
          BY <3>1, <3>4, <4>1, <4>2, <4>3, <5>1
        <5> HIDE DEF got, d, j
        <5>3. Gapless(c, Append(log, f), j, got, d + 1)
          BY <1>2, <1>3, <3>1, <3>2, <3>3, <3>6, GaplessDropped
        <5> QED BY <1>1, <5>2, <5>3 DEF got, j
      <4>4. CASE k = 1
        <5>1. SubSeq(<<f>>, 1, 1) = <<f>> /\ <<f>> \in Seq(Sendable)
          <6> DEFINE h == <<f>>
          <6>1. f \in Sendable
            BY <1>3, HelloIs
          <6>2. h \in Seq(Sendable) /\ Len(h) = 1
            BY <6>1
          <6> HIDE DEF h
          <6>3. SubSeq(h, 1, Len(h)) = h
            BY <6>2, SubSeqFull
          <6>4. SubSeq(h, 1, 1) = h
            BY <6>2, <6>3, Zenon
          <6> QED BY <6>2, <6>4, Zenon DEF h
        <5>2. send'[c] = send[c] \o <<f>> /\ dropped'[c] = d
          BY <3>1, <3>4, <4>1, <4>2, <4>4, <5>1
        <5>3. taken'[c] \o send'[c] = got \o <<f>>
          <6>1. taken'[c] = taken[c]
            BY <1>1
          <6>2. taken[c] \o (send[c] \o <<f>>) = (taken[c] \o send[c]) \o <<f>>
            <7> DEFINE x == taken[c]
                       y == send[c]
                       z == <<f>>
            <7>1. x \in Seq(Sendable) /\ y \in Seq(Sendable) /\ z \in Seq(Sendable)
              BY <3>1, <5>1
            <7> HIDE DEF got, d, j, x, y, z
            <7>2. (x \o y) \o z = x \o (y \o z)
              BY <7>1, ConcatAssociative
            <7> QED BY <7>2, Zenon DEF x, y, z
          <6> QED BY <5>2, <6>1, <6>2, Zenon
        <5> HIDE DEF got, d, j
        <5>4. Gapless(c, Append(log, f), j, got \o <<f>>, d)
          BY <1>2, <1>3, <3>1, <3>2, <3>3, <3>6, GaplessSent
        <5> QED BY <1>1, <5>2, <5>3, <5>4 DEF j
      <4> QED BY <4>2, <4>3, <4>4
    <3> QED BY <3>5, <3>6
  <2>3. DOMAIN log' = 1 .. Len(log') /\ clients' = clients
    BY <1>1, <1>7
  <2> QED BY <2>2, <2>3, GaplessThen
<1> QED BY <1>8, <1>9, <1>10, <1>11, <1>12, <1>13 DEF Inductive

\* The hub takes a client and sends it the last frame of each of its topics.
LEMMA RegisterInductive ==
  ASSUME Inductive, NEW c \in Conns, Register(c) PROVE Inductive'
<1> DEFINE r == Replay(c)
           fs == [d \in Conns |-> IF d = c THEN r ELSE <<>>]
<1>1. /\ ~hubDone /\ reader[c] = "register" /\ clients' = clients \cup {c} /\ TrySend(fs)
      /\ joined' = [joined EXCEPT ![c] = Len(log)]
      /\ reader' = [reader EXCEPT ![c] = "reading"]
      /\ UNCHANGED <<unreg, retained, hubDone, log, closed, taken, writer, open, peer, process>>
      /\ UNCHANGED <<conns, main>>
  BY Zenon DEF Register, process
<1>2. /\ Types /\ log \in Seq(Frame) /\ Len(log) \in Nat /\ joined \in [Conns -> Nat]
      /\ reader \in [Conns -> {"out", "register", "reading", "unregister", "joining", "returned"}]
      /\ clients \subseteq Conns /\ closed \subseteq Conns
  BY DEF Inductive, Types, TypeOK
<1>3. r = ReplayOf(c, retained) /\ Numbered(log) /\ LastOfTopic(log, retained)
  BY DEF Replay, ReplayOf, Inductive, History
<1>4. r \in Seq(Frame) /\ Len(r) \in Nat
  BY <1>2, <1>3, ReplayIs
<1> HIDE DEF r
<1>5. fs \in [Conns -> Seq(Frame)] /\ fs[c] = r
  BY <1>4
<1>6. \A d \in Conns : d # c => fs[d] = <<>>
  OBVIOUS
<1> HIDE DEF fs
<1>7. /\ send' \in [Conns -> Seq(Sendable)] /\ dropped' \in [Conns -> Nat]
      /\ \A d \in Conns :
            /\ Len(send'[d]) <= SendBuffer
            /\ \E k \in 0 .. Len(fs[d]) :
                  /\ send'[d] = send[d] \o SubSeq(fs[d], 1, k)
                  /\ dropped'[d] = dropped[d] + (Len(fs[d]) - k)
      /\ panicked' = (panicked \/ \E d \in closed : fs[d] # <<>>)
  BY <1>1, <1>2, <1>5, TrySendIs
<1>8. c \notin closed \cup clients
  BY <1>1 DEF Inductive, Registry
<1>9. NoPanic'
  <2>1. \A d \in closed : fs[d] = <<>>
    BY <1>2, <1>6, <1>8
  <2> QED BY <1>7, <2>1 DEF Inductive, NoPanic
<1>10. joined' \in [Conns -> Nat] /\ joined'[c] = Len(log) /\ \A d \in Conns \ {c} : joined'[d] = joined[d]
  BY <1>1, <1>2
<1>11. /\ reader' \in [Conns -> {"out", "register", "reading", "unregister", "joining", "returned"}]
       /\ reader'[c] = "reading" /\ \A d \in Conns \ {c} : reader'[d] = reader[d]
  BY <1>1, <1>2
<1>12. Types'
  <2>1. \A d \in Conns : send'[d] \in Seq(Frame \cup {Hello}) /\ Len(send'[d]) <= SendBuffer
    BY <1>7 DEF Sendable
  <2>2. panicked' \in BOOLEAN
    BY <1>7, Zenon
  <2>3. TypeOK'
    BY <1>1, <1>2, <1>7, <1>11, <2>1, <2>2 DEF Inductive, Types, TypeOK, Hello
  <2> QED BY <1>1, <1>7, <1>10, <2>3 DEF Inductive, Types, Sendable, Hello
<1>13. Registry'
  <2>1. /\ hubDone' => clients' = {}
        /\ closed' \cap clients' = {}
    BY <1>1, <1>8 DEF Inductive, Registry
  <2>2. \A d \in Conns : reader'[d] \in {"out", "register"} => d \notin closed' \cup clients'
    BY <1>1, <1>11 DEF Inductive, Registry
  <2>3. \A d \in Conns : reader'[d] = "out" => writer'[d] = "off"
    BY <1>1, <1>11 DEF Inductive, Registry
  <2>4. ASSUME NEW i \in 1 .. Len(unreg') PROVE reader'[unreg'[i]] \in {"joining", "returned"}
    <3>1. unreg' = unreg /\ unreg \in Seq(Conns)
      BY <1>1 DEF Inductive, Types, TypeOK
    <3>2. unreg'[i] \in Conns /\ reader[unreg'[i]] \in {"joining", "returned"}
      BY <3>1 DEF Inductive, Registry
    <3> QED BY <1>1, <1>11, <3>2
  <2> QED BY <2>1, <2>2, <2>3, <2>4 DEF Registry
<1>14. Handshake'
  BY <1>1, <1>11 DEF Inductive, Handshake
<1>15. History'
  <2>1. \A d \in Conns : joined'[d] <= Len(log')
    BY <1>1, <1>2, <1>10 DEF Inductive, History
  <2> QED BY <1>1, <2>1 DEF Inductive, History, LastOfTopic, Numbered
<1>16. ASSUME NEW d \in Conns, d # c PROVE send'[d] = send[d] /\ dropped'[d] = dropped[d]
  <2> DEFINE s == send[d]
             q == fs[d]
  <2>1. s \in Seq(Sendable) /\ dropped[d] \in Nat /\ q \in Seq(Frame) /\ q = <<>>
    BY <1>5, <1>6, <1>16 DEF Inductive, Types, TypeOK
  <2>2. PICK k \in 0 .. Len(q) :
            send'[d] = s \o SubSeq(q, 1, k) /\ dropped'[d] = dropped[d] + (Len(q) - k)
    BY <1>7
  <2> HIDE DEF s, q
  <2>3. s \o SubSeq(q, 1, k) = s /\ k = 0 /\ Len(q) = 0
    BY <2>1, Nothing
  <2> QED BY <2>1, <2>2, <2>3 DEF s
<1>17. Waiting'
  <2> SUFFICES ASSUME NEW d \in Conns, reader'[d] \in {"out", "register"}
               PROVE  d # c /\ reader'[d] = reader[d] /\ send'[d] = send[d] /\ dropped'[d] = dropped[d]
                      /\ taken'[d] = taken[d]
    BY DEF Inductive, Waiting, Hello
  <2>1. d # c
    BY <1>11
  <2> QED BY <1>1, <1>11, <1>16, <2>1
<1>18. JoinIsGapless'
  <2>1. \A d \in clients : Gapless(d, log, joined[d], taken[d] \o send[d], dropped[d])
    <3>1. DOMAIN log = 1 .. Len(log)
      BY <1>2
    <3> QED BY <3>1, GaplessIs DEF Inductive
  <2>2. ASSUME NEW d \in clients
        PROVE  Gapless(d, log', joined'[d], taken'[d] \o send'[d], dropped'[d])
    <3>1. d \in Conns /\ d # c
      BY <1>2, <1>8
    <3>2. /\ send'[d] = send[d] /\ dropped'[d] = dropped[d] /\ joined'[d] = joined[d]
          /\ taken' = taken /\ log' = log
      BY <1>1, <1>10, <1>16, <3>1
    <3> QED BY <2>1, <3>2, Zenon
  <2>3. Gapless(c, log', joined'[c], taken'[c] \o send'[c], dropped'[c])
    <3>1. taken[c] \o send[c] = <<Hello>> /\ dropped[c] = 0
      BY <1>1 DEF Inductive, Waiting
    <3>2. PICK k \in 0 .. Len(r) :
              send'[c] = send[c] \o SubSeq(r, 1, k) /\ dropped'[c] = dropped[c] + (Len(r) - k)
      BY <1>5, <1>7
    <3>3. dropped'[c] = Len(r) - k
      BY <1>4, <3>1, <3>2
    <3>4. taken[c] \o (send[c] \o SubSeq(r, 1, k)) = <<Hello>> \o SubSeq(r, 1, k)
      <4> DEFINE x == taken[c]
                 y == send[c]
                 z == SubSeq(r, 1, k)
      <4>1. x \in Seq(Sendable) /\ y \in Seq(Sendable)
        BY DEF Inductive, Types
      <4>2. z \in Seq(Frame)
        <5>1. 1 \in 1 .. Len(r) + 1 /\ k \in 1 - 1 .. Len(r)
          BY <1>4
        <5> QED BY <1>4, <5>1, CutIs
      <4>3. Frame \subseteq Sendable
        BY DEF Sendable
      <4> HIDE DEF x, y, z
      <4>4. z \in Seq(Sendable)
        BY <4>2, <4>3, SeqMonotonic
      <4>5. (x \o y) \o z = x \o (y \o z)
        BY <4>1, <4>4, ConcatAssociative
      <4> QED BY <3>1, <4>5, Zenon DEF x, y, z
    <3>5. taken'[c] \o send'[c] = <<Hello>> \o SubSeq(r, 1, k)
      BY <1>1, <3>2, <3>4, Zenon
    <3>6. Gapless(c, log, Len(log), <<Hello>> \o SubSeq(r, 1, k), Len(r) - k)
      BY <1>2, <1>3, GaplessJoin
    <3> QED BY <1>1, <1>10, <3>3, <3>5, <3>6, Zenon
  <2>4. DOMAIN log' = 1 .. Len(log') /\ clients' = clients \cup {c}
    BY <1>1, <1>2
  <2>5. \A d \in clients' : Gapless(d, log', joined'[d], taken'[d] \o send'[d], dropped'[d])
    BY <2>2, <2>3, <2>4
  <2> QED BY <2>4, <2>5, GaplessThen
<1> QED BY <1>9, <1>12, <1>13, <1>14, <1>15, <1>17, <1>18 DEF Inductive

\* Channels are closed, of clients that leave the registry or never were in it.
LEMMA CloseInductive ==
  ASSUME Inductive, NEW cs \in SUBSET Conns, Close(cs), cs \cap closed = {},
         clients' = clients \ cs, UNCHANGED <<log, retained, send>>
  PROVE  /\ NoPanic' /\ History' /\ JoinIsGapless'
         /\ panicked' \in BOOLEAN /\ closed' \subseteq Conns
         /\ dropped' \in [Conns -> Nat] /\ joined' \in [Conns -> Nat]
         /\ taken' \in [Conns -> Seq(Sendable)] /\ closed' = closed \cup cs
         /\ \A c \in Conns \ cs : taken'[c] = taken[c] /\ dropped'[c] = dropped[c]
<1>1. Types /\ clients \subseteq Conns
  BY DEF Inductive, Types, TypeOK
<1>2. /\ closed' = closed \cup cs /\ closed' \subseteq Conns
      /\ panicked' = (panicked \/ closed \cap cs # {}) /\ panicked' \in BOOLEAN
      /\ dropped' \in [Conns -> Nat] /\ joined' \in [Conns -> Nat]
      /\ taken' \in [Conns -> Seq(Sendable)]
      /\ \A c \in Conns \ cs : /\ dropped'[c] = dropped[c] /\ joined'[c] = joined[c]
                               /\ taken'[c] = taken[c]
      /\ \A c \in Conns : joined'[c] \in {0, joined[c]}
  BY <1>1, CloseIs
<1>3. NoPanic'
  BY <1>2 DEF Inductive, NoPanic
<1>4. History'
  BY <1>2, SameHistory
<1>5. JoinIsGapless'
  <2>1. \A c \in clients' : c \in Conns \ cs /\ send'[c] = send[c]
    BY <1>1
  <2>2. clients' \subseteq clients
    OBVIOUS
  <2>3. \A c \in clients' : /\ joined'[c] = joined[c] /\ dropped'[c] = dropped[c]
                            /\ taken'[c] \o send'[c] = taken[c] \o send[c]
    BY <1>2, <2>1, Zenon
  <2> QED BY <2>2, <2>3, SameGap
<1> QED BY <1>2, <1>3, <1>4, <1>5

\* The hub retires a client whose read pump has ended, if it still has it.
LEMMA UnregisterInductive ==
  ASSUME Inductive, Unregister PROVE Inductive'
<1> DEFINE c == Head(unreg)
<1>1. /\ unreg # <<>> /\ unreg' = Tail(unreg)
      /\ UNCHANGED <<retained, hubDone, log, send, ends, process>>
      /\ UNCHANGED <<reader, writer, open, peer, conns, main>>
  BY DEF Unregister, ends, process
<1>2. unreg \in Seq(Conns) /\ Len(unreg) \in Nat /\ Len(unreg) <= UnregDepth /\ Len(unreg) > 0
  BY <1>1 DEF Inductive, Types, TypeOK
<1>3. /\ unreg' \in Seq(Conns) /\ Len(unreg') = Len(unreg) - 1
      /\ \A i \in 1 .. Len(unreg') : i + 1 \in 1 .. Len(unreg) /\ unreg'[i] = unreg[i + 1]
  BY <1>1, <1>2, HeadTailProperties
<1>4. c \in Conns /\ reader[c] \in {"joining", "returned"}
  <2>1. 1 \in 1 .. Len(unreg) /\ c = unreg[1] /\ c \in Conns
    BY <1>1, <1>2
  <2> QED BY <2>1 DEF Inductive, Registry
<1>5. \A i \in 1 .. Len(unreg') : reader'[unreg'[i]] \in {"joining", "returned"}
  BY <1>1, <1>3 DEF Inductive, Registry
<1>6. Len(unreg') <= UnregDepth
  BY <1>2, <1>3, CapacitiesAre
<1>7. CASE c \in clients
  <2>1. clients' = clients \ {c} /\ Close({c}) /\ {c} \in SUBSET Conns
    BY <1>4, <1>7 DEF Unregister, Without
  <2>2. {c} \cap closed = {}
    BY <1>7 DEF Inductive, Registry
  <2> HIDE DEF c
  <2>3. /\ NoPanic' /\ History' /\ JoinIsGapless'
        /\ panicked' \in BOOLEAN /\ closed' \subseteq Conns
        /\ dropped' \in [Conns -> Nat] /\ joined' \in [Conns -> Nat]
        /\ taken' \in [Conns -> Seq(Sendable)] /\ closed' = closed \cup {c}
        /\ \A d \in Conns \ {c} : taken'[d] = taken[d] /\ dropped'[d] = dropped[d]
    BY <1>1, <2>1, <2>2, CloseInductive
  <2>4. Types'
    <3>1. TypeOK'
      BY <1>1, <1>3, <1>6, <2>1, <2>3 DEF Inductive, Types, TypeOK, Hello
    <3> QED BY <1>1, <2>3, <3>1 DEF Inductive, Types, Sendable, Hello
  <2>5. Registry'
    <3>1. \A d \in Conns : reader'[d] \in {"out", "register"} => d \notin closed' \cup clients'
      BY <1>1, <1>4, <2>1, <2>3 DEF Inductive, Registry
    <3> QED BY <1>1, <1>5, <2>1, <2>3, <3>1 DEF Inductive, Registry
  <2>6. Handshake'
    BY <1>1, <1>4, <2>3 DEF Inductive, Handshake
  <2>7. Waiting'
    <3> SUFFICES ASSUME NEW d \in Conns, reader[d] \in {"out", "register"}
                 PROVE  taken'[d] = taken[d] /\ dropped'[d] = dropped[d]
      BY <1>1 DEF Inductive, Waiting, Hello
    <3>1. d # c
      BY <1>4
    <3> QED BY <2>3, <3>1
  <2> QED BY <2>3, <2>4, <2>5, <2>6, <2>7 DEF Inductive
<1>8. CASE c \notin clients
  <2>1. UNCHANGED <<clients, closed, panicked, dropped, joined, taken>>
    BY <1>8 DEF Unregister
  <2> HIDE DEF c
  <2>2. Types'
    <3>1. TypeOK'
      BY <1>1, <1>3, <1>6, <2>1 DEF Inductive, Types, TypeOK, Hello
    <3> QED BY <1>1, <2>1, <3>1 DEF Inductive, Types, Sendable, Hello
  <2>3. Registry' /\ Handshake' /\ NoPanic' /\ Waiting'
    BY <1>1, <1>5, <2>1 DEF Inductive, Registry, Handshake, NoPanic, Waiting, Hello
  <2>4. History'
    BY <1>1, <2>1 DEF Inductive, History, Numbered, LastOfTopic
  <2>5. JoinIsGapless'
    BY <1>1, <2>1, Zenon, SameGap
  <2> QED BY <2>2, <2>3, <2>4, <2>5 DEF Inductive
<1> QED BY <1>7, <1>8

\* The hub goes down and retires everybody.
LEMMA ShutDownInductive ==
  ASSUME Inductive, ShutDown PROVE Inductive'
<1>1. /\ main # "serving" /\ Close(clients) /\ clients' = {} /\ hubDone' = TRUE
      /\ UNCHANGED <<unreg, retained, log, send, ends, process>>
      /\ UNCHANGED <<reader, writer, open, peer, conns, main>>
  BY DEF ShutDown, ends, process
<1>2. clients \in SUBSET Conns /\ clients \cap closed = {} /\ clients' = clients \ clients
  BY <1>1 DEF Inductive, Types, TypeOK, Registry
<1>3. /\ NoPanic' /\ History' /\ JoinIsGapless'
      /\ panicked' \in BOOLEAN /\ closed' \subseteq Conns
      /\ dropped' \in [Conns -> Nat] /\ joined' \in [Conns -> Nat]
      /\ taken' \in [Conns -> Seq(Sendable)] /\ closed' = closed \cup clients
      /\ \A c \in Conns \ clients : taken'[c] = taken[c] /\ dropped'[c] = dropped[c]
  BY <1>1, <1>2, CloseInductive
<1>4. Types'
  <2>1. TypeOK'
    BY <1>1, <1>3 DEF Inductive, Types, TypeOK, Hello
  <2> QED BY <1>1, <1>3, <2>1 DEF Inductive, Types, Sendable, Hello
<1>5. Registry'
  BY <1>1, <1>3 DEF Inductive, Registry
<1>6. Handshake'
  BY <1>1 DEF Handshake
<1>7. Waiting'
  <2>1. \A c \in Conns : reader[c] \in {"out", "register"} => c \notin clients
    BY DEF Inductive, Registry
  <2> QED BY <1>1, <1>3, <2>1 DEF Inductive, Waiting, Hello
<1> QED BY <1>3, <1>4, <1>5, <1>6, <1>7 DEF Inductive

\* The handler finds the hub gone and closes its channel itself.
LEMMA HubGoneInductive ==
  ASSUME Inductive, NEW c \in Conns, HubGone(c) PROVE Inductive'
<1>1. /\ hubDone /\ reader[c] = "register" /\ Close({c})
      /\ reader' = [reader EXCEPT ![c] = "joining"]
      /\ UNCHANGED <<unreg, clients, retained, hubDone, log, send, writer, open, peer, process>>
      /\ UNCHANGED <<conns, main>>
  BY DEF HubGone, ReaderTo, process
<1>2. /\ clients = {} /\ {c} \cap closed = {} /\ clients' = clients \ {c} /\ {c} \in SUBSET Conns
  BY <1>1 DEF Inductive, Registry
<1>3. /\ NoPanic' /\ History' /\ JoinIsGapless'
      /\ panicked' \in BOOLEAN /\ closed' \subseteq Conns
      /\ dropped' \in [Conns -> Nat] /\ joined' \in [Conns -> Nat]
      /\ taken' \in [Conns -> Seq(Sendable)] /\ closed' = closed \cup {c}
      /\ \A d \in Conns \ {c} : taken'[d] = taken[d] /\ dropped'[d] = dropped[d]
  BY <1>1, <1>2, CloseInductive
<1>4. /\ reader' \in [Conns -> {"out", "register", "reading", "unregister", "joining", "returned"}]
      /\ reader'[c] = "joining" /\ \A d \in Conns \ {c} : reader'[d] = reader[d]
  BY <1>1 DEF Inductive, Types, TypeOK
<1>5. Types'
  <2>1. TypeOK'
    BY <1>1, <1>3, <1>4 DEF Inductive, Types, TypeOK, Hello
  <2> QED BY <1>1, <1>3, <2>1 DEF Inductive, Types, Sendable, Hello
<1>6. Registry'
  <2>1. \A d \in Conns : reader'[d] \in {"out", "register"} => d \notin closed' \cup clients'
    BY <1>1, <1>3, <1>4 DEF Inductive, Registry
  <2>2. \A d \in Conns : reader'[d] = "out" => writer'[d] = "off"
    BY <1>1, <1>4 DEF Inductive, Registry
  <2>3. ASSUME NEW i \in 1 .. Len(unreg') PROVE reader'[unreg'[i]] \in {"joining", "returned"}
    <3>1. unreg' = unreg /\ unreg \in Seq(Conns)
      BY <1>1 DEF Inductive, Types, TypeOK
    <3>2. unreg'[i] \in Conns /\ reader[unreg'[i]] \in {"joining", "returned"}
      BY <3>1 DEF Inductive, Registry
    <3> QED BY <1>4, <3>2
  <2> QED BY <1>1, <1>2, <2>1, <2>2, <2>3 DEF Registry
<1>7. Handshake'
  BY <1>1, <1>3, <1>4 DEF Inductive, Handshake
<1>8. Waiting'
  <2> SUFFICES ASSUME NEW d \in Conns, reader'[d] \in {"out", "register"}
               PROVE  /\ reader'[d] = reader[d] /\ send'[d] = send[d]
                      /\ taken'[d] = taken[d] /\ dropped'[d] = dropped[d]
    BY DEF Inductive, Waiting, Hello
  <2>1. d # c
    BY <1>4
  <2> QED BY <1>1, <1>3, <1>4, <2>1
<1> QED BY <1>3, <1>5, <1>6, <1>7, <1>8 DEF Inductive

\* A connection is upgraded: hello is queued ahead of everything.
LEMMA ServeInductive ==
  ASSUME Inductive, NEW c \in Conns, Serve(c) PROVE Inductive'
<1>1. /\ reader[c] = "out"
      /\ conns' = conns \cup {c} /\ open' = open \cup {c}
      /\ reader' = [reader EXCEPT ![c] = "register"]
      /\ writer' = [writer EXCEPT ![c] = "select"]
      /\ send' = [send EXCEPT ![c] = <<Hello>>]
      /\ UNCHANGED <<closed, dropped, panicked, taken, peer, main>>
      /\ UNCHANGED <<unreg, clients, retained, hubDone, log, joined>>
  BY DEF Serve, ReaderTo, WriterTo, hub
<1>2. /\ reader' \in [Conns -> {"out", "register", "reading", "unregister", "joining", "returned"}]
      /\ reader'[c] = "register" /\ \A d \in Conns \ {c} : reader'[d] = reader[d]
      /\ writer' \in [Conns -> {"off", "select", "done"}]
      /\ \A d \in Conns \ {c} : writer'[d] = writer[d]
      /\ clients \subseteq Conns
  BY <1>1 DEF Inductive, Types, TypeOK
<1>3. <<Hello>> \in Seq(Sendable) /\ Len(<<Hello>>) = 1
  BY HelloIs
<1>4. /\ send' \in [Conns -> Seq(Sendable)] /\ send'[c] = <<Hello>>
      /\ \A d \in Conns \ {c} : send'[d] = send[d]
  BY <1>1, <1>3 DEF Inductive, Types
<1>5. c \notin closed /\ c \notin clients /\ taken[c] = <<>> /\ dropped[c] = 0
  BY <1>1 DEF Inductive, Registry, Waiting
<1>6. Types'
  <2>1. ASSUME NEW d \in Conns
        PROVE  send'[d] \in Seq(Frame \cup {Hello}) /\ Len(send'[d]) <= SendBuffer
    <3>1. CASE d = c
      <4>1. <<Hello>> \in Seq(Frame \cup {Hello}) /\ Len(<<Hello>>) <= SendBuffer
        BY <1>3, CapacitiesAre DEF Sendable
      <4> QED BY <1>4, <3>1, <4>1, Zenon
    <3>2. CASE d # c
      BY <1>4, <3>2 DEF Inductive, Types, TypeOK
    <3> QED BY <3>1, <3>2
  <2>2. TypeOK'
    BY <1>1, <1>2, <2>1 DEF Inductive, Types, TypeOK, Hello
  <2> QED BY <1>1, <1>4, <2>2 DEF Inductive, Types, Sendable, Hello
<1>7. Registry'
  <2>1. \A d \in Conns : reader'[d] \in {"out", "register"} => d \notin closed' \cup clients'
    BY <1>1, <1>2, <1>5 DEF Inductive, Registry
  <2>2. \A d \in Conns : reader'[d] = "out" => writer'[d] = "off"
    BY <1>1, <1>2 DEF Inductive, Registry
  <2>3. ASSUME NEW i \in 1 .. Len(unreg') PROVE reader'[unreg'[i]] \in {"joining", "returned"}
    <3>1. unreg' = unreg /\ unreg \in Seq(Conns)
      BY <1>1 DEF Inductive, Types, TypeOK
    <3>2. unreg'[i] \in Conns /\ reader[unreg'[i]] \in {"joining", "returned"}
      BY <3>1 DEF Inductive, Registry
    <3> QED BY <1>1, <1>2, <3>2
  <2> QED BY <1>1, <2>1, <2>2, <2>3 DEF Inductive, Registry
<1>8. Handshake'
  BY <1>1, <1>2 DEF Inductive, Handshake
<1>9. NoPanic' /\ History'
  BY <1>1 DEF Inductive, NoPanic, History, Numbered, LastOfTopic
<1>10. Waiting'
  <2>1. <<>> \o <<Hello>> = <<Hello>>
    BY <1>3
  <2>2. taken'[c] \o send'[c] = <<Hello>> /\ dropped'[c] = 0
    BY <1>1, <1>4, <1>5, <2>1, Zenon
  <2>3. ASSUME NEW d \in Conns, d # c
        PROVE  /\ reader'[d] = reader[d] /\ send'[d] = send[d]
               /\ taken'[d] = taken[d] /\ dropped'[d] = dropped[d]
    BY <1>1, <1>2, <1>4, <2>3
  <2> QED BY <1>2, <2>2, <2>3, Zenon DEF Inductive, Waiting, Hello
<1>11. JoinIsGapless'
  <2>1. \A d \in clients' : /\ joined'[d] = joined[d] /\ dropped'[d] = dropped[d]
                            /\ taken'[d] \o send'[d] = taken[d] \o send[d]
    <3>1. \A d \in clients' : d \in Conns \ {c}
      BY <1>1, <1>2, <1>5
    <3> QED BY <1>1, <1>4, <3>1, Zenon
  <2>2. clients' \subseteq clients
    BY <1>1
  <2> QED BY <1>1, <2>1, <2>2, SameGap
<1> QED BY <1>6, <1>7, <1>8, <1>9, <1>10, <1>11 DEF Inductive

\* The write pump takes a frame: it moves from what waits to what was sent.
LEMMA WriteInductive ==
  ASSUME Inductive, NEW c \in Conns, Write(c) PROVE Inductive'
<1> DEFINE s == send[c]
           t == taken[c]
<1>1. /\ writer[c] = "select" /\ s # <<>>
      /\ send' = [send EXCEPT ![c] = Tail(s)]
      /\ taken' = IF c \in closed THEN taken ELSE [taken EXCEPT ![c] = Append(t, Head(s))]
      /\ UNCHANGED <<writer, open>> \/ CloseConn(c)
      /\ UNCHANGED <<closed, dropped, panicked, reader, peer, process>>
      /\ UNCHANGED <<unreg, clients, retained, hubDone, log, joined, conns, main>>
  BY DEF Write, hub, process
<1>2. /\ writer' \in [Conns -> {"off", "select", "done"}] /\ open' \subseteq Conns
      /\ \A d \in Conns \ {c} : writer'[d] = writer[d]
  BY <1>1 DEF CloseConn, WriterTo, Inductive, Types, TypeOK
<1>3. s \in Seq(Sendable) /\ t \in Seq(Sendable) /\ Len(s) <= SendBuffer
  BY DEF Inductive, Types, TypeOK
<1>4. Append(t, Head(s)) \in Seq(Sendable) /\ Tail(s) \in Seq(Sendable) /\ Len(Tail(s)) <= SendBuffer
  <2> HIDE DEF s, t
  <2>1. /\ Head(s) \in Sendable /\ Tail(s) \in Seq(Sendable)
        /\ Len(Tail(s)) = Len(s) - 1 /\ Len(s) \in Nat
    BY <1>1, <1>3, HeadTailProperties
  <2> QED BY <1>3, <2>1, CapacitiesAre
<1>5. Append(t, Head(s)) \o Tail(s) = t \o s
  <2> DEFINE h == <<Head(s)>>
             u == Tail(s)
  <2>1. Head(s) \in Sendable
    <3> HIDE DEF s, t
    <3> QED BY <1>1, <1>3
  <2>2. h \in Seq(Sendable) /\ u \in Seq(Sendable)
    BY <1>4, <2>1
  <2>3. Append(t, Head(s)) = t \o h
    <3> HIDE DEF s, t
    <3> QED BY <1>3, <2>1, AppendIs
  <2>4. h \o u = s
    <3> HIDE DEF s, t
    <3> QED BY <1>1, <1>3
  <2> HIDE DEF s, t, h, u
  <2>5. (t \o h) \o u = t \o (h \o u)
    BY <1>3, <2>2, ConcatAssociative
  <2> QED BY <2>3, <2>4, <2>5, Zenon DEF u
<1>6. /\ send' \in [Conns -> Seq(Sendable)] /\ send'[c] = Tail(s)
      /\ \A d \in Conns \ {c} : send'[d] = send[d]
  BY <1>1, <1>4 DEF Inductive, Types
<1>7. /\ taken' \in [Conns -> Seq(Sendable)]
      /\ c \notin closed => taken'[c] = Append(t, Head(s))
      /\ \A d \in Conns \ {c} : taken'[d] = taken[d]
  BY <1>1, <1>4 DEF Inductive, Types
<1>8. c \notin closed => taken'[c] \o send'[c] = taken[c] \o send[c]
  BY <1>5, <1>6, <1>7, Zenon
<1>9. Types'
  <2>1. ASSUME NEW d \in Conns
        PROVE  send'[d] \in Seq(Frame \cup {Hello}) /\ Len(send'[d]) <= SendBuffer
    <3>1. CASE d = c
      BY <1>4, <1>6, <3>1 DEF Sendable
    <3>2. CASE d # c
      BY <1>6, <3>2 DEF Inductive, Types, TypeOK
    <3> QED BY <3>1, <3>2
  <2>2. TypeOK'
    BY <1>1, <1>2, <2>1 DEF Inductive, Types, TypeOK, Hello
  <2> QED BY <1>1, <1>6, <1>7, <2>2 DEF Inductive, Types, Sendable, Hello
<1>10. Registry' /\ Handshake' /\ NoPanic' /\ History'
  <2>1. reader[c] # "out"
    BY <1>1 DEF Inductive, Registry
  <2>2. \A d \in Conns : reader'[d] = "out" => writer'[d] = "off"
    BY <1>1, <1>2, <2>1 DEF Inductive, Registry
  <2>3. Registry'
    BY <1>1, <2>2 DEF Inductive, Registry
  <2> QED BY <1>1, <2>3 DEF Inductive, Handshake, NoPanic, History, Numbered, LastOfTopic
<1>11. Waiting'
  <2> SUFFICES ASSUME NEW d \in Conns, reader'[d] \in {"out", "register"}
               PROVE  /\ reader'[d] = reader[d] /\ dropped'[d] = dropped[d]
                      /\ reader'[d] = "out" => taken'[d] = taken[d]
                      /\ taken'[d] \o send'[d] = taken[d] \o send[d]
    BY Zenon DEF Inductive, Waiting, Hello
  <2>1. d \notin closed
    BY <1>1 DEF Inductive, Registry
  <2>2. CASE d = c
    <3>1. reader[c] # "out"
      BY <1>1 DEF Inductive, Registry
    <3> QED BY <1>1, <1>8, <2>1, <2>2, <3>1
  <2>3. CASE d # c
    BY <1>1, <1>6, <1>7, <2>3
  <2> QED BY <2>2, <2>3
<1>12. JoinIsGapless'
  <2>1. ASSUME NEW d \in clients'
        PROVE  taken'[d] \o send'[d] = taken[d] \o send[d]
    <3>1. d \in Conns /\ d \notin closed
      BY <1>1 DEF Inductive, Types, TypeOK, Registry
    <3>2. CASE d = c
      BY <1>8, <3>1, <3>2, Zenon
    <3>3. CASE d # c
      BY <1>6, <1>7, <3>1, <3>3
    <3> QED BY <3>2, <3>3
  <2>2. clients' \subseteq clients
    BY <1>1
  <2>3. \A d \in clients' : /\ joined'[d] = joined[d] /\ dropped'[d] = dropped[d]
                            /\ taken'[d] \o send'[d] = taken[d] \o send[d]
    BY <1>1, <2>1, Zenon
  <2> QED BY <1>1, <2>2, <2>3, SameGap
<1> QED BY <1>9, <1>10, <1>11, <1>12 DEF Inductive

\* Where everybody may be.
Whereabouts ==
    /\ reader \in [Conns -> {"out", "register", "reading", "unregister",
                             "joining", "returned"}]
    /\ writer \in [Conns -> {"off", "select", "done"}]
    /\ open \subseteq Conns /\ conns \subseteq Conns
    /\ peer \in [Conns -> {"live", "silent", "closing", "answered", "parted", "gone"}]
    /\ main \in {"serving", "cancelled", "waiting", "exited"}

\* A step that touches no channel and not the registry keeps it, as long as nobody
\* goes back and the handshake is kept.
LEMMA UnseenInductive ==
  ASSUME Inductive, Whereabouts',
         UNCHANGED <<clients, retained, hubDone, log, joined>>, UNCHANGED chans,
         unreg' \in Seq(Conns), Len(unreg') <= UnregDepth,
         \A i \in 1 .. Len(unreg') : reader'[unreg'[i]] \in {"joining", "returned"},
         \A c \in Conns : /\ reader'[c] \in {"out", "register"} => reader[c] = reader'[c]
                          /\ reader'[c] = "out" => writer'[c] = writer[c],
         Handshake'
  PROVE  Inductive'
<1>1. UNCHANGED <<send, closed, dropped, panicked, taken>>
  BY DEF chans
<1>2. Types'
  <2>1. TypeOK'
    BY <1>1 DEF Inductive, Types, TypeOK, Whereabouts, Hello
  <2> QED BY <1>1, <2>1 DEF Inductive, Types, Sendable, Hello
<1>3. Registry'
  <2>1. \A c \in Conns : reader'[c] \in {"out", "register"} => c \notin closed' \cup clients'
    BY <1>1, Zenon DEF Inductive, Registry
  <2>2. \A c \in Conns : reader'[c] = "out" => writer'[c] = "off"
    BY DEF Inductive, Registry
  <2> QED BY <1>1, <2>1, <2>2 DEF Inductive, Registry
<1>4. NoPanic' /\ History'
  BY <1>1 DEF Inductive, NoPanic, History, Numbered, LastOfTopic
<1>5. Waiting'
  <2>1. ASSUME NEW c \in Conns, reader'[c] = "out" PROVE taken[c] = <<>> /\ dropped[c] = 0
    BY <2>1, Zenon DEF Inductive, Waiting
  <2>2. ASSUME NEW c \in Conns, reader'[c] = "register"
        PROVE  taken[c] \o send[c] = <<Hello>> /\ dropped[c] = 0
    BY <2>2, Zenon DEF Inductive, Waiting
  <2>3. send' = send /\ taken' = taken /\ dropped' = dropped
    BY <1>1
  <2> QED BY <2>1, <2>2, <2>3, Zenon DEF Waiting, Hello
<1>6. JoinIsGapless'
  BY <1>1, Zenon, SameGap
<1> QED BY <1>2, <1>3, <1>4, <1>5, <1>6 DEF Inductive

\* Nor does a step of a connection that leaves the registrations as they are.
LEMMA MoveInductive ==
  ASSUME Inductive, Whereabouts', UNCHANGED hub, UNCHANGED chans,
         \A c \in Conns : /\ reader'[c] # reader[c] => reader'[c] \in {"unregister", "joining", "returned"}
                          /\ reader[c] \in {"joining", "returned"} =>
                                reader'[c] \in {"joining", "returned"}
                          /\ reader'[c] = "out" => writer'[c] = writer[c],
         Handshake'
  PROVE  Inductive'
<1>1. UNCHANGED <<unreg, clients, retained, hubDone, log, joined>>
  BY DEF hub
<1>2. unreg' \in Seq(Conns) /\ Len(unreg') <= UnregDepth
  BY <1>1 DEF Inductive, Types, TypeOK
<1>3. ASSUME NEW i \in 1 .. Len(unreg') PROVE reader'[unreg'[i]] \in {"joining", "returned"}
  <2>1. unreg'[i] \in Conns /\ reader[unreg'[i]] \in {"joining", "returned"}
    BY <1>1, <1>2 DEF Inductive, Registry
  <2> QED BY <2>1
<1>4. \A c \in Conns : /\ reader'[c] \in {"out", "register"} => reader[c] = reader'[c]
                       /\ reader'[c] = "out" => writer'[c] = writer[c]
  OBVIOUS
<1> QED BY <1>1, <1>2, <1>3, <1>4, UnseenInductive

\* The read pump has its last breath.
LEMMA ReportEndInductive ==
  ASSUME Inductive, NEW c \in Conns, ReportEnd(c) PROVE Inductive'
<1>1. /\ reader[c] = "unregister" /\ reader' = [reader EXCEPT ![c] = "joining"]
      /\ \/ Len(unreg) < UnregDepth /\ unreg' = Append(unreg, c)
         \/ UNCHANGED unreg
      /\ UNCHANGED <<clients, retained, hubDone, log, joined>> /\ UNCHANGED chans
      /\ UNCHANGED <<writer, open, peer, conns, main>>
  BY DEF ReportEnd, ReaderTo, process
<1>2. unreg \in Seq(Conns) /\ Len(unreg) \in Nat /\ Len(unreg) <= UnregDepth
  BY DEF Inductive, Types, TypeOK
<1>3. /\ reader' \in [Conns -> {"out", "register", "reading", "unregister", "joining", "returned"}]
      /\ reader'[c] = "joining" /\ \A d \in Conns \ {c} : reader'[d] = reader[d]
  BY <1>1 DEF Inductive, Types, TypeOK
<1>4. \A i \in 1 .. Len(unreg) : unreg[i] \in Conns /\ reader'[unreg[i]] \in {"joining", "returned"}
  BY <1>2, <1>3 DEF Inductive, Registry
<1>5. /\ unreg' \in Seq(Conns) /\ Len(unreg') <= UnregDepth
      /\ \A i \in 1 .. Len(unreg') : reader'[unreg'[i]] \in {"joining", "returned"}
  <2>1. CASE UNCHANGED unreg
    BY <1>2, <1>4, <2>1
  <2>2. CASE Len(unreg) < UnregDepth /\ unreg' = Append(unreg, c)
    <3>1. /\ unreg' \in Seq(Conns) /\ Len(unreg') = Len(unreg) + 1 /\ unreg'[Len(unreg) + 1] = c
          /\ \A i \in 1 .. Len(unreg) : unreg'[i] = unreg[i]
      BY <1>2, <2>2, AppendProperties
    <3>2. Len(unreg') <= UnregDepth
      BY <1>2, <2>2, <3>1, CapacitiesAre
    <3>3. \A i \in 1 .. Len(unreg') : i \in 1 .. Len(unreg) \/ i = Len(unreg) + 1
      BY <1>2, <3>1
    <3> QED BY <1>3, <1>4, <3>1, <3>2, <3>3
  <2> QED BY <1>1, <2>1, <2>2
<1>6. Whereabouts'
  BY <1>1, <1>3 DEF Whereabouts, Inductive, Types, TypeOK
<1>7. Handshake'
  BY <1>1, <1>3 DEF Inductive, Handshake, chans
<1>8. \A d \in Conns : /\ reader'[d] \in {"out", "register"} => reader[d] = reader'[d]
                       /\ reader'[d] = "out" => writer'[d] = writer[d]
  BY <1>1, <1>3
<1> QED BY <1>1, <1>5, <1>6, <1>7, <1>8, UnseenInductive

\* The read pump hears the close frame or loses the connection, and the handler returns.
LEMMA ReaderInductive ==
  ASSUME Inductive, NEW c \in Conns, ReadClose(c) \/ ReadFails(c) \/ Return(c) PROVE Inductive'
<1>1. /\ UNCHANGED hub /\ UNCHANGED chans /\ UNCHANGED closed /\ UNCHANGED <<writer, open, main>>
      /\ conns' \in {conns, conns \ {c}}
      /\ \/ reader[c] = "reading" /\ reader' = [reader EXCEPT ![c] = "unregister"]
         \/ reader[c] = "joining" /\ reader' = [reader EXCEPT ![c] = "returned"]
      /\ \E what \in {"answered", "gone", peer[c]} : peer' = [peer EXCEPT ![c] = what]
  <2>1. peer = [peer EXCEPT ![c] = peer[c]]
    BY DEF Inductive, Types, TypeOK
  <2>2. CASE ReadClose(c)
    BY <2>2 DEF ReadClose, ReaderTo, chans, process
  <2>3. CASE ReadFails(c)
    BY <2>1, <2>3 DEF ReadFails, ReaderTo, chans, process
  <2>4. CASE Return(c)
    BY <2>4 DEF Return, ReaderTo, chans
  <2> QED BY <2>2, <2>3, <2>4
<1>2. /\ reader' \in [Conns -> {"out", "register", "reading", "unregister", "joining", "returned"}]
      /\ \/ reader[c] = "reading" /\ reader'[c] = "unregister"
         \/ reader[c] = "joining" /\ reader'[c] = "returned"
      /\ \A d \in Conns \ {c} : reader'[d] = reader[d]
      /\ peer' \in [Conns -> {"live", "silent", "closing", "answered", "parted", "gone"}]
      /\ \A d \in Conns \ {c} : peer'[d] = peer[d]
  <2>1. /\ reader \in [Conns -> {"out", "register", "reading", "unregister", "joining", "returned"}]
        /\ peer \in [Conns -> {"live", "silent", "closing", "answered", "parted", "gone"}]
    BY DEF Inductive, Types, TypeOK
  <2>2. PICK what \in {"answered", "gone", peer[c]} : peer' = [peer EXCEPT ![c] = what]
    BY <1>1
  <2>3. /\ peer' \in [Conns -> {"live", "silent", "closing", "answered", "parted", "gone"}]
        /\ \A d \in Conns \ {c} : peer'[d] = peer[d]
    BY <2>1, <2>2
  <2> QED BY <1>1, <2>1, <2>3
<1>3. Whereabouts'
  BY <1>1, <1>2 DEF Whereabouts, Inductive, Types, TypeOK
<1>4. Handshake'
  BY <1>1, <1>2 DEF Inductive, Handshake
<1>5. \A d \in Conns : /\ reader'[d] # reader[d] => reader'[d] \in {"unregister", "joining", "returned"}
                       /\ reader[d] \in {"joining", "returned"} =>
                             reader'[d] \in {"joining", "returned"}
                       /\ reader'[d] = "out" => writer'[d] = writer[d]
  BY <1>1, <1>2
<1> QED BY <1>1, <1>3, <1>4, <1>5, MoveInductive

\* The write pump ends.
LEMMA WriterInductive ==
  ASSUME Inductive, NEW c \in Conns, PingFails(c) \/ WriteClose(c) PROVE Inductive'
<1>1. /\ UNCHANGED hub /\ UNCHANGED chans /\ UNCHANGED closed /\ UNCHANGED <<reader, conns, main>>
      /\ writer[c] = "select" /\ writer' = [writer EXCEPT ![c] = "done"] /\ open' = open \ {c}
      /\ \/ peer' = peer
         \/ c \in closed /\ peer' = [peer EXCEPT ![c] = "answered"]
  <2>1. CASE PingFails(c)
    BY <2>1 DEF PingFails, CloseConn, WriterTo, chans, process
  <2>2. CASE WriteClose(c)
    BY <2>2 DEF WriteClose, CloseConn, WriterTo, chans, process
  <2> QED BY <2>1, <2>2
<1>2. /\ writer' \in [Conns -> {"off", "select", "done"}]
      /\ \A d \in Conns \ {c} : writer'[d] = writer[d]
      /\ peer' \in [Conns -> {"live", "silent", "closing", "answered", "parted", "gone"}]
      /\ \A d \in Conns : peer'[d] = peer[d] \/ d \in closed
  BY <1>1 DEF Inductive, Types, TypeOK
<1>3. Whereabouts'
  BY <1>1, <1>2 DEF Whereabouts, Inductive, Types, TypeOK
<1>4. Handshake'
  BY <1>1, <1>2 DEF Inductive, Handshake
<1>5. \A d \in Conns : /\ reader'[d] # reader[d] => reader'[d] \in {"unregister", "joining", "returned"}
                       /\ reader[d] \in {"joining", "returned"} =>
                             reader'[d] \in {"joining", "returned"}
                       /\ reader'[d] = "out" => writer'[d] = writer[d]
  <2>1. reader[c] # "out"
    BY <1>1 DEF Inductive, Registry
  <2> QED BY <1>1, <1>2, <2>1
<1> QED BY <1>1, <1>3, <1>4, <1>5, MoveInductive

\* The peer falls silent, sends its close frame, hangs up or loses patience.
LEMMA PeerInductive ==
  ASSUME Inductive, NEW c \in Conns, Peer(c) PROVE Inductive'
<1>1. /\ UNCHANGED hub /\ UNCHANGED chans /\ UNCHANGED closed
      /\ UNCHANGED <<reader, writer, open, conns, main>>
      /\ \E what \in {"silent", "closing", "parted", "gone"} :
             /\ peer' = [peer EXCEPT ![c] = what]
             /\ what = "parted" => peer[c] = "answered"
  BY DEF Peer, FallSilent, SendClose, HangUp, GraceOver, Answered, PeerTo, chans, process
<1>2. /\ peer' \in [Conns -> {"live", "silent", "closing", "answered", "parted", "gone"}]
      /\ \A d \in Conns : peer'[d] \in {"answered", "parted"} => peer[d] \in {"answered", "parted"}
  BY <1>1 DEF Inductive, Types, TypeOK
<1>3. Whereabouts'
  BY <1>1, <1>2 DEF Whereabouts, Inductive, Types, TypeOK
<1>4. Handshake'
  BY <1>1, <1>2 DEF Inductive, Handshake
<1>5. \A d \in Conns : reader'[d] = reader[d] /\ writer'[d] = writer[d]
  BY <1>1
<1> QED BY <1>1, <1>3, <1>4, <1>5, MoveInductive

\* main goes on, or nothing happens.
LEMMA MainInductive ==
  ASSUME Inductive,
         Interrupt \/ StopListening \/ ConnsDrained \/ BudgetSpent \/ UNCHANGED vars
  PROVE  Inductive'
<1>1. /\ UNCHANGED hub /\ UNCHANGED chans /\ UNCHANGED closed
      /\ UNCHANGED <<reader, writer, open, peer, conns>>
      /\ main' \in {"cancelled", "waiting", "exited", main} /\ (main' = "serving" => main = "serving")
  BY DEF Interrupt, StopListening, ConnsDrained, BudgetSpent, MainTo, vars, ends, process, chans
<1>2. Whereabouts'
  BY <1>1 DEF Whereabouts, Inductive, Types, TypeOK
<1>3. Handshake'
  BY <1>1 DEF Inductive, Handshake
<1>4. \A d \in Conns : reader'[d] = reader[d] /\ writer'[d] = writer[d]
  BY <1>1
<1> QED BY <1>1, <1>2, <1>3, <1>4, MoveInductive

\* Every step of the fan-out keeps the invariant.
LEMMA NextInductive == Inductive /\ [Next]_vars => Inductive'
<1> SUFFICES ASSUME Inductive, [Next]_vars PROVE Inductive'
  OBVIOUS
<1>1. ASSUME NEW t \in Topics, Deliver(t) PROVE Inductive'
  BY <1>1, DeliverInductive
<1>2. CASE Unregister
  BY <1>2, UnregisterInductive
<1>3. CASE ShutDown
  BY <1>3, ShutDownInductive
<1>4. ASSUME NEW c \in Conns, Serve(c) PROVE Inductive'
  BY <1>4, ServeInductive
<1>5. ASSUME NEW c \in Conns, Handler(c) PROVE Inductive'
  <2>1. CASE Register(c)
    BY <2>1, RegisterInductive
  <2>2. CASE HubGone(c)
    BY <2>2, HubGoneInductive
  <2>3. CASE ReportEnd(c)
    BY <2>3, ReportEndInductive
  <2>4. CASE ReadClose(c) \/ ReadFails(c) \/ Return(c)
    BY <2>4, ReaderInductive
  <2> QED BY <1>5, <2>1, <2>2, <2>3, <2>4 DEF Handler
<1>6. ASSUME NEW c \in Conns, WritePump(c) PROVE Inductive'
  <2>1. CASE Write(c)
    BY <2>1, WriteInductive
  <2>2. CASE PingFails(c) \/ WriteClose(c)
    BY <2>2, WriterInductive
  <2> QED BY <1>6, <2>1, <2>2 DEF WritePump
<1>7. ASSUME NEW c \in Conns, Peer(c) PROVE Inductive'
  BY <1>7, PeerInductive
<1>8. CASE Interrupt \/ StopListening \/ ConnsDrained \/ BudgetSpent \/ UNCHANGED vars
  BY <1>8, MainInductive
<1> QED BY <1>1, <1>2, <1>3, <1>4, <1>5, <1>6, <1>7, <1>8 DEF Next

-----------------------------------------------------------------------------
(* Theorems *)

\* The invariant of the fan-out holds throughout every run of the server.
THEOREM InductiveHolds == Spec => []Inductive
<1>1. Init => Inductive
  BY InitInductive
<1>2. Inductive /\ [Next]_vars => Inductive'
  BY NextInductive
<1> QED BY <1>1, <1>2, PTL DEF Spec

\* Every variable has its type: no channel ever holds more than its capacity.
THEOREM TypeCorrect == Spec => []TypeOK
<1>1. Inductive => TypeOK
  BY DEF Inductive, Types
<1> QED BY <1>1, InductiveHolds, PTL

\* A client that joins gets hello, the last frame of each of its topics and every
\* frame from then on, in order, short of exactly those that were counted as dropped.
THEOREM JoinsAreGapless == Spec => []JoinIsGapless
<1>1. Inductive => JoinIsGapless
  BY DEF Inductive
<1> QED BY <1>1, InductiveHolds, PTL

\* No channel is closed twice and nobody sends on a closed one, however the end of a
\* connection, the shutdown and a late registration fall together.
THEOREM NobodyPanics == Spec => []NoPanic
<1>1. Inductive => NoPanic
  BY DEF Inductive
<1> QED BY <1>1, InductiveHolds, PTL

\* A peer that closes politely is never found gone by a server that had not read its
\* close frame, unless the server was going away.
THEOREM PoliteCloseIsRead == Spec => []CleanClose
<1>1. Inductive => CleanClose
  BY DEF Inductive, Handshake, CleanClose
<1> QED BY <1>1, InductiveHolds, PTL
=============================================================================
