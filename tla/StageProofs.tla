----------------------------- MODULE StageProofs -----------------------------
(***************************************************************************)
(* Theorems about the demonstration end to end, for any capacities of its  *)
(* queues, any number of commands and of lives of the server, and whatever *)
(* socket may break: no book overtakes another between the engine and the  *)
(* screen, and each pane is a mirror that only moves forward.              *)
(***************************************************************************)
EXTENDS Stage, QueueProofs

-----------------------------------------------------------------------------
(* Queues of frames, seen by one pane *)

\* The books of p in a queue only rise.
Rising(q, p) ==
    \A i, j \in 1 .. Len(q) :
        i < j /\ q[i].topic = p /\ q[j].topic = p => q[i].seq <= q[j].seq

\* No book of p in s is newer than one in t.
Ahead(s, t, p) ==
    \A f \in Range(s), g \in Range(t) : f.topic = p /\ g.topic = p => f.seq <= g.seq

\* The books of p in q are between the one on screen and the last good one.
Within(q, p, a, b) == \A f \in Range(q) : f.topic = p => f.seq \in a .. b

\* What is in a queue, place by place.
LEMMA RangeIs ==
  ASSUME NEW S, NEW q \in Seq(S)
  PROVE  /\ \A i \in 1 .. Len(q) : q[i] \in Range(q)
         /\ \A f \in Range(q) : f \in S /\ \E i \in 1 .. Len(q) : f = q[i]
<1>1. DOMAIN q = 1 .. Len(q) /\ \A i \in 1 .. Len(q) : q[i] \in S
  OBVIOUS
<1> QED BY <1>1, Zenon DEF Range

\* An empty queue.
LEMMA RangeOfNothing == Range(<<>>) = {}
<1>1. DOMAIN <<>> = {}
  OBVIOUS
<1> QED BY <1>1, Zenon DEF Range

\* A queue of one.
LEMMA RangeOfOne ==
  ASSUME NEW S, NEW f \in S
  PROVE  <<f>> \in Seq(S) /\ Range(<<f>>) = {f} /\ Len(<<f>>) = 1
<1>1. <<f>> \in Seq(S) /\ Len(<<f>>) = 1 /\ <<f>>[1] = f /\ DOMAIN <<f>> = {1}
  OBVIOUS
<1> QED BY <1>1, Zenon DEF Range

\* Two queues end to end.
LEMMA RangeOfConcat ==
  ASSUME NEW S, NEW s \in Seq(S), NEW t \in Seq(S)
  PROVE  s \o t \in Seq(S) /\ Range(s \o t) = Range(s) \cup Range(t)
<1>1. /\ s \o t \in Seq(S) /\ Len(s \o t) = Len(s) + Len(t)
      /\ Len(s) \in Nat /\ Len(t) \in Nat
      /\ \A i \in 1 .. Len(s) : (s \o t)[i] = s[i]
      /\ \A i \in 1 .. Len(t) : (s \o t)[Len(s) + i] = t[i]
      /\ \A i \in 1 .. Len(s \o t) : i \in 1 .. Len(s) \/ \E k \in 1 .. Len(t) : i = Len(s) + k
  BY ConcatIs
<1> DEFINE u == s \o t
<1>2. /\ u \in Seq(S) /\ Len(u) = Len(s) + Len(t)
      /\ \A i \in 1 .. Len(s) : u[i] = s[i]
      /\ \A i \in 1 .. Len(t) : u[Len(s) + i] = t[i]
      /\ \A i \in 1 .. Len(u) : i \in 1 .. Len(s) \/ \E k \in 1 .. Len(t) : i = Len(s) + k
  BY <1>1
<1> HIDE DEF u
<1>3. /\ \A i \in 1 .. Len(u) : u[i] \in Range(u)
      /\ \A f \in Range(u) : \E i \in 1 .. Len(u) : f = u[i]
  BY <1>2, RangeIs
<1>4. /\ \A i \in 1 .. Len(s) : s[i] \in Range(s)
      /\ \A f \in Range(s) : \E i \in 1 .. Len(s) : f = s[i]
  BY RangeIs
<1>5. /\ \A i \in 1 .. Len(t) : t[i] \in Range(t)
      /\ \A f \in Range(t) : \E i \in 1 .. Len(t) : f = t[i]
  BY RangeIs
<1>7. ASSUME NEW f \in Range(u) PROVE f \in Range(s) \cup Range(t)
  <2>1. PICK i \in 1 .. Len(u) : f = u[i]
    BY <1>3
  <2>2. CASE i \in 1 .. Len(s)
    BY <1>2, <1>4, <2>1, <2>2
  <2>3. ASSUME NEW k \in 1 .. Len(t), i = Len(s) + k PROVE f \in Range(t)
    BY <1>2, <1>5, <2>1, <2>3
  <2> QED BY <1>2, <2>2, <2>3
<1>8. ASSUME NEW f \in Range(s) PROVE f \in Range(u)
  <2>1. PICK i \in 1 .. Len(s) : f = s[i]
    BY <1>4
  <2>2. i \in 1 .. Len(u)
    BY <1>1, <1>2
  <2> QED BY <1>2, <1>3, <2>1, <2>2
<1>9. ASSUME NEW f \in Range(t) PROVE f \in Range(u)
  <2>1. PICK i \in 1 .. Len(t) : f = t[i]
    BY <1>5
  <2>2. Len(s) + i \in 1 .. Len(u)
    BY <1>1, <1>2
  <2> QED BY <1>2, <1>3, <2>1, <2>2
<1>10. Range(u) = Range(s) \cup Range(t)
  BY <1>7, <1>8, <1>9
<1> QED BY <1>2, <1>10 DEF u

\* Two rising queues, the first ahead of the second, are one rising queue.
LEMMA RisingConcat ==
  ASSUME NEW s \in Seq(Frame), NEW t \in Seq(Frame), NEW p,
         Rising(s, p), Rising(t, p), Ahead(s, t, p)
  PROVE  Rising(s \o t, p)
<1> DEFINE u == s \o t
<1>1. /\ Len(s) \in Nat /\ Len(t) \in Nat
      /\ \A i \in 1 .. Len(s) : u[i] = s[i]
      /\ \A i \in 1 .. Len(t) : u[Len(s) + i] = t[i]
      /\ \A i \in 1 .. Len(u) : i \in 1 .. Len(s) \/ \E k \in 1 .. Len(t) : i = Len(s) + k
  BY ConcatIs
<1> HIDE DEF u
<1>2. \A i \in 1 .. Len(s) : s[i] \in Range(s)
  BY RangeIs
<1>3. \A i \in 1 .. Len(t) : t[i] \in Range(t)
  BY RangeIs
<1>4. ASSUME NEW i \in 1 .. Len(u), NEW j \in 1 .. Len(u), i < j, u[i].topic = p, u[j].topic = p
      PROVE  u[i].seq <= u[j].seq
  <2>1. CASE i \in 1 .. Len(s) /\ j \in 1 .. Len(s)
    BY <1>1, <1>4, <2>1 DEF Rising
  <2>2. ASSUME i \in 1 .. Len(s), NEW k \in 1 .. Len(t), j = Len(s) + k
        PROVE  u[i].seq <= u[j].seq
    <3>1. u[i] = s[i] /\ u[j] = t[k] /\ s[i] \in Range(s) /\ t[k] \in Range(t)
      BY <1>1, <1>2, <1>3, <2>2
    <3> QED BY <1>4, <3>1 DEF Ahead
  <2>3. ASSUME NEW k \in 1 .. Len(t), NEW l \in 1 .. Len(t), i = Len(s) + k, j = Len(s) + l
        PROVE  u[i].seq <= u[j].seq
    <3>1. u[i] = t[k] /\ u[j] = t[l] /\ k < l
      BY <1>1, <1>4, <2>3
    <3> QED BY <1>4, <3>1 DEF Rising
  <2>4. ASSUME NEW k \in 1 .. Len(t), i = Len(s) + k, j \in 1 .. Len(s) PROVE FALSE
    BY <1>1, <1>4, <2>4
  <2> QED BY <1>1, <2>1, <2>2, <2>3, <2>4
<1>5. Rising(u, p)
  BY <1>4 DEF Rising
<1> QED BY <1>5 DEF u

\* A queue of one frame cannot be out of order.
LEMMA RisingOne ==
  ASSUME NEW q \in Seq(Frame), Len(q) <= 1, NEW p
  PROVE  Rising(q, p)
BY DEF Rising

\* No frame is of no topic.
LEMMA RisingOfNone ==
  ASSUME NEW q \in Seq(Frame)
  PROVE  Rising(q, "none")
<1>1. \A f \in Frame : f.topic # "none"
  BY DEF Frame, Topics, Panes
<1>2. \A i \in 1 .. Len(q) : q[i] \in Frame
  OBVIOUS
<1> QED BY <1>1, <1>2 DEF Rising

\* The head leaves: it was ahead of the rest.
LEMMA RisingTail ==
  ASSUME NEW q \in Seq(Frame), q # <<>>, NEW p, Rising(q, p)
  PROVE  /\ Head(q) \in Range(q) /\ Head(q) \in Frame
         /\ Tail(q) \in Seq(Frame) /\ Len(Tail(q)) = Len(q) - 1
         /\ Range(Tail(q)) \subseteq Range(q) /\ Rising(Tail(q), p)
         /\ \A g \in Range(Tail(q)) : Head(q).topic = p /\ g.topic = p => Head(q).seq <= g.seq
<1> DEFINE u == Tail(q)
<1>1. /\ Len(q) \in Nat /\ Len(q) > 0 /\ Head(q) = q[1] /\ Head(q) \in Frame
      /\ u \in Seq(Frame) /\ Len(u) = Len(q) - 1
      /\ \A i \in 1 .. Len(u) : i + 1 \in 1 .. Len(q) /\ u[i] = q[i + 1]
  BY HeadTailProperties
<1>2. \A i \in 1 .. Len(q) : q[i] \in Range(q)
  BY RangeIs
<1> HIDE DEF u
<1>3. \A f \in Range(u) : \E i \in 1 .. Len(u) : f = u[i]
  BY <1>1, RangeIs
<1>4. 1 \in 1 .. Len(q)
  BY <1>1
<1>5. Range(u) \subseteq Range(q)
  BY <1>1, <1>2, <1>3
<1>6. Rising(u, p)
  <2> SUFFICES ASSUME NEW i \in 1 .. Len(u), NEW j \in 1 .. Len(u), i < j,
                      u[i].topic = p, u[j].topic = p
               PROVE  u[i].seq <= u[j].seq
    BY DEF Rising
  <2>1. /\ i + 1 \in 1 .. Len(q) /\ j + 1 \in 1 .. Len(q) /\ i + 1 < j + 1
        /\ u[i] = q[i + 1] /\ u[j] = q[j + 1]
    BY <1>1
  <2> QED BY <2>1 DEF Rising
<1>7. ASSUME NEW g \in Range(u), q[1].topic = p, g.topic = p PROVE q[1].seq <= g.seq
  <2>1. PICK i \in 1 .. Len(u) : g = u[i]
    BY <1>3
  <2>2. i + 1 \in 1 .. Len(q) /\ 1 < i + 1 /\ g = q[i + 1]
    BY <1>1, <2>1
  <2> QED BY <1>4, <1>7, <2>2 DEF Rising
<1> QED BY <1>1, <1>2, <1>4, <1>5, <1>6, <1>7 DEF u

\* One in the middle is lost.
LEMMA RisingWithout ==
  ASSUME NEW q \in Seq(Frame), NEW k \in 1 .. Len(q), NEW p, Rising(q, p)
  PROVE  LET u == RemoveAt(q, k)
         IN  /\ u \in Seq(Frame) /\ Len(u) <= Len(q)
             /\ Range(u) \subseteq Range(q) /\ Rising(u, p)
<1> DEFINE a == SubSeq(q, 1, k - 1)
           b == SubSeq(q, k + 1, Len(q))
           u == a \o b
<1>1. Len(q) \in Nat /\ k \in Nat /\ 1 <= k /\ k <= Len(q)
  OBVIOUS
<1>2. RemoveAt(q, k) = u
  BY DEF RemoveAt
<1>3. /\ a \in Seq(Frame) /\ Len(a) = k - 1
      /\ \A i \in 1 .. k - 1 : i \in 1 .. Len(q) /\ a[i] = q[i]
  <2>1. 1 \in 1 .. Len(q) + 1 /\ k - 1 \in 1 - 1 .. Len(q)
    BY <1>1
  <2>2. /\ a \in Seq(Frame) /\ Len(a) = k - 1 - 1 + 1
        /\ \A i \in 1 .. k - 1 - 1 + 1 : 1 + i - 1 \in 1 .. Len(q) /\ a[i] = q[1 + i - 1]
    BY <2>1, CutIs
  <2> QED BY <1>1, <2>2
<1>4. /\ b \in Seq(Frame) /\ Len(b) = Len(q) - k
      /\ \A i \in 1 .. Len(q) - k : k + i \in 1 .. Len(q) /\ b[i] = q[k + i]
  <2>1. k + 1 \in 1 .. Len(q) + 1 /\ Len(q) \in k + 1 - 1 .. Len(q)
    BY <1>1
  <2>2. /\ b \in Seq(Frame) /\ Len(b) = Len(q) - (k + 1) + 1
        /\ \A i \in 1 .. Len(q) - (k + 1) + 1 :
              k + 1 + i - 1 \in 1 .. Len(q) /\ b[i] = q[k + 1 + i - 1]
    BY <2>1, CutIs
  <2>3. Len(q) - (k + 1) + 1 = Len(q) - k /\ \A i \in 1 .. Len(q) - k : k + 1 + i - 1 = k + i
    BY <1>1
  <2> QED BY <2>2, <2>3
<1> HIDE DEF a, b
<1>5. \A i \in 1 .. Len(q) : q[i] \in Range(q)
  BY RangeIs
<1>6. \A f \in Range(a) : \E i \in 1 .. Len(a) : f = a[i]
  BY <1>3, RangeIs
<1>7. \A f \in Range(b) : \E i \in 1 .. Len(b) : f = b[i]
  BY <1>4, RangeIs
<1>8. u \in Seq(Frame) /\ Range(u) = Range(a) \cup Range(b)
  BY <1>3, <1>4, RangeOfConcat
<1>9. Range(u) \subseteq Range(q)
  <2>1. \A f \in Range(a) : f \in Range(q)
    BY <1>3, <1>5, <1>6
  <2>2. \A f \in Range(b) : f \in Range(q)
    BY <1>4, <1>5, <1>7
  <2> QED BY <1>8, <2>1, <2>2
<1>10. Len(u) <= Len(q)
  <2>1. Len(u) = Len(a) + Len(b)
    BY <1>3, <1>4, ConcatIs
  <2> QED BY <1>1, <1>3, <1>4, <2>1
<1>11. Rising(a, p)
  BY <1>3 DEF Rising
<1>12. Rising(b, p)
  <2> SUFFICES ASSUME NEW i \in 1 .. Len(b), NEW j \in 1 .. Len(b), i < j,
                      b[i].topic = p, b[j].topic = p
               PROVE  b[i].seq <= b[j].seq
    BY DEF Rising
  <2>1. /\ k + i \in 1 .. Len(q) /\ k + j \in 1 .. Len(q) /\ k + i < k + j
        /\ b[i] = q[k + i] /\ b[j] = q[k + j]
    BY <1>1, <1>4
  <2> QED BY <2>1 DEF Rising
<1>13. Ahead(a, b, p)
  <2> SUFFICES ASSUME NEW f \in Range(a), NEW g \in Range(b), f.topic = p, g.topic = p
               PROVE  f.seq <= g.seq
    BY DEF Ahead
  <2>1. PICK i \in 1 .. Len(a) : f = a[i]
    BY <1>6
  <2>2. PICK j \in 1 .. Len(b) : g = b[j]
    BY <1>7
  <2>3. /\ i \in 1 .. Len(q) /\ k + j \in 1 .. Len(q) /\ i < k + j
        /\ f = q[i] /\ g = q[k + j]
    BY <1>1, <1>3, <1>4, <2>1, <2>2
  <2> QED BY <2>3 DEF Rising
<1>14. Rising(u, p)
  BY <1>3, <1>4, <1>11, <1>12, <1>13, RisingConcat
<1> QED BY <1>2, <1>8, <1>9, <1>10, <1>14

\* A send that gives up at once leaves the channel as it was, or with one more.
LEMMA OfferedIs ==
  ASSUME NEW q \in Seq(Frame), NEW cap \in Nat, Len(q) <= cap, NEW f \in Frame
  PROVE  LET u == Offered(q, cap, <<f>>)
         IN  /\ u \in Seq(Frame) /\ Len(u) <= cap
             /\ u = q \/ u = q \o <<f>>
<1> DEFINE h == <<f>>
           room == cap - Len(q)
           k == Min({room, Len(h)})
<1>1. h \in Seq(Frame) /\ Len(h) = 1 /\ Len(q) \in Nat /\ room \in Nat
  OBVIOUS
<1> HIDE DEF room, h
<1>2. k \in {0, 1} /\ k <= room
  <2>1. \E x \in {room, Len(h)} : \A y \in {room, Len(h)} : x <= y
    <3>1. CASE room <= Len(h)
      BY <1>1, <3>1
    <3>2. CASE Len(h) <= room
      BY <1>1, <3>2
    <3> QED BY <1>1, <3>1, <3>2
  <2>2. k \in {room, Len(h)} /\ \A y \in {room, Len(h)} : k <= y
    BY <2>1, Zenon DEF Min
  <2> QED BY <1>1, <2>2
<1> HIDE DEF k
<1>3. Offered(q, cap, h) = q \o SubSeq(h, 1, k)
  BY Zenon DEF Offered, k, room
<1>4. CASE k = 0
  <2>1. SubSeq(h, 1, 0) = <<>> /\ q \o <<>> = q
    BY <1>1
  <2> QED BY <1>3, <1>4, <2>1 DEF h
<1>5. CASE k = 1
  <2>1. SubSeq(h, 1, Len(h)) = h
    BY <1>1, SubSeqFull
  <2>2. Offered(q, cap, h) = q \o h
    BY <1>1, <1>3, <1>5, <2>1, Zenon
  <2>3. q \o h \in Seq(Frame) /\ Len(q \o h) = Len(q) + Len(h)
    BY <1>1, ConcatIs
  <2>4. Len(q) + 1 <= cap
    BY <1>1, <1>2, <1>5 DEF room
  <2> QED BY <1>1, <2>2, <2>3, <2>4 DEF h
<1> QED BY <1>2, <1>4, <1>5

-----------------------------------------------------------------------------
(* The way of the books of one pane: its socket s, what is retained of it r, the  *)
(* hub's channel u, the chaos line l.  On screen is book a, the last good one is b. *)

Ordered(p, s, r, u, l, a, b) ==
    /\ Rising(s, p) /\ Rising(u, p) /\ Rising(l, p)
    /\ Ahead(s, r, p) /\ Ahead(s, u, p) /\ Ahead(s, l, p)
    /\ Ahead(r, u, p) /\ Ahead(r, l, p) /\ Ahead(u, l, p)
    /\ Within(s, p, a, b) /\ Within(r, p, a, b) /\ Within(u, p, a, b) /\ Within(l, p, a, b)

Way(s, r, u, l) ==
    /\ s \in Seq(Frame) /\ r \in Seq(Frame) /\ u \in Seq(Frame) /\ l \in Seq(Frame)
    /\ Len(r) <= 1

\* Frames have a seq.
LEMMA SeqsAre ==
  ASSUME NEW q \in Seq(Frame)
  PROVE  \A f \in Range(q) : f \in Frame /\ f.seq \in Nat
<1>1. \A f \in Frame : f.seq \in Nat
  BY DEF Frame
<1> QED BY <1>1, RangeIs

\* The engine goes on, and nothing is sent that this pane would show.
LEMMA WayWaits ==
  ASSUME NEW p, NEW s, NEW r, NEW u, NEW l, NEW a \in Nat, NEW b \in Nat, NEW c \in Nat, b <= c,
         Way(s, r, u, l), Ordered(p, s, r, u, l, a, b)
  PROVE  Ordered(p, s, r, u, l, a, c)
<1>1. a .. b \subseteq a .. c
  OBVIOUS
<1> QED BY <1>1 DEF Ordered, Within

\* A book as new as the last good one, or a frame of another topic, joins a queue.
LEMMA RisingJoined ==
  ASSUME NEW p, NEW q \in Seq(Frame), NEW a \in Nat, NEW b \in Nat, NEW f \in Frame,
         Rising(q, p), Within(q, p, a, b), a <= b, f.topic = p => f.seq = b
  PROVE  /\ q \o <<f>> \in Seq(Frame) /\ Range(q \o <<f>>) = Range(q) \cup {f}
         /\ Rising(q \o <<f>>, p) /\ Within(q \o <<f>>, p, a, b)
<1>1. <<f>> \in Seq(Frame) /\ Range(<<f>>) = {f} /\ Len(<<f>>) = 1
  BY RangeOfOne
<1> DEFINE h == <<f>>
<1>2. h \in Seq(Frame) /\ Range(h) = {f} /\ Len(h) <= 1
  BY <1>1
<1> HIDE DEF h
<1>3. q \o h \in Seq(Frame) /\ Range(q \o h) = Range(q) \cup {f}
  BY <1>2, RangeOfConcat
<1>4. Rising(h, p)
  BY <1>2, RisingOne
<1>5. Ahead(q, h, p)
  BY <1>2, SeqsAre DEF Ahead, Within
<1>6. Rising(q \o h, p)
  BY <1>2, <1>4, <1>5, RisingConcat
<1>7. Within(q \o h, p, a, b)
  BY <1>3 DEF Within
<1> QED BY <1>3, <1>6, <1>7 DEF h

\* A frame offered to the hub joins the way in front of the line: it may carry the newest
\* book, unless an older one of the same pane still waits in the line.
LEMMA WayPublishes ==
  ASSUME NEW p, NEW s, NEW r, NEW u, NEW l, NEW a \in Nat, NEW b \in Nat, a <= b,
         Way(s, r, u, l), Ordered(p, s, r, u, l, a, b),
         NEW f \in Frame, f.topic = p => f.seq = b /\ \A g \in Range(l) : g.topic # p
  PROVE  Ordered(p, s, r, u \o <<f>>, l, a, b)
<1> DEFINE v == u \o <<f>>
<1>1. Range(v) = Range(u) \cup {f} /\ Rising(v, p) /\ Within(v, p, a, b)
  BY RisingJoined DEF Way, Ordered
<1> HIDE DEF v
<1>2. Ahead(s, v, p)
  BY <1>1 DEF Ordered, Ahead, Within
<1>3. Ahead(r, v, p)
  BY <1>1 DEF Ordered, Ahead, Within
<1>4. Ahead(v, l, p)
  BY <1>1 DEF Ordered, Ahead
<1>5. Ordered(p, s, r, v, l, a, b)
  BY <1>1, <1>2, <1>3, <1>4 DEF Ordered
<1> QED BY <1>5 DEF v

\* A frame offered to the line joins the way at its far end, with the newest book.
LEMMA WayDegrades ==
  ASSUME NEW p, NEW s, NEW r, NEW u, NEW l, NEW a \in Nat, NEW b \in Nat, a <= b,
         Way(s, r, u, l), Ordered(p, s, r, u, l, a, b),
         NEW f \in Frame, f.topic = p => f.seq = b
  PROVE  Ordered(p, s, r, u, l \o <<f>>, a, b)
<1> DEFINE v == l \o <<f>>
<1>1. Range(v) = Range(l) \cup {f} /\ Rising(v, p) /\ Within(v, p, a, b)
  BY RisingJoined DEF Way, Ordered
<1> HIDE DEF v
<1>2. Ahead(s, v, p)
  BY <1>1 DEF Ordered, Ahead, Within
<1>3. Ahead(r, v, p)
  BY <1>1 DEF Ordered, Ahead, Within
<1>4. Ahead(u, v, p)
  BY <1>1 DEF Ordered, Ahead, Within
<1>5. Ordered(p, s, r, u, v, a, b)
  BY <1>1, <1>2, <1>3, <1>4 DEF Ordered
<1> QED BY <1>5 DEF v

\* The head of the chaos line goes to the hub, which takes it or not.
LEMMA WayPassesOn ==
  ASSUME NEW p, NEW s, NEW r, NEW u, NEW l, NEW a \in Nat, NEW b \in Nat,
         Way(s, r, u, l), Ordered(p, s, r, u, l, a, b), l # <<>>,
         NEW v, v = u \/ v = u \o <<Head(l)>>
  PROVE  Ordered(p, s, r, v, Tail(l), a, b)
<1> DEFINE h == Head(l)
           m == Tail(l)
<1>1. /\ h \in Range(l) /\ h \in Frame /\ m \in Seq(Frame)
      /\ Range(m) \subseteq Range(l) /\ Rising(m, p)
      /\ \A g \in Range(m) : h.topic = p /\ g.topic = p => h.seq <= g.seq
  BY RisingTail DEF Way, Ordered
<1> HIDE DEF h, m
<1>2. /\ Ahead(s, m, p) /\ Ahead(r, m, p) /\ Ahead(u, m, p) /\ Within(m, p, a, b)
  BY <1>1 DEF Ordered, Ahead, Within
<1>3. ASSUME v = u PROVE Ordered(p, s, r, v, m, a, b)
  BY <1>1, <1>2, <1>3 DEF Ordered
<1>4. ASSUME v = u \o <<h>> PROVE Ordered(p, s, r, v, m, a, b)
  <2> DEFINE k == <<h>>
  <2>1. k \in Seq(Frame) /\ Range(k) = {h} /\ Len(k) <= 1
    BY <1>1, RangeOfOne
  <2> HIDE DEF k
  <2>2. v = u \o k /\ u \in Seq(Frame)
    BY <1>4 DEF k, Way
  <2>3. Range(v) = Range(u) \cup {h}
    BY <2>1, <2>2, RangeOfConcat
  <2>4. Ahead(u, k, p)
    BY <1>1, <2>1 DEF Ordered, Ahead
  <2>5. Rising(v, p)
    BY <2>1, <2>2, <2>4, RisingOne, RisingConcat DEF Ordered
  <2>6. Ahead(s, v, p) /\ Ahead(r, v, p)
    BY <1>1, <2>3 DEF Ordered, Ahead
  <2>7. Ahead(v, m, p)
    BY <1>1, <1>2, <2>3 DEF Ahead
  <2>8. Within(v, p, a, b)
    BY <1>1, <2>3 DEF Ordered, Within
  <2> QED BY <1>1, <1>2, <2>5, <2>6, <2>7, <2>8 DEF Ordered
<1>5. Ordered(p, s, r, v, m, a, b)
  BY <1>3, <1>4 DEF h
<1> QED BY <1>5 DEF m

\* A frame is lost on the chaos line.
LEMMA WayLoses ==
  ASSUME NEW p, NEW s, NEW r, NEW u, NEW l, NEW a \in Nat, NEW b \in Nat,
         Way(s, r, u, l), Ordered(p, s, r, u, l, a, b), NEW k \in 1 .. Len(l)
  PROVE  Ordered(p, s, r, u, RemoveAt(l, k), a, b)
<1> DEFINE m == RemoveAt(l, k)
<1>1. m \in Seq(Frame) /\ Range(m) \subseteq Range(l) /\ Rising(m, p)
  BY RisingWithout DEF Way, Ordered
<1> HIDE DEF m
<1>2. Ahead(s, m, p) /\ Ahead(r, m, p) /\ Ahead(u, m, p) /\ Within(m, p, a, b)
  BY <1>1 DEF Ordered, Ahead, Within
<1>3. Ordered(p, s, r, u, m, a, b)
  BY <1>1, <1>2 DEF Ordered
<1> QED BY <1>3 DEF m

\* The hub retains the head of its channel, and sends it to the socket or not.
LEMMA WayDelivers ==
  ASSUME NEW p, NEW s, NEW r, NEW u, NEW l, NEW a \in Nat, NEW b \in Nat,
         Way(s, r, u, l), Ordered(p, s, r, u, l, a, b), u # <<>>,
         NEW t, t = s \/ t = s \o <<Head(u)>>,
         NEW q, q = (IF Head(u).topic = p THEN <<Head(u)>> ELSE r)
  PROVE  Ordered(p, t, q, Tail(u), l, a, b)
<1> DEFINE h == Head(u)
           m == Tail(u)
           k == <<h>>
<1>1. /\ h \in Range(u) /\ h \in Frame /\ m \in Seq(Frame)
      /\ Range(m) \subseteq Range(u) /\ Rising(m, p)
      /\ \A g \in Range(m) : h.topic = p /\ g.topic = p => h.seq <= g.seq
  BY RisingTail DEF Way, Ordered
<1>2. t = s \/ t = s \o k
  OBVIOUS
<1>3. q = IF h.topic = p THEN k ELSE r
  OBVIOUS
<1> HIDE DEF h, m
<1>4. k \in Seq(Frame) /\ Range(k) = {h} /\ Len(k) <= 1
  BY <1>1, RangeOfOne
<1> HIDE DEF k
<1>5. \A f \in Range(t) : f \in Range(s) \/ f = h
  <2>1. s \in Seq(Frame)
    BY DEF Way
  <2>2. Range(s \o k) = Range(s) \cup {h}
    BY <1>4, <2>1, RangeOfConcat
  <2> QED BY <1>2, <2>2
<1>6. \A f \in Range(q) : f.topic = p => f = h \/ (h.topic # p /\ f \in Range(r))
  BY <1>3, <1>4
<1>7. Rising(t, p)
  <2>1. s \in Seq(Frame) /\ Rising(s, p)
    BY DEF Way, Ordered
  <2>2. Rising(k, p)
    BY <1>4, RisingOne
  <2>3. Ahead(s, k, p)
    BY <1>1, <1>4 DEF Ordered, Ahead
  <2>4. Rising(s \o k, p)
    BY <1>4, <2>1, <2>2, <2>3, RisingConcat
  <2> QED BY <1>2, <2>1, <2>4
<1>8. h.seq \in Nat
  BY <1>1 DEF Frame
<1>9. Ahead(t, q, p)
  BY <1>1, <1>5, <1>6, <1>8 DEF Ordered, Ahead
<1>10. Ahead(t, m, p)
  BY <1>1, <1>5 DEF Ordered, Ahead
<1>11. Ahead(t, l, p)
  BY <1>1, <1>5 DEF Ordered, Ahead
<1>12. Ahead(q, m, p)
  BY <1>1, <1>6 DEF Ordered, Ahead
<1>13. Ahead(q, l, p)
  BY <1>1, <1>6 DEF Ordered, Ahead
<1>14. Ahead(m, l, p)
  BY <1>1 DEF Ordered, Ahead
<1>15. Within(t, p, a, b) /\ Within(q, p, a, b) /\ Within(m, p, a, b)
  BY <1>1, <1>5, <1>6 DEF Ordered, Within
<1>16. Ordered(p, t, q, m, l, a, b)
  BY <1>1, <1>7, <1>9, <1>10, <1>11, <1>12, <1>13, <1>14, <1>15 DEF Ordered
<1> QED BY <1>16 DEF m

\* A socket starts anew, with the retained book or with nothing.
LEMMA WayReplays ==
  ASSUME NEW p, NEW s, NEW r, NEW u, NEW l, NEW a \in Nat, NEW b \in Nat,
         Way(s, r, u, l), Ordered(p, s, r, u, l, a, b),
         NEW t \in Seq(Frame), Rising(t, p),
         \A f \in Range(t) : f.topic = p => f \in Range(r)
  PROVE  Ordered(p, t, r, u, l, a, b)
<1>1. \A f, g \in Range(r) : f.seq <= g.seq
  <2>1. r \in Seq(Frame) /\ Len(r) <= 1 /\ Len(r) \in Nat
    BY DEF Way
  <2>2. \A f \in Range(r) : f \in Frame /\ \E i \in 1 .. Len(r) : f = r[i]
    BY <2>1, RangeIs
  <2>3. \A i \in 1 .. Len(r) : i = 1
    BY <2>1
  <2>4. \A f \in Range(r) : f = r[1] /\ f.seq \in Nat
    BY <2>2, <2>3 DEF Frame
  <2> QED BY <2>4
<1>2. Ahead(t, r, p)
  BY <1>1 DEF Ahead
<1>3. Ahead(t, u, p) /\ Ahead(t, l, p) /\ Within(t, p, a, b)
  BY DEF Ordered, Ahead, Within
<1> QED BY <1>2, <1>3 DEF Ordered

\* The screen takes the head of the socket, or passes it over.
LEMMA WayArrives ==
  ASSUME NEW p, NEW s, NEW r, NEW u, NEW l, NEW a \in Nat, NEW b \in Nat,
         Way(s, r, u, l), Ordered(p, s, r, u, l, a, b), s # <<>>
  PROVE  /\ Ordered(p, Tail(s), r, u, l, a, b)
         /\ Head(s).topic = p => Ordered(p, Tail(s), r, u, l, Head(s).seq, b)
<1> DEFINE h == Head(s)
           m == Tail(s)
<1>1. /\ h \in Range(s) /\ h \in Frame /\ m \in Seq(Frame)
      /\ Range(m) \subseteq Range(s) /\ Rising(m, p)
      /\ \A g \in Range(m) : h.topic = p /\ g.topic = p => h.seq <= g.seq
  BY RisingTail DEF Way, Ordered
<1> HIDE DEF h, m
<1>3. Ahead(m, r, p) /\ Ahead(m, u, p) /\ Ahead(m, l, p)
  BY <1>1 DEF Ordered, Ahead
<1>4. Within(m, p, a, b)
  BY <1>1 DEF Ordered, Within
<1>5. Ordered(p, m, r, u, l, a, b)
  BY <1>1, <1>3, <1>4 DEF Ordered
<1>6. ASSUME h.topic = p PROVE Ordered(p, m, r, u, l, h.seq, b)
  <2>1. \A g \in Range(m) \cup Range(r) \cup Range(u) \cup Range(l) :
            g.topic = p => h.seq <= g.seq /\ g.seq \in a .. b
    BY <1>1, <1>4, <1>6 DEF Ordered, Ahead, Within
  <2>2. h.seq \in Nat
    BY <1>1 DEF Frame
  <2> DEFINE c == h.seq
  <2>3. c \in Nat
    BY <2>2
  <2>4. \A g \in Range(m) \cup Range(r) \cup Range(u) \cup Range(l) :
            g.topic = p => c <= g.seq /\ g.seq \in a .. b
    BY <2>1
  <2> HIDE DEF c
  <2>5. Within(m, p, c, b) /\ Within(r, p, c, b) /\ Within(u, p, c, b) /\ Within(l, p, c, b)
    BY <2>3, <2>4 DEF Within
  <2>6. Ordered(p, m, r, u, l, c, b)
    BY <1>1, <1>3, <2>5 DEF Ordered
  <2> QED BY <2>6 DEF c
<1> QED BY <1>5, <1>6 DEF h, m

-----------------------------------------------------------------------------
(* The invariant *)

Types ==
    /\ TypeOK
    /\ retained \in [Topics -> Seq(Frame)] /\ sock \in [Panes -> Seq(Frame)]

\* While it runs, the engine's last result is its last good one.
Engine == ~halted => lastGood = seq

\* The chaos line holds no fresh book, what is retained is retained under its topic,
\* and a socket carries what it subscribed to.
Sorted ==
    /\ \A f \in Range(line) : f.topic # "fresh"
    /\ \A t \in Topics : \A f \in Range(retained[t]) : f.topic = t
    /\ \A p \in Panes : \A f \in Range(sock[p]) : f.topic \in {p, "halt"}

\* The book of the present life that is on screen.
Shown(p) == IF paneLife[p] = life THEN panes[p] ELSE 0

OnItsWay(p) ==
    /\ Shown(p) <= lastGood
    /\ Ordered(p, sock[p], retained[p], pub, line, Shown(p), lastGood)

Inductive == Types /\ Engine /\ Sorted /\ \A p \in Panes : OnItsWay(p)

\* The capacities are numbers, and none is 0.
LEMMA CapacitiesAre ==
  /\ LineDepth \in Nat /\ PubDepth \in Nat /\ SendBuffer \in Nat /\ MaxLives \in Nat
  /\ SendBuffer >= 2 /\ MaxLives >= 1 /\ MaxCommands \in Nat
BY StageAssumption

\* What the types say of the way of a pane.
LEMMA WayIs ==
  ASSUME Types
  PROVE  /\ line \in Seq(Frame) /\ Len(line) <= LineDepth
         /\ pub \in Seq(Frame) /\ Len(pub) <= PubDepth
         /\ life \in Nat /\ seq \in Nat /\ lastGood \in Nat
         /\ panes \in [Panes -> Nat] /\ paneLife \in [Panes -> Nat]
         /\ \A p \in Panes : /\ sock[p] \in Seq(Frame) /\ retained[p] \in Seq(Frame)
                             /\ Way(sock[p], retained[p], pub, line) /\ Shown(p) \in Nat
<1>1. /\ line \in Seq(Frame) /\ Len(line) <= LineDepth
      /\ pub \in Seq(Frame) /\ Len(pub) <= PubDepth
      /\ life \in Nat /\ seq \in Nat /\ lastGood \in Nat
      /\ panes \in [Panes -> Nat] /\ paneLife \in [Panes -> Nat]
  BY CapacitiesAre DEF Types, TypeOK
<1>2. \A p \in Panes : sock[p] \in Seq(Frame) /\ retained[p] \in Seq(Frame) /\ Len(retained[p]) <= 1
  BY DEF Types, TypeOK, Topics
<1>3. \A p \in Panes : Way(sock[p], retained[p], pub, line) /\ Shown(p) \in Nat
  BY <1>1, <1>2 DEF Way, Shown
<1> QED BY <1>1, <1>2, <1>3

\* Along the whole way, end to end, the books rise.
LEMMA OrderlyBooks == Inductive => BooksInOrder
<1> SUFFICES ASSUME Inductive, NEW p \in Panes
             PROVE  LET way   == sock[p] \o retained[p] \o pub \o line
                        shown == IF paneLife[p] = life THEN panes[p] ELSE 0
                        Books == {i \in DOMAIN way : way[i].topic = p}
                    IN  /\ shown <= lastGood
                        /\ \A i \in Books : way[i].seq \in shown .. lastGood
                        /\ \A i, j \in Books : i < j => way[i].seq <= way[j].seq
  BY Zenon DEF BooksInOrder
<1> DEFINE s == sock[p]
           r == retained[p]
           x == s \o r
           y == x \o pub
           way == y \o line
           a == Shown(p)
<1>1. /\ s \in Seq(Frame) /\ r \in Seq(Frame) /\ pub \in Seq(Frame) /\ line \in Seq(Frame)
      /\ Len(r) <= 1
  BY WayIs DEF Inductive, Way
<1>2. a <= lastGood /\ Ordered(p, s, r, pub, line, a, lastGood)
  BY DEF Inductive, OnItsWay
<1>3. way = sock[p] \o retained[p] \o pub \o line
  OBVIOUS
<1> HIDE DEF s, r, a
<1>4. x \in Seq(Frame) /\ Range(x) = Range(s) \cup Range(r)
  BY <1>1, RangeOfConcat
<1>5. Rising(x, p)
  BY <1>1, <1>2, RisingOne, RisingConcat DEF Ordered
<1> HIDE DEF x
<1>6. y \in Seq(Frame) /\ Range(y) = Range(x) \cup Range(pub)
  BY <1>1, <1>4, RangeOfConcat
<1>7. Rising(y, p)
  <2>1. Ahead(x, pub, p)
    BY <1>2, <1>4 DEF Ordered, Ahead
  <2> QED BY <1>1, <1>2, <1>4, <1>5, <2>1, RisingConcat DEF Ordered
<1> HIDE DEF y
<1>8. way \in Seq(Frame) /\ Range(way) = Range(y) \cup Range(line)
  BY <1>1, <1>6, RangeOfConcat
<1>9. Rising(way, p)
  <2>1. Ahead(y, line, p)
    BY <1>2, <1>4, <1>6 DEF Ordered, Ahead
  <2> QED BY <1>1, <1>2, <1>6, <1>7, <2>1, RisingConcat DEF Ordered
<1> HIDE DEF way
<1>10. Within(way, p, a, lastGood)
  BY <1>2, <1>4, <1>6, <1>8 DEF Ordered, Within
<1>11. DOMAIN way = 1 .. Len(way) /\ \A i \in 1 .. Len(way) : way[i] \in Range(way)
  <2>1. DOMAIN way = 1 .. Len(way)
    BY <1>8
  <2> QED BY <1>8, <2>1, RangeIs
<1>12. \A i \in DOMAIN way : way[i].topic = p => way[i].seq \in a .. lastGood
  BY <1>10, <1>11 DEF Within
<1>13. \A i, j \in DOMAIN way : way[i].topic = p /\ way[j].topic = p /\ i < j => way[i].seq <= way[j].seq
  BY <1>9, <1>11 DEF Rising
<1>14. a = IF paneLife[p] = life THEN panes[p] ELSE 0
  BY DEF a, Shown
<1> QED BY <1>2, <1>3, <1>12, <1>13, <1>14, Zenon

-----------------------------------------------------------------------------
(* Every step keeps it *)

\* With every queue empty nothing is out of order, and the panes show nothing.
LEMMA InitInductive == Init => Inductive
<1> SUFFICES ASSUME Init PROVE Inductive
  OBVIOUS
<1> USE DEF Init
<1>1. <<>> \in Seq(Frame) /\ Len(<<>>) = 0 /\ 1 .. Len(<<>>) = {} /\ Range(<<>>) = {}
  BY RangeOfNothing
<1>2. Types
  <2>1. /\ line \in Seq(Frame) /\ Len(line) <= LineDepth
        /\ pub \in Seq(Frame) /\ Len(pub) <= PubDepth
    BY <1>1, CapacitiesAre
  <2>2. \A t \in Topics : retained[t] \in Seq(Frame) /\ Len(retained[t]) <= 1
    BY <1>1
  <2>3. \A p \in Panes : sock[p] \in Seq(Frame) /\ Len(sock[p]) <= SendBuffer
    BY <1>1, CapacitiesAre
  <2>4. retained \in [Topics -> Seq(Frame)] /\ sock \in [Panes -> Seq(Frame)]
    BY <1>1
  <2>5. /\ life \in 1 .. MaxLives /\ seq \in 0 .. MaxCommands /\ lastGood \in 0 .. seq
        /\ panes \in [Panes -> 0 .. MaxCommands] /\ paneLife \in [Panes -> 0 .. life]
        /\ haltSeen \in 0 .. life
    BY CapacitiesAre
  <2> QED BY <2>1, <2>2, <2>3, <2>4, <2>5 DEF Types, TypeOK
<1>3. Engine /\ Sorted
  BY <1>1 DEF Engine, Sorted, Topics
<1>4. ASSUME NEW p \in Panes PROVE OnItsWay(p)
  <2>1. Shown(p) = 0
    BY DEF Shown
  <2>2. sock[p] = <<>> /\ retained[p] = <<>>
    BY DEF Topics
  <2>3. Ordered(p, <<>>, <<>>, <<>>, <<>>, 0, 0)
    BY <1>1 DEF Ordered, Rising, Ahead, Within
  <2> QED BY <2>1, <2>2, <2>3 DEF OnItsWay
<1> QED BY <1>2, <1>3, <1>4 DEF Inductive

\* What a frame sent on a bounded channel makes of it.
LEMMA SentIs ==
  ASSUME NEW q \in Seq(Frame), NEW cap \in Nat, Len(q) <= cap, NEW f \in Frame
  PROVE  LET v == Offered(q, cap, <<f>>)
         IN  /\ v \in Seq(Frame) /\ Len(v) <= cap /\ (v = q \/ v = q \o <<f>>)
             /\ \A g \in Range(v) : g \in Range(q) \/ g = f
<1> DEFINE v == Offered(q, cap, <<f>>)
           k == <<f>>
<1>1. v \in Seq(Frame) /\ Len(v) <= cap /\ (v = q \/ v = q \o k)
  BY OfferedIs
<1>2. k \in Seq(Frame) /\ Range(k) = {f}
  BY RangeOfOne
<1> HIDE DEF k, v
<1>3. Range(q \o k) = Range(q) \cup Range(k)
  BY <1>2, RangeOfConcat
<1>4. /\ v \in Seq(Frame) /\ Len(v) <= cap /\ (v = q \/ v = q \o k)
      /\ \A g \in Range(v) : g \in Range(q) \/ g = f
  BY <1>1, <1>2, <1>3
<1> QED BY <1>4 DEF k, v

\* One frame goes to the hub, another to the chaos line.
LEMMA BothLanes ==
  ASSUME Inductive, UNCHANGED <<life, armed, retained, wires, screen>>,
         seq' \in 0 .. MaxCommands, lastGood' \in 0 .. seq', halted' \in BOOLEAN, Engine',
         lastGood <= lastGood',
         NEW f \in Frame, Publish(<<f>>), f.topic = "fresh" => f.seq = lastGood', f.topic # "stale",
         NEW g \in Frame, Degrade(g), g.topic = "stale" => g.seq = lastGood', g.topic # "fresh"
  PROVE  Inductive'
<1>1. UNCHANGED <<up, sock, panes, paneLife, haltSeen>>
  BY DEF wires, screen
<1>2. /\ line \in Seq(Frame) /\ Len(line) <= LineDepth
      /\ pub \in Seq(Frame) /\ Len(pub) <= PubDepth /\ lastGood \in Nat /\ lastGood' \in Nat
  <2>1. lastGood' \in Nat
    OBVIOUS
  <2> QED BY <2>1, WayIs DEF Inductive
<1>3. /\ pub' \in Seq(Frame) /\ Len(pub') <= PubDepth /\ (pub' = pub \/ pub' = pub \o <<f>>)
  <2> DEFINE v == Offered(pub, PubDepth, <<f>>)
  <2>1. pub' = v /\ PubDepth \in Nat
    BY CapacitiesAre DEF Publish
  <2>2. v \in Seq(Frame) /\ Len(v) <= PubDepth /\ (v = pub \/ v = pub \o <<f>>)
    BY <1>2, <2>1, SentIs
  <2> QED BY <2>1, <2>2, Zenon
<1>4. /\ line' \in Seq(Frame) /\ Len(line') <= LineDepth /\ (line' = line \/ line' = line \o <<g>>)
      /\ \A e \in Range(line') : e \in Range(line) \/ e = g
  <2> DEFINE v == Offered(line, LineDepth, <<g>>)
  <2>1. line' = v /\ LineDepth \in Nat
    BY CapacitiesAre DEF Degrade
  <2>2. /\ v \in Seq(Frame) /\ Len(v) <= LineDepth /\ (v = line \/ v = line \o <<g>>)
        /\ \A e \in Range(v) : e \in Range(line) \/ e = g
    BY <1>2, <2>1, SentIs
  <2> QED BY <2>1, <2>2, Zenon
<1>5. Types'
  BY <1>1, <1>3, <1>4 DEF Inductive, Types, TypeOK, Frame, Topics, Panes
<1>6. Sorted'
  BY <1>1, <1>4 DEF Inductive, Sorted, Topics, Panes
<1>7. ASSUME NEW p \in Panes PROVE OnItsWay(p)'
  <2> DEFINE s == sock[p]
             r == retained[p]
             a == Shown(p)
             b == lastGood'
  <2>1. /\ a \in Nat /\ a <= lastGood /\ Way(s, r, pub, line)
        /\ Ordered(p, s, r, pub, line, a, lastGood)
    BY WayIs DEF Inductive, OnItsWay
  <2>2. \A e \in Range(line) : e.topic # "fresh"
    BY DEF Inductive, Sorted
  <2>3. s' = s /\ r' = r /\ Shown(p)' = a /\ b \in Nat /\ p \in {"fresh", "stale"}
    BY <1>1, <1>2 DEF Shown, Panes
  <2> HIDE DEF s, r, a
  <2>4. a <= b /\ Ordered(p, s, r, pub, line, a, b)
    BY <1>2, <2>1, <2>3, WayWaits
  <2>5. f.topic = p => f.seq = b /\ \A e \in Range(line) : e.topic # p
    BY <2>2, <2>3
  <2>6. Ordered(p, s, r, pub \o <<f>>, line, a, b)
    BY <2>1, <2>3, <2>4, <2>5, WayPublishes
  <2>7. Ordered(p, s, r, pub', line, a, b)
    BY <1>3, <2>4, <2>6
  <2>8. Way(s, r, pub', line)
    BY <1>3, <2>1 DEF Way
  <2>9. Ordered(p, s, r, pub', line \o <<g>>, a, b)
    <3>1. g.topic = p => g.seq = b
      BY <2>3
    <3> QED BY <2>1, <2>3, <2>4, <2>7, <2>8, <3>1, WayDegrades
  <2>10. Ordered(p, s, r, pub', line', a, b)
    BY <1>4, <2>7, <2>9
  <2> QED BY <2>3, <2>4, <2>10 DEF OnItsWay, s, r
<1> QED BY <1>5, <1>6, <1>7 DEF Inductive, Panes

\* A good command, the command that breaks the book, and a keyframe.
LEMMA LoopInductive ==
  ASSUME Inductive, ApplyGood \/ ApplyBad \/ Keyframe PROVE Inductive'
<1>1. /\ life \in Nat /\ seq \in 0 .. MaxCommands /\ lastGood \in 0 .. seq /\ halted \in BOOLEAN
      /\ seq \in Nat /\ lastGood \in Nat /\ MaxCommands \in Nat
      /\ MaxCommands - (MaxLives - life) <= MaxCommands
      /\ MaxCommands - (MaxLives - life) \in Int
  <2>1. life \in Nat /\ seq \in Nat /\ lastGood \in Nat
    BY WayIs DEF Inductive
  <2>2. life <= MaxLives
    BY CapacitiesAre DEF Inductive, Types, TypeOK
  <2> QED BY <2>1, <2>2, CapacitiesAre DEF Inductive, Types, TypeOK
<1>2. \A t \in Topics, n \in Nat :
          LET f == [topic |-> t, seq |-> n] IN f \in Frame /\ f.topic = t /\ f.seq = n
  BY DEF Frame
<1>3. "fresh" \in Topics /\ "stale" \in Topics /\ "halt" \in Topics
  BY DEF Topics, Panes
<1>4. CASE ApplyGood
  <2> DEFINE n == seq + 1
             f == [topic |-> "fresh", seq |-> n]
             g == [topic |-> "stale", seq |-> n]
  <2>1. /\ UNCHANGED <<life, armed, retained, wires, screen>> /\ UNCHANGED halted
        /\ ~halted /\ seq < MaxCommands /\ seq' = n /\ lastGood' = n
        /\ Publish(<<f>>) /\ Degrade(g)
    BY <1>1, <1>4 DEF ApplyGood, MoreCommands
  <2>2. n \in Nat /\ f \in Frame /\ f.topic = "fresh" /\ f.seq = n
        /\ g \in Frame /\ g.topic = "stale" /\ g.seq = n
    BY <1>1, <1>2, <1>3
  <2> HIDE DEF f, g
  <2>3. /\ seq' \in 0 .. MaxCommands /\ lastGood' \in 0 .. seq' /\ halted' \in BOOLEAN
        /\ lastGood <= lastGood'
    BY <1>1, <2>1
  <2>4. Engine'
    BY <2>1 DEF Engine
  <2>5. /\ f.topic = "fresh" => f.seq = lastGood'
        /\ f.topic # "stale" /\ g.topic # "fresh"
        /\ g.topic = "stale" => g.seq = lastGood'
    BY <2>1, <2>2
  <2> QED BY <2>1, <2>2, <2>3, <2>4, <2>5, BothLanes
<1>5. CASE ApplyBad
  <2> DEFINE n == seq + 1
             f == [topic |-> "halt", seq |-> n]
  <2>1. /\ UNCHANGED <<life, armed, retained, wires, screen>> /\ UNCHANGED lastGood
        /\ ~halted /\ seq < MaxCommands /\ seq' = n /\ halted' = TRUE
        /\ Publish(<<f>>) /\ Degrade(f)
    BY <1>1, <1>5 DEF ApplyBad, MoreCommands, HaltAlone
  <2>2. n \in Nat /\ f \in Frame /\ f.topic = "halt"
    BY <1>1, <1>2, <1>3
  <2> HIDE DEF f
  <2>3. /\ seq' \in 0 .. MaxCommands /\ lastGood' \in 0 .. seq' /\ halted' \in BOOLEAN
        /\ lastGood <= lastGood'
    BY <1>1, <2>1
  <2>4. Engine'
    BY <2>1 DEF Engine
  <2>5. f.topic # "fresh" /\ f.topic # "stale"
    BY <2>2
  <2> QED BY <2>1, <2>2, <2>3, <2>4, <2>5, BothLanes
<1>6. CASE Keyframe
  <2> DEFINE f == [topic |-> "fresh", seq |-> lastGood]
             g == [topic |-> "stale", seq |-> lastGood]
  <2>1. /\ UNCHANGED <<life, armed, retained, wires, screen>> /\ UNCHANGED <<seq, lastGood, halted>>
        /\ Publish(<<f>>) /\ Degrade(g)
    BY <1>6 DEF Keyframe, DegradeKeyframe, loop
  <2>2. f \in Frame /\ f.topic = "fresh" /\ f.seq = lastGood
        /\ g \in Frame /\ g.topic = "stale" /\ g.seq = lastGood
    BY <1>1, <1>2, <1>3
  <2> HIDE DEF f, g
  <2>3. /\ seq' \in 0 .. MaxCommands /\ lastGood' \in 0 .. seq' /\ halted' \in BOOLEAN
        /\ lastGood <= lastGood'
    BY <1>1, <2>1
  <2>4. Engine'
    BY <2>1 DEF Engine, Inductive
  <2>5. /\ f.topic = "fresh" => f.seq = lastGood'
        /\ f.topic # "stale" /\ g.topic # "fresh"
        /\ g.topic = "stale" => g.seq = lastGood'
    BY <2>1, <2>2
  <2> QED BY <2>1, <2>2, <2>3, <2>4, <2>5, BothLanes
<1> QED BY <1>4, <1>5, <1>6

\* Nothing but the policy of the chaos line changes, if anything.
LEMMA ToggleInductive ==
  ASSUME Inductive, Toggle \/ UNCHANGED vars PROVE Inductive'
<1>1. /\ armed' \in BOOLEAN
      /\ UNCHANGED <<life, seq, lastGood, halted, line, pub, retained, up, sock,
                     panes, paneLife, haltSeen>>
  BY DEF Toggle, vars, loop, chaos, hub, wires, screen, Inductive, Types, TypeOK
<1>2. Types' /\ Engine' /\ Sorted'
  BY <1>1 DEF Inductive, Types, TypeOK, Engine, Sorted
<1>3. ASSUME NEW p \in Panes PROVE OnItsWay(p)'
  <2>1. Shown(p)' = Shown(p)
    BY <1>1 DEF Shown
  <2> QED BY <1>1, <2>1, Zenon DEF Inductive, OnItsWay
<1> QED BY <1>2, <1>3 DEF Inductive, Panes

\* What is left of a step that only moves frames on, or loses them.
LEMMA MoveInductive ==
  ASSUME Inductive, UNCHANGED loop, UNCHANGED <<panes, paneLife, haltSeen>>,
         armed' \in BOOLEAN, up' \subseteq Panes,
         line' \in Seq(Frame), Len(line') <= LineDepth, pub' \in Seq(Frame), Len(pub') <= PubDepth,
         retained' \in [Topics -> Seq(Frame)], \A t \in Topics : Len(retained'[t]) <= 1,
         sock' \in [Panes -> Seq(Frame)], \A p \in Panes : Len(sock'[p]) <= SendBuffer,
         Sorted',
         \A p \in Panes : Ordered(p, sock'[p], retained'[p], pub', line', Shown(p), lastGood)
  PROVE  Inductive'
<1>1. UNCHANGED <<life, seq, lastGood, halted>>
  BY DEF loop
<1>2. TypeOK'
  <2>1. \A t \in Topics : retained'[t] \in Seq(Frame) /\ Len(retained'[t]) <= 1
    OBVIOUS
  <2>2. \A p \in Panes : sock'[p] \in Seq(Frame) /\ Len(sock'[p]) <= SendBuffer
    OBVIOUS
  <2> QED BY <1>1, <2>1, <2>2 DEF Inductive, Types, TypeOK, Frame, Topics, Panes
<1>3. Types'
  BY <1>2 DEF Types, Frame, Topics, Panes
<1>4. Engine'
  BY <1>1 DEF Inductive, Engine
<1>5. ASSUME NEW p \in Panes PROVE OnItsWay(p)'
  <2>1. Shown(p)' = Shown(p) /\ Shown(p) <= lastGood
    BY <1>1 DEF Shown, Inductive, OnItsWay
  <2> QED BY <1>1, <2>1, Zenon DEF OnItsWay
<1> QED BY <1>3, <1>4, <1>5 DEF Inductive, Panes

\* The head of the chaos line goes to the hub.
LEMMA PassOnInductive ==
  ASSUME Inductive, PassOn PROVE Inductive'
<1> DEFINE h == Head(line)
           v == Offered(pub, PubDepth, <<h>>)
<1>1. /\ line # <<>> /\ pub' = v /\ line' = Tail(line) /\ UNCHANGED loop
      /\ UNCHANGED <<armed, retained, up, sock, panes, paneLife, haltSeen>>
  BY DEF PassOn, Publish, wires, screen
<1>2. /\ line \in Seq(Frame) /\ Len(line) <= LineDepth
      /\ pub \in Seq(Frame) /\ Len(pub) <= PubDepth
  BY WayIs DEF Inductive
<1>3. /\ h \in Frame /\ Tail(line) \in Seq(Frame) /\ Len(Tail(line)) = Len(line) - 1
      /\ Range(Tail(line)) \subseteq Range(line)
  <2>1. Rising(line, "none")
    BY <1>2, RisingOfNone
  <2> QED BY <1>1, <1>2, <2>1, RisingTail
<1> HIDE DEF h
<1>4. /\ v \in Seq(Frame) /\ Len(v) <= PubDepth /\ (v = pub \/ v = pub \o <<h>>)
  BY <1>2, <1>3, SentIs, CapacitiesAre
<1> HIDE DEF v
<1>5. line' \in Seq(Frame) /\ Len(line') <= LineDepth /\ pub' \in Seq(Frame) /\ Len(pub') <= PubDepth
  BY <1>1, <1>2, <1>3, <1>4, CapacitiesAre
<1>6. Sorted'
  BY <1>1, <1>3 DEF Inductive, Sorted, Topics, Panes
<1>7. ASSUME NEW p \in Panes
      PROVE  Ordered(p, sock'[p], retained'[p], pub', line', Shown(p), lastGood)
  <2>1. /\ Shown(p) \in Nat /\ lastGood \in Nat /\ Way(sock[p], retained[p], pub, line)
        /\ Ordered(p, sock[p], retained[p], pub, line, Shown(p), lastGood)
    BY WayIs DEF Inductive, OnItsWay
  <2>2. pub' = pub \/ pub' = pub \o <<Head(line)>>
    BY <1>1, <1>4 DEF h
  <2>3. Ordered(p, sock[p], retained[p], pub', Tail(line), Shown(p), lastGood)
    BY <1>1, <2>1, <2>2, WayPassesOn
  <2> QED BY <1>1, <2>3
<1>8. /\ retained' \in [Topics -> Seq(Frame)] /\ \A t \in Topics : Len(retained'[t]) <= 1
      /\ sock' \in [Panes -> Seq(Frame)] /\ \A p \in Panes : Len(sock'[p]) <= SendBuffer
      /\ armed' \in BOOLEAN /\ up' \subseteq Panes
  BY <1>1 DEF Inductive, Types, TypeOK
<1> QED BY <1>1, <1>5, <1>6, <1>7, <1>8, MoveInductive

\* A frame is lost on the chaos line.
LEMMA LineDropsInductive ==
  ASSUME Inductive, LineDrops PROVE Inductive'
<1>1. /\ UNCHANGED loop
      /\ UNCHANGED <<armed, pub, retained, up, sock, panes, paneLife, haltSeen>>
  BY DEF LineDrops, hub, wires, screen
<1>2. /\ line \in Seq(Frame) /\ Len(line) <= LineDepth /\ Len(line) \in Nat
      /\ pub \in Seq(Frame) /\ Len(pub) <= PubDepth
  BY WayIs DEF Inductive
<1>3. PICK i \in 1 .. Len(line) : line' = RemoveAt(line, i)
  BY <1>2 DEF LineDrops
<1>4. /\ line' \in Seq(Frame) /\ Len(line') <= Len(line) /\ Range(line') \subseteq Range(line)
  <2>1. Rising(line, "none")
    BY <1>2, RisingOfNone
  <2> QED BY <1>2, <1>3, <2>1, RisingWithout
<1>5. Len(line') <= LineDepth
  BY <1>2, <1>4, CapacitiesAre
<1>6. Sorted'
  BY <1>1, <1>4 DEF Inductive, Sorted, Topics, Panes
<1>7. ASSUME NEW p \in Panes
      PROVE  Ordered(p, sock'[p], retained'[p], pub', line', Shown(p), lastGood)
  <2>1. /\ Shown(p) \in Nat /\ lastGood \in Nat /\ Way(sock[p], retained[p], pub, line)
        /\ Ordered(p, sock[p], retained[p], pub, line, Shown(p), lastGood)
    BY WayIs DEF Inductive, OnItsWay
  <2>2. Ordered(p, sock[p], retained[p], pub, RemoveAt(line, i), Shown(p), lastGood)
    BY <2>1, WayLoses
  <2> QED BY <1>1, <1>3, <2>2
<1>8. /\ retained' \in [Topics -> Seq(Frame)] /\ \A t \in Topics : Len(retained'[t]) <= 1
      /\ sock' \in [Panes -> Seq(Frame)] /\ \A p \in Panes : Len(sock'[p]) <= SendBuffer
      /\ armed' \in BOOLEAN /\ up' \subseteq Panes /\ pub' \in Seq(Frame) /\ Len(pub') <= PubDepth
  BY <1>1, <1>2 DEF Inductive, Types, TypeOK
<1> QED BY <1>1, <1>4, <1>5, <1>6, <1>7, <1>8, MoveInductive

\* The hub retains a frame and sends it to whoever hears of it.
LEMMA DeliverInductive ==
  ASSUME Inductive, Deliver PROVE Inductive'
<1> DEFINE h == Head(pub)
           New(p) == Offered(sock[p], SendBuffer, <<h>>)
<1>1. /\ pub # <<>> /\ pub' = Tail(pub)
      /\ retained' = [retained EXCEPT ![h.topic] = <<h>>]
      /\ sock' = [p \in Panes |-> IF Hears(p, h.topic) THEN New(p) ELSE sock[p]]
      /\ UNCHANGED loop
      /\ UNCHANGED <<armed, line, up, panes, paneLife, haltSeen>>
  BY DEF Deliver, chaos, screen
<1>2. /\ line \in Seq(Frame) /\ Len(line) <= LineDepth
      /\ pub \in Seq(Frame) /\ Len(pub) <= PubDepth
      /\ \A p \in Panes : sock[p] \in Seq(Frame)
  BY WayIs DEF Inductive
<1>3. \A p \in Panes : Len(sock[p]) <= SendBuffer
  BY DEF Inductive, Types, TypeOK
<1>4. /\ h \in Frame /\ Tail(pub) \in Seq(Frame) /\ Len(Tail(pub)) = Len(pub) - 1
  <2>1. Rising(pub, "none")
    BY <1>2, RisingOfNone
  <2> QED BY <1>1, <1>2, <2>1, RisingTail
<1>5. pub' \in Seq(Frame) /\ Len(pub') <= PubDepth
  BY <1>1, <1>2, <1>4, CapacitiesAre
<1> HIDE DEF h
<1>6. h.topic \in Topics
  BY <1>4 DEF Frame
<1>7. ASSUME NEW p \in Panes
      PROVE  /\ New(p) \in Seq(Frame) /\ Len(New(p)) <= SendBuffer
             /\ New(p) = sock[p] \/ New(p) = sock[p] \o <<h>>
             /\ \A g \in Range(New(p)) : g \in Range(sock[p]) \/ g = h
  BY <1>2, <1>3, <1>4, SentIs, CapacitiesAre
<1> HIDE DEF New
<1>8. /\ sock' \in [Panes -> Seq(Frame)]
      /\ \A p \in Panes :
            /\ Len(sock'[p]) <= SendBuffer /\ (sock'[p] = sock[p] \/ sock'[p] = sock[p] \o <<h>>)
            /\ \A g \in Range(sock'[p]) : g \in Range(sock[p]) \/ (g = h /\ Hears(p, h.topic))
  <2>1. \A p \in Panes : sock'[p] = IF Hears(p, h.topic) THEN New(p) ELSE sock[p]
    BY <1>1, Zenon
  <2>2. ASSUME NEW p \in Panes
        PROVE  /\ sock'[p] \in Seq(Frame) /\ Len(sock'[p]) <= SendBuffer
               /\ (sock'[p] = sock[p] \/ sock'[p] = sock[p] \o <<h>>)
               /\ \A g \in Range(sock'[p]) : g \in Range(sock[p]) \/ (g = h /\ Hears(p, h.topic))
    <3>1. CASE Hears(p, h.topic)
      <4>1. sock'[p] = New(p)
        BY <2>1, <3>1, Zenon
      <4> QED BY <1>7, <3>1, <4>1, Zenon
    <3>2. CASE ~Hears(p, h.topic)
      <4>1. sock'[p] = sock[p]
        BY <2>1, <3>2, Zenon
      <4> QED BY <1>2, <1>3, <4>1, Zenon
    <3> QED BY <3>1, <3>2
  <2>3. sock' = [p \in Panes |-> sock'[p]]
    BY <1>1
  <2>4. sock' \in [Panes -> Seq(Frame)]
    BY <2>2, <2>3, Zenon
  <2> QED BY <2>2, <2>4, Zenon
<1>9. /\ retained' \in [Topics -> Seq(Frame)] /\ \A t \in Topics : Len(retained'[t]) <= 1
      /\ \A t \in Topics : retained'[t] = IF h.topic = t THEN <<h>> ELSE retained[t]
  <2>1. <<h>> \in Seq(Frame) /\ Len(<<h>>) <= 1
    BY <1>4
  <2>2. retained \in [Topics -> Seq(Frame)] /\ \A t \in Topics : Len(retained[t]) <= 1
    BY DEF Inductive, Types, TypeOK
  <2>3. \A t \in Topics : retained'[t] = IF h.topic = t THEN <<h>> ELSE retained[t]
    BY <1>1, <2>2
  <2>4. retained' \in [Topics -> Seq(Frame)]
    BY <1>1, <2>1, <2>2
  <2>5. ASSUME NEW t \in Topics PROVE Len(retained'[t]) <= 1
    <3>1. CASE h.topic = t
      <4>1. retained'[t] = <<h>>
        BY <2>3, <3>1
      <4> QED BY <2>1, <4>1, Zenon
    <3>2. CASE h.topic # t
      <4>1. retained'[t] = retained[t]
        BY <2>3, <3>2
      <4> QED BY <2>2, <4>1
    <3> QED BY <3>1, <3>2
  <2> QED BY <2>3, <2>4, <2>5
<1>10. Sorted'
  <2>1. ASSUME NEW t \in Topics, NEW f \in Range(retained'[t]) PROVE f.topic = t
    <3>1. CASE h.topic = t
      <4>1. Range(<<h>>) = {h}
        BY <1>4, RangeOfOne
      <4> QED BY <1>9, <2>1, <3>1, <4>1
    <3>2. CASE h.topic # t
      <4>1. retained'[t] = retained[t]
        BY <1>9, <3>2
      <4> QED BY <2>1, <4>1 DEF Inductive, Sorted
    <3> QED BY <3>1, <3>2
  <2>2. ASSUME NEW p \in Panes, NEW f \in Range(sock'[p]) PROVE f.topic \in {p, "halt"}
    <3>1. CASE f \in Range(sock[p])
      BY <3>1 DEF Inductive, Sorted
    <3>2. CASE f = h /\ Hears(p, h.topic)
      <4>1. DOMAIN TopicsOf[p] = 1 .. 2 /\ TopicsOf[p][1] = p /\ TopicsOf[p][2] = "halt"
        BY DEF Panes, TopicsOf
      <4>2. \A t \in Range(TopicsOf[p]) : t \in {p, "halt"}
        BY <4>1 DEF Range
      <4> QED BY <3>2, <4>2 DEF Hears
    <3> QED BY <1>8, <2>2, <3>1, <3>2
  <2> QED BY <1>1, <2>1, <2>2 DEF Inductive, Sorted, Topics, Panes
<1>11. ASSUME NEW p \in Panes
       PROVE  Ordered(p, sock'[p], retained'[p], pub', line', Shown(p), lastGood)
  <2>1. /\ Shown(p) \in Nat /\ lastGood \in Nat /\ Way(sock[p], retained[p], pub, line)
        /\ Ordered(p, sock[p], retained[p], pub, line, Shown(p), lastGood)
    BY WayIs DEF Inductive, OnItsWay
  <2>2. p \in Topics
    BY DEF Topics
  <2>3. retained'[p] = IF Head(pub).topic = p THEN <<Head(pub)>> ELSE retained[p]
    BY <1>9, <2>2 DEF h
  <2>4. sock'[p] = sock[p] \/ sock'[p] = sock[p] \o <<Head(pub)>>
    BY <1>8 DEF h
  <2>5. Ordered(p, sock'[p], retained'[p], Tail(pub), line, Shown(p), lastGood)
    BY <1>1, <2>1, <2>3, <2>4, WayDelivers
  <2> QED BY <1>1, <2>5
<1>12. /\ line' \in Seq(Frame) /\ Len(line') <= LineDepth
       /\ armed' \in BOOLEAN /\ up' \subseteq Panes
  BY <1>1, <1>2 DEF Inductive, Types, TypeOK
<1> QED BY <1>1, <1>5, <1>8, <1>9, <1>10, <1>11, <1>12, MoveInductive

\* The replay is at most one frame of each of two topics.
LEMMA ReplayIs ==
  ASSUME Types, Sorted, NEW p \in Panes
  PROVE  /\ Replay(p) \in Seq(Frame) /\ Len(Replay(p)) <= 2 /\ Rising(Replay(p), p)
         /\ \A f \in Range(Replay(p)) : /\ f.topic \in {p, "halt"}
                                        /\ f.topic = p => f \in Range(retained[p])
<1> DEFINE ts == TopicsOf[p]
           qs == [i \in DOMAIN TopicsOf[p] |-> retained[TopicsOf[p][i]]]
           r == Replay(p)
           at(i) == IF i = 1 THEN p ELSE "halt"
<1>1. DOMAIN ts = 1 .. 2 /\ ts[1] = p /\ ts[2] = "halt" /\ p # "halt"
  BY DEF Panes, TopicsOf
<1>2. \A t \in Topics : retained[t] \in Seq(Frame) /\ Len(retained[t]) <= 1
  BY DEF Types, TypeOK
<1>3. p \in Topics /\ "halt" \in Topics
  BY DEF Topics
<1>4. qs = [i \in 1 .. 2 |-> retained[at(i)]]
  BY <1>1
<1>5. qs \in Seq(Seq(Frame)) /\ Len(qs) = 2 /\ \A i \in 1 .. 2 : qs[i] = retained[at(i)]
  <2>1. \A i \in 1 .. 2 : retained[at(i)] \in Seq(Frame)
    BY <1>2, <1>3
  <2> HIDE DEF qs, at
  <2>2. qs \in [1 .. 2 -> Seq(Frame)]
    BY <1>4, <2>1
  <2> QED BY <1>4, <2>2, SeqOfFunction
<1>6. \A i \in 1 .. Len(qs) : Len(qs[i]) <= 1
  BY <1>2, <1>3, <1>5
<1>7. r = FlattenSeq(qs)
  BY DEF Replay
<1> HIDE DEF r, qs
<1>8. r \in Seq(Frame) /\ MadeOf(r, qs, 2)
  <2>1. FlattenSeq(qs) \in Seq(Frame) /\ MadeOf(FlattenSeq(qs), qs, Len(qs))
    BY <1>5, <1>6, FlattenOnes
  <2> QED BY <1>5, <1>7, <2>1
<1>9. PICK from \in [1 .. Len(r) -> 1 .. 2] :
          /\ \A a, b \in 1 .. Len(r) : a < b => from[a] < from[b]
          /\ \A a \in 1 .. Len(r) : qs[from[a]] = <<r[a]>>
  BY <1>8 DEF MadeOf
<1>10. Len(r) \in Nat
  BY <1>8
<1>11. Len(r) <= 2
  <2> SUFFICES ASSUME Len(r) > 2 PROVE FALSE
    BY <1>10
  <2>1. 1 \in 1 .. Len(r) /\ 2 \in 1 .. Len(r) /\ 3 \in 1 .. Len(r)
    BY <1>10
  <2>2. from[1] \in 1 .. 2 /\ from[2] \in 1 .. 2 /\ from[3] \in 1 .. 2
    BY <1>9, <2>1
  <2>3. from[1] < from[2] /\ from[2] < from[3]
    BY <1>9, <2>1
  <2> QED BY <2>2, <2>3
<1>12. ASSUME NEW a \in 1 .. Len(r)
       PROVE  /\ r[a] \in Range(retained[at(from[a])]) /\ r[a].topic = at(from[a])
              /\ from[a] \in 1 .. 2
  <2>1. from[a] \in 1 .. 2 /\ retained[at(from[a])] = <<r[a]>> /\ r[a] \in Frame
    BY <1>5, <1>8, <1>9
  <2>2. Range(<<r[a]>>) = {r[a]}
    BY <2>1, RangeOfOne
  <2>3. r[a] \in Range(retained[at(from[a])]) /\ at(from[a]) \in Topics
    BY <1>3, <2>1, <2>2
  <2> HIDE DEF at
  <2> QED BY <2>1, <2>3 DEF Sorted
<1>13. ASSUME NEW a \in 1 .. Len(r)
       PROVE  /\ r[a].topic \in {p, "halt"}
              /\ r[a].topic = p => r[a] \in Range(retained[p]) /\ from[a] = 1
  BY <1>1, <1>12
<1>14. Rising(r, p)
  <2> SUFFICES ASSUME NEW a \in 1 .. Len(r), NEW b \in 1 .. Len(r), a < b,
                      r[a].topic = p, r[b].topic = p
               PROVE  FALSE
    BY DEF Rising
  <2>1. from[a] = 1 /\ from[b] = 1
    BY <1>13
  <2> QED BY <1>9, <2>1
<1>15. \A f \in Range(r) : f.topic \in {p, "halt"} /\ (f.topic = p => f \in Range(retained[p]))
  <2>1. \A f \in Range(r) : \E a \in 1 .. Len(r) : f = r[a]
    BY <1>8, RangeIs
  <2> QED BY <1>13, <2>1
<1> QED BY <1>8, <1>11, <1>14, <1>15 DEF r

\* A socket connects and is replayed what is retained, or breaks.
LEMMA SocketInductive ==
  ASSUME Inductive, NEW p \in Panes, Connect(p) \/ Disconnect(p) PROVE Inductive'
<1>1. /\ UNCHANGED loop
      /\ UNCHANGED <<armed, line, pub, retained, panes, paneLife, haltSeen>>
      /\ up' \in {up \cup {p}, up \ {p}}
  BY DEF Connect, Disconnect, chaos, hub, screen
<1>2. PICK t \in {Replay(p), <<>>} : sock' = [sock EXCEPT ![p] = t]
  BY DEF Connect, Disconnect
<1>3. /\ t \in Seq(Frame) /\ Len(t) <= SendBuffer /\ Rising(t, p)
      /\ \A f \in Range(t) : f.topic \in {p, "halt"} /\ (f.topic = p => f \in Range(retained[p]))
  <2>1. CASE t = Replay(p)
    <3>1. /\ t \in Seq(Frame) /\ Len(t) <= 2 /\ Rising(t, p)
          /\ \A f \in Range(t) : f.topic \in {p, "halt"} /\ (f.topic = p => f \in Range(retained[p]))
      BY <2>1, ReplayIs, Zenon DEF Inductive
    <3>2. Len(t) <= SendBuffer
      BY <3>1, CapacitiesAre
    <3> QED BY <3>1, <3>2
  <2>2. CASE t = <<>>
    <3>1. <<>> \in Seq(Frame) /\ Len(<<>>) <= 1 /\ Len(<<>>) <= SendBuffer
      BY CapacitiesAre
    <3>2. Rising(<<>>, p)
      BY <3>1, RisingOne
    <3> QED BY <2>2, <3>1, <3>2, RangeOfNothing
  <2> QED BY <1>2, <2>1, <2>2
<1>4. /\ sock' \in [Panes -> Seq(Frame)] /\ sock'[p] = t
      /\ \A q \in Panes \ {p} : sock'[q] = sock[q]
  BY <1>2, <1>3 DEF Inductive, Types
<1>5. \A q \in Panes : Len(sock'[q]) <= SendBuffer
  <2>1. \A q \in Panes : Len(sock[q]) <= SendBuffer
    BY DEF Inductive, Types, TypeOK
  <2> QED BY <1>3, <1>4, <2>1
<1>6. Sorted'
  <2>1. ASSUME NEW q \in Panes, NEW f \in Range(sock'[q]) PROVE f.topic \in {q, "halt"}
    <3>1. CASE q = p
      BY <1>3, <1>4, <2>1, <3>1
    <3>2. CASE q # p
      <4>1. sock'[q] = sock[q]
        BY <1>4, <3>2
      <4> QED BY <2>1, <4>1 DEF Inductive, Sorted
    <3> QED BY <3>1, <3>2
  <2> QED BY <1>1, <2>1 DEF Inductive, Sorted, Topics, Panes
<1>7. ASSUME NEW q \in Panes
      PROVE  Ordered(q, sock'[q], retained'[q], pub', line', Shown(q), lastGood)
  <2>1. /\ Shown(q) \in Nat /\ lastGood \in Nat /\ Way(sock[q], retained[q], pub, line)
        /\ Ordered(q, sock[q], retained[q], pub, line, Shown(q), lastGood)
    BY WayIs DEF Inductive, OnItsWay
  <2>2. CASE q = p
    <3>1. Ordered(q, t, retained[q], pub, line, Shown(q), lastGood)
      BY <1>3, <2>1, <2>2, WayReplays
    <3> QED BY <1>1, <1>4, <2>2, <3>1
  <2>3. CASE q # p
    <3>1. sock'[q] = sock[q]
      BY <1>4, <2>3
    <3> QED BY <1>1, <2>1, <3>1
  <2> QED BY <2>2, <2>3
<1>8. /\ retained' \in [Topics -> Seq(Frame)] /\ \A u \in Topics : Len(retained'[u]) <= 1
      /\ armed' \in BOOLEAN /\ up' \subseteq Panes
  BY <1>1 DEF Inductive, Types, TypeOK
<1>9. line' \in Seq(Frame) /\ Len(line') <= LineDepth /\ pub' \in Seq(Frame) /\ Len(pub') <= PubDepth
  BY <1>1, WayIs DEF Inductive
<1> QED BY <1>1, <1>4, <1>5, <1>6, <1>7, <1>8, <1>9, MoveInductive

\* What a frame that arrives makes of the screen.
LEMMA ReceiveIs ==
  ASSUME Inductive, NEW p \in Panes, Receive(p)
  PROVE  LET h == Head(sock[p])
         IN  /\ sock[p] # <<>> /\ h \in Range(sock[p]) /\ h \in Frame
             /\ UNCHANGED <<life, seq, lastGood, halted, armed, line, pub, retained, up>>
             /\ sock' = [sock EXCEPT ![p] = Tail(sock[p])]
             /\ haltSeen' \in {haltSeen, life}
             /\ \/ UNCHANGED <<panes, paneLife>>
                \/ /\ h.topic = p /\ h.seq > panes[p]
                   /\ h.seq \in Shown(p) .. lastGood
                   /\ panes' = [panes EXCEPT ![p] = h.seq]
                   /\ paneLife' = [paneLife EXCEPT ![p] = life]
<1> DEFINE h == Head(sock[p])
<1>1. /\ sock[p] # <<>>
      /\ UNCHANGED <<life, seq, lastGood, halted, armed, line, pub, retained, up>>
      /\ sock' = [sock EXCEPT ![p] = Tail(sock[p])]
  BY DEF Receive, loop, chaos, hub
<1>2. h \in Range(sock[p]) /\ h \in Frame
  <2>1. sock[p] \in Seq(Frame)
    BY WayIs DEF Inductive
  <2>2. Rising(sock[p], "none")
    BY <2>1, RisingOfNone
  <2> QED BY <1>1, <2>1, <2>2, RisingTail
<1>3. h.topic \in {p, "halt"}
  BY <1>2 DEF Inductive, Sorted
<1>4. h.topic = p => h.seq \in Shown(p) .. lastGood
  BY <1>2 DEF Inductive, OnItsWay, Ordered, Within
<1>5. \/ /\ h.topic \in Panes /\ h.seq > panes[h.topic] /\ UNCHANGED haltSeen
         /\ panes' = [panes EXCEPT ![h.topic] = h.seq]
         /\ paneLife' = [paneLife EXCEPT ![h.topic] = life]
      \/ UNCHANGED <<panes, paneLife>> /\ haltSeen' \in {haltSeen, life}
  BY DEF Receive, Newer
<1> HIDE DEF h
<1>6. h.topic \in Panes => h.topic = p
  BY <1>3 DEF Panes
<1>7. CASE /\ h.topic \in Panes /\ h.seq > panes[h.topic] /\ UNCHANGED haltSeen
           /\ panes' = [panes EXCEPT ![h.topic] = h.seq]
           /\ paneLife' = [paneLife EXCEPT ![h.topic] = life]
  BY <1>1, <1>2, <1>4, <1>6, <1>7 DEF h
<1>8. CASE UNCHANGED <<panes, paneLife>> /\ haltSeen' \in {haltSeen, life}
  BY <1>1, <1>2, <1>8 DEF h
<1> QED BY <1>5, <1>7, <1>8

\* A frame reaches the screen, which shows it or passes it over.
LEMMA ReceiveInductive ==
  ASSUME Inductive, NEW p \in Panes, Receive(p) PROVE Inductive'
<1> DEFINE h == Head(sock[p])
<1>1. /\ sock[p] # <<>> /\ h \in Range(sock[p]) /\ h \in Frame
      /\ UNCHANGED <<life, seq, lastGood, halted, armed, line, pub, retained, up>>
      /\ sock' = [sock EXCEPT ![p] = Tail(sock[p])]
      /\ haltSeen' \in {haltSeen, life}
      /\ \/ UNCHANGED <<panes, paneLife>>
         \/ /\ h.topic = p /\ h.seq > panes[p]
            /\ h.seq \in Shown(p) .. lastGood
            /\ panes' = [panes EXCEPT ![p] = h.seq]
            /\ paneLife' = [paneLife EXCEPT ![p] = life]
  BY ReceiveIs
<1>2. /\ sock \in [Panes -> Seq(Frame)] /\ sock[p] \in Seq(Frame)
      /\ \A q \in Panes : Len(sock[q]) <= SendBuffer
  BY DEF Inductive, Types, TypeOK
<1>3. /\ Tail(sock[p]) \in Seq(Frame) /\ Len(Tail(sock[p])) = Len(sock[p]) - 1
      /\ Range(Tail(sock[p])) \subseteq Range(sock[p])
  <2>1. Rising(sock[p], "none")
    BY <1>2, RisingOfNone
  <2> QED BY <1>1, <1>2, <2>1, RisingTail
<1>4. /\ life \in Nat /\ seq \in 0 .. MaxCommands /\ lastGood \in 0 .. seq
      /\ panes \in [Panes -> 0 .. MaxCommands] /\ paneLife \in [Panes -> 0 .. life]
      /\ Shown(p) \in Nat /\ lastGood \in Nat /\ h.seq \in Nat
  BY <1>1, WayIs DEF Inductive, Types, TypeOK, Frame
<1>5. /\ sock' \in [Panes -> Seq(Frame)] /\ sock'[p] = Tail(sock[p])
      /\ \A q \in Panes \ {p} : sock'[q] = sock[q]
  BY <1>1, <1>2, <1>3
<1> HIDE DEF h
<1>6. /\ panes' \in [Panes -> 0 .. MaxCommands] /\ paneLife' \in [Panes -> 0 .. life]
      /\ \A q \in Panes \ {p} : panes'[q] = panes[q] /\ paneLife'[q] = paneLife[q]
      /\ Shown(p)' = Shown(p) \/ (h.topic = p /\ Shown(p)' = h.seq)
      /\ Shown(p)' <= lastGood
  <2>1. Shown(p) <= lastGood
    BY DEF Inductive, OnItsWay
  <2>2. CASE UNCHANGED <<panes, paneLife>>
    BY <1>1, <1>4, <2>1, <2>2 DEF Shown
  <2>3. CASE /\ h.topic = p /\ h.seq > panes[p]
             /\ h.seq \in Shown(p) .. lastGood
             /\ panes' = [panes EXCEPT ![p] = h.seq]
             /\ paneLife' = [paneLife EXCEPT ![p] = life]
    <3>1. h.seq \in 0 .. MaxCommands /\ life \in 0 .. life /\ h.seq <= lastGood
      BY <1>4, <2>3, CapacitiesAre
    <3>2. /\ panes' \in [Panes -> 0 .. MaxCommands] /\ paneLife' \in [Panes -> 0 .. life]
          /\ \A q \in Panes \ {p} : panes'[q] = panes[q] /\ paneLife'[q] = paneLife[q]
          /\ panes'[p] = h.seq /\ paneLife'[p] = life
      BY <1>4, <2>3, <3>1
    <3>3. Shown(p)' = h.seq
      BY <1>1, <3>2 DEF Shown
    <3> QED BY <2>3, <3>1, <3>2, <3>3
  <2> QED BY <1>1, <2>2, <2>3
<1>7. Types'
  <2>1. \A q \in Panes : sock'[q] \in Seq(Frame) /\ Len(sock'[q]) <= SendBuffer
    <3>1. Len(Tail(sock[p])) <= SendBuffer
      <4>1. Len(sock[p]) \in Nat /\ Len(sock[p]) <= SendBuffer
        BY <1>2
      <4> QED BY <1>3, <4>1, CapacitiesAre
    <3> QED BY <1>2, <1>5, <3>1
  <2>2. haltSeen' \in 0 .. life
    BY <1>1, <1>4 DEF Inductive, Types, TypeOK
  <2>3. TypeOK'
    BY <1>1, <1>6, <2>1, <2>2 DEF Inductive, Types, TypeOK, Frame, Topics, Panes
  <2> QED BY <1>1, <1>5, <2>3 DEF Inductive, Types, Frame, Topics, Panes
<1>8. Engine'
  BY <1>1 DEF Inductive, Engine
<1>9. Sorted'
  <2>1. ASSUME NEW q \in Panes, NEW f \in Range(sock'[q]) PROVE f.topic \in {q, "halt"}
    <3>1. f \in Range(sock[q])
      BY <1>3, <1>5, <2>1
    <3> QED BY <3>1 DEF Inductive, Sorted
  <2> QED BY <1>1, <2>1 DEF Inductive, Sorted, Topics, Panes
<1>10. ASSUME NEW q \in Panes PROVE OnItsWay(q)'
  <2>1. /\ Shown(q) \in Nat /\ Way(sock[q], retained[q], pub, line) /\ Shown(q) <= lastGood
        /\ Ordered(q, sock[q], retained[q], pub, line, Shown(q), lastGood)
    BY WayIs DEF Inductive, OnItsWay
  <2>2. CASE q = p
    <3> DEFINE c == Shown(p)'
               s == sock[p]
               r == retained[p]
               a == Shown(p)
    <3>1. c = a \/ (Head(s).topic = p /\ c = Head(s).seq)
      BY <1>6 DEF h
    <3>2. /\ a \in Nat /\ lastGood \in Nat /\ Way(s, r, pub, line) /\ s # <<>>
          /\ Ordered(p, s, r, pub, line, a, lastGood)
      BY <1>1, <1>4, <2>1, <2>2
    <3> HIDE DEF c, s, r, a
    <3>3. /\ Ordered(p, Tail(s), r, pub, line, a, lastGood)
          /\ Head(s).topic = p => Ordered(p, Tail(s), r, pub, line, Head(s).seq, lastGood)
      BY <3>2, WayArrives
    <3>4. Ordered(p, Tail(sock[p]), retained[p], pub, line, c, lastGood)
      BY <3>1, <3>3 DEF s, r
    <3> QED BY <1>1, <1>5, <1>6, <2>2, <3>4 DEF c, OnItsWay
  <2>3. CASE q # p
    <3>1. Shown(q)' = Shown(q) /\ sock'[q] = sock[q]
      BY <1>1, <1>5, <1>6, <2>3 DEF Shown
    <3> QED BY <1>1, <2>1, <3>1 DEF OnItsWay
  <2> QED BY <2>2, <2>3
<1> QED BY <1>7, <1>8, <1>9, <1>10 DEF Inductive, Panes

\* The server is started again: everything but the screen is new, and the book on it
\* is of an earlier life.
LEMMA RestartInductive ==
  ASSUME Inductive, Restart PROVE Inductive'
<1>1. /\ life < MaxLives /\ life' = life + 1 /\ seq' = 0 /\ lastGood' = 0 /\ halted' = FALSE
      /\ armed' = FALSE /\ line' = <<>> /\ pub' = <<>> /\ retained' = [t \in Topics |-> <<>>]
      /\ up' = {} /\ sock' = [p \in Panes |-> <<>>]
      /\ UNCHANGED <<panes, paneLife, haltSeen>>
  BY DEF Restart, screen
<1>2. /\ life \in 1 .. MaxLives /\ life \in Nat
      /\ panes \in [Panes -> 0 .. MaxCommands] /\ paneLife \in [Panes -> 0 .. life]
      /\ haltSeen \in 0 .. life
  BY CapacitiesAre DEF Inductive, Types, TypeOK
<1>3. <<>> \in Seq(Frame) /\ Len(<<>>) = 0 /\ 1 .. Len(<<>>) = {} /\ Range(<<>>) = {}
  BY RangeOfNothing
<1>4. Types'
  <2>1. /\ line' \in Seq(Frame) /\ Len(line') <= LineDepth
        /\ pub' \in Seq(Frame) /\ Len(pub') <= PubDepth
    BY <1>1, <1>3, CapacitiesAre
  <2>2. \A t \in Topics : retained'[t] \in Seq(Frame) /\ Len(retained'[t]) <= 1
    BY <1>1, <1>3
  <2>3. \A p \in Panes : sock'[p] \in Seq(Frame) /\ Len(sock'[p]) <= SendBuffer
    BY <1>1, <1>3, CapacitiesAre
  <2>4. retained' \in [Topics -> Seq(Frame)] /\ sock' \in [Panes -> Seq(Frame)]
    BY <1>1, <1>3
  <2>5. 0 .. life \subseteq 0 .. life'
    BY <1>1, <1>2
  <2>6. /\ life' \in 1 .. MaxLives /\ seq' \in 0 .. MaxCommands /\ lastGood' \in 0 .. seq'
    BY <1>1, <1>2, CapacitiesAre
  <2>7. /\ panes' \in [Panes -> 0 .. MaxCommands] /\ paneLife' \in [Panes -> 0 .. life']
        /\ haltSeen' \in 0 .. life'
    BY <1>1, <1>2, <2>5
  <2>8. {halted', armed'} \subseteq BOOLEAN /\ up' \subseteq Panes
    BY <1>1
  <2> QED BY <2>1, <2>2, <2>3, <2>4, <2>6, <2>7, <2>8 DEF Types, TypeOK, Frame, Topics, Panes
<1>5. Engine' /\ Sorted'
  BY <1>1, <1>3 DEF Engine, Sorted, Topics, Panes
<1>6. ASSUME NEW p \in Panes PROVE OnItsWay(p)'
  <2>1. paneLife'[p] # life'
    BY <1>1, <1>2
  <2>2. Shown(p)' = 0
    BY <2>1 DEF Shown
  <2>3. sock'[p] = <<>> /\ retained'[p] = <<>>
    BY <1>1 DEF Topics
  <2>4. Ordered(p, <<>>, <<>>, <<>>, <<>>, 0, 0)
    BY <1>3 DEF Ordered, Rising, Ahead, Within
  <2> QED BY <1>1, <2>2, <2>3, <2>4 DEF OnItsWay
<1> QED BY <1>4, <1>5, <1>6 DEF Inductive, Panes

\* Every step of the demonstration keeps the invariant.
LEMMA NextInductive == Inductive /\ [Next]_vars => Inductive'
<1> SUFFICES ASSUME Inductive, [Next]_vars PROVE Inductive'
  OBVIOUS
<1>1. CASE ApplyGood \/ ApplyBad \/ Keyframe
  BY <1>1, LoopInductive
<1>2. CASE Toggle \/ UNCHANGED vars
  BY <1>2, ToggleInductive
<1>3. CASE PassOn
  BY <1>3, PassOnInductive
<1>4. CASE LineDrops
  BY <1>4, LineDropsInductive
<1>5. CASE Deliver
  BY <1>5, DeliverInductive
<1>6. ASSUME NEW p \in Panes, Connect(p) \/ Disconnect(p) PROVE Inductive'
  BY <1>6, SocketInductive
<1>7. ASSUME NEW p \in Panes, Receive(p) PROVE Inductive'
  BY <1>7, ReceiveInductive
<1>8. CASE Restart
  BY <1>8, RestartInductive
<1> QED BY <1>1, <1>2, <1>3, <1>4, <1>5, <1>6, <1>7, <1>8 DEF Next

-----------------------------------------------------------------------------
(* The panes are mirrors *)

\* What a step does to one pane and the engine behind it.
MirrorStep(p) ==
    \/ lastGood' = lastGood + 1 /\ UNCHANGED <<life, panes[p], paneLife[p]>>
    \/ life' = life + 1 /\ lastGood' = 0 /\ UNCHANGED <<panes[p], paneLife[p]>>
    \/ /\ panes'[p] \in panes[p] + 1 .. lastGood /\ paneLife'[p] = life
       /\ UNCHANGED <<life, lastGood>>
    \/ UNCHANGED <<life, lastGood, panes[p], paneLife[p]>>

\* A good command is a trade, a restart is one, a frame that is shown is newer than
\* what was, and no newer than the last good book; nothing else is seen.
LEMMA StepIsMirrored ==
  ASSUME Inductive, [Next]_vars, NEW p \in Panes
  PROVE  MirrorStep(p)
<1>1. CASE ApplyGood
  <2>1. lastGood' = lastGood + 1 /\ UNCHANGED <<life, panes, paneLife>>
    BY <1>1 DEF ApplyGood, screen, Inductive, Engine
  <2> QED BY <2>1 DEF MirrorStep
<1>2. CASE ApplyBad \/ Keyframe \/ Toggle \/ PassOn \/ LineDrops \/ Deliver \/ UNCHANGED vars
  <2>1. UNCHANGED <<life, lastGood, panes, paneLife>>
    BY <1>2 DEF ApplyBad, Keyframe, Toggle, PassOn, LineDrops, Deliver, vars, loop, screen
  <2> QED BY <2>1 DEF MirrorStep
<1>3. ASSUME NEW q \in Panes, Connect(q) \/ Disconnect(q) PROVE MirrorStep(p)
  <2>1. UNCHANGED <<life, lastGood, panes, paneLife>>
    BY <1>3 DEF Connect, Disconnect, loop, screen
  <2> QED BY <2>1 DEF MirrorStep
<1>4. ASSUME NEW q \in Panes, Receive(q) PROVE MirrorStep(p)
  <2> DEFINE h == Head(sock[q])
  <2>1. /\ UNCHANGED <<life, lastGood>> /\ h \in Frame
        /\ \/ UNCHANGED <<panes, paneLife>>
           \/ /\ h.seq > panes[q] /\ h.seq \in Shown(q) .. lastGood
              /\ panes' = [panes EXCEPT ![q] = h.seq]
              /\ paneLife' = [paneLife EXCEPT ![q] = life]
    BY <1>4, ReceiveIs
  <2> HIDE DEF h
  <2>2. CASE UNCHANGED <<panes, paneLife>>
    BY <2>1, <2>2 DEF MirrorStep
  <2>3. CASE /\ h.seq > panes[q] /\ h.seq \in Shown(q) .. lastGood
             /\ panes' = [panes EXCEPT ![q] = h.seq]
             /\ paneLife' = [paneLife EXCEPT ![q] = life]
    <3>1. panes \in [Panes -> Nat] /\ paneLife \in [Panes -> Nat] /\ lastGood \in Nat /\ Shown(q) \in Nat
      BY WayIs DEF Inductive
    <3>2. CASE q = p
      <4>1. panes'[p] = h.seq /\ paneLife'[p] = life
        BY <2>3, <3>1, <3>2
      <4>2. h.seq \in panes[p] + 1 .. lastGood
        BY <2>3, <3>1, <3>2
      <4> QED BY <2>1, <4>1, <4>2 DEF MirrorStep
    <3>3. CASE q # p
      <4>1. panes'[p] = panes[p] /\ paneLife'[p] = paneLife[p]
        BY <2>3, <3>1, <3>3
      <4> QED BY <2>1, <4>1 DEF MirrorStep
    <3> QED BY <3>2, <3>3
  <2> QED BY <2>1, <2>2, <2>3
<1>5. CASE Restart
  <2>1. life' = life + 1 /\ lastGood' = 0 /\ UNCHANGED <<panes, paneLife>>
    BY <1>5 DEF Restart, screen
  <2> QED BY <2>1 DEF MirrorStep
<1> QED BY <1>1, <1>2, <1>3, <1>4, <1>5 DEF Next

-----------------------------------------------------------------------------
(* Theorems *)

\* The invariant of the demonstration holds throughout every run of it.
THEOREM InductiveHolds == Spec => []Inductive
<1>1. Init => Inductive
  BY InitInductive
<1>2. Inductive /\ [Next]_vars => Inductive'
  BY NextInductive
<1> QED BY <1>1, <1>2, PTL DEF Spec

\* Every variable has its type: no queue ever holds more than its capacity.
THEOREM TypeCorrect == Spec => []TypeOK
<1>1. Inductive => TypeOK
  BY DEF Inductive, Types
<1> QED BY <1>1, InductiveHolds, PTL

\* No book overtakes another between the engine and the screen, and none that was
\* not good is on its way.
THEOREM BooksStayInOrder == Spec => []BooksInOrder
<1>1. Inductive => BooksInOrder
  BY OrderlyBooks
<1> QED BY <1>1, InductiveHolds, PTL

\* Each pane is a mirror of the engine that only moves forward, whatever is dropped,
\* delayed, refused or restarted on the way.
THEOREM PanesAreMirrors == Spec => ImplementsMirror
<1>1. Init => Fresh!Init /\ Stale!Init
  BY DEF Init, Fresh!Init, Stale!Init, Panes
<1>2. Inductive /\ [Next]_vars => [Fresh!Trade \/ Fresh!Restart \/ Fresh!Show]_Fresh!vars
  <2> SUFFICES ASSUME Inductive, [Next]_vars
               PROVE  [Fresh!Trade \/ Fresh!Restart \/ Fresh!Show]_Fresh!vars
    OBVIOUS
  <2>1. MirrorStep("fresh")
    BY StepIsMirrored DEF Panes
  <2> QED BY <2>1 DEF MirrorStep, Fresh!Trade, Fresh!Restart, Fresh!Show, Fresh!vars
<1>3. Inductive /\ [Next]_vars => [Stale!Trade \/ Stale!Restart \/ Stale!Show]_Stale!vars
  <2> SUFFICES ASSUME Inductive, [Next]_vars
               PROVE  [Stale!Trade \/ Stale!Restart \/ Stale!Show]_Stale!vars
    OBVIOUS
  <2>1. MirrorStep("stale")
    BY StepIsMirrored DEF Panes
  <2> QED BY <2>1 DEF MirrorStep, Stale!Trade, Stale!Restart, Stale!Show, Stale!vars
<1> QED BY <1>1, <1>2, <1>3, InductiveHolds, PTL
    DEF Spec, ImplementsMirror, Fresh!Spec, Stale!Spec
=============================================================================
