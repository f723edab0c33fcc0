----------------------------- MODULE QueueProofs ----------------------------
(***************************************************************************)
(* Lemmas about queues that the proofs about the components share: what    *)
(* the operations on a sequence give, place by place, and sequences of     *)
(* numbers that only go up, which is what a queue of numbered things looks *)
(* like when nothing overtakes and nothing is there twice; and flattening  *)
(* a sequence of queues into one.                                          *)
(***************************************************************************)
EXTENDS Integers, SequencesExt, SequenceTheorems, FiniteSetTheorems, WellFoundedInduction, TLAPS

\* A set of numbers has a least one, by the only theorem on well-founded orders
\* that takes no operator.
LEMMA LeastNat ==
  ASSUME NEW S \in SUBSET Nat, S # {}
  PROVE  \E m \in S : \A k \in S : m <= k
<1> DEFINE R == {p \in Nat \X Nat : p[1] < p[2]}
<1>1. IsWellFoundedOn(R, Nat)
  <2>1. OpToRel(<, Nat) = R
    BY Zenon DEF OpToRel
  <2> QED BY <2>1, NatLessThanWellFounded, Zenon
<1> HIDE DEF R
<1>2. PICK m \in S : \A k \in S : <<k, m>> \notin R
  BY <1>1, WFMin
<1>3. ASSUME NEW k \in S PROVE m <= k
  <2>1. k \in Nat /\ m \in Nat
    OBVIOUS
  <2>2. k < m => <<k, m>> \in R
    BY <2>1 DEF R
  <2>3. <<k, m>> \notin R
    BY <1>2
  <2> QED BY <2>1, <2>2, <2>3
<1> QED BY <1>3

-----------------------------------------------------------------------------
(* Queues, place by place *)

\* A function on 1 .. n is a sequence of length n.
LEMMA SeqOfFunction ==
  ASSUME NEW S, NEW n \in Nat, NEW f \in [1 .. n -> S]
  PROVE  f \in Seq(S) /\ Len(f) = n
<1>1. f \in Seq(S)
  BY IsASeq
<1> QED BY <1>1, LenProperties

\* What the elements of two queues end to end are.
LEMMA ConcatIs ==
  ASSUME NEW S, NEW s \in Seq(S), NEW t \in Seq(S)
  PROVE  /\ s \o t \in Seq(S) /\ Len(s \o t) = Len(s) + Len(t)
         /\ Len(s) \in Nat /\ Len(t) \in Nat
         /\ \A i \in 1 .. Len(s) : (s \o t)[i] = s[i]
         /\ \A i \in 1 .. Len(t) : (s \o t)[Len(s) + i] = t[i]
         /\ \A i \in 1 .. Len(s \o t) : i \in 1 .. Len(s) \/ \E k \in 1 .. Len(t) : i = Len(s) + k
<1>1. /\ s \o t \in Seq(S) /\ Len(s \o t) = Len(s) + Len(t)
      /\ Len(s) \in Nat /\ Len(t) \in Nat
      /\ \A i \in 1 .. Len(s) : (s \o t)[i] = s[i]
  OBVIOUS
<1>2. \A i \in 1 .. Len(t) : (s \o t)[Len(s) + i] = t[i]
  OBVIOUS
<1>3. ASSUME NEW i \in 1 .. Len(s \o t), i \notin 1 .. Len(s)
      PROVE  \E k \in 1 .. Len(t) : i = Len(s) + k
  <2>1. i - Len(s) \in 1 .. Len(t) /\ i = Len(s) + (i - Len(s))
    BY <1>1, <1>3
  <2> QED BY <2>1
<1> QED BY <1>1, <1>2, <1>3, Zenon

\* Append is a concatenation.
LEMMA AppendIs ==
  ASSUME NEW S, NEW s \in Seq(S), NEW e \in S
  PROVE  Append(s, e) = s \o <<e>>
OBVIOUS

\* The elements of a queue from place a to place b.
LEMMA CutIs ==
  ASSUME NEW S, NEW s \in Seq(S), NEW a \in 1 .. Len(s) + 1, NEW b \in a - 1 .. Len(s)
  PROVE  /\ SubSeq(s, a, b) \in Seq(S) /\ Len(SubSeq(s, a, b)) = b - a + 1
         /\ \A i \in 1 .. b - a + 1 : a + i - 1 \in 1 .. Len(s) /\ SubSeq(s, a, b)[i] = s[a + i - 1]
<1>1. Len(s) \in Nat /\ a \in Nat /\ b \in Nat /\ 1 <= a /\ b <= Len(s)
  OBVIOUS
<1>2. \A i \in a .. b : s[i] \in S
  BY <1>1
<1>3. SubSeq(s, a, b) \in Seq(S) /\ Len(SubSeq(s, a, b)) = b - a + 1
  BY <1>1, <1>2, SubSeqProperties
<1>4. ASSUME NEW i \in 1 .. b - a + 1
      PROVE  a + i - 1 \in 1 .. Len(s) /\ SubSeq(s, a, b)[i] = s[a + i - 1]
  BY <1>1
<1> QED BY <1>3, <1>4

\* A queue in which nothing is twice has as many things in it as places.
LEMMA CardOfSeq ==
  ASSUME NEW S, NEW s \in Seq(S), \A i, j \in 1 .. Len(s) : s[i] = s[j] => i = j
  PROVE  Cardinality({s[i] : i \in 1 .. Len(s)}) = Len(s) /\ IsFiniteSet({s[i] : i \in 1 .. Len(s)})
<1> DEFINE n == Len(s)
           T == {s[i] : i \in 1 .. n}
           f == [i \in 1 .. n |-> s[i]]
<1>1. n \in Nat
  OBVIOUS
<1> HIDE DEF n
<1>2. f \in [1 .. n -> T] /\ \A i \in 1 .. n : f[i] = s[i]
  OBVIOUS
<1> HIDE DEF f
<1>3. f \in Bijection(1 .. n, T)
  <2>1. IsInjective(f)
    BY <1>2 DEF IsInjective, n
  <2>2. \A t \in T : \E i \in 1 .. n : f[i] = t
    BY <1>2
  <2> QED BY <1>2, <2>1, <2>2 DEF Bijection, Injection, Surjection
<1> HIDE DEF T
<1>4. ExistsBijection(1 .. n, T)
  BY <1>3 DEF ExistsBijection
<1>5. IsFiniteSet(1 .. n)
  BY <1>1, FS_Interval
<1>6. Cardinality(T) = n /\ IsFiniteSet(T)
  BY <1>1, <1>4, <1>5, FS_CountingElements, FS_Bijection
<1> QED BY <1>6 DEF T, n

\* Queues end to end, one after the other.
LEMMA FlattenIs ==
  ASSUME NEW S, NEW qs \in Seq(Seq(S))
  PROVE  \E g \in [0 .. Len(qs) -> Seq(S)] :
             /\ g[0] = <<>>
             /\ \A i \in 1 .. Len(qs) : g[i] = g[i - 1] \o qs[i]
             /\ FlattenSeq(qs) = g[Len(qs)]
<1> DEFINE n == Len(qs)
           Built(k) == \E g \in [0 .. k -> Seq(S)] :
                           g[0] = <<>> /\ \A i \in 1 .. k : g[i] = g[i - 1] \o qs[i]
           Unbuilt == {k \in 0 .. n : ~Built(k)}
<1>1. n \in Nat /\ \A i \in 1 .. n : qs[i] \in Seq(S)
  OBVIOUS
<1> HIDE DEF n
<1>2. Built(0)
  <2>1. [i \in 0 .. 0 |-> <<>>] \in [0 .. 0 -> Seq(S)]
    OBVIOUS
  <2>2. [i \in 0 .. 0 |-> <<>>][0] = <<>> /\ 1 .. 0 = {}
    OBVIOUS
  <2> QED BY <2>1, <2>2
<1>3. ASSUME NEW k \in 1 .. n, Built(k - 1) PROVE Built(k)
  <2>1. PICK g \in [0 .. k - 1 -> Seq(S)] :
            g[0] = <<>> /\ \A i \in 1 .. k - 1 : g[i] = g[i - 1] \o qs[i]
    BY <1>3
  <2> DEFINE h == [i \in 0 .. k |-> IF i = k THEN g[k - 1] \o qs[k] ELSE g[i]]
  <2>2. g[k - 1] \in Seq(S) /\ qs[k] \in Seq(S)
    BY <1>1
  <2>3. g[k - 1] \o qs[k] \in Seq(S)
    BY <2>2, ConcatIs
  <2>4. h \in [0 .. k -> Seq(S)]
    BY <2>3
  <2>5. \A i \in 0 .. k : h[i] = IF i = k THEN g[k - 1] \o qs[k] ELSE g[i]
    OBVIOUS
  <2> HIDE DEF h
  <2>6. h[0] = <<>>
    BY <2>1, <2>5
  <2>7. ASSUME NEW i \in 1 .. k PROVE h[i] = h[i - 1] \o qs[i]
    <3>1. i - 1 \in 0 .. k /\ i - 1 # k /\ i \in 0 .. k
      OBVIOUS
    <3>2. CASE i = k
      BY <2>5, <3>1, <3>2, Zenon
    <3>3. CASE i # k
      <4>1. i \in 1 .. k - 1
        BY <3>3
      <4> QED BY <2>1, <2>5, <3>1, <3>3, <4>1, Zenon
    <3> QED BY <3>2, <3>3
  <2> QED BY <2>4, <2>6, <2>7
<1>4. Unbuilt = {}
  <2> HIDE DEF Built
  <2> SUFFICES ASSUME Unbuilt # {} PROVE FALSE
    OBVIOUS
  <2>1. Unbuilt \in SUBSET Nat
    BY <1>1
  <2>2. PICK m \in Unbuilt : \A k \in Unbuilt : m <= k
    BY <2>1, LeastNat
  <2>3. m \in 0 .. n /\ ~Built(m)
    OBVIOUS
  <2>4. m # 0
    BY <1>2, <2>3
  <2>5. m \in 1 .. n /\ m - 1 \in 0 .. n /\ m - 1 < m
    BY <1>1, <2>3, <2>4
  <2>6. m - 1 \notin Unbuilt
    BY <2>2, <2>3, <2>5
  <2>7. Built(m - 1)
    BY <2>5, <2>6
  <2> QED BY <1>3, <2>3, <2>5, <2>7
<1>5. PICK g \in [0 .. n -> Seq(S)] : g[0] = <<>> /\ \A i \in 1 .. n : g[i] = g[i - 1] \o qs[i]
  <2>1. n \in 0 .. n
    BY <1>1
  <2> HIDE DEF Built
  <2>2. Built(n)
    BY <1>4, <2>1
  <2> QED BY <2>2 DEF Built
<1>6. n # 0 => g[1] = qs[1]
  <2> SUFFICES ASSUME n # 0 PROVE g[1] = qs[1]
    OBVIOUS
  <2>1. 1 \in 1 .. n /\ 1 - 1 = 0
    BY <1>1
  <2>2. g[1] = g[0] \o qs[1]
    BY <1>5, <2>1, Zenon
  <2>3. <<>> \o qs[1] = qs[1]
    BY <1>1, <2>1
  <2> QED BY <1>5, <2>2, <2>3
<1>7. FlattenSeq(qs) = g[n]
  <2>1. CASE n = 0
    <3>1. qs = <<>>
      BY <2>1 DEF n
    <3> QED BY <1>5, <2>1, <3>1 DEF FlattenSeq, n
  <2>2. CASE n # 0
    <3> DEFINE Fl(f) == [i \in 1 .. Len(qs) |-> IF i = 1 THEN qs[i] ELSE f[i - 1] \o qs[i]]
               flatten == CHOOSE f : f = Fl(f)
               h == [i \in 1 .. n |-> g[i]]
    <3>1. h = Fl(h)
      <4>1. ASSUME NEW i \in 1 .. n PROVE h[i] = IF i = 1 THEN qs[i] ELSE h[i - 1] \o qs[i]
        <5>1. CASE i = 1
          BY <1>6, <2>2, <5>1
        <5>2. CASE i # 1
          <6>1. i - 1 \in 1 .. n
            BY <5>2, <1>1
          <6> QED BY <1>5, <5>2, <6>1
        <5> QED BY <5>1, <5>2
      <4> QED BY <4>1 DEF n
    <3> HIDE DEF h
    <3>2. flatten = Fl(flatten)
      BY <3>1, Zenon
    <3>3. FlattenSeq(qs) = flatten[n]
      BY <2>2 DEF FlattenSeq, n
    <3> HIDE DEF flatten
    <3>4. \A i \in 1 .. n : flatten[i] = IF i = 1 THEN qs[i] ELSE flatten[i - 1] \o qs[i]
      BY <3>2 DEF n
    <3> DEFINE Wrong == {i \in 1 .. n : flatten[i] # g[i]}
    <3>5. Wrong = {}
      <4> SUFFICES ASSUME Wrong # {} PROVE FALSE
        OBVIOUS
      <4>1. Wrong \in SUBSET Nat
        OBVIOUS
      <4>2. PICK m \in Wrong : \A k \in Wrong : m <= k
        BY <4>1, LeastNat
      <4>3. m \in 1 .. n /\ flatten[m] # g[m]
        OBVIOUS
      <4>4. CASE m = 1
        BY <1>6, <2>2, <3>4, <4>3, <4>4
      <4>5. CASE m # 1
        <5>1. m - 1 \in 1 .. n /\ m - 1 < m
          BY <1>1, <4>3, <4>5
        <5>2. flatten[m - 1] = g[m - 1]
          BY <4>2, <4>3, <5>1
        <5> QED BY <1>5, <3>4, <4>3, <4>5, <5>2
      <4> QED BY <4>4, <4>5
    <3>6. n \in 1 .. n
      BY <1>1, <2>2
    <3>7. flatten[n] = g[n]
      BY <3>5, <3>6
    <3> QED BY <3>3, <3>7, Zenon
  <2> QED BY <2>1, <2>2
<1> QED BY <1>5, <1>7 DEF n

\* r is made of the first k queues, of which each held one thing at most: what is at
\* place a came out of queue at[a].
MadeOf(r, qs, k) ==
    \E at \in [1 .. Len(r) -> 1 .. k] :
        /\ \A a, b \in 1 .. Len(r) : a < b => at[a] < at[b]
        /\ \A a \in 1 .. Len(r) : qs[at[a]] = <<r[a]>>
        /\ \A i \in 1 .. k : qs[i] # <<>> => \E a \in 1 .. Len(r) : at[a] = i

\* One more queue, that is empty or holds one thing.
LEMMA MadeOfMore ==
  ASSUME NEW S, NEW r \in Seq(S), NEW qs, NEW k \in Nat, MadeOf(r, qs, k),
         NEW q \in Seq(S), q = qs[k + 1], Len(q) <= 1
  PROVE  MadeOf(r \o q, qs, k + 1)
<1> DEFINE n == Len(r)
<1>1. PICK at \in [1 .. n -> 1 .. k] :
          /\ \A a, b \in 1 .. n : a < b => at[a] < at[b]
          /\ \A a \in 1 .. n : qs[at[a]] = <<r[a]>>
          /\ \A i \in 1 .. k : qs[i] # <<>> => \E a \in 1 .. n : at[a] = i
  BY DEF MadeOf
<1>2. n \in Nat /\ Len(q) \in Nat
  OBVIOUS
<1>3. CASE q = <<>>
  <2>1. r \o q = r
    BY <1>3
  <2>2. at \in [1 .. n -> 1 .. k + 1]
    <3>1. 1 .. k \subseteq 1 .. k + 1
      OBVIOUS
    <3> QED BY <3>1
  <2>3. \A i \in 1 .. k + 1 : qs[i] # <<>> => \E a \in 1 .. n : at[a] = i
    <3>1. \A i \in 1 .. k + 1 : i \in 1 .. k \/ i = k + 1
      OBVIOUS
    <3> QED BY <1>1, <1>3, <3>1
  <2> QED BY <1>1, <2>1, <2>2, <2>3 DEF MadeOf
<1>4. CASE q # <<>>
  <2> DEFINE R == r \o q
             At == [a \in 1 .. n + 1 |-> IF a = n + 1 THEN k + 1 ELSE at[a]]
  <2>1. Len(q) = 1 /\ q = <<q[1]>>
    <3>1. Len(q) # 0
      BY <1>4
    <3>2. Len(q) = 1
      <4>1. \A x \in Nat : x <= 1 /\ x # 0 => x = 1
        OBVIOUS
      <4> QED BY <1>2, <3>1, <4>1, Zenon
    <3>3. q[1] \in S
      BY <3>2
    <3> QED BY <3>2, <3>3
  <2>2. Len(R) = n + 1 /\ (\A a \in 1 .. n : R[a] = r[a]) /\ R[n + 1] = q[1]
    <3>1. 1 \in 1 .. Len(q)
      BY <2>1
    <3>2. /\ Len(R) = Len(r) + Len(q) /\ \A i \in 1 .. Len(r) : R[i] = r[i]
          /\ \A i \in 1 .. Len(q) : R[Len(r) + i] = q[i]
      BY ConcatIs
    <3> QED BY <2>1, <3>1, <3>2, Zenon
  <2> HIDE DEF n, R
  <2>3. \A a \in 1 .. n + 1 : (a \in 1 .. n /\ a # n + 1) \/ a = n + 1
    BY <1>2
  <2>4. At \in [1 .. n + 1 -> 1 .. k + 1]
    <3>1. ASSUME NEW a \in 1 .. n + 1 PROVE (IF a = n + 1 THEN k + 1 ELSE at[a]) \in 1 .. k + 1
      <4>1. CASE a \in 1 .. n
        <5>1. at[a] \in 1 .. k
          BY <1>1, <4>1
        <5> QED BY <2>3, <4>1, <5>1
      <4>2. CASE a = n + 1
        BY <4>2
      <4> QED BY <2>3, <4>1, <4>2
    <3> QED BY <3>1
  <2>5. /\ At[n + 1] = k + 1 /\ n + 1 \in 1 .. n + 1
        /\ \A a \in 1 .. n : At[a] = at[a] /\ at[a] \in 1 .. k /\ a \in 1 .. n + 1
    <3>1. n + 1 \in 1 .. n + 1
      BY <1>2
    <3>2. \A a \in 1 .. n : a \in 1 .. n + 1 /\ a # n + 1 /\ at[a] \in 1 .. k
      BY <1>1, <1>2
    <3> QED BY <3>1, <3>2
  <2> HIDE DEF At
  <2>6. ASSUME NEW a \in 1 .. n + 1, NEW b \in 1 .. n + 1, a < b PROVE At[a] < At[b]
    <3>1. a \in 1 .. n
      BY <1>2, <2>6
    <3>2. CASE b \in 1 .. n
      BY <1>1, <2>5, <2>6, <3>1, <3>2
    <3>3. CASE b = n + 1
      <4>1. At[a] \in 1 .. k /\ At[b] = k + 1
        BY <2>5, <3>1, <3>3
      <4> QED BY <4>1
    <3> QED BY <2>3, <3>2, <3>3
  <2>7. ASSUME NEW a \in 1 .. n + 1 PROVE qs[At[a]] = <<R[a]>>
    <3>1. CASE a \in 1 .. n
      BY <1>1, <2>2, <2>5, <3>1
    <3>2. CASE a = n + 1
      BY <2>1, <2>2, <2>5, <3>2
    <3> QED BY <2>3, <3>1, <3>2
  <2>8. ASSUME NEW i \in 1 .. k + 1, qs[i] # <<>> PROVE \E a \in 1 .. n + 1 : At[a] = i
    <3>1. CASE i \in 1 .. k
      BY <1>1, <2>5, <2>8, <3>1
    <3>2. CASE i = k + 1
      BY <2>5, <3>2
    <3> QED BY <3>1, <3>2
  <2>9. MadeOf(R, qs, k + 1)
    <3>1. /\ \A a, b \in 1 .. n + 1 : a < b => At[a] < At[b]
          /\ \A a \in 1 .. n + 1 : qs[At[a]] = <<R[a]>>
          /\ \A i \in 1 .. k + 1 : qs[i] # <<>> => \E a \in 1 .. n + 1 : At[a] = i
      BY <2>6, <2>7, <2>8, Zenon
    <3>2. Len(R) = n + 1
      BY <2>2
    <3>3. \E it \in [1 .. Len(R) -> 1 .. k + 1] :
             /\ \A a, b \in 1 .. Len(R) : a < b => it[a] < it[b]
             /\ \A a \in 1 .. Len(R) : qs[it[a]] = <<R[a]>>
             /\ \A i \in 1 .. k + 1 : qs[i] # <<>> => \E a \in 1 .. Len(R) : it[a] = i
      <4>1. At \in [1 .. Len(R) -> 1 .. k + 1]
        BY <2>4, <3>2, Zenon
      <4> USE <4>1
      <4> WITNESS At \in [1 .. Len(R) -> 1 .. k + 1]
      <4> QED BY <3>1, <3>2, <4>1, Zenon
    <3> QED BY <3>3 DEF MadeOf
  <2> QED BY <2>9 DEF R
<1> QED BY <1>3, <1>4

\* Queues that hold one thing at most, end to end.
LEMMA FlattenOnes ==
  ASSUME NEW S, NEW qs \in Seq(Seq(S)), \A i \in 1 .. Len(qs) : Len(qs[i]) <= 1
  PROVE  FlattenSeq(qs) \in Seq(S) /\ MadeOf(FlattenSeq(qs), qs, Len(qs))
<1> DEFINE n == Len(qs)
<1>1. n \in Nat /\ \A i \in 1 .. n : qs[i] \in Seq(S)
  OBVIOUS
<1>2. PICK g \in [0 .. n -> Seq(S)] :
          /\ g[0] = <<>> /\ \A i \in 1 .. n : g[i] = g[i - 1] \o qs[i]
          /\ FlattenSeq(qs) = g[n]
  BY FlattenIs
<1> HIDE DEF n
<1>3. MadeOf(g[0], qs, 0)
  <2>1. g[0] = <<>> /\ 1 .. 0 = {} /\ Len(<<>>) = 0
    BY <1>2
  <2>2. [a \in 1 .. 0 |-> 0] \in [1 .. 0 -> 1 .. 0]
    BY <2>1
  <2> QED BY <2>1, <2>2 DEF MadeOf
<1>4. ASSUME NEW k \in 1 .. n, MadeOf(g[k - 1], qs, k - 1) PROVE MadeOf(g[k], qs, k)
  <2>1. k - 1 \in 0 .. n /\ k - 1 \in Nat /\ k - 1 + 1 = k
    BY <1>1
  <2>2. g[k - 1] \in Seq(S) /\ qs[k] \in Seq(S) /\ Len(qs[k]) <= 1 /\ g[k] = g[k - 1] \o qs[k]
    BY <1>1, <1>2, <2>1 DEF n
  <2>3. MadeOf(g[k - 1] \o qs[k], qs, k - 1 + 1)
    BY <1>4, <2>1, <2>2, MadeOfMore
  <2> QED BY <2>1, <2>2, <2>3
<1> DEFINE Not == {k \in 0 .. n : ~MadeOf(g[k], qs, k)}
<1>5. Not = {}
  <2> SUFFICES ASSUME Not # {} PROVE FALSE
    OBVIOUS
  <2>1. Not \in SUBSET Nat
    BY <1>1
  <2>2. PICK m \in Not : \A k \in Not : m <= k
    BY <2>1, LeastNat
  <2>3. m \in 0 .. n /\ ~MadeOf(g[m], qs, m)
    OBVIOUS
  <2>4. m # 0
    BY <1>3, <2>3
  <2>5. m \in 1 .. n /\ m - 1 \in 0 .. n /\ ~(m <= m - 1)
    BY <1>1, <2>3, <2>4
  <2>6. MadeOf(g[m - 1], qs, m - 1)
    BY <2>2, <2>5
  <2> QED BY <1>4, <2>3, <2>5, <2>6
<1>6. n \in 0 .. n
  BY <1>1
<1>7. MadeOf(g[n], qs, n) /\ g[n] \in Seq(S)
  BY <1>2, <1>5, <1>6
<1> QED BY <1>2, <1>7 DEF n

-----------------------------------------------------------------------------
(* Queues that only go up *)

InOrder(s) == \A i, j \in 1 .. Len(s) : i < j => s[i] < s[j]

\* Everything in s comes before everything in t.
Below(s, t) == \A i \in 1 .. Len(s), j \in 1 .. Len(t) : s[i] < t[j]

UpTo(s, n) == \A i \in 1 .. Len(s) : s[i] <= n

\* Two queues end to end.
LEMMA ConcatUpTo ==
  ASSUME NEW s \in Seq(Nat), NEW t \in Seq(Nat), NEW n \in Nat, UpTo(s, n), UpTo(t, n)
  PROVE  UpTo(s \o t, n)
<1> SUFFICES ASSUME NEW i \in 1 .. Len(s \o t) PROVE (s \o t)[i] <= n
  BY DEF UpTo
<1>1. CASE i \in 1 .. Len(s)
  <2>1. (s \o t)[i] = s[i]
    BY <1>1, ConcatIs
  <2> QED BY <1>1, <2>1 DEF UpTo
<1>2. ASSUME NEW k \in 1 .. Len(t), i = Len(s) + k PROVE (s \o t)[i] <= n
  <2>1. (s \o t)[i] = t[k]
    BY <1>2, ConcatIs
  <2> QED BY <2>1 DEF UpTo
<1> QED BY <1>1, <1>2, ConcatIs

\* Two queues below a third are below it together.
LEMMA ConcatBelow ==
  ASSUME NEW s \in Seq(Nat), NEW t \in Seq(Nat), NEW u \in Seq(Nat), Below(s, u), Below(t, u)
  PROVE  Below(s \o t, u)
<1> SUFFICES ASSUME NEW i \in 1 .. Len(s \o t), NEW j \in 1 .. Len(u) PROVE (s \o t)[i] < u[j]
  BY DEF Below
<1>1. CASE i \in 1 .. Len(s)
  <2>1. (s \o t)[i] = s[i]
    BY <1>1, ConcatIs
  <2> QED BY <1>1, <2>1 DEF Below
<1>2. ASSUME NEW k \in 1 .. Len(t), i = Len(s) + k PROVE (s \o t)[i] < u[j]
  <2>1. (s \o t)[i] = t[k]
    BY <1>2, ConcatIs
  <2> QED BY <2>1 DEF Below
<1> QED BY <1>1, <1>2, ConcatIs

\* A queue below two others is below the two together.
LEMMA BelowConcat ==
  ASSUME NEW s \in Seq(Nat), NEW t \in Seq(Nat), NEW u \in Seq(Nat), Below(u, s), Below(u, t)
  PROVE  Below(u, s \o t)
<1> SUFFICES ASSUME NEW i \in 1 .. Len(s \o t), NEW j \in 1 .. Len(u) PROVE u[j] < (s \o t)[i]
  BY DEF Below
<1>1. CASE i \in 1 .. Len(s)
  <2>1. (s \o t)[i] = s[i]
    BY <1>1, ConcatIs
  <2> QED BY <1>1, <2>1 DEF Below
<1>2. ASSUME NEW k \in 1 .. Len(t), i = Len(s) + k PROVE u[j] < (s \o t)[i]
  <2>1. (s \o t)[i] = t[k]
    BY <1>2, ConcatIs
  <2> QED BY <2>1 DEF Below
<1> QED BY <1>1, <1>2, ConcatIs

\* Two rising queues, the first below the second, are one rising queue.
LEMMA ConcatInOrder ==
  ASSUME NEW s \in Seq(Nat), NEW t \in Seq(Nat), InOrder(s), InOrder(t), Below(s, t)
  PROVE  InOrder(s \o t)
<1> SUFFICES ASSUME NEW i \in 1 .. Len(s \o t), NEW j \in 1 .. Len(s \o t), i < j
             PROVE  (s \o t)[i] < (s \o t)[j]
  BY DEF InOrder
<1>1. CASE i \in 1 .. Len(s) /\ j \in 1 .. Len(s)
  <2>1. (s \o t)[i] = s[i] /\ (s \o t)[j] = s[j]
    BY <1>1, ConcatIs
  <2> QED BY <1>1, <2>1 DEF InOrder
<1>2. ASSUME i \in 1 .. Len(s), NEW k \in 1 .. Len(t), j = Len(s) + k
      PROVE  (s \o t)[i] < (s \o t)[j]
  <2>1. (s \o t)[i] = s[i]
    BY <1>2, ConcatIs
  <2>2. (s \o t)[j] = t[k]
    BY <1>2, ConcatIs
  <2> QED BY <1>2, <2>1, <2>2 DEF Below
<1>3. ASSUME NEW k \in 1 .. Len(t), NEW l \in 1 .. Len(t), i = Len(s) + k, j = Len(s) + l
      PROVE  (s \o t)[i] < (s \o t)[j]
  <2>1. k < l
    BY <1>3
  <2>2. (s \o t)[i] = t[k] /\ (s \o t)[j] = t[l]
    BY <1>3, ConcatIs
  <2> QED BY <2>1, <2>2 DEF InOrder
<1>4. ASSUME NEW k \in 1 .. Len(t), i = Len(s) + k, j \in 1 .. Len(s) PROVE FALSE
  BY <1>4
<1> QED BY <1>1, <1>2, <1>3, <1>4, ConcatIs

\* A queue of one.
LEMMA One ==
  ASSUME NEW e \in Nat
  PROVE  /\ <<e>> \in Seq(Nat) /\ InOrder(<<e>>)
         /\ \A n \in Nat : e <= n => UpTo(<<e>>, n)
         /\ \A s \in Seq(Nat) : Below(s, <<e>>) <=> \A i \in 1 .. Len(s) : s[i] < e
         /\ \A s \in Seq(Nat) : Below(<<e>>, s) <=> \A i \in 1 .. Len(s) : e < s[i]
<1>1. <<e>> \in Seq(Nat) /\ Len(<<e>>) = 1 /\ <<e>>[1] = e /\ 1 .. 1 = {1}
  OBVIOUS
<1>2. InOrder(<<e>>)
  BY <1>1 DEF InOrder
<1>3. \A n \in Nat : e <= n => UpTo(<<e>>, n)
  BY <1>1 DEF UpTo
<1>4. ASSUME NEW s \in Seq(Nat) PROVE Below(s, <<e>>) <=> \A i \in 1 .. Len(s) : s[i] < e
  BY <1>1, Zenon DEF Below
<1>5. ASSUME NEW s \in Seq(Nat) PROVE Below(<<e>>, s) <=> \A i \in 1 .. Len(s) : e < s[i]
  BY <1>1, Zenon DEF Below
<1> QED BY <1>1, <1>2, <1>3, <1>4, <1>5

\* A bound may be raised.
LEMMA UpToMore ==
  ASSUME NEW s \in Seq(Nat), NEW n \in Nat, NEW m \in Nat, n <= m, UpTo(s, n)
  PROVE  UpTo(s, m)
BY DEF UpTo

\* Something newer than all there is joins the back.
LEMMA AppendNewer ==
  ASSUME NEW s \in Seq(Nat), NEW n \in Nat, InOrder(s), UpTo(s, n)
  PROVE  /\ Append(s, n + 1) \in Seq(Nat)
         /\ InOrder(Append(s, n + 1)) /\ UpTo(Append(s, n + 1), n + 1)
         /\ \A t \in Seq(Nat) : UpTo(t, n) /\ Below(t, s) => Below(t, Append(s, n + 1))
<1>1. /\ <<n + 1>> \in Seq(Nat) /\ InOrder(<<n + 1>>) /\ UpTo(<<n + 1>>, n + 1)
      /\ \A t \in Seq(Nat) : UpTo(t, n) => Below(t, <<n + 1>>)
  <2>1. n + 1 \in Nat /\ n + 1 <= n + 1
    OBVIOUS
  <2>2. ASSUME NEW t \in Seq(Nat), UpTo(t, n) PROVE \A i \in 1 .. Len(t) : t[i] < n + 1
    BY <2>2 DEF UpTo
  <2> QED BY <2>1, <2>2, One
<1>2. Append(s, n + 1) = s \o <<n + 1>>
  BY AppendIs
<1>3. UpTo(s, n + 1)
  BY UpToMore
<1>4. InOrder(s \o <<n + 1>>)
  BY <1>1, ConcatInOrder
<1>5. UpTo(s \o <<n + 1>>, n + 1)
  <2>1. n + 1 \in Nat
    OBVIOUS
  <2> QED BY <1>1, <1>3, <2>1, ConcatUpTo, Zenon
<1>6. \A t \in Seq(Nat) : UpTo(t, n) /\ Below(t, s) => Below(t, s \o <<n + 1>>)
  BY <1>1, BelowConcat
<1>7. s \o <<n + 1>> \in Seq(Nat)
  BY <1>1
<1> QED BY <1>2, <1>4, <1>5, <1>6, <1>7, Zenon

\* A queue cut in two: each part keeps the order, the front is before the rest, and
\* both are before and after whatever the whole was.
Parts(s, a, b) ==
    /\ a \in Seq(Nat) /\ b \in Seq(Nat)
    /\ InOrder(a) /\ InOrder(b) /\ Below(a, b)
    /\ \A t \in Seq(Nat) : Below(s, t) => Below(a, t) /\ Below(b, t)
    /\ \A t \in Seq(Nat) : Below(t, s) => Below(t, a) /\ Below(t, b)
    /\ \A n \in Nat : UpTo(s, n) => UpTo(a, n) /\ UpTo(b, n)

\* A rising queue cut in two is two rising queues, the first below the second.
LEMMA CutKeeps ==
  ASSUME NEW s \in Seq(Nat), NEW k \in 0 .. Len(s), InOrder(s)
  PROVE  Parts(s, SubSeq(s, 1, k), SubSeq(s, k + 1, Len(s)))
<1> DEFINE a == SubSeq(s, 1, k)
           b == SubSeq(s, k + 1, Len(s))
<1>1. Len(s) \in Nat /\ k \in Nat /\ k <= Len(s) /\ \A i \in 1 .. Len(s) : s[i] \in Nat
  OBVIOUS
<1>2. /\ a \in Seq(Nat) /\ Len(a) = k
      /\ \A i \in 1 .. k : i \in 1 .. Len(s) /\ a[i] = s[i]
  OBVIOUS
<1>3. /\ b \in Seq(Nat) /\ Len(b) = Len(s) - k
      /\ \A i \in 1 .. Len(s) - k : k + i \in 1 .. Len(s) /\ b[i] = s[k + i]
  OBVIOUS
<1> HIDE DEF a, b
<1>4. InOrder(a)
  BY <1>1, <1>2 DEF InOrder
<1>5. InOrder(b)
  <2> SUFFICES ASSUME NEW i \in 1 .. Len(b), NEW j \in 1 .. Len(b), i < j PROVE b[i] < b[j]
    BY DEF InOrder
  <2>1. i \in 1 .. Len(s) - k /\ j \in 1 .. Len(s) - k
    BY <1>3, Zenon
  <2>2. b[i] = s[k + i] /\ b[j] = s[k + j] /\ k + i \in 1 .. Len(s) /\ k + j \in 1 .. Len(s)
    BY <1>3, <2>1, Zenon
  <2>3. k + i < k + j
    BY <1>1, <2>1
  <2> QED BY <2>2, <2>3 DEF InOrder
<1>6. Below(a, b)
  <2> SUFFICES ASSUME NEW i \in 1 .. Len(a), NEW j \in 1 .. Len(b) PROVE a[i] < b[j]
    BY DEF Below
  <2>1. i \in 1 .. k /\ j \in 1 .. Len(s) - k
    BY <1>2, <1>3, Zenon
  <2>2. a[i] = s[i] /\ b[j] = s[k + j] /\ i \in 1 .. Len(s) /\ k + j \in 1 .. Len(s)
    BY <1>2, <1>3, <2>1, Zenon
  <2>3. i < k + j
    BY <1>1, <2>1
  <2> QED BY <2>2, <2>3 DEF InOrder
<1>7. ASSUME NEW t \in Seq(Nat), Below(s, t) PROVE Below(a, t) /\ Below(b, t)
  <2>1. ASSUME NEW i \in 1 .. Len(a), NEW j \in 1 .. Len(t) PROVE a[i] < t[j]
    BY <1>2, <1>7 DEF Below
  <2>2. ASSUME NEW i \in 1 .. Len(b), NEW j \in 1 .. Len(t) PROVE b[i] < t[j]
    <3>1. b[i] = s[k + i] /\ k + i \in 1 .. Len(s)
      BY <1>3
    <3> QED BY <3>1, <1>7 DEF Below
  <2> QED BY <2>1, <2>2 DEF Below
<1>8. ASSUME NEW t \in Seq(Nat), Below(t, s) PROVE Below(t, a) /\ Below(t, b)
  <2>1. ASSUME NEW i \in 1 .. Len(a), NEW j \in 1 .. Len(t) PROVE t[j] < a[i]
    BY <1>2, <1>8 DEF Below
  <2>2. ASSUME NEW i \in 1 .. Len(b), NEW j \in 1 .. Len(t) PROVE t[j] < b[i]
    <3>1. b[i] = s[k + i] /\ k + i \in 1 .. Len(s)
      BY <1>3
    <3> QED BY <3>1, <1>8 DEF Below
  <2> QED BY <2>1, <2>2 DEF Below
<1>9. ASSUME NEW n \in Nat, UpTo(s, n) PROVE UpTo(a, n) /\ UpTo(b, n)
  <2>1. ASSUME NEW i \in 1 .. Len(a) PROVE a[i] <= n
    BY <1>2, <1>9 DEF UpTo
  <2>2. ASSUME NEW i \in 1 .. Len(b) PROVE b[i] <= n
    <3>1. b[i] = s[k + i] /\ k + i \in 1 .. Len(s)
      BY <1>3
    <3> QED BY <3>1, <1>9 DEF UpTo
  <2> QED BY <2>1, <2>2 DEF UpTo
<1>10. Parts(s, a, b)
  BY <1>2, <1>3, <1>4, <1>5, <1>6, <1>7, <1>8, <1>9, Zenon DEF Parts
<1> QED BY <1>10 DEF a, b

\* The head leaves.
LEMMA HeadIsCut ==
  ASSUME NEW S, NEW s \in Seq(S), s # <<>>
  PROVE  /\ 1 \in 0 .. Len(s)
         /\ <<Head(s)>> = SubSeq(s, 1, 1) /\ Tail(s) = SubSeq(s, 1 + 1, Len(s))
         /\ Head(s) \in S /\ Tail(s) \in Seq(S) /\ Len(Tail(s)) = Len(s) - 1
<1>1. Len(s) \in Nat \ {0} /\ Head(s) = s[1] /\ Head(s) \in S
  OBVIOUS
<1>2. Tail(s) \in Seq(S) /\ Len(Tail(s)) = Len(s) - 1
  OBVIOUS
<1>3. <<Head(s)>> = SubSeq(s, 1, 1)
  BY <1>1
<1>4. Tail(s) = SubSeq(s, 2, Len(s))
  BY TailIsSubSeq
<1> QED BY <1>1, <1>2, <1>3, <1>4

-----------------------------------------------------------------------------
(* Three queues in a row, through which things numbered 1 .. n pass *)

\* What has left, what waits and what queues: in this order they only go up.
Flow(left, waits, queues, n) ==
    /\ left \in Seq(Nat) /\ waits \in Seq(Nat) /\ queues \in Seq(Nat) /\ n \in Nat
    /\ InOrder(left) /\ InOrder(waits) /\ InOrder(queues)
    /\ Below(left, waits) /\ Below(left, queues) /\ Below(waits, queues)
    /\ UpTo(left, n) /\ UpTo(waits, n) /\ UpTo(queues, n)

\* Where nothing was ever sent, nothing is out of order.
LEMMA FlowOfNothing == Flow(<<>>, <<>>, <<>>, 0)
<1>1. <<>> \in Seq(Nat) /\ 1 .. Len(<<>>) = {}
  OBVIOUS
<1> QED BY <1>1 DEF Flow, InOrder, Below, UpTo

\* The next one is accepted.
LEMMA FlowAccepts ==
  ASSUME NEW l, NEW w, NEW q, NEW n, Flow(l, w, q, n)
  PROVE  Flow(l, w, Append(q, n + 1), n + 1)
<1>1. /\ l \in Seq(Nat) /\ w \in Seq(Nat) /\ q \in Seq(Nat) /\ n \in Nat
      /\ n + 1 \in Nat /\ n <= n + 1
  BY DEF Flow
<1>2. UpTo(l, n + 1) /\ UpTo(w, n + 1)
  BY <1>1, UpToMore DEF Flow
<1>3. /\ Append(q, n + 1) \in Seq(Nat)
      /\ InOrder(Append(q, n + 1)) /\ UpTo(Append(q, n + 1), n + 1)
      /\ Below(l, Append(q, n + 1)) /\ Below(w, Append(q, n + 1))
  BY <1>1, AppendNewer DEF Flow
<1> QED BY <1>1, <1>2, <1>3 DEF Flow

\* Nobody has accepted more, or nothing of it queues.
LEMMA FlowMore ==
  ASSUME NEW l, NEW w, NEW q, NEW n, NEW m \in Nat, n <= m, Flow(l, w, q, n)
  PROVE  Flow(l, w, q, m)
BY UpToMore DEF Flow

\* The head of the queue is dropped.
LEMMA FlowDrops ==
  ASSUME NEW l, NEW w, NEW q, NEW n, Flow(l, w, q, n), q # <<>>
  PROVE  Flow(l, w, Tail(q), n)
<1>1. l \in Seq(Nat) /\ w \in Seq(Nat) /\ q \in Seq(Nat) /\ n \in Nat /\ InOrder(q)
  BY DEF Flow
<1>2. 1 \in 0 .. Len(q) /\ Tail(q) = SubSeq(q, 1 + 1, Len(q)) /\ Tail(q) \in Seq(Nat)
  BY <1>1, HeadIsCut
<1>3. Parts(q, SubSeq(q, 1, 1), Tail(q))
  BY <1>1, <1>2, CutKeeps
<1> QED BY <1>1, <1>2, <1>3 DEF Flow, Parts

\* The head of what waits is shed.
LEMMA FlowSheds ==
  ASSUME NEW l, NEW w, NEW q, NEW n, Flow(l, w, q, n), w # <<>>
  PROVE  Flow(l, Tail(w), q, n)
<1>1. l \in Seq(Nat) /\ w \in Seq(Nat) /\ q \in Seq(Nat) /\ n \in Nat /\ InOrder(w)
  BY DEF Flow
<1>2. 1 \in 0 .. Len(w) /\ Tail(w) = SubSeq(w, 1 + 1, Len(w)) /\ Tail(w) \in Seq(Nat)
  BY <1>1, HeadIsCut
<1>3. Parts(w, SubSeq(w, 1, 1), Tail(w))
  BY <1>1, <1>2, CutKeeps
<1> QED BY <1>1, <1>2, <1>3 DEF Flow, Parts

\* The head of the queue goes to the back of what waits.
LEMMA FlowHolds ==
  ASSUME NEW l, NEW w, NEW q, NEW n, Flow(l, w, q, n), q # <<>>
  PROVE  Flow(l, Append(w, Head(q)), Tail(q), n)
<1> DEFINE h == <<Head(q)>>
<1>1. l \in Seq(Nat) /\ w \in Seq(Nat) /\ q \in Seq(Nat) /\ n \in Nat /\ InOrder(q)
  BY DEF Flow
<1>2. /\ 1 \in 0 .. Len(q) /\ h = SubSeq(q, 1, 1) /\ Tail(q) = SubSeq(q, 1 + 1, Len(q))
      /\ Head(q) \in Nat /\ Tail(q) \in Seq(Nat)
  BY <1>1, HeadIsCut
<1> HIDE DEF h
<1>3. Parts(q, h, Tail(q))
  BY <1>1, <1>2, CutKeeps
<1>4. Flow(l, w, Tail(q), n)
  BY FlowDrops
<1>5. /\ Below(l, h) /\ Below(w, h) /\ UpTo(h, n)
      /\ h \in Seq(Nat) /\ InOrder(h) /\ Below(h, Tail(q))
  BY <1>1, <1>3 DEF Flow, Parts
<1>6. InOrder(w \o h) /\ UpTo(w \o h, n) /\ w \o h \in Seq(Nat)
  BY <1>1, <1>5, ConcatInOrder, ConcatUpTo DEF Flow
<1>7. Below(l, w \o h) /\ Below(w \o h, Tail(q))
  BY <1>1, <1>2, <1>4, <1>5, ConcatBelow, BelowConcat DEF Flow
<1>8. Append(w, Head(q)) = w \o h
  BY <1>1, <1>2, AppendIs DEF h
<1> QED BY <1>4, <1>6, <1>7, <1>8 DEF Flow

\* The first k of what waits leave.
LEMMA FlowLeaves ==
  ASSUME NEW l, NEW w, NEW q, NEW n, Flow(l, w, q, n), NEW k \in 0 .. Len(w)
  PROVE  Flow(l \o SubSeq(w, 1, k), SubSeq(w, k + 1, Len(w)), q, n)
<1> DEFINE a == SubSeq(w, 1, k)
           b == SubSeq(w, k + 1, Len(w))
<1> HIDE DEF a, b
<1>1. l \in Seq(Nat) /\ w \in Seq(Nat) /\ q \in Seq(Nat) /\ n \in Nat /\ InOrder(w)
  BY DEF Flow
<1>2. Parts(w, a, b)
  BY <1>1, CutKeeps DEF a, b
<1>3. /\ Below(a, q) /\ Below(b, q) /\ Below(l, a) /\ Below(l, b) /\ UpTo(a, n) /\ UpTo(b, n)
      /\ a \in Seq(Nat) /\ b \in Seq(Nat) /\ InOrder(a) /\ InOrder(b) /\ Below(a, b)
  BY <1>1, <1>2 DEF Flow, Parts
<1>4. InOrder(l \o a) /\ UpTo(l \o a, n) /\ l \o a \in Seq(Nat)
  BY <1>1, <1>2, <1>3, ConcatInOrder, ConcatUpTo DEF Flow
<1>5. Below(l \o a, b) /\ Below(l \o a, q)
  BY <1>1, <1>2, <1>3, ConcatBelow DEF Flow
<1> QED BY <1>1, <1>2, <1>3, <1>4, <1>5 DEF Flow, a, b

\* When nothing waits, the head of the queue may leave at once.
LEMMA FlowPasses ==
  ASSUME NEW l, NEW q, NEW n, Flow(l, <<>>, q, n), q # <<>>
  PROVE  Flow(Append(l, Head(q)), <<>>, Tail(q), n)
<1>1. l \in Seq(Nat) /\ q \in Seq(Nat) /\ Head(q) \in Nat
  BY HeadIsCut DEF Flow
<1> DEFINE h == <<Head(q)>>
<1>2. Append(<<>>, Head(q)) = h
  OBVIOUS
<1>3. h \in Seq(Nat) /\ Len(h) = 1 /\ SubSeq(h, 1, 1) = h /\ SubSeq(h, 1 + 1, Len(h)) = <<>>
  <2>1. h \in Seq(Nat) /\ Len(h) = 1
    BY <1>1
  <2> HIDE DEF h
  <2>2. SubSeq(h, 1, Len(h)) = h
    BY <2>1, SubSeqFull
  <2> QED BY <2>1, <2>2, SubSeqEmpty
<1>4. Append(l, Head(q)) = l \o h
  BY <1>1, AppendIs
<1> HIDE DEF h
<1>5. Flow(l, h, Tail(q), n)
  BY <1>2, FlowHolds
<1>6. Flow(l \o SubSeq(h, 1, 1), SubSeq(h, 1 + 1, Len(h)), Tail(q), n)
  <2>1. 1 \in 0 .. Len(h)
    BY <1>3
  <2> QED BY <2>1, <1>5, FlowLeaves
<1> QED BY <1>3, <1>4, <1>6

\* What leaves, all at once or one at a time, is something new that arrives.
LEMMA FlowArrives ==
  ASSUME NEW l \in Seq(Nat), NEW a \in Seq(Nat), a # <<>>,
         NEW w, NEW q, NEW n, Flow(l \o a, w, q, n)
  PROVE  /\ Len(l \o a) > Len(l) /\ SubSeq(l \o a, 1, Len(l)) = l
         /\ InOrder(l \o a) /\ (l \o a)[Len(l \o a)] <= n
<1>1. /\ Len(l) \in Nat /\ Len(a) \in Nat \ {0}
      /\ l \o a \in Seq(Nat) /\ Len(l \o a) = Len(l) + Len(a)
      /\ \A i \in 1 .. Len(l) : (l \o a)[i] = l[i]
  BY ConcatIs
<1>2. InOrder(l \o a) /\ UpTo(l \o a, n)
  BY DEF Flow
<1> DEFINE whole == l \o a
<1> HIDE DEF whole
<1>3. SubSeq(whole, 1, Len(l)) = l
  <2>1. 1 \in 1 .. Len(whole) + 1 /\ Len(l) \in 1 - 1 .. Len(whole) /\ Len(l) - 1 + 1 = Len(l)
    BY <1>1 DEF whole
  <2>2. /\ SubSeq(whole, 1, Len(l)) \in Seq(Nat) /\ Len(SubSeq(whole, 1, Len(l))) = Len(l)
        /\ \A i \in 1 .. Len(l) : SubSeq(whole, 1, Len(l))[i] = whole[1 + i - 1]
    BY <1>1, <2>1, CutIs DEF whole
  <2>3. ASSUME NEW i \in 1 .. Len(l) PROVE SubSeq(whole, 1, Len(l))[i] = l[i]
    <3>1. 1 + i - 1 = i
      OBVIOUS
    <3> QED BY <1>1, <2>2, <3>1 DEF whole
  <2> QED BY <2>2, <2>3, SeqEqual
<1>4. Len(whole) \in 1 .. Len(whole)
  BY <1>1 DEF whole
<1>5. whole[Len(whole)] <= n
  BY <1>2, <1>4 DEF UpTo, whole
<1>6. Len(whole) > Len(l)
  BY <1>1 DEF whole
<1> QED BY <1>2, <1>3, <1>5, <1>6 DEF whole
=============================================================================
