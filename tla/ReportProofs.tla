---------------------------- MODULE ReportProofs ----------------------------
(***************************************************************************)
(* Theorems about what the engine tells of itself, for any of its inputs:  *)
(* the ledger, the cached totals and the snapshot add up however often     *)
(* int64 wraps, and the check after each command never condemns the book.  *)
(***************************************************************************)
EXTENDS BookProofs

-----------------------------------------------------------------------------
(* Sums over a set *)

\* The recursion by which a sum over S is computed, one element after another.
Picked(s) == CHOOSE x \in s : TRUE

Summed(f, s, g) == IF s = {} THEN 0 ELSE f[Picked(s)] + g[s \ {Picked(s)}]

SumsOf(f, S, g) == g = [s \in SUBSET S |-> Summed(f, s, g)]

\* The community module's sum is whatever satisfies that recursion.
LEMMA SumIsChosen ==
  ASSUME NEW f, NEW S
  PROVE  SumFunctionOnSet(f, S) = (CHOOSE g : SumsOf(f, S, g))[S]
BY DEF SumFunctionOnSet, FoldFunctionOnSet, MapThenFoldSet, SumsOf, Summed, Picked

\* Less one element, a finite set is smaller by one.
LEMMA LessOneIs ==
  ASSUME NEW s, IsFiniteSet(s), NEW x \in s
  PROVE  /\ IsFiniteSet(s \ {x}) /\ Cardinality(s) \in Nat
         /\ Cardinality(s \ {x}) \in Nat /\ Cardinality(s \ {x}) = Cardinality(s) - 1
BY FS_RemoveElement, FS_CardinalityType

\* The element that a sum takes first is one of its own.
LEMMA PickedIs ==
  ASSUME NEW s, s # {}
  PROVE  Picked(s) \in s
BY DEF Picked

\* On a finite set something does.
LEMMA SumsExist ==
  ASSUME NEW f, NEW S, IsFiniteSet(S)
  PROVE  \E g : SumsOf(f, S, g)
<1> DEFINE Small(n) == {s \in SUBSET S : Cardinality(s) <= n}
           Upto(n, g) == g = [s \in Small(n) |-> Summed(f, s, g)]
           Bad == {n \in Nat : ~ \E g : Upto(n, g)}
<1>1. \A s \in SUBSET S : IsFiniteSet(s) /\ Cardinality(s) \in Nat
  BY FS_Subset, FS_CardinalityType
<1>2. \A s \in SUBSET S : s # {} =>
         /\ Picked(s) \in s /\ s \ {Picked(s)} \in SUBSET S
         /\ Cardinality(s \ {Picked(s)}) = Cardinality(s) - 1
  <2> SUFFICES ASSUME NEW s \in SUBSET S, s # {}
               PROVE  /\ Picked(s) \in s /\ s \ {Picked(s)} \in SUBSET S
                      /\ Cardinality(s \ {Picked(s)}) = Cardinality(s) - 1
    OBVIOUS
  <2>1. Picked(s) \in s
    BY PickedIs
  <2> QED BY <1>1, <2>1, LessOneIs
<1>3. ASSUME NEW n \in Nat, NEW g, Upto(n, g) PROVE n + 1 \notin Bad
  <2> DEFINE h == [s \in Small(n + 1) |-> Summed(f, s, g)]
  <2>1. \A s \in Small(n + 1) : s # {} => s \ {Picked(s)} \in Small(n)
    BY <1>1, <1>2
  <2>2. Small(n) \subseteq Small(n + 1)
    BY <1>1
  <2>3. \A t \in Small(n) : g[t] = Summed(f, t, g)
    BY <1>3
  <2>4. \A t \in Small(n) : h[t] = g[t]
    BY <2>2, <2>3
  <2>5. \A s \in Small(n + 1) : Summed(f, s, h) = Summed(f, s, g)
    <3> HIDE DEF h, Small
    <3> QED BY <2>1, <2>4 DEF Summed
  <2> HIDE DEF Small
  <2>6. h = [s \in Small(n + 1) |-> Summed(f, s, h)]
    BY <2>5
  <2> QED BY <2>6
<1>4. 0 \notin Bad
  <2> DEFINE z == [s \in Small(0) |-> 0]
  <2>1. \A s \in Small(0) : s = {}
    BY <1>1, FS_EmptySet
  <2>2. \A s \in Small(0) : Summed(f, s, z) = 0
    BY <2>1 DEF Summed
  <2> HIDE DEF Small
  <2>3. z = [s \in Small(0) |-> Summed(f, s, z)]
    BY <2>2
  <2> QED BY <2>3
<1>5. Bad = {}
  <2> SUFFICES ASSUME Bad # {} PROVE FALSE
    OBVIOUS
  <2> Bad \in SUBSET Nat
    OBVIOUS
  <2> HIDE DEF Bad
  <2>1. PICK m \in Bad : \A k \in Bad : m <= k
    BY LeastNat
  <2>2. m \in Nat /\ m # 0
    BY <1>4
  <2>3. m - 1 \in Nat /\ m - 1 \notin Bad
    BY <2>1, <2>2
  <2> USE DEF Bad
  <2>4. PICK g : Upto(m - 1, g)
    BY <2>3
  <2> HIDE DEF Bad, Upto
  <2>5. (m - 1) + 1 \notin Bad
    BY <2>3, <2>4, <1>3
  <2> QED BY <2>1, <2>2, <2>5
<1> HIDE DEF Upto
<1>6. PICK g : Upto(Cardinality(S), g)
  BY <1>1, <1>5
<1> USE DEF Upto
<1>7. \A s \in SUBSET S : Cardinality(s) <= Cardinality(S)
  BY FS_Subset
<1>8. Small(Cardinality(S)) = SUBSET S
  BY <1>7
<1> HIDE DEF Small
<1> QED BY <1>6, <1>8 DEF SumsOf

\* Such a sum is a number, whatever element is taken first, and it depends on
\* nothing outside the set.
LEMMA SumsAre ==
  ASSUME NEW f, NEW S, IsFiniteSet(S), \A x \in S : f[x] \in Int,
         NEW g, SumsOf(f, S, g)
  PROVE  /\ g[{}] = 0
         /\ \A s \in SUBSET S : g[s] \in Int
         /\ \A s \in SUBSET S : \A x \in s : g[s] = f[x] + g[s \ {x}]
<1> DEFINE Fine(s) == g[s] \in Int /\ \A x \in s : g[s] = f[x] + g[s \ {x}]
           Bad == {Cardinality(s) : s \in {t \in SUBSET S : ~ Fine(t)}}
<1>1. \A s \in SUBSET S : IsFiniteSet(s) /\ Cardinality(s) \in Nat
  BY FS_Subset, FS_CardinalityType
<1>2. \A s \in SUBSET S : g[s] = Summed(f, s, g)
  BY DEF SumsOf
<1>3. \A s \in SUBSET S : \A x \in s : s \ {x} \in SUBSET S /\ Cardinality(s \ {x}) = Cardinality(s) - 1
  BY <1>1, LessOneIs
<1>4. g[{}] = 0
  BY <1>2 DEF Summed
<1>5. Bad = {}
  <2> SUFFICES ASSUME Bad # {} PROVE FALSE
    OBVIOUS
  <2>1. Bad \in SUBSET Nat
    BY <1>1
  <2>2. PICK m \in Bad : \A k \in Bad : m <= k
    <3> HIDE DEF Bad
    <3> QED BY <2>1, LeastNat
  <2>3. PICK s \in SUBSET S : ~ Fine(s) /\ Cardinality(s) = m
    BY <2>2
  <2>4. \A t \in SUBSET S : Cardinality(t) < m => Fine(t)
    <3> SUFFICES ASSUME NEW t \in SUBSET S, Cardinality(t) < m, ~ Fine(t) PROVE FALSE
      OBVIOUS
    <3>1. Cardinality(t) \in Bad /\ Cardinality(t) \in Nat /\ m \in Nat
      BY <1>1, <2>3
    <3> HIDE DEF Bad, Fine
    <3>2. m <= Cardinality(t)
      BY <2>2, <3>1
    <3> QED BY <3>1, <3>2
  <2>5. s # {}
    <3>1. Fine({})
      BY <1>4
    <3> QED BY <2>3, <3>1
  <2> DEFINE p == Picked(s)
  <2>6. p \in s /\ g[s] = f[p] + g[s \ {p}]
    BY <1>2, <2>5, PickedIs DEF Summed
  <2> HIDE DEF p
  <2>10. \A x \in s : s \ {x} \in SUBSET S /\ Fine(s \ {x})
    BY <1>1, <1>3, <2>3, <2>4
  <2>7. g[s \ {p}] \in Int /\ f[p] \in Int
    BY <2>6, <2>10
  <2>8. ASSUME NEW x \in s PROVE g[s] = f[x] + g[s \ {x}]
    <3>1. CASE x = p
      BY <2>6, <3>1
    <3>2. CASE x # p
      <4>1. x \in s \ {p} /\ p \in s \ {x} /\ (s \ {p}) \ {x} = (s \ {x}) \ {p}
        BY <2>6, <3>2
      <4>2. g[s \ {p}] = f[x] + g[(s \ {p}) \ {x}]
        BY <2>6, <2>10, <4>1
      <4>3. g[s \ {x}] = f[p] + g[(s \ {x}) \ {p}] /\ g[s \ {x}] \in Int /\ f[x] \in Int
        BY <2>10, <4>1
      <4>4. g[(s \ {x}) \ {p}] = g[(s \ {p}) \ {x}]
        BY <4>1
      <4>5. g[(s \ {p}) \ {x}] \in Int
        <5> DEFINE u == s \ {p}
        <5>1. u \in SUBSET S /\ Cardinality(u) = m - 1 /\ m \in Nat /\ x \in u
          BY <1>1, <1>3, <2>3, <2>6, <4>1
        <5> HIDE DEF u
        <5>2. u \ {x} \in SUBSET S /\ Cardinality(u \ {x}) = m - 2
          BY <1>3, <5>1
        <5>3. Fine(u \ {x})
          <6> HIDE DEF Fine
          <6> QED BY <2>4, <5>1, <5>2
        <5>4. g[u \ {x}] \in Int
          BY <5>3
        <5> QED BY <5>4 DEF u
      <4> QED BY <2>6, <2>7, <4>2, <4>3, <4>4, <4>5
    <3> QED BY <3>1, <3>2
  <2>11. g[s] \in Int
    BY <2>6, <2>7
  <2>9. Fine(s)
    BY <2>8, <2>11
  <2> QED BY <2>3, <2>9
<1>6. \A s \in SUBSET S : Fine(s)
  BY <1>5
<1> QED BY <1>4, <1>6

\* Two such recursions agree where the functions do.
LEMMA SumsAgree ==
  ASSUME NEW S, IsFiniteSet(S), NEW T \in SUBSET S, NEW f, NEW h, \A x \in T : f[x] = h[x],
         NEW g, SumsOf(f, S, g), NEW k, SumsOf(h, T, k)
  PROVE  \A s \in SUBSET T : g[s] = k[s]
<1> DEFINE Bad == {Cardinality(s) : s \in {t \in SUBSET T : g[t] # k[t]}}
<1>1. \A s \in SUBSET T : IsFiniteSet(s) /\ Cardinality(s) \in Nat
  BY FS_Subset, FS_CardinalityType
<1>2. \A s \in SUBSET T : g[s] = Summed(f, s, g) /\ k[s] = Summed(h, s, k)
  BY DEF SumsOf
<1> SUFFICES ASSUME NEW t \in SUBSET T, g[t] # k[t] PROVE FALSE
  OBVIOUS
<1>3. Bad \in SUBSET Nat /\ Bad # {}
  BY <1>1
<1>4. PICK m \in Bad : \A n \in Bad : m <= n
  <2> HIDE DEF Bad
  <2> QED BY <1>3, LeastNat
<1>5. PICK s \in SUBSET T : g[s] # k[s] /\ Cardinality(s) = m
  BY <1>4
<1>6. s # {}
  <2>1. g[{}] = 0 /\ k[{}] = 0
    BY <1>2 DEF Summed
  <2> QED BY <1>5, <2>1
<1> DEFINE p == Picked(s)
           u == s \ {p}
<1>7. p \in s /\ g[s] = f[p] + g[u] /\ k[s] = h[p] + k[u]
  BY <1>2, <1>6, PickedIs DEF Summed
<1>8. u \in SUBSET T /\ Cardinality(u) = m - 1 /\ m \in Nat
  BY <1>1, <1>5, <1>7, LessOneIs
<1> HIDE DEF p, u
<1>9. g[u] # k[u]
  BY <1>5, <1>7
<1>10. Cardinality(u) \in Bad
  BY <1>8, <1>9
<1> HIDE DEF Bad
<1>11. m <= m - 1
  BY <1>4, <1>8, <1>10
<1> QED BY <1>8, <1>11

\* A sum, element by element.
LEMMA SumIs ==
  ASSUME NEW S, IsFiniteSet(S), NEW f, \A x \in S : f[x] \in Int
  PROVE  /\ SumFunctionOnSet(f, S) \in Int
         /\ S = {} => SumFunctionOnSet(f, S) = 0
         /\ \A x \in S : SumFunctionOnSet(f, S) = f[x] + SumFunctionOnSet(f, S \ {x})
<1> DEFINE g == CHOOSE k : SumsOf(f, S, k)
<1>1. SumsOf(f, S, g) /\ SumFunctionOnSet(f, S) = g[S]
  BY SumsExist, SumIsChosen
<1> HIDE DEF g
<1>2. g[{}] = 0 /\ g[S] \in Int /\ \A x \in S : g[S] = f[x] + g[S \ {x}]
  BY <1>1, SumsAre
<1>3. ASSUME NEW x \in S PROVE SumFunctionOnSet(f, S \ {x}) = g[S \ {x}]
  <2> DEFINE T == S \ {x}
             k == CHOOSE j : SumsOf(f, T, j)
  <2>1. T \in SUBSET S /\ IsFiniteSet(T)
    BY FS_Subset
  <2> HIDE DEF T
  <2>2. SumsOf(f, T, k) /\ SumFunctionOnSet(f, T) = k[T]
    BY <2>1, SumsExist, SumIsChosen
  <2> HIDE DEF k
  <2>3. g[T] = k[T]
    BY <1>1, <2>1, <2>2, SumsAgree
  <2> QED BY <2>2, <2>3 DEF T
<1> QED BY <1>1, <1>2, <1>3

\* It depends on what is summed only.
LEMMA SumSame ==
  ASSUME NEW S, IsFiniteSet(S), NEW f, NEW h, \A x \in S : f[x] = h[x]
  PROVE  SumFunctionOnSet(f, S) = SumFunctionOnSet(h, S)
<1> DEFINE g == CHOOSE j : SumsOf(f, S, j)
           k == CHOOSE j : SumsOf(h, S, j)
<1>1. SumsOf(f, S, g) /\ SumFunctionOnSet(f, S) = g[S]
  BY SumsExist, SumIsChosen
<1>2. SumsOf(h, S, k) /\ SumFunctionOnSet(h, S) = k[S]
  BY SumsExist, SumIsChosen
<1> HIDE DEF g, k
<1>3. g[S] = k[S]
  <2>1. S \in SUBSET S
    OBVIOUS
  <2>2. \A s \in SUBSET S : g[s] = k[s]
    BY <1>1, <1>2, <2>1, SumsAgree
  <2> QED BY <2>1, <2>2
<1> QED BY <1>1, <1>2, <1>3

\* One element more, and one alone.
LEMMA SumMore ==
  ASSUME NEW S, IsFiniteSet(S), NEW f, \A x \in S : f[x] \in Int, NEW y, y \notin S, f[y] \in Int
  PROVE  SumFunctionOnSet(f, S \cup {y}) = f[y] + SumFunctionOnSet(f, S)
<1> DEFINE T == S \cup {y}
<1>1. IsFiniteSet(T) /\ (\A x \in T : f[x] \in Int) /\ y \in T /\ T \ {y} = S
  BY FS_AddElement
<1> HIDE DEF T
<1>2. SumFunctionOnSet(f, T) = f[y] + SumFunctionOnSet(f, T \ {y})
  BY <1>1, SumIs
<1> QED BY <1>1, <1>2 DEF T

\* The sum of one term is that term.
LEMMA SumOne ==
  ASSUME NEW y, NEW f, f[y] \in Int
  PROVE  SumFunctionOnSet(f, {y}) = f[y]
<1>1. IsFiniteSet({})
  BY FS_EmptySet
<1>2. SumFunctionOnSet(f, {}) = 0
  BY <1>1, SumIs
<1>3. SumFunctionOnSet(f, {} \cup {y}) = f[y] + SumFunctionOnSet(f, {})
  BY <1>1, SumMore
<1>4. {} \cup {y} = {y}
  OBVIOUS
<1> QED BY <1>2, <1>3, <1>4

\* The sum moves by as much as its only element that moves.
LEMMA SumMoves ==
  ASSUME NEW S, IsFiniteSet(S), NEW f, NEW h, \A x \in S : f[x] \in Int,
         NEW y \in S, h[y] \in Int, \A x \in S \ {y} : h[x] = f[x]
  PROVE  SumFunctionOnSet(h, S) = SumFunctionOnSet(f, S) + h[y] - f[y]
<1> DEFINE T == S \ {y}
           t == SumFunctionOnSet(f, T)
<1>1. IsFiniteSet(T) /\ (\A x \in T : f[x] \in Int) /\ (\A x \in T : h[x] = f[x])
  BY FS_Subset
<1>2. \A x \in S : h[x] \in Int
  OBVIOUS
<1>3. SumFunctionOnSet(f, S) = f[y] + t
  BY SumIs
<1>4. SumFunctionOnSet(h, S) = h[y] + SumFunctionOnSet(h, T)
  BY <1>2, SumIs
<1> HIDE DEF T
<1>5. SumFunctionOnSet(h, T) = t
  BY <1>1, SumSame
<1>6. t \in Int
  BY <1>1, SumIs
<1> HIDE DEF t
<1>7. f[y] \in Int
  OBVIOUS
<1> QED BY <1>3, <1>4, <1>5, <1>6, <1>7

\* Among the subsets of a finite set that are bad, one is bad only as a whole.
LEMMA SmallestSet ==
  ASSUME NEW S, IsFiniteSet(S), NEW B \in SUBSET SUBSET S, B # {}
  PROVE  \E s \in B : \A x \in s : s \ {x} \notin B
<1> DEFINE N == {Cardinality(s) : s \in B}
<1>1. \A s \in B : IsFiniteSet(s) /\ Cardinality(s) \in Nat
  BY FS_Subset, FS_CardinalityType
<1>2. N \in SUBSET Nat /\ N # {}
  BY <1>1
<1>3. PICK m \in N : \A n \in N : m <= n
  <2> HIDE DEF N
  <2> QED BY <1>2, LeastNat
<1>4. PICK s \in B : Cardinality(s) = m
  BY <1>3
<1>5. ASSUME NEW x \in s, s \ {x} \in B PROVE FALSE
  <2>1. Cardinality(s \ {x}) = m - 1 /\ m \in Nat
    BY <1>1, <1>4, LessOneIs
  <2>2. Cardinality(s \ {x}) \in N
    BY <1>5
  <2> HIDE DEF N
  <2>3. m <= m - 1
    BY <1>3, <2>1, <2>2
  <2> QED BY <2>1, <2>3
<1> QED BY <1>5

\* The sum over two sets that share nothing.
LEMMA SumOfTwo ==
  ASSUME NEW S, IsFiniteSet(S), NEW T, IsFiniteSet(T), S \cap T = {},
         NEW f, \A x \in S \cup T : f[x] \in Int
  PROVE  SumFunctionOnSet(f, S \cup T) = SumFunctionOnSet(f, S) + SumFunctionOnSet(f, T)
<1> DEFINE Sum(U) == SumFunctionOnSet(f, U)
           B == {U \in SUBSET T : Sum(S \cup U) # Sum(S) + Sum(U)}
<1>1. IsFiniteSet(S \cup T)
  BY FS_Union
<1>2. \A U \in SUBSET T : IsFiniteSet(U) /\ IsFiniteSet(S \cup U) /\ \A x \in S \cup U : f[x] \in Int
  <2>1. \A U \in SUBSET T : U \subseteq S \cup T /\ S \cup U \subseteq S \cup T
    OBVIOUS
  <2> QED BY <1>1, <2>1, FS_Subset
<1>3. \A U \in SUBSET T : Sum(U) \in Int /\ Sum(S \cup U) \in Int
  BY <1>2, SumIs
<1>4. Sum(S) \in Int
  BY SumIs
<1> SUFFICES ASSUME B # {} PROVE FALSE
  OBVIOUS
<1>5. PICK U \in B : \A x \in U : U \ {x} \notin B
  <2>1. B \in SUBSET SUBSET T
    OBVIOUS
  <2> HIDE DEF B
  <2> QED BY <2>1, SmallestSet
<1>6. CASE U = {}
  <2>1. Sum({}) = 0
    BY FS_EmptySet, SumIs
  <2>2. S \cup {} = S
    OBVIOUS
  <2> HIDE DEF Sum
  <2> QED BY <1>4, <1>5, <1>6, <2>1, <2>2
<1>7. ASSUME NEW x \in U PROVE FALSE
  <2> DEFINE V == U \ {x}
  <2>1. V \in SUBSET T /\ x \notin S \cup V /\ x \in T /\ U = V \cup {x} /\ S \cup U = (S \cup V) \cup {x}
    BY <1>5
  <2>2. Sum(S \cup V) = Sum(S) + Sum(V)
    BY <1>5, <1>7, <2>1
  <2> HIDE DEF V
  <2>3. f[x] \in Int
    BY <2>1
  <2>4. Sum(V \cup {x}) = f[x] + Sum(V)
    <3>1. x \notin V
      BY <2>1
    <3> QED BY <1>2, <2>1, <2>3, <3>1, SumMore
  <2>5. Sum((S \cup V) \cup {x}) = f[x] + Sum(S \cup V)
    BY <1>2, <2>1, <2>3, SumMore
  <2>6. Sum(V) \in Int
    BY <1>3, <2>1
  <2>7. Sum(S \cup U) # Sum(S) + Sum(U)
    BY <1>5
  <2>8. Sum(U) = f[x] + Sum(V) /\ Sum(S \cup U) = f[x] + Sum(S \cup V)
    BY <2>1, <2>4, <2>5
  <2> HIDE DEF Sum
  <2> QED BY <1>4, <2>2, <2>3, <2>6, <2>7, <2>8
<1> QED BY <1>6, <1>7

\* A sum of sums over sets that share nothing is the sum over all of them.
LEMMA SumOfSums ==
  ASSUME NEW I, IsFiniteSet(I), NEW G, \A i \in I : IsFiniteSet(G[i]),
         \A i, j \in I : i # j => G[i] \cap G[j] = {},
         NEW f, \A i \in I : \A x \in G[i] : f[x] \in Int
  PROVE  /\ IsFiniteSet(UNION {G[i] : i \in I})
         /\ SumFunctionOnSet([i \in I |-> SumFunctionOnSet(f, G[i])], I)
              = SumFunctionOnSet(f, UNION {G[i] : i \in I})
<1> DEFINE All(J) == UNION {G[i] : i \in J}
           each == [i \in I |-> SumFunctionOnSet(f, G[i])]
           Fine(J) == /\ IsFiniteSet(All(J))
                      /\ SumFunctionOnSet(each, J) = SumFunctionOnSet(f, All(J))
           B == {J \in SUBSET I : ~ Fine(J)}
<1>1. \A i \in I : each[i] \in Int /\ each[i] = SumFunctionOnSet(f, G[i])
  BY SumIs
<1>2. \A J \in SUBSET I : IsFiniteSet(J)
  BY FS_Subset
<1>3. B = {}
  <2> SUFFICES ASSUME B # {} PROVE FALSE
    OBVIOUS
  <2>1. PICK J \in B : \A i \in J : J \ {i} \notin B
    <3>1. B \in SUBSET SUBSET I
      OBVIOUS
    <3> HIDE DEF B
    <3> QED BY <3>1, SmallestSet
  <2>2. J \in SUBSET I /\ ~ Fine(J)
    BY <2>1
  <2>3. CASE J = {}
    <3>1. All({}) = {}
      OBVIOUS
    <3> HIDE DEF All, each
    <3>2. SumFunctionOnSet(each, {}) = 0 /\ SumFunctionOnSet(f, {}) = 0 /\ IsFiniteSet({})
      BY FS_EmptySet, SumIs
    <3> QED BY <2>2, <2>3, <3>1, <3>2
  <2>4. ASSUME NEW i \in J PROVE FALSE
    <3> DEFINE K == J \ {i}
    <3>1. K \in SUBSET I /\ i \notin K /\ i \in I /\ J = K \cup {i}
      BY <2>2
    <3>2. Fine(K)
      BY <2>1, <2>4, <3>1
    <3> HIDE DEF K
    <3>3. All(J) = All(K) \cup G[i] /\ All(K) \cap G[i] = {}
      BY <3>1
    <3>4. \A x \in All(K) \cup G[i] : f[x] \in Int
      BY <3>1
    <3>5. IsFiniteSet(All(K)) /\ IsFiniteSet(G[i]) /\ SumFunctionOnSet(each, K) = SumFunctionOnSet(f, All(K))
      BY <3>1, <3>2
    <3> HIDE DEF All, each
    <3>6. SumFunctionOnSet(f, All(J)) = SumFunctionOnSet(f, All(K)) + SumFunctionOnSet(f, G[i])
      BY <3>3, <3>4, <3>5, SumOfTwo
    <3>7. SumFunctionOnSet(each, J) = each[i] + SumFunctionOnSet(each, K)
      <4>1. IsFiniteSet(K) /\ (\A j \in K : each[j] \in Int) /\ each[i] \in Int
        BY <1>1, <1>2, <3>1
      <4> QED BY <3>1, <4>1, SumMore
    <3>8. IsFiniteSet(All(J))
      <4>1. IsFiniteSet(All(K) \cup G[i])
        BY <3>5, FS_Union
      <4> QED BY <3>3, <4>1
    <3>9. SumFunctionOnSet(f, All(K)) \in Int /\ each[i] = SumFunctionOnSet(f, G[i]) /\ each[i] \in Int
      <4>1. \A x \in All(K) : f[x] \in Int
        BY <3>4
      <4>2. SumFunctionOnSet(f, All(K)) \in Int
        BY <3>5, <4>1, SumIs
      <4> QED BY <1>1, <3>1, <4>2
    <3> QED BY <2>2, <3>5, <3>6, <3>7, <3>8, <3>9
  <2> QED BY <2>3, <2>4
<1>4. Fine(I)
  BY <1>3
<1> QED BY <1>4
-----------------------------------------------------------------------------
(* Machine integers *)

\* Two sums that differ by whole turns of the register.
Congruent(x, y) == \E k \in Int : x = y + k * (2 * Int64Half)

\* A register has a positive number of values.
LEMMA TurnIs == 2 * Int64Half \in Nat /\ 2 * Int64Half > 0
BY Int64HalfAssumption

\* Wrapping moves a number by whole turns, into the register.
LEMMA Int64Is ==
  ASSUME NEW x \in Int
  PROVE  Int64(x) \in Int64s /\ Int64(x) \in Int /\ Congruent(Int64(x), x)
<1> DEFINE m == 2 * Int64Half
           y == x + Int64Half
           q == y \div m
<1>1. m \in Nat /\ m > 0 /\ Int64Half \in Int /\ m = 2 * Int64Half
  BY Int64HalfAssumption
<1>2. y \in Int
  BY <1>1
<1> HIDE DEF m, y
<1>3. y % m \in 0 .. (m - 1) /\ q \in Int /\ y = m * q + (y % m)
  BY <1>1, <1>2
<1> HIDE DEF q
<1>4. Int64(x) = (y % m) - Int64Half
  BY DEF Int64, m, y
<1>5. -q \in Int /\ m * q = q * m /\ (-q) * m = - (q * m) /\ m * q \in Int
  BY <1>1, <1>3
<1>6. Int64(x) = x + (-q) * m
  BY <1>1, <1>3, <1>4, <1>5 DEF y
<1>7. Int64(x) \in Int64s
  BY <1>1, <1>3, <1>4 DEF Int64s
<1>8. Int64(x) \in Int
  BY <1>1, <1>3, <1>4
<1> QED BY <1>1, <1>5, <1>6, <1>7, <1>8 DEF Congruent

\* A machine integer has one representation.
LEMMA CongruentSame ==
  ASSUME NEW x \in Int64s, NEW y \in Int64s, Congruent(x, y)
  PROVE  x = y
<1> DEFINE m == 2 * Int64Half
<1>1. PICK k \in Int : x = y + k * m
  BY DEF Congruent
<1>2. m \in Nat /\ m > 0 /\ x \in Int /\ y \in Int /\ x - y < m /\ y - x < m
  BY Int64HalfAssumption DEF Int64s
<1> HIDE DEF m
<1>3. k > 0 => k * m >= m
  BY <1>2
<1>4. k < 0 => k * m <= -m
  BY <1>2
<1>5. k * m \in Int /\ (k = 0 => k * m = 0)
  BY <1>2
<1> QED BY <1>1, <1>2, <1>3, <1>4, <1>5

\* To differ by whole turns is an equivalence that sums respect.
LEMMA CongruentIs ==
  ASSUME NEW x \in Int, NEW y \in Int
  PROVE  /\ Congruent(x, x)
         /\ Congruent(x, y) => Congruent(y, x)
         /\ \A z \in Int : Congruent(x, y) /\ Congruent(y, z) => Congruent(x, z)
         /\ \A u, v \in Int : Congruent(x, y) /\ Congruent(u, v) => Congruent(x + u, y + v)
<1> DEFINE m == 2 * Int64Half
<1>1. m \in Int
  BY Int64HalfAssumption
<1> HIDE DEF m
<1>2. \A a, b \in Int : Congruent(a, b) <=> \E k \in Int : a = b + k * m
  BY DEF Congruent, m
<1>3. Congruent(x, x)
  <2>1. x = x + 0 * m
    BY <1>1
  <2> QED BY <1>2, <2>1
<1>4. ASSUME Congruent(x, y) PROVE Congruent(y, x)
  <2>1. PICK k \in Int : x = y + k * m
    BY <1>2, <1>4
  <2>2. y = x + (-k) * m /\ -k \in Int
    BY <1>1, <2>1
  <2> QED BY <1>2, <2>2
<1>5. ASSUME NEW z \in Int, Congruent(x, y), Congruent(y, z) PROVE Congruent(x, z)
  <2>1. PICK k \in Int : x = y + k * m
    BY <1>2, <1>5
  <2>2. PICK j \in Int : y = z + j * m
    BY <1>2, <1>5
  <2>3. (k + j) * m = k * m + j * m /\ k + j \in Int /\ k * m \in Int /\ j * m \in Int
    BY <1>1
  <2>4. x = z + (k + j) * m
    BY <2>1, <2>2, <2>3
  <2> QED BY <1>2, <2>3, <2>4
<1>6. ASSUME NEW u \in Int, NEW v \in Int, Congruent(x, y), Congruent(u, v)
      PROVE  Congruent(x + u, y + v)
  <2>1. PICK k \in Int : x = y + k * m
    BY <1>2, <1>6
  <2>2. PICK j \in Int : u = v + j * m
    BY <1>2, <1>6
  <2>3. (k + j) * m = k * m + j * m /\ k + j \in Int /\ k * m \in Int /\ j * m \in Int
    BY <1>1
  <2>4. x + u = (y + v) + (k + j) * m /\ x + u \in Int /\ y + v \in Int
    BY <2>1, <2>2, <2>3
  <2> QED BY <1>2, <2>3, <2>4
<1> QED BY <1>3, <1>4, <1>5, <1>6

\* Two numbers wrap to one exactly when they differ by whole turns.
LEMMA WrapsAlike ==
  ASSUME NEW x \in Int, NEW y \in Int
  PROVE  Int64(x) = Int64(y) <=> Congruent(x, y)
<1>1. Int64(x) \in Int64s /\ Int64(x) \in Int /\ Congruent(Int64(x), x)
  BY Int64Is
<1>2. Int64(y) \in Int64s /\ Int64(y) \in Int /\ Congruent(Int64(y), y)
  BY Int64Is
<1> DEFINE a == Int64(x)
           b == Int64(y)
<1> HIDE DEF a, b
<1>3. a \in Int64s /\ a \in Int /\ Congruent(a, x) /\ b \in Int64s /\ b \in Int /\ Congruent(b, y)
  BY <1>1, <1>2 DEF a, b
<1>4. Congruent(x, a) /\ Congruent(y, b)
  BY <1>3, CongruentIs
<1>5. ASSUME a = b PROVE Congruent(x, y)
  BY <1>3, <1>4, <1>5, CongruentIs
<1>6. ASSUME Congruent(x, y) PROVE a = b
  <2>1. Congruent(a, y)
    BY <1>3, <1>6, CongruentIs
  <2>2. Congruent(a, b)
    BY <1>3, <1>4, <2>1, CongruentIs
  <2> QED BY <1>3, <2>2, CongruentSame
<1> QED BY <1>5, <1>6 DEF a, b

\* Wrapping may wait until the end of a sum.
LEMMA WrapLater ==
  ASSUME NEW x \in Int, NEW y \in Int
  PROVE  /\ Int64(Int64(x) + y) = Int64(x + y)
         /\ Int64(Int64(x) - y) = Int64(x - y)
         /\ Int64(Int64(x)) = Int64(x)
<1>1. Int64(x) \in Int /\ Congruent(Int64(x), x)
  BY Int64Is
<1> DEFINE a == Int64(x)
<1> HIDE DEF a
<1>2. a \in Int /\ Congruent(a, x) /\ Congruent(y, y) /\ Congruent(-y, -y) /\ -y \in Int
  <2>1. -y \in Int /\ a \in Int /\ Congruent(a, x)
    BY <1>1 DEF a
  <2>2. Congruent(y, y)
    BY CongruentIs
  <2>3. Congruent(-y, -y)
    BY <2>1, CongruentIs
  <2> QED BY <2>1, <2>2, <2>3
<1>3. Congruent(a + y, x + y) /\ Congruent(a + (-y), x + (-y))
  BY <1>2, CongruentIs
<1>4. Int64(a + y) = Int64(x + y)
  BY <1>2, <1>3, WrapsAlike
<1>5. Int64(a + (-y)) = Int64(x + (-y))
  BY <1>2, <1>3, WrapsAlike
<1>6. Int64(a) = Int64(x)
  BY <1>2, WrapsAlike
<1>7. a + (-y) = a - y /\ x + (-y) = x - y
  BY <1>2
<1> QED BY <1>4, <1>5, <1>6, <1>7 DEF a
-----------------------------------------------------------------------------
(* What rests, summed by queue, by ladder and by id *)

Opens(ords) == [id \in DOMAIN ords |-> ords[id].open]

\* What the orders of a set have left.
Held(ords, ids) == SumFunctionOnSet(Opens(ords), ids)

\* A heap of orders whose quantities are numbers.
Counted(ords) == \A id \in DOMAIN ords : ords[id].open \in Int

\* A queue holds what the orders in it hold.
LEMMA QueueHolds ==
  ASSUME NEW side, NEW ords, Counted(ords), NEW lv \in Level, WellFormedLevel(side, lv, ords)
  PROVE  /\ IsFiniteSet(Range(lv.orders)) /\ Range(lv.orders) \subseteq DOMAIN ords
         /\ SumFunction([j \in DOMAIN lv.orders |-> ords[lv.orders[j]].open])
              = Held(ords, Range(lv.orders))
<1> DEFINE q == lv.orders
           I == DOMAIN q
           G == [j \in I |-> {q[j]}]
           f == Opens(ords)
<1>1. q \in Seq(Nat) /\ I = 1 .. Len(q) /\ Len(q) \in Nat
  BY DEF Level
<1>2. \A j \in I : q[j] \in DOMAIN ords /\ q[j] \in Nat
  BY <1>1 DEF WellFormedLevel
<1>3. \A j, k \in I : j # k => q[j] # q[k]
  <2>1. \A j, k \in I : j < k => q[j] < q[k]
    BY <1>1 DEF WellFormedLevel
  <2> HIDE DEF q
  <2>2. \A j, k \in I : j # k => j < k \/ k < j
    BY <1>1
  <2> QED BY <1>2, <2>1, <2>2
<1> HIDE DEF q
<1>4. IsFiniteSet(I)
  BY <1>1, FS_Interval
<1>5. \A x \in DOMAIN ords : f[x] = ords[x].open /\ f[x] \in Int
  BY DEF Opens, Counted
<1> HIDE DEF f
<1>6. \A j \in I : IsFiniteSet(G[j])
  <2>1. \A j \in I : IsFiniteSet({q[j]})
    BY FS_Singleton
  <2> QED BY <2>1
<1>61. \A j, k \in I : j # k => G[j] \cap G[k] = {}
  BY <1>3
<1>62. \A j \in I : \A x \in G[j] : f[x] \in Int
  BY <1>2, <1>5
<1>7. UNION {G[j] : j \in I} = Range(q)
  BY DEF Range
<1>8. \A j \in I : SumFunctionOnSet(f, G[j]) = ords[q[j]].open
  BY <1>2, <1>5, SumOne
<1> HIDE DEF G, I
<1>9. /\ IsFiniteSet(UNION {G[j] : j \in I})
      /\ SumFunctionOnSet([j \in I |-> SumFunctionOnSet(f, G[j])], I)
           = SumFunctionOnSet(f, UNION {G[j] : j \in I})
  BY <1>4, <1>6, <1>61, <1>62, SumOfSums
<1>10. [j \in I |-> SumFunctionOnSet(f, G[j])] = [j \in I |-> ords[q[j]].open]
  BY <1>8
<1>11. SumFunction([j \in I |-> ords[q[j]].open]) = SumFunctionOnSet([j \in I |-> ords[q[j]].open], I)
  BY DEF SumFunction
<1>12. Range(q) \subseteq DOMAIN ords
  BY <1>2 DEF Range, I
<1> QED BY <1>7, <1>9, <1>10, <1>11, <1>12 DEF Held, f, q, I

\* A ladder holds what its levels hold.
LEMMA LadderHolds ==
  ASSUME NEW side, NEW ords, Counted(ords), NEW d \in Seq(Level), WellFormed(side, d, ords)
  PROVE  /\ IsFiniteSet(Queued(d)) /\ Queued(d) \subseteq DOMAIN ords
         /\ SumFunction([i \in DOMAIN d |-> Held(ords, Range(d[i].orders))]) = Held(ords, Queued(d))
<1> DEFINE I == DOMAIN d
           G == [i \in I |-> Range(d[i].orders)]
           f == Opens(ords)
<1>1. I = 1 .. Len(d) /\ Len(d) \in Nat /\ IsFiniteSet(I)
  BY FS_Interval
<1>2. \A i \in I : d[i] \in Level /\ WellFormedLevel(side, d[i], ords)
  BY <1>1 DEF WellFormed
<1>3. \A i \in I : IsFiniteSet(G[i]) /\ G[i] \subseteq DOMAIN ords
  BY <1>2, QueueHolds
<1>4. \A i, j \in I : i # j => G[i] \cap G[j] = {}
  <2> SUFFICES ASSUME NEW i \in I, NEW j \in I, NEW x, x \in G[i], x \in G[j] PROVE i = j
    OBVIOUS
  <2>1. i \in 1 .. Len(d) /\ j \in 1 .. Len(d) /\ x \in Range(d[i].orders) /\ x \in Range(d[j].orders)
    BY <1>1
  <2> QED BY <2>1, LevelsDisjoint
<1>5. \A x \in DOMAIN ords : f[x] \in Int
  BY DEF Opens, Counted
<1>6. \A i \in I : \A x \in G[i] : f[x] \in Int
  BY <1>3, <1>5
<1>7. UNION {G[i] : i \in I} = Queued(d)
  BY DEF Queued
<1> HIDE DEF G, I, f
<1>8. /\ IsFiniteSet(UNION {G[i] : i \in I})
      /\ SumFunctionOnSet([i \in I |-> SumFunctionOnSet(f, G[i])], I)
           = SumFunctionOnSet(f, UNION {G[i] : i \in I})
  <2>1. IsFiniteSet(I) /\ \A i \in I : IsFiniteSet(G[i])
    BY <1>1, <1>3
  <2> QED BY <1>4, <1>6, <2>1, SumOfSums
<1>9. SumFunction([i \in I |-> SumFunctionOnSet(f, G[i])])
        = SumFunctionOnSet([i \in I |-> SumFunctionOnSet(f, G[i])], I)
  BY DEF SumFunction
<1>10. [i \in I |-> SumFunctionOnSet(f, G[i])] = [i \in I |-> Held(ords, Range(d[i].orders))]
  BY DEF G, f, Held
<1>11. Queued(d) \subseteq DOMAIN ords
  BY <1>3, <1>7
<1> QED BY <1>7, <1>8, <1>9, <1>10, <1>11 DEF Held, f, I

\* What a set of orders holds, after a change to it or to one of its orders.
LEMMA HeldIs ==
  ASSUME NEW ords, Counted(ords), NEW S \in SUBSET DOMAIN ords, IsFiniteSet(S)
  PROVE  /\ Held(ords, S) \in Int
         /\ S = {} => Held(ords, S) = 0
         /\ \A x \in S : Held(ords, S \ {x}) = Held(ords, S) - ords[x].open
<1> DEFINE f == Opens(ords)
<1>1. \A x \in S : f[x] = ords[x].open /\ f[x] \in Int
  BY DEF Opens, Counted
<1> HIDE DEF f
<1>2. /\ SumFunctionOnSet(f, S) \in Int
      /\ S = {} => SumFunctionOnSet(f, S) = 0
      /\ \A x \in S : SumFunctionOnSet(f, S) = f[x] + SumFunctionOnSet(f, S \ {x})
  BY <1>1, SumIs
<1>3. ASSUME NEW x \in S PROVE SumFunctionOnSet(f, S \ {x}) \in Int
  <2>1. IsFiniteSet(S \ {x}) /\ \A y \in S \ {x} : f[y] \in Int
    BY <1>1, FS_Subset
  <2> QED BY <2>1, SumIs
<1>4. ASSUME NEW x \in S
      PROVE  SumFunctionOnSet(f, S \ {x}) = SumFunctionOnSet(f, S) - ords[x].open
  BY <1>1, <1>2, <1>3
<1> QED BY <1>2, <1>4 DEF Held, f

\* One order more holds what it has left.
LEMMA HeldMore ==
  ASSUME NEW ords, Counted(ords), NEW S \in SUBSET DOMAIN ords, IsFiniteSet(S),
         NEW x \in DOMAIN ords, x \notin S
  PROVE  /\ IsFiniteSet(S \cup {x})
         /\ Held(ords, S \cup {x}) = Held(ords, S) + ords[x].open
<1> DEFINE T == S \cup {x}
<1>1. T \in SUBSET DOMAIN ords /\ IsFiniteSet(T) /\ x \in T /\ T \ {x} = S
  BY FS_AddElement
<1> HIDE DEF T
<1>2. Held(ords, T) \in Int /\ Held(ords, T \ {x}) = Held(ords, T) - ords[x].open
  BY <1>1, HeldIs
<1>3. ords[x].open \in Int
  BY DEF Counted
<1> DEFINE a == Held(ords, T)
           b == Held(ords, S)
           n == ords[x].open
<1>4. a \in Int /\ n \in Int /\ b = a - n
  BY <1>1, <1>2, <1>3
<1> HIDE DEF a, b, n
<1>5. a = b + n
  BY <1>4
<1> QED BY <1>1, <1>5 DEF T, a, b, n

\* Only what the orders of the set have left counts.
LEMMA HeldSame ==
  ASSUME NEW ords, NEW ords2, NEW S, S \subseteq DOMAIN ords, S \subseteq DOMAIN ords2,
         IsFiniteSet(S), \A x \in S : ords2[x].open = ords[x].open
  PROVE  Held(ords2, S) = Held(ords, S)
<1> DEFINE f == Opens(ords)
           g == Opens(ords2)
<1>1. \A x \in S : g[x] = f[x]
  BY DEF Opens
<1> HIDE DEF f, g
<1>2. SumFunctionOnSet(g, S) = SumFunctionOnSet(f, S)
  BY <1>1, SumSame
<1> QED BY <1>2 DEF Held, f, g

\* When one order of a set moves, what the set holds moves with it.
LEMMA HeldMoves ==
  ASSUME NEW ords, Counted(ords), NEW ords2, Counted(ords2),
         NEW S, S \subseteq DOMAIN ords, S \subseteq DOMAIN ords2,
         IsFiniteSet(S), NEW y \in S, \A x \in S : x # y => ords2[x].open = ords[x].open
  PROVE  Held(ords2, S) = Held(ords, S) + ords2[y].open - ords[y].open
<1> DEFINE f == Opens(ords)
           g == Opens(ords2)
<1>1. /\ \A x \in S : f[x] \in Int /\ f[x] = ords[x].open
      /\ \A x \in S \ {y} : g[x] = f[x]
      /\ g[y] = ords2[y].open /\ g[y] \in Int
  BY DEF Opens, Counted
<1> HIDE DEF f, g
<1>2. SumFunctionOnSet(g, S) = SumFunctionOnSet(f, S) + g[y] - f[y]
  BY <1>1, SumMoves
<1> QED BY <1>1, <1>2 DEF Held, f, g

-----------------------------------------------------------------------------
(* The cached totals *)

\* The total of a level is what its queue holds.
HonestLevel(lv, ords) == lv.total = Int64(Held(ords, Range(lv.orders)))

Honest(d, ords) == \A i \in 1 .. Len(d) : HonestLevel(d[i], ords)

\* Where one level changes, honestly, and only its orders do, the ladder stays honest.
LEMMA HonestAround ==
  ASSUME NEW side, NEW d \in Seq(Level), NEW ords, Counted(ords), WellFormed(side, d, ords),
         Honest(d, ords), NEW k \in 1 .. Len(d),
         NEW ords2, DOMAIN ords \subseteq DOMAIN ords2,
         \A x \in Queued(d) : x \notin Range(d[k].orders) => ords2[x].open = ords[x].open,
         NEW e \in Seq(Level),
         \A i \in 1 .. Len(e) : \/ HonestLevel(e[i], ords2)
                                \/ \E h \in 1 .. Len(d) : h # k /\ e[i] = d[h]
  PROVE  Honest(e, ords2)
<1>1. ASSUME NEW h \in 1 .. Len(d), h # k PROVE HonestLevel(d[h], ords2)
  <2> DEFINE S == Range(d[h].orders)
  <2>1. d[h] \in Level /\ WellFormedLevel(side, d[h], ords)
    BY DEF WellFormed
  <2>2. IsFiniteSet(S) /\ S \subseteq DOMAIN ords
    BY <2>1, QueueHolds
  <2>3. \A x \in S : x \in Queued(d) /\ x \notin Range(d[k].orders)
    BY <1>1, QueuedByLevel, LevelsDisjoint
  <2> HIDE DEF S
  <2>4. \A x \in S : ords2[x].open = ords[x].open
    BY <2>3
  <2>5. Held(ords2, S) = Held(ords, S)
    BY <2>2, <2>4, HeldSame
  <2>6. d[h].total = Int64(Held(ords, S))
    BY DEF Honest, HonestLevel, S
  <2> QED BY <2>5, <2>6 DEF HonestLevel, S
<1> QED BY <1>1 DEF Honest

\* Nor does it matter what becomes of orders that are not on the ladder.
LEMMA HonestElsewhere ==
  ASSUME NEW side, NEW d \in Seq(Level), NEW ords, Counted(ords), WellFormed(side, d, ords),
         Honest(d, ords),
         NEW ords2, DOMAIN ords \subseteq DOMAIN ords2,
         \A x \in Queued(d) : ords2[x].open = ords[x].open
  PROVE  Honest(d, ords2)
<1> SUFFICES ASSUME NEW h \in 1 .. Len(d) PROVE HonestLevel(d[h], ords2)
  BY DEF Honest
<1> DEFINE S == Range(d[h].orders)
<1>1. d[h] \in Level /\ WellFormedLevel(side, d[h], ords)
  BY DEF WellFormed
<1>2. IsFiniteSet(S) /\ S \subseteq DOMAIN ords
  BY <1>1, QueueHolds
<1>3. \A x \in S : x \in Queued(d)
  BY QueuedByLevel
<1> HIDE DEF S
<1>4. Held(ords2, S) = Held(ords, S)
  BY <1>2, <1>3, HeldSame
<1>5. d[h].total = Int64(Held(ords, S))
  BY DEF Honest, HonestLevel, S
<1> QED BY <1>4, <1>5 DEF HonestLevel, S

\* Zero needs no wrapping.
LEMMA Int64Fixed ==
  ASSUME NEW x \in Int64s
  PROVE  Int64(x) = x
<1>1. x \in Int
  BY Int64sAre
<1>2. Int64(x) \in Int64s /\ Congruent(Int64(x), x)
  BY <1>1, Int64Is
<1> QED BY <1>2, CongruentSame

\* An order pushed on a level is added to its total.
LEMMA PushHonest ==
  ASSUME NEW ords, Counted(ords), NEW lv \in Level, HonestLevel(lv, ords),
         IsFiniteSet(Range(lv.orders)), Range(lv.orders) \subseteq DOMAIN ords,
         NEW id \in DOMAIN ords, id \in Nat, id \notin Range(lv.orders)
  PROVE  HonestLevel(Push(lv, id, ords[id].open), ords)
<1> DEFINE S == Range(lv.orders)
           t == Int64(Held(ords, S))
           n == ords[id].open
<1>1. lv.orders \in Seq(Nat) /\ lv.total = t
  BY DEF Level, HonestLevel
<1>2. n \in Int
  BY DEF Counted
<1>3. Range(Push(lv, id, n).orders) = S \cup {id}
  <2>1. Push(lv, id, n).orders = Append(lv.orders, id)
    BY <1>2, PushIs
  <2> QED BY <1>1, <2>1, RangeAppend
<1>4. Push(lv, id, n).total = Int64(t + n)
  BY <1>1 DEF Push, Level
<1> HIDE DEF S
<1>5. Held(ords, S) \in Int /\ Held(ords, S \cup {id}) = Held(ords, S) + n
  BY HeldIs, HeldMore DEF S
<1>6. Int64(t + n) = Int64(Held(ords, S) + n)
  BY <1>2, <1>5, WrapLater
<1> QED BY <1>3, <1>4, <1>5, <1>6 DEF HonestLevel

\* The remainder of an order joins a ladder with its total.
LEMMA InsertHonest ==
  ASSUME NEW side, NEW d \in Seq(Level), NEW ords, Counted(ords), WellFormed(side, d, ords),
         Honest(d, ords), NEW price \in Int, NEW id \in Nat, Arriving(side, d, ords, price, id)
  PROVE  Honest(Insert(side, d, price, id, ords[id].open), ords)
<1> DEFINE n     == ords[id].open
           fresh == Push(EmptyLevel(price), id, n)
           e     == Insert(side, d, price, id, n)
<1>1. id \in DOMAIN ords /\ n \in Int /\ id \notin Queued(d)
  BY DEF Arriving, Counted
<1> HIDE DEF n
<1>2. /\ e \in Seq(Level)
      /\ \/ \E k \in 1 .. Len(d) + 1 : LevelAdded(side, d, price, fresh, e, k)
         \/ \E k \in 1 .. Len(d) : LevelJoined(d, price, id, n, e, k)
  BY <1>1, InsertIs
<1>3. HonestLevel(fresh, ords)
  <2> DEFINE lv == EmptyLevel(price)
  <2>1. lv \in Level /\ lv.total = 0 /\ lv.orders = <<>>
    BY DEF EmptyLevel, Level
  <2>2. Range(lv.orders) = {}
    BY <2>1 DEF Range
  <2>21. IsFiniteSet({}) /\ {} \in SUBSET DOMAIN ords
    BY FS_EmptySet
  <2>3. Held(ords, {}) = 0
    BY <2>21, HeldIs
  <2>4. Int64(0) = 0
    BY Int64Fixed, Int64sAre
  <2> HIDE DEF lv
  <2>5. HonestLevel(lv, ords)
    BY <2>1, <2>2, <2>3, <2>4 DEF HonestLevel
  <2>51. IsFiniteSet(Range(lv.orders)) /\ Range(lv.orders) \subseteq DOMAIN ords /\ id \notin Range(lv.orders)
    BY <2>2, <2>21
  <2>6. HonestLevel(Push(lv, id, n), ords)
    BY <1>1, <2>1, <2>51, <2>5, PushHonest DEF n
  <2> QED BY <2>6 DEF lv
<1> HIDE DEF fresh, e
<1>4. ASSUME NEW k \in 1 .. Len(d) + 1, LevelAdded(side, d, price, fresh, e, k)
      PROVE  Honest(e, ords)
  <2>1. ASSUME NEW i \in 1 .. Len(e) PROVE e[i] = fresh \/ \E h \in 1 .. Len(d) : e[i] = d[h]
    <3>1. /\ Len(d) \in Nat /\ Len(e) = Len(d) + 1 /\ i \in 1 .. Len(d) + 1
          /\ e[i] = IF i < k THEN d[i] ELSE IF i = k THEN fresh ELSE d[i-1]
      BY <1>4 DEF LevelAdded
    <3>2. CASE i < k
      BY <3>1, <3>2
    <3>3. CASE i = k
      BY <3>1, <3>3
    <3>4. CASE i > k
      <4>1. i - 1 \in 1 .. Len(d) /\ e[i] = d[i-1]
        BY <3>1, <3>4
      <4> QED BY <4>1
    <3> QED BY <3>1, <3>2, <3>3, <3>4
  <2> QED BY <1>3, <2>1 DEF Honest
<1>5. ASSUME NEW k \in 1 .. Len(d), LevelJoined(d, price, id, n, e, k) PROVE Honest(e, ords)
  <2>1. e = [d EXCEPT ![k] = Push(d[k], id, n)]
    BY <1>5 DEF LevelJoined
  <2>2. d[k] \in Level /\ WellFormedLevel(side, d[k], ords) /\ HonestLevel(d[k], ords)
    BY DEF WellFormed, Honest
  <2>3. id \notin Range(d[k].orders)
    BY <1>1, QueuedByLevel
  <2>4. HonestLevel(Push(d[k], id, n), ords)
    BY <1>1, <2>2, <2>3, QueueHolds, PushHonest DEF n
  <2>5. \A i \in 1 .. Len(e) : HonestLevel(e[i], ords) \/ \E h \in 1 .. Len(d) : h # k /\ e[i] = d[h]
    BY <2>1, <2>4
  <2> QED BY <1>2, <2>5, HonestAround
<1> QED BY <1>2, <1>4, <1>5 DEF e, n

\* Dropping the head of a queue.
LEMMA TailRange ==
  ASSUME NEW q \in Seq(Nat), q # <<>>, ArrivalOrder(q)
  PROVE  Tail(q) \in Seq(Nat) /\ Range(Tail(q)) = Range(q) \ {q[1]} /\ q[1] \in Range(q)
<1>1. Len(q) \in Nat /\ 1 \in 1 .. Len(q) /\ DOMAIN q = 1 .. Len(q)
  <2>1. Len(q) \in Nat /\ Len(q) # 0 /\ DOMAIN q = 1 .. Len(q)
    BY EmptySeq, LenProperties
  <2> QED BY <2>1
<1>2. /\ Tail(q) \in Seq(Nat) /\ Len(Tail(q)) = Len(q) - 1
      /\ \A i \in 1 .. Len(q) - 1 : Tail(q)[i] = q[i+1]
  BY <1>1, HeadTailProperties
<1> DEFINE r == Tail(q)
<1> HIDE DEF r
<1>3. r \in Seq(Nat) /\ Len(r) = Len(q) - 1 /\ \A i \in 1 .. Len(q) - 1 : ~(i < 1) /\ r[i] = q[i+1]
  BY <1>1, <1>2 DEF r
<1>4. QueueShrunk(q, r, 1)
  BY <1>3 DEF QueueShrunk
<1>5. Range(r) = Range(q) \ {q[1]}
  BY <1>1, <1>3, <1>4, QueueShrunkIs
<1>6. q[1] \in Range(q)
  BY <1>1 DEF Range
<1> QED BY <1>3, <1>5, <1>6 DEF r

\* A fill takes its quantity off the total of the level it hits.
LEMMA HitHonest ==
  ASSUME NEW side, NEW d \in Seq(Level), NEW ords, Counted(ords), WellFormed(side, d, ords),
         Honest(d, ords), NEW ords2, Counted(ords2), HeadHit(d, ords, ords2), NEW n \in Int,
         ords2[d[1].orders[1]].open = ords[d[1].orders[1]].open - n,
         NEW spent, spent => ords2[d[1].orders[1]].open = 0
  PROVE  Honest(HitBest(d, n, spent), ords2)
<1> DEFINE q   == d[1].orders
           m   == q[1]
           R   == Range(q)
           t   == Int64(Held(ords, R))
           hit == [d[1] EXCEPT !.total = Int64(@ - n)]
           pop == PopFront(hit)
           lv  == IF spent THEN pop ELSE hit
           f   == [d EXCEPT ![1] = lv]
           e   == HitBest(d, n, spent)
<1>1. d # <<>> /\ DOMAIN ords2 = DOMAIN ords
  BY DEF HeadHit
<1>2. /\ Len(d) \in Nat /\ 1 \in 1 .. Len(d) /\ d[1] \in Level
      /\ q \in Seq(Nat) /\ q # <<>> /\ m \in Queued(d)
  BY <1>1, BestIs
<1>3. WellFormedLevel(side, d[1], ords) /\ d[1].total = t
  BY <1>2 DEF WellFormed, Honest, HonestLevel
<1>4. ArrivalOrder(q)
  BY <1>3 DEF WellFormedLevel, ArrivalOrder
<1>5. Tail(q) \in Seq(Nat) /\ Range(Tail(q)) = R \ {m} /\ m \in R
  <2> HIDE DEF q
  <2> QED BY <1>2, <1>4, TailRange
<1>6. IsFiniteSet(R) /\ R \subseteq DOMAIN ords
  BY <1>2, <1>3, QueueHolds
<1>7. Held(ords, R) \in Int /\ t \in Int
  <2>1. Held(ords, R) \in Int
    <3> HIDE DEF R
    <3> QED BY <1>6, HeldIs
  <2> QED BY <2>1, Int64Type
<1>8. Held(ords2, R) = Held(ords, R) - n /\ Held(ords2, R) \in Int
  <2>1. \A x \in R : x # m => ords2[x].open = ords[x].open
    BY <1>2, QueuedByLevel DEF HeadHit
  <2>2. ords[m].open \in Int /\ ords2[m].open = ords[m].open - n
    BY <1>5, <1>6 DEF Counted
  <2> HIDE DEF R, m
  <2>3. Held(ords2, R) = Held(ords, R) + ords2[m].open - ords[m].open
    BY <1>1, <1>5, <1>6, <2>1, HeldMoves
  <2> DEFINE a == ords[m].open
             h == Held(ords, R)
  <2>4. a \in Int /\ h \in Int /\ Held(ords2, R) = h + (a - n) - a
    BY <1>7, <2>2, <2>3
  <2> HIDE DEF a, h
  <2>5. Held(ords2, R) = h - n /\ h - n \in Int
    BY <2>4
  <2> QED BY <2>5 DEF h
<1>9. hit \in Level /\ hit.orders = q /\ hit.total = Int64(t - n)
  <2>1. Int64(t - n) \in Int
    BY <1>7, Int64Type
  <2> HIDE DEF t
  <2> QED BY <1>2, <1>3, <2>1 DEF Level
<1>10. Int64(t - n) = Int64(Held(ords2, R))
  BY <1>7, <1>8, WrapLater
<1>11. HonestLevel(hit, ords2)
  <2> HIDE DEF hit, t
  <2> QED BY <1>9, <1>10 DEF HonestLevel
<1>12. pop \in Level /\ pop.orders = Tail(q) /\ pop.total = hit.total
  <2> HIDE DEF hit, q
  <2> QED BY <1>5, <1>9 DEF PopFront, Level
<1>13. HonestLevel(lv, ords2) /\ lv \in Level
  <2>1. CASE spent
    <3>1. ords2[m].open = 0
      BY <2>1
    <3>2. Held(ords2, R \ {m}) = Held(ords2, R)
      <4> HIDE DEF R, m
      <4>1. Held(ords2, R \ {m}) = Held(ords2, R) - ords2[m].open
        BY <1>1, <1>5, <1>6, HeldIs
      <4> QED BY <1>8, <3>1, <4>1
    <3>3. HonestLevel(pop, ords2)
      <4> HIDE DEF pop, hit, t
      <4> QED BY <1>5, <1>9, <1>10, <1>12, <3>2 DEF HonestLevel
    <3> HIDE DEF pop, hit
    <3> QED BY <1>12, <2>1, <3>3
  <2>2. CASE ~spent
    <3> HIDE DEF pop, hit
    <3> QED BY <1>9, <1>11, <2>2
  <2> QED BY <2>1, <2>2
<1> HIDE DEF lv
<1>14. /\ f \in Seq(Level) /\ Len(f) = Len(d) /\ f # <<>>
       /\ \A i \in 1 .. Len(d) : f[i] = IF i = 1 THEN lv ELSE d[i]
  <2>1. /\ f \in Seq(Level) /\ Len(f) = Len(d)
        /\ \A i \in 1 .. Len(d) : f[i] = IF i = 1 THEN lv ELSE d[i]
    BY <1>2, <1>13, ExceptSeq
  <2> QED BY <1>2, <2>1
<1>15. e = f \/ e = Tail(f)
  <2>1. f = [d EXCEPT ![1] = IF spent THEN PopFront(hit) ELSE hit]
    BY DEF lv
  <2>2. e = DropBestIfEmpty(f)
    BY <2>1 DEF HitBest
  <2> HIDE DEF e, f
  <2> QED BY <2>2 DEF DropBestIfEmpty
<1> HIDE DEF f
<1>16. /\ e \in Seq(Level)
       /\ \A i \in 1 .. Len(e) : HonestLevel(e[i], ords2) \/ \E h \in 1 .. Len(d) : h # 1 /\ e[i] = d[h]
  <2>1. CASE e = f
    <3> HIDE DEF e
    <3> QED BY <1>13, <1>14, <2>1
  <2>2. CASE e = Tail(f)
    <3>1. /\ Tail(f) \in Seq(Level) /\ Len(Tail(f)) = Len(f) - 1
          /\ \A i \in 1 .. Len(f) - 1 : Tail(f)[i] = f[i+1]
      BY <1>14, HeadTailProperties
    <3> HIDE DEF e
    <3>2. ASSUME NEW i \in 1 .. Len(e) PROVE \E h \in 1 .. Len(d) : h # 1 /\ e[i] = d[h]
      <4>1. i + 1 \in 1 .. Len(d) /\ i + 1 # 1 /\ e[i] = f[i+1]
        BY <1>2, <1>14, <2>2, <3>1
      <4>2. e[i] = d[i+1]
        BY <1>14, <4>1
      <4> QED BY <4>1, <4>2
    <3> QED BY <2>2, <3>1, <3>2
  <2> QED BY <1>15, <2>1, <2>2
<1>17. \A x \in Queued(d) : x \notin Range(d[1].orders) => ords2[x].open = ords[x].open
  BY <1>5 DEF HeadHit
<1> HIDE DEF e
<1>18. Honest(e, ords2)
  <2> DEFINE k == 1
  <2>1. /\ k \in 1 .. Len(d) /\ DOMAIN ords \subseteq DOMAIN ords2
        /\ \A x \in Queued(d) : x \notin Range(d[k].orders) => ords2[x].open = ords[x].open
    BY <1>1, <1>2, <1>17
  <2>2. /\ e \in Seq(Level)
        /\ \A i \in 1 .. Len(e) : \/ HonestLevel(e[i], ords2)
                                  \/ \E h \in 1 .. Len(d) : h # k /\ e[i] = d[h]
    BY <1>16
  <2> HIDE DEF k
  <2> QED BY <2>1, <2>2, HonestAround
<1> QED BY <1>18 DEF e

\* A cancel takes what the order had left off the total of its level.
LEMMA CutHonest ==
  ASSUME NEW side, NEW ords, Counted(ords), NEW lv \in Level, WellFormedLevel(side, lv, ords),
         HonestLevel(lv, ords), NEW id, id \in Range(lv.orders)
  PROVE  /\ RemoveFromLevel(lv, id, ords[id].open) \in Level
         /\ HonestLevel(RemoveFromLevel(lv, id, ords[id].open), ords)
<1> DEFINE n    == ords[id].open
           R    == Range(lv.orders)
           t    == Int64(Held(ords, R))
           left == RemoveFromLevel(lv, id, n)
<1>1. IsFiniteSet(R) /\ R \subseteq DOMAIN ords
  BY QueueHolds
<1>2. n \in Int
  BY <1>1 DEF Counted
<1>3. Held(ords, R) \in Int /\ Held(ords, R \ {id}) = Held(ords, R) - n
  <2> HIDE DEF R
  <2> QED BY <1>1, HeldIs DEF R
<1>4. left \in Level
  <2> HIDE DEF n
  <2> QED BY <1>2, RemoveFromLevelIs
<1>5. Range(left.orders) = R \ {id}
  <2> SUFFICES ASSUME NEW y
               PROVE  y \in Range(RemoveFromLevel(lv, id, n).orders) <=> y \in Range(lv.orders) /\ y # id
    OBVIOUS
  <2> HIDE DEF n, R, t, left
  <2> QED BY <1>2, RemoveFromLevelIs
<1>6. left.total = Int64(t - n)
  BY DEF RemoveFromLevel, Level, HonestLevel
<1> HIDE DEF left
<1>7. Int64(t - n) = Int64(Held(ords, R \ {id}))
  <2> HIDE DEF R, n
  <2> QED BY <1>2, <1>3, WrapLater
<1>8. HonestLevel(left, ords)
  <2> HIDE DEF R, t, n
  <2> QED BY <1>5, <1>6, <1>7 DEF HonestLevel
<1> QED BY <1>4, <1>8 DEF left

\* So the ladder it leaves has its totals right.
LEMMA RemoveHonest ==
  ASSUME NEW side, NEW d \in Seq(Level), NEW ords, Counted(ords), WellFormed(side, d, ords),
         Honest(d, ords), NEW id \in Queued(d)
  PROVE  Honest(RemoveOrder(d, ords[id].price, id, ords[id].open), ords)
<1> DEFINE k    == LevelAt(d, ords[id].price)
           left == RemoveFromLevel(d[k], id, ords[id].open)
           e    == RemoveOrder(d, ords[id].price, id, ords[id].open)
<1>1. k \in 1 .. Len(d) /\ id \in Range(d[k].orders)
  BY HomeIs
<1>2. e = IF left.orders = <<>> THEN RemoveAt(d, k) ELSE [d EXCEPT ![k] = left]
  BY DEF RemoveOrder
<1> HIDE DEF e, k
<1>3. d[k] \in Level /\ WellFormedLevel(side, d[k], ords) /\ HonestLevel(d[k], ords)
  BY <1>1 DEF WellFormed, Honest
<1>4. left \in Level /\ HonestLevel(left, ords)
  BY <1>1, <1>3, CutHonest
<1> HIDE DEF left
<1>11. /\ e \in Seq(Level)
       /\ \A i \in 1 .. Len(e) : HonestLevel(e[i], ords) \/ \E h \in 1 .. Len(d) : h # k /\ e[i] = d[h]
  <2>1. CASE left.orders = <<>>
    <3>1. /\ e \in Seq(Level) /\ Len(e) = Len(d) - 1 /\ Len(d) \in Nat
          /\ \A i \in 1 .. Len(d) - 1 : e[i] = IF i < k THEN d[i] ELSE d[i+1]
      <4>1. e = RemoveAt(d, k)
        BY <1>2, <2>1
      <4>2. LevelDropped(d, RemoveAt(d, k), k)
        BY <1>1, RemoveAtIs DEF LevelDropped
      <4> QED BY <4>1, <4>2 DEF LevelDropped
    <3>2. ASSUME NEW i \in 1 .. Len(e) PROVE \E h \in 1 .. Len(d) : h # k /\ e[i] = d[h]
      <4>1. CASE i < k
        BY <1>1, <3>1, <4>1
      <4>2. CASE ~(i < k)
        <5>1. i + 1 \in 1 .. Len(d) /\ i + 1 # k /\ e[i] = d[i+1]
          BY <1>1, <3>1, <4>2
        <5> QED BY <5>1
      <4> QED BY <4>1, <4>2
    <3> QED BY <3>1, <3>2
  <2>2. CASE left.orders # <<>>
    <3>1. /\ e \in Seq(Level) /\ Len(e) = Len(d)
          /\ \A i \in 1 .. Len(d) : e[i] = IF i = k THEN left ELSE d[i]
      BY <1>1, <1>2, <1>4, <2>2, ExceptSeq
    <3> QED BY <1>4, <3>1
  <2> QED BY <2>1, <2>2
<1>12. Honest(e, ords)
  BY <1>1, <1>11, HonestAround
<1> QED BY <1>12 DEF e, k

-----------------------------------------------------------------------------
(* The totals are kept *)

AllHonest == \A s \in Sides : Honest(ladder[s], order)

\* Quantities are machine integers.
LEMMA HeapCounted ==
  ASSUME NEW ords \in Seq(Order)
  PROVE  Counted(ords)
<1> SUFFICES ASSUME NEW id \in DOMAIN ords PROVE ords[id].open \in Int
  BY DEF Counted
<1>1. DOMAIN ords = 1 .. Len(ords)
  BY LenProperties
<1>2. ords[id] \in Order
  BY <1>1
<1> QED BY <1>2, Int64sAre DEF Order

\* An accepted order is a new place of the heap, and nothing else of it changes.
LEMMA AcceptIs ==
  ASSUME Inductive, NEW session \in Sessions, NEW side \in Sides, NEW price \in Prices,
         NEW qty \in Qtys, AcceptSubmit(session, side, price, qty)
  PROVE  /\ pc = "idle" /\ pc' = "sweep" /\ UNCHANGED <<ladder, index, fills>>
         /\ led' = LedgerAccept(led, side, qty)
         /\ pre' = [s \in Sides |-> Frontier(ladder[s])] /\ result'.report = {}
         /\ Counted(order')
         /\ Taker' \notin DOMAIN order /\ DOMAIN order' = DOMAIN order \cup {Taker'}
         /\ \A a \in DOMAIN order : order'[a] = order[a]
         /\ order'[Taker'].side = side /\ order'[Taker'].open = qty /\ qty \in Int
<1> DEFINE o == [session |-> session, side |-> side, price |-> price,
                 qty |-> qty, open |-> qty, seq |-> seq + 1]
<1>1. /\ pc = "idle" /\ order' = Append(order, o) /\ pc' = "sweep"
      /\ UNCHANGED <<ladder, index, fills>>
      /\ led' = LedgerAccept(led, side, qty)
      /\ pre' = [s \in Sides |-> Frontier(ladder[s])]
      /\ result'.report = {}
  BY DEF AcceptSubmit, Begin
<1>2. order \in Seq(Order) /\ seq \in Nat /\ qty \in Int64s /\ qty \in Int /\ price \in Int64s
  BY CommandAssumption, Int64sAre DEF Inductive, TypeOK
<1>3. o \in Order
  BY <1>2 DEF Order
<1>4. o.side = side /\ o.open = qty
  OBVIOUS
<1> HIDE DEF o
<1>5. /\ order' \in Seq(Order) /\ Len(order') = Len(order) + 1 /\ Len(order) \in Nat
      /\ DOMAIN order = 1 .. Len(order) /\ DOMAIN order' = 1 .. Len(order) + 1
      /\ \A a \in DOMAIN order : order'[a] = order[a]
      /\ order'[Len(order) + 1] = o
  BY <1>1, <1>2, <1>3, AppendProperties, LenProperties
<1>6. Taker' = Len(order) + 1
  BY <1>5 DEF Taker
<1>7. Taker' \notin DOMAIN order /\ DOMAIN order' = DOMAIN order \cup {Taker'}
  BY <1>5, <1>6
<1>8. Counted(order')
  BY <1>5, HeapCounted
<1> QED BY <1>1, <1>2, <1>4, <1>5, <1>6, <1>7, <1>8

\* What every step starts from.
LEMMA HeldFrom ==
  ASSUME Inductive, NEW s \in Sides
  PROVE  /\ ladder[s] \in Seq(Level) /\ WellFormed(s, ladder[s], order)
         /\ Counted(order) /\ order \in Seq(Order) /\ index \subseteq DOMAIN order
         /\ \A id : id \in Queued(ladder[s]) <=> id \in index /\ order[id].side = s
<1>1. TypeOK /\ LaddersWellFormed /\ index = Resting
  BY DEF Inductive
<1>2. order \in Seq(Order) /\ index \subseteq DOMAIN order
  BY <1>1 DEF TypeOK
<1> QED BY <1>1, <1>2, SideIs, HeapCounted

\* A new order rests nowhere yet.
LEMMA AcceptHonest ==
  ASSUME Inductive, AllHonest, NEW session \in Sessions, NEW side \in Sides, NEW price \in Prices,
         NEW qty \in Qtys, AcceptSubmit(session, side, price, qty)
  PROVE  AllHonest'
<1> SUFFICES ASSUME NEW s \in Sides PROVE Honest(ladder'[s], order')
  BY DEF AllHonest
<1>1. /\ ladder' = ladder /\ DOMAIN order \subseteq DOMAIN order'
      /\ \A a \in DOMAIN order : order'[a] = order[a]
  BY AcceptIs
<1>2. /\ ladder[s] \in Seq(Level) /\ WellFormed(s, ladder[s], order) /\ Counted(order)
      /\ \A x \in Queued(ladder[s]) : x \in DOMAIN order
  BY HeldFrom
<1>3. Honest(ladder[s], order)
  BY DEF AllHonest
<1>4. \A x \in Queued(ladder[s]) : order'[x].open = order[x].open
  BY <1>1, <1>2
<1>5. Honest(ladder[s], order')
  BY <1>1, <1>2, <1>3, <1>4, HonestElsewhere
<1> QED BY <1>1, <1>5

\* A fill is told to the level it hits, and to no other.
LEMMA FillHonest ==
  ASSUME Inductive, AllHonest, Fill
  PROVE  AllHonest'
<1> SUFFICES ASSUME NEW o \in Sides PROVE Honest(ladder'[o], order')
  BY DEF AllHonest
<1> DEFINE maker == Opp[1].orders[1]
           n     == FillQty(order[Taker], order[maker])
           s     == Opposite(order[Taker].side)
           d     == ladder[s]
           spent == order[maker].open - n = 0
<1>1. /\ pc = "sweep" /\ Opp # <<>>
      /\ ladder' = [ladder EXCEPT ![s] = HitBest(@, n, spent)]
  BY DEF Fill, CanFill
<1>2. /\ n \in Int /\ DOMAIN order' = DOMAIN order /\ order' \in Seq(Order)
      /\ \A id \in DOMAIN order : /\ order'[id].side = order[id].side
                                  /\ order'[id].price = order[id].price
                                  /\ id # maker /\ id # Taker => order'[id].open = order[id].open
      /\ order'[maker].open = order[maker].open - n
  BY FillIs
<1>3. Opp = d /\ s \in Sides /\ Taker \notin index
  BY <1>1, TakerIs
<1>4. maker \in index /\ order[maker].side = s /\ maker = d[1].orders[1] /\ d # <<>>
  BY <1>1, <1>3, MakerIs
<1>5. Counted(order) /\ Counted(order') /\ index \subseteq DOMAIN order /\ ladder \in [Sides -> Seq(Level)]
  BY <1>2, <1>3, HeapCounted, HeldFrom DEF Inductive, TypeOK
<1> HIDE DEF maker, n, s
<1>6. CASE o = s
  <2>1. /\ d \in Seq(Level) /\ WellFormed(s, d, order)
        /\ \A id : id \in Queued(d) <=> id \in index /\ order[id].side = s
    BY <1>3, HeldFrom
  <2>2. Honest(d, order)
    BY <1>3 DEF AllHonest
  <2>3. \A x \in Queued(d) : x \in DOMAIN order /\ x # Taker
    BY <1>3, <1>5, <2>1
  <2>4. HeadHit(d, order, order')
    BY <1>2, <1>4, <2>3 DEF HeadHit
  <2>5. ladder'[s] = HitBest(d, n, spent)
    BY <1>1, <1>3, <1>5
  <2>6. order'[d[1].orders[1]].open = order[d[1].orders[1]].open - n
    BY <1>2, <1>4
  <2>7. spent => order'[d[1].orders[1]].open = 0
    BY <1>4, <2>6
  <2> HIDE DEF d, spent
  <2>8. Honest(HitBest(d, n, spent), order')
    BY <1>2, <1>5, <2>1, <2>2, <2>4, <2>6, <2>7, HitHonest
  <2> QED BY <1>6, <2>5, <2>8
<1>7. CASE o # s
  <2>1. ladder'[o] = ladder[o]
    BY <1>1, <1>3, <1>5, <1>7
  <2>2. /\ ladder[o] \in Seq(Level) /\ WellFormed(o, ladder[o], order)
        /\ \A id : id \in Queued(ladder[o]) <=> id \in index /\ order[id].side = o
    BY HeldFrom
  <2>3. \A x \in Queued(ladder[o]) : order'[x].open = order[x].open
    BY <1>2, <1>3, <1>4, <1>5, <1>7, <2>2
  <2>4. Honest(ladder[o], order)
    BY DEF AllHonest
  <2>5. Honest(ladder[o], order')
    BY <1>2, <1>5, <2>2, <2>3, <2>4, HonestElsewhere
  <2> QED BY <2>1, <2>5
<1> QED BY <1>6, <1>7

\* What is left of the taker joins its level's total.
LEMMA FinishHonest ==
  ASSUME Inductive, AllHonest, Finish
  PROVE  AllHonest'
<1> SUFFICES ASSUME NEW s \in Sides PROVE Honest(ladder'[s], order')
  BY DEF AllHonest
<1> DEFINE o == order[Taker]
<1>1. /\ pc = "sweep" /\ order' = order
      /\ IF o.open > 0
         THEN ladder' = [ladder EXCEPT ![o.side] = Insert(o.side, @, o.price, Taker, o.open)]
         ELSE UNCHANGED ladder
  BY DEF Finish
<1>2. /\ Taker \in DOMAIN order /\ Taker \in Nat /\ Taker \notin index /\ o.side \in Sides
      /\ \A id \in DOMAIN order : id # Taker => id < Taker
  BY <1>1, TakerIs
<1>3. o.price \in Int /\ ladder \in [Sides -> Seq(Level)]
  BY <1>2, OrdersAre DEF Inductive, TypeOK
<1>4. Honest(ladder[s], order)
  BY DEF AllHonest
<1>5. CASE o.open > 0 /\ s = o.side
  <2> DEFINE d == ladder[s]
  <2>1. ladder'[s] = Insert(s, d, o.price, Taker, o.open)
    BY <1>1, <1>3, <1>5
  <2>2. /\ d \in Seq(Level) /\ WellFormed(s, d, order) /\ Counted(order)
        /\ index \subseteq DOMAIN order
        /\ \A id : id \in Queued(d) <=> id \in index /\ order[id].side = s
    BY HeldFrom
  <2> HIDE DEF d
  <2>3. Arriving(s, d, order, o.price, Taker)
    BY <1>2, <1>5, <2>2 DEF Arriving
  <2>4. Honest(Insert(s, d, o.price, Taker, o.open), order)
    <3> DEFINE price == o.price
    <3>1. price \in Int /\ Arriving(s, d, order, price, Taker) /\ Honest(d, order)
      BY <1>3, <1>4, <2>3 DEF d
    <3> HIDE DEF price
    <3>2. Honest(Insert(s, d, price, Taker, order[Taker].open), order)
      BY <1>2, <2>2, <3>1, InsertHonest
    <3> QED BY <3>2 DEF price
  <2> QED BY <1>1, <2>1, <2>4
<1>6. CASE ~(o.open > 0 /\ s = o.side)
  <2>1. ladder'[s] = ladder[s]
    BY <1>1, <1>2, <1>3, <1>6
  <2> QED BY <1>1, <1>4, <2>1
<1> QED BY <1>5, <1>6

\* A cancel is told to the level the order leaves.
LEMMA CancelHonest ==
  ASSUME Inductive, AllHonest, NEW session \in Sessions, NEW id \in Int, CancelOrder(session, id)
  PROVE  AllHonest'
<1> SUFFICES ASSUME NEW s \in Sides PROVE Honest(ladder'[s], order')
  BY DEF AllHonest
<1> DEFINE o == order[id]
<1>1. /\ ladder' = [ladder EXCEPT ![o.side] = RemoveOrder(@, o.price, id, o.open)]
      /\ order' = order /\ id \in index
  BY DEF CancelOrder, Return, CancelRefusal
<1>2. o.side \in Sides /\ ladder \in [Sides -> Seq(Level)]
  BY <1>1, OrdersAre DEF Inductive, TypeOK
<1>3. Honest(ladder[s], order)
  BY DEF AllHonest
<1>4. CASE s = o.side
  <2> DEFINE d == ladder[s]
  <2>1. ladder'[s] = RemoveOrder(d, o.price, id, o.open)
    BY <1>1, <1>2, <1>4
  <2>2. d \in Seq(Level) /\ WellFormed(s, d, order) /\ Counted(order) /\ id \in Queued(d)
    BY <1>1, <1>4, HeldFrom
  <2>3. Honest(d, order)
    BY <1>3
  <2> HIDE DEF d
  <2>4. Honest(RemoveOrder(d, order[id].price, id, order[id].open), order)
    BY <2>2, <2>3, RemoveHonest
  <2> QED BY <1>1, <2>1, <2>4
<1>5. CASE s # o.side
  <2>1. ladder'[s] = ladder[s]
    BY <1>1, <1>2, <1>5
  <2> QED BY <1>1, <1>3, <2>1
<1> QED BY <1>4, <1>5

-----------------------------------------------------------------------------
(* The ledger balances *)

\* The ids of a side that something may be left of: those that rest, and the
\* one that is matching.
Live(s) == {id \in index \cup (IF pc = "sweep" THEN {Taker} ELSE {}) : order[id].side = s}

BalancedSide(s) ==
    led.submitted[s] = Int64(Held(order, Live(s)) + led.filled[s] + led.canceled[s])

Balanced ==
    /\ \A s \in Sides : BalancedSide(s)
    /\ led.filled[Buy] = led.filled[Sell]
    /\ led.notional[Buy] = led.notional[Sell]

Ledger == [{"submitted", "filled", "canceled", "notional"} -> [Sides -> Int]]

\* What a submit, a cancel and a fill of n do to the sum of a side: they move it
\* from one term to another.
Moves(h, f, c, n) ==
    /\ Int64(Int64(h + f + c) + n) = Int64((h + n) + f + c)
    /\ Int64((h - n) + f + Int64(c + n)) = Int64(h + f + c)
    /\ Int64((h - n) + Int64(f + n) + c) = Int64(h + f + c)

\* A balance survives what is added to, or moved between, its terms.
LEMMA BalanceMoves ==
  ASSUME NEW h \in Int, NEW f \in Int, NEW c \in Int, NEW n \in Int
  PROVE  Moves(h, f, c, n)
<1>1. Int64(Int64(h + f + c) + n) = Int64((h + n) + f + c)
  <2> DEFINE x == h + f + c
  <2>1. x \in Int /\ x + n = (h + n) + f + c
    OBVIOUS
  <2> HIDE DEF x
  <2>2. Int64(Int64(x) + n) = Int64(x + n)
    BY <2>1, WrapLater
  <2> QED BY <2>1, <2>2 DEF x
<1>2. Int64((h - n) + f + Int64(c + n)) = Int64(h + f + c)
  <2> DEFINE x == c + n
             y == (h - n) + f
             w == Int64(x)
  <2>1. x \in Int /\ y \in Int /\ x + y = h + f + c
    OBVIOUS
  <2>2. w \in Int
    BY <2>1, Int64Type
  <2> HIDE DEF x, y
  <2>3. Int64(Int64(x) + y) = Int64(x + y)
    BY <2>1, WrapLater
  <2> HIDE DEF w
  <2>4. y + w = w + y
    BY <2>1, <2>2
  <2> QED BY <2>1, <2>3, <2>4 DEF x, y, w
<1>3. Int64((h - n) + Int64(f + n) + c) = Int64(h + f + c)
  <2> DEFINE x == f + n
             y == (h - n) + c
             w == Int64(x)
  <2>1. x \in Int /\ y \in Int /\ x + y = h + f + c /\ h - n \in Int
    OBVIOUS
  <2>2. w \in Int
    BY <2>1, Int64Type
  <2> HIDE DEF x
  <2>3. Int64(w + y) = Int64(x + y)
    <3> HIDE DEF y
    <3> QED BY <2>1, WrapLater
  <2> HIDE DEF w
  <2>4. (h - n) + w + c = w + y
    BY <2>1, <2>2
  <2> HIDE DEF y
  <2> QED BY <2>1, <2>3, <2>4 DEF x, w
<1> QED BY <1>1, <1>2, <1>3 DEF Moves

\* The live orders of a side.
LEMMA LiveIs ==
  ASSUME Inductive, NEW s \in Sides
  PROVE  /\ Live(s) \in SUBSET DOMAIN order /\ IsFiniteSet(Live(s))
         /\ Counted(order) /\ Held(order, Live(s)) \in Int
         /\ led \in Ledger
         /\ led.submitted[s] \in Int /\ led.filled[s] \in Int /\ led.canceled[s] \in Int
         /\ pc = "idle" => Live(s) = Queued(ladder[s])
<1>1. /\ Counted(order) /\ order \in Seq(Order) /\ index \subseteq DOMAIN order
      /\ \A id : id \in Queued(ladder[s]) <=> id \in index /\ order[id].side = s
  BY HeldFrom
<1>2. pc = "sweep" => Taker \in DOMAIN order
  BY TakerIs
<1>3. Live(s) \in SUBSET DOMAIN order
  BY <1>1, <1>2 DEF Live
<1>4. IsFiniteSet(Live(s))
  <2>1. DOMAIN order = 1 .. Len(order) /\ Len(order) \in Nat
    BY <1>1, LenProperties
  <2>2. IsFiniteSet(DOMAIN order)
    BY <2>1, FS_Interval
  <2> QED BY <1>3, <2>2, FS_Subset
<1>5. Held(order, Live(s)) \in Int
  BY <1>1, <1>3, <1>4, HeldIs
<1>6. led \in Ledger
  BY DEF Inductive, TypeOK, Ledger
<1>7. led.submitted[s] \in Int /\ led.filled[s] \in Int /\ led.canceled[s] \in Int
  BY <1>6 DEF Ledger
<1>8. pc = "idle" => Live(s) = Queued(ladder[s])
  BY <1>1 DEF Live
<1> QED BY <1>1, <1>3, <1>4, <1>5, <1>6, <1>7, <1>8

\* A submit is owed as soon as it is accepted.
LEMMA AcceptBalanced ==
  ASSUME Inductive, Balanced, NEW session \in Sessions, NEW side \in Sides, NEW price \in Prices,
         NEW qty \in Qtys, AcceptSubmit(session, side, price, qty)
  PROVE  Balanced'
<1>1. /\ pc = "idle" /\ pc' = "sweep" /\ index' = index
      /\ led' = LedgerAccept(led, side, qty) /\ Counted(order')
      /\ Taker' \notin DOMAIN order /\ DOMAIN order' = DOMAIN order \cup {Taker'}
      /\ \A a \in DOMAIN order : order'[a] = order[a]
      /\ order'[Taker'].side = side /\ order'[Taker'].open = qty /\ qty \in Int
  BY AcceptIs
<1>2. led \in Ledger
  BY LiveIs
<1>3. /\ led'.submitted = [led.submitted EXCEPT ![side] = Int64(@ + qty)]
      /\ led'.filled = led.filled /\ led'.canceled = led.canceled /\ led'.notional = led.notional
  BY <1>1, <1>2 DEF Ledger, LedgerAccept
<1>4. ASSUME NEW s \in Sides PROVE BalancedSide(s)'
  <2> DEFINE L == Live(s)
             h == Held(order, L)
             f == led.filled[s]
             c == led.canceled[s]
  <2>1. /\ L \in SUBSET DOMAIN order /\ IsFiniteSet(L) /\ h \in Int /\ f \in Int /\ c \in Int
        /\ Counted(order) /\ index \subseteq DOMAIN order
    BY LiveIs DEF Inductive, TypeOK
  <2>2. led.submitted[s] = Int64(h + f + c)
    BY DEF Balanced, BalancedSide
  <2>3. L = {id \in index : order[id].side = s}
    BY <1>1 DEF Live
  <2>4. Live(s)' = IF s = side THEN L \cup {Taker'} ELSE L
    <3>1. Live(s)' = {id \in index \cup {Taker'} : order'[id].side = s}
      BY <1>1 DEF Live
    <3>2. \A id \in index : order'[id].side = order[id].side
      BY <1>1, <2>1
    <3> HIDE DEF L
    <3> QED BY <1>1, <2>3, <3>1, <3>2
  <2> HIDE DEF L
  <2>5. Held(order', L) = h
    <3>1. \A x \in L : order'[x].open = order[x].open
      BY <1>1, <2>1
    <3>2. L \subseteq DOMAIN order' /\ L \subseteq DOMAIN order
      BY <1>1, <2>1
    <3> QED BY <2>1, <3>1, <3>2, HeldSame
  <2>6. CASE s = side
    <3>1. Held(order', L \cup {Taker'}) = Held(order', L) + order'[Taker'].open
      <4>1. L \in SUBSET DOMAIN order' /\ Taker' \in DOMAIN order' /\ Taker' \notin L
        BY <1>1, <2>1
      <4> DEFINE t == Taker'
                 ords == order'
      <4> HIDE DEF t, ords
      <4>2. Held(ords, L \cup {t}) = Held(ords, L) + ords[t].open
        BY <1>1, <2>1, <4>1, HeldMore DEF t, ords
      <4> QED BY <4>2 DEF t, ords
    <3>2. Held(order', Live(s)') = h + qty
      BY <1>1, <2>4, <2>5, <2>6, <3>1
    <3>3. led'.submitted[s] = Int64(led.submitted[s] + qty) /\ led'.filled[s] = f /\ led'.canceled[s] = c
      BY <1>2, <1>3, <2>6 DEF Ledger
    <3> HIDE DEF h, f, c
    <3>4. led'.submitted[s] = Int64((h + qty) + f + c)
      <4>1. Moves(h, f, c, qty)
        BY <1>1, <2>1, BalanceMoves
      <4> QED BY <2>2, <3>3, <4>1 DEF Moves
    <3> QED BY <3>2, <3>3, <3>4 DEF BalancedSide
  <2>7. CASE s # side
    <3>1. Held(order', Live(s)') = h
      BY <2>4, <2>5, <2>7
    <3>2. led'.submitted[s] = led.submitted[s] /\ led'.filled[s] = f /\ led'.canceled[s] = c
      BY <1>2, <1>3, <2>7 DEF Ledger
    <3> HIDE DEF h, f, c
    <3> QED BY <2>2, <3>1, <3>2 DEF BalancedSide
  <2> QED BY <2>6, <2>7
<1> QED BY <1>3, <1>4 DEF Balanced

\* A cancel moves what was left from the book to the ledger.
LEMMA CancelBalanced ==
  ASSUME Inductive, Balanced, NEW session \in Sessions, NEW id \in Int, CancelOrder(session, id)
  PROVE  Balanced'
<1> DEFINE side == order[id].side
           n    == order[id].open
<1>1. /\ pc = "idle" /\ pc' = "idle" /\ index' = index \ {id} /\ order' = order /\ id \in index
      /\ led' = LedgerCancel(led, side, n)
  BY DEF CancelOrder, Begin, Return, CancelRefusal
<1>2. side \in Sides /\ n \in Int /\ led \in Ledger
  <2>1. id \in DOMAIN order /\ order \in Seq(Order)
    BY <1>1 DEF Inductive, TypeOK
  <2> QED BY <2>1, OrdersAre DEF Inductive, TypeOK, Ledger
<1> HIDE DEF side, n
<1>3. /\ led'.submitted = led.submitted /\ led'.filled = led.filled
      /\ led'.canceled = [led.canceled EXCEPT ![side] = Int64(@ + n)]
      /\ led'.notional = led.notional
  BY <1>1, <1>2 DEF Ledger, LedgerCancel
<1>4. ASSUME NEW s \in Sides PROVE BalancedSide(s)'
  <2> DEFINE L == Live(s)
             h == Held(order, L)
             f == led.filled[s]
             c == led.canceled[s]
  <2>1. /\ L \in SUBSET DOMAIN order /\ IsFiniteSet(L) /\ h \in Int /\ f \in Int /\ c \in Int
        /\ Counted(order)
    BY LiveIs
  <2>2. led.submitted[s] = Int64(h + f + c)
    BY DEF Balanced, BalancedSide
  <2>3. L = {x \in index : order[x].side = s}
    BY <1>1 DEF Live
  <2>4. Live(s)' = {x \in index' : order[x].side = s}
    BY <1>1 DEF Live
  <2> HIDE DEF L
  <2>5. CASE s = side
    <3>1. Live(s)' = L \ {id} /\ id \in L
      BY <1>1, <2>3, <2>4, <2>5 DEF side
    <3>2. Held(order, L \ {id}) = h - n
      BY <2>1, <3>1, HeldIs DEF n
    <3>3. led'.submitted[s] = led.submitted[s] /\ led'.filled[s] = f /\ led'.canceled[s] = Int64(c + n)
      BY <1>2, <1>3, <2>5 DEF Ledger
    <3>4. Held(order', Live(s)') = h - n
      BY <1>1, <3>1, <3>2
    <3> HIDE DEF h, f, c
    <3>5. Int64((h - n) + f + Int64(c + n)) = Int64(h + f + c)
      <4>1. Moves(h, f, c, n)
        BY <1>2, <2>1, BalanceMoves
      <4> QED BY <4>1 DEF Moves
    <3> QED BY <2>2, <3>3, <3>4, <3>5 DEF BalancedSide
  <2>6. CASE s # side
    <3>1. Live(s)' = L
      BY <1>1, <2>3, <2>4, <2>6 DEF side
    <3>2. led'.submitted[s] = led.submitted[s] /\ led'.filled[s] = f /\ led'.canceled[s] = c
      BY <1>2, <1>3, <2>6 DEF Ledger
    <3>3. Held(order', Live(s)') = h
      BY <1>1, <3>1
    <3> HIDE DEF h, f, c
    <3> QED BY <2>2, <3>2, <3>3 DEF BalancedSide
  <2> QED BY <2>5, <2>6
<1> QED BY <1>3, <1>4 DEF Balanced

\* The end of the loop moves nothing: what is left of the taker counted before.
LEMMA FinishBalanced ==
  ASSUME Inductive, Balanced, Finish
  PROVE  Balanced'
<1>1. /\ pc = "sweep" /\ pc' = "idle" /\ order' = order /\ led' = led
      /\ index' = IF order[Taker].open > 0 THEN index \cup {Taker} ELSE index
  BY DEF Finish
<1>2. ASSUME NEW s \in Sides PROVE BalancedSide(s)'
  <2> DEFINE L == Live(s)
  <2>1. L \in SUBSET DOMAIN order /\ IsFiniteSet(L) /\ Counted(order) /\ Held(order, L) \in Int
    BY LiveIs
  <2>2. L = {x \in index \cup {Taker} : order[x].side = s}
    BY <1>1 DEF Live
  <2>3. Live(s)' = {x \in index' : order[x].side = s}
    BY <1>1 DEF Live
  <2>4. order[Taker].open >= 0 /\ order[Taker].open \in Int /\ Taker \in DOMAIN order /\ Taker \notin index
    <3>1. order[Taker].open >= 0 /\ Taker \in DOMAIN order /\ Taker \notin index
      BY <1>1, TakerIs
    <3> QED BY <2>1, <3>1 DEF Counted
  <2> HIDE DEF L
  <2>5. Held(order, Live(s)') = Held(order, L)
    <3>1. CASE order[Taker].open > 0
      BY <1>1, <2>2, <2>3, <3>1
    <3>2. CASE order[Taker].open = 0 /\ Taker \in L
      <4>1. Live(s)' = L \ {Taker}
        BY <1>1, <2>2, <2>3, <2>4, <3>2
      <4>2. Held(order, L \ {Taker}) = Held(order, L) - order[Taker].open
        BY <2>1, <3>2, HeldIs
      <4> QED BY <2>1, <3>2, <4>1, <4>2
    <3>3. CASE order[Taker].open = 0 /\ Taker \notin L
      BY <1>1, <2>2, <2>3, <2>4, <3>3
    <3> QED BY <2>4, <3>1, <3>2, <3>3
  <2>6. BalancedSide(s)
    BY DEF Balanced
  <2> QED BY <1>1, <2>5, <2>6 DEF BalancedSide, L
<1> QED BY <1>1, <1>2 DEF Balanced

\* A fill takes as much off one side as off the other and credits both with it.
LEMMA FillBalanced ==
  ASSUME Inductive, Balanced, Fill
  PROVE  Balanced'
<1> DEFINE maker == Opp[1].orders[1]
           n     == FillQty(order[Taker], order[maker])
           opp   == Opposite(order[Taker].side)
           price == Opp[1].price
<1>1. /\ pc = "sweep" /\ pc' = "sweep" /\ Opp # <<>>
      /\ led' = LedgerFill(led, n, price)
      /\ index' = IF order[maker].open - n = 0 THEN index \ {maker} ELSE index
  BY DEF Fill, CanFill
<1>2. /\ n \in Int /\ DOMAIN order' = DOMAIN order /\ order' \in Seq(Order) /\ Len(order') = Len(order)
      /\ \A id \in DOMAIN order : /\ order'[id].side = order[id].side
                                  /\ id # maker /\ id # Taker => order'[id].open = order[id].open
      /\ order'[maker].open = order[maker].open - n
      /\ order'[Taker].open = order[Taker].open - n
  BY FillIs
<1>3. /\ maker \in index /\ maker \in DOMAIN order /\ maker # Taker /\ order[maker].side = opp
      /\ price = order[maker].price
  BY <1>1, MakerIs
<1>4. /\ Taker \in DOMAIN order /\ Taker \notin index /\ opp # order[Taker].side
      /\ \A s \in Sides : s = opp \/ s = order[Taker].side
  <2>1. Taker \in DOMAIN order /\ Taker \notin index /\ order[Taker].side \in Sides
    BY <1>1, TakerIs
  <2> QED BY <2>1, SidesAre
<1> HIDE DEF maker, n, opp, price
<1>5. /\ led \in Ledger /\ price \in Int /\ Counted(order) /\ Counted(order')
      /\ order[maker].open \in Int /\ order[Taker].open \in Int
  <2>1. order \in Seq(Order) /\ led \in Ledger
    BY DEF Inductive, TypeOK, Ledger
  <2>2. price \in Int /\ order[maker].open \in Int /\ order[Taker].open \in Int
    BY <1>3, <1>4, <2>1, OrdersAre
  <2> QED BY <1>2, <2>1, <2>2, HeapCounted
<1>6. /\ led'.submitted = led.submitted /\ led'.canceled = led.canceled
      /\ led'.filled = [s \in Sides |-> Int64(led.filled[s] + n)]
      /\ led'.notional = [s \in Sides |-> Int64(led.notional[s] + price * n)]
  <2> DEFINE F == [s \in Sides |-> Int64(led.filled[s] + n)]
             N == [s \in Sides |-> Int64(led.notional[s] + price * n)]
  <2>1. led' = [led EXCEPT !.filled = F, !.notional = N]
    BY <1>1 DEF LedgerFill
  <2> HIDE DEF F, N
  <2>2. /\ led'.submitted = led.submitted /\ led'.canceled = led.canceled
        /\ led'.filled = F /\ led'.notional = N
    BY <1>5, <2>1 DEF Ledger
  <2> QED BY <2>2 DEF F, N
<1>7. Taker' = Taker
  BY <1>2 DEF Taker
<1>8. ASSUME NEW s \in Sides PROVE BalancedSide(s)'
  <2> DEFINE L == Live(s)
             h == Held(order, L)
             f == led.filled[s]
             c == led.canceled[s]
             spent == order'[maker].open = 0
  <2>1. /\ L \in SUBSET DOMAIN order /\ IsFiniteSet(L) /\ h \in Int /\ f \in Int /\ c \in Int
        /\ index \subseteq DOMAIN order
    BY LiveIs DEF Inductive, TypeOK
  <2>2. led.submitted[s] = Int64(h + f + c)
    BY DEF Balanced, BalancedSide
  <2>3. L = {x \in index \cup {Taker} : order[x].side = s}
    BY <1>1 DEF Live
  <2>4. Live(s)' = {x \in index' \cup {Taker} : order[x].side = s}
    <3>1. Live(s)' = {x \in index' \cup {Taker} : order'[x].side = s}
      BY <1>1, <1>7 DEF Live
    <3>2. \A x \in index' \cup {Taker} : order'[x].side = order[x].side
      BY <1>1, <1>2, <1>4, <2>1
    <3> QED BY <3>1, <3>2
  <2> HIDE DEF L
  <2>5. Held(order', Live(s)') = h - n
    <3>1. ASSUME NEW y \in L, \A x \in L : x # y => order'[x].open = order[x].open,
                 order'[y].open = order[y].open - n
          PROVE  Held(order', L) = h - n
      <4>1. L \subseteq DOMAIN order' /\ L \subseteq DOMAIN order /\ order[y].open \in Int
        BY <1>2, <1>5, <2>1 DEF Counted
      <4>2. Held(order', L) = Held(order, L) + order'[y].open - order[y].open
        BY <1>5, <2>1, <3>1, <4>1, HeldMoves
      <4> DEFINE a == order[y].open
      <4>3. a \in Int /\ Held(order', L) = h + (a - n) - a
        BY <3>1, <4>1, <4>2
      <4> HIDE DEF a, h
      <4> QED BY <1>2, <2>1, <4>3
    <3>2. CASE s = opp
      <4>1. maker \in L /\ Taker \notin L
        BY <1>3, <1>4, <2>3, <3>2
      <4>2. \A x \in L : x # maker => order'[x].open = order[x].open
        BY <1>2, <2>1, <4>1
      <4>3. Held(order', L) = h - n
        BY <1>2, <3>1, <4>1, <4>2
      <4>4. CASE spent
        <5>1. Live(s)' = L \ {maker}
          BY <1>1, <1>2, <1>3, <2>3, <2>4, <4>4
        <5>2. Held(order', L \ {maker}) = Held(order', L) - order'[maker].open
          <6>1. L \in SUBSET DOMAIN order'
            BY <1>2, <2>1
          <6> QED BY <1>5, <2>1, <4>1, <6>1, HeldIs
        <5>3. h - n \in Int
          BY <1>2, <2>1
        <5> HIDE DEF h
        <5> QED BY <4>3, <4>4, <5>1, <5>2, <5>3
      <4>5. CASE ~spent
        <5>1. Live(s)' = L
          BY <1>1, <1>2, <2>3, <2>4, <4>5
        <5> QED BY <4>3, <5>1
      <4> QED BY <4>4, <4>5
    <3>3. CASE s # opp
      <4>1. s = order[Taker].side /\ Taker \in L /\ maker \notin L
        BY <1>3, <1>4, <2>3, <3>3
      <4>2. \A x \in L : x # Taker => order'[x].open = order[x].open
        BY <1>2, <2>1, <4>1
      <4>3. Held(order', L) = h - n
        BY <1>2, <3>1, <4>1, <4>2
      <4>4. Live(s)' = L
        BY <1>1, <1>3, <2>3, <2>4, <3>3
      <4> QED BY <4>3, <4>4
    <3> QED BY <3>2, <3>3
  <2>6. led'.submitted[s] = led.submitted[s] /\ led'.filled[s] = Int64(f + n) /\ led'.canceled[s] = c
    BY <1>6
  <2> HIDE DEF h, f, c
  <2>7. Int64((h - n) + Int64(f + n) + c) = Int64(h + f + c)
    <3>1. Moves(h, f, c, n)
      BY <1>2, <2>1, BalanceMoves
    <3> QED BY <3>1 DEF Moves
  <2> QED BY <2>2, <2>5, <2>6, <2>7 DEF BalancedSide
<1>9. led'.filled[Buy] = led'.filled[Sell] /\ led'.notional[Buy] = led'.notional[Sell]
  <2>1. led.filled[Buy] = led.filled[Sell] /\ led.notional[Buy] = led.notional[Sell]
    BY DEF Balanced
  <2>2. Buy \in Sides /\ Sell \in Sides
    BY DEF Sides
  <2> QED BY <1>6, <2>1, <2>2
<1> QED BY <1>8, <1>9 DEF Balanced

-----------------------------------------------------------------------------
(* The totals and the ledger, in every state *)

Accounts == AllHonest /\ Balanced

\* The accounts of a book whose ladders, heap and ledger did not move.
LEMMA AccountsSame ==
  ASSUME Accounts, UNCHANGED <<ladder, order, index, led, pc>>
  PROVE  Accounts'
<1>1. \A s \in Sides : Live(s)' = Live(s)
  BY DEF Accounts, Live, Taker
<1>2. AllHonest'
  BY DEF Accounts, AllHonest
<1>3. ASSUME NEW s \in Sides PROVE BalancedSide(s)'
  <2> DEFINE L == Live(s)
  <2>1. Live(s)' = L
    BY <1>1
  <2>2. led.submitted[s] = Int64(Held(order, L) + led.filled[s] + led.canceled[s])
    BY DEF Accounts, Balanced, BalancedSide
  <2> HIDE DEF L
  <2> QED BY <2>1, <2>2 DEF BalancedSide
<1> QED BY <1>2, <1>3 DEF Accounts, Balanced

\* An empty book owes nothing.
LEMMA InitAccounts == Init => Accounts
<1> SUFFICES ASSUME Init PROVE Accounts
  OBVIOUS
<1>1. AllHonest
  <2>1. \A s \in Sides : Len(ladder[s]) = 0
    BY DEF Init
  <2> QED BY <2>1 DEF AllHonest, Honest
<1>2. ASSUME NEW s \in Sides PROVE BalancedSide(s)
  <2>1. Live(s) = {}
    BY DEF Init, Live
  <2>2. Held(order, {}) = 0
    <3>1. IsFiniteSet({}) /\ Counted(order)
      BY FS_EmptySet DEF Init, Counted
    <3>2. {} \in SUBSET DOMAIN order
      OBVIOUS
    <3> QED BY <3>1, <3>2, HeldIs
  <2>3. led.submitted[s] = 0 /\ led.filled[s] = 0 /\ led.canceled[s] = 0
    BY DEF Init, EmptyLedger
  <2>4. 0 \in Int64s /\ 0 + 0 + 0 = 0
    BY Int64HalfAssumption DEF Int64s
  <2>5. Int64(0) = 0
    BY <2>4, Int64Fixed
  <2> QED BY <2>1, <2>2, <2>3, <2>4, <2>5 DEF BalancedSide
<1>3. led.filled[Buy] = led.filled[Sell] /\ led.notional[Buy] = led.notional[Sell]
  BY DEF Init, EmptyLedger, Sides
<1> QED BY <1>1, <1>2, <1>3 DEF Accounts, Balanced

\* Every step keeps them.
LEMMA NextAccounts ==
  ASSUME Inductive, Accounts, [Next]_vars
  PROVE  Accounts'
<1>1. CASE UNCHANGED vars
  BY <1>1, AccountsSame DEF vars
<1>2. ASSUME NEW s \in Sessions, NEW p \in Prices, NEW q \in Qtys, RejectSubmit(s, p, q)
      PROVE  Accounts'
  <2>1. UNCHANGED <<ladder, order, index, led, pc>>
    BY <1>2 DEF RejectSubmit, Reject, Return
  <2> QED BY <2>1, AccountsSame
<1>3. ASSUME NEW s \in Sessions, NEW side \in Sides, NEW p \in Prices, NEW q \in Qtys,
             AcceptSubmit(s, side, p, q)
      PROVE  Accounts'
  BY <1>3, AcceptHonest, AcceptBalanced DEF Accounts
<1>4. ASSUME NEW s \in Sessions, NEW id \in 1 .. MaxCommands, RejectCancel(s, id)
      PROVE  Accounts'
  <2>1. UNCHANGED <<ladder, order, index, led, pc>>
    BY <1>4 DEF RejectCancel, Reject, Return
  <2> QED BY <2>1, AccountsSame
<1>5. ASSUME NEW s \in Sessions, NEW id \in 1 .. MaxCommands, CancelOrder(s, id)
      PROVE  Accounts'
  <2>1. id \in Int
    BY CommandAssumption
  <2> QED BY <1>5, <2>1, CancelHonest, CancelBalanced DEF Accounts
<1>6. CASE Fill
  BY <1>6, FillHonest, FillBalanced DEF Accounts
<1>7. CASE Finish
  BY <1>7, FinishHonest, FinishBalanced DEF Accounts
<1> QED BY <1>1, <1>2, <1>3, <1>4, <1>5, <1>6, <1>7 DEF Next

\* In every state the cached totals are those of the queues and the ledger
\* balances, in the middle of a sweep too.
THEOREM AccountsHold == Spec => []Accounts
<1>1. Init => Accounts
  BY InitAccounts
<1>2. Inductive /\ Accounts /\ [Next]_vars => Accounts'
  BY NextAccounts
<1> QED BY <1>1, <1>2, InductiveHolds, PTL DEF Spec

\* The total of a level, as the code sums the queue.
LEMMA TotalIs ==
  ASSUME Inductive, Accounts, NEW s \in Sides, NEW i \in DOMAIN ladder[s]
  PROVE  ladder[s][i].total = Int64(OpenOf(ladder[s][i].orders))
<1> DEFINE lv == ladder[s][i]
<1>1. ladder[s] \in Seq(Level) /\ WellFormed(s, ladder[s], order) /\ Counted(order)
  BY HeldFrom
<1>2. i \in 1 .. Len(ladder[s])
  BY <1>1
<1>3. lv \in Level /\ WellFormedLevel(s, lv, order)
  BY <1>1, <1>2 DEF WellFormed
<1>4. lv.total = Int64(Held(order, Range(lv.orders)))
  BY <1>2 DEF Accounts, AllHonest, Honest, HonestLevel
<1> HIDE DEF lv
<1>5. OpenOf(lv.orders) = Held(order, Range(lv.orders))
  BY <1>1, <1>3, QueueHolds DEF OpenOf
<1> QED BY <1>4, <1>5 DEF lv

\* The cached total that the snapshot publishes is, wrapped to 64 bits, the sum
\* of the queue under it (ladder.go:11, 14-36).
THEOREM TotalsAreHonest == Spec => []TotalsHonest
<1>1. Inductive /\ Accounts => TotalsHonest
  BY TotalIs DEF TotalsHonest
<1> QED BY <1>1, InductiveHolds, AccountsHold, PTL

\* Between two fills of a sweep as between two commands, what was submitted on a
\* side is what is left on it, what was filled and what was canceled
\* (match.go:35-65, book.go:92-157).
THEOREM ConservedAlways == Spec => []ConservedMidSweep
<1>1. ASSUME Balanced, NEW s \in Sides
      PROVE  led.submitted[s] =
               Int64(SumFunctionOnSet([id \in DOMAIN order |-> order[id].open],
                                      {id \in index \cup (IF pc = "sweep" THEN {Taker} ELSE {}) :
                                          order[id].side = s})
                     + led.filled[s] + led.canceled[s])
  BY <1>1 DEF Balanced, BalancedSide, Held, Opens, Live
<1>2. Accounts => ConservedMidSweep
  BY <1>1 DEF ConservedMidSweep, Accounts
<1> QED BY <1>2, AccountsHold, PTL

-----------------------------------------------------------------------------
(* What is published adds up *)

\* A sum of terms already wrapped differs from the true sum by whole turns.
LEMMA SumWraps ==
  ASSUME NEW S, IsFiniteSet(S), NEW f, \A x \in S : f[x] \in Int,
         NEW g, \A x \in S : g[x] = Int64(f[x])
  PROVE  Int64(SumFunctionOnSet(g, S)) = Int64(SumFunctionOnSet(f, S))
<1> DEFINE F(U) == SumFunctionOnSet(f, U)
           G(U) == SumFunctionOnSet(g, U)
           B == {U \in SUBSET S : Int64(G(U)) # Int64(F(U))}
<1>1. \A x \in S : g[x] \in Int /\ Congruent(g[x], f[x])
  BY Int64Is
<1>2. \A U \in SUBSET S : IsFiniteSet(U)
  BY FS_Subset
<1>3. \A U \in SUBSET S : F(U) \in Int /\ (U = {} => F(U) = 0)
                          /\ \A x \in U : F(U) = f[x] + F(U \ {x})
  BY <1>2, SumIs
<1>4. \A U \in SUBSET S : G(U) \in Int /\ (U = {} => G(U) = 0)
                          /\ \A x \in U : G(U) = g[x] + G(U \ {x})
  BY <1>1, <1>2, SumIs
<1> SUFFICES ASSUME B # {} PROVE FALSE
  OBVIOUS
<1>5. PICK U \in B : \A x \in U : U \ {x} \notin B
  <2>1. B \in SUBSET SUBSET S
    OBVIOUS
  <2> HIDE DEF B
  <2> QED BY <2>1, SmallestSet
<1>6. U \in SUBSET S /\ Int64(G(U)) # Int64(F(U))
  BY <1>5
<1>7. PICK x \in U : TRUE
  BY <1>3, <1>4, <1>6
<1> DEFINE V == U \ {x}
<1>8. V \in SUBSET S /\ x \in S
  BY <1>6, <1>7
<1>9. Int64(G(V)) = Int64(F(V))
  BY <1>5, <1>7, <1>8
<1>10. G(U) = g[x] + G(V) /\ F(U) = f[x] + F(V)
  BY <1>3, <1>4, <1>6, <1>7
<1>11. G(V) \in Int /\ F(V) \in Int /\ g[x] \in Int /\ f[x] \in Int /\ Congruent(g[x], f[x])
  BY <1>1, <1>3, <1>4, <1>8
<1>12. G(U) \in Int /\ F(U) \in Int
  BY <1>3, <1>4, <1>6
<1> DEFINE a == G(V)
           b == F(V)
           u == g[x]
           v == f[x]
<1> HIDE DEF B, V, F, G, a, b, u, v
<1>13. a \in Int /\ b \in Int /\ u \in Int /\ v \in Int /\ Congruent(u, v) /\ Congruent(a, b)
  <2>1. a \in Int /\ b \in Int /\ u \in Int /\ v \in Int /\ Congruent(u, v) /\ Int64(a) = Int64(b)
    BY <1>9, <1>11 DEF a, b, u, v
  <2> QED BY <2>1, WrapsAlike
<1>14. Congruent(u + a, v + b)
  BY <1>13, CongruentIs
<1>15. u + a \in Int /\ v + b \in Int
  BY <1>13
<1>16. Int64(u + a) = Int64(v + b)
  BY <1>14, <1>15, WrapsAlike
<1> QED BY <1>6, <1>10, <1>16 DEF a, b, u, v

\* The totals of a ladder, summed, are what the ids queued on it have left.
LEMMA RestingTotal ==
  ASSUME NEW side, NEW ords, Counted(ords), NEW d \in Seq(Level), WellFormed(side, d, ords),
         Honest(d, ords)
  PROVE  Int64(SumFunction([i \in DOMAIN d |-> d[i].total])) = Int64(Held(ords, Queued(d)))
<1> DEFINE I == DOMAIN d
           f == [i \in I |-> Held(ords, Range(d[i].orders))]
           g == [i \in I |-> d[i].total]
<1>1. I = 1 .. Len(d) /\ IsFiniteSet(I)
  BY FS_Interval
<1>2. ASSUME NEW i \in I PROVE f[i] \in Int /\ g[i] = Int64(f[i])
  <2>1. d[i] \in Level /\ WellFormedLevel(side, d[i], ords) /\ HonestLevel(d[i], ords)
    BY <1>1 DEF WellFormed, Honest
  <2>2. IsFiniteSet(Range(d[i].orders)) /\ Range(d[i].orders) \in SUBSET DOMAIN ords
    BY <2>1, QueueHolds
  <2>3. Held(ords, Range(d[i].orders)) \in Int
    BY <2>2, HeldIs
  <2> QED BY <2>1, <2>3 DEF HonestLevel
<1>3. SumFunction(f) = Held(ords, Queued(d))
  BY LadderHolds
<1>4. SumFunction(f) = SumFunctionOnSet(f, I) /\ SumFunction(g) = SumFunctionOnSet(g, I)
  BY DEF SumFunction
<1> HIDE DEF f, g, I
<1>5. Int64(SumFunctionOnSet(g, I)) = Int64(SumFunctionOnSet(f, I))
  BY <1>1, <1>2, SumWraps
<1>6. Int64(SumFunction(g)) = Int64(Held(ords, Queued(d)))
  BY <1>3, <1>4, <1>5
<1> QED BY <1>6 DEF g, I

\* On each side of what is published, resting with filled with canceled makes
\* submitted, though the resting quantity comes from totals no check ever reads
\* (snapshot.go, ladder.go:11).
THEOREM SnapshotsAddUp == Spec => []SnapshotAddsUp
<1>1. ASSUME Inductive, Accounts, pc = "idle", NEW s \in Sides
      PROVE  Snapshot.submitted[s] = Int64(Snapshot.resting[s] + Snapshot.filled[s] + Snapshot.canceled[s])
  <2> DEFINE f == led.filled[s]
             c == led.canceled[s]
             h == Held(order, Queued(ladder[s]))
  <2>1. f \in Int /\ c \in Int /\ h \in Int /\ led.submitted[s] = Int64(h + f + c)
    BY <1>1, LiveIs DEF Accounts, Balanced, BalancedSide
  <2>2. Int64(SumFunction([i \in DOMAIN ladder[s] |-> ladder[s][i].total])) = Int64(h)
    BY <1>1, HeldFrom, RestingTotal DEF Accounts, AllHonest
  <2>3. Snapshot.resting[s] = Int64(h)
    BY <2>2 DEF Snapshot
  <2>4. Snapshot.submitted[s] = led.submitted[s] /\ Snapshot.filled[s] = f /\ Snapshot.canceled[s] = c
    BY DEF Snapshot
  <2> HIDE DEF f, c, h
  <2> DEFINE x == f + c
             w == Int64(h)
  <2>5. x \in Int /\ w \in Int /\ h + f + c = h + x /\ w + f + c = w + x
    BY <2>1, Int64Type
  <2> HIDE DEF x
  <2>6. Int64(w + x) = Int64(h + x)
    BY <2>1, <2>5, WrapLater
  <2> HIDE DEF w
  <2> QED BY <2>1, <2>3, <2>4, <2>5, <2>6 DEF w
<1>2. Inductive /\ Accounts => SnapshotAddsUp
  BY <1>1 DEF SnapshotAddsUp
<1> QED BY <1>2, InductiveHolds, AccountsHold, PTL

-----------------------------------------------------------------------------
(* A sweep goes in order *)

\* Nothing is told between commands.
LEMMA InitSweep == Init => SweepInOrder
BY DEF Init, SweepInOrder

\* What was told stays true while the book stands still.
LEMMA StutterSweep ==
  ASSUME SweepInOrder, UNCHANGED <<ladder, order, index, pc, pre, fills>>
  PROVE  SweepInOrder'
<1>1. Taker' = Taker /\ Opp' = Opp /\ Frontier(Opp)' = Frontier(Opp)
  BY DEF Taker, Opp, Frontier
<1>2. \A f : Told(f)' <=> Told(f)
  BY <1>1 DEF Told
<1> QED BY <1>1, <1>2 DEF SweepInOrder

\* The sweep starts at the frontier that was photographed.
LEMMA AcceptSweep ==
  ASSUME Inductive, SweepInOrder, NEW session \in Sessions, NEW side \in Sides,
         NEW price \in Prices, NEW qty \in Qtys, AcceptSubmit(session, side, price, qty)
  PROVE  SweepInOrder'
<1>1. /\ pc = "idle" /\ pc' = "sweep" /\ ladder' = ladder /\ fills' = fills
      /\ pre' = [s \in Sides |-> Frontier(ladder[s])]
      /\ \A a \in DOMAIN order : order'[a] = order[a]
      /\ order'[Taker'].side = side
  BY AcceptIs
<1>2. fills' = <<>>
  BY <1>1 DEF SweepInOrder
<1> DEFINE s == Opposite(side)
           d == ladder[s]
<1>3. s \in Sides
  BY SidesAre
<1>4. Opp' = d
  BY <1>1 DEF Opp
<1>5. pre'[s] = Frontier(d)
  BY <1>1, <1>3
<1>6. d \in Seq(Level) /\ WellFormed(s, d, order)
  BY <1>3, HeldFrom
<1> HIDE DEF s
<1>7. Frontier(Opp)' = Frontier(d)
  <2>1. CASE d = <<>>
    BY <1>4, <2>1 DEF Frontier
  <2>2. CASE d # <<>>
    <3> HIDE DEF d
    <3>1. d[1].orders # <<>> /\ d[1].orders \in Seq(Nat) /\ d[1].orders[1] \in Queued(d)
      BY <1>6, <2>2, BestIs
    <3>2. d[1].orders[1] \in DOMAIN order /\ Head(d[1].orders) = d[1].orders[1]
      BY <1>6, <3>1, QueuedOrdersAre
    <3>3. order'[Head(d[1].orders)] = order[Head(d[1].orders)]
      BY <1>1, <3>2
    <3> QED BY <1>4, <2>2, <3>1, <3>3 DEF Frontier
  <2> QED BY <2>1, <2>2
<1> QED BY <1>1, <1>2, <1>5, <1>7 DEF SweepInOrder, s

\* After the loop there is nothing more to tell.
LEMMA FinishSweep ==
  ASSUME Finish
  PROVE  SweepInOrder'
BY DEF Finish, SweepInOrder

\* What was told, in the next state.
ToldNext(g) ==
    \E m \in DOMAIN order' :
        /\ m # Taker' /\ order'[m].seq = g.makerSeq
        /\ order'[m].open = g.makerLeft /\ g.makerLeft >= 0
        /\ m \in index' <=> g.makerLeft > 0
        /\ g.makerLeft > 0 => order'[Taker'].open = 0

\* Each fill takes the order that follows the last one taken, and leaves those
\* that follow it.
LEMMA FillSweep ==
  ASSUME Inductive, SweepInOrder, Fill
  PROVE  SweepInOrder'
<1> DEFINE maker == Opp[1].orders[1]
           n     == FillQty(order[Taker], order[maker])
           o     == order[Taker]
           s     == Opposite(o.side)
           left  == order[maker].open - n
           best  == Opp[1].price
           f     == [price |-> best, qty |-> n, makerSeq |-> order[maker].seq, makerLeft |-> left]
<1>1. /\ pc = "sweep" /\ pc' = "sweep" /\ Opp # <<>> /\ pre' = pre
      /\ fills' = Append(fills, f)
      /\ index' = IF left = 0 THEN index \ {maker} ELSE index
      /\ o.open > 0 /\ Crosses(o.side, o.price, best)
  BY DEF Fill, CanFill
<1>2. /\ n \in Int /\ n > 0 /\ n <= order[maker].open /\ n <= o.open
      /\ DOMAIN order' = DOMAIN order /\ Len(order') = Len(order)
      /\ \A id \in DOMAIN order :
            /\ order'[id].side = order[id].side
            /\ order'[id].price = order[id].price
            /\ order'[id].seq = order[id].seq
            /\ id # maker /\ id # Taker => order'[id].open = order[id].open
      /\ order'[maker].open = left
      /\ order'[Taker].open = o.open - n
  BY FillIs
<1>3. /\ Opp \in Seq(Level) /\ WellFormed(s, Opp, order)
      /\ maker \in index /\ maker \in DOMAIN order /\ maker # Taker
      /\ order[maker].side = s /\ order[maker].price = best /\ order[maker].open > 0
      /\ Opp[1].orders # <<>>
  BY <1>1, MakerIs
<1>4. /\ Taker \in DOMAIN order /\ Taker \notin index /\ s \in Sides /\ Opp = ladder[s]
      /\ order \in Seq(Order)
  BY <1>1, TakerIs DEF Inductive, TypeOK
<1>5. /\ order[maker].open \in Int /\ o.open \in Int /\ order[maker].seq \in Nat /\ best \in Int
      /\ maker \in Int
  <2>1. order[maker].open \in Int /\ o.open \in Int /\ order[maker].seq \in Nat /\ order[maker].price \in Int
    BY <1>3, <1>4, OrdersAre
  <2>2. maker \in Int
    BY <1>3, <1>4, LenProperties
  <2> QED BY <1>3, <2>1, <2>2
<1>6. n = order[maker].open \/ n = o.open
  BY DEF FillQty
<1>7. /\ f.price = best /\ f.qty = n /\ f.makerSeq = order[maker].seq /\ f.makerLeft = left
      /\ left \in Int /\ left >= 0 /\ order'[Taker].open \in Int
  BY <1>2, <1>5
<1>8. /\ fills \in Seq(Trade) /\ fills' \in Seq(Trade) /\ Len(fills) \in Nat
      /\ Len(fills') = Len(fills) + 1 /\ fills' # <<>>
      /\ \A i \in 1 .. Len(fills) : fills'[i] = fills[i]
      /\ fills'[Len(fills) + 1] = f
  <2>1. fills \in Seq(Trade)
    BY DEF Inductive, TypeOK
  <2>2. Len(fills) \in Nat
    BY <2>1
  <2> HIDE DEF f
  <2>3. /\ Len(fills') = Len(fills) + 1
        /\ \A i \in 1 .. Len(fills) : fills'[i] = fills[i]
        /\ fills'[Len(fills) + 1] = f
    BY <1>1, <2>1
  <2>4. fills' \in Seq(Trade)
    <3>1. Inductive'
      BY FillInductive
    <3> QED BY <3>1 DEF Inductive, TypeOK
  <2>5. fills' # <<>>
    BY <2>2, <2>3, <2>4, EmptySeq
  <2> QED BY <2>1, <2>2, <2>3, <2>4, <2>5
<1>9. Taker' = Taker /\ order'[Taker].side = o.side /\ order'[Taker].price = o.price
  BY <1>2, <1>4 DEF Taker
<1>10. fills # <<>> =>
          /\ ~ pre[s].empty
          /\ fills[1].makerSeq = pre[s].headSeq /\ fills[1].price = pre[s].price
          /\ \A i \in 2 .. Len(fills) : Follows(s, fills[i-1], fills[i].price, fills[i].makerSeq)
          /\ \A i \in 1 .. Len(fills) :
               fills[i].qty > 0 /\ Crosses(o.side, o.price, fills[i].price) /\ Told(fills[i])
          /\ \A x \in index : order[x].side = s =>
               Follows(s, fills[Len(fills)], order[x].price, order[x].seq)
  BY <1>1 DEF SweepInOrder
<1>11. fills = <<>> => pre[s] = Frontier(Opp)
  BY <1>1 DEF SweepInOrder
<1>12. fills # <<>> => 1 \in 1 .. Len(fills) /\ Len(fills) \in 1 .. Len(fills) /\ Len(fills) # 0
  <2>1. fills # <<>> => Len(fills) # 0
    BY <1>8, EmptySeq
  <2> QED BY <1>8, <2>1
<1> HIDE DEF f, maker, n, left, best, s, o
<1>13. /\ ~ pre[s].empty
       /\ fills'[1].makerSeq = pre[s].headSeq /\ fills'[1].price = pre[s].price
  <2>1. CASE fills = <<>>
    <3>1. pre[s] = [empty |-> FALSE, price |-> best, headSeq |-> order[maker].seq]
      <4>1. Head(Opp[1].orders) = maker
        <5>1. Opp[1].orders \in Seq(Nat)
          BY <1>1, <1>3, BestIs
        <5> QED BY <1>3, <5>1 DEF maker
      <4> QED BY <1>1, <1>3, <1>11, <2>1, <4>1 DEF Frontier, best
    <3>2. fills'[1] = f
      BY <1>8, <2>1
    <3> QED BY <1>7, <3>1, <3>2
  <2>2. CASE fills # <<>>
    BY <1>8, <1>10, <1>12, <2>2
  <2> QED BY <2>1, <2>2
<1>14. ASSUME NEW i \in 2 .. Len(fills')
       PROVE  Follows(s, fills'[i-1], fills'[i].price, fills'[i].makerSeq)
  <2>1. CASE i \in 2 .. Len(fills)
    <3>1. i \in 1 .. Len(fills) /\ i - 1 \in 1 .. Len(fills)
      BY <1>8, <2>1
    <3>2. fills # <<>>
      BY <2>1
    <3> QED BY <1>8, <1>10, <2>1, <3>1, <3>2
  <2>2. CASE i = Len(fills) + 1
    <3>1. fills # <<>> /\ i - 1 = Len(fills)
      BY <1>8, <2>2
    <3>2. Follows(s, fills[Len(fills)], order[maker].price, order[maker].seq)
      BY <1>3, <1>10, <3>1
    <3>3. fills'[i-1] = fills[Len(fills)] /\ fills'[i] = f
      BY <1>8, <1>12, <2>2, <3>1
    <3> QED BY <1>3, <1>7, <3>2, <3>3
  <2> QED BY <1>8, <2>1, <2>2
<1>15. ASSUME NEW g, Told(g) PROVE ToldNext(g)
  <2>1. PICK m \in DOMAIN order :
          /\ m # Taker /\ order[m].seq = g.makerSeq
          /\ order[m].open = g.makerLeft /\ g.makerLeft >= 0
          /\ m \in index <=> g.makerLeft > 0
          /\ g.makerLeft > 0 => o.open = 0
    BY <1>15 DEF Told, o
  <2>2. ~ (g.makerLeft > 0) /\ m \notin index
    BY <1>1, <1>5, <2>1
  <2>3. m # maker /\ m \notin index'
    BY <1>1, <1>3, <2>2
  <2>4. order'[m].seq = order[m].seq /\ order'[m].open = order[m].open
    BY <1>2, <2>1, <2>3
  <2> QED BY <1>2, <1>9, <2>1, <2>2, <2>3, <2>4 DEF ToldNext
<1>16. ToldNext(f)
  <2>1. maker \in index' <=> left > 0
    BY <1>1, <1>3, <1>7
  <2>2. left > 0 => order'[Taker].open = 0
    BY <1>2, <1>5, <1>6 DEF left
  <2>3. order'[maker].seq = order[maker].seq /\ maker \in DOMAIN order'
    BY <1>2, <1>3
  <2> QED BY <1>2, <1>3, <1>7, <1>9, <2>1, <2>2, <2>3 DEF ToldNext
<1>17. ASSUME NEW i \in 1 .. Len(fills')
       PROVE  fills'[i].qty > 0 /\ Crosses(o.side, o.price, fills'[i].price) /\ ToldNext(fills'[i])
  <2>1. CASE i \in 1 .. Len(fills)
    <3>1. fills # <<>> /\ fills'[i] = fills[i]
      BY <1>8, <2>1
    <3>2. fills[i].qty > 0 /\ Crosses(o.side, o.price, fills[i].price) /\ Told(fills[i])
      BY <1>10, <2>1, <3>1
    <3>3. ToldNext(fills[i])
      <4> DEFINE g == fills[i]
      <4>1. Told(g)
        BY <3>2
      <4> HIDE DEF g
      <4>2. ToldNext(g)
        BY <1>15, <4>1
      <4> QED BY <4>2 DEF g
    <3> QED BY <3>1, <3>2, <3>3
  <2>2. CASE i = Len(fills) + 1
    BY <1>1, <1>2, <1>7, <1>8, <1>16, <2>2
  <2> QED BY <1>8, <2>1, <2>2
<1>18. ASSUME order'[Taker].open > 0, NEW x \in index', order'[x].side = s
       PROVE  Follows(s, fills'[Len(fills')], order'[x].price, order'[x].seq)
  <2>1. left = 0
    BY <1>2, <1>5, <1>6, <1>18 DEF left
  <2>2. x \in index /\ x # maker /\ x \in DOMAIN order
    BY <1>1, <1>18, <2>1 DEF Inductive, TypeOK
  <2>3. order[x].side = s /\ order'[x].price = order[x].price /\ order'[x].seq = order[x].seq
    BY <1>2, <1>18, <2>2
  <2>4. x \in Queued(Opp)
    BY <1>4, <2>2, <2>3, HeldFrom
  <2>5. Better(s, best, order[x].price) \/ (best = order[x].price /\ maker < x)
    BY <1>1, <1>3, <2>2, <2>4, BestIsFirst DEF maker, best
  <2>6. maker < x => order[maker].seq < order[x].seq
    BY <1>3, <2>2 DEF Inductive, IdsInArrivalOrder
  <2>7. fills'[Len(fills')] = f
    BY <1>8
  <2> QED BY <1>7, <2>3, <2>5, <2>6, <2>7 DEF Follows
<1> QED BY <1>1, <1>8, <1>9, <1>13, <1>14, <1>17, <1>18 DEF SweepInOrder, Told, ToldNext, s, o

-----------------------------------------------------------------------------
(* What the checker sees *)

\* The last element of a set of positions.
LEMMA MaxUpTo ==
  ASSUME NEW n \in Nat, NEW S \in SUBSET (1 .. n), S # {}
  PROVE  Max(S) \in S
<1> DEFINE N == {n - k : k \in S}
<1>1. N \in SUBSET Nat /\ N # {}
  <2>1. \A k \in S : k \in 1 .. n
    OBVIOUS
  <2>2. \A k \in S : n - k \in Nat
    BY <2>1
  <2> QED BY <2>2
<1>2. PICK m \in N : \A k \in N : m <= k
  <2> HIDE DEF N
  <2> QED BY <1>1, LeastNat
<1>3. PICK x \in S : m = n - x
  BY <1>2
<1>4. ASSUME NEW y \in S PROVE x >= y
  <2>1. n - y \in N
    OBVIOUS
  <2> HIDE DEF N
  <2>2. n - x <= n - y
    BY <1>2, <1>3, <2>1
  <2> QED BY <1>3, <2>2
<1> QED BY <1>4 DEF Max

\* The last order with a given arrival, if there is one.
LastOf(refs, q) == SelectLastInSeq(refs, LAMBDA o : o.seq = q)

\* It has that arrival, and 0 stands for none.
LEMMA LastIs ==
  ASSUME NEW R, NEW refs \in Seq(R), NEW q
  PROVE  LET at == LastOf(refs, q)
         IN  /\ at = 0 => \A k \in 1 .. Len(refs) : refs[k].seq # q
             /\ at # 0 => at \in 1 .. Len(refs) /\ refs[at].seq = q
<1> DEFINE I == {i \in 1 .. Len(refs) : refs[i].seq = q}
           at == LastOf(refs, q)
<1>1. at = IF I # {} THEN Max(I) ELSE 0
  BY DEF LastOf, SelectLastInSeq
<1>2. Len(refs) \in Nat /\ I \in SUBSET (1 .. Len(refs))
  OBVIOUS
<1>3. \A i : i \in I <=> i \in 1 .. Len(refs) /\ refs[i].seq = q
  OBVIOUS
<1> HIDE DEF I, at
<1>4. I # {} => Max(I) \in I
  BY <1>2, MaxUpTo
<1> QED BY <1>1, <1>3, <1>4 DEF at

\* A queue of queues, flattened, holds what they hold.
LEMMA FlattenHolds ==
  ASSUME NEW R, NEW qs \in Seq(Seq(R))
  PROVE  /\ FlattenSeq(qs) \in Seq(R)
         /\ \A x : (\E k \in 1 .. Len(FlattenSeq(qs)) : FlattenSeq(qs)[k] = x)
                     <=> \E i \in 1 .. Len(qs) : \E j \in 1 .. Len(qs[i]) : qs[i][j] = x
<1>1. PICK g \in [0 .. Len(qs) -> Seq(R)] :
         /\ g[0] = <<>>
         /\ \A i \in 1 .. Len(qs) : g[i] = g[i - 1] \o qs[i]
         /\ FlattenSeq(qs) = g[Len(qs)]
  BY FlattenIs
<1> DEFINE n == Len(qs)
           In(x, k)  == \E j \in 1 .. Len(g[k]) : g[k][j] = x
           Of(x, i) == \E j \in 1 .. Len(qs[i]) : qs[i][j] = x
           Good(k) == \A x : In(x, k) <=> \E i \in 1 .. k : Of(x, i)
           Bad == {k \in 0 .. n : ~ Good(k)}
<1>2. n \in Nat /\ \A i \in 1 .. n : qs[i] \in Seq(R)
  OBVIOUS
<1>3. \A k \in 0 .. n : g[k] \in Seq(R)
  BY <1>1
<1>4. ASSUME NEW k \in 1 .. n, NEW x PROVE In(x, k) <=> In(x, k - 1) \/ Of(x, k)
  <2> DEFINE a == g[k - 1]
             b == qs[k]
  <2>1. a \in Seq(R) /\ b \in Seq(R) /\ g[k] = a \o b
    <3>1. k - 1 \in 0 .. n
      BY <1>2
    <3>2. g[k] = g[k - 1] \o qs[k]
      BY <1>1
    <3>3. a \in Seq(R) /\ b \in Seq(R)
      BY <1>2, <1>3, <3>1
    <3> QED BY <3>2, <3>3
  <2> HIDE DEF a, b
  <2>2. /\ Len(a) \in Nat /\ Len(b) \in Nat /\ Len(a \o b) = Len(a) + Len(b)
        /\ \A j \in 1 .. Len(a) : (a \o b)[j] = a[j]
        /\ \A j \in 1 .. Len(b) : (a \o b)[Len(a) + j] = b[j]
    BY <2>1, ConcatIs
  <2> DEFINE c == a \o b
  <2> HIDE DEF c
  <2>3. \A j \in 1 .. Len(c) : (j \in 1 .. Len(a) /\ c[j] = a[j])
                                \/ \E h \in 1 .. Len(b) : c[j] = b[h]
    <3> SUFFICES ASSUME NEW j \in 1 .. Len(c), j \notin 1 .. Len(a)
                 PROVE  \E h \in 1 .. Len(b) : c[j] = b[h]
      BY <2>2 DEF c
    <3>1. j - Len(a) \in 1 .. Len(b) /\ j = Len(a) + (j - Len(a))
      BY <2>2 DEF c
    <3>2. c[Len(a) + (j - Len(a))] = b[j - Len(a)]
      BY <2>2, <3>1 DEF c
    <3> QED BY <3>1, <3>2
  <2>4. \A j \in 1 .. Len(a) : j \in 1 .. Len(c) /\ c[j] = a[j]
    BY <2>2 DEF c
  <2>5. \A j \in 1 .. Len(b) : Len(a) + j \in 1 .. Len(c) /\ c[Len(a) + j] = b[j]
    BY <2>2 DEF c
  <2>6. (\E j \in 1 .. Len(c) : c[j] = x)
          <=> (\E j \in 1 .. Len(a) : a[j] = x) \/ (\E j \in 1 .. Len(b) : b[j] = x)
    BY <2>3, <2>4, <2>5
  <2> QED BY <2>1, <2>6 DEF a, b, c
<1>5. Good(0)
  <2>1. Len(g[0]) = 0
    BY <1>1
  <2> QED BY <2>1
<1>6. ASSUME NEW k \in 1 .. n, Good(k - 1) PROVE Good(k)
  <2>1. \A i : i \in 1 .. k <=> i \in 1 .. (k - 1) \/ i = k
    BY <1>2
  <2> HIDE DEF In, Of
  <2> QED BY <1>4, <1>6, <2>1
<1>7. Bad = {}
  <2> SUFFICES ASSUME Bad # {} PROVE FALSE
    OBVIOUS
  <2>1. Bad \in SUBSET Nat
    BY <1>2
  <2> HIDE DEF Bad
  <2>2. PICK k \in Bad : \A h \in Bad : k <= h
    BY <2>1, LeastNat
  <2> USE DEF Bad
  <2> HIDE DEF Good
  <2>3. k \in 1 .. n /\ ~ Good(k)
    BY <1>2, <1>5, <2>2
  <2>4. k - 1 \in 0 .. n /\ ~ (k <= k - 1)
    BY <1>2, <2>3
  <2>5. Good(k - 1)
    BY <2>2, <2>4
  <2> QED BY <1>6, <2>3, <2>5
<1>8. Good(n)
  <2> HIDE DEF Good
  <2> QED BY <1>2, <1>7
<1> DEFINE F == FlattenSeq(qs)
<1>9. F = g[n] /\ F \in Seq(R)
  BY <1>1, <1>2, <1>3
<1> HIDE DEF F
<1>10. \A x : (\E k \in 1 .. Len(F) : F[k] = x) <=> \E i \in 1 .. n : Of(x, i)
  BY <1>8, <1>9
<1> QED BY <1>9, <1>10 DEF F

\* What the checker sees of an order.
RefOf(ords, id) == [seq |-> ords[id].seq, open |-> ords[id].open]

Ref == [seq : Nat, open : Int]

\* The orders of any heap.
LEMMA HeapIs ==
  ASSUME NEW ords \in Seq(Order), NEW x \in DOMAIN ords
  PROVE  ords[x].seq \in Nat /\ ords[x].open \in Int
<1>1. DOMAIN ords = 1 .. Len(ords)
  BY LenProperties
<1>2. ords[x] \in Order
  BY <1>1
<1> QED BY <1>2, Int64sAre DEF Order

\* The window on a ladder, level by level and order by order.
LEMMA ViewIs ==
  ASSUME NEW side, NEW ords \in Seq(Order), NEW d \in Seq(Level), WellFormed(side, d, ords)
  PROVE  /\ View(d, ords) \in Seq([price : Int, orders : Seq(Ref)])
         /\ Len(View(d, ords)) = Len(d) /\ Len(d) \in Nat
         /\ \A i \in 1 .. Len(d) :
               /\ View(d, ords)[i].price = d[i].price
               /\ View(d, ords)[i].orders \in Seq(Ref)
               /\ Len(View(d, ords)[i].orders) = Len(d[i].orders) /\ Len(d[i].orders) \in Nat
               /\ \A j \in 1 .. Len(d[i].orders) :
                     View(d, ords)[i].orders[j] = RefOf(ords, d[i].orders[j])
<1> DEFINE n == Len(d)
           q(i) == [j \in DOMAIN d[i].orders |-> RefOf(ords, d[i].orders[j])]
           v == View(d, ords)
<1>1. n \in Nat /\ DOMAIN d = 1 .. n /\ \A i \in 1 .. n : d[i] \in Level
  OBVIOUS
<1>2. v = [i \in 1 .. n |-> [price |-> d[i].price, orders |-> q(i)]]
  BY <1>1 DEF View, RefOf
<1>3. ASSUME NEW i \in 1 .. n
      PROVE  /\ q(i) \in Seq(Ref) /\ Len(q(i)) = Len(d[i].orders) /\ Len(d[i].orders) \in Nat
             /\ \A j \in 1 .. Len(d[i].orders) : q(i)[j] = RefOf(ords, d[i].orders[j])
             /\ d[i].price \in Int
  <2> DEFINE m == Len(d[i].orders)
             Q == d[i].orders
  <2>1. Q \in Seq(Nat) /\ m \in Nat /\ DOMAIN Q = 1 .. m /\ d[i].price \in Int
    BY <1>1 DEF Level
  <2>2. \A j \in 1 .. m : Q[j] \in DOMAIN ords
    BY DEF WellFormed, WellFormedLevel
  <2> HIDE DEF m, Q
  <2>3. \A j \in 1 .. m : RefOf(ords, Q[j]) \in Ref
    <3> SUFFICES ASSUME NEW j \in 1 .. m PROVE RefOf(ords, Q[j]) \in Ref
      OBVIOUS
    <3> DEFINE x == Q[j]
    <3>0. x \in DOMAIN ords
      BY <2>2
    <3> HIDE DEF x
    <3>1. ords[x].seq \in Nat /\ ords[x].open \in Int
      BY <3>0, HeapIs
    <3> QED BY <3>1 DEF RefOf, Ref, x
  <2> DEFINE F == [j \in 1 .. m |-> RefOf(ords, Q[j])]
  <2>4. q(i) = F
    BY <2>1 DEF Q
  <2>5. F \in [1 .. m -> Ref] /\ \A j \in 1 .. m : F[j] = RefOf(ords, Q[j])
    BY <2>3
  <2> HIDE DEF F, q
  <2>6. F \in Seq(Ref) /\ Len(F) = m
    BY <2>1, <2>5, SeqOfFunction
  <2> QED BY <2>1, <2>4, <2>5, <2>6 DEF m, Q
<1> HIDE DEF q
<1>4. \A i \in 1 .. n : [price |-> d[i].price, orders |-> q(i)] \in [price : Int, orders : Seq(Ref)]
  BY <1>3
<1> HIDE DEF v
<1>5. v \in [1 .. n -> [price : Int, orders : Seq(Ref)]]
      /\ \A i \in 1 .. n : v[i].price = d[i].price /\ v[i].orders = q(i)
  BY <1>2, <1>4
<1>6. v \in Seq([price : Int, orders : Seq(Ref)]) /\ Len(v) = n
  BY <1>1, <1>5, SeqOfFunction
<1> QED BY <1>1, <1>3, <1>5, <1>6 DEF v

\* Ids are handed out as orders arrive.
Aging(ords) == \A a, b \in DOMAIN ords : a < b => ords[a].seq < ords[b].seq

\* The walk finds nothing wrong with a well-formed ladder.
LEMMA WalkPasses ==
  ASSUME NEW side \in Sides, NEW ords \in Seq(Order), NEW d \in Seq(Level), WellFormed(side, d, ords),
         Aging(ords)
  PROVE  ~ BadLadder(side, View(d, ords))
<1> DEFINE v == View(d, ords)
           n == Len(d)
<1>1. /\ Len(v) = n /\ n \in Nat /\ DOMAIN v = 1 .. n
      /\ \A i \in 1 .. n :
            /\ v[i].price = d[i].price
            /\ v[i].orders \in Seq(Ref)
            /\ Len(v[i].orders) = Len(d[i].orders) /\ Len(d[i].orders) \in Nat
            /\ \A j \in 1 .. Len(d[i].orders) : v[i].orders[j] = RefOf(ords, d[i].orders[j])
  <2>1. /\ v \in Seq([price : Int, orders : Seq(Ref)]) /\ Len(v) = n /\ n \in Nat
        /\ \A i \in 1 .. n :
              /\ v[i].price = d[i].price
              /\ v[i].orders \in Seq(Ref)
              /\ Len(v[i].orders) = Len(d[i].orders) /\ Len(d[i].orders) \in Nat
              /\ \A j \in 1 .. Len(d[i].orders) : v[i].orders[j] = RefOf(ords, d[i].orders[j])
    BY ViewIs
  <2> HIDE DEF v
  <2> QED BY <2>1, LenProperties
<1> HIDE DEF v
<1>2. \A i \in 1 .. n : /\ d[i] \in Level /\ d[i].price \in Int /\ d[i].orders # <<>>
                        /\ d[i].orders \in Seq(Nat)
  <2> SUFFICES ASSUME NEW i \in 1 .. n
               PROVE  /\ d[i] \in Level /\ d[i].price \in Int /\ d[i].orders # <<>>
                      /\ d[i].orders \in Seq(Nat)
    OBVIOUS
  <2>1. d[i] \in Level
    OBVIOUS
  <2>2. d[i].orders # <<>>
    BY DEF WellFormed, WellFormedLevel
  <2> QED BY <2>1, <2>2 DEF Level
<1>3. \A i \in 1 .. n : v[i].orders # <<>>
  <2> SUFFICES ASSUME NEW i \in 1 .. n, v[i].orders = <<>> PROVE FALSE
    OBVIOUS
  <2>1. Len(d[i].orders) = 0
    BY <1>1
  <2> QED BY <1>2, <2>1, EmptySeq
<1>4. ASSUME NEW i \in 2 .. n
      PROVE  IF side = Buy THEN ~ (v[i].price >= v[i-1].price) ELSE ~ (v[i].price <= v[i-1].price)
  <2>1. i \in 1 .. n /\ i - 1 \in 1 .. n /\ i - 1 < i
    BY <1>1
  <2>2. Better(side, d[i-1].price, d[i].price)
    BY <2>1 DEF WellFormed
  <2>3. v[i].price = d[i].price /\ v[i-1].price = d[i-1].price /\ d[i].price \in Int /\ d[i-1].price \in Int
    BY <1>1, <1>2, <2>1
  <2> QED BY <2>2, <2>3 DEF Better
<1>5. ASSUME NEW i \in 1 .. n
      PROVE  /\ \A j \in DOMAIN v[i].orders : ~ (v[i].orders[j].open <= 0)
             /\ \A j \in 2 .. Len(v[i].orders) : ~ (v[i].orders[j].seq <= v[i].orders[j-1].seq)
  <2> DEFINE q == d[i].orders
             w == v[i].orders
  <2>1. /\ DOMAIN w = 1 .. Len(q) /\ Len(w) = Len(q) /\ Len(q) \in Nat
        /\ \A j \in 1 .. Len(q) : w[j] = RefOf(ords, q[j])
    BY <1>1
  <2>2. /\ \A j, k \in 1 .. Len(q) : j < k => q[j] < q[k]
        /\ \A j \in 1 .. Len(q) : q[j] \in DOMAIN ords /\ ords[q[j]].open > 0
    BY DEF WellFormed, WellFormedLevel
  <2> HIDE DEF q, w
  <2>3. \A x \in DOMAIN ords : ords[x].open \in Int /\ ords[x].seq \in Nat
    <3> SUFFICES ASSUME NEW x \in DOMAIN ords PROVE ords[x].open \in Int /\ ords[x].seq \in Nat
      OBVIOUS
    <3> QED BY HeapIs
  <2>4. ASSUME NEW j \in 1 .. Len(q) PROVE ~ (w[j].open <= 0)
    <3>1. w[j].open = ords[q[j]].open /\ ords[q[j]].open \in Int
      BY <2>1, <2>2, <2>3 DEF RefOf
    <3> QED BY <2>2, <3>1
  <2>5. ASSUME NEW j \in 2 .. Len(q) PROVE ~ (w[j].seq <= w[j-1].seq)
    <3>1. j \in 1 .. Len(q) /\ j - 1 \in 1 .. Len(q) /\ j - 1 < j
      BY <2>1
    <3>2. ords[q[j-1]].seq < ords[q[j]].seq
      BY <2>2, <3>1 DEF Aging
    <3>3. w[j].seq = ords[q[j]].seq /\ w[j-1].seq = ords[q[j-1]].seq
      <4>1. w[j] = RefOf(ords, q[j]) /\ w[j-1] = RefOf(ords, q[j-1])
        BY <2>1, <3>1
      <4> QED BY <4>1 DEF RefOf
    <3>4. ords[q[j]].seq \in Nat /\ ords[q[j-1]].seq \in Nat
      BY <2>2, <2>3, <3>1
    <3> QED BY <3>2, <3>3, <3>4
  <2> QED BY <2>1, <2>4, <2>5 DEF w
<1> QED BY <1>1, <1>3, <1>4, <1>5 DEF BadLadder, v

\* And it adds up what is queued.
LEMMA WalkAdds ==
  ASSUME NEW side \in Sides, NEW ords \in Seq(Order), NEW d \in Seq(Level), WellFormed(side, d, ords)
  PROVE  WalkedTotal(View(d, ords)) = Int64(Held(ords, Queued(d)))
<1> DEFINE v == View(d, ords)
           n == Len(d)
           W(i) == SumFunction([j \in DOMAIN v[i].orders |-> v[i].orders[j].open])
<1>1. /\ n \in Nat /\ DOMAIN v = 1 .. n /\ DOMAIN d = 1 .. n
      /\ \A i \in 1 .. n :
            /\ DOMAIN v[i].orders = 1 .. Len(d[i].orders)
            /\ \A j \in 1 .. Len(d[i].orders) : v[i].orders[j] = RefOf(ords, d[i].orders[j])
  <2>1. /\ v \in Seq([price : Int, orders : Seq(Ref)]) /\ Len(v) = n /\ n \in Nat
        /\ \A i \in 1 .. n :
              /\ v[i].orders \in Seq(Ref) /\ Len(v[i].orders) = Len(d[i].orders)
              /\ \A j \in 1 .. Len(d[i].orders) : v[i].orders[j] = RefOf(ords, d[i].orders[j])
    BY ViewIs
  <2> HIDE DEF v
  <2> QED BY <2>1, LenProperties
<1>2. WalkedTotal(v) = Int64(SumFunction([i \in 1 .. n |-> W(i)]))
  BY <1>1 DEF WalkedTotal, WalkedLevel
<1> HIDE DEF v
<1>3. ASSUME NEW i \in 1 .. n PROVE W(i) = Held(ords, Range(d[i].orders))
  <2>1. d[i] \in Level /\ WellFormedLevel(side, d[i], ords) /\ Counted(ords)
    BY HeapCounted DEF WellFormed
  <2>2. DOMAIN d[i].orders = 1 .. Len(d[i].orders)
    BY <2>1 DEF Level
  <2>3. \A j \in 1 .. Len(d[i].orders) : v[i].orders[j].open = ords[d[i].orders[j]].open
    <3>1. \A j \in 1 .. Len(d[i].orders) : v[i].orders[j] = RefOf(ords, d[i].orders[j])
      BY <1>1
    <3>2. \A x : RefOf(ords, x).open = ords[x].open
      BY DEF RefOf
    <3> QED BY <3>1, <3>2
  <2>4. [j \in DOMAIN v[i].orders |-> v[i].orders[j].open]
          = [j \in DOMAIN d[i].orders |-> ords[d[i].orders[j]].open]
    BY <1>1, <2>2, <2>3
  <2> QED BY <2>1, <2>4, QueueHolds
<1>4. [i \in 1 .. n |-> W(i)] = [i \in DOMAIN d |-> Held(ords, Range(d[i].orders))]
  <2> HIDE DEF W
  <2> QED BY <1>1, <1>3
<1>5. Counted(ords)
  BY HeapCounted
<1>6. SumFunction([i \in DOMAIN d |-> Held(ords, Range(d[i].orders))]) = Held(ords, Queued(d))
  BY <1>5, LadderHolds
<1> QED BY <1>2, <1>4, <1>6 DEF v

\* It meets every order that is queued, and no other.
LEMMA RefsAre ==
  ASSUME NEW side \in Sides, NEW ords \in Seq(Order), NEW d \in Seq(Level), WellFormed(side, d, ords)
  PROVE  /\ Refs(View(d, ords)) \in Seq(Ref)
         /\ \A x : (\E k \in 1 .. Len(Refs(View(d, ords))) : Refs(View(d, ords))[k] = x)
                     <=> \E id \in Queued(d) : x = RefOf(ords, id)
<1> DEFINE v == View(d, ords)
           n == Len(d)
           qs == [i \in 1 .. n |-> v[i].orders]
<1>1. /\ v \in Seq([price : Int, orders : Seq(Ref)]) /\ Len(v) = n /\ n \in Nat
      /\ \A i \in 1 .. n :
            /\ v[i].orders \in Seq(Ref) /\ Len(v[i].orders) = Len(d[i].orders)
            /\ \A j \in 1 .. Len(d[i].orders) : v[i].orders[j] = RefOf(ords, d[i].orders[j])
  BY ViewIs
<1> HIDE DEF v
<1>2. DOMAIN v = 1 .. n
  BY <1>1, LenProperties
<1>3. qs \in [1 .. n -> Seq(Ref)] /\ \A i \in 1 .. n : qs[i] = v[i].orders
  BY <1>1
<1>4. Refs(v) = FlattenSeq(qs)
  BY <1>2 DEF Refs
<1> HIDE DEF qs
<1>5. qs \in Seq(Seq(Ref)) /\ Len(qs) = n
  BY <1>1, <1>3, SeqOfFunction
<1>6. /\ FlattenSeq(qs) \in Seq(Ref)
      /\ \A x : (\E k \in 1 .. Len(FlattenSeq(qs)) : FlattenSeq(qs)[k] = x)
                   <=> \E i \in 1 .. Len(qs) : \E j \in 1 .. Len(qs[i]) : qs[i][j] = x
  BY <1>5, FlattenHolds
<1>7. ASSUME NEW x
      PROVE  (\E i \in 1 .. Len(qs) : \E j \in 1 .. Len(qs[i]) : qs[i][j] = x)
               <=> \E id \in Queued(d) : x = RefOf(ords, id)
  <2>1. \A id : id \in Queued(d) <=> \E i \in 1 .. n : \E j \in 1 .. Len(d[i].orders) : d[i].orders[j] = id
    BY QueuedIs
  <2>2. \A i \in 1 .. n : /\ Len(qs[i]) = Len(d[i].orders)
                          /\ \A j \in 1 .. Len(d[i].orders) : qs[i][j] = RefOf(ords, d[i].orders[j])
    BY <1>1, <1>3
  <2>3. Len(qs) = n
    BY <1>5
  <2>4. ASSUME NEW i \in 1 .. n, NEW j \in 1 .. Len(qs[i]), qs[i][j] = x
        PROVE  \E id \in Queued(d) : x = RefOf(ords, id)
    <3>1. j \in 1 .. Len(d[i].orders) /\ x = RefOf(ords, d[i].orders[j])
      BY <2>2, <2>4
    <3>2. d[i].orders[j] \in Queued(d)
      BY <2>1, <3>1
    <3> QED BY <3>1, <3>2
  <2>5. ASSUME NEW id \in Queued(d), x = RefOf(ords, id)
        PROVE  \E i \in 1 .. n : \E j \in 1 .. Len(qs[i]) : qs[i][j] = x
    <3>1. PICK i \in 1 .. n : \E j \in 1 .. Len(d[i].orders) : d[i].orders[j] = id
      BY <2>1
    <3>2. PICK j \in 1 .. Len(d[i].orders) : d[i].orders[j] = id
      BY <3>1
    <3>3. j \in 1 .. Len(qs[i]) /\ qs[i][j] = x
      BY <2>2, <2>5, <3>2
    <3> QED BY <3>3
  <2> QED BY <2>3, <2>4, <2>5
<1> QED BY <1>4, <1>6, <1>7 DEF v

\* What the check of the residuals wants of a fill.
Agrees(f, refs) ==
    LET at == LastOf(refs, f.makerSeq)
    IN  /\ ~ (f.makerLeft < 0)
        /\ ~ (f.makerLeft = 0 /\ at # 0)
        /\ ~ (f.makerLeft > 0 /\ at = 0)
        /\ ~ (f.makerLeft > 0 /\ at # 0 /\ refs[at].open # f.makerLeft)

\* What the walk holds of the maker of a fill is what the fill left of it.
LEMMA ResidualAgrees ==
  ASSUME NEW ords \in Seq(Order), NEW ids \in SUBSET DOMAIN ords,
         \A a, b \in DOMAIN ords : ords[a].seq = ords[b].seq => a = b,
         NEW refs \in Seq(Ref),
         \A x : (\E k \in 1 .. Len(refs) : refs[k] = x) <=> \E id \in ids : x = RefOf(ords, id),
         NEW f, NEW m \in DOMAIN ords, ords[m].seq = f.makerSeq, ords[m].open = f.makerLeft,
         f.makerLeft >= 0, m \in ids <=> f.makerLeft > 0
  PROVE  Agrees(f, refs)
<1> DEFINE q == f.makerSeq
           at == LastOf(refs, q)
<1>1. /\ at = 0 => \A k \in 1 .. Len(refs) : refs[k].seq # q
      /\ at # 0 => at \in 1 .. Len(refs) /\ refs[at].seq = q
  <2> HIDE DEF q
  <2> QED BY LastIs
<1> HIDE DEF at
<1>2. f.makerLeft \in Int
  BY HeapIs
<1>3. at # 0 => m \in ids /\ refs[at].open = ords[m].open
  <2> SUFFICES ASSUME at # 0 PROVE m \in ids /\ refs[at].open = ords[m].open
    OBVIOUS
  <2>1. at \in 1 .. Len(refs) /\ refs[at].seq = q
    BY <1>1
  <2>2. PICK id \in ids : refs[at] = RefOf(ords, id)
    BY <2>1
  <2>3. refs[at].seq = ords[id].seq /\ refs[at].open = ords[id].open
    BY <2>2 DEF RefOf
  <2>4. id = m
    BY <2>1, <2>3
  <2> QED BY <2>3, <2>4
<1>4. m \in ids => at # 0
  <2> SUFFICES ASSUME m \in ids PROVE at # 0
    OBVIOUS
  <2>1. PICK k \in 1 .. Len(refs) : refs[k] = RefOf(ords, m)
    OBVIOUS
  <2>2. refs[k].seq = q
    BY <2>1 DEF RefOf
  <2> QED BY <1>1, <2>2
<1> QED BY <1>2, <1>3, <1>4 DEF at, Agrees

\* All that the checks find in a book that is sound.
AllRefs == Refs(View(ladder[Buy], order)) \o Refs(View(ladder[Sell], order))

Clean ==
    /\ order \in Seq(Order) /\ index \in SUBSET DOMAIN order
    /\ \A a, b \in DOMAIN order : order[a].seq = order[b].seq => a = b
    /\ \A s \in Sides :
          /\ ~ BadLadder(s, View(ladder[s], order))
          /\ View(ladder[s], order) = <<>> <=> ladder[s] = <<>>
          /\ ladder[s] # <<>> => /\ View(ladder[s], order)[1].price = ladder[s][1].price
                                 /\ ladder[s][1].price \in Int
          /\ pc = "idle" =>
                led.submitted[s] = Int64(WalkedTotal(View(ladder[s], order)) + led.filled[s] + led.canceled[s])
    /\ led.filled[Buy] = led.filled[Sell] /\ led.notional[Buy] = led.notional[Sell]
    /\ ladder[Buy] # <<>> /\ ladder[Sell] # <<>> => ladder[Buy][1].price < ladder[Sell][1].price
    /\ AllRefs \in Seq(Ref)
    /\ \A x : (\E k \in 1 .. Len(AllRefs) : AllRefs[k] = x) <=> \E id \in index : x = RefOf(order, id)

\* A book that keeps its order and its accounts is one the checks find sound.
LEMMA BookIsClean == Inductive /\ Accounts => Clean
<1> SUFFICES ASSUME Inductive, Accounts PROVE Clean
  OBVIOUS
<1>1. order \in Seq(Order) /\ index \in SUBSET DOMAIN order
  BY DEF Inductive, TypeOK
<1>2. Aging(order)
  BY DEF Aging, Inductive, IdsInArrivalOrder
<1>3. \A a, b \in DOMAIN order : order[a].seq = order[b].seq => a = b
  <2> SUFFICES ASSUME NEW a \in DOMAIN order, NEW b \in DOMAIN order, order[a].seq = order[b].seq, a # b
               PROVE  FALSE
    OBVIOUS
  <2>1. a \in Nat /\ b \in Nat /\ order[a].seq \in Nat /\ order[b].seq \in Nat
    BY <1>1, OrdersAre
  <2>2. a < b \/ b < a
    BY <2>1
  <2>3. order[a].seq < order[b].seq \/ order[b].seq < order[a].seq
    BY <1>2, <2>2 DEF Aging
  <2> QED BY <2>1, <2>3
<1>4. ASSUME NEW s \in Sides
      PROVE  /\ ~ BadLadder(s, View(ladder[s], order))
             /\ View(ladder[s], order) = <<>> <=> ladder[s] = <<>>
             /\ ladder[s] # <<>> => /\ View(ladder[s], order)[1].price = ladder[s][1].price
                                    /\ ladder[s][1].price \in Int
             /\ pc = "idle" =>
                   led.submitted[s]
                     = Int64(WalkedTotal(View(ladder[s], order)) + led.filled[s] + led.canceled[s])
  <2> DEFINE d == ladder[s]
             v == View(d, order)
             f == led.filled[s]
             c == led.canceled[s]
             h == Held(order, Queued(d))
  <2>1. d \in Seq(Level) /\ WellFormed(s, d, order)
    BY HeldFrom
  <2>8. f \in Int /\ c \in Int /\ (pc = "idle" => h \in Int /\ led.submitted[s] = Int64(h + f + c))
    BY LiveIs DEF Accounts, Balanced, BalancedSide
  <2> HIDE DEF d
  <2>2. ~ BadLadder(s, v)
    BY <1>1, <1>2, <2>1, WalkPasses
  <2>3. /\ v \in Seq([price : Int, orders : Seq(Ref)]) /\ Len(v) = Len(d) /\ Len(d) \in Nat
        /\ \A i \in 1 .. Len(d) : v[i].price = d[i].price
    BY <1>1, <2>1, ViewIs
  <2>7. WalkedTotal(v) = Int64(h)
    BY <1>1, <2>1, WalkAdds
  <2> HIDE DEF v
  <2>4. v = <<>> <=> d = <<>>
    <3>1. v = <<>> <=> Len(v) = 0
      BY <2>3, EmptySeq
    <3>2. d = <<>> <=> Len(d) = 0
      BY <2>1, EmptySeq
    <3> QED BY <2>3, <3>1, <3>2
  <2>5. d # <<>> => v[1].price = d[1].price /\ d[1].price \in Int
    <3>1. d # <<>> => 1 \in 1 .. Len(d) /\ d[1] \in Level
      BY <1>1, <2>1, BestIs
    <3> QED BY <2>3, <3>1 DEF Level
  <2>6. pc = "idle" => led.submitted[s] = Int64(WalkedTotal(v) + f + c)
    <3> SUFFICES ASSUME pc = "idle" PROVE led.submitted[s] = Int64(WalkedTotal(v) + f + c)
      OBVIOUS
    <3> HIDE DEF f, c, h
    <3> DEFINE x == f + c
               w == Int64(h)
    <3>1. x \in Int /\ w \in Int /\ h + f + c = h + x /\ w + f + c = w + x
      BY <2>8, Int64Type
    <3> HIDE DEF x
    <3>2. Int64(w + x) = Int64(h + x)
      BY <2>8, <3>1, WrapLater
    <3> HIDE DEF w
    <3> QED BY <2>7, <2>8, <3>1, <3>2 DEF w
  <2> QED BY <2>2, <2>4, <2>5, <2>6 DEF v, d
<1>5. led.filled[Buy] = led.filled[Sell] /\ led.notional[Buy] = led.notional[Sell]
  BY DEF Accounts, Balanced
<1>6. Buy \in Sides /\ Sell \in Sides
  BY DEF Sides
<1>7. ASSUME ladder[Buy] # <<>>, ladder[Sell] # <<>>
      PROVE  ladder[Buy][1].price < ladder[Sell][1].price
  <2>1. ASSUME NEW s \in Sides, ladder[s] # <<>>
        PROVE  \E x \in index : order[x].side = s /\ order[x].price = ladder[s][1].price
    <3> DEFINE d == ladder[s]
    <3>1. /\ d \in Seq(Level) /\ WellFormed(s, d, order) /\ d # <<>>
          /\ \A id : id \in Queued(d) <=> id \in index /\ order[id].side = s
      BY <2>1, HeldFrom
    <3> HIDE DEF d
    <3>2. d[1].orders[1] \in Queued(d) /\ order[d[1].orders[1]].price = d[1].price
      BY <3>1, BestIs, BestIsFirst
    <3> QED BY <3>1, <3>2 DEF d
  <2>2. PICK b \in index : order[b].side = Buy /\ order[b].price = ladder[Buy][1].price
    BY <1>6, <1>7, <2>1
  <2>3. PICK a \in index : order[a].side = Sell /\ order[a].price = ladder[Sell][1].price
    BY <1>6, <1>7, <2>1
  <2>4. order[b].price < order[a].price
    BY <2>2, <2>3 DEF Inductive, NotCrossed
  <2> QED BY <2>2, <2>3, <2>4
<1>8. /\ AllRefs \in Seq(Ref)
      /\ \A x : (\E k \in 1 .. Len(AllRefs) : AllRefs[k] = x) <=> \E id \in index : x = RefOf(order, id)
  <2> DEFINE R(s) == Refs(View(ladder[s], order))
  <2>1. ASSUME NEW s \in Sides
        PROVE  /\ R(s) \in Seq(Ref)
               /\ \A x : (\E k \in 1 .. Len(R(s)) : R(s)[k] = x)
                            <=> \E id \in index : order[id].side = s /\ x = RefOf(order, id)
    <3> DEFINE d == ladder[s]
    <3>1. /\ d \in Seq(Level) /\ WellFormed(s, d, order)
          /\ \A id : id \in Queued(d) <=> id \in index /\ order[id].side = s
      BY HeldFrom
    <3> HIDE DEF d
    <3>2. /\ Refs(View(d, order)) \in Seq(Ref)
          /\ \A x : (\E k \in 1 .. Len(Refs(View(d, order))) : Refs(View(d, order))[k] = x)
                       <=> \E id \in Queued(d) : x = RefOf(order, id)
      BY <1>1, <3>1, RefsAre
    <3> QED BY <3>1, <3>2 DEF d
  <2>2. \A id \in index : order[id].side = Buy \/ order[id].side = Sell
    <3> SUFFICES ASSUME NEW id \in index PROVE order[id].side = Buy \/ order[id].side = Sell
      OBVIOUS
    <3>1. order[id].side \in Sides
      BY <1>1, OrdersAre
    <3> QED BY <3>1 DEF Sides
  <2> DEFINE a == R(Buy)
             b == R(Sell)
             c == a \o b
  <2>3. /\ a \in Seq(Ref) /\ b \in Seq(Ref) /\ AllRefs = c
        /\ \A x : (\E k \in 1 .. Len(a) : a[k] = x)
                     <=> \E id \in index : order[id].side = Buy /\ x = RefOf(order, id)
        /\ \A x : (\E k \in 1 .. Len(b) : b[k] = x)
                     <=> \E id \in index : order[id].side = Sell /\ x = RefOf(order, id)
    BY <1>6, <2>1 DEF AllRefs
  <2> HIDE DEF a, b
  <2>4. /\ c \in Seq(Ref) /\ Len(a) \in Nat /\ Len(b) \in Nat /\ Len(c) = Len(a) + Len(b)
        /\ \A j \in 1 .. Len(a) : c[j] = a[j]
        /\ \A j \in 1 .. Len(b) : c[Len(a) + j] = b[j]
        /\ \A j \in 1 .. Len(c) : j \in 1 .. Len(a) \/ \E k \in 1 .. Len(b) : j = Len(a) + k
    BY <2>3, ConcatIs
  <2> HIDE DEF c
  <2>5. ASSUME NEW x
        PROVE  (\E k \in 1 .. Len(c) : c[k] = x)
                 <=> (\E k \in 1 .. Len(a) : a[k] = x) \/ (\E k \in 1 .. Len(b) : b[k] = x)
    <3>1. \A k \in 1 .. Len(a) : k \in 1 .. Len(c)
      BY <2>4
    <3>2. \A k \in 1 .. Len(b) : Len(a) + k \in 1 .. Len(c)
      BY <2>4
    <3> QED BY <2>4, <3>1, <3>2
  <2> QED BY <2>2, <2>3, <2>4, <2>5
<1> QED BY <1>1, <1>3, <1>4, <1>5, <1>7, <1>8 DEF Clean

-----------------------------------------------------------------------------
(* No report condemns the matcher *)

\* The book that a command leaves behind is sound.
LEMMA NextIsClean ==
  ASSUME Inductive, Accounts, [Next]_vars
  PROVE  Clean'
<1>1. Inductive' /\ Accounts'
  BY NextInductive, NextAccounts
<1>2. (Inductive /\ Accounts => Clean)'
  BY BookIsClean, PTL
<1> QED BY <1>1, <1>2

\* What the checker is handed on the way out of Apply.
Handed(taker) ==
    [book   |-> [s \in Sides |-> View(ladder'[s], order')],
     ledger |-> led',
     pre    |-> pre,
     fills  |-> fills,
     taker  |-> taker]

\* The book passes the checks of its state; those of the sweep are left to show.
LEMMA ReportIsClean ==
  ASSUME Clean', pc' = "idle", NEW taker, fills \in Seq(Trade),
         \A i \in 1 .. Len(fills) :
            \E m \in DOMAIN order' :
               /\ order'[m].seq = fills[i].makerSeq
               /\ order'[m].open = fills[i].makerLeft /\ fills[i].makerLeft >= 0
               /\ m \in index' <=> fills[i].makerLeft > 0,
         ~ BadSweepOrder(Handed(taker)), ~ StoppedEarly(Handed(taker))
  PROVE  Report(taker) = {}
<1> DEFINE in == Handed(taker)
           refs == Refs(in.book[Buy]) \o Refs(in.book[Sell])
<1>1. Report(taker) = Check(in)
  BY DEF Report, Handed
<1>2. Buy \in Sides /\ Sell \in Sides
  BY DEF Sides
<1>3. /\ \A s \in Sides : in.book[s] = View(ladder'[s], order')
      /\ in.ledger = led' /\ in.fills = fills
  BY DEF Handed
<1>4. refs = AllRefs'
  BY <1>2, <1>3 DEF AllRefs
<1> HIDE DEF in
<1>5. \A s \in Sides : ~ BadLadder(s, in.book[s])
  BY <1>3 DEF Clean
<1>6. ~ Crossed(in)
  <2> SUFFICES ASSUME Crossed(in) PROVE FALSE
    OBVIOUS
  <2> DEFINE b == in.book[Buy]
             a == in.book[Sell]
  <2>1. b # <<>> /\ a # <<>> /\ b[1].price >= a[1].price
    BY DEF Crossed
  <2>2. b = View(ladder'[Buy], order') /\ a = View(ladder'[Sell], order')
    BY <1>2, <1>3
  <2> HIDE DEF a, b
  <2>3. ladder'[Buy] # <<>> /\ ladder'[Sell] # <<>>
    BY <1>2, <2>1, <2>2 DEF Clean
  <2>4. /\ b[1].price = ladder'[Buy][1].price /\ a[1].price = ladder'[Sell][1].price
        /\ ladder'[Buy][1].price \in Int /\ ladder'[Sell][1].price \in Int
    BY <1>2, <2>2, <2>3 DEF Clean
  <2>5. ladder'[Buy][1].price < ladder'[Sell][1].price
    BY <2>3 DEF Clean
  <2> QED BY <2>1, <2>4, <2>5
<1>7. ~ BadResidual(in)
  <2>1. /\ order' \in Seq(Order) /\ index' \in SUBSET DOMAIN order'
        /\ \A a, b \in DOMAIN order' : order'[a].seq = order'[b].seq => a = b
        /\ refs \in Seq(Ref)
        /\ \A x : (\E k \in 1 .. Len(refs) : refs[k] = x) <=> \E id \in index' : x = RefOf(order', id)
    BY <1>4 DEF Clean
  <2>2. ASSUME NEW i \in DOMAIN in.fills PROVE Agrees(in.fills[i], refs)
    <3> DEFINE f == fills[i]
    <3>1. i \in 1 .. Len(fills) /\ in.fills[i] = f
      BY <1>3, LenProperties
    <3>2. PICK m \in DOMAIN order' :
             /\ order'[m].seq = f.makerSeq
             /\ order'[m].open = f.makerLeft /\ f.makerLeft >= 0
             /\ m \in index' <=> f.makerLeft > 0
      BY <3>1
    <3> DEFINE ords == order'
               ids  == index'
    <3>3. m \in DOMAIN ords /\ ords[m].seq = f.makerSeq /\ ords[m].open = f.makerLeft
          /\ f.makerLeft >= 0 /\ (m \in ids <=> f.makerLeft > 0)
      BY <3>2
    <3>4. /\ ords \in Seq(Order) /\ ids \in SUBSET DOMAIN ords
          /\ \A a, b \in DOMAIN ords : ords[a].seq = ords[b].seq => a = b
          /\ refs \in Seq(Ref)
          /\ \A x : (\E k \in 1 .. Len(refs) : refs[k] = x) <=> \E id \in ids : x = RefOf(ords, id)
      BY <2>1
    <3> HIDE DEF f, refs, ords, ids
    <3>5. Agrees(f, refs)
      BY <3>3, <3>4, ResidualAgrees
    <3> QED BY <3>1, <3>5
  <2> QED BY <2>2 DEF BadResidual, Agrees, LastOf, SelectLastInSeq
<1>8. ~ BadConservation(in)
  <2>1. \A s \in Sides : led'.submitted[s] = Int64(WalkedTotal(in.book[s]) + led'.filled[s] + led'.canceled[s])
    BY <1>3 DEF Clean
  <2>2. led'.filled[Buy] = led'.filled[Sell] /\ led'.notional[Buy] = led'.notional[Sell]
    BY DEF Clean
  <2> QED BY <1>3, <1>7, <2>1, <2>2 DEF BadConservation
<1>9. Check(in) = {}
  BY <1>5, <1>6, <1>8 DEF Check, in
<1> QED BY <1>1, <1>9

\* A command that matches nothing has no sweep to answer for.
LEMMA QuietReport ==
  ASSUME Inductive, SweepInOrder, Clean', pc = "idle", pc' = "idle"
  PROVE  Report(NoTaker) = {}
<1>1. fills = <<>>
  BY DEF SweepInOrder
<1>2. fills \in Seq(Trade) /\ Len(fills) = 0
  BY <1>1 DEF Inductive, TypeOK
<1>3. ~ BadSweepOrder(Handed(NoTaker)) /\ ~ StoppedEarly(Handed(NoTaker))
  BY DEF BadSweepOrder, StoppedEarly, Handed, NoTaker
<1> QED BY <1>2, <1>3, ReportIsClean

\* And one that matched swept in order and stopped where it had to.
LEMMA SweepReport ==
  ASSUME Inductive, SweepInOrder, Clean', Finish
  PROVE  result'.report = {}
<1> DEFINE o == order[Taker]
           s == Opposite(o.side)
           taker == [present |-> TRUE, side |-> o.side, price |-> o.price, left |-> o.open]
           in == Handed(taker)
<1>1. /\ pc = "sweep" /\ pc' = "idle" /\ ~ CanFill /\ order' = order
      /\ ladder'[s] = ladder[s]
      /\ index' = IF o.open > 0 THEN index \cup {Taker} ELSE index
      /\ result'.report = Report(taker)
  <2>1. s # o.side /\ s \in Sides /\ ladder \in [Sides -> Seq(Level)]
    <3>1. pc = "sweep"
      BY DEF Finish
    <3>2. o.side \in Sides
      BY <3>1, TakerIs
    <3> QED BY <3>2, SidesAre DEF Inductive, TypeOK
  <2> QED BY <2>1 DEF Finish
<1>2. /\ s \in Sides /\ Opp = ladder[s] /\ o.side \in Sides
      /\ o.price \in Int /\ o.open \in Int
  <2>1. s \in Sides /\ Opp = ladder[s] /\ o.side \in Sides /\ Taker \in DOMAIN order
    BY <1>1, TakerIs
  <2> QED BY <2>1, OrdersAre DEF Inductive, TypeOK
<1>3. fills \in Seq(Trade) /\ Len(fills) \in Nat
  BY DEF Inductive, TypeOK
<1>4. fills # <<>> =>
         /\ ~ pre[s].empty
         /\ fills[1].makerSeq = pre[s].headSeq /\ fills[1].price = pre[s].price
         /\ \A i \in 2 .. Len(fills) : Follows(s, fills[i-1], fills[i].price, fills[i].makerSeq)
         /\ \A i \in 1 .. Len(fills) :
              fills[i].qty > 0 /\ Crosses(o.side, o.price, fills[i].price) /\ Told(fills[i])
  BY <1>1 DEF SweepInOrder
<1>5. /\ in.book[s] = View(ladder'[s], order') /\ in.pre = pre /\ in.fills = fills
      /\ in.taker.present /\ in.taker.side = o.side /\ in.taker.price = o.price
      /\ in.taker.left = o.open
  BY <1>2 DEF Handed
<1> HIDE DEF in, o
<1>6. \A i \in 1 .. Len(fills) :
         fills[i].price \in Int /\ fills[i].makerSeq \in Nat /\ fills[i].qty \in Int
  <2> SUFFICES ASSUME NEW i \in 1 .. Len(fills)
               PROVE  fills[i].price \in Int /\ fills[i].makerSeq \in Nat /\ fills[i].qty \in Int
    OBVIOUS
  <2>1. fills[i] \in Trade
    BY <1>3
  <2> QED BY <2>1, Int64sAre DEF Trade
<1>7. ~ BadSweepOrder(in)
  <2> SUFFICES ASSUME fills # <<>> PROVE ~ BadSweepOrder(in)
    BY <1>5 DEF BadSweepOrder
  <2>1. ASSUME NEW i \in 2 .. Len(fills)
        PROVE  ~ (IF fills[i].price = fills[i-1].price
                  THEN fills[i].makerSeq <= fills[i-1].makerSeq
                  ELSE (o.side = Buy) <=> fills[i].price < fills[i-1].price)
    <3>1. i \in 1 .. Len(fills) /\ i - 1 \in 1 .. Len(fills)
      BY <1>3
    <3>2. Better(s, fills[i-1].price, fills[i].price)
          \/ (fills[i-1].price = fills[i].price /\ fills[i-1].makerSeq < fills[i].makerSeq)
      BY <1>4 DEF Follows
    <3>3. /\ fills[i].price \in Int /\ fills[i].makerSeq \in Nat
          /\ fills[i-1].price \in Int /\ fills[i-1].makerSeq \in Nat
      BY <1>6, <3>1
    <3>4. (o.side = Buy => s = Sell) /\ (o.side # Buy => s = Buy) /\ Sell # Buy
      BY <1>2 DEF Sides, Opposite, Buy, Sell
    <3> HIDE DEF s
    <3>5. CASE o.side = Buy
      BY <3>2, <3>3, <3>4, <3>5 DEF Better
    <3>6. CASE o.side # Buy
      BY <3>2, <3>3, <3>4, <3>6 DEF Better
    <3> QED BY <3>5, <3>6
  <2>2. ASSUME NEW i \in DOMAIN fills
        PROVE  ~ (fills[i].qty <= 0)
               /\ ~ (IF o.side = Buy THEN fills[i].price > o.price ELSE fills[i].price < o.price)
    <3>1. i \in 1 .. Len(fills)
      BY <1>3, LenProperties
    <3>2. fills[i].qty > 0 /\ Crosses(o.side, o.price, fills[i].price)
      BY <1>4, <3>1
    <3> QED BY <1>2, <1>6, <3>1, <3>2 DEF Crosses
  <2> QED BY <1>4, <1>5, <2>1, <2>2 DEF BadSweepOrder
<1>8. ~ StoppedEarly(in)
  <2> SUFFICES ASSUME StoppedEarly(in) PROVE FALSE
    OBVIOUS
  <2> DEFINE v == in.book[s]
  <2>1. /\ o.open > 0 /\ v # <<>>
        /\ IF o.side = Buy THEN v[1].price <= o.price ELSE v[1].price >= o.price
    BY <1>5 DEF StoppedEarly
  <2>2. v = View(ladder'[s], order')
    BY <1>5
  <2> HIDE DEF v, s
  <2>3. ladder'[s] # <<>> /\ v[1].price = ladder'[s][1].price /\ ladder'[s][1].price \in Int
    BY <1>2, <2>1, <2>2 DEF Clean
  <2>4. Opp # <<>> /\ v[1].price = Opp[1].price
    BY <1>1, <1>2, <2>3
  <2>5. Crosses(o.side, o.price, Opp[1].price)
    BY <1>2, <2>1, <2>3, <2>4 DEF Crosses
  <2> QED BY <1>1, <2>1, <2>4, <2>5 DEF CanFill, o
<1>9. \A i \in 1 .. Len(fills) :
         \E m \in DOMAIN order' :
            /\ order'[m].seq = fills[i].makerSeq
            /\ order'[m].open = fills[i].makerLeft /\ fills[i].makerLeft >= 0
            /\ m \in index' <=> fills[i].makerLeft > 0
  <2> SUFFICES ASSUME NEW i \in 1 .. Len(fills)
               PROVE  \E m \in DOMAIN order :
                        /\ order[m].seq = fills[i].makerSeq
                        /\ order[m].open = fills[i].makerLeft /\ fills[i].makerLeft >= 0
                        /\ m \in index' <=> fills[i].makerLeft > 0
    BY <1>1
  <2>1. Told(fills[i])
    BY <1>3, <1>4
  <2>2. PICK m \in DOMAIN order :
          /\ m # Taker /\ order[m].seq = fills[i].makerSeq
          /\ order[m].open = fills[i].makerLeft /\ fills[i].makerLeft >= 0
          /\ m \in index <=> fills[i].makerLeft > 0
    BY <2>1 DEF Told
  <2>3. m \in index' <=> m \in index
    BY <1>1, <2>2
  <2> QED BY <2>2, <2>3
<1>10. Report(taker) = {}
  <2> HIDE DEF taker
  <2> QED BY <1>1, <1>3, <1>7, <1>8, <1>9, ReportIsClean DEF in
<1> QED BY <1>1, <1>10

\* Every step keeps the sweep in order.
LEMMA NextSweep ==
  ASSUME Inductive, SweepInOrder, [Next]_vars
  PROVE  SweepInOrder'
<1>1. CASE UNCHANGED vars
  BY <1>1, StutterSweep DEF vars
<1>2. ASSUME NEW s \in Sessions, NEW p \in Prices, NEW q \in Qtys, RejectSubmit(s, p, q)
      PROVE  SweepInOrder'
  <2>1. UNCHANGED <<ladder, order, index, pc, pre, fills>>
    BY <1>2 DEF RejectSubmit, Reject, Return
  <2> QED BY <2>1, StutterSweep
<1>3. ASSUME NEW s \in Sessions, NEW side \in Sides, NEW p \in Prices, NEW q \in Qtys,
             AcceptSubmit(s, side, p, q)
      PROVE  SweepInOrder'
  BY <1>3, AcceptSweep
<1>4. ASSUME NEW s \in Sessions, NEW id \in 1 .. MaxCommands, RejectCancel(s, id)
      PROVE  SweepInOrder'
  <2>1. UNCHANGED <<ladder, order, index, pc, pre, fills>>
    BY <1>4 DEF RejectCancel, Reject, Return
  <2> QED BY <2>1, StutterSweep
<1>5. ASSUME NEW s \in Sessions, NEW id \in 1 .. MaxCommands, CancelOrder(s, id)
      PROVE  SweepInOrder'
  BY <1>5 DEF CancelOrder, Begin, Return, SweepInOrder
<1>6. CASE Fill
  BY <1>6, FillSweep
<1>7. CASE Finish
  BY <1>7, FinishSweep
<1> QED BY <1>1, <1>2, <1>3, <1>4, <1>5, <1>6, <1>7 DEF Next

\* A sweep goes through the other side in strict priority order from the frontier
\* it was photographed at, and the trade list it hands to the checker agrees with
\* the heap, at every fill (match.go:35-65, book.go:92-115).
THEOREM SweepsGoInOrder == Spec => []SweepInOrder
<1>1. Init => SweepInOrder
  BY InitSweep
<1>2. Inductive /\ SweepInOrder /\ [Next]_vars => SweepInOrder'
  BY NextSweep
<1> QED BY <1>1, <1>2, InductiveHolds, PTL DEF Spec

\* Whatever is submitted and canceled, no report of the checker ever condemns this
\* matcher, so the runner never halts a sound market (runner.go:207-216).
THEOREM NeverFalselyHalted == Spec => []NoFalseHalt
<1>1. Init => NoFalseHalt
  BY DEF Init, NoFalseHalt
<1>2. ASSUME Inductive, Accounts, SweepInOrder, NoFalseHalt, [Next]_vars PROVE NoFalseHalt'
  <2>1. Clean'
    BY <1>2, NextIsClean
  <2>2. ASSUME NEW event, Begin, Return(event) PROVE NoFalseHalt'
    <3>1. pc = "idle" /\ pc' = "idle" /\ result'.report = Report(NoTaker)
      BY <2>2 DEF Begin, Return
    <3> QED BY <1>2, <2>1, <3>1, QuietReport DEF NoFalseHalt
  <2>3. CASE UNCHANGED vars
    BY <1>2, <2>3 DEF vars, NoFalseHalt
  <2>4. ASSUME NEW s \in Sessions, NEW p \in Prices, NEW q \in Qtys, RejectSubmit(s, p, q)
        PROVE  NoFalseHalt'
    BY <2>2, <2>4 DEF RejectSubmit, Reject
  <2>5. ASSUME NEW s \in Sessions, NEW side \in Sides, NEW p \in Prices, NEW q \in Qtys,
               AcceptSubmit(s, side, p, q)
        PROVE  NoFalseHalt'
    BY <1>2, <2>5, AcceptIs DEF NoFalseHalt
  <2>6. ASSUME NEW s \in Sessions, NEW id \in 1 .. MaxCommands, RejectCancel(s, id)
        PROVE  NoFalseHalt'
    BY <2>2, <2>6 DEF RejectCancel, Reject
  <2>7. ASSUME NEW s \in Sessions, NEW id \in 1 .. MaxCommands, CancelOrder(s, id)
        PROVE  NoFalseHalt'
    BY <2>2, <2>7 DEF CancelOrder
  <2>8. CASE Fill
    <3>1. result'.report = result.report
      <4>1. result \in [events : Seq(Event), report : SUBSET Kinds]
        BY <1>2 DEF Inductive, TypeOK
      <4> QED BY <2>8, <4>1 DEF Fill
    <3> QED BY <1>2, <3>1 DEF NoFalseHalt
  <2>9. CASE Finish
    BY <1>2, <2>1, <2>9, SweepReport DEF NoFalseHalt
  <2> QED BY <1>2, <2>3, <2>4, <2>5, <2>6, <2>7, <2>8, <2>9 DEF Next
<1>3. Inductive /\ Accounts /\ SweepInOrder /\ NoFalseHalt /\ [Next]_vars => NoFalseHalt'
  BY <1>2
<1> QED BY <1>1, <1>3, InductiveHolds, AccountsHold, SweepsGoInOrder, PTL DEF Spec

=============================================================================
