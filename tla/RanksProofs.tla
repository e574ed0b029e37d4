----------------------------- MODULE RanksProofs -----------------------------
(***************************************************************************)
(* The upward rank of a task is the cost of the longest path from it, the  *)
(* downward rank no more than that of the longest path to it, and the      *)
(* critical tasks lie on a longest path, for every DAG and every order in  *)
(* which the entry tasks are taken.                                        *)
(***************************************************************************)
EXTENDS ParserProofs

-----------------------------------------------------------------------------
\* Greatest and least elements

LEMMA SmallestOf ==
  ASSUME NEW C, C \subseteq Nat, C # {}
  PROVE  \E m \in C : \A n \in C : m <= n
  <1>1. PICK m \in C : \A n \in C : ~(<<n, m>> \in OpToRel(<, Nat))
    BY NatLessThanWellFounded, WFMin
  <1>2. \A n \in C : n < m => <<n, m>> \in OpToRel(<, Nat)
    BY DEF OpToRel
  <1>3. m \in Nat /\ \A n \in C : n \in Nat /\ ~(n < m)
    BY <1>1, <1>2
  <1>4. \A n \in C : m <= n
    BY <1>3
  <1> QED
    BY <1>4

\* A set of integers with an upper bound has a greatest element.
LEMMA BoundedMax ==
  ASSUME NEW S, S \subseteq Int, S # {}, NEW b \in Int, \A x \in S : x <= b
  PROVE  Max(S) \in S /\ \A y \in S : y <= Max(S)
  <1> DEFINE C == {b - x : x \in S}
  <1>1. C \subseteq Nat /\ C # {}
    <2>1. \A x \in S : b - x \in Nat
      <3> TAKE x \in S
      <3>1. x \in Int /\ x <= b
        OBVIOUS
      <3> QED
        BY <3>1
    <2> QED
      BY <2>1
  <1>2. PICK m \in C : \A n \in C : m <= n
    <2> HIDE DEF C
    <2> QED
      BY <1>1, SmallestOf
  <1>3. PICK x \in S : m = b - x
    BY <1>2
  <1>4. \A y \in S : x >= y
    <2> SUFFICES ASSUME NEW y \in S PROVE x >= y
      OBVIOUS
    <2>1. b - y \in C /\ m <= b - y
      BY <1>2
    <2> QED
      BY <1>3, <2>1
  <1>5. \E z \in S : \A y \in S : z >= y
    BY <1>4
  <1>6. Max(S) \in S /\ \A y \in S : Max(S) >= y
    BY <1>5 DEF Max
  <1> QED
    BY <1>6

LEMMA MinOfNats ==
  ASSUME NEW S, S \subseteq Nat, S # {}
  PROVE  Min(S) \in S
  <1>1. \E x \in S : \A y \in S : x =< y
    BY SmallestOf
  <1> QED
    BY <1>1 DEF Min

\* A finite set of integers has an upper bound.
LEMMA FiniteBound ==
  ASSUME NEW S, S \subseteq Int, IsFiniteSet(S)
  PROVE  \E b \in Int : \A x \in S : x <= b
  <1> DEFINE Unbounded == {T \in SUBSET S : \A b \in Int : \E x \in T : x > b}
  <1>1. SUFFICES ASSUME Unbounded # {} PROVE FALSE
    <2>1. S \notin Unbounded
      BY <1>1
    <2>2. PICK b \in Int : \A x \in S : ~(x > b)
      BY <2>1
    <2> QED
      BY <2>2
  <1>2. PICK T \in Unbounded :
           \A V \in Unbounded : ~(<<V, T>> \in StrictSubsetOrdering(S))
    <2>1. IsWellFoundedOn(StrictSubsetOrdering(S), SUBSET S)
      BY FS_StrictSubsetOrderingWellFounded, FS_FiniteSubsetsOfFinite
    <2>2. Unbounded \subseteq SUBSET S
      OBVIOUS
    <2> HIDE DEF Unbounded
    <2> QED
      BY <1>1, <2>1, <2>2, WFMin
  <1>3. PICK x \in T : x > 0
    BY <1>2
  <1> DEFINE V == T \ {x}
  <1>4. V \notin Unbounded
    <2>1. V \in SUBSET S /\ T \in SUBSET S /\ V \subseteq T /\ V # T
      BY <1>2, <1>3
    <2>2. <<V, T>> \in StrictSubsetOrdering(S)
      BY <2>1 DEF StrictSubsetOrdering
    <2> QED
      BY <1>2, <2>2
  <1>5. PICK b \in Int : \A y \in V : ~(y > b)
    BY <1>4
  <1>6. PICK y \in T : y > IF x > b THEN x ELSE b
    BY <1>2, <1>3
  <1> QED
    BY <1>2, <1>3, <1>5, <1>6

\* The values of a function on a finite set, and one more number, have a
\* greatest.
LEMMA MaxOfValues ==
  ASSUME NEW I, IsFiniteSet(I), NEW f \in [I -> Int], NEW z \in Int
  PROVE  LET S == {z} \cup {f[i] : i \in I} IN
           Max(S) \in S /\ \A y \in S : y <= Max(S)
  <1> DEFINE R == {f[i] : i \in I}
             S == {z} \cup R
  <1>1. R \subseteq Int /\ f \in Surjection(I, R)
    BY DEF Surjection
  <1> HIDE DEF R
  <1>2. IsFiniteSet(R)
    BY <1>1, FS_Surjection
  <1>3. S = R \cup {z}
    OBVIOUS
  <1>4. IsFiniteSet(S)
    BY <1>2, <1>3, FS_AddElement
  <1>5. S \subseteq Int /\ S # {}
    BY <1>1
  <1> HIDE DEF S
  <1>6. PICK b \in Int : \A x \in S : x <= b
    BY <1>4, <1>5, FiniteBound
  <1>7. Max(S) \in S /\ \A y \in S : y <= Max(S)
    BY <1>5, <1>6, BoundedMax
  <1> QED
    BY <1>7 DEF S, R

-----------------------------------------------------------------------------
\* The accepted graph

Dag ==
    /\ ReadSoFar
    /\ ~DanglingEdge
    /\ IsFiniteSet(Ids)
    /\ \A S \in SUBSET Ids : S # {} => SinkIn(S)

LEMMA DagAccepted ==
  ASSUME ParserInv, pc \notin {"read", "colour", "rejected"}
  PROVE  Dag
  <1>1. /\ ReadSoFar /\ IsDagInput /\ raw \in RawDags
        /\ next = Len(raw.tasks) + 1 /\ ~NoHeader
    BY DEF ParserInv, ReadSoFar, Verdict
  <1>2. ~DanglingEdge /\ \A S \in SUBSET Ids : S # {} => SinkIn(S)
    BY <1>1, VerdictOnGraph
  <1>3. IsFiniteSet(Ids)
    BY <1>1, DistinctIds, GraphIsRead
  <1> QED
    BY <1>1, <1>2, <1>3 DEF Dag

\* What holds of a task when it holds of its successors holds of all tasks.
LEMMA FromTheSinks ==
  ASSUME Dag, NEW P,
         \A id \in Ids : (\A i \in DOMAIN Edges(id) : Edges(id)[i].to \in P)
                            => id \in P
  PROVE  Ids \subseteq P
  <1> DEFINE S == Ids \ P
  <1>1. SUFFICES ASSUME S # {} PROVE FALSE
    OBVIOUS
  <1>2. PICK id \in S : \A i \in DOMAIN Edges(id) : Edges(id)[i].to \notin S
    <2>1. S \in SUBSET Ids
      OBVIOUS
    <2> QED
      BY <1>1, <2>1 DEF Dag, SinkIn
  <1>3. \A i \in DOMAIN Edges(id) : Edges(id)[i].to \in Ids
    BY <1>2 DEF Dag, DanglingEdge
  <1> QED
    BY <1>2, <1>3

LEMMA EdgeFacts ==
  ASSUME Dag, NEW p \in Ids
  PROVE  /\ Comp(p) \in Nat \ {0}
         /\ Len(Edges(p)) \in Nat /\ DOMAIN Edges(p) = 1..Len(Edges(p))
         /\ IsFiniteSet(DOMAIN Edges(p))
         /\ \A i \in DOMAIN Edges(p) :
              Edges(p)[i].to \in Ids /\ Edges(p)[i].size \in Nat
  <1>1. /\ Comp(p) \in Nat \ {0}
        /\ Len(Edges(p)) \in Nat /\ DOMAIN Edges(p) = 1..Len(Edges(p))
        /\ \A i \in DOMAIN Edges(p) : Edges(p)[i].size \in Nat
    BY NodeOf DEF Dag
  <1>2. \A i \in DOMAIN Edges(p) : Edges(p)[i].to \in Ids
    BY DEF Dag, DanglingEdge
  <1> DEFINE n == Len(Edges(p))
  <1>3. n \in Nat
    BY <1>1
  <1> HIDE DEF n
  <1>4. IsFiniteSet(1..n)
    BY <1>3, FS_Interval
  <1> QED
    BY <1>1, <1>2, <1>4 DEF n

\* EdgeCost is the size of the heaviest of the edges.
LEMMA EdgeCostFacts ==
  ASSUME Dag, NEW p \in Ids, NEW s, EdgesBetween(p, s) # {}
  PROVE  /\ EdgeCost(p, s) \in Nat
         /\ \A i \in EdgesBetween(p, s) : Edges(p)[i].size <= EdgeCost(p, s)
         /\ \E i \in EdgesBetween(p, s) : Edges(p)[i].size = EdgeCost(p, s)
  <1> DEFINE I == EdgesBetween(p, s)
             f == [i \in I |-> Edges(p)[i].size]
  <1>1. I \subseteq DOMAIN Edges(p)
    BY DEF EdgesBetween
  <1>2. \A i \in I : Edges(p)[i].size \in Nat
    BY <1>1, EdgeFacts
  <1>3. IsFiniteSet(I)
    BY <1>1, EdgeFacts, FS_Subset
  <1>4. PICK k \in I : TRUE
    OBVIOUS
  <1>5. f \in [I -> Int] /\ f[k] \in Int
    BY <1>2, <1>4
  <1>6. {f[k]} \cup {f[i] : i \in I} = {Edges(p)[i].size : i \in I}
    BY <1>4
  <1> HIDE DEF I, f
  <1>7. LET S == {f[k]} \cup {f[i] : i \in I} IN
          Max(S) \in S /\ \A y \in S : y <= Max(S)
    BY <1>3, <1>5, MaxOfValues
  <1> DEFINE S == {Edges(p)[i].size : i \in I}
  <1>8. Max(S) \in S /\ \A y \in S : y <= Max(S)
    BY <1>6, <1>7
  <1>9. EdgeCost(p, s) = Max(S)
    BY DEF EdgeCost, I
  <1>10. \A i \in I : Edges(p)[i].size \in S
    OBVIOUS
  <1>11. \E i \in I : Edges(p)[i].size = Max(S)
    BY <1>8
  <1> HIDE DEF S
  <1> QED
    BY <1>2, <1>8, <1>9, <1>10, <1>11 DEF I

-----------------------------------------------------------------------------
\* The upward rank

UpwardOf(U, id) ==
    Comp(id) + Max({0} \cup {e.size + U[e.to] : e \in ToSet(Edges(id))})

LEMMA UpwardOfFacts ==
  ASSUME Dag, NEW id \in Ids, NEW U,
         \A i \in DOMAIN Edges(id) : U[Edges(id)[i].to] \in Nat
  PROVE  /\ UpwardOf(U, id) \in Nat /\ UpwardOf(U, id) >= Comp(id)
         /\ \A i \in DOMAIN Edges(id) :
              UpwardOf(U, id) >= Comp(id) + Edges(id)[i].size + U[Edges(id)[i].to]
         /\ \/ UpwardOf(U, id) = Comp(id)
            \/ \E i \in DOMAIN Edges(id) :
                 UpwardOf(U, id) = Comp(id) + Edges(id)[i].size + U[Edges(id)[i].to]
  <1> DEFINE I == DOMAIN Edges(id)
             f == [i \in I |-> Edges(id)[i].size + U[Edges(id)[i].to]]
             S == {0} \cup {f[i] : i \in I}
  <1>1. /\ IsFiniteSet(I) /\ Comp(id) \in Nat
        /\ \A i \in I : Edges(id)[i].size \in Nat
    BY EdgeFacts
  <1>2. f \in [I -> Int] /\ \A i \in I : f[i] \in Nat
    BY <1>1
  <1>3. Max(S) \in S /\ \A y \in S : y <= Max(S)
    <2> DEFINE z == 0
    <2>1. f \in [I -> Int] /\ IsFiniteSet(I) /\ z \in Int
      BY <1>1, <1>2
    <2> HIDE DEF f, I, z
    <2>2. LET R == {z} \cup {f[i] : i \in I} IN
            Max(R) \in R /\ \A y \in R : y <= Max(R)
      BY <2>1, MaxOfValues
    <2> QED
      BY <2>2 DEF z
  <1>4. S = {0} \cup {e.size + U[e.to] : e \in ToSet(Edges(id))}
    BY DEF ToSet
  <1>5. UpwardOf(U, id) = Comp(id) + Max(S)
    BY <1>4 DEF UpwardOf
  <1>6. \A i \in I : f[i] \in S /\ f[i] = Edges(id)[i].size + U[Edges(id)[i].to]
    OBVIOUS
  <1>7. 0 \in S /\ \A y \in S : y = 0 \/ \E i \in I : y = f[i]
    OBVIOUS
  <1> HIDE DEF f, S
  <1>8. Max(S) \in Nat
    BY <1>2, <1>3, <1>7
  <1>9. UpwardOf(U, id) \in Nat /\ UpwardOf(U, id) >= Comp(id)
    BY <1>1, <1>5, <1>8
  <1>10. ASSUME NEW i \in I
         PROVE  UpwardOf(U, id) >= Comp(id) + Edges(id)[i].size + U[Edges(id)[i].to]
    <2>1. f[i] <= Max(S) /\ f[i] = Edges(id)[i].size + U[Edges(id)[i].to]
      BY <1>3, <1>6
    <2> QED
      BY <1>1, <1>2, <1>5, <1>8, <2>1
  <1>11. \/ UpwardOf(U, id) = Comp(id)
         \/ \E i \in I :
              UpwardOf(U, id) = Comp(id) + Edges(id)[i].size + U[Edges(id)[i].to]
    <2>1. CASE Max(S) = 0
      BY <1>1, <1>5, <2>1
    <2>2. ASSUME NEW i \in I, Max(S) = f[i]
          PROVE  UpwardOf(U, id) = Comp(id) + Edges(id)[i].size + U[Edges(id)[i].to]
      BY <1>1, <1>5, <1>6, <2>2
    <2> QED
      BY <1>3, <1>7, <2>1, <2>2
  <1> QED
    BY <1>9, <1>10, <1>11

\* It looks at no task but the successors.
LEMMA UpwardOfSame ==
  ASSUME NEW id \in Ids, NEW U, NEW V,
         \A i \in DOMAIN Edges(id) : U[Edges(id)[i].to] = V[Edges(id)[i].to]
  PROVE  UpwardOf(U, id) = UpwardOf(V, id)
  <1>1. \A e \in ToSet(Edges(id)) : U[e.to] = V[e.to]
    BY DEF ToSet
  <1>2. {e.size + U[e.to] : e \in ToSet(Edges(id))}
           = {e.size + V[e.to] : e \in ToSet(Edges(id))}
    BY <1>1
  <1> QED
    BY <1>2 DEF UpwardOf

\* U is the upward rank of the tasks in S, which no edge leaves.
Solves(U, S) ==
    /\ U \in [S -> Nat]
    /\ \A id \in S :
         /\ \A i \in DOMAIN Edges(id) : Edges(id)[i].to \in S
         /\ U[id] = UpwardOf(U, id)

\* The recursion of computeUpwardRank ends.
LEMMA UpwardExists ==
  ASSUME Dag
  PROVE  \E U : Solves(U, Ids)
  <1> DEFINE Unranked == {T \in SUBSET Ids : \E U : Solves(U, Ids \ T)}
  <1>1. Ids \in Unranked
    <2>1. Solves([id \in {} |-> 0], Ids \ Ids)
      BY DEF Solves
    <2> QED
      BY <2>1
  <1>2. PICK T \in Unranked :
           \A V \in Unranked : ~(<<V, T>> \in StrictSubsetOrdering(Ids))
    <2>1. IsWellFoundedOn(StrictSubsetOrdering(Ids), SUBSET Ids)
      BY FS_StrictSubsetOrderingWellFounded, FS_FiniteSubsetsOfFinite DEF Dag
    <2>2. Unranked \subseteq SUBSET Ids /\ Unranked # {}
      BY <1>1
    <2> HIDE DEF Unranked
    <2> QED
      BY <2>1, <2>2, WFMin
  <1> DEFINE S == Ids \ T
  <1>3. PICK U : Solves(U, S)
    BY <1>2
  <1>4. CASE T = {}
    BY <1>3, <1>4
  <1>5. CASE T # {}
    <2>1. PICK n \in T : \A i \in DOMAIN Edges(n) : Edges(n)[i].to \notin T
      BY <1>2, <1>5 DEF Dag, SinkIn
    <2> DEFINE V == [id \in S \cup {n} |-> IF id = n THEN UpwardOf(U, n) ELSE U[id]]
    <2>2. n \in Ids /\ n \notin S /\ Ids \ (T \ {n}) = S \cup {n}
      BY <1>2
    <2>3. \A i \in DOMAIN Edges(n) : Edges(n)[i].to \in S
      BY <2>1, <2>2, EdgeFacts
    <2>4. UpwardOf(U, n) \in Nat
      BY <1>3, <2>2, <2>3, UpwardOfFacts DEF Solves
    <2>5. \A id \in S : V[id] = U[id]
      BY <2>2
    <2>6. V \in [S \cup {n} -> Nat] /\ V[n] = UpwardOf(U, n)
      BY <1>3, <2>4 DEF Solves
    <2> HIDE DEF V
    <2>7. ASSUME NEW id \in S \cup {n}
          PROVE  /\ \A i \in DOMAIN Edges(id) : Edges(id)[i].to \in S \cup {n}
                 /\ V[id] = UpwardOf(V, id)
      <3>1. \A i \in DOMAIN Edges(id) : Edges(id)[i].to \in S
        BY <1>3, <2>3 DEF Solves
      <3>2. id \in Ids /\ UpwardOf(V, id) = UpwardOf(U, id)
        BY <2>2, <2>5, <3>1, UpwardOfSame
      <3>3. V[id] = UpwardOf(U, id)
        BY <1>3, <2>5, <2>6 DEF Solves
      <3> QED
        BY <3>1, <3>2, <3>3
    <2>8. Solves(V, S \cup {n})
      BY <2>6, <2>7 DEF Solves
    <2>9. T \ {n} \in Unranked
      BY <1>2, <2>2, <2>8
    <2>10. <<T \ {n}, T>> \in StrictSubsetOrdering(Ids)
      BY <1>2 DEF StrictSubsetOrdering
    <2> QED
      BY <1>2, <2>9, <2>10
  <1> QED
    BY <1>4, <1>5

LEMMA UpwardSolves ==
  ASSUME Dag
  PROVE  Solves(UpwardRank, Ids)
  <1>1. PICK V : Solves(V, Ids)
    BY UpwardExists
  <1>2. V = [id \in Ids |-> UpwardOf(V, id)]
    BY <1>1 DEF Solves
  <1>3. UpwardRank = [id \in Ids |-> UpwardOf(UpwardRank, id)]
    BY <1>2 DEF UpwardRank, UpwardOf
  <1>4. \A id \in Ids : UpwardRank[id] = UpwardOf(UpwardRank, id)
    <2> DEFINE U == UpwardRank
    <2>1. U = [id \in Ids |-> UpwardOf(U, id)]
      BY <1>3
    <2> HIDE DEF U
    <2>2. \A id \in Ids : U[id] = UpwardOf(U, id)
      BY <2>1
    <2> QED
      BY <2>2 DEF U
  <1> DEFINE P == {id \in Ids : UpwardRank[id] \in Nat}
  <1>5. \A id \in Ids : (\A i \in DOMAIN Edges(id) : Edges(id)[i].to \in P)
                           => id \in P
    BY <1>4, UpwardOfFacts
  <1>6. Ids \subseteq P
    <2> HIDE DEF P
    <2> QED
      BY <1>5, FromTheSinks
  <1>7. UpwardRank \in [Ids -> Nat]
    BY <1>3, <1>6
  <1> QED
    BY <1>4, <1>7, EdgeFacts DEF Solves

-----------------------------------------------------------------------------
\* Paths and their costs

Walks == {p \in Seq(Ids) :
            p # <<>> /\ \A i \in 1..Len(p)-1 : EdgesBetween(p[i], p[i+1]) # {}}

LEMMA WalkFacts ==
  ASSUME NEW p \in Walks
  PROVE  /\ p \in Seq(Ids) /\ Len(p) \in Nat \ {0} /\ DOMAIN p = 1..Len(p)
         /\ \A i \in 1..Len(p) : p[i] \in Ids
         /\ \A i \in 1..Len(p)-1 : /\ i \in 1..Len(p) /\ i + 1 \in 1..Len(p)
                                   /\ EdgesBetween(p[i], p[i+1]) # {}
         /\ Head(p) = p[1] /\ Last(p) = p[Len(p)]
  <1>1. p \in Seq(Ids) /\ p # <<>>
        /\ \A i \in 1..Len(p)-1 : EdgesBetween(p[i], p[i+1]) # {}
    BY DEF Walks
  <1>2. Len(p) \in Nat /\ DOMAIN p = 1..Len(p) /\ Len(p) # 0
    BY <1>1
  <1>3. \A i \in 1..Len(p) : p[i] \in Ids
    BY <1>1
  <1>4. Head(p) = p[1] /\ Last(p) = p[Len(p)]
    BY <1>1 DEF Last
  <1>5. \A i \in 1..Len(p)-1 : i \in 1..Len(p) /\ i + 1 \in 1..Len(p)
    BY <1>2
  <1> QED
    BY <1>1, <1>2, <1>3, <1>4, <1>5

\* No task comes twice on a walk through an acyclic graph.
LEMMA WalkIsSimple ==
  ASSUME Dag, NEW p \in Walks, NEW i \in 1..Len(p), NEW j \in 1..Len(p), i < j
  PROVE  p[i] # p[j]
  <1> SUFFICES ASSUME p[i] = p[j] PROVE FALSE
    OBVIOUS
  <1> DEFINE S == {p[k] : k \in i..j-1}
  <1>1. Len(p) \in Nat /\ \A k \in i..j : k \in 1..Len(p)
    BY WalkFacts
  <1>2. S \in SUBSET Ids
    BY <1>1, WalkFacts
  <1>3. p[i] \in S
    OBVIOUS
  <1>4. PICK k \in i..j-1 : \A e \in DOMAIN Edges(p[k]) : Edges(p[k])[e].to \notin S
    BY <1>2, <1>3 DEF Dag, SinkIn
  <1>5. k \in 1..Len(p)-1
    BY <1>1
  <1>6. PICK e \in DOMAIN Edges(p[k]) : Edges(p[k])[e].to = p[k+1]
    BY <1>5, WalkFacts DEF EdgesBetween
  <1>7. p[k+1] \in S
    <2>1. CASE k + 1 = j
      BY <1>3, <2>1
    <2>2. CASE k + 1 # j
      BY <2>2
    <2> QED
      BY <2>1, <2>2
  <1> QED
    BY <1>4, <1>6, <1>7

LEMMA WalksArePaths ==
  ASSUME Dag
  PROVE  Walks = Paths
  <1>1. ASSUME NEW p \in Walks PROVE p \in Paths
    <2>1. p \in [1..Len(p) -> Ids] /\ Len(p) \in Nat \ {0}
      BY WalkFacts
    <2>2. p \in Injection(1..Len(p), Ids)
      <3>1. \A i, j \in 1..Len(p) : p[i] = p[j] => i = j
        <4> SUFFICES ASSUME NEW i \in 1..Len(p), NEW j \in 1..Len(p), i # j
                     PROVE  p[i] # p[j]
          OBVIOUS
        <4>1. i < j \/ j < i
          BY <2>1
        <4> QED
          BY <4>1, WalkIsSimple
      <3> QED
        BY <2>1, <3>1 DEF Injection, IsInjective
    <2> DEFINE n == Len(p)
    <2>3. n \in Nat \ {0} /\ p \in Injection(1..n, Ids)
      BY <2>1, <2>2
    <2> HIDE DEF n
    <2>4. Cardinality(1..n) = n
      BY <2>3, FS_Interval
    <2>5. Cardinality(1..n) <= Cardinality(Ids) /\ Cardinality(Ids) \in Nat
      BY <2>3, FS_Injection, FS_CardinalityType DEF Dag
    <2>6. n \in 1..Cardinality(Ids)
      BY <2>3, <2>4, <2>5
    <2> QED
      BY <2>1, <2>6, WalkFacts DEF Paths, n
  <1>2. ASSUME NEW p \in Paths PROVE p \in Walks
    <2>1. Cardinality(Ids) \in Nat
      BY FS_CardinalityType DEF Dag
    <2>2. PICK n \in 1..Cardinality(Ids) : p \in [1..n -> Ids]
      BY DEF Paths
    <2>3. n \in Nat \ {0}
      BY <2>1
    <2>4. p \in Seq(Ids) /\ Len(p) = n /\ p # <<>>
      BY <2>2, <2>3
    <2> QED
      BY <2>4 DEF Paths, Walks
  <1> QED
    BY <1>1, <1>2

\* f[i] is the cost of the rest of p from its i-th task.
CostsAlong(p, f) ==
    f = [i \in 1..Len(p) |-> Comp(p[i]) + IF i = Len(p) THEN 0
                                          ELSE EdgeCost(p[i], p[i+1]) + f[i+1]]

LEMMA CostsAreUnique ==
  ASSUME NEW p, Len(p) \in Nat, NEW f, NEW g, CostsAlong(p, f), CostsAlong(p, g)
  PROVE  f = g
  <1> DEFINE n == Len(p)
             C == {k \in 0..n-1 : f[n-k] # g[n-k]}
  <1>1. /\ f = [i \in 1..n |-> f[i]] /\ g = [i \in 1..n |-> g[i]]
        /\ \A i \in 1..n : f[i] = Comp(p[i]) + IF i = n THEN 0
                                   ELSE EdgeCost(p[i], p[i+1]) + f[i+1]
        /\ \A i \in 1..n : g[i] = Comp(p[i]) + IF i = n THEN 0
                                   ELSE EdgeCost(p[i], p[i+1]) + g[i+1]
    BY DEF CostsAlong
  <1>2. CASE C = {}
    <2>1. \A i \in 1..n : n - i \in 0..n-1 /\ n - (n - i) = i
      OBVIOUS
    <2>2. \A i \in 1..n : f[i] = g[i]
      BY <1>2, <2>1
    <2> DEFINE F == [i \in 1..n |-> f[i]]
               G == [i \in 1..n |-> g[i]]
    <2>3. F = G
      BY <2>2
    <2>4. f = F /\ g = G
      BY <1>1
    <2> HIDE DEF F, G
    <2> QED
      BY <2>3, <2>4
  <1>3. CASE C # {}
    <2>1. PICK m \in C : \A k \in C : m <= k
      <3>1. C \subseteq Nat
        OBVIOUS
      <3> HIDE DEF C
      <3> QED
        BY <1>3, <3>1, SmallestOf
    <2> DEFINE i == n - m
    <2>2. m \in 0..n-1 /\ i \in 1..n /\ n - i = m
      OBVIOUS
    <2>3. CASE m = 0
      <3>1. i = n
        BY <2>2, <2>3
      <3>2. f[i] = Comp(p[i]) + 0 /\ g[i] = Comp(p[i]) + 0
        BY <1>1, <2>2, <3>1
      <3> QED
        BY <2>1, <3>2
    <2>4. CASE m # 0
      <3>1. m - 1 \in 0..n-1 /\ m - 1 \notin C /\ n - (m - 1) = i + 1 /\ i # n
        BY <2>1, <2>2, <2>4
      <3>2. f[i+1] = g[i+1]
        BY <3>1
      <3>3. f[i] = g[i]
        BY <1>1, <2>2, <3>1, <3>2
      <3> QED
        BY <2>1, <3>3
    <2> QED
      BY <2>3, <2>4
  <1> QED
    BY <1>2, <1>3

LEMMA CostIs ==
  ASSUME NEW p, Len(p) \in Nat, NEW f, CostsAlong(p, f)
  PROVE  Cost(p) = f[1]
  <1> DEFINE g == CHOOSE h : CostsAlong(p, h)
  <1>1. CostsAlong(p, g)
    OBVIOUS
  <1>2. Cost(p) = g[1]
    BY DEF Cost, CostsAlong
  <1> HIDE DEF g
  <1> QED
    BY <1>1, <1>2, CostsAreUnique

LEMMA CostsExist ==
  ASSUME Dag, NEW p \in Walks
  PROVE  \E f \in [1..Len(p) -> Nat] : CostsAlong(p, f)
  <1> DEFINE n == Len(p)
             Rest(i, f) == IF i = n THEN 0 ELSE EdgeCost(p[i], p[i+1]) + f[i+1]
             Good(i, f) == \A k \in i..n : f[k] = Comp(p[k]) + Rest(k, f)
             C == {i \in 1..n : \E f \in [i..n -> Nat] : Good(i, f)}
  <1>1. n \in Nat \ {0} /\ C \subseteq Nat
    BY WalkFacts
  <1>2. \A i \in 1..n : Comp(p[i]) \in Nat
    BY WalkFacts, EdgeFacts
  <1>3. \A i \in 1..n-1 : i + 1 \in 1..n /\ EdgeCost(p[i], p[i+1]) \in Nat
    BY WalkFacts, EdgeCostFacts
  <1>4. n \in C
    <2> DEFINE f == [k \in n..n |-> Comp(p[n])]
    <2>1. n..n = {n}
      BY <1>1
    <2>2. f \in [n..n -> Nat] /\ Good(n, f)
      BY <1>1, <1>2, <2>1
    <2>3. \E h \in [n..n -> Nat] : Good(n, h)
      BY <2>2
    <2> QED
      BY <1>1, <2>3
  <1>5. PICK m \in C : \A i \in C : m <= i
    <2> HIDE DEF C
    <2> QED
      BY <1>1, <1>4, SmallestOf
  <1>6. PICK f \in [m..n -> Nat] : Good(m, f)
    BY <1>5
  <1>7. m = 1
    <2> SUFFICES ASSUME m # 1 PROVE FALSE
      OBVIOUS
    <2> DEFINE j == m - 1
               c == Comp(p[j]) + EdgeCost(p[j], p[m]) + f[m]
               g == [k \in j..n |-> IF k = j THEN c ELSE f[k]]
    <2>1. /\ j \in 1..n-1 /\ j \in 1..n /\ j + 1 = m /\ m \in m..n
          /\ ~(m <= j) /\ \A k \in j..n : k = j \/ k \in m..n
          /\ \A k \in m..n : k \in j..n /\ k # j
                             /\ (k # n => k + 1 \in m..n)
      BY <1>1, <1>5
    <2>2. c \in Nat /\ f[m] \in Nat
      <3>1. Comp(p[j]) \in Nat /\ EdgeCost(p[j], p[m]) \in Nat
        BY <1>2, <1>3, <2>1
      <3>2. f[m] \in Nat
        BY <1>6, <2>1
      <3> QED
        BY <3>1, <3>2
    <2>3. g \in [j..n -> Nat] /\ g[j] = c /\ \A k \in m..n : g[k] = f[k]
      BY <1>6, <2>1, <2>2
    <2> HIDE DEF g
    <2>4. ASSUME NEW k \in j..n PROVE g[k] = Comp(p[k]) + Rest(k, g)
      <3>1. CASE k = j
        <4>1. j # n /\ Rest(j, g) = EdgeCost(p[j], p[m]) + f[m]
          BY <1>1, <2>1, <2>3
        <4>2. EdgeCost(p[j], p[m]) \in Nat /\ Comp(p[j]) \in Nat
          BY <1>2, <1>3, <2>1
        <4> QED
          BY <2>2, <2>3, <3>1, <4>1, <4>2
      <3>2. CASE k \in m..n
        <4>1. Rest(k, g) = Rest(k, f)
          BY <2>1, <2>3, <3>2
        <4>2. f[k] = Comp(p[k]) + Rest(k, f)
          BY <1>6, <3>2
        <4> QED
          BY <2>3, <3>2, <4>1, <4>2
      <3> QED
        BY <2>1, <3>1, <3>2
    <2>5. j \in C
      BY <2>1, <2>3, <2>4
    <2> QED
      BY <1>5, <2>1, <2>5
  <1>8. \A i \in 1..n : f[i] = Comp(p[i]) + Rest(i, f)
    BY <1>6, <1>7
  <1>9. CostsAlong(p, f)
    BY <1>6, <1>7, <1>8 DEF CostsAlong
  <1> QED
    BY <1>6, <1>7, <1>9

LEMMA CostOfWalk ==
  ASSUME Dag, NEW p \in Walks
  PROVE  /\ Cost(p) \in Nat
         /\ Len(p) = 1 => Cost(p) = Comp(p[1])
  <1>1. PICK f \in [1..Len(p) -> Nat] : CostsAlong(p, f)
    BY CostsExist
  <1>2. Cost(p) = f[1] /\ Len(p) \in Nat \ {0}
    BY <1>1, CostIs, WalkFacts
  <1>3. Len(p) = 1 => f[1] = Comp(p[1]) + 0
    BY <1>1 DEF CostsAlong
  <1>4. Comp(p[1]) \in Nat
    BY <1>2, WalkFacts, EdgeFacts
  <1> QED
    BY <1>1, <1>2, <1>3, <1>4

\* The cost of a walk is that of its first task and edge, and of the rest.
LEMMA CostOfTail ==
  ASSUME Dag, NEW p \in Walks, Len(p) # 1
  PROVE  /\ Tail(p) \in Walks /\ Head(Tail(p)) = p[2] /\ Last(Tail(p)) = Last(p)
         /\ p[1] \in Ids /\ p[2] \in Ids /\ EdgesBetween(p[1], p[2]) # {}
         /\ Cost(p) = Comp(p[1]) + EdgeCost(p[1], p[2]) + Cost(Tail(p))
  <1> DEFINE n == Len(p)
             q == Tail(p)
  <1>1. n \in Nat /\ n >= 2 /\ p \in Seq(Ids) /\ 1 \in 1..n-1
    <2>1. n \in Nat \ {0} /\ p \in Seq(Ids)
      BY WalkFacts
    <2> HIDE DEF n
    <2>2. n # 1
      BY DEF n
    <2> QED
      BY <2>1, <2>2
  <1>2. /\ q \in Seq(Ids) /\ Len(q) = n - 1 /\ q # <<>>
        /\ \A i \in 1..n-1 : q[i] = p[i+1]
    <2>1. p # <<>>
      BY <1>1
    <2>2. q \in Seq(Ids) /\ Len(q) = n - 1
      BY <1>1, <2>1
    <2>3. \A i \in 1..n-1 : q[i] = p[i+1]
      BY <1>1, <2>1
    <2>4. q # <<>>
      <3> HIDE DEF q
      <3> QED
        BY <1>1, <2>2
    <2> QED
      BY <2>2, <2>3, <2>4
  <1>3. p[1] \in Ids /\ p[2] \in Ids /\ EdgesBetween(p[1], p[2]) # {}
    BY <1>1, WalkFacts
  <1> HIDE DEF q
  <1>4. q \in Walks
    <2>1. \A i \in 1..(n-1)-1 : i + 1 \in 1..n-1 /\ i \in 1..n-1
      BY <1>1
    <2>2. ASSUME NEW i \in 1..(n-1)-1 PROVE EdgesBetween(q[i], q[i+1]) # {}
      <3>1. q[i] = p[i+1] /\ q[i+1] = p[(i+1)+1] /\ i + 1 \in 1..n-1
        BY <1>2, <2>1
      <3>2. EdgesBetween(p[i+1], p[(i+1)+1]) # {}
        BY <3>1, WalkFacts
      <3> QED
        BY <3>1, <3>2
    <2>3. \A i \in 1..Len(q)-1 : EdgesBetween(q[i], q[i+1]) # {}
      BY <1>2, <2>2
    <2> QED
      BY <1>2, <2>3 DEF Walks
  <1>5. Head(q) = p[2] /\ Last(q) = Last(p)
    <2>1. 1 \in 1..n-1 /\ n - 1 \in 1..n-1 /\ (n - 1) + 1 = n
      BY <1>1
    <2>2. Head(q) = q[1] /\ Last(q) = q[n-1] /\ Last(p) = p[n]
      BY <1>2, <1>4, WalkFacts
    <2>3. q[1] = p[1+1] /\ q[n-1] = p[(n-1)+1]
      BY <1>2, <2>1
    <2> QED
      BY <2>1, <2>2, <2>3
  <1>6. PICK f \in [1..n -> Nat] : CostsAlong(p, f)
    BY CostsExist
  <1>7. \A i \in 1..n : f[i] = Comp(p[i]) + IF i = n THEN 0
                                   ELSE EdgeCost(p[i], p[i+1]) + f[i+1]
    BY <1>6 DEF CostsAlong
  <1> DEFINE g == [i \in 1..n-1 |-> f[i+1]]
  <1>8. CostsAlong(q, g)
    <2>1. \A i \in 1..n-1 : i + 1 \in 1..n /\ (i = n - 1 <=> i + 1 = n)
                            /\ (i # n - 1 => i + 1 \in 1..n-1)
      BY <1>1
    <2>2. \A i \in 1..n-1 : g[i] = Comp(q[i]) + IF i = n - 1 THEN 0
                                   ELSE EdgeCost(q[i], q[i+1]) + g[i+1]
      BY <1>2, <1>7, <2>1
    <2> HIDE DEF g
    <2>3. g = [i \in 1..n-1 |-> g[i]]
      BY DEF g
    <2> QED
      BY <1>2, <2>2, <2>3 DEF CostsAlong
  <1>9. Cost(q) = f[2]
    <2>1. g[1] = f[2]
      BY <1>1
    <2> HIDE DEF g
    <2> QED
      BY <1>1, <1>2, <1>8, <2>1, CostIs
  <1>10. Cost(p) = f[1]
    BY <1>1, <1>6, CostIs
  <1>11. f[1] = Comp(p[1]) + (EdgeCost(p[1], p[2]) + f[2]) /\ f[2] \in Nat
    BY <1>1, <1>6, <1>7
  <1>12. Comp(p[1]) \in Nat /\ EdgeCost(p[1], p[2]) \in Nat
    BY <1>3, EdgeFacts, EdgeCostFacts
  <1>13. Cost(p) = Comp(p[1]) + EdgeCost(p[1], p[2]) + Cost(q)
    BY <1>9, <1>10, <1>11, <1>12
  <1> QED
    BY <1>3, <1>4, <1>5, <1>13 DEF q

LEMMA WalkOfOne ==
  ASSUME Dag, NEW id \in Ids
  PROVE  <<id>> \in Walks /\ Cost(<<id>>) = Comp(id)
         /\ Head(<<id>>) = id /\ Last(<<id>>) = id
  <1> DEFINE p == <<id>>
  <1>1. p \in Seq(Ids) /\ Len(p) = 1 /\ p[1] = id /\ p # <<>>
    OBVIOUS
  <1> HIDE DEF p
  <1>2. p \in Walks
    <2>1. 1..Len(p)-1 = {}
      BY <1>1
    <2> QED
      BY <1>1, <2>1 DEF Walks
  <1>3. Cost(p) = Comp(id) /\ Head(p) = id /\ Last(p) = id
    BY <1>1, <1>2, CostOfWalk, WalkFacts
  <1> QED
    BY <1>2, <1>3 DEF p

LEMMA Prepended ==
  ASSUME Dag, NEW q \in Walks, NEW id \in Ids, EdgesBetween(id, Head(q)) # {}
  PROVE  \E p \in Walks :
            /\ Head(p) = id
            /\ Cost(p) = Comp(id) + EdgeCost(id, Head(q)) + Cost(q)
  <1> DEFINE n == Len(q)
             p == <<id>> \o q
  <1>1. n \in Nat \ {0} /\ q \in Seq(Ids) /\ Head(q) = q[1]
    BY WalkFacts
  <1>2. /\ p \in Seq(Ids) /\ Len(p) = n + 1 /\ p[1] = id
        /\ \A i \in 2..n+1 : p[i] = q[i-1]
    <2>1. <<id>> \in Seq(Ids) /\ Len(<<id>>) = 1
      OBVIOUS
    <2> QED
      BY <1>1, <2>1
  <1>3. Tail(p) = q
    BY <1>1
  <1> HIDE DEF p
  <1>4. p \in Walks
    <2>1. ASSUME NEW i \in 1..n PROVE EdgesBetween(p[i], p[i+1]) # {}
      <3>1. CASE i = 1
        <4>1. p[i] = id /\ p[i+1] = q[1]
          BY <1>1, <1>2, <3>1
        <4> QED
          BY <1>1, <4>1
      <3>2. CASE i # 1
        <4>1. i \in 2..n+1 /\ i + 1 \in 2..n+1 /\ i - 1 \in 1..n-1 /\ (i - 1) + 1 = i
              /\ (i + 1) - 1 = i
          BY <1>1, <3>2
        <4>2. p[i] = q[i-1] /\ p[i+1] = q[i]
          BY <1>2, <4>1
        <4>3. EdgesBetween(q[i-1], q[(i-1)+1]) # {}
          BY <4>1, WalkFacts
        <4> QED
          BY <4>1, <4>2, <4>3
      <3> QED
        BY <3>1, <3>2
    <2>2. p # <<>> /\ Len(p) - 1 = n
      BY <1>1, <1>2
    <2> QED
      BY <1>2, <2>1, <2>2 DEF Walks
  <1>5. Len(p) # 1 /\ p[2] = q[1]
    BY <1>1, <1>2
  <1>6. Cost(p) = Comp(p[1]) + EdgeCost(p[1], p[2]) + Cost(q)
    BY <1>3, <1>4, <1>5, CostOfTail
  <1>7. Head(p) = id
    BY <1>2, <1>4, WalkFacts
  <1> QED
    BY <1>1, <1>2, <1>4, <1>5, <1>6, <1>7

LEMMA Appended ==
  ASSUME Dag, NEW q \in Walks, NEW s \in Ids, EdgesBetween(Last(q), s) # {}
  PROVE  \E p \in Walks :
            /\ Last(p) = s
            /\ Cost(p) = Cost(q) + EdgeCost(Last(q), s) + Comp(s)
  <1> DEFINE n == Len(q)
             p == Append(q, s)
             more == EdgeCost(Last(q), s) + Comp(s)
  <1>1. n \in Nat \ {0} /\ q \in Seq(Ids) /\ Last(q) = q[n] /\ q[n] \in Ids
    BY WalkFacts
  <1>2. /\ p \in Seq(Ids) /\ Len(p) = n + 1 /\ p[n+1] = s
        /\ \A i \in 1..n : p[i] = q[i]
    BY <1>1
  <1>3. EdgeCost(Last(q), s) \in Nat /\ Comp(s) \in Nat /\ more \in Nat
    BY <1>1, EdgeCostFacts, EdgeFacts
  <1> HIDE DEF p
  <1>4. p \in Walks
    <2>1. ASSUME NEW i \in 1..n PROVE EdgesBetween(p[i], p[i+1]) # {}
      <3>1. CASE i = n
        BY <1>1, <1>2, <3>1
      <3>2. CASE i # n
        <4>1. i \in 1..n-1 /\ i + 1 \in 1..n
          BY <1>1, <3>2
        <4> QED
          BY <1>2, <4>1, WalkFacts
      <3> QED
        BY <3>1, <3>2
    <2>2. p # <<>> /\ Len(p) - 1 = n
      BY <1>1, <1>2
    <2> QED
      BY <1>2, <2>1, <2>2 DEF Walks
  <1>5. PICK f \in [1..n -> Nat] : CostsAlong(q, f)
    BY CostsExist
  <1>6. \A i \in 1..n : f[i] = Comp(q[i]) + IF i = n THEN 0
                                   ELSE EdgeCost(q[i], q[i+1]) + f[i+1]
    BY <1>5 DEF CostsAlong
  <1> DEFINE g == [i \in 1..n+1 |-> IF i = n + 1 THEN Comp(s) ELSE f[i] + more]
  <1>7. CostsAlong(p, g)
    <2>1. ASSUME NEW i \in 1..n+1
          PROVE  g[i] = Comp(p[i]) + IF i = n + 1 THEN 0
                                     ELSE EdgeCost(p[i], p[i+1]) + g[i+1]
      <3>1. CASE i = n + 1
        BY <1>2, <1>3, <3>1
      <3>2. CASE i = n
        <4>1. g[i] = f[n] + more /\ g[i+1] = Comp(s) /\ f[n] = Comp(q[n]) + 0
          BY <1>1, <1>6, <3>2
        <4>2. EdgeCost(p[i], p[i+1]) = EdgeCost(Last(q), s) /\ p[i] = q[n]
          BY <1>1, <1>2, <3>2
        <4>3. Comp(q[n]) \in Nat /\ i # n + 1
          BY <1>1, <3>2, EdgeFacts
        <4> QED
          BY <1>3, <4>1, <4>2, <4>3
      <3>3. CASE i \in 1..n-1
        <4>1. /\ i \in 1..n /\ i + 1 \in 1..n /\ i # n /\ i # n + 1 /\ i + 1 # n + 1
              /\ q[i] \in Ids /\ EdgesBetween(q[i], q[i+1]) # {}
          BY <1>1, <3>3, WalkFacts
        <4>2. g[i] = f[i] + more /\ g[i+1] = f[i+1] + more
          BY <1>1, <4>1
        <4>3. f[i] = Comp(q[i]) + (EdgeCost(q[i], q[i+1]) + f[i+1])
          BY <1>6, <4>1
        <4>4. /\ Comp(q[i]) \in Nat /\ EdgeCost(q[i], q[i+1]) \in Nat
              /\ f[i+1] \in Nat /\ p[i] = q[i] /\ p[i+1] = q[i+1]
          BY <1>2, <1>5, <4>1, EdgeFacts, EdgeCostFacts
        <4> HIDE DEF g, more
        <4> QED
          BY <1>3, <4>1, <4>2, <4>3, <4>4
      <3> QED
        BY <1>1, <3>1, <3>2, <3>3
    <2>2. g = [i \in 1..n+1 |-> g[i]]
      OBVIOUS
    <2> HIDE DEF g
    <2> QED
      BY <1>2, <2>1, <2>2 DEF CostsAlong
  <1>8. g[1] = f[1] + more /\ f[1] \in Nat
    BY <1>1, <1>5
  <1> HIDE DEF g
  <1>9. Cost(p) = g[1] /\ Cost(q) = f[1]
    BY <1>1, <1>2, <1>5, <1>7, CostIs
  <1>10. Last(p) = s
    BY <1>2, <1>4, WalkFacts
  <1> QED
    BY <1>3, <1>4, <1>8, <1>9, <1>10

-----------------------------------------------------------------------------
\* The upward rank is the longest path

\* A walk, followed by the longest path from its end, is no longer than the
\* longest path from its start.
LEMMA WalksStayBelow ==
  ASSUME Dag, NEW p \in Walks
  PROVE  /\ Head(p) \in Ids /\ Last(p) \in Ids
         /\ Cost(p) + UpwardRank[Last(p)] <= UpwardRank[Head(p)] + Comp(Last(p))
         /\ Cost(p) <= UpwardRank[Head(p)]
  <1> DEFINE U == UpwardRank
             Below(q) == Cost(q) + U[Last(q)] <= U[Head(q)] + Comp(Last(q))
             P == {id \in Ids : \A q \in Walks : Head(q) = id => Below(q)}
  <1>1. Solves(U, Ids)
    BY UpwardSolves
  <1> HIDE DEF U
  <1>2. /\ U \in [Ids -> Nat]
        /\ \A id \in Ids : U[id] >= Comp(id)
        /\ \A id \in Ids : \A i \in DOMAIN Edges(id) :
             U[id] >= Comp(id) + Edges(id)[i].size + U[Edges(id)[i].to]
    <2>1. U \in [Ids -> Nat]
      BY <1>1 DEF Solves
    <2>2. ASSUME NEW id \in Ids
          PROVE  /\ U[id] = UpwardOf(U, id)
                 /\ \A i \in DOMAIN Edges(id) : U[Edges(id)[i].to] \in Nat
      BY <1>1, <2>1, <2>2 DEF Solves
    <2> QED
      BY <2>1, <2>2, UpwardOfFacts
  <1>3. ASSUME NEW q \in Walks PROVE Head(q) \in Ids /\ Last(q) \in Ids
    BY WalkFacts
  <1>4. ASSUME NEW id \in Ids, \A i \in DOMAIN Edges(id) : Edges(id)[i].to \in P,
               NEW q \in Walks, Head(q) = id
        PROVE  Below(q)
    <2>1. CASE Len(q) = 1
      <3>1. Cost(q) = Comp(id) /\ Last(q) = id
        BY <1>4, <2>1, CostOfWalk, WalkFacts
      <3>2. U[id] \in Nat /\ Comp(id) \in Nat
        BY <1>2, EdgeFacts
      <3> QED
        BY <1>4, <3>1, <3>2
    <2>2. CASE Len(q) # 1
      <3>1. /\ Tail(q) \in Walks /\ Head(Tail(q)) = q[2] /\ Last(Tail(q)) = Last(q)
            /\ q[1] = id /\ q[2] \in Ids /\ EdgesBetween(id, q[2]) # {}
            /\ Cost(q) = Comp(id) + EdgeCost(id, q[2]) + Cost(Tail(q))
        BY <1>4, <2>2, CostOfTail, WalkFacts
      <3>2. PICK i \in EdgesBetween(id, q[2]) : Edges(id)[i].size = EdgeCost(id, q[2])
        BY <3>1, EdgeCostFacts
      <3>3. i \in DOMAIN Edges(id) /\ Edges(id)[i].to = q[2]
        BY <3>2 DEF EdgesBetween
      <3>4. Cost(Tail(q)) + U[Last(q)] <= U[q[2]] + Comp(Last(q))
        BY <1>4, <3>1, <3>3
      <3>5. U[id] >= Comp(id) + EdgeCost(id, q[2]) + U[q[2]]
        BY <1>2, <3>2, <3>3
      <3>6. /\ EdgeCost(id, q[2]) \in Nat /\ Comp(id) \in Nat /\ Cost(Tail(q)) \in Nat
            /\ U[id] \in Nat /\ U[q[2]] \in Nat /\ U[Last(q)] \in Nat
            /\ Comp(Last(q)) \in Nat
        BY <1>2, <1>3, <3>1, EdgeFacts, EdgeCostFacts, CostOfWalk
      <3>7. Cost(q) + U[Last(q)] <= U[id] + Comp(Last(q))
        <4>1. Cost(q) = Comp(id) + EdgeCost(id, q[2]) + Cost(Tail(q))
          BY <3>1
        <4> HIDE DEF Below, P
        <4> QED
          BY <3>4, <3>5, <3>6, <4>1
      <3> QED
        BY <1>4, <3>7
    <2> QED
      BY <2>1, <2>2
  <1>5. Ids \subseteq P
    <2>1. \A id \in Ids : (\A i \in DOMAIN Edges(id) : Edges(id)[i].to \in P)
                             => id \in P
      BY <1>4
    <2> HIDE DEF P
    <2> QED
      BY <2>1, FromTheSinks
  <1>6. Below(p)
    BY <1>3, <1>5
  <1>7. /\ U[Last(p)] \in Nat /\ U[Head(p)] \in Nat /\ Comp(Last(p)) \in Nat
        /\ Cost(p) \in Nat /\ U[Last(p)] >= Comp(Last(p))
    BY <1>2, <1>3, EdgeFacts, CostOfWalk
  <1>8. Cost(p) <= U[Head(p)]
    BY <1>6, <1>7
  <1> QED
    BY <1>3, <1>6, <1>8 DEF U

LEMMA UpwardAttained ==
  ASSUME Dag, NEW id \in Ids
  PROVE  \E p \in Walks : Head(p) = id /\ Cost(p) = UpwardRank[id]
  <1> DEFINE U == UpwardRank
             P == {t \in Ids : \E p \in Walks : Head(p) = t /\ Cost(p) = U[t]}
  <1>1. Solves(U, Ids)
    BY UpwardSolves
  <1> HIDE DEF U
  <1>2. ASSUME NEW t \in Ids, \A i \in DOMAIN Edges(t) : Edges(t)[i].to \in P
        PROVE  t \in P
    <2>1. /\ \/ U[t] = Comp(t)
             \/ \E i \in DOMAIN Edges(t) :
                  U[t] = Comp(t) + Edges(t)[i].size + U[Edges(t)[i].to]
          /\ \A i \in DOMAIN Edges(t) :
               U[t] >= Comp(t) + Edges(t)[i].size + U[Edges(t)[i].to]
      <3>1. U[t] = UpwardOf(U, t) /\ \A i \in DOMAIN Edges(t) : U[Edges(t)[i].to] \in Nat
        BY <1>1 DEF Solves
      <3> QED
        BY <3>1, UpwardOfFacts
    <2>2. CASE U[t] = Comp(t)
      BY <2>2, WalkOfOne
    <2>3. ASSUME NEW i \in DOMAIN Edges(t),
                 U[t] = Comp(t) + Edges(t)[i].size + U[Edges(t)[i].to]
          PROVE  t \in P
      <3> DEFINE s == Edges(t)[i].to
      <3>1. PICK q \in Walks : Head(q) = s /\ Cost(q) = U[s]
        BY <1>2, <2>3
      <3>2. i \in EdgesBetween(t, s)
        BY <2>3 DEF EdgesBetween
      <3>3. PICK p \in Walks :
               Head(p) = t /\ Cost(p) = Comp(t) + EdgeCost(t, s) + U[s]
        BY <3>1, <3>2, Prepended
      <3>4. Edges(t)[i].size <= EdgeCost(t, s) /\ EdgeCost(t, s) \in Nat
        BY <3>2, EdgeCostFacts
      <3>5. PICK j \in EdgesBetween(t, s) : Edges(t)[j].size = EdgeCost(t, s)
        BY <3>2, EdgeCostFacts
      <3>6. j \in DOMAIN Edges(t) /\ Edges(t)[j].to = s
        BY <3>5 DEF EdgesBetween
      <3>7. U[t] >= Comp(t) + EdgeCost(t, s) + U[s]
        BY <2>1, <3>5, <3>6
      <3>8. U[s] \in Nat /\ U[t] \in Nat /\ Comp(t) \in Nat /\ Edges(t)[i].size \in Nat
        BY <1>1, <2>3, EdgeFacts DEF Solves
      <3>9. Cost(p) = U[t]
        BY <2>3, <3>3, <3>4, <3>7, <3>8
      <3> QED
        BY <3>3, <3>9
    <2> QED
      BY <2>1, <2>2, <2>3
  <1>3. Ids \subseteq P
    <2> HIDE DEF P
    <2> QED
      BY <1>2, FromTheSinks
  <1> QED
    BY <1>3 DEF U

LEMMA LongestFromIs ==
  ASSUME Dag, NEW id \in Ids
  PROVE  LongestFrom(id) = UpwardRank[id]
  <1> DEFINE S == {Cost(p) : p \in {q \in Paths : Head(q) = id}}
             u == UpwardRank[id]
  <1>1. S \subseteq Nat /\ \A x \in S : x <= u
    BY WalksArePaths, CostOfWalk, WalksStayBelow
  <1>2. u \in S
    BY WalksArePaths, UpwardAttained
  <1>3. LongestFrom(id) = Max(S)
    BY DEF LongestFrom
  <1> HIDE DEF S, u
  <1>4. S \subseteq Int /\ u \in Int /\ S # {}
    BY <1>1, <1>2
  <1>5. Max(S) \in S /\ \A y \in S : y <= Max(S)
    BY <1>1, <1>4, BoundedMax
  <1>6. Max(S) \in Int /\ Max(S) <= u /\ u <= Max(S)
    BY <1>1, <1>2, <1>4, <1>5
  <1>7. Max(S) = u
    BY <1>4, <1>6
  <1> QED
    BY <1>3, <1>7 DEF u

\* The tasks' upward ranks have a bound, and so have the paths.
LEMMA LongestToFacts ==
  ASSUME Dag, NEW id \in Ids
  PROVE  /\ LongestTo(id) \in Nat
         /\ \A p \in Walks : Last(p) = id => Cost(p) <= LongestTo(id) + Comp(id)
         /\ \E p \in Walks : Last(p) = id /\ Cost(p) = LongestTo(id) + Comp(id)
  <1> DEFINE S == {Cost(p) : p \in {q \in Paths : Last(q) = id}}
             U == UpwardRank
  <1>1. PICK b \in Int : \A t \in Ids : U[t] <= b
    <2>1. U \in [Ids -> Nat] /\ IsFiniteSet(Ids)
      BY UpwardSolves DEF Solves, Dag
    <2> DEFINE R == {U[t] : t \in Ids}
    <2> HIDE DEF U
    <2>2. U \in Surjection(Ids, R)
      BY <2>1 DEF Surjection
    <2>3. R \subseteq Int
      BY <2>1
    <2>4. \A t \in Ids : U[t] \in R
      OBVIOUS
    <2> HIDE DEF R
    <2>5. \E b \in Int : \A x \in R : x <= b
      BY <2>1, <2>2, <2>3, FS_Surjection, FiniteBound
    <2> QED
      BY <2>4, <2>5
  <1>2. S \subseteq Nat /\ \A x \in S : x <= b
    <2> SUFFICES ASSUME NEW p \in Walks PROVE Cost(p) \in Nat /\ Cost(p) <= b
      BY WalksArePaths
    <2>1. Head(p) \in Ids /\ Cost(p) <= U[Head(p)] /\ Cost(p) \in Nat
      BY CostOfWalk, WalksStayBelow
    <2>2. U[Head(p)] \in Nat
      BY <2>1, UpwardSolves DEF Solves
    <2> QED
      BY <1>1, <2>1, <2>2
  <1>3. Comp(id) \in S /\ Comp(id) \in Nat
    BY WalkOfOne, WalksArePaths, EdgeFacts
  <1>4. LongestTo(id) = Max(S) - Comp(id)
    BY DEF LongestTo
  <1>5. Max(S) \in S /\ \A y \in S : y <= Max(S)
    <2> HIDE DEF S
    <2>1. S \subseteq Int /\ S # {}
      BY <1>2, <1>3
    <2> QED
      BY <1>1, <1>2, <2>1, BoundedMax
  <1>6. Max(S) \in Nat /\ LongestTo(id) \in Nat /\ LongestTo(id) + Comp(id) = Max(S)
    <2> HIDE DEF S
    <2>1. Max(S) \in Nat /\ Comp(id) <= Max(S)
      BY <1>2, <1>3, <1>5
    <2> QED
      BY <1>3, <1>4, <2>1
  <1> QED
    BY <1>5, <1>6, WalksArePaths

-----------------------------------------------------------------------------
\* The downward rank

\* A predecessor has an edge to the task.
LEMMA PredHasEdge ==
  ASSUME Dag, Counted(Ids), NEW s \in Ids, NEW p \in ToSet(preds[s])
  PROVE  p \in Ids /\ EdgesBetween(p, s) # {}
  <1> DEFINE n == Len(preds[s])
  <1>1. preds[s] \in Seq(Ids) /\ n \in Nat /\ DOMAIN preds[s] = 1..n
    BY DEF Counted
  <1>2. PICK i \in 1..n : preds[s][i] = p
    BY <1>1 DEF ToSet
  <1>3. p \in Ids /\ PredIndices(s, p) # {} /\ PredIndices(s, p) \subseteq 1..n
    BY <1>1, <1>2 DEF PredIndices
  <1> HIDE DEF n
  <1>4. IsFiniteSet(PredIndices(s, p))
    <2>1. IsFiniteSet(1..n)
      BY <1>1, FS_Interval
    <2> QED
      BY <1>3, <2>1, FS_Subset
  <1>5. Cardinality(PredIndices(s, p)) # 0
    BY <1>3, <1>4, FS_EmptySet
  <1>6. Cardinality(EdgesBetween(p, s)) # 0
    BY <1>3, <1>5 DEF Counted, Multiplicity, EdgesBetween
  <1> QED
    BY <1>3, <1>6, FS_EmptySet

\* The tasks' downward ranks are no more than the paths that lead to them.
DownwardBelow ==
    /\ rankD \in [Ids -> Nat]
    /\ \A id \in Ids : rankD[id] <= LongestTo(id)

LEMMA DownwardRankBelow ==
  ASSUME Dag, Counted(Ids), DownwardBelow, NEW s \in Ids
  PROVE  DownwardRank(s) \in Nat /\ DownwardRank(s) <= LongestTo(s)
  <1> DEFINE Via(p) == rankD[p] + Comp(p) + Edges(p)[Min(EdgesBetween(p, s))].size
             I == ToSet(preds[s])
             f == [p \in I |-> Via(p)]
             S == {0} \cup {f[p] : p \in I}
  <1>1. ASSUME NEW p \in I
        PROVE  Via(p) \in Nat /\ Via(p) <= LongestTo(s)
    <2>1. p \in Ids /\ EdgesBetween(p, s) # {}
      BY PredHasEdge
    <2> DEFINE i == Min(EdgesBetween(p, s))
    <2>2. i \in EdgesBetween(p, s)
      <3>1. EdgesBetween(p, s) \subseteq Nat
        BY <2>1, EdgeFacts DEF EdgesBetween
      <3> QED
        BY <2>1, <3>1, MinOfNats
    <2>3. /\ Edges(p)[i].size \in Nat /\ Edges(p)[i].size <= EdgeCost(p, s)
          /\ EdgeCost(p, s) \in Nat /\ Comp(p) \in Nat /\ Comp(s) \in Nat
      BY <2>1, <2>2, EdgeFacts, EdgeCostFacts DEF EdgesBetween
    <2>4. rankD[p] \in Nat /\ rankD[p] <= LongestTo(p)
      BY <2>1 DEF DownwardBelow
    <2>5. /\ LongestTo(p) \in Nat /\ LongestTo(s) \in Nat
          /\ \A q \in Walks : Last(q) = s => Cost(q) <= LongestTo(s) + Comp(s)
      BY <2>1, LongestToFacts
    <2>6. PICK q \in Walks : Last(q) = p /\ Cost(q) = LongestTo(p) + Comp(p)
      BY <2>1, LongestToFacts
    <2>7. PICK r \in Walks :
             Last(r) = s /\ Cost(r) = Cost(q) + EdgeCost(p, s) + Comp(s)
      BY <2>1, <2>6, Appended
    <2>8. (LongestTo(p) + Comp(p)) + EdgeCost(p, s) + Comp(s) <= LongestTo(s) + Comp(s)
      BY <2>5, <2>6, <2>7
    <2> HIDE DEF i
    <2>9. /\ rankD[p] + Comp(p) + Edges(p)[i].size \in Nat
          /\ rankD[p] + Comp(p) + Edges(p)[i].size <= LongestTo(s)
      BY <2>3, <2>4, <2>5, <2>8
    <2> QED
      BY <2>9 DEF i
  <1>2. IsFiniteSet(I)
    <2>1. I \subseteq Ids
      BY PredHasEdge
    <2> QED
      BY <2>1, FS_Subset DEF Dag
  <1>3. LongestTo(s) \in Nat
    BY LongestToFacts
  <1>4. f \in [I -> Int] /\ \A p \in I : f[p] = Via(p)
    BY <1>1
  <1>5. DownwardRank(s) = Max(S)
    BY DEF DownwardRank
  <1>6. \A x \in S : x \in Nat /\ x <= LongestTo(s)
    BY <1>1, <1>3, <1>4
  <1>7. Max(S) \in S
    <2> DEFINE z == 0
    <2>1. z \in Int
      OBVIOUS
    <2> HIDE DEF I, f, z
    <2>2. LET R == {z} \cup {f[i] : i \in I} IN
            Max(R) \in R /\ \A y \in R : y <= Max(R)
      BY <1>2, <1>4, <2>1, MaxOfValues
    <2> QED
      BY <2>2 DEF z
  <1> HIDE DEF S
  <1> QED
    BY <1>5, <1>6, <1>7

-----------------------------------------------------------------------------
\* The entry task and the critical tasks

\* With one entry task, the longest path starts there.
LEMMA EntryIsHighest ==
  ASSUME Dag, Counted(Ids), NEW src, Entries = {src}
  PROVE  /\ src \in Ids
         /\ \A t \in Ids : UpwardRank[t] <= UpwardRank[src]
  <1> DEFINE U == UpwardRank
             R == {U[t] : t \in Ids}
  <1>1. src \in Ids
    BY DEF Entries
  <1>2. Solves(U, Ids)
    BY UpwardSolves
  <1> HIDE DEF U
  <1>3. U \in [Ids -> Nat]
    BY <1>2 DEF Solves
  <1>4. PICK h \in Ids : \A t \in Ids : U[t] <= U[h]
    <2>1. U \in Surjection(Ids, R) /\ R \subseteq Int /\ R # {}
      BY <1>1, <1>3 DEF Surjection
    <2>2. \A t \in Ids : U[t] \in R
      OBVIOUS
    <2>3. \A x \in R : \E t \in Ids : x = U[t]
      OBVIOUS
    <2> HIDE DEF R
    <2>4. PICK b \in Int : \A x \in R : x <= b
      BY <2>1, FS_Surjection, FiniteBound DEF Dag
    <2>5. Max(R) \in R /\ \A y \in R : y <= Max(R)
      BY <2>1, <2>4, BoundedMax
    <2> QED
      BY <2>2, <2>3, <2>5
  <1>5. h \in Entries
    <2> SUFFICES ASSUME preds[h] # <<>> PROVE FALSE
      BY DEF Entries
    <2> DEFINE p == preds[h][1]
    <2>1. p \in ToSet(preds[h])
      <3>1. preds[h] \in Seq(Ids)
        BY DEF Counted
      <3>2. 1 \in DOMAIN preds[h]
        BY <3>1
      <3> QED
        BY <3>2 DEF ToSet
    <2>2. p \in Ids /\ EdgesBetween(p, h) # {}
      <3> HIDE DEF p
      <3> QED
        BY <2>1, PredHasEdge
    <2> HIDE DEF p
    <2>3. PICK i \in DOMAIN Edges(p) : Edges(p)[i].to = h
      BY <2>2 DEF EdgesBetween
    <2>4. /\ U[p] = UpwardOf(U, p)
          /\ \A j \in DOMAIN Edges(p) : U[Edges(p)[j].to] \in Nat
      BY <1>2, <2>2 DEF Solves
    <2>5. U[p] >= Comp(p) + Edges(p)[i].size + U[h]
      BY <2>2, <2>3, <2>4, UpwardOfFacts
    <2>6. /\ U[p] \in Nat /\ U[h] \in Nat /\ Comp(p) \in Nat \ {0}
          /\ Edges(p)[i].size \in Nat /\ U[p] <= U[h]
      BY <1>3, <1>4, <2>2, EdgeFacts
    <2> QED
      BY <2>5, <2>6
  <1> QED
    BY <1>1, <1>4, <1>5 DEF U

\* What lies on a path from the entry is no longer than the longest of them.
LEMMA ThroughTask ==
  ASSUME Dag, Counted(Ids), NEW src, Entries = {src}, NEW id \in Ids
  PROVE  LongestTo(id) + UpwardRank[id] <= UpwardRank[src]
  <1> DEFINE U == UpwardRank
  <1>1. PICK p \in Walks : Last(p) = id /\ Cost(p) = LongestTo(id) + Comp(id)
    BY LongestToFacts
  <1>2. /\ Head(p) \in Ids
        /\ Cost(p) + U[id] <= U[Head(p)] + Comp(id)
    BY <1>1, WalksStayBelow
  <1>3. src \in Ids /\ U[Head(p)] <= U[src]
    BY <1>2, EntryIsHighest
  <1>4. U \in [Ids -> Nat]
    BY UpwardSolves DEF Solves
  <1> HIDE DEF U
  <1>5. /\ U[Head(p)] \in Nat /\ U[src] \in Nat /\ U[id] \in Nat
        /\ LongestTo(id) \in Nat /\ Comp(id) \in Nat
    BY <1>2, <1>3, <1>4, LongestToFacts, EdgeFacts
  <1>6. LongestTo(id) + U[id] <= U[src]
    BY <1>1, <1>2, <1>3, <1>5
  <1> QED
    BY <1>6 DEF U

-----------------------------------------------------------------------------
\* The invariant

RanksInv ==
    /\ ParserInv
    /\ pc \in {"link", "accepted"} => stack = <<>>
    /\ pc \notin {"down", "ranked"} => visited = {}
    /\ pc = "down" => visited \subseteq Ids /\ stack \in Seq(Frame)
    /\ pc \in {"down", "ranked"} => rankU = UpwardRank /\ DownwardBelow
    /\ pc = "ranked" => \E src \in Entries : critical = CriticalTasks(src)

\* The ranks are of a graph that does not change.
LEMMA SameGraph ==
  ASSUME UNCHANGED nodes
  PROVE  /\ Ids' = Ids /\ Frame' = Frame /\ UpwardRank' = UpwardRank
         /\ \A id : LongestTo(id)' = LongestTo(id)
  BY DEF Ids, Frame, UpwardRank, LongestTo, Paths, Cost, EdgeCost, EdgesBetween,
     Comp, Edges

LEMMA RanksStart == RankInit => RanksInv
  BY ParserStart DEF RankInit, RanksInv, Init

LEMMA ParserMoves ==
  ASSUME RanksInv, ParserNext, UNCHANGED rankVars
  PROVE  RanksInv'
  <1>1. ParserInv'
    BY ParserStep DEF RanksInv, RankNext
  <1>2. visited' = visited
    BY DEF rankVars
  <1>3. pc \in {"read", "colour", "link"}
        /\ pc' \in {"read", "colour", "link", "accepted", "rejected"}
    BY DEF ParserNext, RejectInput, Reject, ReadTask, RejectDangling, AllRead,
       CheckSuccessors, CallHasCycle, RejectCycle, VisitSuccessor,
       ReturnNoCycle, EndColouring, LinkSuccessors, Accept
  <1>4. pc' \in {"link", "accepted"} => stack' = <<>>
    BY DEF RanksInv, ParserNext, RejectInput, Reject, ReadTask, RejectDangling,
       AllRead, CheckSuccessors, CallHasCycle, RejectCycle, VisitSuccessor,
       ReturnNoCycle, EndColouring, LinkSuccessors, Accept
  <1> QED
    BY <1>1, <1>2, <1>3, <1>4 DEF RanksInv

LEMMA RanksMove ==
  ASSUME RanksInv, RanksNext
  PROVE  RanksInv'
  <1>1. ParserInv' /\ UNCHANGED nodes /\ preds' = preds
    <2>1. ParserInv'
      BY ParserStep DEF RanksInv, RankNext
    <2> QED
      BY <2>1 DEF RanksNext, CalculateUpward, StartEntry, CallDownward,
         ReturnDownward, CalculateCritical
  <1>2. Dag /\ Counted(Ids)
    <2>1. pc \in {"accepted", "down"}
      BY DEF RanksNext, CalculateUpward, StartEntry, CallDownward,
         ReturnDownward, CalculateCritical
    <2> QED
      BY <2>1, DagAccepted DEF RanksInv, ParserInv, Linking
  <1>3. /\ Ids' = Ids /\ Frame' = Frame /\ UpwardRank' = UpwardRank
        /\ \A id : LongestTo(id)' = LongestTo(id)
    BY <1>1, SameGraph
  <1>4. ASSUME rankD' \in [Ids -> Nat], \A id \in Ids : rankD'[id] <= LongestTo(id)
        PROVE  DownwardBelow'
    BY <1>3, <1>4 DEF DownwardBelow
  <1>5. ASSUME CalculateUpward PROVE RanksInv'
    <2>1. /\ pc = "accepted" /\ pc' = "down" /\ rankU' = UpwardRank
          /\ rankD' = [id \in Ids |-> 0] /\ stack' = stack /\ visited' = visited
      BY <1>5 DEF CalculateUpward
    <2>2. DownwardBelow'
      BY <1>2, <1>4, <2>1, LongestToFacts
    <2> QED
      BY <1>1, <1>3, <2>1, <2>2 DEF RanksInv
  <1>6. ASSUME NEW id \in Ids, StartEntry(id) PROVE RanksInv'
    <2>1. /\ pc = "down" /\ pc' = "down" /\ visited' = visited \cup {id}
          /\ rankD' = [rankD EXCEPT ![id] = 0] /\ stack' = <<Call(id)>>
          /\ rankU' = rankU
      BY <1>6 DEF StartEntry
    <2>2. DownwardBelow
      BY <2>1 DEF RanksInv
    <2>3. DownwardBelow'
      BY <1>2, <1>4, <2>1, <2>2, LongestToFacts DEF DownwardBelow
    <2>4. Call(id) \in Frame
      BY DEF Call, Frame
    <2>5. stack' \in Seq(Frame)
      BY <2>1, <2>4
    <2> QED
      BY <1>1, <1>3, <2>1, <2>3, <2>5 DEF RanksInv
  <1>7. ASSUME CallDownward PROVE RanksInv'
    <2>1. /\ pc = "down" /\ pc' = "down" /\ stack # <<>> /\ HasNext(Top)
          /\ rankU' = rankU
          /\ \/ stack' = Advance /\ visited' = visited /\ rankD' = rankD
             \/ /\ visited' = visited \cup {Target}
                /\ rankD' = [rankD EXCEPT ![Target] = DownwardRank(Target)]
                /\ stack' = Append(Advance, Call(Target))
      BY <1>7 DEF CallDownward
    <2>2. stack \in Seq(Frame) /\ visited \subseteq Ids /\ DownwardBelow
      BY <2>1 DEF RanksInv
    <2>3. Target \in Ids
      <3>1. Top.task \in Ids /\ Top.next \in Nat \ {0}
        BY <2>1, <2>2, StackOps
      <3>2. Top.next \in DOMAIN Edges(Top.task)
        <4>1. Top.next <= Len(Edges(Top.task))
          BY <2>1 DEF HasNext
        <4> QED
          BY <1>2, <3>1, <4>1, EdgeFacts
      <3> QED
        BY <1>2, <3>1, <3>2, EdgeFacts DEF Target
    <2>4. Advance \in Seq(Frame) /\ Call(Target) \in Frame
      <3>1. Advance \in Seq(Frame)
        BY <2>1, <2>2, StackOps
      <3>2. Call(Target) \in Frame
        BY <2>3 DEF Call, Frame
      <3> QED
        BY <3>1, <3>2
    <2>5. stack' \in Seq(Frame) /\ visited' \subseteq Ids
      BY <2>1, <2>2, <2>3, <2>4
    <2>6. DownwardRank(Target) \in Nat /\ DownwardRank(Target) <= LongestTo(Target)
      BY <1>2, <2>2, <2>3, DownwardRankBelow
    <2>7. DownwardBelow'
      BY <1>4, <2>1, <2>2, <2>3, <2>6 DEF DownwardBelow
    <2> QED
      BY <1>1, <1>3, <2>1, <2>5, <2>7 DEF RanksInv
  <1>8. ASSUME ReturnDownward PROVE RanksInv'
    <2>1. /\ pc = "down" /\ pc' = "down" /\ stack # <<>> /\ stack' = Return
          /\ UNCHANGED <<rankU, rankD, visited>>
      BY <1>8 DEF ReturnDownward, rankVars
    <2>2. stack \in Seq(Frame) /\ visited \subseteq Ids /\ DownwardBelow
      BY <2>1 DEF RanksInv
    <2>3. stack' \in Seq(Frame)
      BY <2>1, <2>2, StackOps
    <2>4. DownwardBelow'
      BY <1>4, <2>1, <2>2 DEF DownwardBelow
    <2> QED
      BY <1>1, <1>3, <2>1, <2>2, <2>3, <2>4 DEF RanksInv
  <1>9. ASSUME NEW src \in Ids, CalculateCritical(src) PROVE RanksInv'
    <2>1. /\ pc = "down" /\ pc' = "ranked" /\ src \in Entries
          /\ critical' = CriticalTasks(src)
          /\ UNCHANGED <<rankU, rankD>>
      BY <1>9 DEF CalculateCritical
    <2>2. DownwardBelow'
      BY <1>4, <2>1 DEF RanksInv, DownwardBelow
    <2>3. Entries' = Entries /\ CriticalTasks(src)' = CriticalTasks(src)
      BY <1>1, <1>3, <2>1 DEF Entries, CriticalTasks
    <2> QED
      BY <1>1, <1>3, <2>1, <2>2, <2>3 DEF RanksInv
  <1> QED
    BY <1>5, <1>6, <1>7, <1>8, <1>9 DEF RanksNext

LEMMA RanksStep == RanksInv /\ [RankNext]_vars => RanksInv'
  <1> SUFFICES ASSUME RanksInv, [RankNext]_vars PROVE RanksInv'
    OBVIOUS
  <1>1. CASE UNCHANGED vars
    <2>1. ParserInv'
      BY <1>1, ParserStep DEF RanksInv
    <2>2. UNCHANGED <<pc, nodes, preds, stack, rankU, rankD, visited, critical>>
      BY <1>1 DEF vars, parserVars, rankVars
    <2>3. /\ Ids' = Ids /\ Frame' = Frame /\ UpwardRank' = UpwardRank
          /\ \A id : LongestTo(id)' = LongestTo(id)
      BY <2>2, SameGraph
    <2>4. DownwardBelow' = DownwardBelow
      BY <2>2, <2>3 DEF DownwardBelow
    <2>5. Entries' = Entries /\ \A src : CriticalTasks(src)' = CriticalTasks(src)
      BY <2>2, <2>3 DEF Entries, CriticalTasks
    <2> QED
      BY <2>1, <2>2, <2>3, <2>4, <2>5 DEF RanksInv
  <1> QED
    BY <1>1, ParserMoves, RanksMove DEF RankNext

\* The search ranks tasks of the accepted graph only, and never above the
\* longest path; the critical tasks are compared with an entry task.
THEOREM RanksInvariant == RankSpec => []RanksInv
  BY RanksStart, RanksStep, PTL DEF RankSpec

\* computeUpwardRank: StaticRankU is the cost of the longest path from a task
\* to an exit, for every DAG that Parse accepts.
THEOREM UpwardRanksAreLongestPaths == RankSpec => []UpwardRankIsLongestPath
  <1>1. RanksInv => UpwardRankIsLongestPath
    <2> SUFFICES ASSUME RanksInv, pc = "ranked"
                 PROVE  \A id \in Ids : rankU[id] = LongestFrom(id)
      BY DEF UpwardRankIsLongestPath
    <2>1. Dag /\ rankU = UpwardRank
      BY DagAccepted DEF RanksInv
    <2> QED
      BY <2>1, LongestFromIs
  <1> QED
    BY <1>1, RanksInvariant, PTL

\* computeDownwardRank: StaticRankD never exceeds the longest path to the task,
\* whatever the order of the entries, although it may fall short of it.
THEOREM DownwardRanksNotTooHigh == RankSpec => []DownwardRankNotTooHigh
  <1>1. RanksInv => DownwardRankNotTooHigh
    BY DEF RanksInv, DownwardBelow, DownwardRankNotTooHigh
  <1> QED
    BY <1>1, RanksInvariant, PTL

\* Criti(Gi): with one entry task, what is taken for critical lies on a longest
\* path of the DAG, and the entry task is taken.
THEOREM CriticalTasksLieOnLongestPaths == RankSpec => []CriticalTasksAreCritical
  <1>1. RanksInv => CriticalTasksAreCritical
    <2> DEFINE src == CHOOSE id \in Entries : TRUE
    <2> SUFFICES ASSUME RanksInv, pc = "ranked", Cardinality(Entries) = 1
                 PROVE  /\ src \in critical
                        /\ \A id \in critical :
                             LongestTo(id) + LongestFrom(id) = LongestFrom(src)
      BY DEF CriticalTasksAreCritical
    <2>1. /\ Dag /\ Counted(Ids) /\ rankU = UpwardRank /\ DownwardBelow
      BY DagAccepted DEF RanksInv, ParserInv, Linking
    <2>2. Entries = {src}
      <3>1. IsFiniteSet(Entries)
        BY <2>1, FS_Subset DEF Dag, Entries
      <3>2. PICK x : Entries = {x}
        BY <3>1, FS_Singleton
      <3> QED
        BY <3>2
    <2> HIDE DEF src
    <2>3. critical = CriticalTasks(src) /\ src \in Ids
      BY <2>2 DEF RanksInv, Entries
    <2>4. src \in critical
      BY <2>3 DEF CriticalTasks
    <2>5. ASSUME NEW id \in critical
          PROVE  LongestTo(id) + LongestFrom(id) = LongestFrom(src)
      <3>1. id \in Ids /\ rankU[id] + rankD[id] = rankU[src] + rankD[src]
        BY <2>3, <2>5 DEF CriticalTasks
      <3>2. LongestFrom(id) = rankU[id] /\ LongestFrom(src) = rankU[src]
        BY <2>1, <2>3, <3>1, LongestFromIs
      <3>3. LongestTo(id) + rankU[id] <= rankU[src]
        BY <2>1, <2>2, <3>1, ThroughTask
      <3>4. /\ rankD[id] <= LongestTo(id) /\ rankD[id] \in Nat
            /\ rankD[src] \in Nat /\ LongestTo(id) \in Nat
        BY <2>1, <2>3, <3>1, LongestToFacts DEF DownwardBelow
      <3>5. rankU[id] \in Nat /\ rankU[src] \in Nat
        <4>1. rankU \in [Ids -> Nat]
          BY <2>1, UpwardSolves DEF Solves
        <4> QED
          BY <2>3, <3>1, <4>1
      <3>6. LongestTo(id) + rankU[id] = rankU[src]
        BY <3>1, <3>3, <3>4, <3>5
      <3> QED
        BY <3>2, <3>6
    <2> QED
      BY <2>4, <2>5
  <1> QED
    BY <1>1, RanksInvariant, PTL
=============================================================================
