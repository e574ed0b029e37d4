----------------------------- MODULE AgingProofs -----------------------------
(***************************************************************************)
(* Proofs about AgingQueue, for every set of DAGs, ranks and volumes.  The *)
(* scheduler core with its real priority queue is the scheduler core:      *)
(* every step of AgingQueue is one of Scheduler, so that what is proved of *)
(* the latter for any choice among the queued tasks holds of the choice    *)
(* that the heap makes.  What up, down and the operations of container/heap*)
(* return is proved for heaps of every size, and from it that the heap is  *)
(* in order whenever a task is popped, and that overtaking is bounded.     *)
(***************************************************************************)
EXTENDS AgingQueue, SchedulerProofs

\* Registration, completion and the other events are Scheduler's own handlers;
\* a pop is a dispatch of the first task of the heap, and the clock stutters.
LEMMA AgingStep == [AgingNext]_agingVars => [Next]_vars
  <1> SUFFICES ASSUME [AgingNext]_agingVars PROVE [Next]_vars
    OBVIOUS
  <1>1. CASE AgingReactorStep
    <2>1. CASE AgingRegister
      BY <2>1 DEF AgingRegister, Next, ReactorStep
    <2>2. CASE AgingComplete
      BY <2>2 DEF AgingComplete, Next, ReactorStep
    <2>3. CASE AgingOther
      BY <2>3 DEF AgingOther, Next, ReactorStep
    <2>4. CASE AgingDispatch
      <3>1. PICK w \in Workers : DispatchTask(Head(heap), w)
        BY <2>4 DEF AgingDispatch
      <3>2. Head(heap) \in pq
        BY <3>1 DEF DispatchTask
      <3> QED
        BY <3>1, <3>2 DEF Next, ReactorStep
    <2>5. CASE EndScheduling
      BY <2>5 DEF Next, ReactorStep
    <2> QED
      BY <1>1, <2>1, <2>2, <2>3, <2>4, <2>5 DEF AgingReactorStep
  <1>2. CASE AgingOthersStep
    BY <1>2 DEF AgingOthersStep, Next
  <1>3. CASE Tick \/ UNCHANGED agingVars
    BY <1>3 DEF Tick, agingVars
  <1> QED
    BY <1>1, <1>2, <1>3 DEF AgingNext

\* queue.go and updateDynamicPriorities add nothing to what the core may do:
\* whatever the ranks, volumes and waiting times, AgingQueue implements
\* Scheduler.
THEOREM QueueImplementsCore == AgingSpec => Spec
  <1>1. AgingInit => Init
    BY DEF AgingInit
  <1> QED
    BY <1>1, AgingStep, PTL DEF AgingSpec, Spec

\* So the counters, states, queue, goroutines and events stay in step under
\* the real queue as well (handleEvent and dispatchTask of core.go).
THEOREM QueueKeepsCore == AgingSpec => []CoreInv
  BY QueueImplementsCore, CoreInvariant, PTL

-----------------------------------------------------------------------------
\* Loops that return what they have when they stop

\* A loop that goes from x to Step[x], and returns Out[x] where it stops.
Loops(f, D, Ends, Step, Out) ==
    f = [x \in D |-> IF x \in Ends THEN Out[x] ELSE f[Step[x]]]

\* Every step makes Size smaller.
Halts(D, Ends, Step, Size) ==
    /\ Size \in [D -> Nat]
    /\ \A x \in D \ Ends : Step[x] \in D /\ Size[Step[x]] < Size[x]

\* Good holds where the loop ends, and before a step after which it holds.
Backwards(Good, D, Ends, Step) ==
    /\ \A x \in D \cap Ends : x \in Good
    /\ \A x \in D \ Ends : Step[x] \in Good => x \in Good

\* Then it holds everywhere.
LEMMA LoopInduction ==
    ASSUME NEW D, NEW Ends, NEW Step, NEW Size, Halts(D, Ends, Step, Size),
           NEW Good, Backwards(Good, D, Ends, Step)
    PROVE  D \subseteq Good
  <1> USE DEF Halts, Backwards
  <1> DEFINE Bad == {n \in Nat : \E x \in D \ Good : Size[x] = n}
  <1>1. CASE Bad = {}
    BY <1>1
  <1>2. CASE Bad # {}
    <2>1. PICK n \in Bad : \A k \in Bad : ~(k < n)
      <3>1. Bad \subseteq Nat
        OBVIOUS
      <3> HIDE DEF Bad
      <3> QED
        BY <1>2, <3>1, SmallestNat
    <2>2. PICK x \in D \ Good : Size[x] = n
      BY <2>1
    <2>3. x \notin Ends /\ Step[x] \in D \ Good /\ Size[Step[x]] < n
      BY <2>2
    <2>4. Size[Step[x]] \in Bad /\ n \in Nat /\ Size[Step[x]] \in Nat
      BY <2>1, <2>3
    <2> QED
      BY <2>1, <2>3, <2>4
  <1> QED
    BY <1>1, <1>2

\* And there is such a function: the CHOOSE of a recursive definition finds it.
LEMMA LoopExists ==
    ASSUME NEW D, NEW Ends, NEW Step, NEW Size, Halts(D, Ends, Step, Size), NEW Out
    PROVE  \E f : Loops(f, D, Ends, Step, Out)
  <1>0. /\ Size \in [D -> Nat]
        /\ \A x \in D \ Ends : Step[x] \in D /\ Size[Step[x]] < Size[x]
    BY DEF Halts
  <1> DEFINE Upto(n) == {x \in D : Size[x] < n}
             Value(f, x) == IF x \in Ends THEN Out[x] ELSE f[Step[x]]
             Sol(f, n) == /\ DOMAIN f = Upto(n)
                          /\ \A x \in Upto(n) : f[x] = Value(f, x)
             Good == {n \in Nat : \E f : Sol(f, n)}
  <1>1. 0 \in Good
    <2>1. Upto(0) = {}
      BY <1>0
    <2>2. Sol([x \in Upto(0) |-> 0], 0)
      BY <2>1
    <2> QED
      BY <2>2
  <1>2. ASSUME NEW n \in Good PROVE n + 1 \in Good
    <2>1. PICK f : Sol(f, n)
      OBVIOUS
    <2> DEFINE g == [x \in Upto(n + 1) |-> Value(f, x)]
    <2>2. n \in Nat /\ \A x \in Upto(n) : x \in Upto(n + 1)
      BY <1>0
    <2>3. \A x \in Upto(n) : g[x] = f[x]
      BY <2>1, <2>2
    <2>4. \A x \in Upto(n + 1) \ Ends : Step[x] \in Upto(n)
      BY <1>0, <2>2
    <2>5. ASSUME NEW x \in Upto(n + 1) PROVE g[x] = Value(g, x)
      <3>1. g[x] = Value(f, x)
        OBVIOUS
      <3>2. CASE x \in Ends
        BY <3>1, <3>2
      <3>3. CASE x \notin Ends
        <4>1. g[Step[x]] = f[Step[x]]
          BY <2>3, <2>4, <3>3
        <4> HIDE DEF g
        <4> QED
          BY <3>1, <3>3, <4>1
      <3> QED
        BY <3>2, <3>3
    <2>6. DOMAIN g = Upto(n + 1)
      OBVIOUS
    <2>7. Sol(g, n + 1)
      <3> HIDE DEF g, Value
      <3> QED
        BY <2>5, <2>6
    <2> HIDE DEF g, Sol
    <2> QED
      BY <2>2, <2>7
  <1> DEFINE Bad == Nat \ Good
  <1>3. Bad = {}
    <2> SUFFICES ASSUME Bad # {} PROVE FALSE
      OBVIOUS
    <2>1. PICK n \in Bad : \A k \in Bad : ~(k < n)
      <3>1. Bad \subseteq Nat
        OBVIOUS
      <3> HIDE DEF Bad
      <3> QED
        BY <3>1, SmallestNat
    <2> HIDE DEF Good
    <2>2. n \in Nat /\ n # 0 /\ n \notin Good
      BY <1>1, <2>1
    <2>3. n - 1 \in Nat /\ n - 1 < n /\ (n - 1) + 1 = n
      BY <2>2
    <2>4. n - 1 \in Good
      BY <2>1, <2>2, <2>3
    <2>5. (n - 1) + 1 \in Good
      BY <1>2, <2>4
    <2> QED
      BY <2>2, <2>3, <2>5
  <1> DEFINE Some(n) == CHOOSE f : Sol(f, n)
             f == [x \in D |-> Value(Some(Size[x]), x)]
  <1>4. \A n \in Nat : Sol(Some(n), n)
    <2> HIDE DEF Sol
    <2> QED
      BY <1>3
  \* Two of them agree where both are defined.
  <1>5. ASSUME NEW m \in Nat, NEW n \in Nat, NEW x \in Upto(m), x \in Upto(n)
        PROVE  Some(m)[x] = Some(n)[x]
    <2> DEFINE Agree == {y \in D : y \in Upto(m) /\ y \in Upto(n) => Some(m)[y] = Some(n)[y]}
    <2>1. Sol(Some(m), m) /\ Sol(Some(n), n)
      BY <1>4
    <2> HIDE DEF Some
    <2>2. \A y \in D \cap Ends : y \in Agree
      BY <2>1
    <2>3. ASSUME NEW y \in D \ Ends, Step[y] \in Agree, y \in Upto(m), y \in Upto(n)
          PROVE  Some(m)[y] = Some(n)[y]
      <3>1. Step[y] \in Upto(m) /\ Step[y] \in Upto(n)
        BY <1>0, <2>3
      <3>2. Some(m)[y] = Some(m)[Step[y]] /\ Some(n)[y] = Some(n)[Step[y]]
        BY <2>1, <2>3
      <3> QED
        BY <2>3, <3>1, <3>2
    <2>4. \A y \in D \ Ends : Step[y] \in Agree => y \in Agree
      BY <2>3
    <2> HIDE DEF Agree
    <2>5. Backwards(Agree, D, Ends, Step)
      BY <2>2, <2>4 DEF Backwards
    <2>6. D \subseteq Agree
      BY <2>5, LoopInduction
    <2> QED
      BY <1>5, <2>6 DEF Agree
  <1>6. ASSUME NEW x \in D \ Ends PROVE f[x] = f[Step[x]]
    <2> DEFINE y == Step[x]
    <2>1. y \in D /\ Size[y] \in Nat /\ Size[x] \in Nat /\ Size[y] < Size[x]
      BY <1>0
    <2> HIDE DEF y
    <2>2. f[x] = Some(Size[x])[y]
      BY DEF y
    <2>3. Sol(Some(Size[y] + 1), Size[y] + 1) /\ y \in Upto(Size[y] + 1)
      <3> HIDE DEF Sol
      <3>1. Size[y] + 1 \in Nat /\ Size[y] < Size[y] + 1
        BY <2>1
      <3> QED
        BY <1>4, <2>1, <3>1
    <2>4. Some(Size[x])[y] = Some(Size[y] + 1)[y]
      <3>1. y \in Upto(Size[x]) /\ Size[y] + 1 \in Nat
        BY <2>1
      <3> HIDE DEF Some, Sol, Upto
      <3> QED
        BY <1>5, <2>1, <2>3, <3>1
    <2>5. Some(Size[y] + 1)[y] = Value(Some(Size[y] + 1), y)
      <3> HIDE DEF Some, Value
      <3> QED
        BY <2>3
    <2>6. Value(Some(Size[y] + 1), y) = Value(Some(Size[y]), y)
      <3>1. CASE y \in Ends
        BY <3>1
      <3>2. CASE y \notin Ends
        <4> DEFINE z == Step[y]
        <4>1. z \in D /\ Size[z] \in Nat /\ Size[z] < Size[y]
          BY <1>0, <2>1, <3>2
        <4> HIDE DEF z
        <4>2. z \in Upto(Size[y]) /\ z \in Upto(Size[y] + 1)
          BY <2>1, <4>1
        <4>3. Some(Size[y] + 1)[z] = Some(Size[y])[z]
          <5>1. Size[y] + 1 \in Nat
            BY <2>1
          <5> HIDE DEF Some, Upto
          <5> QED
            BY <1>5, <2>1, <4>2, <5>1
        <4> HIDE DEF Some
        <4> QED
          BY <3>2, <4>3 DEF z
      <3> QED
        BY <3>1, <3>2
    <2>7. f[y] = Value(Some(Size[y]), y)
      BY <2>1
    <2> HIDE DEF f, Value, Some
    <2> QED
      BY <2>2, <2>4, <2>5, <2>6, <2>7 DEF y
  <1>7. \A x \in D \cap Ends : f[x] = Out[x]
    OBVIOUS
  <1>8. f = [x \in D |-> f[x]]
    OBVIOUS
  <1> HIDE DEF f
  <1>9. \A x \in D : f[x] = IF x \in Ends THEN Out[x] ELSE f[Step[x]]
    BY <1>6, <1>7
  <1>10. Loops(f, D, Ends, Step, Out)
    BY <1>8, <1>9 DEF Loops
  <1> QED
    BY <1>10
-----------------------------------------------------------------------------
\* Exchanges in a heap

\* g has the tasks of h, as often, in some order.
Shuffled(g, h) ==
    /\ g \in [DOMAIN h -> Tasks]
    /\ ToSet(g) = ToSet(h)
    /\ IsInjective(h) => IsInjective(g)

\* Every order of the elements of a sequence of tasks is one of its length.
LEMMA HeapSeq ==
    ASSUME NEW h \in Seq(Tasks)
    PROVE  /\ Len(h) \in Nat /\ DOMAIN h = 1..Len(h) /\ h \in [DOMAIN h -> Tasks]
           /\ \A g \in [DOMAIN h -> Tasks] :
                g \in Seq(Tasks) /\ Len(g) = Len(h) /\ DOMAIN g = DOMAIN h
  OBVIOUS

LEMMA ShuffledTwice ==
    ASSUME NEW f, NEW g, NEW h, Shuffled(f, g), Shuffled(g, h)
    PROVE  Shuffled(f, h)
  <1>1. DOMAIN g = DOMAIN h
    BY DEF Shuffled
  <1> QED
    BY <1>1 DEF Shuffled

LEMMA SwapFacts ==
    ASSUME NEW h \in Seq(Tasks), NEW g \in [DOMAIN h -> Tasks],
           NEW i \in DOMAIN h, NEW j \in DOMAIN h
    PROVE  /\ Swap(g, i, j) \in [DOMAIN h -> Tasks]
           /\ \A k \in DOMAIN h : Swap(g, i, j)[k] = IF k = i THEN g[j]
                                                     ELSE IF k = j THEN g[i]
                                                     ELSE g[k]
           /\ Shuffled(Swap(g, i, j), g)
  <1> DEFINE s == Swap(g, i, j)
  <1>1. s \in [DOMAIN h -> Tasks]
    BY DEF Swap
  <1>2. \A k \in DOMAIN h : s[k] = IF k = i THEN g[j] ELSE IF k = j THEN g[i] ELSE g[k]
    BY DEF Swap
  <1> HIDE DEF s
  <1>3. ToSet(s) = ToSet(g)
    <2>1. \A k \in DOMAIN h : s[k] \in ToSet(g)
      BY <1>2 DEF ToSet
    <2>2. s[i] = g[j] /\ s[j] = g[i]
      BY <1>2
    <2>3. \A k \in DOMAIN h : k # i /\ k # j => s[k] = g[k]
      BY <1>2
    <2>4. \A k \in DOMAIN h : \E l \in DOMAIN h : s[l] = g[k]
      BY <2>2, <2>3
    <2> QED
      BY <1>1, <2>1, <2>4 DEF ToSet
  <1>4. IsInjective(g) => IsInjective(s)
    BY <1>1, <1>2 DEF IsInjective
  <1> QED
    BY <1>1, <1>2, <1>3, <1>4 DEF Shuffled, s

-----------------------------------------------------------------------------
\* up of container/heap

UpMoves(p, s) == s[2] > 1 /\ Less(p, s[1], s[2], s[2] \div 2)
UpStep(s) == <<Swap(s[1], s[2], s[2] \div 2), s[2] \div 2>>

UpLoop(p, h) ==
    CHOOSE up : up = [s \in Positions(h) |-> IF UpMoves(p, s) THEN up[UpStep(s)]
                                                              ELSE s[1]]

\* One turn of up's loop.
LEMMA UpStays ==
    ASSUME NEW h \in Seq(Tasks), NEW s \in Positions(h), s[2] > 1
    PROVE  /\ UpStep(s) \in Positions(h)
           /\ UpStep(s)[2] < s[2]
           /\ Shuffled(UpStep(s)[1], s[1])
  <1> DEFINE g == s[1]  i == s[2]  j == s[2] \div 2
  <1>1. /\ g \in [DOMAIN h -> Tasks] /\ i \in DOMAIN h /\ i \in Nat
        /\ DOMAIN h = 1..Len(h) /\ Len(h) \in Nat
    BY DEF Positions
  <1>2. j \in DOMAIN h /\ j < i
    BY <1>1
  <1>3. UpStep(s) = <<Swap(g, i, j), j>>
    BY DEF UpStep
  <1> HIDE DEF g, i, j
  <1>4. Swap(g, i, j) \in [DOMAIN h -> Tasks] /\ Shuffled(Swap(g, i, j), g)
    BY <1>1, <1>2, SwapFacts
  <1> QED
    BY <1>2, <1>3, <1>4 DEF Positions, g, i

LEMMA UpSolves ==
    ASSUME NEW h \in Seq(Tasks), NEW p
    PROVE  \A s \in Positions(h) :
             UpLoop(p, h)[s] = IF UpMoves(p, s) THEN UpLoop(p, h)[UpStep(s)] ELSE s[1]
  <1> DEFINE D == Positions(h)
             Ends == {s \in D : ~UpMoves(p, s)}
             Step == [s \in D |-> UpStep(s)]
             Size == [s \in D |-> s[2]]
             Out == [s \in D |-> s[1]]
  <1>1. Halts(D, Ends, Step, Size)
    <2>1. Size \in [D -> Nat]
      BY DEF Positions
    <2>2. ASSUME NEW s \in D \ Ends
          PROVE  Step[s] \in D /\ Size[Step[s]] < Size[s]
      BY UpStays DEF UpMoves
    <2> QED
      BY <2>1, <2>2 DEF Halts
  <1>2. PICK f : Loops(f, D, Ends, Step, Out)
    <2> HIDE DEF D, Ends, Step, Size, Out
    <2> QED
      BY <1>1, LoopExists
  <1>3. f = [s \in D |-> IF UpMoves(p, s) THEN f[UpStep(s)] ELSE s[1]]
    <2>1. /\ DOMAIN f = D /\ f = [s \in D |-> f[s]]
          /\ \A s \in D : f[s] = IF UpMoves(p, s) THEN f[UpStep(s)] ELSE s[1]
      BY <1>2 DEF Loops
    <2> HIDE DEF D
    <2> QED
      BY <2>1
  <1>4. UpLoop(p, h) = [s \in D |-> IF UpMoves(p, s) THEN UpLoop(p, h)[UpStep(s)]
                                                     ELSE s[1]]
    BY <1>3 DEF UpLoop
  <1> QED
    BY <1>4

LEMMA UpIsLoop ==
    ASSUME NEW p, NEW h, NEW i
    PROVE  Up(p, h, i) = UpLoop(p, h)[<<h, i>>]
  BY DEF Up, UpLoop, UpMoves, UpStep

\* up only moves tasks about.
LEMMA UpShuffles ==
    ASSUME NEW p, NEW h \in Seq(Tasks), NEW i \in DOMAIN h
    PROVE  Shuffled(Up(p, h, i), h)
  <1> DEFINE D == Positions(h)
             Ends == {s \in D : ~UpMoves(p, s)}
             Step == [s \in D |-> UpStep(s)]
             Size == [s \in D |-> s[2]]
             Good == {s \in D : Shuffled(UpLoop(p, h)[s], s[1])}
  <1>1. Halts(D, Ends, Step, Size)
    <2>1. Size \in [D -> Nat]
      BY DEF Positions
    <2>2. ASSUME NEW s \in D \ Ends
          PROVE  Step[s] \in D /\ Size[Step[s]] < Size[s]
      BY UpStays DEF UpMoves
    <2> QED
      BY <2>1, <2>2 DEF Halts
  <1>2. Backwards(Good, D, Ends, Step)
    <2>1. ASSUME NEW s \in D \cap Ends PROVE s \in Good
      <3>1. UpLoop(p, h)[s] = s[1]
        BY UpSolves
      <3>2. Shuffled(s[1], s[1])
        BY DEF Shuffled, Positions
      <3> QED
        BY <3>1, <3>2
    <2>2. ASSUME NEW s \in D \ Ends, Step[s] \in Good PROVE s \in Good
      <3>1. UpLoop(p, h)[s] = UpLoop(p, h)[UpStep(s)]
        BY UpSolves
      <3>2. Shuffled(UpLoop(p, h)[UpStep(s)], UpStep(s)[1])
        BY <2>2
      <3>3. Shuffled(UpStep(s)[1], s[1])
        BY UpStays DEF UpMoves
      <3> QED
        BY <3>1, <3>2, <3>3, ShuffledTwice
    <2> QED
      BY <2>1, <2>2 DEF Backwards
  <1>3. D \subseteq Good
    <2> HIDE DEF D, Ends, Step, Size, Good
    <2> QED
      BY <1>1, <1>2, LoopInduction
  <1>4. <<h, i>> \in D
    BY DEF Positions
  <1>5. Shuffled(UpLoop(p, h)[<<h, i>>], h)
    BY <1>3, <1>4
  <1> QED
    BY <1>5, UpIsLoop

-----------------------------------------------------------------------------
\* down of container/heap

\* No element comes before its parent, for the parents from lo on.
Heaped(p, g, lo) ==
    \A k \in 2..Len(g) : k \div 2 >= lo => p[g[k]] <= p[g[k \div 2]]

\* So it is but for the children of j, which do not come before j's parent.
HeapedBut(p, g, lo, j) ==
    \A k \in 2..Len(g) :
        /\ k \div 2 >= lo /\ k \div 2 # j => p[g[k]] <= p[g[k \div 2]]
        /\ k \div 2 = j /\ j \div 2 >= lo => p[g[k]] <= p[g[j \div 2]]

DownMoves(p, s) ==
    2 * s[2] <= Len(s[1]) /\ Less(p, s[1], FirstChild(p, s[1], s[2]), s[2])
DownStep(p, s) ==
    <<Swap(s[1], FirstChild(p, s[1], s[2]), s[2]), FirstChild(p, s[1], s[2])>>

DownLoop(p, h) ==
    CHOOSE down : down = [s \in Positions(h) |->
                            IF DownMoves(p, s) THEN down[DownStep(p, s)] ELSE s[1]]

LEMMA HalfFacts ==
    ASSUME NEW k \in Nat
    PROVE  /\ k \div 2 \in Nat
           /\ k = 2 * (k \div 2) \/ k = 2 * (k \div 2) + 1
           /\ k > 0 => k \div 2 < k
           /\ k > 1 => k \div 2 > 0
  OBVIOUS

\* The first child is there if there is a child, and none comes before it.
LEMMA FirstChildFacts ==
    ASSUME NEW p \in [Tasks -> Nat], NEW h \in Seq(Tasks),
           NEW g \in [DOMAIN h -> Tasks], NEW j \in DOMAIN h,
           2 * j <= Len(g), NEW c, c = FirstChild(p, g, j)
    PROVE  /\ c \in DOMAIN h /\ c > j /\ c \div 2 = j
           /\ \A k \in DOMAIN h : k \div 2 = j => p[g[k]] <= p[g[c]]
  <1>1. /\ Len(h) \in Nat /\ DOMAIN h = 1..Len(h) /\ Len(g) = Len(h)
        /\ j \in Nat /\ j > 0
    BY HeapSeq
  <1>2. c \in {2 * j, 2 * j + 1} /\ (c = 2 * j + 1 => 2 * j + 1 <= Len(g))
    BY DEF FirstChild
  <1>3. c \in DOMAIN h /\ c > j /\ c \div 2 = j
    <2>1. c \in 1..Len(h) /\ c > j /\ c \in Nat
      BY <1>1, <1>2
    <2>2. c \div 2 = j
      <3>1. c \div 2 \in Nat /\ (c = 2 * (c \div 2) \/ c = 2 * (c \div 2) + 1)
        BY <2>1, HalfFacts
      <3> DEFINE n == c \div 2
      <3>2. n \in Nat /\ j \in Nat /\ c \in Nat /\ (c = 2 * n \/ c = 2 * n + 1)
            /\ (c = 2 * j \/ c = 2 * j + 1)
        BY <1>1, <1>2, <2>1, <3>1
      <3> HIDE DEF n
      <3>3. n = j
        BY <3>2
      <3> QED
        BY <3>3 DEF n
    <2> QED
      BY <1>1, <2>1, <2>2
  <1>4. ASSUME NEW k \in DOMAIN h, k \div 2 = j PROVE p[g[k]] <= p[g[c]]
    <2>0. k \in Nat /\ k <= Len(g)
      BY <1>1
    <2>1. (k = 2 * j \/ k = 2 * j + 1) /\ k <= Len(g)
      <3>1. k = 2 * (k \div 2) \/ k = 2 * (k \div 2) + 1
        BY <2>0, HalfFacts
      <3> QED
        BY <1>4, <2>0, <3>1
    <2>2. \A i \in DOMAIN h : p[g[i]] \in Nat
      OBVIOUS
    <2>3. 2 * j \in DOMAIN h /\ (2 * j + 1 <= Len(g) => 2 * j + 1 \in DOMAIN h)
      BY <1>1
    <2>4. CASE k = 2 * j
      BY <2>2, <2>3, <2>4 DEF FirstChild, Less
    <2>5. CASE k = 2 * j + 1
      BY <2>1, <2>2, <2>3, <2>5 DEF FirstChild, Less
    <2> QED
      BY <2>1, <2>4, <2>5
  <1> QED
    BY <1>3, <1>4

\* One turn of down's loop.
LEMMA DownStays ==
    ASSUME NEW p \in [Tasks -> Nat], NEW h \in Seq(Tasks), NEW s \in Positions(h),
           2 * s[2] <= Len(s[1])
    PROVE  /\ DownStep(p, s) \in Positions(h)
           /\ DownStep(p, s)[2] > s[2]
           /\ Shuffled(DownStep(p, s)[1], s[1])
  <1> DEFINE g == s[1]  j == s[2]  c == FirstChild(p, g, j)
  <1>1. g \in [DOMAIN h -> Tasks] /\ j \in DOMAIN h /\ 2 * j <= Len(g)
    BY DEF Positions
  <1>2. DownStep(p, s) = <<Swap(g, c, j), c>>
    BY DEF DownStep
  <1> HIDE DEF g, j
  <1>3. c \in DOMAIN h /\ c > j
    BY <1>1, FirstChildFacts
  <1> HIDE DEF c
  <1>4. Swap(g, c, j) \in [DOMAIN h -> Tasks] /\ Shuffled(Swap(g, c, j), g)
    BY <1>1, <1>3, SwapFacts
  <1> QED
    BY <1>2, <1>3, <1>4 DEF Positions, g, j

LEMMA DownHalts ==
    ASSUME NEW p \in [Tasks -> Nat], NEW h \in Seq(Tasks)
    PROVE  Halts(Positions(h), {s \in Positions(h) : ~DownMoves(p, s)},
                 [s \in Positions(h) |-> DownStep(p, s)],
                 [s \in Positions(h) |-> Len(h) - s[2]])
  <1> DEFINE D == Positions(h)
             Size == [s \in D |-> Len(h) - s[2]]
  <1>1. \A s \in D : s[2] \in 1..Len(h) /\ Len(h) \in Nat
    BY HeapSeq DEF Positions
  <1>2. Size \in [D -> Nat]
    BY <1>1
  <1>3. ASSUME NEW s \in D, DownMoves(p, s)
        PROVE  DownStep(p, s) \in D /\ Size[DownStep(p, s)] < Size[s]
    <2>1. DownStep(p, s) \in D /\ DownStep(p, s)[2] > s[2]
      BY <1>3, DownStays DEF DownMoves
    <2> QED
      BY <1>1, <2>1
  <1> QED
    BY <1>2, <1>3 DEF Halts

LEMMA DownSolves ==
    ASSUME NEW p \in [Tasks -> Nat], NEW h \in Seq(Tasks)
    PROVE  \A s \in Positions(h) :
             DownLoop(p, h)[s] = IF DownMoves(p, s) THEN DownLoop(p, h)[DownStep(p, s)]
                                                    ELSE s[1]
  <1> DEFINE D == Positions(h)
             Ends == {s \in D : ~DownMoves(p, s)}
             Step == [s \in D |-> DownStep(p, s)]
             Out == [s \in D |-> s[1]]
  <1>1. PICK f : Loops(f, D, Ends, Step, Out)
    BY DownHalts, LoopExists
  <1>2. f = [s \in D |-> IF DownMoves(p, s) THEN f[DownStep(p, s)] ELSE s[1]]
    <2>1. /\ DOMAIN f = D /\ f = [s \in D |-> f[s]]
          /\ \A s \in D : f[s] = IF DownMoves(p, s) THEN f[DownStep(p, s)] ELSE s[1]
      BY <1>1 DEF Loops
    <2> HIDE DEF D
    <2> QED
      BY <2>1
  <1>3. DownLoop(p, h) = [s \in D |-> IF DownMoves(p, s)
                                      THEN DownLoop(p, h)[DownStep(p, s)] ELSE s[1]]
    BY <1>2 DEF DownLoop
  <1> QED
    BY <1>3

LEMMA DownIsLoop ==
    ASSUME NEW p, NEW h, NEW i
    PROVE  Down(p, h, i) = DownLoop(p, h)[<<h, i>>]
  BY DEF Down, DownLoop, DownMoves, DownStep

\* One turn: the child that comes first is above its siblings and its own
\* children, and the element that was there has its children yet to be looked at.
LEMMA DownStepOrders ==
    ASSUME NEW p \in [Tasks -> Nat], NEW h \in Seq(Tasks), NEW s \in Positions(h),
           DownMoves(p, s), NEW lo \in Nat \ {0}, s[2] >= lo,
           HeapedBut(p, s[1], lo, s[2])
    PROVE  HeapedBut(p, DownStep(p, s)[1], lo, DownStep(p, s)[2])
  <1> DEFINE g == s[1]  j == s[2]  c == FirstChild(p, g, j)  r == Swap(g, c, j)
  <1>1. /\ g \in [DOMAIN h -> Tasks] /\ j \in DOMAIN h /\ j \in Nat /\ j >= lo
        /\ 2 * j <= Len(g) /\ Less(p, g, c, j) /\ HeapedBut(p, g, lo, j)
        /\ DOMAIN h = 1..Len(h) /\ Len(h) \in Nat
    BY HeapSeq DEF Positions, DownMoves
  <1>2. DownStep(p, s)[1] = r /\ DownStep(p, s)[2] = c
    BY DEF DownStep
  <1> HIDE DEF g, j
  <1>3. /\ c \in DOMAIN h /\ c > j /\ c \div 2 = j
        /\ \A k \in DOMAIN h : k \div 2 = j => p[g[k]] <= p[g[c]]
    BY <1>1, FirstChildFacts
  <1> HIDE DEF c
  <1>4. /\ r \in [DOMAIN h -> Tasks]
        /\ \A k \in DOMAIN h : r[k] = IF k = c THEN g[j] ELSE IF k = j THEN g[c] ELSE g[k]
    <2>1. g \in [DOMAIN h -> Tasks] /\ c \in DOMAIN h /\ j \in DOMAIN h
      BY <1>1, <1>3
    <2> QED
      BY <2>1 DEF Swap
  <1> HIDE DEF r
  <1>5. Len(g) = Len(h) /\ Len(r) = Len(h)
    <2>1. g \in [DOMAIN h -> Tasks]
      BY <1>1
    <2> QED
      BY <1>4, <2>1, HeapSeq
  <1>6. \A k \in DOMAIN h : p[g[k]] \in Nat /\ p[r[k]] \in Nat
    BY <1>1, <1>4
  <1>7. p[g[c]] > p[g[j]]
    BY <1>1 DEF Less
  <1>8. ASSUME NEW k \in 2..Len(r), k \div 2 >= lo, k \div 2 # c
        PROVE  p[r[k]] <= p[r[k \div 2]]
    <2> DEFINE m == k \div 2
    <2>1. k \in DOMAIN h /\ m \in DOMAIN h /\ m < k /\ k \in 2..Len(g) /\ k \in Nat
      BY <1>1, <1>5
    <2>2. m >= lo /\ m # c /\ m = k \div 2
      BY <1>8
    <2> HIDE DEF m
    <2>3. CASE m = j
      <3>1. r[m] = g[c]
        BY <1>1, <1>3, <1>4, <2>3
      <3>2. r[k] \in {g[j], g[k]}
        BY <1>3, <1>4, <2>1, <2>3
      <3>3. p[g[k]] <= p[g[c]]
        BY <1>3, <2>1, <2>2, <2>3
      <3>4. p[g[j]] \in Nat /\ p[g[c]] \in Nat
        BY <1>1, <1>3, <1>6
      <3>5. p[r[k]] <= p[g[c]]
        BY <1>7, <3>2, <3>3, <3>4
      <3>6. r[k \div 2] = r[m]
        BY <2>2
      <3> QED
        BY <3>1, <3>5, <3>6
    <2>4. CASE m # j /\ k = j
      <3>1. r[m] = g[m] /\ r[k] = g[c]
        BY <1>1, <1>3, <1>4, <2>1, <2>2, <2>4
      <3>2. p[g[c]] <= p[g[j \div 2]]
        <4>1. c \in 2..Len(g) /\ c \div 2 = j /\ j \div 2 >= lo
          BY <1>1, <1>3, <1>5, <2>1, <2>2, <2>4
        <4> QED
          BY <1>1, <4>1 DEF HeapedBut
      <3>3. k \div 2 = m /\ j \div 2 = m
        BY <2>2, <2>4
      <3>4. r[k \div 2] = r[m] /\ g[j \div 2] = g[m]
        BY <3>3
      <3> QED
        BY <3>1, <3>2, <3>4
    <2>5. CASE m # j /\ k # j
      <3>1. k # c
        BY <1>3, <2>2, <2>5
      <3>2. r[m] = g[m] /\ r[k] = g[k]
        BY <1>4, <2>1, <2>2, <2>5, <3>1
      <3>3. p[g[k]] <= p[g[m]]
        BY <1>1, <2>1, <2>2, <2>5 DEF HeapedBut
      <3> QED
        BY <2>2, <3>2, <3>3
    <2> QED
      BY <2>3, <2>4, <2>5
  <1>9. ASSUME NEW k \in 2..Len(r), k \div 2 = c
        PROVE  p[r[k]] <= p[r[c \div 2]]
    <2>1. /\ k \in DOMAIN h /\ k \in 2..Len(g) /\ k \in Nat /\ c \in Nat
          /\ k > 1
      BY <1>1, <1>3, <1>5
    <2>2. k > c /\ c > j /\ c # j /\ k # c /\ k # j /\ c >= lo
      <3>1. k \div 2 < k
        BY <2>1, HalfFacts
      <3>2. k > c
        BY <1>9, <3>1
      <3>3. c > j /\ j >= lo /\ c \in Nat /\ j \in Nat /\ lo \in Nat
        BY <1>1, <1>3, <2>1
      <3> HIDE DEF c
      <3> QED
        BY <2>1, <3>2, <3>3
    <2>3. r[k] = g[k] /\ r[j] = g[c]
      BY <1>1, <1>4, <2>1, <2>2
    <2>4. p[g[k]] <= p[g[c]]
      BY <1>1, <1>9, <2>1, <2>2 DEF HeapedBut
    <2> QED
      BY <1>3, <2>3, <2>4
  <1> QED
    BY <1>2, <1>8, <1>9 DEF HeapedBut

\* Where it stops, the element comes before its children.
LEMMA DownEndOrders ==
    ASSUME NEW p \in [Tasks -> Nat], NEW h \in Seq(Tasks), NEW s \in Positions(h),
           ~DownMoves(p, s), NEW lo \in Nat \ {0}, HeapedBut(p, s[1], lo, s[2])
    PROVE  Heaped(p, s[1], lo)
  <1> DEFINE g == s[1]  j == s[2]  c == FirstChild(p, g, j)
  <1>1. /\ g \in [DOMAIN h -> Tasks] /\ j \in DOMAIN h /\ j \in Nat
        /\ ~(2 * j <= Len(g) /\ Less(p, g, c, j)) /\ HeapedBut(p, g, lo, j)
        /\ DOMAIN h = 1..Len(h) /\ Len(h) \in Nat /\ Len(g) = Len(h)
    BY HeapSeq DEF Positions, DownMoves
  <1> SUFFICES ASSUME NEW k \in 2..Len(g), k \div 2 >= lo
               PROVE  p[g[k]] <= p[g[k \div 2]]
    BY DEF Heaped
  <1> HIDE DEF g, j
  <1>2. CASE k \div 2 # j
    BY <1>1, <1>2 DEF HeapedBut
  <1>3. CASE k \div 2 = j
    <2>1. 2 * j <= Len(g) /\ k \in DOMAIN h
      BY <1>1, <1>3, HalfFacts
    <2>2. c \in DOMAIN h /\ \A l \in DOMAIN h : l \div 2 = j => p[g[l]] <= p[g[c]]
      BY <1>1, <2>1, FirstChildFacts
    <2>3. ~(p[g[c]] > p[g[j]])
      BY <1>1, <2>1 DEF Less
    <2> HIDE DEF c
    <2>4. p[g[c]] \in Nat /\ p[g[j]] \in Nat /\ p[g[k]] \in Nat
      BY <1>1, <2>1, <2>2
    <2>5. p[g[k]] <= p[g[c]] /\ p[g[c]] <= p[g[j]]
      <3>1. p[g[k]] <= p[g[c]]
        BY <1>3, <2>1, <2>2
      <3>2. p[g[c]] <= p[g[j]]
        BY <2>3, <2>4
      <3> QED
        BY <3>1, <3>2
    <2>6. p[g[k]] <= p[g[j]]
      BY <2>4, <2>5
    <2> QED
      BY <1>3, <2>6
  <1> QED
    BY <1>2, <1>3

\* down moves tasks about, and puts the element i in order if those after it are.
LEMMA DownFacts ==
    ASSUME NEW p \in [Tasks -> Nat], NEW h \in Seq(Tasks), NEW i \in DOMAIN h
    PROVE  /\ Shuffled(Down(p, h, i), h)
           /\ Heaped(p, h, i + 1) => Heaped(p, Down(p, h, i), i)
  <1> DEFINE D == Positions(h)
             Ends == {s \in D : ~DownMoves(p, s)}
             Step == [s \in D |-> DownStep(p, s)]
             Orders(s) == s[2] >= i /\ HeapedBut(p, s[1], i, s[2])
                            => Heaped(p, DownLoop(p, h)[s], i)
             Good == {s \in D : Shuffled(DownLoop(p, h)[s], s[1]) /\ Orders(s)}
  <1>0. DOMAIN h = 1..Len(h) /\ Len(h) \in Nat /\ i \in Nat \ {0}
    BY HeapSeq
  <1>1. Backwards(Good, D, Ends, Step)
    <2>1. ASSUME NEW s \in D \cap Ends PROVE s \in Good
      <3>1. DownLoop(p, h)[s] = s[1]
        BY DownSolves
      <3>2. Shuffled(s[1], s[1])
        BY DEF Shuffled, Positions
      <3>3. Orders(s)
        BY <1>0, <3>1, DownEndOrders
      <3> QED
        BY <3>1, <3>2, <3>3
    <2>2. ASSUME NEW s \in D \ Ends, Step[s] \in Good PROVE s \in Good
      <3>1. DownLoop(p, h)[s] = DownLoop(p, h)[DownStep(p, s)]
        BY DownSolves
      <3>2. Shuffled(DownLoop(p, h)[DownStep(p, s)], DownStep(p, s)[1])
            /\ Orders(DownStep(p, s))
        BY <2>2
      <3>3. Shuffled(DownStep(p, s)[1], s[1]) /\ DownStep(p, s)[2] > s[2]
            /\ DownStep(p, s) \in D
        BY DownStays DEF DownMoves
      <3>4. Orders(s)
        <4> SUFFICES ASSUME s[2] >= i, HeapedBut(p, s[1], i, s[2])
                     PROVE  Heaped(p, DownLoop(p, h)[s], i)
          OBVIOUS
        <4>1. HeapedBut(p, DownStep(p, s)[1], i, DownStep(p, s)[2])
          BY <1>0, DownStepOrders
        <4>2. DownStep(p, s)[2] >= i
          <5>1. s[2] \in Nat /\ DownStep(p, s)[2] \in Nat
            BY <1>0, <3>3 DEF Positions
          <5> QED
            BY <1>0, <3>3, <5>1
        <4> QED
          BY <3>1, <3>2, <4>1, <4>2
      <3>5. Shuffled(DownLoop(p, h)[s], s[1])
        BY <3>1, <3>2, <3>3, ShuffledTwice
      <3> QED
        BY <3>4, <3>5
    <2> QED
      BY <2>1, <2>2 DEF Backwards
  <1>2. D \subseteq Good
    <2> HIDE DEF Good
    <2> QED
      BY <1>1, DownHalts, LoopInduction
  <1>3. <<h, i>> \in D
    BY <1>0 DEF Positions
  <1>4. Shuffled(DownLoop(p, h)[<<h, i>>], h) /\ Orders(<<h, i>>)
    BY <1>2, <1>3
  <1>5. Heaped(p, h, i + 1) => HeapedBut(p, h, i, i)
    <2> SUFFICES ASSUME Heaped(p, h, i + 1), NEW k \in 2..Len(h)
                 PROVE  /\ k \div 2 >= i /\ k \div 2 # i => p[h[k]] <= p[h[k \div 2]]
                        /\ k \div 2 = i /\ i \div 2 >= i
                             => p[h[k]] <= p[h[i \div 2]]
      BY DEF HeapedBut
    <2>1. k \div 2 \in Nat /\ i \div 2 < i /\ i \div 2 \in Nat
      BY <1>0, HalfFacts
    <2>2. k \div 2 >= i /\ k \div 2 # i => k \div 2 >= i + 1
      BY <1>0, <2>1
    <2>3. ~(i \div 2 >= i)
      BY <1>0, <2>1
    <2> QED
      BY <2>2, <2>3 DEF Heaped
  <1> QED
    BY <1>0, <1>4, <1>5, DownIsLoop

-----------------------------------------------------------------------------
\* Init, Push and Pop

InitStep(p, s) == <<Down(p, s[1], s[2]), s[2] - 1>>
InitStates(h) == [DOMAIN h -> Tasks] \X (0..Len(h) \div 2)

InitLoop(p, h) ==
    CHOOSE init : init = [s \in InitStates(h) |-> IF s[2] = 0 THEN s[1]
                                                  ELSE init[InitStep(p, s)]]

LEMMA InitIsLoop ==
    ASSUME NEW p, NEW h
    PROVE  HeapInit(p, h) = InitLoop(p, h)[<<h, Len(h) \div 2>>]
  BY DEF HeapInit, InitLoop, InitStep, InitStates

\* One turn of heap.Init's loop puts one more parent in order.
LEMMA InitStays ==
    ASSUME NEW p \in [Tasks -> Nat], NEW h \in Seq(Tasks), NEW s \in InitStates(h),
           s[2] # 0
    PROVE  /\ InitStep(p, s) \in InitStates(h)
           /\ InitStep(p, s)[2] < s[2]
           /\ Shuffled(InitStep(p, s)[1], s[1])
           /\ Heaped(p, s[1], s[2] + 1)
                => Heaped(p, InitStep(p, s)[1], InitStep(p, s)[2] + 1)
  <1> DEFINE g == s[1]  i == s[2]
  <1>1. /\ g \in [DOMAIN h -> Tasks] /\ i \in 0..Len(h) \div 2 /\ i # 0
        /\ Len(h) \in Nat /\ DOMAIN h = 1..Len(h)
    BY HeapSeq DEF InitStates
  <1>2. InitStep(p, s) = <<Down(p, g, i), i - 1>>
    BY DEF InitStep
  <1> HIDE DEF g, i
  <1>3. /\ g \in Seq(Tasks) /\ DOMAIN g = DOMAIN h
    BY <1>1, HeapSeq
  <1>4. i \in DOMAIN h /\ i - 1 \in 0..Len(h) \div 2 /\ i - 1 < i /\ (i - 1) + 1 = i
    BY <1>1, HalfFacts
  <1>5. /\ Shuffled(Down(p, g, i), g)
        /\ Heaped(p, g, i + 1) => Heaped(p, Down(p, g, i), i)
    BY <1>3, <1>4, DownFacts
  <1>6. Down(p, g, i) \in [DOMAIN h -> Tasks]
    BY <1>3, <1>5 DEF Shuffled
  <1> QED
    BY <1>2, <1>4, <1>5, <1>6 DEF InitStates, g, i

LEMMA InitHalts ==
    ASSUME NEW p \in [Tasks -> Nat], NEW h \in Seq(Tasks)
    PROVE  Halts(InitStates(h), {s \in InitStates(h) : s[2] = 0},
                 [s \in InitStates(h) |-> InitStep(p, s)],
                 [s \in InitStates(h) |-> s[2]])
  <1> DEFINE D == InitStates(h)
             Size == [s \in D |-> s[2]]
  <1>1. Size \in [D -> Nat]
    <2>1. Len(h) \div 2 \in Nat
      BY HeapSeq, HalfFacts
    <2> QED
      BY <2>1 DEF InitStates
  <1>2. ASSUME NEW s \in D, s[2] # 0
        PROVE  InitStep(p, s) \in D /\ Size[InitStep(p, s)] < Size[s]
    <2>1. InitStep(p, s) \in D /\ InitStep(p, s)[2] < s[2]
      BY <1>2, InitStays
    <2> QED
      BY <2>1
  <1> QED
    BY <1>1, <1>2 DEF Halts

LEMMA InitSolves ==
    ASSUME NEW p \in [Tasks -> Nat], NEW h \in Seq(Tasks)
    PROVE  \A s \in InitStates(h) :
             InitLoop(p, h)[s] = IF s[2] = 0 THEN s[1] ELSE InitLoop(p, h)[InitStep(p, s)]
  <1> DEFINE D == InitStates(h)
             Ends == {s \in D : s[2] = 0}
             Step == [s \in D |-> InitStep(p, s)]
             Out == [s \in D |-> s[1]]
  <1>1. PICK f : Loops(f, D, Ends, Step, Out)
    BY InitHalts, LoopExists
  <1>2. f = [s \in D |-> IF s[2] = 0 THEN s[1] ELSE f[InitStep(p, s)]]
    <2>1. /\ DOMAIN f = D /\ f = [s \in D |-> f[s]]
          /\ \A s \in D : f[s] = IF s[2] = 0 THEN s[1] ELSE f[InitStep(p, s)]
      BY <1>1 DEF Loops
    <2> HIDE DEF D
    <2> QED
      BY <2>1
  <1>3. InitLoop(p, h) = [s \in D |-> IF s[2] = 0 THEN s[1]
                                      ELSE InitLoop(p, h)[InitStep(p, s)]]
    BY <1>2 DEF InitLoop
  <1> QED
    BY <1>3

\* heap.Init: whatever the order was, the same tasks in heap order.
LEMMA HeapInitFacts ==
    ASSUME NEW p \in [Tasks -> Nat], NEW h \in Seq(Tasks)
    PROVE  Shuffled(HeapInit(p, h), h) /\ Heaped(p, HeapInit(p, h), 1)
  <1> DEFINE D == InitStates(h)
             Ends == {s \in D : s[2] = 0}
             Step == [s \in D |-> InitStep(p, s)]
             Orders(s) == Heaped(p, s[1], s[2] + 1) => Heaped(p, InitLoop(p, h)[s], 1)
             Good == {s \in D : Shuffled(InitLoop(p, h)[s], s[1]) /\ Orders(s)}
  <1>1. Backwards(Good, D, Ends, Step)
    <2>1. ASSUME NEW s \in D \cap Ends PROVE s \in Good
      <3>1. InitLoop(p, h)[s] = s[1]
        BY InitSolves
      <3>2. Shuffled(s[1], s[1])
        BY DEF Shuffled, InitStates
      <3>3. s[2] + 1 = 1
        OBVIOUS
      <3> QED
        BY <3>1, <3>2, <3>3
    <2>2. ASSUME NEW s \in D \ Ends, Step[s] \in Good PROVE s \in Good
      <3>1. InitLoop(p, h)[s] = InitLoop(p, h)[InitStep(p, s)]
        BY InitSolves
      <3>2. /\ Shuffled(InitLoop(p, h)[InitStep(p, s)], InitStep(p, s)[1])
            /\ Orders(InitStep(p, s))
        BY <2>2
      <3>3. /\ Shuffled(InitStep(p, s)[1], s[1])
            /\ Heaped(p, s[1], s[2] + 1)
                 => Heaped(p, InitStep(p, s)[1], InitStep(p, s)[2] + 1)
        BY InitStays
      <3>4. Shuffled(InitLoop(p, h)[s], s[1])
        BY <3>1, <3>2, <3>3, ShuffledTwice
      <3> QED
        BY <3>1, <3>2, <3>3, <3>4
    <2> QED
      BY <2>1, <2>2 DEF Backwards
  <1>2. D \subseteq Good
    <2> HIDE DEF Good
    <2> QED
      BY <1>1, InitHalts, LoopInduction
  <1> DEFINE n == Len(h) \div 2
  <1>3. Len(h) \in Nat /\ n \in 0..n /\ n \in Nat
    BY HeapSeq, HalfFacts
  <1>4. <<h, n>> \in D
    BY <1>3, HeapSeq DEF InitStates
  <1>5. Heaped(p, h, n + 1)
    <2> SUFFICES ASSUME NEW k \in 2..Len(h), k \div 2 >= n + 1 PROVE FALSE
      BY DEF Heaped
    <2>1. k \in Nat /\ k <= Len(h)
      BY <1>3
    <2> QED
      BY <1>3, <2>1, HalfFacts
  <1>6. Shuffled(InitLoop(p, h)[<<h, n>>], h) /\ Orders(<<h, n>>)
    BY <1>2, <1>4
  <1> QED
    BY <1>5, <1>6, InitIsLoop

\* heap.Pop: the first task is gone, the others stay and are in heap order.
LEMMA HeapPopFacts ==
    ASSUME NEW p \in [Tasks -> Nat], NEW h \in Seq(Tasks), h # <<>>,
           Heaped(p, h, 1), IsInjective(h)
    PROVE  /\ HeapPop(p, h) \in Seq(Tasks)
           /\ Heaped(p, HeapPop(p, h), 1)
           /\ IsInjective(HeapPop(p, h))
           /\ ToSet(HeapPop(p, h)) = ToSet(h) \ {Head(h)}
  <1> DEFINE n == Len(h)
  <1>1. n \in Nat \ {0} /\ DOMAIN h = 1..n /\ Head(h) = h[1]
    BY HeapSeq
  <1>2. CASE n = 1
    <2>1. HeapPop(p, h) = <<>>
      BY <1>2 DEF HeapPop
    <2>2. ToSet(h) = {h[1]} /\ ToSet(<<>>) = {}
      BY <1>1, <1>2 DEF ToSet
    <2> QED
      BY <1>1, <2>1, <2>2 DEF Heaped, IsInjective
  <1>3. CASE n # 1
    <2> DEFINE s == Swap(h, 1, n)
               f == Front(s)
               r == Down(p, f, 1)
    <2>1. HeapPop(p, h) = r
      BY <1>3 DEF HeapPop
    <2>2. 1 \in DOMAIN h /\ n \in DOMAIN h /\ n > 1 /\ n - 1 \in Nat \ {0}
      BY <1>1, <1>3
    <2>3. /\ s \in [DOMAIN h -> Tasks] /\ IsInjective(s)
          /\ ToSet(s) = ToSet(h)
      <3>1. h \in [DOMAIN h -> Tasks]
        BY HeapSeq
      <3>2. Shuffled(s, h)
        BY <2>2, <3>1, SwapFacts
      <3> HIDE DEF s
      <3> QED
        BY <3>2 DEF Shuffled
    <2>4. \A k \in 1..n : s[k] = IF k = 1 THEN h[n] ELSE IF k = n THEN h[1] ELSE h[k]
      BY <1>1, <2>2 DEF Swap
    <2>5. s \in Seq(Tasks) /\ Len(s) = n
      BY <2>3, HeapSeq
    <2> HIDE DEF s
    <2>6. /\ f \in Seq(Tasks) /\ Len(f) = n - 1 /\ DOMAIN f = 1..(n - 1)
          /\ \A k \in 1..(n - 1) : f[k] = s[k]
      BY <1>1, <2>2, <2>5 DEF Front
    <2> HIDE DEF f
    <2>7. IsInjective(f)
      <3>1. DOMAIN s = 1..n /\ \A k \in 1..(n - 1) : k \in 1..n
        BY <1>1, <2>3
      <3> HIDE DEF n
      <3> QED
        BY <2>3, <2>6, <3>1 DEF IsInjective
    <2>8. ToSet(f) = ToSet(h) \ {h[1]}
      <3>1. s[n] = h[1] /\ DOMAIN s = 1..n
        BY <1>1, <2>2, <2>3, <2>4
      <3>2. ASSUME NEW x \in ToSet(f) PROVE x \in ToSet(h) /\ x # h[1]
        <4>1. PICK k \in 1..(n - 1) : x = s[k]
          BY <2>6 DEF ToSet
        <4>2. k \in 1..n /\ k # n
          <5> HIDE DEF n
          <5> QED
            BY <1>1, <2>2
        <4>3. s[k] # s[n]
          BY <2>2, <2>3, <3>1, <4>2 DEF IsInjective
        <4> QED
          BY <2>3, <3>1, <4>1, <4>2, <4>3 DEF ToSet
      <3>3. ASSUME NEW x \in ToSet(h), x # h[1] PROVE x \in ToSet(f)
        <4>1. PICK k \in 1..n : x = s[k]
          BY <2>3, <3>1 DEF ToSet
        <4>2. k \in 1..(n - 1)
          BY <1>1, <2>2, <3>1, <3>3, <4>1
        <4> QED
          BY <2>6, <4>1, <4>2 DEF ToSet
      <3> QED
        BY <3>2, <3>3
    <2>9. Heaped(p, f, 2)
      <3> SUFFICES ASSUME NEW k \in 2..Len(f), k \div 2 >= 2
                   PROVE  p[f[k]] <= p[f[k \div 2]]
        BY DEF Heaped
      <3> DEFINE m == k \div 2
      <3>1. k \in Nat /\ k > 0 /\ k <= n - 1 /\ k >= 2
        BY <2>2, <2>6
      <3>2. m \in Nat /\ m < k /\ m >= 2
        BY <3>1, HalfFacts
      <3>3. p[h[k]] <= p[h[m]]
        BY <1>1, <3>1, <3>2 DEF Heaped
      <3> HIDE DEF m
      <3>4. f[k] = h[k] /\ f[m] = h[m]
        <4>1. /\ k \in 1..(n - 1) /\ k \in 1..n /\ k # 1 /\ k # n
              /\ m \in 1..(n - 1) /\ m \in 1..n /\ m # 1 /\ m # n
          <5> HIDE DEF n
          <5> QED
            BY <1>1, <2>2, <3>1, <3>2
        <4> QED
          BY <2>4, <2>6, <4>1
      <3> QED
        BY <3>3, <3>4 DEF m
    <2>10. Shuffled(r, f) /\ Heaped(p, r, 1)
      <3>1. 1 \in DOMAIN f /\ 1 + 1 = 2
        BY <2>2, <2>6
      <3> QED
        BY <2>6, <2>9, <3>1, DownFacts
    <2>11. r \in Seq(Tasks) /\ IsInjective(r) /\ ToSet(r) = ToSet(f)
      BY <2>6, <2>7, <2>10, HeapSeq DEF Shuffled
    <2> QED
      BY <1>1, <2>1, <2>8, <2>10, <2>11
  <1> QED
    BY <1>2, <1>3

\* heap.Push: one task more, somewhere.
LEMMA HeapPushFacts ==
    ASSUME NEW p, NEW h \in Seq(Tasks), NEW t \in Tasks
    PROVE  /\ HeapPush(p, h, t) \in Seq(Tasks)
           /\ ToSet(HeapPush(p, h, t)) = ToSet(h) \cup {t}
           /\ IsInjective(h) /\ t \notin ToSet(h) => IsInjective(HeapPush(p, h, t))
  <1> DEFINE a == Append(h, t)
             n == Len(h) + 1
             r == Up(p, a, n)
  <1>1. /\ Len(h) \in Nat /\ n \in Nat /\ DOMAIN h = 1..Len(h)
        /\ a \in Seq(Tasks) /\ DOMAIN a = 1..n /\ n \in DOMAIN a
        /\ \A k \in DOMAIN a : a[k] = IF k = n THEN t ELSE h[k]
        /\ \A k \in DOMAIN a : k = n \/ k \in DOMAIN h
        /\ \A k \in DOMAIN h : k # n /\ k \in DOMAIN a
    OBVIOUS
  <1> HIDE DEF a, n
  <1>2. ToSet(a) = ToSet(h) \cup {t}
    BY <1>1 DEF ToSet
  <1>3. IsInjective(h) /\ t \notin ToSet(h) => IsInjective(a)
    BY <1>1 DEF IsInjective, ToSet
  <1>4. Shuffled(r, a)
    BY <1>1, UpShuffles
  <1>5. r \in Seq(Tasks)
    BY <1>1, <1>4, HeapSeq DEF Shuffled
  <1>6. HeapPush(p, h, t) = r
    BY DEF HeapPush, a, n
  <1> QED
    BY <1>2, <1>3, <1>4, <1>5, <1>6 DEF Shuffled

PushStates(list) == Seq(Tasks) \X (1..Len(list) + 1)
PushStep(p, list, new, s) ==
    <<IF list[s[2]] \in new THEN HeapPush(p, s[1], list[s[2]]) ELSE s[1], s[2] + 1>>

PushLoop(p, list, new) ==
    CHOOSE push : push = [s \in PushStates(list) |->
                            IF s[2] > Len(list) THEN s[1]
                                                ELSE push[PushStep(p, list, new, s)]]

LEMMA PushIsLoop ==
    ASSUME NEW p, NEW h, NEW list, NEW new
    PROVE  PushNew(p, h, list, new) = PushLoop(p, list, new)[<<h, 1>>]
  BY DEF PushNew, PushLoop, PushStep, PushStates

LEMMA PushStays ==
    ASSUME NEW p, NEW list \in Seq(Tasks), NEW new, NEW s \in PushStates(list),
           ~(s[2] > Len(list))
    PROVE  /\ PushStep(p, list, new, s) \in PushStates(list)
           /\ PushStep(p, list, new, s)[2] = s[2] + 1
           /\ s[2] \in DOMAIN list /\ list[s[2]] \in Tasks
  <1> DEFINE g == s[1]  k == s[2]
  <1>1. /\ g \in Seq(Tasks) /\ k \in 1..Len(list) + 1 /\ ~(k > Len(list))
        /\ Len(list) \in Nat /\ DOMAIN list = 1..Len(list)
    BY HeapSeq DEF PushStates
  <1>2. PushStep(p, list, new, s)
          = <<IF list[k] \in new THEN HeapPush(p, g, list[k]) ELSE g, k + 1>>
    BY DEF PushStep
  <1> HIDE DEF g, k
  <1>3. k \in DOMAIN list /\ k + 1 \in 1..Len(list) + 1 /\ list[k] \in Tasks
    BY <1>1
  <1>4. HeapPush(p, g, list[k]) \in Seq(Tasks)
    BY <1>1, <1>3, HeapPushFacts
  <1> QED
    BY <1>1, <1>2, <1>3, <1>4 DEF PushStates, k

LEMMA PushHalts ==
    ASSUME NEW p, NEW list \in Seq(Tasks), NEW new
    PROVE  Halts(PushStates(list), {s \in PushStates(list) : s[2] > Len(list)},
                 [s \in PushStates(list) |-> PushStep(p, list, new, s)],
                 [s \in PushStates(list) |-> Len(list) + 1 - s[2]])
  <1> DEFINE D == PushStates(list)
             Size == [s \in D |-> Len(list) + 1 - s[2]]
  <1>1. Len(list) \in Nat /\ \A s \in D : s[2] \in 1..Len(list) + 1
    BY HeapSeq DEF PushStates
  <1>2. Size \in [D -> Nat]
    BY <1>1
  <1>3. ASSUME NEW s \in D, ~(s[2] > Len(list))
        PROVE  /\ PushStep(p, list, new, s) \in D
               /\ Size[PushStep(p, list, new, s)] < Size[s]
    <2>1. PushStep(p, list, new, s) \in D /\ PushStep(p, list, new, s)[2] = s[2] + 1
      BY <1>3, PushStays
    <2> QED
      BY <1>1, <2>1
  <1> QED
    BY <1>2, <1>3 DEF Halts

LEMMA PushSolves ==
    ASSUME NEW p, NEW list \in Seq(Tasks), NEW new
    PROVE  \A s \in PushStates(list) :
             PushLoop(p, list, new)[s] =
               IF s[2] > Len(list) THEN s[1]
               ELSE PushLoop(p, list, new)[PushStep(p, list, new, s)]
  <1> DEFINE D == PushStates(list)
             Ends == {s \in D : s[2] > Len(list)}
             Step == [s \in D |-> PushStep(p, list, new, s)]
             Out == [s \in D |-> s[1]]
  <1>1. PICK f : Loops(f, D, Ends, Step, Out)
    BY PushHalts, LoopExists
  <1>2. f = [s \in D |-> IF s[2] > Len(list) THEN s[1] ELSE f[PushStep(p, list, new, s)]]
    <2>1. /\ DOMAIN f = D /\ f = [s \in D |-> f[s]]
          /\ \A s \in D : f[s] = IF s[2] > Len(list) THEN s[1]
                                 ELSE f[PushStep(p, list, new, s)]
      BY <1>1 DEF Loops
    <2> HIDE DEF D
    <2> QED
      BY <2>1
  <1>3. PushLoop(p, list, new) =
          [s \in D |-> IF s[2] > Len(list) THEN s[1]
                       ELSE PushLoop(p, list, new)[PushStep(p, list, new, s)]]
    BY <1>2 DEF PushLoop
  <1> QED
    BY <1>3

\* The new tasks of a list go into the heap once each.
LEMMA PushNewFacts ==
    ASSUME NEW p, NEW h \in Seq(Tasks), NEW list \in Seq(Tasks), NEW new
    PROVE  LET r == PushNew(p, h, list, new)
           IN  /\ r \in Seq(Tasks)
               /\ ToSet(r) = ToSet(h) \cup (ToSet(list) \cap new)
               /\ IsInjective(h) /\ IsInjective(list) /\ ToSet(h) \cap new = {}
                    => IsInjective(r)
  <1> DEFINE D == PushStates(list)
             Ends == {s \in D : s[2] > Len(list)}
             Step == [s \in D |-> PushStep(p, list, new, s)]
             Left(s) == {list[k] : k \in s[2]..Len(list)} \cap new
             f == PushLoop(p, list, new)
             Pushes(s) == /\ f[s] \in Seq(Tasks)
                          /\ ToSet(f[s]) = ToSet(s[1]) \cup Left(s)
                          /\ IsInjective(s[1]) /\ IsInjective(list)
                               /\ ToSet(s[1]) \cap Left(s) = {} => IsInjective(f[s])
             Good == {s \in D : Pushes(s)}
             Size == [s \in D |-> Len(list) + 1 - s[2]]
  <1>1. /\ Len(list) \in Nat /\ DOMAIN list = 1..Len(list)
        /\ \A s \in D : s[1] \in Seq(Tasks) /\ s[2] \in 1..Len(list) + 1
    BY HeapSeq DEF PushStates
  <1>2. Halts(D, Ends, Step, Size)
    BY PushHalts
  <1>3. \A s \in D : f[s] = IF s[2] > Len(list) THEN s[1] ELSE f[PushStep(p, list, new, s)]
    BY PushSolves
  <1> HIDE DEF f
  <1>4. Backwards(Good, D, Ends, Step)
    <2>1. ASSUME NEW s \in D \cap Ends PROVE s \in Good
      <3>1. f[s] = s[1]
        BY <1>3
      <3>2. Left(s) = {}
        BY <1>1
      <3>3. s[1] \in Seq(Tasks)
        BY <1>1
      <3> HIDE DEF Left
      <3>4. ToSet(s[1]) \cup Left(s) = ToSet(s[1])
        BY <3>2
      <3>5. Pushes(s)
        BY <3>1, <3>3, <3>4
      <3> QED
        BY <3>5
    <2>2. ASSUME NEW s \in D \ Ends, Step[s] \in Good PROVE s \in Good
      <3> DEFINE u == PushStep(p, list, new, s)
                 g == s[1]  k == s[2]  x == list[s[2]]
      <3>1. f[s] = f[u] /\ Pushes(u)
        BY <1>3, <2>2
      <3>2. u \in D /\ u[2] = k + 1 /\ k \in DOMAIN list /\ x \in Tasks
        BY PushStays
      <3>3. /\ g \in Seq(Tasks)
            /\ u[1] = IF x \in new THEN HeapPush(p, g, x) ELSE g
        BY <1>1 DEF PushStep
      <3>4. Left(s) = Left(u) \cup ({x} \cap new)
        <4>1. \A i \in k..Len(list) : i = k \/ i \in (k + 1)..Len(list)
          BY <1>1, <3>2
        <4>2. k \in k..Len(list) /\ \A i \in (k + 1)..Len(list) : i \in k..Len(list)
          BY <1>1, <3>2
        <4> HIDE DEF u
        <4> QED
          BY <3>2, <4>1, <4>2
      <3>5. IsInjective(list) => x \notin Left(u)
        <4> SUFFICES ASSUME IsInjective(list), x \in Left(u) PROVE FALSE
          OBVIOUS
        <4> HIDE DEF u
        <4>1. PICK i \in (k + 1)..Len(list) : list[i] = x
          BY <3>2
        <4>2. i \in DOMAIN list /\ i # k
          BY <1>1, <3>2
        <4> QED
          BY <3>2, <4>1, <4>2 DEF IsInjective
      <3> HIDE DEF u, Left
      <3>6. CASE x \notin new
        <4>1. u[1] = g /\ Left(s) = Left(u)
          BY <3>3, <3>4, <3>6
        <4> QED
          BY <3>1, <4>1
      <3>7. CASE x \in new
        <4>1. /\ u[1] = HeapPush(p, g, x)
              /\ ToSet(u[1]) = ToSet(g) \cup {x}
              /\ IsInjective(g) /\ x \notin ToSet(g) => IsInjective(u[1])
          BY <3>2, <3>3, <3>7, HeapPushFacts
        <4>2. Left(s) = Left(u) \cup {x}
          BY <3>4, <3>7
        <4>3. ToSet(f[s]) = ToSet(g) \cup Left(s)
          BY <3>1, <4>1, <4>2
        <4>4. IsInjective(g) /\ IsInjective(list) /\ ToSet(g) \cap Left(s) = {}
                => IsInjective(f[s])
          BY <3>1, <3>5, <4>1, <4>2
        <4>5. Pushes(s)
          BY <3>1, <4>3, <4>4
        <4> QED
          BY <4>5
      <3> QED
        BY <3>6, <3>7
    <2> QED
      BY <2>1, <2>2 DEF Backwards
  <1>5. D \subseteq Good
    <2> HIDE DEF D, Ends, Step, Size, Good
    <2> QED
      BY <1>4, <1>2, LoopInduction
  <1>6. <<h, 1>> \in D
    BY <1>1 DEF PushStates
  <1>7. Pushes(<<h, 1>>)
    BY <1>5, <1>6
  <1>8. Left(<<h, 1>>) = ToSet(list) \cap new
    BY <1>1 DEF ToSet
  <1> QED
    BY <1>7, <1>8, PushIsLoop DEF f

-----------------------------------------------------------------------------
\* What PushAndAge does to the queue

\* At the time a, Eq. 19 gave every queued task the priority it has.
AgedAt(a) ==
    \A t \in pq : /\ readyAt[t] <= a
                  /\ priority[t] = PriorityAfter(t, a - readyAt[t], registered)

\* The heap holds the queue, once each and in order, by priorities that were
\* all computed at one time.
QueueInv ==
    /\ heap \in Seq(Tasks)
    /\ IsInjective(heap)
    /\ ToSet(heap) = pq
    /\ priority \in [Tasks -> Nat]
    /\ Heaped(priority, heap, 1)
    /\ now \in Nat
    /\ readyAt \in [Tasks -> Nat]
    /\ \A t \in Tasks : readyAt[t] <= now
    /\ \E a \in Nat : AgedAt(a)

LEMMA PriorityAfterType ==
    ASSUME NEW t \in Tasks, NEW wait \in Nat, NEW known \in SUBSET Dags
    PROVE  PriorityAfter(t, wait, known) \in Nat
  <1>1. Rank[t] \in Nat /\ wait * AgingFactor \in Nat
    BY AgingAssumption
  <1>2. VolTerm(t, known) \in Nat
    BY AgingAssumption DEF VolTerm
  <1> QED
    BY <1>1, <1>2 DEF PriorityAfter

\* Whatever the new tasks' first priorities and whatever the order that ageing
\* destroys, the pass that follows every event makes the queue a heap again.
LEMMA PushAndAgeFacts ==
    ASSUME QueueInv, NEW list \in Seq(Tasks), IsInjective(list),
           NEW new \in SUBSET ToSet(list), pq \cap new = {},
           NEW first \in [Tasks -> Nat], PushAndAge(list, new, first),
           registered' \subseteq Dags, pq' = pq \cup new, now' = now
    PROVE  QueueInv'
  <1> DEFINE ready == [t \in Tasks |-> IF t \in new THEN now ELSE readyAt[t]]
             start == [t \in Tasks |-> IF t \in new THEN first[t] ELSE priority[t]]
             pushed == PushNew(start, heap, list, new)
             aged == [t \in Tasks |-> IF Contains(pushed, t)
                        THEN PriorityAfter(t, now - ready[t], registered') ELSE start[t]]
  <1>1. /\ ready \in [Tasks -> Nat] /\ start \in [Tasks -> Nat] /\ now \in Nat
        /\ \A t \in Tasks : ready[t] <= now
    BY DEF QueueInv
  <1>2. /\ readyAt' = ready /\ priority' = aged
        /\ heap' = HeapInit(aged, pushed)
    BY DEF PushAndAge, UpdateDynamicPriorities
  <1>3. /\ pushed \in Seq(Tasks) /\ IsInjective(pushed)
        /\ ToSet(pushed) = pq'
    <2>1. /\ heap \in Seq(Tasks) /\ IsInjective(heap) /\ ToSet(heap) = pq
          /\ ToSet(list) \cap new = new
      BY DEF QueueInv
    <2> HIDE DEF start
    <2>2. /\ pushed \in Seq(Tasks)
          /\ ToSet(pushed) = ToSet(heap) \cup (ToSet(list) \cap new)
          /\ IsInjective(heap) /\ IsInjective(list) /\ ToSet(heap) \cap new = {}
               => IsInjective(pushed)
      BY <2>1, PushNewFacts
    <2> HIDE DEF pushed
    <2> QED
      BY <2>1, <2>2
  <1> HIDE DEF pushed, ready, start
  <1>4. \A t : Contains(pushed, t) <=> t \in pq'
    <2>1. DOMAIN pushed = 1..Len(pushed)
      BY <1>3
    <2> QED
      BY <1>3, <2>1 DEF Contains, ToSet
  <1>5. \A t \in Tasks : /\ now - ready[t] \in Nat
                         /\ PriorityAfter(t, now - ready[t], registered') \in Nat
    <2>1. \A t \in Tasks : now - ready[t] \in Nat
      BY <1>1
    <2> QED
      BY <2>1, PriorityAfterType
  <1>6. aged \in [Tasks -> Nat]
    BY <1>1, <1>5
  <1>7. \A t \in pq' : t \in Tasks /\ aged[t] = PriorityAfter(t, now - ready[t], registered')
    <2>1. pq' \subseteq Tasks
      BY <1>3 DEF ToSet
    <2> QED
      BY <1>4, <2>1
  <1> HIDE DEF aged
  <1>8. Shuffled(heap', pushed) /\ Heaped(priority', heap', 1)
    BY <1>2, <1>3, <1>6, HeapInitFacts
  <1>9. heap' \in Seq(Tasks) /\ IsInjective(heap') /\ ToSet(heap') = pq'
    BY <1>3, <1>8, HeapSeq DEF Shuffled
  <1>10. \E a \in Nat : AgedAt(a)'
    <2>1. PICK a \in Nat : a = now
      BY <1>1
    <2>2. AgedAt(a)'
      BY <1>1, <1>2, <1>7, <2>1 DEF AgedAt
    <2> QED
      BY <2>2
  <1> QED
    BY <1>1, <1>2, <1>6, <1>8, <1>9, <1>10 DEF QueueInv

\* Any order in which the entry tasks may come is a list of them, once each.
LEMMA ListingFacts ==
    ASSUME NEW S \in SUBSET Tasks, NEW list \in SetToSeqs(S)
    PROVE  /\ list \in Seq(Tasks)
           /\ IsInjective(list)
           /\ ToSet(list) = S
  <1> DEFINE n == Cardinality(S)
  <1>1. IsFiniteSet(S) /\ n \in Nat
    BY SetsAssumption, FS_Subset, FS_CardinalityType
  <1> HIDE DEF n
  <1>2. list \in [1..n -> S] /\ \A i, j \in 1..n : i # j => list[i] # list[j]
    BY DEF SetToSeqs, n
  <1>3. list \in Seq(Tasks)
    BY <1>1, <1>2
  <1>4. IsInjective(list) /\ list \in Injection(1..n, S)
    BY <1>2 DEF IsInjective, Injection
  <1>5. Cardinality(1..n) = Cardinality(S)
    BY <1>1, FS_Interval DEF n
  <1>6. list \in Surjection(1..n, S)
    BY <1>1, <1>4, <1>5, FS_Injection
  <1> QED
    BY <1>2, <1>3, <1>4, <1>6 DEF Surjection, ToSet

LEMMA InitQueueInv == AgingInit => QueueInv
  <1> SUFFICES ASSUME AgingInit PROVE QueueInv
    OBVIOUS
  <1>1. heap = <<>> /\ pq = {} /\ now = 0
        /\ priority = [t \in Tasks |-> 0] /\ readyAt = [t \in Tasks |-> 0]
    BY DEF AgingInit, Init
  <1>2. heap \in Seq(Tasks) /\ IsInjective(heap) /\ ToSet(heap) = pq
        /\ Heaped(priority, heap, 1)
    BY <1>1 DEF IsInjective, ToSet, Heaped
  <1>3. AgedAt(0)
    BY <1>1 DEF AgedAt
  <1> QED
    BY <1>1, <1>2, <1>3 DEF QueueInv

\* The clock and the steps that leave the queue alone.
LEMMA QueueInvFrame ==
    ASSUME QueueInv, UNCHANGED <<queueVars, pq, registered>>,
           now' \in Nat, now' >= now
    PROVE  QueueInv'
  <1>1. /\ heap' = heap /\ priority' = priority /\ readyAt' = readyAt
        /\ pq' = pq /\ registered' = registered
    BY DEF queueVars
  <1>2. \A a \in Nat : AgedAt(a) => AgedAt(a)'
    BY <1>1 DEF AgedAt
  <1>3. \A t \in Tasks : readyAt[t] <= now'
    BY DEF QueueInv
  <1> QED
    BY <1>1, <1>2, <1>3 DEF QueueInv

LEMMA RegisterKeepsQueue ==
    ASSUME CoreInv, TypeOK', QueueInv, AgingRegister, now' = now
    PROVE  QueueInv'
  <1> DEFINE d == Head(eventChan).dag
             first == [t \in Tasks |-> Rank[t] + VolPerSubtask[d]]
             entries == {t \in TasksOf(d) : IsEntry(t)}
  <1>1. RegisterArrivedDAG
    BY DEF AgingRegister
  <1>2. PICK list \in SetToSeqs(entries) : PushAndAge(list, entries, first)
    BY DEF AgingRegister
  <1>3. /\ d \in Dags
        /\ \A t \in TasksOf(d) : taskState[t] = "NONE"
        /\ pq' = pq \cup entries
    BY <1>1, RegisterStates DEF IsEntry
  <1>4. pq \cap entries = {}
    BY <1>3 DEF CoreInv, QueueIsReady
  <1>5. first \in [Tasks -> Nat]
    BY <1>3, AgingAssumption
  <1>6. entries \in SUBSET Tasks
    BY DEF TasksOf
  <1>7. registered' \subseteq Dags
    BY DEF TypeOK
  <1> HIDE DEF entries, first
  <1>8. list \in Seq(Tasks) /\ IsInjective(list) /\ ToSet(list) = entries
    BY <1>2, <1>6, ListingFacts
  <1> QED
    BY <1>2, <1>3, <1>4, <1>5, <1>7, <1>8, PushAndAgeFacts

LEMMA CompleteKeepsQueue ==
    ASSUME CoreInv, TypeOK', QueueInv, AgingComplete, now' = now
    PROVE  QueueInv'
  <1> DEFINE list == Succ[Reported]
             first == [s \in Tasks |-> PriorityAfter(s, 0, registered)]
             new == {s \in Succs(Reported) : rem'[s] = 0}
  <1>1. CompleteTask /\ PushAndAge(list, new, first)
    BY DEF AgingComplete, Reported
  <1>2. /\ Reported \in Tasks
        /\ \A s \in Succs(Reported) : taskState[s] \in {"WAITING", "FAILED"}
        /\ pq' = pq \cup Released
    BY <1>1, CompleteTaskStates
  <1>3. new = Released
    <2>1. rem' = [s \in Tasks |-> IF s \in Succs(Reported)
                                  THEN DecrementIndegree(rem[s]) ELSE rem[s]]
      BY <1>1 DEF CompleteTask, Reported
    <2>2. Succs(Reported) \subseteq Tasks
      BY <1>2, PredFacts
    <2> QED
      BY <2>1, <2>2 DEF Released
  <1>4. list \in Seq(Tasks) /\ IsInjective(list) /\ ToSet(list) = Succs(Reported)
    BY <1>2, GraphAssumption DEF IsInjective, ToSet, Succs
  <1>5. first \in [Tasks -> Nat]
    BY PriorityAfterType DEF CoreInv, TypeOK
  <1>6. pq \cap new = {}
    BY <1>2 DEF CoreInv, QueueIsReady
  <1>7. registered' \subseteq Dags
    BY DEF TypeOK
  <1>8. new \in SUBSET ToSet(list)
    BY <1>4
  <1> HIDE DEF list, first, new
  <1> QED
    BY <1>1, <1>2, <1>3, <1>4, <1>5, <1>6, <1>7, <1>8, PushAndAgeFacts

\* Rejected DAGs and idle workers queue nothing, but priorities age.
LEMMA OtherKeepsQueue ==
    ASSUME CoreInv, TypeOK', QueueInv, AgingOther, now' = now
    PROVE  QueueInv'
  <1>1. PushAndAge(<<>>, {}, priority)
    BY DEF AgingOther
  <1>2. <<>> \in Seq(Tasks) /\ IsInjective(<<>>) /\ {} \in SUBSET ToSet(<<>>)
    BY DEF IsInjective
  <1>3. pq' = pq \cup {} /\ pq \cap {} = {}
    BY DEF AgingOther, RejectArrivedDAG, MarkWorkerIdle
  <1>4. priority \in [Tasks -> Nat]
    BY DEF QueueInv
  <1>5. registered' \subseteq Dags
    BY DEF TypeOK
  <1> QED
    BY <1>1, <1>2, <1>3, <1>4, <1>5, PushAndAgeFacts

\* heap.Pop takes the dispatched task out of the heap as well.
LEMMA DispatchKeepsQueue ==
    ASSUME QueueInv, AgingDispatch, now' = now
    PROVE  QueueInv'
  <1>1. /\ pq' = pq \ {Head(heap)} /\ registered' = registered
        /\ heap' = HeapPop(priority, heap)
        /\ priority' = priority /\ readyAt' = readyAt
    BY DEF AgingDispatch, DispatchTask
  <1>2. /\ heap' \in Seq(Tasks) /\ Heaped(priority', heap', 1)
        /\ IsInjective(heap') /\ ToSet(heap') = pq'
    BY <1>1, HeapPopFacts DEF QueueInv, AgingDispatch
  <1>3. \A a \in Nat : AgedAt(a) => AgedAt(a)'
    BY <1>1 DEF AgedAt
  <1> QED
    BY <1>1, <1>2, <1>3 DEF QueueInv

LEMMA QueueInvPreserved ==
    CoreInv /\ TypeOK' /\ QueueInv /\ [AgingNext]_agingVars => QueueInv'
  <1> SUFFICES ASSUME CoreInv, TypeOK', QueueInv, [AgingNext]_agingVars
               PROVE  QueueInv'
    OBVIOUS
  <1>0. now \in Nat /\ now >= now
    BY DEF QueueInv
  <1>1. CASE AgingReactorStep
    <2>1. now' = now
      BY <1>1 DEF AgingReactorStep
    <2>2. CASE EndScheduling /\ UNCHANGED queueVars
      <3>1. UNCHANGED <<pq, registered>>
        BY <2>2, OtherStates DEF OtherStep
      <3> QED
        BY <1>0, <2>1, <2>2, <3>1, QueueInvFrame
    <2> QED
      BY <1>1, <2>1, <2>2, RegisterKeepsQueue, CompleteKeepsQueue, OtherKeepsQueue,
         DispatchKeepsQueue
      DEF AgingReactorStep
  <1>2. CASE AgingOthersStep
    <2>1. OtherStep /\ UNCHANGED <<queueVars, now>>
      BY <1>2 DEF AgingOthersStep, OtherStep
    <2>2. UNCHANGED <<pq, registered>>
      BY <2>1, OtherStates
    <2> QED
      BY <1>0, <2>1, <2>2, QueueInvFrame
  <1>3. CASE Tick \/ UNCHANGED agingVars
    <2>1. UNCHANGED <<queueVars, pq, registered>> /\ (now' = now + 1 \/ now' = now)
      BY <1>3 DEF Tick, agingVars, vars, stores
    <2>2. now' \in Nat /\ now' >= now
      BY <1>0, <2>1
    <2> QED
      BY <2>1, <2>2, QueueInvFrame
  <1> QED
    BY <1>1, <1>2, <1>3 DEF AgingNext

\* The queue's invariant holds in every state (core.go and queue.go).
THEOREM QueueInvariant == AgingSpec => []QueueInv
  <1>1. CoreInv => TypeOK
    BY DEF CoreInv
  <1> QED
    BY <1>1, QueueKeepsCore, InitQueueInv, QueueInvPreserved, PTL DEF AgingSpec

-----------------------------------------------------------------------------
\* A heap without repetitions is as long as the set of its tasks is large.
LEMMA HeapSize ==
    ASSUME NEW h \in Seq(Tasks), IsInjective(h)
    PROVE  Len(h) = Cardinality(ToSet(h))
  <1> DEFINE n == Len(h)
  <1>1. n \in Nat /\ DOMAIN h = 1..n /\ h \in [1..n -> ToSet(h)]
    BY HeapSeq DEF ToSet
  <1> HIDE DEF n
  <1>2. h \in Bijection(1..n, ToSet(h))
    BY <1>1 DEF Bijection, Injection, Surjection, ToSet
  <1>3. IsFiniteSet(1..n) /\ Cardinality(1..n) = n
    BY <1>1, FS_Interval
  <1>4. ExistsBijection(1..n, ToSet(h))
    BY <1>2 DEF ExistsBijection
  <1> QED
    BY <1>3, <1>4, FS_Bijection DEF n

\* So whenever scheduleReadyTasks pops, the heap holds the queued tasks once
\* each, in heap order, although updateDynamicPriorities has changed all their
\* priorities in place since they were pushed.
THEOREM HeapIsOrdered == AgingSpec => []HeapOrdered
  <1>1. QueueInv => HeapOrdered
    <2> SUFFICES ASSUME QueueInv PROVE HeapOrdered
      OBVIOUS
    <2>1. Len(heap) = Cardinality(pq) /\ ToSet(heap) = pq
      BY HeapSize DEF QueueInv
    <2>2. ASSUME NEW i \in 2..Len(heap) PROVE ~Less(priority, heap, i, i \div 2)
      <3>1. i \in Nat /\ i > 1 /\ i <= Len(heap) /\ Len(heap) \in Nat
            /\ DOMAIN heap = 1..Len(heap)
        BY HeapSeq DEF QueueInv
      <3>2. i \div 2 \in Nat /\ i \div 2 > 0 /\ i \div 2 < i
        BY <3>1, HalfFacts
      <3>3. i \in DOMAIN heap /\ i \div 2 \in DOMAIN heap
        BY <3>1, <3>2
      <3>4. priority[heap[i]] <= priority[heap[i \div 2]]
        <4>1. Heaped(priority, heap, 1) /\ i \div 2 >= 1
          BY <3>2 DEF QueueInv
        <4> QED
          BY <4>1 DEF Heaped
      <3>5. priority[heap[i]] \in Nat /\ priority[heap[i \div 2]] \in Nat
        BY <3>3 DEF QueueInv
      <3> QED
        BY <3>4, <3>5 DEF Less
    <2> QED
      BY <2>1, <2>2 DEF HeapOrdered
  <1> QED
    BY <1>1, QueueInvariant, PTL

\* No task comes before the first of a heap.
LEMMA RootIsFirst ==
    ASSUME NEW p \in [Tasks -> Nat], NEW h \in Seq(Tasks), Heaped(p, h, 1)
    PROVE  \A k \in DOMAIN h : p[h[k]] <= p[h[1]]
  <1> DEFINE Bad == {k \in DOMAIN h : ~(p[h[k]] <= p[h[1]])}
  <1>1. DOMAIN h = 1..Len(h) /\ Len(h) \in Nat
    BY HeapSeq
  <1> SUFFICES ASSUME Bad # {} PROVE FALSE
    OBVIOUS
  <1>2. PICK k \in Bad : \A j \in Bad : ~(j < k)
    <2>1. Bad \subseteq Nat
      BY <1>1
    <2> HIDE DEF Bad
    <2> QED
      BY <2>1, SmallestNat
  <1> DEFINE m == k \div 2
  <1>3. k \in DOMAIN h /\ k \in Nat /\ k # 0 /\ k # 1
    BY <1>1
  <1>4. k > 1 /\ k <= Len(h) /\ m \in Nat /\ m > 0 /\ m < k
    BY <1>1, <1>3, HalfFacts
  <1>5. m \in DOMAIN h /\ 1 \in DOMAIN h
    BY <1>1, <1>4
  <1>6. p[h[k]] <= p[h[m]]
    BY <1>1, <1>3, <1>4 DEF Heaped
  <1>7. m \notin Bad
    <2> HIDE DEF Bad, m
    <2> QED
      BY <1>2, <1>3, <1>4
  <1>8. p[h[m]] <= p[h[1]]
    BY <1>5, <1>7
  <1>9. p[h[k]] \in Nat /\ p[h[m]] \in Nat /\ p[h[1]] \in Nat
    BY <1>3, <1>5
  <1> QED
    BY <1>6, <1>8, <1>9

\* Only a dispatch takes a task from the queue: the first of the heap.
LEMMA OnlyDispatchRemoves ==
    ASSUME CoreInv, [AgingNext]_agingVars, NEW u \in pq, u \notin pq'
    PROVE  AgingDispatch /\ u = Head(heap)
  <1>1. CASE AgingRegister
    BY <1>1, RegisterStates DEF AgingRegister
  <1>2. CASE AgingComplete
    BY <1>2, CompleteTaskStates DEF AgingComplete
  <1>3. CASE AgingOther
    BY <1>3 DEF AgingOther, RejectArrivedDAG, MarkWorkerIdle
  <1>4. CASE AgingDispatch
    BY <1>4 DEF AgingDispatch, DispatchTask
  <1>5. CASE OtherStep
    BY <1>5, OtherStates
  <1>6. CASE Tick \/ UNCHANGED agingVars
    BY <1>6 DEF Tick, agingVars, vars
  <1> QED
    BY <1>1, <1>2, <1>3, <1>4, <1>5, <1>6
    DEF AgingNext, AgingReactorStep, AgingOthersStep, OtherStep

\* Priorities of one time differ as the standings do, which no longer change.
LEMMA OvertakingStep ==
    ASSUME Qualified = Tasks, CoreInv, QueueInv, [AgingNext]_agingVars,
           NEW t \in pq, NEW u \in pq, u \notin pq'
    PROVE  Standing(u) >= Standing(t)
  <1>1. u = Head(heap)
    BY OnlyDispatchRemoves
  <1>2. priority[t] <= priority[u]
    <2>1. PICK k \in DOMAIN heap : t = heap[k]
      BY DEF QueueInv, ToSet
    <2>2. heap # <<>>
      BY <2>1
    <2>3. u = heap[1]
      BY <1>1, <2>2 DEF QueueInv
    <2> QED
      BY <2>1, <2>3, RootIsFirst DEF QueueInv
  <1>3. PICK a \in Nat : AgedAt(a)
    BY DEF QueueInv
  <1>4. ASSUME NEW s \in pq
        PROVE  /\ priority[s] = Standing(s) + a * AgingFactor
               /\ Standing(s) \in Int
    <2>1. s \in Tasks /\ taskState[s] = "READY"
      BY DEF CoreInv, QueueIsReady
    <2>2. DagOf[s] \in registered /\ DagOf[s] \in Dags
      BY <2>1, SetsAssumption DEF CoreInv, StatesKnown
    <2>3. VolTerm(s, registered) = VolPerSubtask[DagOf[s]]
      BY <2>1, <2>2 DEF VolTerm, extractDAGID
    <2>4. /\ priority[s] = Rank[s] + (a - readyAt[s]) * AgingFactor
                             + VolPerSubtask[DagOf[s]]
          /\ readyAt[s] \in Nat /\ Rank[s] \in Nat
          /\ VolPerSubtask[DagOf[s]] \in Nat /\ AgingFactor \in Nat
      BY <1>3, <2>1, <2>2, <2>3, AgingAssumption DEF AgedAt, PriorityAfter, QueueInv
    <2>5. \A r, f \in Nat : (a - r) * f = a * f - f * r
      OBVIOUS
    <2>6. /\ (a - readyAt[s]) * AgingFactor = a * AgingFactor - AgingFactor * readyAt[s]
          /\ a * AgingFactor \in Int /\ AgingFactor * readyAt[s] \in Int
      BY <2>4, <2>5
    <2> QED
      BY <2>4, <2>6 DEF Standing
  <1>5. a * AgingFactor \in Int
    BY AgingAssumption
  <1>6. Standing(t) + a * AgingFactor <= Standing(u) + a * AgingFactor
    BY <1>2, <1>4
  <1> QED
    BY <1>4, <1>5, <1>6

\* Ageing bounds overtaking ("to prevent starvation", updateDynamicPriorities):
\* where ids have the form "dag_id:task_id", so that the volume of a task's DAG
\* is found, a task that stays queued is passed over only for one whose rank
\* and volume exceed its own by what it has gained in waiting longer.
THEOREM BoundedOvertaking ==
    ASSUME Qualified = Tasks
    PROVE  AgingSpec => OvertakingIsBounded
  <1>1. CoreInv /\ QueueInv /\ [AgingNext]_agingVars
          => [\A t, u \in pq : t \in pq' /\ u \notin pq'
                                 => Standing(u) >= Standing(t)]_agingVars
    BY OvertakingStep
  <1> QED
    BY <1>1, QueueKeepsCore, QueueInvariant, PTL DEF AgingSpec, OvertakingIsBounded
=============================================================================
