----------------------------- MODULE ParserProofs -----------------------------
(***************************************************************************)
(* Parse accepts exactly the acyclic graphs of well-formed tasks, and      *)
(* gives the tasks of an accepted graph one count for every edge that      *)
(* leads to them, for every input and every order of the map passes.       *)
(***************************************************************************)
EXTENDS Ranks, FiniteSetTheorems, WellFoundedInduction, TLAPS

Successor == [to : Names, size : Int]
RawTask == [id : Names, comp : Int, succs : Seq(Successor)]

WellFormed(t) ==
    /\ t.id # NoId /\ t.comp > 0
    /\ \A i \in DOMAIN t.succs : t.succs[i].to # NoId /\ t.succs[i].size >= 0

\* The nodes are the raw tasks that have been read.
ReadSoFar ==
    /\ raw \in RawDags
    /\ next \in 1..Len(raw.tasks) + 1
    /\ Ids = {raw.tasks[i].id : i \in 1..next - 1}
    /\ \A i \in 1..next - 1 :
         /\ WellFormed(raw.tasks[i])
         /\ nodes[raw.tasks[i].id] = [comp |-> raw.tasks[i].comp,
                                      succs |-> raw.tasks[i].succs]
    /\ \A i, j \in 1..next - 1 : raw.tasks[i].id = raw.tasks[j].id => i = j
    /\ pc = "read" => stack = <<>>
    /\ pc \notin {"read", "rejected"} =>
         next = Len(raw.tasks) + 1 /\ ~NoHeader /\ ~DanglingEdge

Black == {id \in Ids : colour[id] = "black"}

SearchType ==
    /\ colour \in [Ids -> {"white", "grey", "black"}]
    /\ stack \in Seq([task : Ids, next : Nat \ {0}])

\* The calls of hasCycle under way are a path of grey tasks.
StackIsGreyPath ==
    /\ \A id \in Ids :
         colour[id] = "grey" <=> \E k \in DOMAIN stack : stack[k].task = id
    /\ \A k, l \in DOMAIN stack : stack[k].task = stack[l].task => k = l
    /\ \A k \in DOMAIN stack : k + 1 \in DOMAIN stack =>
         /\ stack[k].next - 1 \in DOMAIN Edges(stack[k].task)
         /\ Edges(stack[k].task)[stack[k].next - 1].to = stack[k + 1].task

\* What a call has looked at is black, but for the call that it is in.
SeenIsBlack ==
    \A k \in DOMAIN stack : \A i \in DOMAIN Edges(stack[k].task) :
        /\ i < stack[k].next
        /\ k + 1 \in DOMAIN stack => i # stack[k].next - 1
        => Edges(stack[k].task)[i].to \in Black

\* Nothing leads out of the black tasks, which form no cycle.
BlackIsClosed ==
    \A id \in Black : \A i \in DOMAIN Edges(id) : Edges(id)[i].to \in Black

SinkIn(S) == \E n \in S : \A i \in DOMAIN Edges(n) : Edges(n)[i].to \notin S

BlackIsAcyclic == \A S \in SUBSET Black : S # {} => SinkIn(S)

Search ==
    pc = "colour" =>
        SearchType /\ StackIsGreyPath /\ SeenIsBlack /\ BlackIsClosed
        /\ BlackIsAcyclic

Verdict ==
    /\ pc = "rejected" => ~IsDagInput
    /\ pc \notin {"read", "colour", "rejected"} => IsDagInput

PredIndices(s, p) == {i \in DOMAIN preds[s] : preds[s][i] = p}

\* The edges of the tasks in linked have been counted.
Counted(linked) ==
    /\ preds \in [Ids -> Seq(Ids)]
    /\ \A s \in Ids :
         /\ rem[s] = Len(preds[s])
         /\ \A p \in Ids : Cardinality(PredIndices(s, p))
                             = IF p \in linked THEN Multiplicity(p, s) ELSE 0

Linking ==
    /\ pc = "link" => unlinked \subseteq Ids /\ Counted(Ids \ unlinked)
    /\ pc \notin {"read", "colour", "rejected", "link"} => Counted(Ids)

ParserInv == ReadSoFar /\ Search /\ Verdict /\ Linking

-----------------------------------------------------------------------------
\* Lemmas about the input and the graph read from it

LEMMA RawTyped ==
  ASSUME NEW r \in RawDags
  PROVE  /\ r.tasks \in Seq(RawTask)
         /\ Len(r.tasks) \in Nat /\ DOMAIN r.tasks = 1..Len(r.tasks)
         /\ \A i \in 1..Len(r.tasks) :
              /\ r.tasks[i].id \in Names /\ r.tasks[i].comp \in Int
              /\ r.tasks[i].succs \in Seq(Successor)
              /\ \A j \in DOMAIN r.tasks[i].succs :
                   /\ r.tasks[i].succs[j].to \in Names
                   /\ r.tasks[i].succs[j].size \in Int
  <1>1. r.tasks \in Seq(RawTask)
    BY RawAssumption DEF RawTask, Successor
  <1>2. \A i \in 1..Len(r.tasks) : r.tasks[i] \in RawTask
    BY <1>1
  <1>3. ASSUME NEW t \in RawTask
        PROVE  /\ t.id \in Names /\ t.comp \in Int
               /\ t.succs \in Seq(Successor)
               /\ \A j \in DOMAIN t.succs :
                    t.succs[j].to \in Names /\ t.succs[j].size \in Int
    <2>1. t.id \in Names /\ t.comp \in Int /\ t.succs \in Seq(Successor)
      BY DEF RawTask
    <2>2. \A j \in DOMAIN t.succs : t.succs[j] \in Successor
      BY <2>1
    <2> QED
      BY <2>1, <2>2 DEF Successor
  <1> QED
    BY <1>1, <1>2, <1>3

\* A node is one of the raw tasks.
LEMMA NodeOf ==
  ASSUME ReadSoFar, NEW id \in Ids
  PROVE  /\ id \in Names /\ Comp(id) \in Nat \ {0}
         /\ Edges(id) \in Seq(Successor)
         /\ Len(Edges(id)) \in Nat /\ DOMAIN Edges(id) = 1..Len(Edges(id))
         /\ \A j \in DOMAIN Edges(id) : /\ Edges(id)[j].to \in Names
                                        /\ Edges(id)[j].size \in Nat
  <1>1. PICK i \in 1..next - 1 : raw.tasks[i].id = id
    BY DEF ReadSoFar
  <1>2. /\ i \in 1..Len(raw.tasks) /\ raw \in RawDags
        /\ WellFormed(raw.tasks[i])
        /\ nodes[id] = [comp |-> raw.tasks[i].comp,
                        succs |-> raw.tasks[i].succs]
    <2>1. next \in Int /\ next - 1 <= Len(raw.tasks)
      BY RawTyped DEF ReadSoFar
    <2> QED
      BY <1>1, <2>1 DEF ReadSoFar
  <1>3. nodes[id].comp = raw.tasks[i].comp /\ Edges(id) = raw.tasks[i].succs
    BY <1>2 DEF Edges
  <1>4. /\ raw.tasks[i].id \in Names /\ raw.tasks[i].comp \in Nat \ {0}
        /\ raw.tasks[i].succs \in Seq(Successor)
        /\ \A j \in DOMAIN raw.tasks[i].succs :
             /\ raw.tasks[i].succs[j].to \in Names
             /\ raw.tasks[i].succs[j].size \in Nat
    <2>1. /\ raw.tasks[i].id \in Names /\ raw.tasks[i].comp \in Int
          /\ raw.tasks[i].succs \in Seq(Successor)
          /\ \A j \in DOMAIN raw.tasks[i].succs :
               /\ raw.tasks[i].succs[j].to \in Names
               /\ raw.tasks[i].succs[j].size \in Int
      BY <1>2, RawTyped
    <2>2. /\ raw.tasks[i].comp > 0
          /\ \A j \in DOMAIN raw.tasks[i].succs : raw.tasks[i].succs[j].size >= 0
      BY <1>2 DEF WellFormed
    <2> QED
      BY <2>1, <2>2
  <1>5. Comp(id) = raw.tasks[i].comp
    BY <1>3 DEF Comp
  <1>6. ASSUME NEW q \in Seq(Successor)
        PROVE  Len(q) \in Nat /\ DOMAIN q = 1..Len(q)
    OBVIOUS
  <1> QED
    BY <1>1, <1>3, <1>4, <1>5, <1>6

LEMMA DistinctIds ==
  ASSUME raw \in RawDags
  PROVE  /\ Cardinality(RawIds) = Len(raw.tasks) <=>
              \A i, j \in 1..Len(raw.tasks) :
                 raw.tasks[i].id = raw.tasks[j].id => i = j
         /\ IsFiniteSet(RawIds)
  <1> DEFINE n == Len(raw.tasks)
             f == [i \in 1..n |-> raw.tasks[i].id]
  <1>1. n \in Nat /\ RawIds = {raw.tasks[i].id : i \in 1..n}
    BY RawTyped DEF RawIds
  <1>2. f \in Surjection(1..n, RawIds)
    BY <1>1 DEF Surjection
  <1>3. IsFiniteSet(1..n) /\ Cardinality(1..n) = n
    <2> HIDE DEF n
    <2> QED
      BY <1>1, FS_Interval
  <1>4. IsFiniteSet(RawIds) /\ (Cardinality(RawIds) = n <=> f \in Injection(1..n, RawIds))
    <2> HIDE DEF n, f
    <2> QED
      BY <1>2, <1>3, FS_Surjection
  <1>5. f \in Injection(1..n, RawIds) <=>
          \A i, j \in 1..n : raw.tasks[i].id = raw.tasks[j].id => i = j
    <2>1. f \in [1..n -> RawIds] /\ \A i \in 1..n : f[i] = raw.tasks[i].id
      BY <1>1
    <2> HIDE DEF n, f
    <2> QED
      BY <2>1 DEF Injection, IsInjective
  <1> QED
    BY <1>4, <1>5

\* Once all tasks are read, and no edge dangles, the graph is the input's.
LEMMA GraphIsRead ==
  ASSUME ReadSoFar, next = Len(raw.tasks) + 1
  PROVE  /\ RawIds = Ids
         /\ \A n, m : <<n, m>> \in RawEdges <=>
              n \in Ids /\ \E i \in DOMAIN Edges(n) : Edges(n)[i].to = m
  <1>1. /\ raw \in RawDags /\ Len(raw.tasks) \in Nat
        /\ DOMAIN raw.tasks = 1..Len(raw.tasks)
        /\ next - 1 = Len(raw.tasks)
    BY RawTyped DEF ReadSoFar
  <1>2. RawIds = Ids
    BY <1>1 DEF RawIds, ReadSoFar
  <1>3. \A i \in DOMAIN raw.tasks : Edges(raw.tasks[i].id) = raw.tasks[i].succs
    <2> SUFFICES ASSUME NEW i \in DOMAIN raw.tasks
                 PROVE  Edges(raw.tasks[i].id) = raw.tasks[i].succs
      OBVIOUS
    <2>1. nodes[raw.tasks[i].id] = [comp |-> raw.tasks[i].comp,
                                    succs |-> raw.tasks[i].succs]
      BY <1>1 DEF ReadSoFar
    <2> QED
      BY <2>1 DEF Edges
  <1>4. ASSUME NEW n, NEW m
        PROVE  <<n, m>> \in RawEdges <=>
                 \E i \in DOMAIN raw.tasks : /\ n = raw.tasks[i].id
                   /\ \E e \in ToSet(raw.tasks[i].succs) : m = e.to
    BY DEF RawEdges
  <1>5. ASSUME NEW i \in DOMAIN raw.tasks, NEW m
        PROVE  (\E e \in ToSet(raw.tasks[i].succs) : m = e.to) <=>
               \E j \in DOMAIN raw.tasks[i].succs : raw.tasks[i].succs[j].to = m
    BY DEF ToSet
  <1>6. ASSUME NEW n, NEW m
        PROVE  <<n, m>> \in RawEdges <=>
                 n \in Ids /\ \E i \in DOMAIN Edges(n) : Edges(n)[i].to = m
    <2>1. ASSUME <<n, m>> \in RawEdges
          PROVE  n \in Ids /\ \E i \in DOMAIN Edges(n) : Edges(n)[i].to = m
      <3>1. PICK i \in DOMAIN raw.tasks :
               n = raw.tasks[i].id /\ \E e \in ToSet(raw.tasks[i].succs) : m = e.to
        BY <1>4, <2>1
      <3>2. PICK j \in DOMAIN raw.tasks[i].succs : raw.tasks[i].succs[j].to = m
        BY <1>5, <3>1
      <3>3. Edges(n) = raw.tasks[i].succs
        BY <1>3, <3>1
      <3>4. n \in Ids
        BY <1>2, <3>1 DEF RawIds
      <3> QED
        BY <3>2, <3>3, <3>4
    <2>2. ASSUME n \in Ids, NEW i \in DOMAIN Edges(n), Edges(n)[i].to = m
          PROVE  <<n, m>> \in RawEdges
      <3>1. PICK k \in DOMAIN raw.tasks : n = raw.tasks[k].id
        <4>1. n \in RawIds
          BY <1>2, <2>2
        <4> QED
          BY <4>1 DEF RawIds
      <3>2. Edges(n) = raw.tasks[k].succs
        BY <1>3, <3>1
      <3>3. \E e \in ToSet(raw.tasks[k].succs) : m = e.to
        <4>1. \E j \in DOMAIN raw.tasks[k].succs : raw.tasks[k].succs[j].to = m
          BY <2>2, <3>2
        <4>2. k \in DOMAIN raw.tasks
          BY <3>1
        <4> QED
          BY ONLY <1>5, <4>1, <4>2
      <3> QED
        BY <1>4, <3>1, <3>3
    <2> QED
      BY <2>1, <2>2
  <1> QED
    BY <1>2, <1>6

\* Being acyclic, said of the nodes.
LEMMA AcyclicIsSinks ==
  ASSUME ReadSoFar, next = Len(raw.tasks) + 1
  PROVE  Acyclic(RawIds, RawEdges) <=>
           \A S \in SUBSET Ids : S # {} => SinkIn(S)
  <1>1. ASSUME NEW S \in SUBSET Ids, NEW n \in S
        PROVE  (\A m \in S : <<n, m>> \notin RawEdges) <=>
               \A i \in DOMAIN Edges(n) : Edges(n)[i].to \notin S
    <2>1. n \in Ids
      OBVIOUS
    <2>2. \A m : <<n, m>> \in RawEdges <=>
                    \E i \in DOMAIN Edges(n) : Edges(n)[i].to = m
      BY <2>1, GraphIsRead
    <2> QED
      BY <2>2
  <1>2. ASSUME NEW S \in SUBSET Ids
        PROVE  (\E n \in S : \A m \in S : <<n, m>> \notin RawEdges) <=> SinkIn(S)
    BY <1>1 DEF SinkIn
  <1>3. RawIds = Ids
    BY GraphIsRead
  <1> QED
    BY <1>2, <1>3 DEF Acyclic

\* The input that has been read is acceptable if the graph is.
LEMMA VerdictOnGraph ==
  ASSUME ReadSoFar, next = Len(raw.tasks) + 1, ~NoHeader
  PROVE  IsDagInput <=> /\ ~DanglingEdge
                        /\ \A S \in SUBSET Ids : S # {} => SinkIn(S)
  <1>1. /\ raw \in RawDags /\ Len(raw.tasks) \in Nat
        /\ DOMAIN raw.tasks = 1..Len(raw.tasks)
        /\ next - 1 = Len(raw.tasks)
    BY RawTyped DEF ReadSoFar
  <1>2. \A i \in DOMAIN raw.tasks : WellFormed(raw.tasks[i])
    BY <1>1 DEF ReadSoFar
  <1>3. NoId \notin RawIds
    BY <1>2 DEF WellFormed, RawIds
  <1>4. Cardinality(RawIds) = Len(raw.tasks)
    BY <1>1, DistinctIds DEF ReadSoFar
  <1>5. \A t \in ToSet(raw.tasks) :
           t.comp > 0 /\ \A e \in ToSet(t.succs) : e.size >= 0
    BY <1>2 DEF WellFormed, ToSet
  <1>6. ASSUME ~DanglingEdge PROVE RawEdges \subseteq RawIds \X RawIds
    <2> SUFFICES ASSUME NEW e \in RawEdges PROVE e \in RawIds \X RawIds
      OBVIOUS
    <2>1. PICK n, m : e = <<n, m>>
      BY DEF RawEdges
    <2> QED
      BY <1>6, <2>1, GraphIsRead DEF DanglingEdge
  <1>7. ASSUME RawEdges \subseteq RawIds \X RawIds PROVE ~DanglingEdge
    <2> SUFFICES ASSUME NEW id \in Ids, NEW i \in DOMAIN Edges(id)
                 PROVE  Edges(id)[i].to \in Ids
      BY DEF DanglingEdge
    <2>1. <<id, Edges(id)[i].to>> \in RawIds \X RawIds
      BY <1>7, GraphIsRead
    <2> QED
      BY <2>1, GraphIsRead
  <1> QED
    BY <1>3, <1>4, <1>5, <1>6, <1>7, AcyclicIsSinks DEF IsDagInput, NoHeader

-----------------------------------------------------------------------------
\* What a step does that reads no task

LEMMA InputStays ==
  ASSUME ReadSoFar, UNCHANGED <<raw, next, nodes>>,
         pc' = "read" => stack' = <<>>,
         pc' \notin {"read", "rejected"} =>
           next = Len(raw.tasks) + 1 /\ ~NoHeader /\ ~DanglingEdge
  PROVE  /\ ReadSoFar' /\ Ids' = Ids /\ \A id : Edges(id)' = Edges(id)
         /\ \A p, s : Multiplicity(p, s)' = Multiplicity(p, s)
         /\ IsDagInput' = IsDagInput
  <1>1. /\ Ids' = Ids /\ \A id : Edges(id)' = Edges(id)
        /\ NoHeader' = NoHeader
    BY DEF Ids, Edges, NoHeader
  <1>2. DanglingEdge' = DanglingEdge
    BY DEF DanglingEdge, Ids, Edges
  <1>3. ReadSoFar'
    <2>1. /\ raw' \in RawDags /\ next' \in 1..Len(raw'.tasks) + 1
          /\ Ids' = {raw'.tasks[i].id : i \in 1..next' - 1}
      BY <1>1 DEF ReadSoFar
    <2>2. \A i \in 1..next' - 1 :
             /\ WellFormed(raw'.tasks[i])
             /\ nodes'[raw'.tasks[i].id] = [comp |-> raw'.tasks[i].comp,
                                            succs |-> raw'.tasks[i].succs]
      BY DEF ReadSoFar
    <2>3. \A i, j \in 1..next' - 1 :
             raw'.tasks[i].id = raw'.tasks[j].id => i = j
      BY DEF ReadSoFar
    <2>4. pc' \notin {"read", "rejected"} =>
            next' = Len(raw'.tasks) + 1 /\ ~NoHeader' /\ ~DanglingEdge'
      BY <1>1, <1>2
    <2> QED
      BY <2>1, <2>2, <2>3, <2>4 DEF ReadSoFar
  <1>4. \A p, s : Multiplicity(p, s)' = Multiplicity(p, s)
    BY DEF Multiplicity, Edges
  <1>5. IsDagInput' = IsDagInput
    BY DEF IsDagInput, RawIds, RawEdges
  <1> QED
    BY <1>1, <1>3, <1>4, <1>5

\* The graph stays as it is read.
LEMMA GraphStays ==
  ASSUME ReadSoFar, UNCHANGED <<raw, next, nodes>>,
         pc \notin {"read", "rejected"}, pc' \notin {"read", "rejected"}
  PROVE  /\ ReadSoFar' /\ Ids' = Ids /\ \A id : Edges(id)' = Edges(id)
         /\ \A p, s : Multiplicity(p, s)' = Multiplicity(p, s)
         /\ IsDagInput' = IsDagInput
  <1>1. next = Len(raw.tasks) + 1 /\ ~NoHeader /\ ~DanglingEdge
    BY DEF ReadSoFar
  <1> QED
    BY <1>1, InputStays

-----------------------------------------------------------------------------
\* Reading, and the two ways to reject before the search

LEMMA Rejected ==
  ASSUME ReadSoFar, Reject, ~IsDagInput
  PROVE  ParserInv'
  <1>1. pc' = "rejected" /\ stack' = <<>> /\ UNCHANGED <<raw, next, nodes>>
    BY DEF Reject
  <1>2. ReadSoFar' /\ IsDagInput' = IsDagInput
    BY <1>1, InputStays
  <1>3. Search' /\ Verdict' /\ Linking'
    BY <1>1, <1>2 DEF Search, Verdict, Linking
  <1> QED
    BY <1>2, <1>3 DEF ParserInv

LEMMA ParserStart == Init => ParserInv
  <1> SUFFICES ASSUME Init PROVE ParserInv
    OBVIOUS
  <1>1. ReadSoFar
    <2>1. raw \in RawDags /\ Len(raw.tasks) \in Nat
      BY RawTyped DEF Init
    <2>2. next = 1 /\ pc = "read" /\ Ids = {} /\ stack = <<>>
      BY DEF Init, Ids
    <2>3. 1..next - 1 = {} /\ next \in 1..Len(raw.tasks) + 1
      BY <2>1, <2>2
    <2> QED
      BY <2>1, <2>2, <2>3 DEF ReadSoFar
  <1> QED
    BY <1>1 DEF Init, ParserInv, Search, Verdict, Linking

LEMMA ReadTaskKeeps ==
  ASSUME ParserInv, ReadTask
  PROVE  ParserInv'
  <1> DEFINE t == raw.tasks[next]
  <1>1. /\ pc = "read" /\ pc' = "read" /\ ~NoHeader
        /\ next <= Len(raw.tasks) /\ next' = next + 1
        /\ ~BadTask(t)
        /\ nodes' = [id \in Ids \cup {t.id} |->
                        IF id = t.id THEN [comp |-> t.comp, succs |-> t.succs]
                                     ELSE nodes[id]]
        /\ UNCHANGED <<raw, stack>>
    BY DEF ReadTask
  <1>2. /\ raw \in RawDags /\ Len(raw.tasks) \in Nat
        /\ next \in 1..Len(raw.tasks) /\ next \in Nat
    <2>1. raw \in RawDags /\ next \in 1..Len(raw.tasks) + 1
      BY DEF ParserInv, ReadSoFar
    <2>2. Len(raw.tasks) \in Nat
      BY <2>1, RawTyped
    <2> QED
      BY <1>1, <2>1, <2>2
  <1>3. WellFormed(t) /\ t.id \notin Ids
    <2>1. /\ t.comp \in Int
          /\ \A i \in DOMAIN t.succs : t.succs[i].size \in Int
      BY <1>2, RawTyped
    <2> HIDE DEF t
    <2> QED
      BY <1>1, <2>1 DEF BadTask, WellFormed
  <1>4. Ids' = Ids \cup {t.id}
    BY <1>1 DEF Ids
  <1>5. 1..next' - 1 = (1..next - 1) \cup {next}
    BY <1>1, <1>2
  <1>6. /\ next' \in 1..Len(raw.tasks) + 1
        /\ Ids' = {raw.tasks[i].id : i \in 1..next' - 1}
    <2>1. Ids = {raw.tasks[i].id : i \in 1..next - 1}
      BY DEF ParserInv, ReadSoFar
    <2>2. next' \in 1..Len(raw.tasks) + 1
      BY <1>1, <1>2
    <2> QED
      BY <1>4, <1>5, <2>1, <2>2
  <1>7. \A i \in 1..next - 1 : raw.tasks[i].id \in Ids
    BY DEF ParserInv, ReadSoFar
  <1>8. ASSUME NEW i \in 1..next' - 1
        PROVE  /\ WellFormed(raw.tasks[i])
               /\ nodes'[raw.tasks[i].id] = [comp |-> raw.tasks[i].comp,
                                             succs |-> raw.tasks[i].succs]
    <2>1. CASE i = next
      BY <1>1, <1>3, <2>1
    <2>2. CASE i \in 1..next - 1
      <3>1. raw.tasks[i].id \in Ids /\ raw.tasks[i].id # t.id
        BY <1>3, <1>7, <2>2
      <3>2. nodes'[raw.tasks[i].id] = nodes[raw.tasks[i].id]
        BY <1>1, <3>1
      <3> QED
        BY <2>2, <3>2 DEF ParserInv, ReadSoFar
    <2> QED
      BY <1>5, <2>1, <2>2
  <1>9. \A i, j \in 1..next' - 1 : raw.tasks[i].id = raw.tasks[j].id => i = j
    BY <1>3, <1>5, <1>7 DEF ParserInv, ReadSoFar
  <1>10. ReadSoFar'
    <2>1. raw' \in RawDags /\ next' \in 1..Len(raw'.tasks) + 1
      BY <1>1, <1>2, <1>6
    <2>2. Ids' = {raw'.tasks[i].id : i \in 1..next' - 1}
      BY <1>1, <1>6
    <2>3. \A i \in 1..next' - 1 :
             /\ WellFormed(raw'.tasks[i])
             /\ nodes'[raw'.tasks[i].id] = [comp |-> raw'.tasks[i].comp,
                                            succs |-> raw'.tasks[i].succs]
      BY <1>1, <1>8
    <2>4. \A i, j \in 1..next' - 1 :
             raw'.tasks[i].id = raw'.tasks[j].id => i = j
      BY <1>1, <1>9
    <2>5. pc' = "read" /\ stack' = <<>>
      BY <1>1 DEF ParserInv, ReadSoFar
    <2> QED
      BY <2>1, <2>2, <2>3, <2>4, <2>5 DEF ReadSoFar
  <1>11. Search' /\ Verdict' /\ Linking'
    BY <1>1 DEF Search, Verdict, Linking
  <1> QED
    BY <1>10, <1>11 DEF ParserInv

LEMMA RejectInputKeeps ==
  ASSUME ParserInv, RejectInput
  PROVE  ParserInv'
  <1>1. ReadSoFar /\ Reject
    BY DEF ParserInv, RejectInput
  <1>2. CASE NoHeader
    BY <1>1, <1>2, Rejected DEF IsDagInput, NoHeader
  <1>3. CASE next <= Len(raw.tasks) /\ BadTask(raw.tasks[next])
    <2> DEFINE t == raw.tasks[next]
    <2>1. /\ raw \in RawDags /\ Len(raw.tasks) \in Nat
          /\ DOMAIN raw.tasks = 1..Len(raw.tasks)
          /\ next \in DOMAIN raw.tasks /\ next \in Nat
      BY <1>1, <1>3, RawTyped DEF ReadSoFar
    <2>2. t.id \in RawIds /\ t \in ToSet(raw.tasks)
      BY <2>1 DEF RawIds, ToSet
    <2>3. ASSUME t.id \in Ids PROVE ~IsDagInput
      <3>1. PICK i \in 1..next - 1 : raw.tasks[i].id = t.id
        BY <1>1, <2>3 DEF ReadSoFar
      <3>2. i \in 1..Len(raw.tasks) /\ next \in 1..Len(raw.tasks) /\ i # next
        BY <2>1
      <3> QED
        BY <2>1, <3>1, <3>2, DistinctIds DEF IsDagInput
    <2>4. ASSUME NEW i \in DOMAIN t.succs,
                 t.succs[i].to = NoId \/ t.succs[i].size < 0
          PROVE  ~IsDagInput
      <3>1. t.succs[i] \in ToSet(t.succs)
        BY DEF ToSet
      <3>2. <<t.id, t.succs[i].to>> \in RawEdges
        BY <2>1, <3>1 DEF RawEdges
      <3>3. ASSUME IsDagInput PROVE t.succs[i].to # NoId
        BY <3>2, <3>3 DEF IsDagInput
      <3>4. t.succs[i].size \in Int
        BY <2>1, RawTyped
      <3>5. ASSUME IsDagInput PROVE ~(t.succs[i].size < 0)
        BY <2>2, <3>1, <3>4, <3>5 DEF IsDagInput
      <3> QED
        BY <2>4, <3>3, <3>5
    <2>5. t.comp \in Int
      BY <2>1, RawTyped
    <2>6. ASSUME t.comp <= 0 PROVE ~IsDagInput
      BY <2>2, <2>5, <2>6 DEF IsDagInput
    <2>7. ASSUME t.id = NoId PROVE ~IsDagInput
      BY <2>2, <2>7 DEF IsDagInput
    <2>8. ~IsDagInput
      BY <1>3, <2>3, <2>4, <2>6, <2>7 DEF BadTask
    <2> QED
      BY <1>1, <2>8, Rejected
  <1> QED
    BY <1>2, <1>3 DEF RejectInput

LEMMA RejectDanglingKeeps ==
  ASSUME ParserInv, RejectDangling
  PROVE  ParserInv'
  <1>1. ReadSoFar /\ Reject /\ AllRead /\ DanglingEdge
    BY DEF ParserInv, RejectDangling
  <1>2. next = Len(raw.tasks) + 1 /\ ~NoHeader
    BY <1>1, RawTyped DEF AllRead, ReadSoFar
  <1> QED
    BY <1>1, <1>2, VerdictOnGraph, Rejected

LEMMA CheckSuccessorsKeeps ==
  ASSUME ParserInv, CheckSuccessors
  PROVE  ParserInv'
  <1>1. /\ ReadSoFar /\ AllRead /\ ~DanglingEdge
        /\ pc' = "colour" /\ colour' = [id \in Ids |-> "white"]
        /\ UNCHANGED <<raw, next, nodes, stack>> /\ stack = <<>>
    BY DEF ParserInv, CheckSuccessors, AllRead, ReadSoFar
  <1>2. next = Len(raw.tasks) + 1 /\ ~NoHeader
    BY <1>1, RawTyped DEF AllRead, ReadSoFar
  <1>3. ReadSoFar'
    BY <1>1, <1>2, InputStays
  <1>4. Black' = {}
    BY <1>1 DEF Black, Ids
  <1>5. Search'
    BY <1>1, <1>4 DEF Search, SearchType, StackIsGreyPath, SeenIsBlack,
       BlackIsClosed, BlackIsAcyclic, Ids
  <1>6. Verdict' /\ Linking'
    BY <1>1 DEF Verdict, Linking
  <1> QED
    BY <1>3, <1>5, <1>6 DEF ParserInv

-----------------------------------------------------------------------------
\* The search for a cycle

Frame == [task : Ids, next : Nat \ {0}]

\* What Top, Return and Advance make of the stack.
LEMMA StackOps ==
  ASSUME stack \in Seq(Frame), stack # <<>>
  PROVE  /\ Len(stack) \in Nat \ {0} /\ DOMAIN stack = 1..Len(stack)
         /\ Top = stack[Len(stack)]
         /\ Top.task \in Ids /\ Top.next \in Nat \ {0}
         /\ Return \in Seq(Frame) /\ Len(Return) = Len(stack) - 1
         /\ DOMAIN Return = 1..Len(stack) - 1
         /\ \A k \in 1..Len(stack) - 1 : Return[k] = stack[k]
         /\ Advance \in Seq(Frame) /\ Len(Advance) = Len(stack)
         /\ DOMAIN Advance = 1..Len(stack)
         /\ \A k \in 1..Len(stack) - 1 : Advance[k] = stack[k]
         /\ Advance[Len(stack)].task = Top.task
         /\ Advance[Len(stack)].next = Top.next + 1
  <1> DEFINE n == Len(stack)
             top == [Top EXCEPT !.next = @ + 1]
  <1>1. n \in Nat \ {0} /\ DOMAIN stack = 1..n /\ Top = stack[n]
    BY DEF Top, Last
  <1>2. Top \in Frame /\ Top.task \in Ids /\ Top.next \in Nat \ {0}
    <2>1. Top \in Frame
      BY <1>1
    <2> QED
      BY <2>1 DEF Frame
  <1>3. top \in Frame /\ top.task = Top.task /\ top.next = Top.next + 1
    <2>1. Top.next + 1 \in Nat \ {0}
      BY <1>2
    <2> QED
      BY <1>2, <2>1 DEF Frame
  <1>4. /\ Front(stack) \in Seq(Frame) /\ Len(Front(stack)) = n - 1
        /\ \A k \in 1..n - 1 : Front(stack)[k] = stack[k]
    BY <1>1 DEF Front
  <1>5. Return = Front(stack) /\ Advance = Append(Front(stack), top)
    BY DEF Return, Advance
  <1> HIDE DEF top, n
  <1>6. /\ DOMAIN Front(stack) = 1..n - 1
        /\ Append(Front(stack), top) \in Seq(Frame)
        /\ Len(Append(Front(stack), top)) = n
        /\ DOMAIN Append(Front(stack), top) = 1..n
        /\ \A k \in 1..n - 1 : Append(Front(stack), top)[k] = Front(stack)[k]
        /\ Append(Front(stack), top)[n] = top
    BY <1>1, <1>3, <1>4
  <1> QED
    BY <1>1, <1>2, <1>3, <1>4, <1>5, <1>6 DEF n

\* The search changes colours and stack only.
LEMMA SearchLeaves ==
  ASSUME ParserInv, pc = "colour", UNCHANGED <<raw, pc, next, nodes>>
  PROVE  /\ ReadSoFar' /\ Verdict' /\ Linking'
         /\ Ids' = Ids /\ \A id : Edges(id)' = Edges(id)
  <1>1. ReadSoFar' /\ Ids' = Ids /\ \A id : Edges(id)' = Edges(id)
    BY GraphStays DEF ParserInv
  <1>2. Verdict' /\ Linking'
    BY DEF Verdict, Linking
  <1> QED
    BY <1>1, <1>2

LEMMA TargetKnown ==
  ASSUME ParserInv, pc = "colour", stack # <<>>, HasNext(Top)
  PROVE  /\ Top.next \in DOMAIN Edges(Top.task)
         /\ Target \in Ids /\ Target = Edges(Top.task)[Top.next].to
  <1>1. /\ ReadSoFar /\ ~DanglingEdge /\ stack \in Seq(Frame)
    BY DEF ParserInv, ReadSoFar, Search, SearchType, Frame
  <1>2. Top.task \in Ids /\ Top.next \in Nat \ {0}
    BY <1>1, StackOps
  <1>3. Top.next \in DOMAIN Edges(Top.task)
    BY <1>1, <1>2, NodeOf DEF HasNext
  <1> QED
    BY <1>1, <1>2, <1>3 DEF Target, DanglingEdge

LEMMA CallKeeps ==
  ASSUME ParserInv, NEW id \in Ids, CallHasCycle(id)
  PROVE  ParserInv'
  <1>1. /\ pc = "colour" /\ stack = <<>> /\ colour[id] = "white"
        /\ colour' = [colour EXCEPT ![id] = "grey"]
        /\ stack' = <<Call(id)>>
        /\ UNCHANGED <<raw, pc, next, nodes>>
    BY DEF CallHasCycle
  <1>2. /\ SearchType /\ StackIsGreyPath /\ BlackIsClosed /\ BlackIsAcyclic
        /\ ReadSoFar
    BY <1>1 DEF ParserInv, Search
  <1>3. /\ ReadSoFar' /\ Verdict' /\ Linking'
        /\ Ids' = Ids /\ \A x : Edges(x)' = Edges(x)
    BY <1>1, SearchLeaves
  <1>4. /\ Call(id).task = id /\ Call(id).next = 1 /\ Call(id) \in Frame
        /\ DOMAIN stack' = {1} /\ stack'[1] = Call(id)
        /\ stack' \in Seq(Frame)
    BY <1>1 DEF Call, Frame
  <1>5. SearchType'
    BY <1>1, <1>2, <1>3, <1>4 DEF SearchType, Frame
  <1>6. \A x \in Ids : colour[x] # "grey"
    BY <1>1, <1>2 DEF StackIsGreyPath
  <1>7. \A x \in Ids : colour'[x] = IF x = id THEN "grey" ELSE colour[x]
    BY <1>1, <1>2 DEF SearchType
  <1>8. StackIsGreyPath'
    BY <1>3, <1>4, <1>6, <1>7 DEF StackIsGreyPath
  <1>9. Black' = Black
    BY <1>1, <1>3, <1>7 DEF Black
  <1>10. SeenIsBlack'
    <2>1. \A i \in DOMAIN Edges(id) : ~(i < 1)
      BY <1>2, NodeOf
    <2> QED
      BY <1>3, <1>4, <2>1 DEF SeenIsBlack
  <1>11. BlackIsClosed' /\ BlackIsAcyclic'
    BY <1>2, <1>3, <1>9 DEF BlackIsClosed, BlackIsAcyclic, SinkIn
  <1> QED
    BY <1>3, <1>5, <1>8, <1>10, <1>11 DEF ParserInv, Search

LEMMA VisitKeeps ==
  ASSUME ParserInv, VisitSuccessor
  PROVE  ParserInv'
  <1> DEFINE n == Len(stack)
  <1>1. /\ pc = "colour" /\ stack # <<>> /\ HasNext(Top)
        /\ colour[Target] # "grey"
        /\ UNCHANGED <<raw, pc, next, nodes>>
    BY DEF VisitSuccessor, ClosesCycle
  <1>2. /\ SearchType /\ StackIsGreyPath /\ SeenIsBlack /\ BlackIsClosed
        /\ BlackIsAcyclic /\ ReadSoFar /\ stack \in Seq(Frame)
    BY <1>1 DEF ParserInv, Search, SearchType, Frame
  <1>3. /\ ReadSoFar' /\ Verdict' /\ Linking'
        /\ Ids' = Ids /\ \A x : Edges(x)' = Edges(x)
    BY <1>1, SearchLeaves
  <1>4. /\ n \in Nat \ {0} /\ DOMAIN stack = 1..n /\ Top = stack[n]
        /\ Top.task \in Ids /\ Top.next \in Nat \ {0}
        /\ Advance \in Seq(Frame) /\ Len(Advance) = n
        /\ DOMAIN Advance = 1..n
        /\ \A k \in 1..n - 1 : Advance[k] = stack[k]
        /\ Advance[n].task = Top.task /\ Advance[n].next = Top.next + 1
    BY <1>1, <1>2, StackOps
  <1>5. /\ Top.next \in DOMAIN Edges(Top.task)
        /\ Target \in Ids /\ Target = Edges(Top.task)[Top.next].to
    BY <1>1, TargetKnown
  <1>6. /\ \A k \in 1..n : Advance[k].task = stack[k].task
        /\ \A k \in 1..n : k < n => Advance[k] = stack[k]
    BY <1>4
  <1>len. \A id \in Ids : DOMAIN Edges(id) \subseteq Nat
    BY <1>2, NodeOf
  <1>path. DOMAIN stack = 1..n /\ StackIsGreyPath
    BY <1>2, <1>4
  <1> HIDE DEF n
  \* The successor is black: the call goes on with the next one.
  <1>7. CASE colour[Target] # "white"
    <2>1. stack' = Advance /\ colour' = colour
      BY <1>1, <1>7 DEF VisitSuccessor
    <2>2. Target \in Black
      BY <1>1, <1>2, <1>5, <1>7 DEF SearchType, Black
    <2>3. Black' = Black
      BY <1>3, <2>1 DEF Black
    <2>4. SearchType'
      BY <1>2, <1>3, <1>4, <2>1 DEF SearchType, Frame
    <2>5. StackIsGreyPath'
      <3>1. \A id \in Ids : colour[id] = "grey" <=>
                              \E k \in 1..n : Advance[k].task = id
        <4>1. \A id \in Ids : colour[id] = "grey" <=>
                               \E k \in 1..n : stack[k].task = id
          BY <1>path DEF StackIsGreyPath
        <4> QED
          BY <1>6, <4>1
      <3>2. \A k, l \in 1..n : Advance[k].task = Advance[l].task => k = l
        BY <1>path, <1>6 DEF StackIsGreyPath
      <3>3. ASSUME NEW k \in 1..n, k + 1 \in 1..n
            PROVE  /\ Advance[k].next - 1 \in DOMAIN Edges(Advance[k].task)
                   /\ Edges(Advance[k].task)[Advance[k].next - 1].to
                        = Advance[k + 1].task
        <4>1. Advance[k] = stack[k] /\ Advance[k + 1].task = stack[k + 1].task
          BY <1>4, <1>6, <3>3
        <4> QED
          BY <1>2, <1>4, <3>3, <4>1 DEF StackIsGreyPath
      <3> QED
        <4>1. DOMAIN stack' = 1..n /\ \A k \in 1..n : stack'[k] = Advance[k]
          BY <1>4, <2>1
        <4>2. \A id \in Ids' : colour'[id] = "grey" <=>
                                 \E k \in DOMAIN stack' : stack'[k].task = id
          BY <1>3, <2>1, <3>1, <4>1
        <4>3. \A k, l \in DOMAIN stack' : stack'[k].task = stack'[l].task => k = l
          BY <3>2, <4>1
        <4> QED
          BY <1>3, <3>3, <4>1, <4>2, <4>3 DEF StackIsGreyPath
    <2>6. SeenIsBlack'
      <3> SUFFICES ASSUME NEW k \in 1..n,
                          NEW i \in DOMAIN Edges(Advance[k].task),
                          i < Advance[k].next,
                          k + 1 \in 1..n => i # Advance[k].next - 1
                   PROVE  Edges(Advance[k].task)[i].to \in Black
        BY <1>3, <1>4, <2>1, <2>3 DEF SeenIsBlack
      <3>1. CASE k < n
        <4>1. Advance[k] = stack[k] /\ k + 1 \in 1..n
          BY <1>4, <1>6, <3>1
        <4> QED
          BY <1>2, <1>4, <4>1 DEF SeenIsBlack
      <3>2. CASE k = n
        <4>1. Advance[k].task = Top.task /\ i < Top.next + 1 /\ i \in Nat
          BY <1>4, <1>len, <3>2
        <4>2. CASE i = Top.next
          BY <1>5, <2>2, <4>1, <4>2
        <4>3. CASE i < Top.next
          BY <1>2, <1>4, <3>2, <4>1, <4>3 DEF SeenIsBlack
        <4> QED
          BY <1>4, <4>1, <4>2, <4>3
      <3> QED
        BY <1>4, <3>1, <3>2
    <2>7. BlackIsClosed' /\ BlackIsAcyclic'
      BY <1>2, <1>3, <2>3 DEF BlackIsClosed, BlackIsAcyclic, SinkIn
    <2> QED
      BY <1>3, <2>4, <2>5, <2>6, <2>7 DEF ParserInv, Search
  \* The successor is new: it turns grey, and is called.
  <1>8. CASE colour[Target] = "white"
    <2>1. /\ stack' = Append(Advance, Call(Target))
          /\ colour' = [colour EXCEPT ![Target] = "grey"]
      BY <1>1, <1>8 DEF VisitSuccessor
    <2>2. /\ Call(Target) \in Frame /\ Call(Target).task = Target
          /\ Call(Target).next = 1
      BY <1>5 DEF Call, Frame
    <2>3. /\ stack' \in Seq(Frame) /\ DOMAIN stack' = 1..n + 1
          /\ \A k \in 1..n : stack'[k] = Advance[k]
          /\ stack'[n + 1] = Call(Target)
      BY <1>4, <2>1, <2>2
    <2>4. \A id \in Ids : colour'[id] = IF id = Target THEN "grey" ELSE colour[id]
      BY <1>2, <2>1 DEF SearchType
    <2>5. Black' = Black
      BY <1>3, <1>8, <2>4 DEF Black
    <2>6. SearchType'
      <3>1. colour' \in [Ids -> {"white", "grey", "black"}]
        BY <1>2, <2>1 DEF SearchType
      <3>2. stack' \in Seq(Frame)
        BY <2>3
      <3> QED
        BY <1>3, <3>1, <3>2 DEF SearchType, Frame
    <2>7. \A k \in 1..n : stack'[k].task = stack[k].task /\ stack[k].task # Target
      <3>1. \A k \in 1..n : stack[k].task # Target
        <4>1. Target \in Ids /\ colour[Target] # "grey"
          BY <1>5, <1>8
        <4> QED
          BY <1>path, <4>1 DEF StackIsGreyPath
      <3> QED
        BY <1>6, <2>3, <3>1
    <2>8. StackIsGreyPath'
      <3>1. ASSUME NEW id \in Ids
            PROVE  colour'[id] = "grey" <=>
                     \E k \in 1..n + 1 : stack'[k].task = id
        <4>1. colour[id] = "grey" <=> \E k \in 1..n : stack[k].task = id
          BY <1>path DEF StackIsGreyPath
        <4>2. 1..n + 1 = (1..n) \cup {n + 1}
          BY <1>4
        <4> QED
          BY <2>2, <2>3, <2>4, <2>7, <4>1, <4>2
      <3>2. \A k, l \in 1..n + 1 : stack'[k].task = stack'[l].task => k = l
        <4>1. \A k, l \in 1..n : stack[k].task = stack[l].task => k = l
          BY <1>path DEF StackIsGreyPath
        <4>2. 1..n + 1 = (1..n) \cup {n + 1}
          BY <1>4
        <4> QED
          BY <2>2, <2>3, <2>7, <4>1, <4>2
      <3>3. ASSUME NEW k \in 1..n + 1, k + 1 \in 1..n + 1
            PROVE  /\ stack'[k].next - 1 \in DOMAIN Edges(stack'[k].task)
                   /\ Edges(stack'[k].task)[stack'[k].next - 1].to
                        = stack'[k + 1].task
        <4>1. CASE k < n
          <5>1. /\ k \in 1..n /\ k + 1 \in 1..n /\ stack'[k] = stack[k]
                /\ stack'[k + 1].task = stack[k + 1].task
            BY <1>4, <1>6, <2>3, <2>7, <4>1
          <5>2. /\ stack[k].next - 1 \in DOMAIN Edges(stack[k].task)
                /\ Edges(stack[k].task)[stack[k].next - 1].to = stack[k + 1].task
            BY <1>path, <5>1 DEF StackIsGreyPath
          <5> QED
            BY <5>1, <5>2
        <4>2. CASE k = n
          <5>1. stack'[k].task = Top.task /\ stack'[k].next - 1 = Top.next
            BY <1>4, <2>3, <4>2
          <5> QED
            BY <1>5, <2>2, <2>3, <4>2, <5>1
        <4> QED
          BY <1>4, <3>3, <4>1, <4>2
      <3> QED
        BY <1>3, <2>3, <3>1, <3>2, <3>3 DEF StackIsGreyPath
    <2>9. SeenIsBlack'
      <3> SUFFICES ASSUME NEW k \in 1..n + 1,
                          NEW i \in DOMAIN Edges(stack'[k].task),
                          i < stack'[k].next,
                          k + 1 \in 1..n + 1 => i # stack'[k].next - 1
                   PROVE  Edges(stack'[k].task)[i].to \in Black
        BY <1>3, <2>3, <2>5 DEF SeenIsBlack
      <3>1. CASE k < n
        <4>1. k \in 1..n /\ stack'[k] = stack[k] /\ k + 1 \in 1..n
          BY <1>4, <1>6, <2>3, <3>1
        <4> QED
          BY <1>2, <1>4, <4>1 DEF SeenIsBlack
      <3>2. CASE k = n
        <4>1. /\ stack'[k].task = Top.task /\ stack'[k].next = Top.next + 1
              /\ i \in Nat
          BY <1>4, <1>len, <2>3, <3>2
        <4>2. i < Top.next
          BY <1>4, <3>2, <4>1
        <4> QED
          BY <1>2, <1>4, <3>2, <4>1, <4>2 DEF SeenIsBlack
      <3>3. CASE k = n + 1
        <4>1. i \in 1..Len(Edges(Target)) /\ i < 1
          BY <1>2, <1>5, <2>2, <2>3, <3>3, NodeOf
        <4> QED
          BY <4>1
      <3> QED
        BY <1>4, <3>1, <3>2, <3>3
    <2>10. BlackIsClosed' /\ BlackIsAcyclic'
      BY <1>2, <1>3, <2>5 DEF BlackIsClosed, BlackIsAcyclic, SinkIn
    <2> QED
      BY <1>3, <2>6, <2>8, <2>9, <2>10 DEF ParserInv, Search
  <1> QED
    BY <1>7, <1>8

LEMMA ReturnKeeps ==
  ASSUME ParserInv, ReturnNoCycle
  PROVE  ParserInv'
  <1> DEFINE n == Len(stack)
             v == Top.task
  <1>1. /\ pc = "colour" /\ stack # <<>> /\ ~HasNext(Top)
        /\ colour' = [colour EXCEPT ![Top.task] = "black"]
        /\ stack' = Return
        /\ UNCHANGED <<raw, pc, next, nodes>>
    BY DEF ReturnNoCycle
  <1>2. /\ SearchType /\ StackIsGreyPath /\ SeenIsBlack /\ BlackIsClosed
        /\ BlackIsAcyclic /\ ReadSoFar /\ stack \in Seq(Frame)
    BY <1>1 DEF ParserInv, Search, SearchType, Frame
  <1>3. /\ ReadSoFar' /\ Verdict' /\ Linking'
        /\ Ids' = Ids /\ \A x : Edges(x)' = Edges(x)
    BY <1>1, SearchLeaves
  <1>4. /\ n \in Nat \ {0} /\ DOMAIN stack = 1..n /\ Top = stack[n]
        /\ v \in Ids /\ Top.next \in Nat \ {0}
        /\ Return \in Seq(Frame) /\ DOMAIN Return = 1..n - 1
        /\ \A k \in 1..n - 1 : Return[k] = stack[k]
    BY <1>1, <1>2, StackOps
  <1>5. \A i \in DOMAIN Edges(v) : Edges(v)[i].to \in Black
    <2>1. \A i \in DOMAIN Edges(v) : i < Top.next
      BY <1>1, <1>2, <1>4, NodeOf DEF HasNext
    <2>2. n + 1 \notin DOMAIN stack
      BY <1>4
    <2> QED
      BY <1>2, <1>4, <2>1, <2>2 DEF SeenIsBlack
  <1>path. DOMAIN stack = 1..n /\ StackIsGreyPath
    BY <1>2, <1>4
  <1> HIDE DEF n, v
  <1>6. /\ stack' \in Seq(Frame) /\ DOMAIN stack' = 1..n - 1
        /\ \A k \in 1..n - 1 : stack'[k] = stack[k] /\ k \in 1..n
        /\ stack[n].task = v /\ n \in 1..n
    BY <1>1, <1>4 DEF v
  <1>7. \A id \in Ids : colour'[id] = IF id = v THEN "black" ELSE colour[id]
    BY <1>1, <1>2 DEF SearchType, v
  <1>8. Black' = Black \cup {v}
    <2>1. v \in Ids /\ Ids' = Ids
      BY <1>3, <1>4
    <2> QED
      BY <1>7, <2>1 DEF Black
  <1>9. colour[v] = "grey"
    <2>1. v \in Ids
      BY <1>4
    <2> QED
      BY <1>path, <1>6, <2>1 DEF StackIsGreyPath
  <1>10. SearchType'
    BY <1>1, <1>2, <1>3, <1>4, <1>6 DEF SearchType, Frame, v
  <1>11. StackIsGreyPath'
    <2>1. 1..n = (1..n - 1) \cup {n}
      BY <1>4
    <2>2. \A k, l \in 1..n : stack[k].task = stack[l].task => k = l
      BY <1>path DEF StackIsGreyPath
    <2>3. ASSUME NEW id \in Ids
          PROVE  colour'[id] = "grey" <=>
                   \E k \in 1..n - 1 : stack'[k].task = id
      <3>1. colour[id] = "grey" <=> \E k \in 1..n : stack[k].task = id
        BY <1>path DEF StackIsGreyPath
      <3>2. \A k \in 1..n - 1 : stack'[k].task = stack[k].task
        BY <1>6
      <3>3. CASE id = v
        <4>1. \A k \in 1..n - 1 : k \in 1..n /\ k # n
          BY <1>4
        <4>2. \A k \in 1..n - 1 : stack[k].task # v
          BY <1>6, <2>2, <4>1
        <4> QED
          BY <1>7, <3>2, <3>3, <4>2
      <3>4. CASE id # v
        <4>1. stack[n].task # id
          BY <1>6, <3>4
        <4> QED
          BY <1>7, <2>1, <3>1, <3>2, <3>4, <4>1
      <3> QED
        BY <3>3, <3>4
    <2>4. \A k, l \in 1..n - 1 : stack'[k].task = stack'[l].task => k = l
      BY <1>6, <2>2
    <2>5. ASSUME NEW k \in 1..n - 1, k + 1 \in 1..n - 1
          PROVE  /\ stack'[k].next - 1 \in DOMAIN Edges(stack'[k].task)
                 /\ Edges(stack'[k].task)[stack'[k].next - 1].to
                      = stack'[k + 1].task
      <3>1. k \in 1..n /\ k + 1 \in 1..n
        BY <1>6, <2>5
      <3>2. /\ stack[k].next - 1 \in DOMAIN Edges(stack[k].task)
            /\ Edges(stack[k].task)[stack[k].next - 1].to = stack[k + 1].task
        BY <1>path, <3>1 DEF StackIsGreyPath
      <3>3. stack'[k] = stack[k] /\ stack'[k + 1] = stack[k + 1]
        BY <1>6, <2>5
      <3> QED
        BY <3>2, <3>3
    <2> QED
      BY <1>3, <1>6, <2>3, <2>4, <2>5 DEF StackIsGreyPath
  <1>12. SeenIsBlack'
    <2> SUFFICES ASSUME NEW k \in 1..n - 1,
                        NEW i \in DOMAIN Edges(stack[k].task),
                        i < stack[k].next,
                        k + 1 \in 1..n - 1 => i # stack[k].next - 1
                 PROVE  Edges(stack[k].task)[i].to \in Black \cup {v}
      BY <1>3, <1>6, <1>8 DEF SeenIsBlack
    <2>1. k \in 1..n /\ k + 1 \in 1..n /\ (k + 1 \notin 1..n - 1 => k + 1 = n)
      BY <1>4
    <2>2. CASE i # stack[k].next - 1
      BY <1>2, <1>4, <2>1, <2>2 DEF SeenIsBlack
    <2>3. CASE i = stack[k].next - 1
      <3>1. k + 1 = n
        BY <2>1, <2>3
      <3>2. Edges(stack[k].task)[i].to = stack[k + 1].task
        BY <1>2, <1>4, <2>1, <2>3 DEF StackIsGreyPath
      <3> QED
        BY <1>6, <3>1, <3>2
    <2> QED
      BY <2>2, <2>3
  <1>13. BlackIsClosed'
    BY <1>2, <1>3, <1>5, <1>8 DEF BlackIsClosed
  <1>14. BlackIsAcyclic'
    <2> SUFFICES ASSUME NEW S \in SUBSET (Black \cup {v}), S # {}
                 PROVE  SinkIn(S)
      BY <1>3, <1>8 DEF BlackIsAcyclic, SinkIn
    <2>1. v \notin Black
      BY <1>9 DEF Black
    <2>2. CASE S \cap Black # {}
      <3>1. PICK x \in S \cap Black :
               \A i \in DOMAIN Edges(x) : Edges(x)[i].to \notin S \cap Black
        BY <1>2, <2>2 DEF BlackIsAcyclic, SinkIn
      <3>2. \A i \in DOMAIN Edges(x) : Edges(x)[i].to \in Black
        BY <1>2, <3>1 DEF BlackIsClosed
      <3> QED
        BY <3>1, <3>2 DEF SinkIn
    <2>3. CASE S \cap Black = {}
      <3>1. S = {v}
        BY <2>3
      <3> QED
        BY <1>5, <2>1, <3>1 DEF SinkIn
    <2> QED
      BY <2>2, <2>3
  <1> QED
    BY <1>3, <1>10, <1>11, <1>12, <1>13, <1>14 DEF ParserInv, Search

\* A grey successor of the top call closes a cycle.
LEMMA RejectCycleKeeps ==
  ASSUME ParserInv, RejectCycle
  PROVE  ParserInv'
  <1> DEFINE n == Len(stack)
  <1>1. /\ pc = "colour" /\ stack # <<>> /\ HasNext(Top)
        /\ colour[Target] = "grey" /\ Reject
    BY DEF RejectCycle, ClosesCycle
  <1>2. /\ StackIsGreyPath /\ ReadSoFar /\ stack \in Seq(Frame)
        /\ next = Len(raw.tasks) + 1 /\ ~NoHeader
    BY <1>1 DEF ParserInv, ReadSoFar, Search, SearchType, Frame
  <1>3. /\ n \in Nat \ {0} /\ DOMAIN stack = 1..n /\ Top = stack[n]
    BY <1>1, <1>2, StackOps
  <1>4. /\ Top.next \in DOMAIN Edges(Top.task)
        /\ Target \in Ids /\ Target = Edges(Top.task)[Top.next].to
    BY <1>1, TargetKnown
  <1> HIDE DEF n
  <1>5. PICK j \in 1..n : stack[j].task = Target
    BY <1>1, <1>2, <1>3, <1>4 DEF StackIsGreyPath
  <1> DEFINE S == {stack[k].task : k \in j..n}
  <1>6. j..n \subseteq 1..n /\ j \in j..n
    BY <1>3, <1>5
  <1>7. S \in SUBSET Ids /\ S # {} /\ Target \in S
    <2>1. ASSUME NEW k \in 1..n PROVE stack[k].task \in Ids
      <3>1. stack[k] \in Frame
        BY <1>2, <1>3
      <3> QED
        BY <3>1 DEF Frame
    <2> QED
      BY <1>5, <1>6, <2>1
  <1>8. ~SinkIn(S)
    <2> SUFFICES ASSUME NEW k \in j..n
                 PROVE  \E i \in DOMAIN Edges(stack[k].task) :
                           Edges(stack[k].task)[i].to \in S
      BY DEF SinkIn
    <2>1. CASE k = n
      BY <1>3, <1>4, <1>7, <2>1
    <2>2. CASE k # n
      <3>1. k \in 1..n /\ k + 1 \in 1..n /\ k + 1 \in j..n
        BY <1>3, <1>5, <1>6, <2>2
      <3>2. /\ stack[k].next - 1 \in DOMAIN Edges(stack[k].task)
            /\ Edges(stack[k].task)[stack[k].next - 1].to = stack[k + 1].task
        BY <1>2, <1>3, <3>1 DEF StackIsGreyPath
      <3> QED
        BY <3>1, <3>2
    <2> QED
      BY <2>1, <2>2
  <1> HIDE DEF S
  <1>9. ~IsDagInput
    BY <1>2, <1>7, <1>8, VerdictOnGraph
  <1> QED
    BY <1>1, <1>2, <1>9, Rejected

-----------------------------------------------------------------------------
\* Counting the edges

LEMMA EndColouringKeeps ==
  ASSUME ParserInv, EndColouring
  PROVE  ParserInv'
  <1>1. /\ pc = "colour" /\ pc' = "link" /\ stack = <<>>
        /\ \A id \in Ids : colour[id] # "white"
        /\ unlinked' = Ids /\ preds' = [id \in Ids |-> <<>>]
        /\ rem' = [id \in Ids |-> 0]
        /\ UNCHANGED <<raw, next, nodes, stack>>
    BY DEF EndColouring
  <1>2. /\ SearchType /\ StackIsGreyPath /\ BlackIsAcyclic /\ ReadSoFar
        /\ next = Len(raw.tasks) + 1 /\ ~NoHeader /\ ~DanglingEdge
    BY <1>1 DEF ParserInv, ReadSoFar, Search
  <1>3. Black = Ids
    <2>1. \A id \in Ids : colour[id] # "grey"
      BY <1>1, <1>2 DEF StackIsGreyPath
    <2> QED
      BY <1>1, <1>2, <2>1 DEF SearchType, Black
  <1>4. IsDagInput
    BY <1>2, <1>3, VerdictOnGraph DEF BlackIsAcyclic
  <1>5. ReadSoFar' /\ Ids' = Ids /\ IsDagInput'
    BY <1>1, <1>2, <1>4, GraphStays
  <1>8. Counted(Ids \ unlinked)'
    <2>1. \A s, p \in Ids : PredIndices(s, p)' = {}
      BY <1>1 DEF PredIndices
    <2>2. preds' \in [Ids -> Seq(Ids)] /\ \A s \in Ids : rem'[s] = Len(preds'[s])
      BY <1>1
    <2> QED
      BY <1>1, <1>5, <2>1, <2>2, FS_EmptySet DEF Counted
  <1>9. Search' /\ Verdict' /\ Linking'
    BY <1>1, <1>5, <1>8 DEF Search, Verdict, Linking
  <1> QED
    BY <1>5, <1>9 DEF ParserInv

LEMMA MultiplicityType ==
  ASSUME ReadSoFar, NEW p \in Ids, NEW s
  PROVE  Multiplicity(p, s) \in Nat
  <1> DEFINE n == Len(Edges(p))
  <1>1. n \in Nat /\ DOMAIN Edges(p) = 1..n
    BY NodeOf
  <1> HIDE DEF n
  <1>2. IsFiniteSet(1..n)
    BY <1>1, FS_Interval
  <1>3. IsFiniteSet({i \in DOMAIN Edges(p) : Edges(p)[i].to = s})
    BY <1>1, <1>2, FS_Subset
  <1> QED
    BY <1>3, FS_CardinalityType DEF Multiplicity

LEMMA LinkKeeps ==
  ASSUME ParserInv, NEW q \in Ids, LinkSuccessors(q)
  PROVE  ParserInv'
  <1>1. /\ pc = "link" /\ q \in unlinked /\ unlinked' = unlinked \ {q}
        /\ preds' = [s \in Ids |-> preds[s] \o [i \in 1..Links(q, s) |-> q]]
        /\ rem' = [s \in Ids |-> rem[s] + Links(q, s)]
        /\ UNCHANGED <<raw, pc, next, nodes, stack>>
    BY DEF LinkSuccessors
  <1>2. /\ ReadSoFar /\ unlinked \subseteq Ids /\ Counted(Ids \ unlinked)
    BY <1>1 DEF ParserInv, Linking
  <1>3. /\ ReadSoFar' /\ Ids' = Ids /\ IsDagInput' = IsDagInput
        /\ \A p, s : Multiplicity(p, s)' = Multiplicity(p, s)
    BY <1>1, <1>2, GraphStays
  <1>4. ASSUME NEW s \in Ids
        PROVE  /\ preds'[s] \in Seq(Ids) /\ rem'[s] = Len(preds'[s])
               /\ \A p \in Ids : Cardinality(PredIndices(s, p)') =
                    IF p \in Ids \ unlinked' THEN Multiplicity(p, s) ELSE 0
    <2> DEFINE n == Multiplicity(q, s)
               m == Len(preds[s])
               more == [i \in 1..n |-> q]
    <2>1. n \in Nat /\ preds[s] \in Seq(Ids) /\ m \in Nat /\ rem[s] = m
      BY <1>2, MultiplicityType DEF Counted
    <2>2. preds'[s] = preds[s] \o more /\ rem'[s] = m + n
      BY <1>1, <2>1 DEF Links
    <2>3. DOMAIN preds[s] = 1..m
      BY <2>1
    <2>4. \A p \in Ids : Cardinality(PredIndices(s, p)) =
                            IF p \in Ids \ unlinked THEN Multiplicity(p, s) ELSE 0
      BY <1>2 DEF Counted
    <2> HIDE DEF n, m
    <2>5. more \in Seq(Ids) /\ Len(more) = n /\ \A i \in 1..n : more[i] = q
      BY <2>1
    <2> HIDE DEF more
    <2>6. /\ preds'[s] \in Seq(Ids) /\ Len(preds'[s]) = m + n
          /\ DOMAIN preds'[s] = 1..m + n
          /\ \A i \in 1..m : preds'[s][i] = preds[s][i]
          /\ \A i \in m + 1..m + n : preds'[s][i] = q
      <3>1. Len(preds[s]) = m
        BY DEF m
      <3>2. /\ preds[s] \o more \in Seq(Ids) /\ Len(preds[s] \o more) = m + n
            /\ \A i \in 1..m : (preds[s] \o more)[i] = preds[s][i]
        BY <2>1, <2>5, <3>1
      <3>3. \A i \in m + 1..m + n : (preds[s] \o more)[i] = more[i - m]
        BY <2>1, <2>5, <3>1
      <3>4. \A i \in m + 1..m + n : i - m \in 1..n
        BY <2>1
      <3>5. DOMAIN (preds[s] \o more) = 1..m + n
        BY <2>1, <3>2
      <3> QED
        BY <2>2, <2>5, <3>2, <3>3, <3>4, <3>5
    <2>7. ASSUME NEW p \in Ids
          PROVE  Cardinality(PredIndices(s, p)') =
                   IF p \in Ids \ unlinked' THEN Multiplicity(p, s) ELSE 0
      <3>1. CASE p # q
        <4>1. PredIndices(s, p)' = PredIndices(s, p)
          <5>1. \A i \in 1..m + n : i \in 1..m \/ i \in m + 1..m + n
            BY <2>1
          <5>2. \A i \in 1..m : i \in 1..m + n
            BY <2>1
          <5> QED
            BY <2>3, <2>6, <3>1, <5>1, <5>2 DEF PredIndices
        <4>2. p \in Ids \ unlinked <=> p \in Ids \ unlinked'
          BY <1>1, <3>1
        <4> QED
          BY <2>4, <4>1, <4>2
      <3>2. CASE p = q
        <4>1. IsFiniteSet(PredIndices(s, q))
          <5>1. IsFiniteSet(1..m)
            <6>1. 1 \in Int /\ m \in Int
              BY <2>1
            <6> QED
              BY <6>1, FS_Interval
          <5> QED
            BY <2>3, <5>1, FS_Subset DEF PredIndices
        <4>2. PredIndices(s, q) = {}
          BY <1>1, <2>4, <4>1, FS_EmptySet
        <4>3. PredIndices(s, q)' = m + 1..m + n
          <5>1. \A i \in 1..m : preds[s][i] # q
            BY <2>3, <4>2 DEF PredIndices
          <5>2. \A i \in 1..m + n : i \in 1..m \/ i \in m + 1..m + n
            BY <2>1
          <5>3. \A i \in m + 1..m + n : i \in 1..m + n
            BY <2>1
          <5> QED
            BY <2>6, <5>1, <5>2, <5>3 DEF PredIndices
        <4>4. Cardinality(m + 1..m + n) = n
          <5>1. /\ m + 1 \in Int /\ m + n \in Int
                /\ n = IF m + 1 > m + n THEN 0 ELSE (m + n) - (m + 1) + 1
            BY <2>1
          <5> QED
            BY <5>1, FS_Interval
        <4>5. q \in Ids \ unlinked'
          BY <1>1
        <4> QED
          BY <3>2, <4>3, <4>4, <4>5 DEF n
      <3> QED
        BY <3>1, <3>2
    <2> QED
      BY <2>2, <2>6, <2>7
  <1>5. preds' \in [Ids -> Seq(Ids)]
    BY <1>1, <1>4
  <1>6. Counted(Ids \ unlinked)'
    BY <1>3, <1>4, <1>5 DEF Counted
  <1>7. Search' /\ Verdict' /\ Linking'
    BY <1>1, <1>2, <1>3, <1>6 DEF ParserInv, Search, Verdict, Linking
  <1> QED
    BY <1>3, <1>7 DEF ParserInv

LEMMA AcceptKeeps ==
  ASSUME ParserInv, Accept
  PROVE  ParserInv'
  <1>1. /\ pc = "link" /\ pc' = "accepted" /\ unlinked = {}
        /\ UNCHANGED <<raw, next, nodes, stack, preds, rem>>
    BY DEF Accept
  <1>2. ReadSoFar /\ Counted(Ids \ {})
    BY <1>1 DEF ParserInv, Linking
  <1>3. /\ ReadSoFar' /\ Ids' = Ids /\ IsDagInput' = IsDagInput
        /\ \A p, s : Multiplicity(p, s)' = Multiplicity(p, s)
    BY <1>1, <1>2, GraphStays
  <1>4. Counted(Ids)'
    <2>1. \A s, p : PredIndices(s, p)' = PredIndices(s, p)
      BY <1>1 DEF PredIndices
    <2> QED
      BY <1>1, <1>2, <1>3, <2>1 DEF Counted
  <1>5. Search' /\ Verdict' /\ Linking'
    BY <1>1, <1>3, <1>4 DEF ParserInv, Search, Verdict, Linking
  <1> QED
    BY <1>3, <1>5 DEF ParserInv

-----------------------------------------------------------------------------
\* What comes after Parse leaves the graph alone.
LEMMA RanksLeave ==
  ASSUME ParserInv, RanksNext \/ UNCHANGED parserVars
  PROVE  ParserInv'
  <1>1. CASE UNCHANGED parserVars
    <2>1. UNCHANGED <<raw, pc, next, nodes, colour, stack, unlinked, preds, rem>>
      BY <1>1 DEF parserVars
    <2>2. ReadSoFar' = ReadSoFar
      BY <2>1 DEF ReadSoFar, NoHeader, DanglingEdge, Edges, Ids
    <2>3. Search' = Search
      BY <2>1 DEF Search, SearchType, StackIsGreyPath, SeenIsBlack,
         BlackIsClosed, BlackIsAcyclic, SinkIn, Black, Edges, Ids
    <2>4. Verdict' = Verdict
      BY <2>1 DEF Verdict, IsDagInput, RawIds, RawEdges
    <2>5. Linking' = Linking
      BY <2>1 DEF Linking, Counted, Ids, PredIndices, Multiplicity, Edges
    <2> QED
      BY <2>2, <2>3, <2>4, <2>5 DEF ParserInv
  <1>2. CASE RanksNext
    <2>1. /\ pc \in {"accepted", "down"} /\ pc' \in {"down", "ranked"}
          /\ UNCHANGED <<raw, next, nodes, preds, rem>>
      BY <1>2 DEF RanksNext, CalculateUpward, StartEntry, CallDownward,
         ReturnDownward, CalculateCritical
    <2>2. /\ ReadSoFar' /\ Ids' = Ids /\ IsDagInput' = IsDagInput
          /\ \A p, s : Multiplicity(p, s)' = Multiplicity(p, s)
      BY <2>1, GraphStays DEF ParserInv
    <2>3. Counted(Ids)'
      <3>1. \A s, p : PredIndices(s, p)' = PredIndices(s, p)
        BY <2>1 DEF PredIndices
      <3>2. Counted(Ids)
        BY <2>1 DEF ParserInv, Linking
      <3> QED
        BY <2>1, <2>2, <3>1, <3>2 DEF Counted
    <2>4. Search' /\ Verdict' /\ Linking'
      BY <2>1, <2>2, <2>3 DEF ParserInv, Search, Verdict, Linking
    <2> QED
      BY <2>2, <2>4 DEF ParserInv
  <1> QED
    BY <1>1, <1>2

LEMMA ParserStep == ParserInv /\ [RankNext]_vars => ParserInv'
  <1> SUFFICES ASSUME ParserInv, [RankNext]_vars PROVE ParserInv'
    OBVIOUS
  <1>1. CASE ParserNext
    BY <1>1, RejectInputKeeps, ReadTaskKeeps, RejectDanglingKeeps,
       CheckSuccessorsKeeps, CallKeeps, RejectCycleKeeps, VisitKeeps,
       ReturnKeeps, EndColouringKeeps, LinkKeeps, AcceptKeeps DEF ParserNext
  <1>2. CASE RanksNext \/ UNCHANGED vars
    BY <1>2, RanksLeave DEF vars
  <1> QED
    BY <1>1, <1>2 DEF RankNext

\* Parse: the nodes are the raw tasks; the search's grey tasks are a path, its
\* black tasks closed and acyclic; the counters count the linked edges.
THEOREM ParserInvariant == RankSpec => []ParserInv
  <1>1. RankInit => ParserInv
    BY ParserStart DEF RankInit
  <1> QED
    BY <1>1, ParserStep, PTL DEF RankSpec

\* Parse lets a DAG pass exactly if its tasks are well-formed, different, and
\* without a cycle, for every input and every order of the map passes.
THEOREM ParseAcceptsDags == RankSpec => []AcceptsExactlyDags
  <1>1. ParserInv => AcceptsExactlyDags
    BY DEF ParserInv, Verdict, AcceptsExactlyDags
  <1> QED
    BY <1>1, ParserInvariant, PTL

\* The reactor's counters: after Parse, RemainingDependencies is the number of
\* edges that lead to a task, repeated edges counted as often as they occur.
THEOREM ParseCountsEdges == RankSpec => []CountersMatchEdges
  <1>1. ParserInv => CountersMatchEdges
    BY DEF ParserInv, Linking, Counted, PredIndices, CountersMatchEdges
  <1> QED
    BY <1>1, ParserInvariant, PTL
=============================================================================
