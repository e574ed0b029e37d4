-------------------------------- MODULE Ranks --------------------------------
(***************************************************************************)
(* calculateRanks of internal/scheduler/core.go, on the DAG that Parse has *)
(* accepted.  The upward rank is a memoised recursion, whose value depends *)
(* on no order.  The downward rank is a depth-first search from the entry  *)
(* tasks that ranks a task when it first meets it; entries come in any     *)
(* order, successors in the order of the task's list.                      *)
(*                                                                         *)
(* Costs are integers: computation and data size, divided in the code by   *)
(* the slowest worker's speed and bandwidth.                               *)
(***************************************************************************)
EXTENDS Parser, FiniteSetsExt

VARIABLES
    rankU,     \* StaticRankU
    rankD,     \* StaticRankD
    visited,   \* downwardVisited
    critical   \* meta.Critical

rankVars == <<rankU, rankD, visited, critical>>
vars == <<parserVars, rankVars>>

None == [id \in {} |-> 0]
RankInit == Init /\ rankU = None /\ rankD = None /\ visited = {} /\ critical = {}

Comp(id) == nodes[id].comp
Entries == {id \in Ids : preds[id] = <<>>}
EdgesBetween(p, s) == {i \in DOMAIN Edges(p) : Edges(p)[i].to = s}

\* Variant: the transmission is left out.
UpwardCompOnly ==
    LET U[id \in Ids] ==
          Comp(id) + Max({0} \cup {U[e.to] : e \in ToSet(Edges(id))})
    IN  U

\* computeUpwardRank
UpwardRank ==
    LET U[id \in Ids] ==
          Comp(id) + Max({0} \cup {e.size + U[e.to] : e \in ToSet(Edges(id))})
    IN  U

\* Variant: the task's own computation, in place of its predecessor's.
DownwardOwnComp(s) ==
    Max({0} \cup {rankD[p] + Comp(s) + Edges(p)[Min(EdgesBetween(p, s))].size
                  : p \in ToSet(preds[s])})

\* The loop over Predecessors in computeDownwardRank; the data size is that of
\* the first edge that leads to s.
DownwardRank(s) ==
    Max({0} \cup {rankD[p] + Comp(p) + Edges(p)[Min(EdgesBetween(p, s))].size
                  : p \in ToSet(preds[s])})

-----------------------------------------------------------------------------
CalculateUpward ==
    /\ pc = "accepted"
    /\ pc' = "down"
    /\ rankU' = UpwardRank
    /\ rankD' = [id \in Ids |-> 0]
    /\ UNCHANGED <<raw, next, nodes, colour, stack, unlinked, preds, rem,
                   visited, critical>>

\* Step 2, one entry task.
StartEntry(id) ==
    /\ pc = "down" /\ stack = <<>>
    /\ id \in Entries \ visited
    /\ visited' = visited \cup {id}
    /\ rankD' = [rankD EXCEPT ![id] = 0]
    /\ stack' = <<Call(id)>>
    /\ UNCHANGED <<raw, pc, next, nodes, colour, unlinked, preds, rem,
                   rankU, critical>>

\* computeDownwardRank(succ.TargetTaskID)
CallDownward ==
    /\ pc = "down" /\ stack # <<>>
    /\ HasNext(Top)
    /\ IF Target \in visited
       THEN /\ stack' = Advance
            /\ UNCHANGED <<visited, rankD>>
       ELSE /\ visited' = visited \cup {Target}
            /\ rankD' = [rankD EXCEPT ![Target] = DownwardRank(Target)]
            /\ stack' = Append(Advance, Call(Target))
    /\ UNCHANGED <<raw, pc, next, nodes, colour, unlinked, preds, rem,
                   rankU, critical>>

ReturnDownward ==
    /\ pc = "down" /\ stack # <<>>
    /\ ~HasNext(Top)
    /\ stack' = Return
    /\ UNCHANGED <<raw, pc, next, nodes, colour, unlinked, preds, rem, rankVars>>

\* Variant: a tolerance as large as the smallest cost.
CriticalWithinOne(src) ==
    {id \in Ids : rankU[id] + rankD[id] >= rankU[src] + rankD[src] - 1}

\* Criti(Gi): the tasks whose rank is that of the entry task.
CriticalTasks(src) ==
    {id \in Ids : rankU[id] + rankD[id] = rankU[src] + rankD[src]}

\* Steps 16 to 22; the entry task is the first that the map yields.  The volume
\* per task, which is the same for all tasks of a DAG, is left out.
CalculateCritical(src) ==
    /\ pc = "down" /\ stack = <<>>
    /\ Entries \subseteq visited
    /\ src \in Entries
    /\ critical' = CriticalTasks(src)
    /\ pc' = "ranked"
    /\ UNCHANGED <<raw, next, nodes, colour, stack, unlinked, preds, rem,
                   rankU, rankD, visited>>

RanksNext ==
    \/ CalculateUpward
    \/ \E id \in Ids : StartEntry(id)
    \/ CallDownward
    \/ ReturnDownward
    \/ \E src \in Ids : CalculateCritical(src)

RankNext == (ParserNext /\ UNCHANGED rankVars) \/ RanksNext

\* One goroutine that never waits.
RankSpec == RankInit /\ [][RankNext]_vars /\ WF_vars(RankNext)

-----------------------------------------------------------------------------
\* Properties

\* Reference: the costs of the paths of the accepted DAG, its tasks and its
\* heaviest edges along the way.
EdgeCost(p, s) == Max({Edges(p)[i].size : i \in EdgesBetween(p, s)})
Paths == {p \in UNION {[1..n -> Ids] : n \in 1..Cardinality(Ids)} :
            \A i \in 1..Len(p)-1 : EdgesBetween(p[i], p[i+1]) # {}}
Cost(p) ==
    LET from[i \in 1..Len(p)] ==
          Comp(p[i]) + IF i = Len(p) THEN 0
                       ELSE EdgeCost(p[i], p[i+1]) + from[i+1]
    IN  from[1]
LongestFrom(id) == Max({Cost(p) : p \in {q \in Paths : Head(q) = id}})
LongestTo(id) == Max({Cost(p) : p \in {q \in Paths : Last(q) = id}}) - Comp(id)

\* The upward rank of a task is the cost of the longest path that starts there.
UpwardRankIsLongestPath ==
    pc = "ranked" => \A id \in Ids : rankU[id] = LongestFrom(id)

\* A downward rank is never more than the longest path that leads to the task.
DownwardRankNotTooHigh ==
    pc = "down" => \A id \in visited : rankD[id] <= LongestTo(id)

\* With one entry task, a task taken for critical does lie on a longest path of
\* the DAG, and the entry task is taken.  That the path is taken to its end is
\* not so: a downward rank may be too low (DownwardRankIsMaximum).
CriticalTasksAreCritical ==
    pc = "ranked" /\ Cardinality(Entries) = 1 =>
        LET src == CHOOSE id \in Entries : TRUE IN
          /\ src \in critical
          /\ \A id \in critical : LongestTo(id) + LongestFrom(id) = LongestFrom(src)

\* core.go, Eq. 15: RankD(v) is the maximum over the predecessors u of RankD(u)
\* and the costs of u and of its edge to v.
DownwardRankIsMaximum ==
    pc = "ranked" => \A id \in Ids : rankD[id] = DownwardRank(id)

\* Every input is rejected or ranked in the end.
InputHandled == <>(pc \in {"rejected", "ranked"})
=============================================================================
