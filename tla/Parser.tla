-------------------------------- MODULE Parser --------------------------------
(***************************************************************************)
(* parser.Parse: from the raw JSON of a DAG to the task nodes the graph    *)
(* engine registers, or an error.  Its passes run in order; within a pass  *)
(* over the map dag.Tasks, Go iterates in any order, and every order is    *)
(* tried here.  The recursion of hasCycle is an explicit stack.            *)
(*                                                                         *)
(* Abstracted: JSON itself, and the prefix "dag_id:" that every id gets    *)
(* (within one DAG it keeps different ids different).                      *)
(***************************************************************************)
EXTENDS Integers, FiniteSets, Sequences, SequencesExt

CONSTANTS RawDags,  \* the inputs: [dag, tasks], see MCRanks
          Names,    \* the ids that occur in them
          NoId      \* the empty id

\* What json.Unmarshal can yield: id and successor ids may be any, costs and
\* sizes of any sign.
ASSUME RawAssumption ==
    /\ NoId \in Names
    /\ \A r \in RawDags :
         r.tasks \in Seq([id : Names, comp : Int,
                         succs : Seq([to : Names, size : Int])])

VARIABLES
    raw,      \* the input
    pc,       \* the pass Parse is in, or how it returned
    next,     \* pass 1: index of the next raw task
    nodes,    \* dag.Tasks: id -> computation and successor list
    colour,   \* colors
    stack,    \* calls of hasCycle: task and index of the next successor
    unlinked, \* pass 4: nodes still to come
    preds,    \* Predecessors of every node
    rem       \* RemainingDependencies of every node

parserVars == <<raw, pc, next, nodes, colour, stack, unlinked, preds, rem>>

Ids == DOMAIN nodes
Edges(id) == nodes[id].succs

Init ==
    /\ raw \in RawDags
    /\ pc = "read"
    /\ next = 1
    /\ nodes = [id \in {} |-> 0]
    /\ colour = nodes
    /\ stack = <<>>
    /\ unlinked = {}
    /\ preds = nodes
    /\ rem = nodes

-----------------------------------------------------------------------------
\* Before the passes, and pass 1

NoHeader == raw.dag = NoId \/ raw.tasks = <<>>

\* Variant: an id that is there already is accepted.
BadUnlessTwice(t) ==
    \/ t.id = NoId
    \/ t.comp <= 0
    \/ \E i \in DOMAIN t.succs : t.succs[i].to = NoId \/ t.succs[i].size < 0

BadTask(t) ==
    \/ t.id = NoId \/ t.id \in Ids
    \/ t.comp <= 0
    \/ \E i \in DOMAIN t.succs : t.succs[i].to = NoId \/ t.succs[i].size < 0

Reject == /\ pc' = "rejected"
          /\ stack' = <<>>
          /\ UNCHANGED <<raw, next, nodes, colour, unlinked, preds, rem>>

RejectInput ==
    /\ pc = "read"
    /\ \/ NoHeader
       \/ next <= Len(raw.tasks) /\ BadTask(raw.tasks[next])
    /\ Reject

ReadTask ==
    /\ pc = "read"
    /\ ~NoHeader /\ next <= Len(raw.tasks)
    /\ LET t == raw.tasks[next] IN
         /\ ~BadTask(t)
         /\ nodes' = [id \in Ids \cup {t.id} |->
                        IF id = t.id THEN [comp |-> t.comp, succs |-> t.succs]
                                     ELSE nodes[id]]
    /\ next' = next + 1
    /\ UNCHANGED <<raw, pc, colour, stack, unlinked, preds, rem>>

-----------------------------------------------------------------------------
\* Pass 2: every successor exists

DanglingEdge == \E id \in Ids : \E i \in DOMAIN Edges(id) : Edges(id)[i].to \notin Ids

AllRead == pc = "read" /\ ~NoHeader /\ next > Len(raw.tasks)

RejectDangling == AllRead /\ DanglingEdge /\ Reject

CheckSuccessors ==
    /\ AllRead
    /\ ~DanglingEdge
    /\ pc' = "colour"
    /\ colour' = [id \in Ids |-> "white"]
    /\ UNCHANGED <<raw, next, nodes, stack, unlinked, preds, rem>>

-----------------------------------------------------------------------------
\* Pass 3: depth-first search for a cycle

Call(id) == [task |-> id, next |-> 1]
Top == Last(stack)
Return == Front(stack)
\* Variant: the loop over the successors does not go on.
NoAdvance == stack
Advance == Append(Front(stack), [Top EXCEPT !.next = @ + 1])

HasNext(f) == f.next <= Len(Edges(f.task))
Target == Edges(Top.task)[Top.next].to

\* Variant: any task seen before closes a cycle.
ClosesOnVisited(id) == colour[id] # "white"
ClosesCycle(id) == colour[id] = "grey"

CallHasCycle(id) ==
    /\ pc = "colour" /\ stack = <<>>
    /\ colour[id] = "white"
    /\ colour' = [colour EXCEPT ![id] = "grey"]
    /\ stack' = <<Call(id)>>
    /\ UNCHANGED <<raw, pc, next, nodes, unlinked, preds, rem>>

RejectCycle ==
    /\ pc = "colour" /\ stack # <<>>
    /\ HasNext(Top) /\ ClosesCycle(Target)
    /\ Reject

VisitSuccessor ==
    /\ pc = "colour" /\ stack # <<>>
    /\ HasNext(Top) /\ ~ClosesCycle(Target)
    /\ IF colour[Target] = "white"
       THEN /\ colour' = [colour EXCEPT ![Target] = "grey"]
            /\ stack' = Append(Advance, Call(Target))
       ELSE /\ stack' = Advance
            /\ UNCHANGED colour
    /\ UNCHANGED <<raw, pc, next, nodes, unlinked, preds, rem>>

ReturnNoCycle ==
    /\ pc = "colour" /\ stack # <<>>
    /\ ~HasNext(Top)
    /\ colour' = [colour EXCEPT ![Top.task] = "black"]
    /\ stack' = Return
    /\ UNCHANGED <<raw, pc, next, nodes, unlinked, preds, rem>>

EndColouring ==
    /\ pc = "colour" /\ stack = <<>>
    /\ \A id \in Ids : colour[id] # "white"
    /\ pc' = "link"
    /\ unlinked' = Ids
    /\ preds' = [id \in Ids |-> <<>>]
    /\ rem' = [id \in Ids |-> 0]
    /\ UNCHANGED <<raw, next, nodes, colour, stack>>

-----------------------------------------------------------------------------
\* Pass 4: predecessors and counters

Multiplicity(p, s) == Cardinality({i \in DOMAIN Edges(p) : Edges(p)[i].to = s})

\* Variant: a repeated edge is counted once.
LinkOnce(p, s) == IF Multiplicity(p, s) > 0 THEN 1 ELSE 0

\* How many times p counts as a predecessor of s.
Links(p, s) == Multiplicity(p, s)

LinkSuccessors(p) ==
    /\ pc = "link"
    /\ p \in unlinked
    /\ unlinked' = unlinked \ {p}
    /\ preds' = [s \in Ids |-> preds[s] \o [i \in 1..Links(p, s) |-> p]]
    /\ rem' = [s \in Ids |-> rem[s] + Links(p, s)]
    /\ UNCHANGED <<raw, pc, next, nodes, colour, stack>>

Accept ==
    /\ pc = "link"
    /\ unlinked = {}
    /\ pc' = "accepted"
    /\ UNCHANGED <<raw, next, nodes, colour, stack, unlinked, preds, rem>>

ParserNext ==
    \/ RejectInput \/ ReadTask
    \/ RejectDangling \/ CheckSuccessors
    \/ \E id \in Ids : CallHasCycle(id)
    \/ RejectCycle \/ VisitSuccessor \/ ReturnNoCycle \/ EndColouring
    \/ \E p \in Ids : LinkSuccessors(p)
    \/ Accept

-----------------------------------------------------------------------------
\* Properties

RawIds == {raw.tasks[i].id : i \in DOMAIN raw.tasks}
RawEdges == UNION {{<<raw.tasks[i].id, e.to>> : e \in ToSet(raw.tasks[i].succs)}
                   : i \in DOMAIN raw.tasks}

\* Some task of any set of tasks has no successor in the set.
Acyclic(N, E) ==
    \A S \in SUBSET N : S # {} => \E n \in S : \A m \in S : <<n, m>> \notin E

\* What an acceptable input is, read off the input alone.
IsDagInput ==
    /\ raw.dag # NoId /\ raw.tasks # <<>>
    /\ NoId \notin RawIds
    /\ Cardinality(RawIds) = Len(raw.tasks)
    /\ \A t \in ToSet(raw.tasks) :
         t.comp > 0 /\ \A e \in ToSet(t.succs) : e.size >= 0
    /\ RawEdges \subseteq RawIds \X RawIds
    /\ Acyclic(RawIds, RawEdges)

\* Parse accepts an input exactly if its tasks are well-formed, different, and
\* make up an acyclic graph, whatever order the map passes take.
AcceptsExactlyDags ==
    /\ pc \in {"link", "accepted"} => IsDagInput
    /\ pc = "rejected" => ~IsDagInput

\* An accepted DAG has the counters the reactor needs: one per incoming edge,
\* as often as the completions of the predecessors will count it down.
CountersMatchEdges ==
    pc = "accepted" =>
        \A s \in Ids :
            /\ rem[s] = Len(preds[s])
            /\ \A p \in Ids :
                 Cardinality({i \in DOMAIN preds[s] : preds[s][i] = p})
                    = Multiplicity(p, s)
=============================================================================
