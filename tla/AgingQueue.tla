------------------------------ MODULE AgingQueue ------------------------------
(***************************************************************************)
(* The priority queue that Scheduler abstracts to a set: the binary heap   *)
(* of queue.go, kept by Go's container/heap, and the ageing of its         *)
(* priorities in place (updateDynamicPriorities of core.go), composed with *)
(* the scheduler core.  A task is pushed with the priority it has before   *)
(* it has waited.  Every event is followed by one ageing pass over all the *)
(* queued tasks and a restoration of the heap; then tasks are popped while *)
(* a worker is idle.                                                       *)
(*                                                                         *)
(* Priorities are integers, time is a counter.                             *)
(***************************************************************************)
EXTENDS SchedulerRefinement, SequencesExt

CONSTANTS
    Rank,          \* Rank[t]: StaticRankU + StaticRankD
    VolPerSubtask, \* VolPerSubtask[d], of the DAG's metadata
    AgingFactor,
    MaxTime        \* bound: how far the clock goes

ASSUME AgingAssumption ==
    /\ Rank \in [Tasks -> Nat] /\ VolPerSubtask \in [Dags -> Nat]
    /\ AgingFactor \in Nat /\ MaxTime \in Nat

VARIABLES
    heap,     \* s.pq, the first element at 1
    priority, \* DynamicPriority
    readyAt,  \* ReadyAt
    now       \* time.Now()

queueVars == <<heap, priority, readyAt>>
agingVars == <<vars, queueVars, now>>

-----------------------------------------------------------------------------
\* container/heap on a sequence of tasks, for priorities p.  The parent of
\* element i is i \div 2.

Swap(h, i, j) == [h EXCEPT ![i] = h[j], ![j] = h[i]]

\* Less of queue.go: the highest priority comes first.
Less(p, h, i, j) == p[h[i]] > p[h[j]]

\* Where up and down are: the tasks of h in some order, and an index.
Positions(h) == [DOMAIN h -> Tasks] \X DOMAIN h

Up(p, h, i) ==
    LET up[s \in Positions(h)] ==
          LET g == s[1]  j == s[2]  parent == s[2] \div 2
          IN  IF j > 1 /\ Less(p, g, j, parent)
              THEN up[<<Swap(g, j, parent), parent>>]
              ELSE g
    IN  up[<<h, i>>]

\* The child that is to come before the other, or the only one.
FirstChild(p, h, j) ==
    IF 2 * j + 1 <= Len(h) /\ Less(p, h, 2 * j + 1, 2 * j)
    THEN 2 * j + 1 ELSE 2 * j

Down(p, h, i) ==
    LET down[s \in Positions(h)] ==
          LET g == s[1]  j == s[2]  first == FirstChild(p, g, j)
          IN  IF 2 * j <= Len(g) /\ Less(p, g, first, j)
              THEN down[<<Swap(g, first, j), first>>]
              ELSE g
    IN  down[<<h, i>>]

HeapInit(p, h) ==
    LET init[s \in [DOMAIN h -> Tasks] \X (0..Len(h) \div 2)] ==
          IF s[2] = 0 THEN s[1] ELSE init[<<Down(p, s[1], s[2]), s[2] - 1>>]
    IN  init[<<h, Len(h) \div 2>>]

HeapPush(p, h, t) == Up(p, Append(h, t), Len(h) + 1)

\* The last element takes the place of the first, which is cut off.
HeapPop(p, h) ==
    IF Len(h) = 1 THEN <<>> ELSE Down(p, Front(Swap(h, 1, Len(h))), 1)

-----------------------------------------------------------------------------
AgingInit ==
    /\ Init
    /\ heap = <<>>
    /\ priority = [t \in Tasks |-> 0]
    /\ readyAt = [t \in Tasks |-> 0]
    /\ now = 0

\* The volume is looked up under extractDAGID(t), and is 0 if the DAG is not
\* found.
VolTerm(t, known) ==
    IF extractDAGID(t) \in known THEN VolPerSubtask[extractDAGID(t)] ELSE 0

\* Variant: the waiting time is taken away instead of added.
PriorityLessWait(t, wait, known) ==
    Rank[t] - wait * AgingFactor + VolTerm(t, known)

\* Eq. 19, for a task that has waited so long.
PriorityAfter(t, wait, known) ==
    Rank[t] + wait * AgingFactor + VolTerm(t, known)

\* Variant: the heap is left as it was.
AgeInPlace(h, ready, old, known) ==
    [heap |-> h,
     priority |-> [t \in Tasks |-> IF Contains(h, t)
                     THEN PriorityAfter(t, now - ready[t], known) ELSE old[t]]]

\* updateDynamicPriorities
UpdateDynamicPriorities(h, ready, old, known) ==
    LET aged == [t \in Tasks |-> IF Contains(h, t)
                   THEN PriorityAfter(t, now - ready[t], known) ELSE old[t]]
    IN  [heap |-> HeapInit(aged, h), priority |-> aged]

\* The tasks of the list that an event makes ready are pushed one by one ...
PushNew(p, h, list, new) ==
    LET push[s \in Seq(Tasks) \X (1..Len(list) + 1)] ==
          LET t == list[s[2]]
          IN  IF s[2] > Len(list) THEN s[1]
              ELSE push[<<IF t \in new THEN HeapPush(p, s[1], t) ELSE s[1],
                          s[2] + 1>>]
    IN  push[<<h, 1>>]

\* ... each with the priority first[t]; scheduleReadyTasks then begins by ageing.
PushAndAge(list, new, first) ==
    LET ready == [t \in Tasks |-> IF t \in new THEN now ELSE readyAt[t]]
        start == [t \in Tasks |-> IF t \in new THEN first[t] ELSE priority[t]]
        pushed == PushNew(start, heap, list, new)
        aged == UpdateDynamicPriorities(pushed, ready, start, registered')
    IN  /\ readyAt' = ready
        /\ heap' = aged.heap
        /\ priority' = aged.priority

\* Entry tasks come in the order of the map; their volume is that of the event.
AgingRegister ==
    /\ RegisterArrivedDAG
    /\ LET d == Head(eventChan).dag
           first == [t \in Tasks |-> Rank[t] + VolPerSubtask[d]]
           entries == {t \in TasksOf(d) : IsEntry(t)}
       IN  \E list \in SetToSeqs(entries) : PushAndAge(list, entries, first)

\* Released successors come in the order of the list.
AgingComplete ==
    /\ CompleteTask
    /\ LET t == Head(eventChan).task
           first == [s \in Tasks |-> PriorityAfter(s, 0, registered)]
       IN  PushAndAge(Succ[t], {s \in Succs(t) : rem'[s] = 0}, first)

AgingOther ==
    /\ RejectArrivedDAG \/ MarkWorkerIdle
    /\ PushAndAge(<<>>, {}, priority)

\* heap.Pop, then dispatchTask.
AgingDispatch ==
    /\ heap # <<>>
    /\ \E w \in Workers : DispatchTask(Head(heap), w)
    /\ heap' = HeapPop(priority, heap)
    /\ UNCHANGED <<priority, readyAt>>

Tick ==
    /\ now < MaxTime
    /\ now' = now + 1
    /\ UNCHANGED <<vars, queueVars>>

AgingReactorStep ==
    /\ \/ AgingRegister \/ AgingComplete \/ AgingOther \/ AgingDispatch
       \/ EndScheduling /\ UNCHANGED queueVars
    /\ UNCHANGED now

AgingOthersStep ==
    /\ \/ \E d \in Dags : SubmitDAG(d)
       \/ \E w \in Workers : ReportIdle(w)
       \/ Stop
       \/ \E g \in inflight : GoroutineStep(g)
    /\ UNCHANGED <<queueVars, now>>

AgingNext == AgingReactorStep \/ AgingOthersStep \/ Tick

AgingSpec == AgingInit /\ [][AgingNext]_agingVars

\* The Go scheduler runs every goroutine that can run; a timed read returns.
\* Nothing obliges a client to submit, the context to be cancelled, or the
\* clock to go on.
AgingFairSpec ==
    /\ AgingSpec
    /\ WF_agingVars(AgingReactorStep)
    /\ \A t \in Tasks : WF_agingVars(\E g \in inflight :
           g.task = t /\ GoroutineStep(g) /\ UNCHANGED <<queueVars, now>>)

-----------------------------------------------------------------------------
\* Properties

\* Whenever the reactor pops, the heap holds the tasks of the queue once each
\* and is ordered by the priorities that Eq. 19 gives them at the last event,
\* although all of them were changed in place since they were pushed.
HeapOrdered ==
    /\ Len(heap) = Cardinality(pq)
    /\ ToSet(heap) = pq
    /\ pc = "schedule" =>
         \A i \in 2..Len(heap) : ~Less(priority, heap, i, i \div 2)

\* What ageing promises ("to prevent starvation", updateDynamicPriorities): a
\* task is passed over only for one whose rank and volume exceed its own by at
\* least what it has gained in the time it has waited longer.
Standing(t) ==
    Rank[t] + VolPerSubtask[DagOf[t]] - AgingFactor * readyAt[t]

OvertakingIsBounded ==
    [][\A t, u \in pq : t \in pq' /\ u \notin pq' => Standing(u) >= Standing(t)]_agingVars
=============================================================================
