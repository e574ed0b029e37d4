--------------------------- MODULE SchedulerProofs ---------------------------
(***************************************************************************)
(* Proofs about Scheduler, for every set of DAGs, any number of workers    *)
(* and every channel capacity: the core invariant; its consequences, one   *)
(* goroutine or one completion event for each running task, one task on    *)
(* each worker, the Golden Rule, and the refinement of DagExecution; and   *)
(* when a DAG is reported as COMPLETED: not before its last task is done,  *)
(* if it has one exit, and for ever after, if its tasks' ids carry its own.*)
(***************************************************************************)
EXTENDS SchedulerRefinement, FiniteSetTheorems, WellFoundedInduction, TLAPS

-----------------------------------------------------------------------------
\* Lemmas about the event channel

\* What a receive takes from the channel is an event, and what it leaves is the
\* rest of the channel, shifted by one.
LEMMA ReceivedEvent ==
    ASSUME NEW chan \in Seq(Event), chan # <<>>
    PROVE  /\ Head(chan) \in Event
           /\ Head(chan) = chan[1]
           /\ 1 \in DOMAIN chan
           /\ Tail(chan) \in Seq(Event)
           /\ Len(Tail(chan)) = Len(chan) - 1
           /\ \A i \in DOMAIN Tail(chan) :
                i + 1 \in DOMAIN chan /\ Tail(chan)[i] = chan[i + 1]
  OBVIOUS

\* A send appends one event and moves no other.
LEMMA SentEvent ==
    ASSUME NEW chan \in Seq(Event), NEW e \in Event
    PROVE  /\ Append(chan, e) \in Seq(Event)
           /\ Len(Append(chan, e)) = Len(chan) + 1
           /\ DOMAIN Append(chan, e) = DOMAIN chan \cup {Len(chan) + 1}
           /\ \A i \in DOMAIN chan : Append(chan, e)[i] = chan[i]
           /\ Append(chan, e)[Len(chan) + 1] = e
           /\ Len(chan) + 1 \notin DOMAIN chan
  OBVIOUS

-----------------------------------------------------------------------------
\* Type correctness

LEMMA InitTypeOK == Init => TypeOK
  <1> SUFFICES ASSUME Init PROVE TypeOK
    OBVIOUS
  <1>1. rem \in [Tasks -> Nat]
    <2>1. \A t \in Tasks : Pred(t) \subseteq Tasks
      BY DEF Pred
    <2>2. \A t \in Tasks : Cardinality(Pred(t)) \in Nat
      BY <2>1, SetsAssumption, FS_Subset, FS_CardinalityType
    <2> QED
      BY <2>2, RemAssumption DEF Init
  <1>2. eventChan \in Seq(Event) /\ Len(eventChan) <= ChanCap
    BY BoundsAssumption DEF Init
  <1> QED
    BY <1>1, <1>2, BoundsAssumption DEF Init, TypeOK, TaskStates, Workers

LEMMA UpdateTaskStateType ==
    ASSUME NEW old \in TaskStates, NEW new \in TaskStates
    PROVE  UpdateTaskState(old, new) \in TaskStates
  BY DEF UpdateTaskState

LEMMA DecrementType ==
    ASSUME NEW n \in Nat
    PROVE  DecrementIndegree(n) \in Nat
  BY DEF DecrementIndegree

\* Sends leave the stores alone and keep the channel within its capacity.
LEMMA SendTypeOK ==
    ASSUME TypeOK, NEW e \in Event, Send(e)
    PROVE  eventChan' \in Seq(Event) /\ Len(eventChan') <= ChanCap
  BY SentEvent, BoundsAssumption DEF TypeOK, Send

LEMMA ReceiveTypeOK ==
    ASSUME TypeOK, NEW type, Receive(type)
    PROVE  /\ eventChan' \in Seq(Event) /\ Len(eventChan') <= ChanCap
           /\ Head(eventChan) \in Event
           /\ pc' \in {"select", "schedule", "stopped"}
  <1>1. /\ Head(eventChan) \in Event
        /\ Tail(eventChan) \in Seq(Event)
        /\ Len(Tail(eventChan)) = Len(eventChan) - 1
    BY ReceivedEvent DEF TypeOK, Receive
  <1>2. Len(eventChan) \in Nat
    BY DEF TypeOK
  <1> QED
    BY <1>1, <1>2, BoundsAssumption DEF TypeOK, Receive

\* A rule written to vault_map has the layout of a rule.
LEMMA RuleForType ==
    ASSUME NEW t \in Tasks, NEW place \in [Succs(t) -> Workers]
    PROVE  IsRule(RuleFor(t, place))
  <1>1. \A i \in DOMAIN Succ[t] : Succ[t][i] \in Succs(t)
    BY DEF Succs
  <1> QED
    BY <1>1 DEF IsRule, RuleFor

LEMMA VaultType ==
    ASSUME TypeOK, NEW id \in NumIds, NEW rule, IsRule(rule),
           WriteDependencyRuleToKernel(id, rule)
    PROVE  /\ DOMAIN vault' \subseteq NumIds
           /\ \A k \in DOMAIN vault' : IsRule(vault'[k])
  <1>1. CASE UNCHANGED vault
    BY <1>1 DEF TypeOK
  <1>2. CASE vault' = [k \in DOMAIN vault \cup {id} |->
                         IF k = id THEN rule ELSE vault[k]]
    <2>1. DOMAIN vault' = DOMAIN vault \cup {id}
      BY <1>2
    <2>2. ASSUME NEW k \in DOMAIN vault' PROVE IsRule(vault'[k])
      <3>1. vault'[k] = IF k = id THEN rule ELSE vault[k]
        BY <1>2, <2>1, <2>2
      <3> QED
        BY <3>1, <2>1, <2>2 DEF TypeOK
    <2> QED
      BY <2>1, <2>2 DEF TypeOK
  <1> QED
    BY <1>1, <1>2 DEF WriteDependencyRuleToKernel

LEMMA TypeOKPreserved == TypeOK /\ [Next]_vars => TypeOK'
  <1> SUFFICES ASSUME TypeOK, [Next]_vars PROVE TypeOK'
    OBVIOUS
  <1> USE DEF stores, bounds
  <1>1. ASSUME NEW d \in Dags, SubmitDAG(d) PROVE TypeOK'
    <2>1. [type |-> "DAG_ARRIVED", dag |-> d] \in Event
      BY DEF Event
    <2>2. eventChan' \in Seq(Event) /\ Len(eventChan') <= ChanCap
      BY <1>1, <2>1, SendTypeOK DEF SubmitDAG
    <2>3. submits' \in [Dags -> 0..MaxSubmits]
      BY <1>1, BoundsAssumption DEF SubmitDAG, TypeOK
    <2> QED
      BY <1>1, <2>2, <2>3 DEF SubmitDAG, TypeOK
  <1>2. ASSUME NEW w \in Workers, ReportIdle(w) PROVE TypeOK'
    <2>1. [type |-> "WORKER_IDLE", worker |-> w] \in Event
      BY DEF Event
    <2>2. eventChan' \in Seq(Event) /\ Len(eventChan') <= ChanCap
      BY <1>2, <2>1, SendTypeOK DEF ReportIdle
    <2>3. idleReports' \in 0..MaxIdleReports
      BY <1>2, BoundsAssumption DEF ReportIdle, TypeOK
    <2> QED
      BY <1>2, <2>2, <2>3 DEF ReportIdle, TypeOK
  <1>3. CASE RegisterArrivedDAG
    <2>1. Head(eventChan).dag \in Dags
      BY <1>3, ReceiveTypeOK DEF RegisterArrivedDAG, Receive, Event
    <2>2. taskState' \in [Tasks -> TaskStates]
      BY <1>3, UpdateTaskStateType DEF RegisterArrivedDAG, TypeOK, TaskStates
    <2>3. dagState' \in [Dags \cup Tasks ->
                            {"NONE", "ACTIVE", "COMPLETED", "FAILED"}]
      BY <1>3, <2>1 DEF RegisterArrivedDAG, TypeOK
    <2>4. registered' \subseteq Dags /\ pq' \subseteq Tasks
      BY <1>3, <2>1 DEF RegisterArrivedDAG, TypeOK, TasksOf
    <2> QED
      BY <1>3, <2>2, <2>3, <2>4, ReceiveTypeOK DEF RegisterArrivedDAG, TypeOK
  <1>4. CASE RejectArrivedDAG
    <2>1. Head(eventChan).dag \in Dags
      BY <1>4, ReceiveTypeOK DEF RejectArrivedDAG, Receive, Event
    <2>2. dagState' \in [Dags \cup Tasks ->
                            {"NONE", "ACTIVE", "COMPLETED", "FAILED"}]
      BY <1>4, <2>1 DEF RejectArrivedDAG, TypeOK
    <2> QED
      BY <1>4, <2>2, ReceiveTypeOK DEF RejectArrivedDAG, TypeOK
  <1>5. CASE CompleteTask
    <2> DEFINE t == Head(eventChan).task
               w == Head(eventChan).worker
    <2>1. t \in Tasks /\ w \in Workers
      BY <1>5, ReceiveTypeOK DEF CompleteTask, Receive, Event
    <2>2. rem' \in [Tasks -> Nat]
      BY <1>5, DecrementType DEF CompleteTask, TypeOK
    <2>3. taskState' \in [Tasks -> TaskStates]
      BY <1>5, UpdateTaskStateType DEF CompleteTask, TypeOK, TaskStates
    <2>4. extractDAGID(t) \in Dags \cup Tasks
      BY <2>1, SetsAssumption DEF extractDAGID
    <2>5. dagState' \in [Dags \cup Tasks ->
                            {"NONE", "ACTIVE", "COMPLETED", "FAILED"}]
      BY <1>5, <2>4 DEF CompleteTask, TypeOK
    <2>6. workerState' \in [Workers -> {"IDLE", "BUSY"}]
      BY <1>5, <2>1 DEF CompleteTask, TypeOK
    <2>7. Succs(t) \subseteq Tasks
      BY <2>1, GraphAssumption DEF Succs
    <2>8. pq' \subseteq Tasks
      BY <1>5, <2>7 DEF CompleteTask, TypeOK
    <2> QED
      BY <1>5, <2>2, <2>3, <2>5, <2>6, <2>8, ReceiveTypeOK
      DEF CompleteTask, TypeOK
  <1>6. CASE MarkWorkerIdle
    <2>1. Head(eventChan).worker \in Workers
      BY <1>6, ReceiveTypeOK DEF MarkWorkerIdle, Receive, Event
    <2> QED
      BY <1>6, <2>1, ReceiveTypeOK DEF MarkWorkerIdle, TypeOK
  <1>7. ASSUME NEW t \in pq, NEW w \in Workers, DispatchTask(t, w) PROVE TypeOK'
    <2>1. t \in Tasks
      BY DEF TypeOK
    <2>2. taskState' \in [Tasks -> TaskStates]
      <3>1. UpdateTaskState(taskState[t], "RUNNING") \in TaskStates
        <4>1. taskState[t] \in TaskStates
          BY <2>1 DEF TypeOK
        <4>2. "RUNNING" \in TaskStates
          BY DEF TaskStates
        <4> QED
          BY <4>1, <4>2, UpdateTaskStateType
      <3> QED
        BY <1>7, <2>1, <3>1 DEF DispatchTask, TypeOK
    <2>3. PICK place \in [Succs(t) -> Workers] :
            /\ assigned' = [u \in Tasks |-> IF u = t THEN w
                                            ELSE IF u \in Succs(t) THEN place[u]
                                            ELSE assigned[u]]
            /\ WriteDependencyRuleToKernel(NumId[t], RuleFor(t, place))
      BY <1>7 DEF DispatchTask
    <2>4. assigned' \in [Tasks -> Workers \cup {0}]
      BY <2>3 DEF TypeOK
    <2>5. /\ DOMAIN vault' \subseteq NumIds
          /\ \A k \in DOMAIN vault' : IsRule(vault'[k])
      BY <2>1, <2>3, RuleForType, VaultType DEF NumIds
    <2>6. inflight' \subseteq Goroutine
      BY <1>7, <2>1 DEF DispatchTask, TypeOK, Goroutine
    <2>7. workerState' \in [Workers -> {"IDLE", "BUSY"}]
      BY <1>7 DEF DispatchTask, TypeOK
    <2> QED
      BY <1>7, <2>2, <2>4, <2>5, <2>6, <2>7 DEF DispatchTask, TypeOK
  <1>8. CASE EndScheduling \/ Stop
    BY <1>8 DEF EndScheduling, Stop, TypeOK
  <1>9. ASSUME NEW g \in inflight, GoroutineStep(g) PROVE TypeOK'
    <2>1. g \in Goroutine
      BY DEF TypeOK
    <2>2. CASE SendTrigger(g) \/ EndPing(g)
      <3>1. inflight' \subseteq Goroutine
        <4>1. /\ [g EXCEPT !.phase = "await"] \in Goroutine
              /\ [g EXCEPT !.phase = "report"] \in Goroutine
          BY <2>1 DEF Goroutine
        <4> QED
          BY <2>2, <4>1 DEF SendTrigger, EndPing, TypeOK
      <3> QED
        BY <2>2, <3>1 DEF SendTrigger, EndPing, TypeOK
    <2>3. CASE ReportCompleted(g)
      <3>1. [type |-> "TASK_COMPLETED", task |-> g.task, worker |-> g.worker]
                \in Event
        BY <2>1 DEF Event, Goroutine
      <3>2. eventChan' \in Seq(Event) /\ Len(eventChan') <= ChanCap
        BY <2>3, <3>1, SendTypeOK DEF ReportCompleted
      <3> QED
        BY <2>3, <3>2 DEF ReportCompleted, TypeOK
    <2> QED
      BY <1>9, <2>2, <2>3 DEF GoroutineStep
  <1>10. CASE UNCHANGED vars
    BY <1>10 DEF vars, TypeOK
  <1> QED
    BY <1>1, <1>2, <1>3, <1>4, <1>5, <1>6, <1>7, <1>8, <1>9, <1>10
    DEF Next, ReactorStep

\* The stores, the queue, the kernel map and the channel keep to their types,
\* the channel to its capacity.
THEOREM TypeCorrect == Spec => []TypeOK
  BY InitTypeOK, TypeOKPreserved, PTL DEF Spec

-----------------------------------------------------------------------------
\* What the handlers do to the state of the tasks, given the invariant

LEMMA PredFacts ==
    /\ \A t \in Tasks : Pred(t) \subseteq Tasks /\ IsFiniteSet(Pred(t))
    /\ \A t \in Tasks : Succs(t) \subseteq Tasks
    /\ \A s, t \in Tasks : s \in Succs(t) <=> t \in Pred(s)
    /\ \A s, t \in Tasks : s \in Succs(t) => s # t /\ DagOf[s] = DagOf[t]
  <1>1. \A t \in Tasks : Pred(t) \subseteq Tasks
    BY DEF Pred
  <1>2. \A t \in Tasks : IsFiniteSet(Pred(t))
    BY <1>1, SetsAssumption, FS_Subset
  <1>3. \A t \in Tasks : Succs(t) \subseteq Tasks
    BY GraphAssumption DEF Succs
  <1>4. \A s, t \in Tasks : s \in Succs(t) <=> t \in Pred(s)
    BY DEF Pred
  <1>5. \A s, t \in Tasks : s \in Succs(t) => DagOf[s] = DagOf[t]
    BY GraphAssumption
  <1>6. \A s, t \in Tasks : s \in Succs(t) => s # t
    <2>1. PICK height \in [Tasks -> 0..Cardinality(Tasks)] :
            \A t \in Tasks : \A s \in Succs(t) : height[s] < height[t]
      BY GraphAssumption
    <2>2. Cardinality(Tasks) \in Nat
      BY SetsAssumption, FS_CardinalityType
    <2> QED
      BY <2>1, <2>2
  <1> QED
    BY <1>1, <1>2, <1>3, <1>4, <1>5, <1>6

\* The event at the head of the channel when a completion is handled names a
\* running task and the worker that ran it.
LEMMA HeadReport ==
    ASSUME CoreInv, CompleteTask
    PROVE  /\ Head(eventChan).task \in Tasks
           /\ Head(eventChan).worker \in Workers
           /\ Head(eventChan) = eventChan[1]
           /\ 1 \in DOMAIN eventChan
           /\ IsReport(1)
           /\ taskState[Head(eventChan).task] = "RUNNING"
           /\ assigned[Head(eventChan).task] = Head(eventChan).worker
  <1>1. /\ Head(eventChan) \in Event
        /\ Head(eventChan) = eventChan[1]
        /\ 1 \in DOMAIN eventChan
    BY ReceivedEvent DEF CoreInv, TypeOK, CompleteTask, Receive
  <1>2. IsReport(1)
    BY <1>1 DEF CompleteTask, Receive, IsReport
  <1>3. Head(eventChan).task \in Tasks /\ Head(eventChan).worker \in Workers
    BY <1>1, <1>2 DEF Event, IsReport
  <1> QED
    BY <1>1, <1>2, <1>3 DEF CoreInv, RunnersExact, ReportsRun

\* The task whose completion is being handled, and the successors it releases.
Reported == Head(eventChan).task
Released == {s \in Succs(Reported) : DecrementIndegree(rem[s]) = 0}

\* EventTaskCompleted: the task is completed, the successors whose count falls
\* to 0 become ready, and all its successors were waiting before.
LEMMA CompleteTaskStates ==
    ASSUME CoreInv, CompleteTask
    PROVE  /\ Reported \in Tasks
           /\ taskState[Reported] = "RUNNING"
           /\ Released \subseteq Tasks \ {Reported}
           /\ \A s \in Succs(Reported) : taskState[s] \in {"WAITING", "FAILED"}
           /\ taskState' = [s \in Tasks |-> IF s = Reported THEN "COMPLETED"
                                            ELSE IF s \in Released THEN "READY"
                                            ELSE taskState[s]]
           /\ pq' = pq \cup Released
  <1>1. Reported \in Tasks /\ taskState[Reported] = "RUNNING"
    BY HeadReport DEF Reported
  <1>2. \A s \in Succs(Reported) : s \in Tasks /\ s # Reported /\ Reported \in Pred(s)
                            /\ DagOf[s] = DagOf[Reported]
    BY <1>1, PredFacts
  <1>3. \A s \in Succs(Reported) : taskState[s] \notin {"READY", "RUNNING", "COMPLETED"}
    BY <1>1, <1>2 DEF CoreInv, PrecedenceRespected, Done
  <1>4. \A s \in Succs(Reported) : taskState[s] # "NONE"
    BY <1>1, <1>2 DEF CoreInv, StatesKnown
  <1>5. \A s \in Succs(Reported) : taskState[s] \in {"WAITING", "FAILED"}
    <2>1. \A s \in Tasks : taskState[s] \in TaskStates
      BY DEF CoreInv, TypeOK
    <2> QED
      BY <2>1, <1>2, <1>3, <1>4 DEF TaskStates
  <1>6. UpdateTaskState(taskState[Reported], "COMPLETED") = "COMPLETED"
    BY <1>1 DEF UpdateTaskState
  <1>7. \A s \in Released : UpdateTaskState(taskState[s], "READY") = "READY"
    BY <1>5 DEF UpdateTaskState, Released
  <1>8. taskState' = [s \in Tasks |->
            IF s = Reported THEN UpdateTaskState(taskState[Reported], "COMPLETED")
            ELSE IF s \in Released THEN UpdateTaskState(taskState[s], "READY")
            ELSE taskState[s]]
    BY DEF CompleteTask, Reported, Released
  <1>9. pq' = pq \cup Released
    BY DEF CompleteTask, Reported, Released
  <1> QED
    BY <1>1, <1>2, <1>5, <1>6, <1>7, <1>8, <1>9 DEF Released

\* EventDAGArrived: the tasks of the DAG had no state; the entries become ready
\* and the others wait.
LEMMA RegisterStates ==
    ASSUME CoreInv, RegisterArrivedDAG, NEW d, d = Head(eventChan).dag
    PROVE  /\ d \in Dags
           /\ registered' = registered \cup {d}
           /\ \A t \in TasksOf(d) : taskState[t] = "NONE"
           /\ taskState' = [t \in Tasks |->
                 IF t \notin TasksOf(d) THEN taskState[t]
                 ELSE IF Pred(t) = {} THEN "READY" ELSE "WAITING"]
           /\ pq' = pq \cup {t \in TasksOf(d) : Pred(t) = {}}
  <1>1. d \in Dags
    BY ReceivedEvent
    DEF CoreInv, TypeOK, RegisterArrivedDAG, Receive, Event
  <1>2. \A t \in TasksOf(d) : t \in Tasks /\ taskState[t] = "NONE"
    BY DEF CoreInv, StatesKnown, RegisterArrivedDAG, TasksOf, AlreadyRegistered
  <1>3. \A new : UpdateTaskState("NONE", new) = new
    BY DEF UpdateTaskState
  <1>4. taskState' = [t \in Tasks |->
            IF t \in {u \in TasksOf(d) : Pred(u) = {}}
            THEN UpdateTaskState(taskState[t], "READY")
            ELSE IF t \in TasksOf(d) THEN UpdateTaskState(taskState[t], "WAITING")
            ELSE taskState[t]]
    BY DEF RegisterArrivedDAG, IsEntry
  <1>5. taskState' = [t \in Tasks |->
                 IF t \notin TasksOf(d) THEN taskState[t]
                 ELSE IF Pred(t) = {} THEN "READY" ELSE "WAITING"]
    BY <1>2, <1>3, <1>4
  <1> QED
    BY <1>1, <1>2, <1>5 DEF RegisterArrivedDAG, IsEntry

\* dispatchTask: a ready task becomes running on the worker that was idle.
LEMMA DispatchStates ==
    ASSUME CoreInv, NEW t \in pq, NEW w \in Workers, DispatchTask(t, w)
    PROVE  /\ t \in Tasks
           /\ taskState[t] = "READY"
           /\ taskState' = [taskState EXCEPT ![t] = "RUNNING"]
           /\ assigned'[t] = w
           /\ \A u \in Tasks : u # t /\ u \notin Succs(t)
                                  => assigned'[u] = assigned[u]
           /\ \A u \in Succs(t) : taskState[u] \notin {"READY", "RUNNING", "COMPLETED"}
  <1>1. t \in Tasks /\ taskState[t] = "READY"
    BY DEF CoreInv, QueueIsReady
  <1>2. UpdateTaskState("READY", "RUNNING") = "RUNNING"
    BY DEF UpdateTaskState
  <1>3. taskState' = [taskState EXCEPT ![t] = UpdateTaskState(@, "RUNNING")]
    BY DEF DispatchTask
  <1>4. PICK place \in [Succs(t) -> Workers] :
            assigned' = [u \in Tasks |-> IF u = t THEN w
                                         ELSE IF u \in Succs(t) THEN place[u]
                                         ELSE assigned[u]]
    BY DEF DispatchTask
  <1>5. \A u \in Succs(t) : taskState[u] \notin {"READY", "RUNNING", "COMPLETED"}
    BY <1>1, PredFacts DEF CoreInv, PrecedenceRespected, Done
  <1> QED
    BY <1>1, <1>2, <1>3, <1>4, <1>5

\* The other steps of the system do not touch the tasks' states.
OtherStep ==
    \/ \E d \in Dags : SubmitDAG(d)
    \/ \E w \in Workers : ReportIdle(w)
    \/ RejectArrivedDAG \/ MarkWorkerIdle \/ EndScheduling \/ Stop
    \/ \E g \in inflight : GoroutineStep(g)
    \/ UNCHANGED vars

LEMMA StepCases ==
    ASSUME [Next]_vars
    PROVE  \/ RegisterArrivedDAG \/ CompleteTask
           \/ \E t \in pq, w \in Workers : DispatchTask(t, w)
           \/ OtherStep
  BY DEF Next, ReactorStep, OtherStep

LEMMA OtherStates ==
    ASSUME OtherStep
    PROVE  UNCHANGED <<registered, rem, taskState, pq, assigned>>
  BY DEF OtherStep, SubmitDAG, ReportIdle, RejectArrivedDAG, MarkWorkerIdle,
         EndScheduling, Stop, GoroutineStep, SendTrigger, EndPing,
         ReportCompleted, vars, stores

-----------------------------------------------------------------------------
\* The invariant is inductive, one lemma for each of its parts

LEMMA StatesKnownPreserved ==
    CoreInv /\ [Next]_vars => StatesKnown'
  <1> SUFFICES ASSUME CoreInv, [Next]_vars PROVE StatesKnown'
    OBVIOUS
  <1>1. CASE RegisterArrivedDAG
    <2> DEFINE d == Head(eventChan).dag
    <2>1. registered' = registered \cup {d}
      BY <1>1, RegisterStates
    <2>2. \A t \in TasksOf(d) : taskState'[t] # "NONE" /\ DagOf[t] = d
      BY <1>1, RegisterStates DEF TasksOf
    <2>3. \A t \in Tasks \ TasksOf(d) : taskState'[t] = taskState[t] /\ DagOf[t] # d
      BY <1>1, RegisterStates DEF TasksOf
    <2> QED
      BY <2>1, <2>2, <2>3 DEF StatesKnown, CoreInv
  <1>2. CASE CompleteTask
    <2>1. registered' = registered
      BY <1>2 DEF CompleteTask
    <2> QED
      BY <1>2, <2>1, CompleteTaskStates DEF StatesKnown, CoreInv, Released
  <1>3. ASSUME NEW t \in pq, NEW w \in Workers, DispatchTask(t, w)
        PROVE  StatesKnown'
    <2>1. registered' = registered
      BY <1>3 DEF DispatchTask
    <2> QED
      BY <1>3, <2>1, DispatchStates DEF StatesKnown, CoreInv, TypeOK
  <1>4. CASE OtherStep
    BY <1>4, OtherStates DEF StatesKnown, CoreInv
  <1> QED
    BY <1>1, <1>2, <1>3, <1>4, StepCases

LEMMA QueueIsReadyPreserved ==
    CoreInv /\ [Next]_vars => QueueIsReady'
  <1> SUFFICES ASSUME CoreInv, [Next]_vars PROVE QueueIsReady'
    OBVIOUS
  <1>1. CASE RegisterArrivedDAG
    <2> DEFINE d == Head(eventChan).dag
    <2>1. pq' = pq \cup {t \in TasksOf(d) : Pred(t) = {}}
      BY <1>1, RegisterStates
    <2>2. \A t \in TasksOf(d) : /\ t \in Tasks /\ taskState[t] = "NONE"
                                /\ taskState'[t] = "READY" <=> Pred(t) = {}
      BY <1>1, RegisterStates DEF TasksOf
    <2>3. \A t \in Tasks \ TasksOf(d) : taskState'[t] = taskState[t]
      BY <1>1, RegisterStates
    <2> QED
      BY <2>1, <2>2, <2>3 DEF QueueIsReady, CoreInv
  <1>2. CASE CompleteTask
    BY <1>2, CompleteTaskStates DEF QueueIsReady, CoreInv
  <1>3. ASSUME NEW t \in pq, NEW w \in Workers, DispatchTask(t, w)
        PROVE  QueueIsReady'
    <2>1. pq' = pq \ {t}
      BY <1>3 DEF DispatchTask
    <2> QED
      BY <1>3, <2>1, DispatchStates DEF QueueIsReady, CoreInv, TypeOK
  <1>4. CASE OtherStep
    BY <1>4, OtherStates DEF QueueIsReady, CoreInv
  <1> QED
    BY <1>1, <1>2, <1>3, <1>4, StepCases

LEMMA CountersExactPreserved ==
    CoreInv /\ [Next]_vars => CountersExact'
  <1> SUFFICES ASSUME CoreInv, [Next]_vars PROVE CountersExact'
    OBVIOUS
  <1> USE DEF CoreInv
  <1>1. CASE RegisterArrivedDAG
    <2>1. rem' = rem
      BY <1>1 DEF RegisterArrivedDAG
    <2>2. \A t \in Tasks : Done(t)' <=> Done(t)
      BY <1>1, RegisterStates DEF Done, TasksOf
    <2>3. \A t \in Tasks : Unfinished(t)' = Unfinished(t)
      BY <2>2, PredFacts DEF Unfinished
    <2> QED
      BY <2>1, <2>3 DEF CountersExact
  <1>2. CASE CompleteTask
    <2> DEFINE t == Reported
    <2>1. t \in Tasks /\ taskState[t] = "RUNNING"
      BY <1>2, CompleteTaskStates
    <2>2. \A u \in Tasks : Done(u)' <=> Done(u) \/ u = t
      <3>1. \A u \in Released : taskState[u] # "COMPLETED"
        BY <1>2, CompleteTaskStates DEF Released
      <3>2. \A u \in Tasks : taskState'[u] = IF u = t THEN "COMPLETED"
                                             ELSE IF u \in Released THEN "READY"
                                             ELSE taskState[u]
        BY <1>2, CompleteTaskStates
      <3> QED
        BY <3>1, <3>2 DEF Done
    <2>3. \A s \in Tasks : Unfinished(s)' = Unfinished(s) \ {t}
      BY <2>2, PredFacts DEF Unfinished
    <2> SUFFICES ASSUME NEW s \in Tasks
                 PROVE  \/ rem'[s] = Cardinality(Unfinished(s)')
                        \/ rem'[s] = 0 /\ Cardinality(Pred(s)) <= 1
      BY DEF CountersExact
    <2>4. IsFiniteSet(Unfinished(s))
      BY PredFacts, FS_Subset DEF Unfinished
    <2>5. CASE s \in Succs(t)
      <3>1. t \in Unfinished(s)
        BY <2>1, <2>5, PredFacts DEF Unfinished, Done
      <3>2. /\ Cardinality(Unfinished(s) \ {t}) = Cardinality(Unfinished(s)) - 1
            /\ Cardinality(Unfinished(s)) \in Nat
            /\ Cardinality(Unfinished(s) \ {t}) \in Nat
        BY <2>4, <3>1, FS_RemoveElement, FS_CardinalityType
      <3>3. rem'[s] = DecrementIndegree(rem[s])
        BY <1>2, <2>5 DEF CompleteTask, Reported
      <3>4. CASE rem[s] = Cardinality(Unfinished(s))
        <4>1. Cardinality(Unfinished(s)) > 0
          BY <3>2
        <4> QED
          BY <2>3, <3>2, <3>3, <3>4, <4>1 DEF DecrementIndegree
      <3>5. CASE rem[s] = 0 /\ Cardinality(Pred(s)) <= 1
        BY <3>3, <3>5 DEF DecrementIndegree
      <3> QED
        BY <3>4, <3>5 DEF CountersExact
    <2>6. CASE s \notin Succs(t)
      <3>1. t \notin Unfinished(s)
        BY <2>1, <2>6, PredFacts DEF Unfinished
      <3>2. rem'[s] = rem[s]
        BY <1>2, <2>6 DEF CompleteTask, Reported
      <3>3. Unfinished(s)' = Unfinished(s)
        BY <2>3, <3>1
      <3> QED
        BY <3>2, <3>3 DEF CountersExact
    <2> QED
      BY <2>5, <2>6
  <1>3. ASSUME NEW t \in pq, NEW w \in Workers, DispatchTask(t, w)
        PROVE  CountersExact'
    <2>1. rem' = rem
      BY <1>3 DEF DispatchTask
    <2>2. \A u \in Tasks : Done(u)' <=> Done(u)
      BY <1>3, DispatchStates DEF Done, TypeOK
    <2>3. \A u \in Tasks : Unfinished(u)' = Unfinished(u)
      BY <2>2, PredFacts DEF Unfinished
    <2> QED
      BY <2>1, <2>3 DEF CountersExact
  <1>4. CASE OtherStep
    <2>1. \A u \in Tasks : Unfinished(u)' = Unfinished(u)
      BY <1>4, OtherStates, PredFacts DEF Unfinished, Done
    <2> QED
      BY <1>4, <2>1, OtherStates DEF CountersExact
  <1> QED
    BY <1>1, <1>2, <1>3, <1>4, StepCases

LEMMA PrecedencePreserved ==
    CoreInv /\ [Next]_vars => PrecedenceRespected'
  <1> SUFFICES ASSUME CoreInv, [Next]_vars PROVE PrecedenceRespected'
    OBVIOUS
  <1> DEFINE Started == {"READY", "RUNNING", "COMPLETED"}
  <1>1. CASE RegisterArrivedDAG
    <2> DEFINE d == Head(eventChan).dag
    <2>1. \A t \in TasksOf(d) : taskState[t] = "NONE"
                               /\ (taskState'[t] \in Started => Pred(t) = {})
      BY <1>1, RegisterStates DEF TasksOf
    <2>2. \A t \in Tasks \ TasksOf(d) : taskState'[t] = taskState[t]
      BY <1>1, RegisterStates
    <2>3. \A t \in Tasks : Done(t) => Done(t)'
      BY <2>1, <2>2 DEF Done
    <2> QED
      BY <2>1, <2>2, <2>3, PredFacts DEF PrecedenceRespected, CoreInv
  <1>2. CASE CompleteTask
    <2>1. \A u \in Tasks : taskState'[u] = IF u = Reported THEN "COMPLETED"
                                           ELSE IF u \in Released THEN "READY"
                                           ELSE taskState[u]
      BY <1>2, CompleteTaskStates
    <2>2. \A u \in Tasks : Done(u) => Done(u)'
      <3>1. \A u \in Released : taskState[u] # "COMPLETED"
        BY <1>2, CompleteTaskStates DEF Released
      <3> QED
        BY <2>1, <3>1 DEF Done
    <2>3. ASSUME NEW s \in Released, NEW p \in Pred(s) PROVE Done(p)'
      <3>1. /\ s \in Tasks /\ s # Reported /\ Reported \in Pred(s)
            /\ Reported \in Tasks /\ p \in Tasks
        BY <1>2, CompleteTaskStates, PredFacts DEF Released
      <3>2. rem'[s] = 0
        BY <1>2, <2>3, <3>1 DEF CompleteTask, Released, Reported
      <3>3. CountersExact'
        BY CountersExactPreserved
      <3>4. CASE Cardinality(Unfinished(s)') = 0
        <4>1. IsFiniteSet(Unfinished(s)')
          BY <3>1, PredFacts, FS_Subset DEF Unfinished
        <4>2. Unfinished(s)' = {}
          BY <3>4, <4>1, FS_EmptySet
        <4> QED
          BY <4>2, <2>3 DEF Unfinished
      <3>5. CASE Cardinality(Pred(s)) <= 1
        <4>1. IsFiniteSet(Pred(s)) /\ Cardinality(Pred(s)) \in Nat
          BY <3>1, PredFacts, FS_CardinalityType
        <4>2. /\ IsFiniteSet(Pred(s) \ {Reported})
              /\ Cardinality(Pred(s) \ {Reported}) = Cardinality(Pred(s)) - 1
          BY <3>1, <4>1, FS_RemoveElement
        <4>3. Cardinality(Pred(s) \ {Reported}) = 0
          BY <3>5, <4>1, <4>2, FS_CardinalityType
        <4>4. Pred(s) \ {Reported} = {}
          BY <4>2, <4>3, FS_EmptySet
        <4>5. p = Reported
          BY <2>3, <4>4
        <4> QED
          BY <2>1, <3>1, <4>5 DEF Done
      <3> QED
        BY <3>1, <3>2, <3>3, <3>4, <3>5 DEF CountersExact
    <2>4. ASSUME NEW s \in Tasks \ Released, taskState'[s] \in Started,
                 NEW p \in Pred(s)
          PROVE  Done(p)'
      <3>1. taskState[s] \in Started
        BY <1>2, <2>1, <2>4, CompleteTaskStates
      <3> QED
        BY <2>2, <2>4, <3>1, PredFacts DEF PrecedenceRespected, CoreInv
    <2> QED
      BY <2>3, <2>4 DEF PrecedenceRespected
  <1>3. ASSUME NEW t \in pq, NEW w \in Workers, DispatchTask(t, w)
        PROVE  PrecedenceRespected'
    <2>1. \A u \in Tasks : /\ Done(u) <=> Done(u)'
                           /\ taskState'[u] \in Started => taskState[u] \in Started
      BY <1>3, DispatchStates DEF Done, CoreInv, TypeOK
    <2> QED
      BY <2>1, PredFacts DEF PrecedenceRespected, CoreInv
  <1>4. CASE OtherStep
    BY <1>4, OtherStates, PredFacts DEF PrecedenceRespected, Done, CoreInv
  <1> QED
    BY <1>1, <1>2, <1>3, <1>4, StepCases

-----------------------------------------------------------------------------
\* Goroutines and completion events.  A receive moves the events that stay one
\* place forward (off = 1), a send moves none (off = 0).

ReportsKept(off, gone) ==
    /\ \A i \in DOMAIN eventChan' : IsReport(i)' =>
          i + off \in DOMAIN eventChan /\ eventChan[i + off] = eventChan'[i]
    /\ \A i \in DOMAIN eventChan : IsReport(i) /\ i # gone =>
          i - off \in DOMAIN eventChan' /\ eventChan'[i - off] = eventChan[i]

LEMMA SendKeepsReports ==
    ASSUME TypeOK, NEW e \in Event, Send(e), e.type # "TASK_COMPLETED"
    PROVE  ReportsKept(0, 0)
  <1>1. /\ eventChan' = Append(eventChan, e)
        /\ DOMAIN eventChan' = DOMAIN eventChan \cup {Len(eventChan) + 1}
        /\ \A i \in DOMAIN eventChan : i \in Nat /\ eventChan'[i] = eventChan[i]
        /\ eventChan'[Len(eventChan) + 1] = e
    BY SentEvent DEF TypeOK, Send
  <1> QED
    BY <1>1 DEF ReportsKept, IsReport

LEMMA ReceiveKeepsReports ==
    ASSUME TypeOK, NEW type, Receive(type)
    PROVE  /\ ReportsKept(1, 1)
           /\ 1 \in DOMAIN eventChan
           /\ eventChan[1] = Head(eventChan)
           /\ \A i \in DOMAIN eventChan' : i \in Nat \ {0}
           /\ type # "TASK_COMPLETED" => ~IsReport(1)
  <1>1. eventChan \in Seq(Event) /\ eventChan # <<>>
    BY DEF TypeOK, Receive
  <1>2. /\ eventChan' = Tail(eventChan)
        /\ Head(eventChan).type = type
    BY DEF Receive
  <1>3. /\ \A i \in DOMAIN eventChan' :
              i \in Nat \ {0} /\ i + 1 \in DOMAIN eventChan
              /\ eventChan'[i] = eventChan[i + 1]
        /\ \A i \in DOMAIN eventChan : i # 1 =>
              i - 1 \in DOMAIN eventChan' /\ eventChan'[i - 1] = eventChan[i]
        /\ 1 \in DOMAIN eventChan
        /\ eventChan[1] = Head(eventChan)
    BY <1>1, <1>2
  <1> QED
    BY <1>2, <1>3 DEF ReportsKept, IsReport

LEMMA SameKeepsReports ==
    ASSUME TypeOK, UNCHANGED eventChan
    PROVE  ReportsKept(0, 0)
  <1>1. \A i \in DOMAIN eventChan : i \in Nat
    BY DEF TypeOK
  <1> QED
    BY <1>1 DEF ReportsKept, IsReport

LEMMA ShiftInjective == \A i, j, off \in Int : i + off = j + off => i = j
  OBVIOUS

\* Steps that start, finish and hand over no task.
LEMMA RunnersFrame ==
    ASSUME TypeOK, TypeOK', RunnersExact, UNCHANGED inflight,
           \A t \in Tasks : taskState'[t] = "RUNNING" <=> taskState[t] = "RUNNING",
           \A t \in Tasks : taskState[t] = "RUNNING" => assigned'[t] = assigned[t],
           NEW off \in {0, 1}, NEW gone, ReportsKept(off, gone),
           gone \in DOMAIN eventChan => ~IsReport(gone)
    PROVE  RunnersExact'
  <1>1. \A g \in inflight : g.task \in Tasks
    BY DEF TypeOK, Goroutine
  <1>2. \A i \in DOMAIN eventChan : /\ i \in Nat
                                    /\ IsReport(i) => eventChan[i].task \in Tasks
    BY DEF TypeOK, Event, IsReport
  <1>3. \A i \in DOMAIN eventChan' : IsReport(i)' =>
          /\ i + off \in DOMAIN eventChan
          /\ eventChan[i + off] = eventChan'[i]
          /\ IsReport(i + off)
    BY DEF ReportsKept, IsReport
  <1>4. \A i \in DOMAIN eventChan : IsReport(i) =>
          /\ i - off \in DOMAIN eventChan'
          /\ eventChan'[i - off] = eventChan[i]
          /\ IsReport(i - off)'
    BY DEF ReportsKept, IsReport
  <1>5. GoroutinesRun'
    BY <1>1 DEF RunnersExact, GoroutinesRun
  <1>6. ReportsRun'
    BY <1>2, <1>3 DEF RunnersExact, ReportsRun
  <1>7. OneGoroutineEach'
    BY DEF RunnersExact, OneGoroutineEach
  <1>8. OneReportEach'
    <2> SUFFICES ASSUME NEW i \in DOMAIN eventChan', NEW j \in DOMAIN eventChan',
                        IsReport(i)', IsReport(j)',
                        eventChan'[i].task = eventChan'[j].task
                 PROVE  i = j
      BY DEF OneReportEach
    <2>1. i + off = j + off
      BY <1>3 DEF RunnersExact, OneReportEach
    <2>2. i \in Int /\ j \in Int /\ off \in Int
      BY DEF TypeOK
    <2> QED
      BY <2>1, <2>2, ShiftInjective
  <1>9. NoReportWhileRunning'
    BY <1>3 DEF RunnersExact, NoReportWhileRunning
  <1>10. RunningIsUnderWay'
    BY <1>4 DEF RunnersExact, RunningIsUnderWay
  <1> QED
    BY <1>5, <1>6, <1>7, <1>8, <1>9, <1>10 DEF RunnersExact

LEMMA RunnersExactPreserved ==
    CoreInv /\ [Next]_vars => RunnersExact'
  <1> SUFFICES ASSUME CoreInv, [Next]_vars PROVE RunnersExact'
    OBVIOUS
  <1>0. TypeOK /\ TypeOK' /\ RunnersExact
    BY TypeOKPreserved DEF CoreInv
  <1>a. \A g \in inflight : g \in Goroutine /\ g.task \in Tasks
    BY <1>0 DEF TypeOK, Goroutine
  <1>b. \A i \in DOMAIN eventChan : /\ i \in Nat \ {0}
                                    /\ IsReport(i) => eventChan[i].task \in Tasks
    BY <1>0 DEF TypeOK, Event, IsReport
  <1>1. ASSUME NEW d \in Dags, SubmitDAG(d) PROVE RunnersExact'
    <2>1. ReportsKept(0, 0)
      BY <1>0, <1>1, SendKeepsReports DEF SubmitDAG, Event
    <2> QED
      BY <1>0, <1>1, <1>b, <2>1, RunnersFrame DEF SubmitDAG, stores
  <1>2. ASSUME NEW w \in Workers, ReportIdle(w) PROVE RunnersExact'
    <2>1. ReportsKept(0, 0)
      BY <1>0, <1>2, SendKeepsReports DEF ReportIdle, Event
    <2> QED
      BY <1>0, <1>2, <1>b, <2>1, RunnersFrame DEF ReportIdle, stores
  <1>3. CASE RegisterArrivedDAG
    <2>1. ReportsKept(1, 1) /\ ~IsReport(1)
      BY <1>0, <1>3, ReceiveKeepsReports DEF RegisterArrivedDAG
    <2>2. \A t \in Tasks : taskState'[t] = "RUNNING" <=> taskState[t] = "RUNNING"
      BY <1>3, RegisterStates
    <2> QED
      BY <1>0, <1>3, <2>1, <2>2, RunnersFrame DEF RegisterArrivedDAG
  <1>4. CASE RejectArrivedDAG \/ MarkWorkerIdle
    <2>1. ReportsKept(1, 1) /\ ~IsReport(1)
      BY <1>0, <1>4, ReceiveKeepsReports DEF RejectArrivedDAG, MarkWorkerIdle
    <2> QED
      BY <1>0, <1>4, <2>1, RunnersFrame DEF RejectArrivedDAG, MarkWorkerIdle
  <1>5. CASE EndScheduling \/ Stop \/ UNCHANGED vars
    <2>1. ReportsKept(0, 0)
      BY <1>0, <1>5, SameKeepsReports DEF EndScheduling, Stop, vars
    <2> QED
      BY <1>0, <1>5, <1>b, <2>1, RunnersFrame DEF EndScheduling, Stop, vars, stores
  <1>6. CASE CompleteTask
    <2>1. /\ ReportsKept(1, 1)
          /\ \A i \in DOMAIN eventChan' : i \in Nat \ {0}
      BY <1>0, <1>6, ReceiveKeepsReports DEF CompleteTask
    <2>2. /\ 1 \in DOMAIN eventChan /\ IsReport(1)
          /\ eventChan[1].task = Reported
      BY <1>6, HeadReport DEF Reported
    <2>3. inflight' = inflight /\ assigned' = assigned
      BY <1>6 DEF CompleteTask
    <2>4. \A t \in Tasks : taskState'[t] = "RUNNING"
                             <=> taskState[t] = "RUNNING" /\ t # Reported
      BY <1>6, CompleteTaskStates DEF Released
    <2>5. \A i \in DOMAIN eventChan' : IsReport(i)' =>
            /\ i + 1 \in DOMAIN eventChan
            /\ eventChan[i + 1] = eventChan'[i]
            /\ IsReport(i + 1)
            /\ eventChan'[i].task # Reported
      <3>1. \A i \in DOMAIN eventChan' : i + 1 # 1
        BY <2>1
      <3> QED
        BY <1>0, <2>1, <2>2, <3>1
        DEF ReportsKept, IsReport, RunnersExact, OneReportEach
    <2>6. \A g \in inflight : g.task # Reported
      BY <1>0, <2>2 DEF RunnersExact, NoReportWhileRunning
    <2>7. GoroutinesRun'
      BY <1>0, <1>a, <2>3, <2>4, <2>6 DEF RunnersExact, GoroutinesRun
    <2>8. ReportsRun'
      BY <1>0, <1>b, <2>3, <2>4, <2>5 DEF RunnersExact, ReportsRun
    <2>9. OneReportEach'
      <3> SUFFICES ASSUME NEW i \in DOMAIN eventChan', NEW j \in DOMAIN eventChan',
                          IsReport(i)', IsReport(j)',
                          eventChan'[i].task = eventChan'[j].task
                   PROVE  i = j
        BY DEF OneReportEach
      <3>1. i + 1 = j + 1
        BY <1>0, <2>5 DEF RunnersExact, OneReportEach
      <3> QED
        BY <2>1, <3>1
    <2>10. OneGoroutineEach' /\ NoReportWhileRunning'
      BY <1>0, <2>3, <2>5
      DEF RunnersExact, OneGoroutineEach, NoReportWhileRunning
    <2>11. RunningIsUnderWay'
      <3>1. \A i \in DOMAIN eventChan : IsReport(i) /\ i # 1 =>
              i - 1 \in DOMAIN eventChan' /\ eventChan'[i - 1] = eventChan[i]
              /\ IsReport(i - 1)'
        BY <2>1 DEF ReportsKept, IsReport
      <3> QED
        BY <1>0, <2>2, <2>3, <2>4, <3>1 DEF RunnersExact, RunningIsUnderWay
    <2> QED
      BY <2>7, <2>8, <2>9, <2>10, <2>11 DEF RunnersExact
  <1>7. ASSUME NEW t \in pq, NEW w \in Workers, DispatchTask(t, w)
        PROVE  RunnersExact'
    <2> DEFINE new == [task |-> t, worker |-> w, phase |-> "compute"]
    <2>1. inflight' = inflight \cup {new} /\ eventChan' = eventChan
      BY <1>7 DEF DispatchTask
    <2>2. /\ t \in Tasks /\ taskState[t] = "READY" /\ assigned'[t] = w
          /\ \A u \in Tasks : taskState'[u] = "RUNNING"
                                <=> taskState[u] = "RUNNING" \/ u = t
          /\ \A u \in Tasks : taskState[u] = "RUNNING" => assigned'[u] = assigned[u]
      BY <1>0, <1>7, DispatchStates DEF TypeOK
    <2>3. /\ \A g \in inflight : g.task # t
          /\ \A i \in DOMAIN eventChan : IsReport(i) => eventChan[i].task # t
      BY <1>0, <2>2 DEF RunnersExact, GoroutinesRun, ReportsRun
    <2>4. \A i \in DOMAIN eventChan : IsReport(i)' <=> IsReport(i)
      BY <2>1 DEF IsReport
    <2>5. GoroutinesRun' /\ OneGoroutineEach'
      BY <1>0, <1>a, <2>1, <2>2, <2>3
      DEF RunnersExact, GoroutinesRun, OneGoroutineEach
    <2>6. ReportsRun' /\ OneReportEach' /\ NoReportWhileRunning'
      BY <1>0, <1>b, <2>1, <2>2, <2>3, <2>4
      DEF RunnersExact, ReportsRun, OneReportEach, NoReportWhileRunning
    <2>7. RunningIsUnderWay'
      <3>1. new \in inflight' /\ new.task = t
        BY <2>1
      <3>2. \A u \in Tasks : taskState[u] = "RUNNING" =>
              \/ \E g \in inflight' : g.task = u
              \/ \E i \in DOMAIN eventChan' : IsReport(i)' /\ eventChan'[i].task = u
        BY <1>0, <2>1, <2>4 DEF RunnersExact, RunningIsUnderWay
      <3>3. \A u \in Tasks : taskState'[u] = "RUNNING" =>
              \/ \E g \in inflight' : g.task = u
              \/ \E i \in DOMAIN eventChan' : IsReport(i)' /\ eventChan'[i].task = u
        BY <2>2, <3>1, <3>2
      <3> QED
        BY <3>3 DEF RunningIsUnderWay
    <2> QED
      BY <2>5, <2>6, <2>7 DEF RunnersExact
  <1>8. ASSUME NEW g \in inflight, SendTrigger(g) \/ EndPing(g)
        PROVE  RunnersExact'
    <2>1. PICK h : /\ inflight' = (inflight \ {g}) \cup {h}
                   /\ h.task = g.task /\ h.worker = g.worker
      <3>1. CASE SendTrigger(g)
        <4> WITNESS [g EXCEPT !.phase = "await"]
        <4> QED
          BY <1>a, <3>1 DEF SendTrigger, Goroutine
      <3>2. CASE EndPing(g)
        <4> WITNESS [g EXCEPT !.phase = "report"]
        <4> QED
          BY <1>a, <3>2 DEF EndPing, Goroutine
      <3> QED
        BY <1>8, <3>1, <3>2
    <2>2. UNCHANGED <<taskState, assigned, eventChan>>
      BY <1>8 DEF SendTrigger, EndPing, stores
    <2>3. \A i \in DOMAIN eventChan : IsReport(i)' <=> IsReport(i)
      BY <2>2 DEF IsReport
    <2>4. GoroutinesRun' /\ OneGoroutineEach' /\ NoReportWhileRunning'
      BY <1>0, <2>1, <2>2, <2>3
      DEF RunnersExact, GoroutinesRun, OneGoroutineEach, NoReportWhileRunning
    <2>5. ReportsRun' /\ OneReportEach'
      BY <1>0, <2>2, <2>3 DEF RunnersExact, ReportsRun, OneReportEach
    <2>6. RunningIsUnderWay'
      BY <1>0, <2>1, <2>2, <2>3 DEF RunnersExact, RunningIsUnderWay
    <2> QED
      BY <2>4, <2>5, <2>6 DEF RunnersExact
  <1>9. ASSUME NEW g \in inflight, ReportCompleted(g) PROVE RunnersExact'
    <2> DEFINE e == [type |-> "TASK_COMPLETED", task |-> g.task,
                     worker |-> g.worker]
    <2> PICK n : n = Len(eventChan) + 1
      OBVIOUS
    <2>1. e \in Event
      BY <1>a DEF Event, Goroutine
    <2>2. /\ DOMAIN eventChan' = DOMAIN eventChan \cup {n}
          /\ \A i \in DOMAIN eventChan : eventChan'[i] = eventChan[i]
          /\ eventChan'[n] = e
          /\ n \notin DOMAIN eventChan
      BY <1>0, <1>9, <2>1, SentEvent DEF TypeOK, ReportCompleted, Send
    <2>3. /\ inflight' = inflight \ {g}
          /\ UNCHANGED <<taskState, assigned>>
      BY <1>9 DEF ReportCompleted, stores
    <2>4. /\ \A i \in DOMAIN eventChan : IsReport(i)' <=> IsReport(i)
          /\ IsReport(n)'
      BY <2>2 DEF IsReport
    <2>5. GoroutinesRun' /\ OneGoroutineEach'
      BY <1>0, <2>3 DEF RunnersExact, GoroutinesRun, OneGoroutineEach
    <2>6. ReportsRun'
      BY <1>0, <2>2, <2>3, <2>4 DEF RunnersExact, ReportsRun, GoroutinesRun
    <2>7. OneReportEach'
      BY <1>0, <2>2, <2>4
      DEF RunnersExact, OneReportEach, NoReportWhileRunning
    <2>8. NoReportWhileRunning'
      BY <1>0, <2>2, <2>3, <2>4
      DEF RunnersExact, NoReportWhileRunning, OneGoroutineEach
    <2>9. RunningIsUnderWay'
      BY <1>0, <2>2, <2>3, <2>4 DEF RunnersExact, RunningIsUnderWay
    <2> QED
      BY <2>5, <2>6, <2>7, <2>8, <2>9 DEF RunnersExact
  <1> QED
    BY <1>1, <1>2, <1>3, <1>4, <1>5, <1>6, <1>7, <1>8, <1>9, StepCases
    DEF OtherStep, GoroutineStep

LEMMA InitCoreInv == Init => CoreInv
  <1> SUFFICES ASSUME Init PROVE CoreInv
    OBVIOUS
  <1>1. TypeOK
    BY InitTypeOK
  <1>2. CountersExact
    <2>1. \A t \in Tasks : Unfinished(t) = Pred(t)
      BY PredFacts DEF Unfinished, Done, Init
    <2> QED
      BY <2>1, RemAssumption DEF CountersExact, Init
  <1>3. StatesKnown /\ PrecedenceRespected /\ QueueIsReady
    BY DEF Init, StatesKnown, PrecedenceRespected, QueueIsReady
  <1>4. RunnersExact
    BY DEF Init, RunnersExact, GoroutinesRun, ReportsRun, OneGoroutineEach,
           OneReportEach, NoReportWhileRunning, RunningIsUnderWay
  <1> QED
    BY <1>1, <1>2, <1>3, <1>4 DEF CoreInv

LEMMA CoreInvPreserved == CoreInv /\ [Next]_vars => CoreInv'
  BY TypeOKPreserved, CountersExactPreserved, StatesKnownPreserved,
     PrecedencePreserved, QueueIsReadyPreserved, RunnersExactPreserved
  DEF CoreInv

\* The inductive invariant of the scheduler core.
THEOREM CoreInvariant == Spec => []CoreInv
  BY InitCoreInv, CoreInvPreserved, PTL DEF Spec

\* No task is queued, runs or has run before all its predecessors completed:
\* DecrementIndegree and the release in EventTaskCompleted keep the order of
\* the DAG, whatever the interleaving of goroutines, duplicate submissions and
\* stray WORKER_IDLE events.
THEOREM Precedence == Spec => []PrecedenceRespected
  <1>1. CoreInv => PrecedenceRespected
    BY DEF CoreInv
  <1> QED
    BY <1>1, CoreInvariant, PTL

-----------------------------------------------------------------------------
\* A set with exactly one member, and one with none.
LEMMA OneMember ==
    ASSUME NEW S, NEW x \in S, \A y \in S : y = x
    PROVE  Cardinality(S) = 1
  <1>1. S = {x}
    OBVIOUS
  <1> QED
    BY <1>1, FS_Singleton

LEMMA NoMember ==
    ASSUME NEW S, \A y \in S : FALSE
    PROVE  Cardinality(S) = 0
  <1>1. S = {}
    OBVIOUS
  <1> QED
    BY <1>1, FS_EmptySet

LEMMA CoreInvMatch == CoreInv => QueueAndRunnersMatchStates
  <1> SUFFICES ASSUME CoreInv PROVE QueueAndRunnersMatchStates
    OBVIOUS
  <1> USE DEF Runs, Reports, IsReport
  <1>1. \A g \in inflight : g.task \in Tasks
    BY DEF CoreInv, TypeOK, Goroutine
  <1> SUFFICES ASSUME NEW t \in Tasks
               PROVE  Cardinality(Runs(t)) + Cardinality(Reports(t))
                         = IF taskState[t] = "RUNNING" THEN 1 ELSE 0
    BY DEF CoreInv, QueueIsReady, QueueAndRunnersMatchStates
  <1>2. CASE taskState[t] # "RUNNING"
    <2>1. \A g \in Runs(t) : FALSE
      BY <1>2 DEF CoreInv, RunnersExact, GoroutinesRun
    <2>2. \A i \in Reports(t) : FALSE
      BY <1>2 DEF CoreInv, RunnersExact, ReportsRun
    <2>3. Cardinality(Runs(t)) = 0 /\ Cardinality(Reports(t)) = 0
      BY <2>1, <2>2, NoMember
    <2> QED
      BY <1>2, <2>3
  <1>3. CASE taskState[t] = "RUNNING" /\ \E g \in inflight : g.task = t
    <2>1. PICK g \in inflight : g.task = t
      BY <1>3
    <2>2. g \in Runs(t) /\ \A h \in Runs(t) : h = g
      BY <2>1 DEF CoreInv, RunnersExact, OneGoroutineEach
    <2>3. \A i \in Reports(t) : FALSE
      BY <2>1 DEF CoreInv, RunnersExact, NoReportWhileRunning
    <2>4. Cardinality(Runs(t)) = 1 /\ Cardinality(Reports(t)) = 0
      BY <2>2, <2>3, OneMember, NoMember
    <2> QED
      BY <1>3, <2>4
  <1>4. CASE taskState[t] = "RUNNING" /\ ~\E g \in inflight : g.task = t
    <2>1. PICK i \in DOMAIN eventChan : IsReport(i) /\ eventChan[i].task = t
      BY <1>4 DEF CoreInv, RunnersExact, RunningIsUnderWay
    <2>2. i \in Reports(t) /\ \A j \in Reports(t) : j = i
      BY <2>1 DEF CoreInv, RunnersExact, OneReportEach
    <2>3. \A h \in Runs(t) : FALSE
      BY <1>4
    <2>4. Cardinality(Runs(t)) = 0 /\ Cardinality(Reports(t)) = 1
      BY <2>2, <2>3, OneMember, NoMember
    <2> QED
      BY <1>4, <2>4
  <1> QED
    BY <1>2, <1>3, <1>4

\* The queue holds the READY tasks and no others, and every RUNNING task has
\* exactly one goroutine or one completion event: no task is dispatched twice
\* or lost between the channel and the stores.
THEOREM QueueAndRunners == Spec => []QueueAndRunnersMatchStates
  BY CoreInvMatch, CoreInvariant, PTL

-----------------------------------------------------------------------------
\* Workers, until somebody sends a stray WORKER_IDLE event

\* One task on a busy worker.
HeldBy(w) == {t \in Tasks : taskState[t] = "RUNNING" /\ assigned[t] = w}

\* Only a stray report changes the number of them.
LEMMA IdleReportsStep ==
    ASSUME [Next]_vars
    PROVE  \/ \E w \in Workers : ReportIdle(w)
           \/ UNCHANGED idleReports
  BY DEF Next, ReactorStep, SubmitDAG, RegisterArrivedDAG, RejectArrivedDAG,
         CompleteTask, MarkWorkerIdle, DispatchTask, EndScheduling, Stop,
         GoroutineStep, SendTrigger, EndPing, ReportCompleted, vars, bounds

LEMMA WorkersExactPreserved == WorkerInv /\ [Next]_vars => WorkersExact'
  <1> SUFFICES ASSUME WorkerInv, [Next]_vars, idleReports' = 0
               PROVE  (NoStrayReport /\ BookedExactly)'
    BY DEF WorkersExact
  <1>0. CoreInv /\ TypeOK /\ TypeOK' /\ WorkersExact
    BY TypeOKPreserved DEF WorkerInv, CoreInv
  <1>1. /\ \A w \in Workers : ~ReportIdle(w)
        /\ idleReports = 0
        /\ NoStrayReport /\ BookedExactly
    <2>1. \A w \in Workers : ~ReportIdle(w)
      BY <1>0 DEF ReportIdle, TypeOK
    <2> QED
      BY <1>0, <2>1, IdleReportsStep DEF WorkersExact
  <1>2. \A i \in DOMAIN eventChan' : eventChan'[i].type # "WORKER_IDLE"
    <2>1. \/ \E e \in Event : Send(e) /\ e.type # "WORKER_IDLE"
          \/ \E type : Receive(type)
          \/ UNCHANGED eventChan
      <3>1. ASSUME NEW d \in Dags, SubmitDAG(d)
            PROVE  \E e \in Event : Send(e) /\ e.type # "WORKER_IDLE"
        BY <3>1 DEF SubmitDAG, Event
      <3>2. \A w \in Workers : ~ReportIdle(w)
        BY <1>1
      <3>3. ASSUME NEW g \in inflight, ReportCompleted(g)
            PROVE  \E e \in Event : Send(e) /\ e.type # "WORKER_IDLE"
        <4>1. [type |-> "TASK_COMPLETED", task |-> g.task, worker |-> g.worker]
                 \in Event
          BY <1>0 DEF TypeOK, Goroutine, Event
        <4> QED
          BY <3>3, <4>1 DEF ReportCompleted
      <3> QED
        BY <3>1, <3>2, <3>3
        DEF Next, ReactorStep, RegisterArrivedDAG, RejectArrivedDAG,
            CompleteTask, MarkWorkerIdle, DispatchTask, EndScheduling, Stop,
            GoroutineStep, SendTrigger, EndPing, vars
    <2>2. ASSUME NEW e \in Event, Send(e), e.type # "WORKER_IDLE"
          PROVE  \A i \in DOMAIN eventChan' : eventChan'[i].type # "WORKER_IDLE"
      <3>1. /\ DOMAIN eventChan' = DOMAIN eventChan \cup {Len(eventChan) + 1}
            /\ \A i \in DOMAIN eventChan : eventChan'[i] = eventChan[i]
            /\ eventChan'[Len(eventChan) + 1] = e
        BY <1>0, <2>2, SentEvent DEF TypeOK, Send
      <3> QED
        BY <1>1, <2>2, <3>1 DEF NoStrayReport
    <2>3. ASSUME NEW type, Receive(type)
          PROVE  \A i \in DOMAIN eventChan' : eventChan'[i].type # "WORKER_IDLE"
      <3>1. \A i \in DOMAIN eventChan' :
              i + 1 \in DOMAIN eventChan /\ eventChan'[i] = eventChan[i + 1]
        BY <1>0, <2>3, ReceivedEvent DEF TypeOK, Receive
      <3> QED
        BY <1>1, <3>1 DEF NoStrayReport
    <2> QED
      BY <1>1, <2>1, <2>2, <2>3 DEF NoStrayReport
  <1> DEFINE R(t) == taskState[t] = "RUNNING"
             Exact == /\ \A t \in Tasks : R(t) =>
                           assigned[t] \in Workers
                           /\ workerState[assigned[t]] = "BUSY"
                      /\ \A t, u \in Tasks :
                           R(t) /\ R(u) /\ assigned[t] = assigned[u] => t = u
                      /\ \A w \in Workers : workerState[w] = "BUSY" =>
                           \E t \in Tasks : R(t) /\ assigned[t] = w
  <1>3. Exact
    BY <1>1 DEF BookedExactly
  <1>4. SUFFICES Exact'
    BY <1>2 DEF BookedExactly, NoStrayReport
  <1>5. CASE RegisterArrivedDAG
    <2>1. \A t \in Tasks : R(t)' <=> R(t)
      BY <1>0, <1>5, RegisterStates
    <2>2. UNCHANGED <<assigned, workerState>>
      BY <1>5 DEF RegisterArrivedDAG
    <2> QED
      BY <1>3, <2>1, <2>2
  <1>6. CASE CompleteTask
    <2> DEFINE w == Head(eventChan).worker
    <2>1. \A t \in Tasks : R(t)' <=> R(t) /\ t # Reported
      BY <1>0, <1>6, CompleteTaskStates DEF Released
    <2>2. /\ Reported \in Tasks /\ R(Reported) /\ assigned[Reported] = w
          /\ w \in Workers
      BY <1>0, <1>6, HeadReport DEF Reported
    <2>3. /\ assigned' = assigned
          /\ workerState' = [workerState EXCEPT ![w] = "IDLE"]
      BY <1>6 DEF CompleteTask
    <2>4. workerState \in [Workers -> {"IDLE", "BUSY"}]
      BY <1>0 DEF TypeOK
    <2>5. \A t \in Tasks : R(t)' => /\ assigned'[t] \in Workers
                                    /\ workerState'[assigned'[t]] = "BUSY"
      BY <1>3, <2>1, <2>2, <2>3, <2>4
    <2>6. \A v \in Workers : workerState'[v] = "BUSY" =>
             \E t \in Tasks : R(t)' /\ assigned'[t] = v
      BY <1>3, <2>1, <2>2, <2>3, <2>4
    <2>7. \A t, u \in Tasks :
             R(t)' /\ R(u)' /\ assigned'[t] = assigned'[u] => t = u
      BY <1>3, <2>1, <2>3
    <2> QED
      BY <2>5, <2>6, <2>7
  <1>7. ASSUME NEW t \in pq, NEW w \in Workers, DispatchTask(t, w) PROVE Exact'
    <2>1. /\ t \in Tasks /\ ~R(t) /\ assigned'[t] = w
          /\ \A u \in Tasks : R(u)' <=> R(u) \/ u = t
          /\ \A u \in Tasks : R(u) => assigned'[u] = assigned[u]
      BY <1>0, <1>7, DispatchStates DEF TypeOK
    <2>2. /\ workerState[w] = "IDLE"
          /\ workerState' = [workerState EXCEPT ![w] = "BUSY"]
      BY <1>7 DEF DispatchTask, IsFirstIdle
    <2>3. workerState \in [Workers -> {"IDLE", "BUSY"}]
      BY <1>0 DEF TypeOK
    <2>4. \A u \in Tasks : R(u) => assigned[u] # w
      BY <1>3, <2>2
    <2>5. \A u \in Tasks : R(u)' => /\ assigned'[u] \in Workers
                                    /\ workerState'[assigned'[u]] = "BUSY"
      BY <1>3, <2>1, <2>2, <2>3
    <2>6. \A v \in Workers : workerState'[v] = "BUSY" =>
             \E u \in Tasks : R(u)' /\ assigned'[u] = v
      BY <1>3, <2>1, <2>2, <2>3
    <2>7. \A u, v \in Tasks :
             R(u)' /\ R(v)' /\ assigned'[u] = assigned'[v] => u = v
      BY <1>3, <2>1, <2>4
    <2> QED
      BY <2>5, <2>6, <2>7
  <1>8. CASE OtherStep
    <2>1. UNCHANGED <<taskState, assigned>>
      BY <1>8, OtherStates
    <2>2. ~MarkWorkerIdle
      <3> SUFFICES ASSUME MarkWorkerIdle PROVE FALSE
        OBVIOUS
      <3>1. 1 \in DOMAIN eventChan /\ eventChan[1].type = "WORKER_IDLE"
        BY <1>0, ReceivedEvent DEF TypeOK, MarkWorkerIdle, Receive
      <3> QED
        BY <1>1, <3>1 DEF NoStrayReport
    <2>3. workerState' = workerState
      BY <1>8, <2>2
      DEF OtherStep, SubmitDAG, ReportIdle, RejectArrivedDAG, EndScheduling,
          Stop, GoroutineStep, SendTrigger, EndPing, ReportCompleted, vars, stores
    <2> QED
      BY <1>3, <2>1, <2>3
  <1> QED
    BY <1>5, <1>6, <1>7, <1>8, StepCases

LEMMA InitWorkersExact == Init => WorkersExact
  BY DEF Init, WorkersExact, NoStrayReport, BookedExactly

\* The core invariant and the workers' part of it.
THEOREM WorkerInvariant == Spec => []WorkerInv
  <1>1. Init => WorkerInv
    BY InitCoreInv, InitWorkersExact DEF WorkerInv
  <1>2. WorkerInv /\ [Next]_vars => WorkerInv'
    BY CoreInvPreserved, WorkersExactPreserved DEF WorkerInv
  <1> QED
    BY <1>1, <1>2, PTL DEF Spec

LEMMA WorkerInvOneTask == WorkerInv => WorkerRunsOneTask
  <1> SUFFICES ASSUME WorkerInv, idleReports = 0 PROVE WorkerRunsOneTask
    BY DEF WorkerRunsOneTask
  <1>0. BookedExactly
    BY DEF WorkerInv, WorkersExact
  <1> DEFINE Gs(w) == {g \in inflight : g.worker = w}
             Es(w) == {i \in DOMAIN eventChan :
                          /\ eventChan[i].type = "TASK_COMPLETED"
                          /\ eventChan[i].worker = w}
             On(t, w) == taskState[t] = "RUNNING" /\ assigned[t] = w
  <1>1. \A w \in Workers : \A g \in Gs(w) :
          g.task \in Tasks /\ On(g.task, w)
    BY DEF WorkerInv, CoreInv, TypeOK, Goroutine, RunnersExact, GoroutinesRun
  <1>2. \A w \in Workers : \A i \in Es(w) :
          /\ IsReport(i) /\ eventChan[i].task \in Tasks
          /\ On(eventChan[i].task, w)
    BY DEF WorkerInv, CoreInv, TypeOK, Event, RunnersExact, ReportsRun, IsReport
  <1>3. \A w \in Workers, t, u \in Tasks : On(t, w) /\ On(u, w) => t = u
    BY <1>0 DEF BookedExactly
  <1> SUFFICES ASSUME NEW w \in Workers
               PROVE  Cardinality(Gs(w)) + Cardinality(Es(w))
                        = IF workerState[w] = "BUSY" THEN 1 ELSE 0
    BY DEF WorkerRunsOneTask
  <1>4. CASE workerState[w] # "BUSY"
    <2>1. \A t \in Tasks : ~On(t, w)
      BY <1>0, <1>4 DEF BookedExactly
    <2>2. /\ \A g \in Gs(w) : FALSE
          /\ \A i \in Es(w) : FALSE
      BY <1>1, <1>2, <2>1
    <2>3. Cardinality(Gs(w)) = 0 /\ Cardinality(Es(w)) = 0
      BY <2>2, NoMember
    <2> QED
      BY <1>4, <2>3
  <1>5. CASE workerState[w] = "BUSY"
    <2>1. PICK t \in Tasks : On(t, w)
      BY <1>0, <1>5 DEF BookedExactly
    <2>2. \A g \in Gs(w) : g.task = t
      BY <1>1, <1>3, <2>1
    <2>3. \A i \in Es(w) : IsReport(i) /\ eventChan[i].task = t
      BY <1>2, <1>3, <2>1
    <2>4. CASE \E g \in inflight : g.task = t
      <3>1. PICK g \in inflight : g.task = t
        BY <2>4
      <3>2. g.worker = w
        BY <2>1, <3>1 DEF WorkerInv, CoreInv, RunnersExact, GoroutinesRun
      <3>3. g \in Gs(w) /\ \A h \in Gs(w) : h = g
        BY <2>2, <3>1, <3>2 DEF WorkerInv, CoreInv, RunnersExact, OneGoroutineEach
      <3>4. \A i \in Es(w) : FALSE
        BY <2>3, <3>1 DEF WorkerInv, CoreInv, RunnersExact, NoReportWhileRunning
      <3>5. Cardinality(Gs(w)) = 1 /\ Cardinality(Es(w)) = 0
        BY <3>3, <3>4, OneMember, NoMember
      <3> QED
        BY <1>5, <3>5
    <2>5. CASE ~\E g \in inflight : g.task = t
      <3>1. PICK i \in DOMAIN eventChan : IsReport(i) /\ eventChan[i].task = t
        BY <2>1, <2>5 DEF WorkerInv, CoreInv, RunnersExact, RunningIsUnderWay
      <3>2. eventChan[i].worker = w
        BY <2>1, <3>1 DEF WorkerInv, CoreInv, RunnersExact, ReportsRun
      <3>3. i \in Es(w) /\ \A j \in Es(w) : j = i
        BY <2>3, <3>1, <3>2
        DEF WorkerInv, CoreInv, RunnersExact, OneReportEach, IsReport
      <3>4. \A g \in Gs(w) : FALSE
        BY <2>2, <2>5
      <3>5. Cardinality(Gs(w)) = 0 /\ Cardinality(Es(w)) = 1
        BY <3>3, <3>4, OneMember, NoMember
      <3> QED
        BY <1>5, <3>5
    <2> QED
      BY <2>4, <2>5
  <1> QED
    BY <1>4, <1>5 DEF WorkerInv, CoreInv, TypeOK

\* Until the first stray WORKER_IDLE event, a worker is BUSY exactly while one
\* dispatched task of its has not been reported and handled: the reactor, which
\* alone writes workerStates, never books a worker twice.
THEOREM OneTaskPerWorker == Spec => []WorkerRunsOneTask
  BY WorkerInvOneTask, WorkerInvariant, PTL

-----------------------------------------------------------------------------
\* Refinement

LEMMA InitRefines == Init => Execution!Init
  BY DEF Init, Execution!Init, status, runner, mode

\* No handler runs, and so no task changes state, once Run has returned.
LEMMA ReactorNotClosed ==
    ASSUME RegisterArrivedDAG \/ CompleteTask
             \/ \E t \in pq, w \in Workers : DispatchTask(t, w)
    PROVE  mode # "closed" /\ UNCHANGED mode
  BY DEF RegisterArrivedDAG, CompleteTask, DispatchTask, Receive, mode, bounds

LEMMA StepRefines ==
    ASSUME WorkerInv, [Next]_vars
    PROVE  [Execution!Next]_(Execution!vars)
  <1> USE DEF Execution!vars
  <1>0. CoreInv /\ WorkersExact /\ taskState \in [Tasks -> TaskStates]
        /\ idleReports \in Nat
    BY DEF WorkerInv, CoreInv, TypeOK
  <1>1. CASE RegisterArrivedDAG
    <2> DEFINE d == Head(eventChan).dag
    <2>1. /\ d \in Dags
          /\ \A t \in Tasks : DagOf[t] = d => taskState[t] = "NONE"
          /\ taskState' = [t \in Tasks |->
                 IF DagOf[t] # d THEN taskState[t]
                 ELSE IF Pred(t) = {} THEN "READY" ELSE "WAITING"]
      BY <1>0, <1>1, RegisterStates DEF TasksOf
    <2>2. status' = [t \in Tasks |-> IF DagOf[t] = d THEN "pending"
                                                     ELSE status[t]]
      BY <2>1 DEF status
    <2>3. runner' = runner
      <3>1. assigned' = assigned
        BY <1>1 DEF RegisterArrivedDAG
      <3> QED
        BY <2>1, <3>1 DEF runner
    <2>4. \A t \in Tasks : DagOf[t] = d => status[t] = "absent"
      BY <2>1 DEF status
    <2> QED
      BY <1>1, <2>1, <2>2, <2>3, <2>4, ReactorNotClosed
      DEF Execution!Next, Execution!Arrive
  <1>2. CASE CompleteTask
    <2>1. /\ Reported \in Tasks /\ taskState[Reported] = "RUNNING"
          /\ taskState' = [s \in Tasks |-> IF s = Reported THEN "COMPLETED"
                                           ELSE IF s \in Released THEN "READY"
                                           ELSE taskState[s]]
          /\ \A s \in Released : taskState[s] \in {"WAITING", "FAILED"}
      BY <1>0, <1>2, CompleteTaskStates DEF Released
    <2>2. status' = [status EXCEPT ![Reported] = "done"]
      BY <2>1 DEF status
    <2>3. runner' = [runner EXCEPT ![Reported] = 0]
      <3>1. assigned' = assigned
        BY <1>2 DEF CompleteTask
      <3> QED
        BY <2>1, <3>1 DEF runner
    <2>4. status[Reported] = "running"
      BY <2>1 DEF status
    <2> QED
      BY <1>2, <2>1, <2>2, <2>3, <2>4, ReactorNotClosed
      DEF Execution!Next, Execution!Finish
  <1>3. ASSUME NEW t \in pq, NEW w \in Workers, DispatchTask(t, w)
        PROVE  Execution!Next
    <2>1. /\ t \in Tasks /\ taskState[t] = "READY" /\ assigned'[t] = w
          /\ taskState' = [taskState EXCEPT ![t] = "RUNNING"]
          /\ \A u \in Tasks : taskState[u] = "RUNNING"
                                => assigned'[u] = assigned[u]
      BY <1>0, <1>3, DispatchStates
    <2>2. status[t] = "pending"
      BY <2>1 DEF status
    <2>3. \A p \in Pred(t) : status[p] = "done"
      <3>1. \A p \in Pred(t) : p \in Tasks /\ Done(p)
        BY <1>0, <2>1, PredFacts DEF CoreInv, PrecedenceRespected
      <3> QED
        BY <3>1 DEF status, Done
    <2>4. mode = "exclusive" => \A u \in Tasks : runner[u] # w
      <3>1. workerState[w] = "IDLE" /\ w # 0
        BY <1>3 DEF DispatchTask, IsFirstIdle, Workers
      <3>2. mode = "exclusive" => idleReports = 0
        BY DEF mode
      <3> QED
        BY <1>0, <3>1, <3>2 DEF runner, WorkersExact, BookedExactly
    <2>5. status' = [status EXCEPT ![t] = "running"]
      BY <1>0, <2>1 DEF status
    <2>6. runner' = [runner EXCEPT ![t] = w]
      BY <1>0, <2>1 DEF runner
    <2> QED
      BY <1>3, <2>1, <2>2, <2>3, <2>4, <2>5, <2>6, ReactorNotClosed
      DEF Execution!Next, Execution!Start
  <1>4. CASE OtherStep
    <2>1. UNCHANGED <<status, runner>>
      BY <1>4, OtherStates DEF status, runner
    <2>2. ASSUME NEW w \in Workers, ReportIdle(w)
          PROVE  (mode = "exclusive" /\ mode' = "shared") \/ UNCHANGED mode
      BY <1>0, <2>2 DEF ReportIdle, mode
    <2>3. ASSUME Stop PROVE mode # "closed" /\ mode' = "closed"
      BY <2>3 DEF Stop, mode
    <2>4. ASSUME ~Stop, ~\E w \in Workers : ReportIdle(w)
          PROVE  UNCHANGED mode
      <3>1. pc' = "stopped" <=> pc = "stopped"
        BY <1>4, <2>4
        DEF OtherStep, SubmitDAG, RejectArrivedDAG, MarkWorkerIdle, Receive,
            EndScheduling, GoroutineStep, SendTrigger, EndPing,
            ReportCompleted, vars
      <3>2. idleReports' = idleReports
        BY <2>4, IdleReportsStep
      <3> QED
        BY <3>1, <3>2 DEF mode
    <2> QED
      BY <1>4, <2>1, <2>2, <2>3, <2>4
      DEF Execution!Next, Execution!Share, Execution!Close
  <1> QED
    BY <1>1, <1>2, <1>3, <1>4, StepCases

\* The scheduler core implements DagExecution: each task of an arrived DAG runs
\* at most once, after its predecessors, on one worker, which runs nothing else
\* unless somebody has reported it idle.
THEOREM Refinement == Spec => ImplementsExecution
  <1>1. Init => Execution!Init
    BY InitRefines
  <1>2. WorkerInv /\ [Next]_vars => [Execution!Next]_(Execution!vars)
    BY StepRefines
  <1> QED
    BY <1>1, <1>2, WorkerInvariant, PTL
    DEF Spec, ImplementsExecution, Execution!Spec

-----------------------------------------------------------------------------
\* The Golden Rule

LEMMA GoldenRulePreserved ==
    ASSUME CoreInv, GoldenRule, [Next]_vars,
           Cardinality(NumIds) <= VaultCap,
           \A t, u \in Tasks :
              taskState[t] = "READY" /\ taskState[u] = "RUNNING"
                => NumId[t] # NumId[u]
    PROVE  GoldenRule'
  <1>0. \A g \in inflight : g.task \in Tasks /\ taskState[g.task] = "RUNNING"
    BY DEF CoreInv, TypeOK, Goroutine, RunnersExact, GoroutinesRun
  <1>1. ASSUME NEW t \in pq, NEW w \in Workers, DispatchTask(t, w)
        PROVE  GoldenRule'
    <2>1. t \in Tasks /\ taskState[t] = "READY"
      BY <1>1, DispatchStates
    <2>2. PICK place \in [Succs(t) -> Workers] :
            WriteDependencyRuleToKernel(NumId[t], RuleFor(t, place))
      BY <1>1 DEF DispatchTask
    <2>3. ASSUME NumId[t] \notin DOMAIN vault
          PROVE  Cardinality(DOMAIN vault) < VaultCap
      <3>1. IsFiniteSet(NumIds)
        <4> DEFINE f == [u \in Tasks |-> NumId[u]]
        <4>1. f \in Surjection(Tasks, NumIds)
          BY DEF NumIds, Surjection
        <4> QED
          BY <4>1, SetsAssumption, FS_Surjection
      <3>2. DOMAIN vault \subseteq NumIds \ {NumId[t]} /\ NumId[t] \in NumIds
        BY <2>1, <2>3 DEF CoreInv, TypeOK, NumIds
      <3>3. /\ IsFiniteSet(NumIds \ {NumId[t]})
            /\ Cardinality(NumIds \ {NumId[t]}) = Cardinality(NumIds) - 1
        BY <3>1, <3>2, FS_RemoveElement
      <3>4. Cardinality(DOMAIN vault) <= Cardinality(NumIds \ {NumId[t]})
        BY <3>2, <3>3, FS_Subset
      <3>5. IsFiniteSet(DOMAIN vault)
        BY <3>2, <3>3, FS_Subset
      <3>6. /\ Cardinality(NumIds) \in Nat /\ Cardinality(DOMAIN vault) \in Nat
            /\ VaultCap \in Nat
        BY <3>1, <3>5, FS_CardinalityType, BoundsAssumption
      <3> QED
        BY <3>3, <3>4, <3>6
    <2>4. /\ DOMAIN vault' = DOMAIN vault \cup {NumId[t]}
          /\ vault'[NumId[t]] = RuleFor(t, place)
          /\ \A k \in DOMAIN vault : k # NumId[t] => vault'[k] = vault[k]
      BY <2>2, <2>3 DEF WriteDependencyRuleToKernel
    <2>5. inflight' = inflight \cup
                        {[task |-> t, worker |-> w, phase |-> "compute"]}
      BY <1>1 DEF DispatchTask
    <2>6. \A g \in inflight : NumId[g.task] # NumId[t]
      BY <1>0, <2>1
    <2>7. RuleFor(t, place).task = t
      BY DEF RuleFor
    <2> QED
      BY <2>4, <2>5, <2>6, <2>7 DEF GoldenRule
  <1>2. ASSUME vault' = vault,
               \A g \in inflight' : g.phase = "compute" => g \in inflight
        PROVE  GoldenRule'
    BY <1>2 DEF GoldenRule
  <1>3. CASE ~\E t \in pq, w \in Workers : DispatchTask(t, w)
    <2>1. vault' = vault
      BY <1>3
      DEF Next, ReactorStep, SubmitDAG, ReportIdle, RegisterArrivedDAG,
          RejectArrivedDAG, CompleteTask, MarkWorkerIdle, EndScheduling, Stop,
          GoroutineStep, SendTrigger, EndPing, ReportCompleted, vars
    <2>2. ASSUME NEW g \in inflight, SendTrigger(g) \/ EndPing(g)
          PROVE  \A h \in inflight' : h.phase = "compute" => h \in inflight
      <3>1. g \in Goroutine
        BY DEF CoreInv, TypeOK
      <3> QED
        BY <2>2, <3>1 DEF SendTrigger, EndPing, Goroutine
    <2>3. \/ \E g \in inflight : SendTrigger(g) \/ EndPing(g)
          \/ inflight' \subseteq inflight
      BY <1>3
      DEF Next, ReactorStep, SubmitDAG, ReportIdle, RegisterArrivedDAG,
          RejectArrivedDAG, CompleteTask, MarkWorkerIdle, EndScheduling, Stop,
          GoroutineStep, ReportCompleted, vars
    <2> QED
      BY <1>2, <2>1, <2>2, <2>3
  <1> QED
    BY <1>1, <1>3

\* With numeric ids that tell the tasks apart and a map large enough for them,
\* a computing task always finds its own rule in vault_map: the write in
\* dispatchTask comes before the goroutine starts, and nothing replaces it.
THEOREM GoldenRuleHolds ==
    ASSUME \A t, u \in Tasks : NumId[t] = NumId[u] => t = u,
           Cardinality(NumIds) <= VaultCap
    PROVE  Spec => []GoldenRule
  <1>1. Init => GoldenRule
    BY DEF Init, GoldenRule
  <1>2. CoreInv /\ GoldenRule /\ [Next]_vars => GoldenRule'
    BY GoldenRulePreserved
  <1> QED
    BY <1>1, <1>2, CoreInvariant, PTL DEF Spec

OneExit ==
    \A d \in Dags : \A t, u \in TasksOf(d) : IsExit(t) /\ IsExit(u) => t = u

NamedDags ==
    /\ Qualified = Tasks
    /\ \A d \in Dags : TasksOf(d) # {}

-----------------------------------------------------------------------------
\* The exit of a DAG is its last task

LEMMA SmallestNat ==
  ASSUME NEW C, C \subseteq Nat, C # {}
  PROVE  \E m \in C : \A n \in C : ~(n < m)
  <1>1. PICK m \in C : \A n \in C : ~(<<n, m>> \in OpToRel(<, Nat))
    BY NatLessThanWellFounded, WFMin
  <1>2. \A n \in C : n < m => <<n, m>> \in OpToRel(<, Nat)
    BY DEF OpToRel
  <1> QED
    BY <1>1, <1>2

\* A set of tasks that holds the exit of a DAG, and with every task its
\* predecessors, holds all the tasks of the DAG.
LEMMA ExitIsLast ==
  ASSUME NEW done \in SUBSET Tasks, NEW d \in Dags, OneExit,
         NEW x \in TasksOf(d), IsExit(x), x \in done,
         \A t \in done : Pred(t) \subseteq done
  PROVE  TasksOf(d) \subseteq done
  <1> DEFINE open == TasksOf(d) \ done
             size == Cardinality(Tasks)
  <1>1. size \in Nat
    BY SetsAssumption, FS_CardinalityType
  <1>2. PICK height \in [Tasks -> 0..size] :
          \A t \in Tasks : \A s \in Succs(t) : height[s] < height[t]
    BY GraphAssumption
  <1>3. open \subseteq Tasks
    BY DEF TasksOf
  <1> HIDE DEF size
  <1> SUFFICES ASSUME open # {}
               PROVE  FALSE
    OBVIOUS
  <1> DEFINE heights == {height[t] : t \in open}
  <1>4. heights \subseteq Nat /\ heights # {}
    BY <1>1, <1>2, <1>3
  <1>5. PICK m \in heights : \A n \in heights : ~(n < m)
    BY <1>4, SmallestNat
  <1>6. PICK t \in open : m = height[t]
    BY <1>5
  <1>7. ~IsExit(t)
    BY <1>6 DEF OneExit
  <1>8. PICK s \in Succs(t) : TRUE
    BY <1>7 DEF IsExit
  <1>9. s \in Tasks /\ t \in Pred(s) /\ DagOf[s] = DagOf[t]
    BY <1>3, <1>6, <1>8, PredFacts
  <1>10. s \in open
    BY <1>6, <1>9 DEF TasksOf
  <1>11. height[s] < m
    BY <1>2, <1>3, <1>6, <1>8
  <1> QED
    BY <1>5, <1>10, <1>11

-----------------------------------------------------------------------------
\* What the handlers do to the state of a DAG

\* Only the completion of a task adds to the tasks that are done.
LEMMA DoneStates ==
  ASSUME CoreInv, [Next]_vars, NEW t \in Tasks
  PROVE  /\ Done(t) => Done(t)'
         /\ CompleteTask /\ t = Reported => Done(t)'
         /\ Done(t)' => Done(t) \/ (CompleteTask /\ t = Reported)
  <1>1. taskState \in [Tasks -> TaskStates]
    BY DEF CoreInv, TypeOK
  <1>2. ASSUME RegisterArrivedDAG
        PROVE  /\ taskState[t] = "COMPLETED" => taskState'[t] = "COMPLETED"
               /\ taskState'[t] = "COMPLETED" => taskState[t] = "COMPLETED"
    <2> DEFINE d == Head(eventChan).dag
    <2>1. /\ \A u \in TasksOf(d) : taskState[u] = "NONE"
          /\ taskState' = [u \in Tasks |->
                 IF u \notin TasksOf(d) THEN taskState[u]
                 ELSE IF Pred(u) = {} THEN "READY" ELSE "WAITING"]
      BY <1>2, RegisterStates
    <2> HIDE DEF d
    <2> QED
      BY <2>1
  <1>3. ASSUME CompleteTask
        PROVE  /\ taskState[t] = "COMPLETED" => taskState'[t] = "COMPLETED"
               /\ t = Reported => taskState'[t] = "COMPLETED"
               /\ taskState'[t] = "COMPLETED"
                     => taskState[t] = "COMPLETED" \/ t = Reported
    <2>1. \A s \in Released : taskState[s] # "COMPLETED"
      BY <1>3, CompleteTaskStates DEF Released
    <2>2. taskState' = [s \in Tasks |-> IF s = Reported THEN "COMPLETED"
                                        ELSE IF s \in Released THEN "READY"
                                        ELSE taskState[s]]
      BY <1>3, CompleteTaskStates
    <2> QED
      BY <2>1, <2>2
  <1>4. ASSUME NEW u \in pq, NEW w \in Workers, DispatchTask(u, w)
        PROVE  /\ taskState[t] = "COMPLETED" => taskState'[t] = "COMPLETED"
               /\ taskState'[t] = "COMPLETED" => taskState[t] = "COMPLETED"
    <2>1. u \in Tasks /\ taskState[u] = "READY"
          /\ taskState' = [taskState EXCEPT ![u] = "RUNNING"]
      BY <1>4, DispatchStates
    <2> QED
      BY <1>1, <2>1
  <1>5. ASSUME OtherStep
        PROVE  taskState' = taskState
    BY <1>5, OtherStates
  <1>6. RegisterArrivedDAG \/ OtherStep
          \/ (\E u \in pq, w \in Workers : DispatchTask(u, w))
          => /\ taskState[t] = "COMPLETED" => taskState'[t] = "COMPLETED"
             /\ taskState'[t] = "COMPLETED" => taskState[t] = "COMPLETED"
    BY <1>2, <1>4, <1>5
  <1>7. ~CompleteTask \/ ~(RegisterArrivedDAG \/ OtherStep
                            \/ \E u \in pq, w \in Workers : DispatchTask(u, w))
    <2> SUFFICES ASSUME CompleteTask
                 PROVE  ~(RegisterArrivedDAG \/ OtherStep
                            \/ \E u \in pq, w \in Workers : DispatchTask(u, w))
      OBVIOUS
    <2>1. taskState'[Reported] = "COMPLETED" /\ taskState[Reported] = "RUNNING"
          /\ Reported \in Tasks
      BY <1>3, CompleteTaskStates
    <2>2. ~RegisterArrivedDAG
      BY DEF RegisterArrivedDAG, CompleteTask, Receive
    <2>3. ASSUME NEW u \in pq, NEW w \in Workers PROVE ~DispatchTask(u, w)
      BY DEF DispatchTask, CompleteTask, Receive
    <2>4. ~OtherStep
      BY <1>5, <2>1
    <2> QED
      BY <2>2, <2>3, <2>4
  <1> QED
    BY <1>3, <1>6, <1>7, StepCases DEF Done

LEMMA CompletedState ==
  ASSUME CoreInv, CompleteTask, NEW d \in Dags
  PROVE  dagState'[d] = IF IsExit(Reported) /\ extractDAGID(Reported) = d
                        THEN "COMPLETED" ELSE dagState[d]
  <1>1. dagState \in [Dags \cup Tasks -> {"NONE", "ACTIVE", "COMPLETED", "FAILED"}]
    BY DEF CoreInv, TypeOK
  <1>2. dagState' = IF IsExit(Reported)
                    THEN [dagState EXCEPT ![extractDAGID(Reported)] = "COMPLETED"]
                    ELSE dagState
    BY DEF CompleteTask, Reported
  <1>3. Reported \in Tasks
    BY CompleteTaskStates
  <1>4. extractDAGID(Reported) \in Dags \cup Tasks
    BY <1>3, SetsAssumption DEF extractDAGID
  <1> QED
    BY <1>1, <1>2, <1>4

\* An id that is not cut is no DAG's.
LEMMA ExtractedDag ==
  ASSUME NEW t \in Tasks, NEW d \in Dags, extractDAGID(t) = d
  PROVE  t \in TasksOf(d)
  BY SetsAssumption DEF extractDAGID, TasksOf

\* No other step marks a DAG as COMPLETED.
LEMMA NotCompleted ==
  ASSUME TypeOK, [Next]_vars, ~CompleteTask, NEW d \in Dags
  PROVE  dagState'[d] = dagState[d] \/ dagState'[d] \in {"ACTIVE", "FAILED"}
  <1>1. dagState \in [Dags \cup Tasks -> {"NONE", "ACTIVE", "COMPLETED", "FAILED"}]
    BY DEF TypeOK
  <1>2. CASE RegisterArrivedDAG \/ RejectArrivedDAG
    <2>1. \/ dagState' = [dagState EXCEPT ![Head(eventChan).dag] = "ACTIVE"]
          \/ dagState' = [dagState EXCEPT ![Head(eventChan).dag] = "FAILED"]
      BY <1>2 DEF RegisterArrivedDAG, RejectArrivedDAG
    <2> QED
      BY <1>1, <2>1
  <1>3. ASSUME NEW u \in pq, NEW w \in Workers, DispatchTask(u, w)
        PROVE  dagState' = dagState
    BY <1>3 DEF DispatchTask
  <1>4. CASE OtherStep /\ ~RejectArrivedDAG
    BY <1>4 DEF OtherStep, SubmitDAG, ReportIdle, MarkWorkerIdle, EndScheduling,
           Stop, GoroutineStep, SendTrigger, EndPing, ReportCompleted, vars, stores
  <1> QED
    BY <1>2, <1>3, <1>4, StepCases

LEMMA CompletedDagPreserved ==
  ASSUME OneExit, CoreInv, CompletedDagIsDone, [Next]_vars
  PROVE  CompletedDagIsDone'
  <1> SUFFICES ASSUME NEW d \in Dags, dagState'[d] = "COMPLETED"
               PROVE  \A t \in TasksOf(d) : Done(t)'
    BY DEF CompletedDagIsDone, TasksOf
  <1>1. TasksOf(d) \subseteq Tasks
    BY DEF TasksOf
  <1>2. CASE dagState[d] = "COMPLETED"
    BY <1>1, <1>2, DoneStates DEF CompletedDagIsDone
  <1>3. CASE dagState[d] # "COMPLETED"
    <2>1. CompleteTask
      BY <1>3, NotCompleted DEF CoreInv
    <2>2. IsExit(Reported) /\ extractDAGID(Reported) = d /\ Reported \in Tasks
      BY <1>3, <2>1, CompletedState, CompleteTaskStates
    <2>3. Reported \in TasksOf(d)
      BY <2>2, ExtractedDag
    <2> DEFINE done == {t \in Tasks : taskState'[t] = "COMPLETED"}
    <2>4. Reported \in done
      BY <2>1, <2>2, DoneStates DEF Done
    <2>5. CoreInv'
      BY CoreInvPreserved
    <2>6. \A t \in done : Pred(t) \subseteq done
      BY <2>5, PredFacts DEF CoreInv, PrecedenceRespected, Done
    <2>7. TasksOf(d) \subseteq done
      BY <2>2, <2>3, <2>4, <2>6, ExitIsLast
    <2> QED
      BY <2>7 DEF Done
  <1> QED
    BY <1>2, <1>3

\* If no DAG has two exits, the exit-node test in EventTaskCompleted marks a
\* DAG as COMPLETED only when all of its tasks are.
THEOREM CompletedIsDone ==
    ASSUME OneExit
    PROVE  Spec => []CompletedDagIsDone
  <1>1. Init => CompletedDagIsDone
    BY DEF Init, CompletedDagIsDone
  <1>2. CoreInv /\ CompletedDagIsDone /\ [Next]_vars => CompletedDagIsDone'
    BY CompletedDagPreserved
  <1> QED
    BY <1>1, <1>2, CoreInvariant, PTL DEF Spec

-----------------------------------------------------------------------------
\* How often a DAG has been submitted

Arrivals(d) == {i \in DOMAIN eventChan : /\ eventChan[i].type = "DAG_ARRIVED"
                                         /\ eventChan[i].dag = d}

LEMMA WorkersExist == 1 \in Workers
  BY BoundsAssumption DEF Workers

\* Every submission puts at most one event on the channel, and every event is
\* handled once.
SubmitsCounted ==
    \A d \in Dags :
        /\ Arrivals(d) # {} \/ d \in registered => submits[d] > 0
        /\ Arrivals(d) # {} /\ d \in registered => submits[d] > 1
        /\ \A i, j \in Arrivals(d) : i # j => submits[d] > 1

\* Once the exit of a DAG is done the DAG is COMPLETED, or FAILED by a second
\* submission.
ExitCompletes ==
    \A d \in Dags :
        /\ dagState[d] = "FAILED" => submits[d] > 1
        /\ \A x \in TasksOf(d) :
             IsExit(x) /\ Done(x) => dagState[d] \in {"COMPLETED", "FAILED"}

LEMMA SubmitsCountedPreserved ==
  ASSUME CoreInv, SubmitsCounted, [Next]_vars
  PROVE  SubmitsCounted'
  <1> SUFFICES ASSUME NEW d \in Dags
               PROVE  /\ Arrivals(d)' # {} \/ d \in registered' => submits'[d] > 0
                      /\ Arrivals(d)' # {} /\ d \in registered' => submits'[d] > 1
                      /\ \A i, j \in Arrivals(d)' : i # j => submits'[d] > 1
    BY DEF SubmitsCounted
  <1>1. /\ eventChan \in Seq(Event) /\ submits \in [Dags -> 0..MaxSubmits]
        /\ MaxSubmits \in Nat
    BY BoundsAssumption DEF CoreInv, TypeOK
  <1>2. CASE UNCHANGED <<eventChan, registered, submits>>
    BY <1>2 DEF SubmitsCounted, Arrivals
  <1>3. ASSUME eventChan # <<>>, eventChan' = Tail(eventChan)
        PROVE  /\ \A i \in Arrivals(d)' : i + 1 \in Arrivals(d)
               /\ \A i, j \in Arrivals(d)' : i # j => i + 1 # j + 1
    <2>1. /\ Len(eventChan) \in Nat \ {0}
          /\ DOMAIN eventChan = 1..Len(eventChan)
          /\ DOMAIN eventChan' = 1..(Len(eventChan) - 1)
          /\ \A i \in 1..(Len(eventChan) - 1) : eventChan'[i] = eventChan[i + 1]
      BY <1>1, <1>3
    <2> QED
      BY <2>1 DEF Arrivals
  <1>4. CASE RegisterArrivedDAG
    <2>1. /\ eventChan # <<>> /\ eventChan' = Tail(eventChan)
          /\ submits' = submits
          /\ registered' = registered \cup {Head(eventChan).dag}
          /\ Head(eventChan).type = "DAG_ARRIVED"
      BY <1>4 DEF RegisterArrivedDAG, Receive, bounds
    <2>2. 1 \in Arrivals(Head(eventChan).dag)
      BY <1>1, <2>1 DEF Arrivals
    <2>3. \A i \in Arrivals(d)' : i \in Nat \ {0}
      BY <1>1, <2>1 DEF Arrivals
    <2>4. d \in registered' => d \in registered \/ 1 \in Arrivals(d)
      BY <2>1, <2>2
    <2>5. Arrivals(d)' # {} => Arrivals(d) # {}
      BY <1>3, <2>1
    <2>6. Arrivals(d)' # {} /\ 1 \in Arrivals(d) => submits[d] > 1
      <3> SUFFICES ASSUME NEW i \in Arrivals(d)', 1 \in Arrivals(d)
                   PROVE  submits[d] > 1
        OBVIOUS
      <3>1. i + 1 \in Arrivals(d) /\ i + 1 # 1
        BY <1>3, <2>1, <2>3
      <3> QED
        BY <3>1 DEF SubmitsCounted
    <2>7. \A i, j \in Arrivals(d)' : i # j => submits[d] > 1
      BY <1>3, <2>1 DEF SubmitsCounted
    <2> QED
      BY <2>1, <2>4, <2>5, <2>6, <2>7 DEF SubmitsCounted
  <1>5. CASE RejectArrivedDAG \/ CompleteTask \/ MarkWorkerIdle
    <2>1. /\ eventChan # <<>> /\ eventChan' = Tail(eventChan)
          /\ submits' = submits /\ registered' = registered
      BY <1>5 DEF RejectArrivedDAG, CompleteTask, MarkWorkerIdle, Receive, bounds
    <2>2. /\ \A i \in Arrivals(d)' : i + 1 \in Arrivals(d)
          /\ \A i, j \in Arrivals(d)' : i # j => i + 1 # j + 1
      BY <1>3, <2>1
    <2> QED
      BY <2>1, <2>2 DEF SubmitsCounted
  <1>6. ASSUME NEW e \in Event, eventChan' = Append(eventChan, e)
        PROVE  /\ e.type # "DAG_ARRIVED" \/ e.dag # d
                     => Arrivals(d)' = Arrivals(d)
               /\ Arrivals(d)' \subseteq Arrivals(d) \cup {Len(eventChan) + 1}
               /\ Arrivals(d) \subseteq DOMAIN eventChan
    <2>1. /\ Len(eventChan) \in Nat
          /\ DOMAIN eventChan = 1..Len(eventChan)
          /\ DOMAIN eventChan' = 1..(Len(eventChan) + 1)
          /\ \A i \in 1..Len(eventChan) : eventChan'[i] = eventChan[i]
          /\ eventChan'[Len(eventChan) + 1] = e
      BY <1>1, <1>6
    <2> QED
      BY <2>1 DEF Arrivals
  <1>7. ASSUME NEW c \in Dags, SubmitDAG(c)
        PROVE  /\ Arrivals(d)' # {} \/ d \in registered' => submits'[d] > 0
               /\ Arrivals(d)' # {} /\ d \in registered' => submits'[d] > 1
               /\ \A i, j \in Arrivals(d)' : i # j => submits'[d] > 1
    <2> DEFINE e == [type |-> "DAG_ARRIVED", dag |-> c]
    <2>1. e \in Event /\ e.type = "DAG_ARRIVED" /\ e.dag = c
      BY DEF Event
    <2>2. eventChan' = Append(eventChan, e)
          /\ submits' = [submits EXCEPT ![c] = @ + 1]
          /\ registered' = registered
      BY <1>7 DEF SubmitDAG, Send, stores
    <2> HIDE DEF e
    <2>3. CASE c # d
      <3>1. Arrivals(d)' = Arrivals(d) /\ submits'[d] = submits[d]
        BY <1>1, <1>6, <2>1, <2>2, <2>3
      <3> QED
        BY <2>2, <3>1 DEF SubmitsCounted
    <2>4. CASE c = d
      <3>1. submits'[d] = submits[d] + 1 /\ submits[d] \in Nat
        BY <1>1, <2>2, <2>4
      <3>2. Arrivals(d)' \subseteq Arrivals(d) \cup {Len(eventChan) + 1}
        BY <1>6, <2>1, <2>2
      <3>3. Arrivals(d) # {} \/ d \in registered => submits'[d] > 1
        BY <3>1 DEF SubmitsCounted
      <3>4. \A i, j \in Arrivals(d)' : i # j => Arrivals(d) # {}
        BY <3>2
      <3> QED
        BY <2>2, <3>1, <3>3, <3>4
    <2> QED
      BY <2>3, <2>4
  <1>8. ASSUME \E w \in Workers : ReportIdle(w) \/ \E g \in inflight : ReportCompleted(g)
        PROVE  Arrivals(d)' = Arrivals(d) /\ UNCHANGED <<registered, submits>>
    <2>1. PICK w \in Workers : ReportIdle(w) \/ \E g \in inflight : ReportCompleted(g)
      BY <1>8
    <2>2. CASE ReportIdle(w)
      <3> DEFINE e == [type |-> "WORKER_IDLE", worker |-> w]
      <3>1. e \in Event /\ e.type # "DAG_ARRIVED"
        BY DEF Event
      <3>2. eventChan' = Append(eventChan, e) /\ UNCHANGED <<registered, submits>>
        BY <2>2 DEF ReportIdle, Send, stores
      <3> HIDE DEF e
      <3> QED
        BY <1>6, <3>1, <3>2
    <2>3. ASSUME NEW g \in inflight, ReportCompleted(g)
          PROVE  Arrivals(d)' = Arrivals(d) /\ UNCHANGED <<registered, submits>>
      <3> DEFINE e == [type |-> "TASK_COMPLETED", task |-> g.task, worker |-> g.worker]
      <3>1. g \in Goroutine
        BY DEF CoreInv, TypeOK
      <3>2. e \in Event /\ e.type # "DAG_ARRIVED"
        BY <3>1 DEF Event, Goroutine
      <3>3. eventChan' = Append(eventChan, e) /\ UNCHANGED <<registered, submits>>
        BY <2>3 DEF ReportCompleted, Send, stores, bounds
      <3> HIDE DEF e
      <3> QED
        BY <1>6, <3>2, <3>3
    <2> QED
      BY <2>1, <2>2, <2>3
  <1>9. ASSUME EndScheduling \/ Stop \/ (\E t \in pq, w \in Workers : DispatchTask(t, w))
               \/ (\E g \in inflight : SendTrigger(g) \/ EndPing(g)) \/ UNCHANGED vars
        PROVE  UNCHANGED <<eventChan, registered, submits>>
    BY <1>9 DEF EndScheduling, Stop, DispatchTask, SendTrigger, EndPing, vars, stores, bounds
  <1>10. CASE \E w \in Workers : ReportIdle(w) \/ \E g \in inflight : ReportCompleted(g)
    BY <1>8, <1>10 DEF SubmitsCounted
  <1> QED
    BY <1>2, <1>4, <1>5, <1>7, <1>9, <1>10, WorkersExist
    DEF Next, ReactorStep, GoroutineStep

-----------------------------------------------------------------------------
\* The states of a DAG between its registration and its last completion

LEMMA DagStateKept ==
  ASSUME CoreInv, [Next]_vars, ~RegisterArrivedDAG, ~RejectArrivedDAG, ~CompleteTask
  PROVE  dagState' = dagState
  <1>1. ASSUME NEW u \in pq, NEW w \in Workers, DispatchTask(u, w)
        PROVE  dagState' = dagState
    BY <1>1 DEF DispatchTask
  <1>2. CASE OtherStep
    BY <1>2 DEF OtherStep, SubmitDAG, ReportIdle, MarkWorkerIdle, EndScheduling,
           Stop, GoroutineStep, SendTrigger, EndPing, ReportCompleted, vars, stores
  <1> QED
    BY <1>1, <1>2, StepCases

LEMMA SubmitsGrow ==
  ASSUME CoreInv, [Next]_vars, NEW d \in Dags
  PROVE  submits[d] > 1 => submits'[d] > 1
  <1>1. submits \in [Dags -> 0..MaxSubmits] /\ MaxSubmits \in Nat
    BY BoundsAssumption DEF CoreInv, TypeOK
  <1>2. ASSUME NEW c \in Dags, SubmitDAG(c)
        PROVE  submits[d] > 1 => submits'[d] > 1
    BY <1>1, <1>2 DEF SubmitDAG
  <1>3. ASSUME RegisterArrivedDAG \/ CompleteTask
               \/ (\E u \in pq, w \in Workers : DispatchTask(u, w))
        PROVE  submits' = submits
    BY <1>3 DEF RegisterArrivedDAG, CompleteTask, DispatchTask, bounds
  <1>4. ASSUME OtherStep, ~(\E c \in Dags : SubmitDAG(c))
        PROVE  submits' = submits
    BY <1>4 DEF OtherStep, ReportIdle, RejectArrivedDAG, MarkWorkerIdle,
           EndScheduling, Stop, GoroutineStep, SendTrigger, EndPing,
           ReportCompleted, vars, bounds
  <1> QED
    BY <1>2, <1>3, <1>4, StepCases

LEMMA ExitCompletesPreserved ==
  ASSUME NamedDags, CoreInv, SubmitsCounted, ExitCompletes, [Next]_vars
  PROVE  ExitCompletes'
  <1> SUFFICES ASSUME NEW d \in Dags
               PROVE  /\ dagState'[d] = "FAILED" => submits'[d] > 1
                      /\ \A x \in TasksOf(d) :
                           IsExit(x) /\ Done(x)' => dagState'[d] \in {"COMPLETED", "FAILED"}
    BY DEF ExitCompletes, TasksOf, IsExit, Succs
  <1>1. dagState \in [Dags \cup Tasks -> {"NONE", "ACTIVE", "COMPLETED", "FAILED"}]
        /\ eventChan \in Seq(Event)
    BY DEF CoreInv, TypeOK
  <1>2. TasksOf(d) \subseteq Tasks
    BY DEF TasksOf
  <1>3. CASE CompleteTask
    <2>1. dagState'[d] = IF IsExit(Reported) /\ extractDAGID(Reported) = d
                         THEN "COMPLETED" ELSE dagState[d]
      BY <1>3, CompletedState
    <2>2. dagState'[d] = "FAILED" => submits'[d] > 1
      BY <2>1, SubmitsGrow DEF ExitCompletes
    <2>3. ASSUME NEW x \in TasksOf(d), IsExit(x), Done(x)'
          PROVE  dagState'[d] \in {"COMPLETED", "FAILED"}
      <3>1. Done(x) \/ x = Reported
        BY <1>2, <2>3, DoneStates
      <3>2. CASE x = Reported
        <4>1. extractDAGID(x) = d
          BY <2>3 DEF NamedDags, extractDAGID, TasksOf
        <4> QED
          BY <2>1, <2>3, <3>2, <4>1
      <3>3. CASE Done(x)
        BY <2>1, <2>3, <3>3 DEF ExitCompletes
      <3> QED
        BY <3>1, <3>2, <3>3
    <2> QED
      BY <2>2, <2>3
  <1>4. CASE ~CompleteTask
    <2>1. \A x \in TasksOf(d) : Done(x)' => Done(x)
      BY <1>2, <1>4, DoneStates
    <2>2. CASE RegisterArrivedDAG
      <3> DEFINE c == Head(eventChan).dag
      <3>1. dagState' = [dagState EXCEPT ![c] = "ACTIVE"]
        BY <2>2 DEF RegisterArrivedDAG
      <3>2. \A t \in TasksOf(c) : taskState[t] = "NONE"
        BY <2>2, RegisterStates
      <3>3. c = d => \A x \in TasksOf(d) : ~Done(x)
        BY <3>2 DEF Done
      <3> HIDE DEF c
      <3>4. CASE c = d
        BY <1>1, <2>1, <3>1, <3>3, <3>4
      <3>5. CASE c # d
        BY <1>1, <2>1, <3>1, <3>5, SubmitsGrow DEF ExitCompletes
      <3> QED
        BY <3>4, <3>5
    <2>3. CASE RejectArrivedDAG
      <3> DEFINE c == Head(eventChan).dag
      <3>1. /\ eventChan # <<>> /\ Head(eventChan).type = "DAG_ARRIVED"
            /\ c \in registered
            /\ dagState' = [dagState EXCEPT ![c] = "FAILED"]
        BY <2>3 DEF RejectArrivedDAG, Receive, AlreadyRegistered
      <3>2. 1 \in Arrivals(c)
        BY <1>1, <3>1 DEF Arrivals
      <3> HIDE DEF c
      <3>3. CASE c = d
        <4>1. submits[d] > 1
          BY <3>1, <3>2, <3>3 DEF SubmitsCounted
        <4> QED
          BY <1>1, <3>1, <3>3, <4>1, SubmitsGrow
      <3>4. CASE c # d
        BY <1>1, <2>1, <3>1, <3>4, SubmitsGrow DEF ExitCompletes
      <3> QED
        BY <3>3, <3>4
    <2>4. CASE ~RegisterArrivedDAG /\ ~RejectArrivedDAG
      BY <1>4, <2>1, <2>4, DagStateKept, SubmitsGrow DEF ExitCompletes
    <2> QED
      BY <2>2, <2>3, <2>4
  <1> QED
    BY <1>3, <1>4

\* Every DAG has an exit, since it has no cycle.
LEMMA ExitExists ==
  ASSUME NEW d \in Dags, TasksOf(d) # {}
  PROVE  \E x \in TasksOf(d) : IsExit(x)
  <1> DEFINE size == Cardinality(Tasks)
  <1>1. size \in Nat
    BY SetsAssumption, FS_CardinalityType
  <1>2. PICK height \in [Tasks -> 0..size] :
          \A t \in Tasks : \A s \in Succs(t) : height[s] < height[t]
    BY GraphAssumption
  <1>3. TasksOf(d) \subseteq Tasks
    BY DEF TasksOf
  <1> HIDE DEF size
  <1> DEFINE heights == {height[t] : t \in TasksOf(d)}
  <1>4. heights \subseteq Nat /\ heights # {}
    BY <1>1, <1>2, <1>3
  <1>5. PICK m \in heights : \A n \in heights : ~(n < m)
    BY <1>4, SmallestNat
  <1>6. PICK t \in TasksOf(d) : m = height[t]
    BY <1>5
  <1>7. ASSUME NEW s \in Succs(t) PROVE FALSE
    <2>1. s \in Tasks /\ DagOf[s] = DagOf[t]
      BY <1>3, <1>6, <1>7, PredFacts
    <2>2. s \in TasksOf(d) /\ height[s] < m
      BY <1>2, <1>3, <1>6, <1>7, <2>1 DEF TasksOf
    <2> QED
      BY <1>5, <2>2
  <1> QED
    BY <1>6, <1>7 DEF IsExit

\* If every task's id carries that of its DAG, which then has tasks, a DAG whose
\* tasks are done is reported COMPLETED, unless it was submitted again.
THEOREM FinishedIsCompleted ==
    ASSUME NamedDags
    PROVE  Spec => []FinishedDagIsCompleted
  <1>1. Init => SubmitsCounted /\ ExitCompletes
    BY DEF Init, SubmitsCounted, ExitCompletes, Arrivals, Done, TasksOf
  <1>2. CoreInv /\ SubmitsCounted /\ ExitCompletes /\ [Next]_vars
          => SubmitsCounted' /\ ExitCompletes'
    BY SubmitsCountedPreserved, ExitCompletesPreserved
  <1>3. CoreInv /\ ExitCompletes => FinishedDagIsCompleted
    <2> SUFFICES ASSUME CoreInv, ExitCompletes, NEW d \in registered,
                        \A t \in TasksOf(d) : Done(t)
                 PROVE  \/ dagState[d] = "COMPLETED"
                        \/ submits[d] > 1 /\ dagState[d] = "FAILED"
      BY DEF FinishedDagIsCompleted
    <2>1. d \in Dags
      BY DEF CoreInv, TypeOK
    <2>2. \E x \in TasksOf(d) : IsExit(x)
      BY <2>1, ExitExists DEF NamedDags
    <2> QED
      BY <2>1, <2>2 DEF ExitCompletes
  <1> QED
    BY <1>1, <1>2, <1>3, CoreInvariant, PTL DEF Spec
=============================================================================
