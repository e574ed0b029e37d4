------------------------------ MODULE Scheduler ------------------------------
(***************************************************************************)
(* The scheduler core of internal/scheduler/core.go with the two stores it *)
(* writes (graph.Engine, state.Manager) and the kernel map it programs     *)
(* before it starts a task (vault_map, through                             *)
(* WriteDependencyRuleToKernel).                                           *)
(*                                                                         *)
(* Three kinds of process run concurrently: submitters (SubmitDAG), the    *)
(* reactor goroutine (Run), and one goroutine per dispatched task          *)
(* (executeWorker).  They share only eventChan, a bounded Go channel on    *)
(* which submitters and task goroutines block when it is full.  Everything *)
(* else is touched by the reactor alone, so one call of handleEvent is one *)
(* step, and so is each turn of the loop of scheduleReadyTasks.            *)
(*                                                                         *)
(* Abstracted: ranks and ageing priorities (the queue yields any of its    *)
(* tasks), EFT estimates (a critical successor may be placed on any        *)
(* worker), the time a task computes, and the outcome of its ping (the     *)
(* code goes on in the same way whether the ACK arrives or times out).     *)
(* A worker stands for its IP address.                                     *)
(***************************************************************************)
EXTENDS Integers, Sequences, FiniteSets

CONSTANTS
    Dags,            \* DAG ids that clients submit
    Tasks,           \* global task ids
    DagOf,           \* DagOf[t]: the DAG whose Tasks map holds t
    Succ,            \* Succ[t]: TaskNode.Successors, in order
    InitRem,         \* InitRem[t]: RemainingDependencies at submission
    NumId,           \* NumId[t]: parseNumericTaskID(t)
    Qualified,       \* tasks whose id has the form "dag_id:task_id"
    Critical,        \* tasks on the critical path of their DAG
    NumWorkers,      \* length of the workers slice
    ChanCap,         \* capacity of eventChan (1000 in the code)
    VaultCap,        \* max_entries of vault_map; 0: the map is not loaded
    MaxFanout,       \* MAX_FANOUT
    MaxSubmits,      \* bound: submissions of one DAG id
    MaxIdleReports,  \* bound: WORKER_IDLE events put on the channel
    MayStop          \* whether the context of Run is ever cancelled

Workers == 1..NumWorkers
Succs(t) == {Succ[t][i] : i \in DOMAIN Succ[t]}
Pred(t) == {p \in Tasks : t \in Succs(p)}
TasksOf(d) == {t \in Tasks : DagOf[t] = d}
NumIds == {NumId[t] : t \in Tasks}

ASSUME SetsAssumption ==
    /\ IsFiniteSet(Tasks)
    /\ DagOf \in [Tasks -> Dags]
    /\ Dags \cap Tasks = {}
    /\ Qualified \subseteq Tasks
    /\ Critical \subseteq Tasks

ASSUME BoundsAssumption ==
    /\ NumWorkers \in Nat \ {0}
    /\ ChanCap \in Nat \ {0}
    /\ VaultCap \in Nat /\ MaxFanout \in Nat
    /\ MaxSubmits \in Nat /\ MaxIdleReports \in Nat
    /\ MayStop \in BOOLEAN

\* What parser.Parse lets through, and what main.go builds by hand: edges stay
\* inside a DAG and the graph has no cycle.  The parser also lets an edge be
\* repeated (and then counts it twice); such DAGs are left out.
ASSUME GraphAssumption ==
    /\ DOMAIN Succ = Tasks
    /\ \A t \in Tasks :
         /\ Succ[t] \in Seq(Tasks)
         /\ \A i, j \in DOMAIN Succ[t] : Succ[t][i] = Succ[t][j] => i = j
         /\ \A s \in Succs(t) : DagOf[s] = DagOf[t]
    /\ \E height \in [Tasks -> 0..Cardinality(Tasks)] :
         \A t \in Tasks : \A s \in Succs(t) : height[s] < height[t]

\* The parser counts one remaining dependency per incoming edge.  main.go
\* leaves the counter at 0, in tasks with at most one predecessor.
ASSUME RemAssumption ==
    /\ InitRem \in [Tasks -> Nat]
    /\ \A t \in Tasks :
         \/ InitRem[t] = Cardinality(Pred(t))
         \/ InitRem[t] = 0 /\ Cardinality(Pred(t)) <= 1

VARIABLES
    registered,   \* graph.Engine.dags: the DAG ids registered so far
    rem,          \* RemainingDependencies of every task
    taskState,    \* state.Manager.taskStates ("NONE": no entry)
    dagState,     \* state.Manager.dagStates, by DAG id or by phantom id
    workerState,  \* state.Manager.workerStates
    pq,           \* tasks in the priority queue
    assigned,     \* AssignedNodeIP of every task (0: none yet)
    vault,        \* vault_map: numeric id -> rule, for the ids present
    eventChan,    \* the event channel
    inflight,     \* goroutines running executeWorker
    pc,           \* reactor: in select, in scheduleReadyTasks, or returned
    submits,      \* submissions made of each DAG id
    idleReports   \* WORKER_IDLE events sent so far

stores == <<registered, rem, taskState, dagState, workerState>>
bounds == <<submits, idleReports>>
vars == <<stores, pq, assigned, vault, eventChan, inflight, pc, bounds>>

TaskStates == {"NONE", "WAITING", "READY", "RUNNING", "COMPLETED", "FAILED"}

Event == [type : {"DAG_ARRIVED"}, dag : Dags]
         \cup [type : {"TASK_COMPLETED"}, task : Tasks, worker : Workers]
         \cup [type : {"WORKER_IDLE"}, worker : Workers]

Goroutine == [task : Tasks, worker : Workers,
              phase : {"compute", "await", "report"}]

\* A rule as vault_map holds it.  The field task is a ghost: the kernel knows
\* the rule by its numeric id only.
IsRule(r) == /\ r.task \in Tasks
             /\ r.refCount = Len(Succ[r.task])
             /\ DOMAIN r.dests \subseteq DOMAIN Succ[r.task]
             /\ \A i \in DOMAIN r.dests : r.dests[i] \in Workers

-----------------------------------------------------------------------------
\* Helpers of core.go, engine.go and manager.go

\* Variant: the id is never cut.
extractWholeID(t) == t

\* extractDAGID: an id without ':' is returned whole.
extractDAGID(t) == IF t \in Qualified THEN DagOf[t] ELSE t

\* Variant: the table lacks RUNNING -> COMPLETED.
UpdateNoCompletion(old, new) ==
    IF \/ old = "NONE"
       \/ old = "WAITING" /\ new \in {"READY", "FAILED"}
       \/ old = "READY" /\ new \in {"RUNNING", "FAILED"}
       \/ old = "FAILED" /\ new = "READY"
    THEN new ELSE old

\* UpdateTaskState: a transition the table does not allow leaves the state.
UpdateTaskState(old, new) ==
    IF \/ old = "NONE"
       \/ old = "WAITING" /\ new \in {"READY", "FAILED"}
       \/ old = "READY" /\ new \in {"RUNNING", "FAILED"}
       \/ old = "RUNNING" /\ new \in {"COMPLETED", "FAILED"}
       \/ old = "FAILED" /\ new = "READY"
    THEN new ELSE old

\* Variants: the first predecessor releases the task; the decrement is made on
\* a copy.
DecrementToZero(n) == 0
DecrementCopy(n) == n

\* DecrementIndegree: the counter never goes below 0.
DecrementIndegree(n) == IF n > 0 THEN n - 1 ELSE n

\* Entry and exit tasks, as handleEvent recognises them by their
\* predecessors and successors; RegisterDAG's test for a known id.  Variants:
\* entries taken from the counters; a task with one successor taken for an
\* exit; the test left out.
EntryByCounter(t) == rem[t] = 0
IsEntry(t) == Pred(t) = {}
ExitOfChain(t) == Len(Succ[t]) <= 1
IsExit(t) == Succs(t) = {}
NeverRegistered(d) == FALSE
AlreadyRegistered(d) == d \in registered

\* Variant: the worker's state is not looked at.
FirstOfSlice(w, wstate) == w = 1

\* The first idle worker in slice order, for scheduleReadyTasks and for
\* selectEarliestAvailableWorker.
IsFirstIdle(w, wstate) ==
    /\ wstate[w] = "IDLE"
    /\ \A v \in Workers : v < w => wstate[v] # "IDLE"

\* dispatchTask's choice of a worker for successor s of t, once t's own worker
\* is busy.  Criticality is known only if the DAG's metadata is found under
\* extractDAGID(t).
MayPlace(t, s, w, wstate) ==
    \/ s \in Critical /\ extractDAGID(t) \in registered
    \/ IsFirstIdle(w, wstate)
    \/ \A v \in Workers : wstate[v] # "IDLE"

\* WriteDependencyRuleToKernel: destinations beyond MAX_FANOUT are dropped, the
\* reference count is not; the update fails when the map is full.
RuleFor(t, place) ==
    [task |-> t, refCount |-> Len(Succ[t]),
     dests |-> [i \in {j \in DOMAIN Succ[t] : j <= MaxFanout} |->
                   place[Succ[t][i]]]]

\* Variant: an update that needs the key to be there (BPF_EXIST).
UpdateExistingRule(id, rule) ==
    IF id \in DOMAIN vault
    THEN vault' = [vault EXCEPT ![id] = rule]
    ELSE UNCHANGED vault

WriteDependencyRuleToKernel(id, rule) ==
    IF id \in DOMAIN vault \/ Cardinality(DOMAIN vault) < VaultCap
    THEN vault' = [k \in DOMAIN vault \cup {id} |->
                     IF k = id THEN rule ELSE vault[k]]
    ELSE UNCHANGED vault

-----------------------------------------------------------------------------
Init ==
    /\ registered = {}
    /\ rem = InitRem
    /\ taskState = [t \in Tasks |-> "NONE"]
    /\ dagState = [k \in Dags \cup Tasks |-> "NONE"]
    /\ workerState = [w \in Workers |-> "IDLE"]
    /\ pq = {}
    /\ assigned = [t \in Tasks |-> 0]
    /\ vault = [k \in {} |-> 0]
    /\ eventChan = <<>>
    /\ inflight = {}
    /\ pc = "select"
    /\ submits = [d \in Dags |-> 0]
    /\ idleReports = 0

\* Variant: the send does not wait for a free slot.
SendAlways(e) == eventChan' = Append(eventChan, e)

Send(e) == Len(eventChan) < ChanCap /\ eventChan' = Append(eventChan, e)

\* SubmitDAG blocks while the channel is full, whether or not the reactor runs.
SubmitDAG(d) ==
    /\ submits[d] < MaxSubmits
    /\ Send([type |-> "DAG_ARRIVED", dag |-> d])
    /\ submits' = [submits EXCEPT ![d] = @ + 1]
    /\ UNCHANGED <<stores, pq, assigned, vault, inflight, pc, idleReports>>

\* A client of EventChan() reports a worker idle, at any time.
ReportIdle(w) ==
    /\ idleReports < MaxIdleReports
    /\ Send([type |-> "WORKER_IDLE", worker |-> w])
    /\ idleReports' = idleReports + 1
    /\ UNCHANGED <<stores, pq, assigned, vault, inflight, pc, submits>>

\* Run's select takes the next event; handleEvent is followed by
\* scheduleReadyTasks on every path.
Receive(type) ==
    /\ pc = "select"
    /\ eventChan # <<>>
    /\ Head(eventChan).type = type
    /\ eventChan' = Tail(eventChan)
    /\ pc' = "schedule"

\* EventDAGArrived, RegisterDAG succeeding.
RegisterArrivedDAG ==
    /\ Receive("DAG_ARRIVED")
    /\ LET d == Head(eventChan).dag
           entries == {t \in TasksOf(d) : IsEntry(t)}
       IN /\ ~AlreadyRegistered(d)
          /\ registered' = registered \cup {d}
          /\ dagState' = [dagState EXCEPT ![d] = "ACTIVE"]
          /\ taskState' = [t \in Tasks |->
                IF t \in entries THEN UpdateTaskState(taskState[t], "READY")
                ELSE IF t \in TasksOf(d)
                     THEN UpdateTaskState(taskState[t], "WAITING")
                     ELSE taskState[t]]
          /\ pq' = pq \cup entries
    /\ UNCHANGED <<rem, workerState, assigned, vault, inflight, bounds>>

\* EventDAGArrived, the id being registered already.
RejectArrivedDAG ==
    /\ Receive("DAG_ARRIVED")
    /\ AlreadyRegistered(Head(eventChan).dag)
    /\ dagState' = [dagState EXCEPT ![Head(eventChan).dag] = "FAILED"]
    /\ UNCHANGED <<registered, rem, taskState, workerState, pq, assigned,
                   vault, inflight, bounds>>

\* EventTaskCompleted.
CompleteTask ==
    /\ Receive("TASK_COMPLETED")
    /\ LET t == Head(eventChan).task
           w == Head(eventChan).worker
           released == {s \in Succs(t) : DecrementIndegree(rem[s]) = 0}
       IN /\ rem' = [s \in Tasks |-> IF s \in Succs(t)
                                     THEN DecrementIndegree(rem[s])
                                     ELSE rem[s]]
          /\ taskState' = [s \in Tasks |->
                IF s = t THEN UpdateTaskState(taskState[t], "COMPLETED")
                ELSE IF s \in released
                     THEN UpdateTaskState(taskState[s], "READY")
                     ELSE taskState[s]]
          /\ workerState' = [workerState EXCEPT ![w] = "IDLE"]
          /\ dagState' = IF IsExit(t)
                         THEN [dagState EXCEPT ![extractDAGID(t)] = "COMPLETED"]
                         ELSE dagState
          /\ pq' = pq \cup released
    /\ UNCHANGED <<registered, assigned, vault, inflight, bounds>>

\* EventWorkerIdle.
MarkWorkerIdle ==
    /\ Receive("WORKER_IDLE")
    /\ workerState' = [workerState EXCEPT ![Head(eventChan).worker] = "IDLE"]
    /\ UNCHANGED <<registered, rem, taskState, dagState, pq, assigned, vault,
                   inflight, bounds>>

\* One turn of the loop of scheduleReadyTasks, with dispatchTask: the rule is
\* written, its error ignored, and the goroutine started.
DispatchTask(t, w) ==
    /\ pc = "schedule"
    /\ t \in pq
    /\ IsFirstIdle(w, workerState)
    /\ pq' = pq \ {t}
    /\ taskState' = [taskState EXCEPT ![t] = UpdateTaskState(@, "RUNNING")]
    /\ workerState' = [workerState EXCEPT ![w] = "BUSY"]
    /\ \E place \in [Succs(t) -> Workers] :
         /\ \A s \in Succs(t) : MayPlace(t, s, place[s], workerState')
         /\ assigned' = [u \in Tasks |-> IF u = t THEN w
                                         ELSE IF u \in Succs(t) THEN place[u]
                                         ELSE assigned[u]]
         /\ WriteDependencyRuleToKernel(NumId[t], RuleFor(t, place))
    /\ inflight' = inflight \cup
                     {[task |-> t, worker |-> w, phase |-> "compute"]}
    /\ UNCHANGED <<registered, rem, dagState, eventChan, pc, bounds>>

\* The loop of scheduleReadyTasks ends: nothing queued, or nobody idle.
EndScheduling ==
    /\ pc = "schedule"
    /\ pq = {} \/ \A w \in Workers : workerState[w] # "IDLE"
    /\ pc' = "select"
    /\ UNCHANGED <<stores, pq, assigned, vault, eventChan, inflight, bounds>>

\* Run's select takes ctx.Done().
Stop ==
    /\ MayStop
    /\ pc = "select"
    /\ pc' = "stopped"
    /\ UNCHANGED <<stores, pq, assigned, vault, eventChan, inflight, bounds>>

\* executeWorker after burnCPU: the trigger datagram leaves; this is when the
\* kernel looks the rule up.
SendTrigger(g) ==
    /\ g.phase = "compute"
    /\ inflight' = (inflight \ {g}) \cup {[g EXCEPT !.phase = "await"]}
    /\ UNCHANGED <<stores, pq, assigned, vault, eventChan, pc, bounds>>

\* Variant: a ping that failed ends the goroutine.
EndPingOrReturn(g) ==
    /\ g.phase = "await"
    /\ \/ inflight' = inflight \ {g}
       \/ inflight' = (inflight \ {g}) \cup {[g EXCEPT !.phase = "report"]}
    /\ UNCHANGED <<stores, pq, assigned, vault, eventChan, pc, bounds>>

\* sendAndWaitForAck returns: the ACK came, or 50 ms passed.
EndPing(g) ==
    /\ g.phase = "await"
    /\ inflight' = (inflight \ {g}) \cup {[g EXCEPT !.phase = "report"]}
    /\ UNCHANGED <<stores, pq, assigned, vault, eventChan, pc, bounds>>

\* The blocking send that ends executeWorker.
ReportCompleted(g) ==
    /\ g.phase = "report"
    /\ Send([type |-> "TASK_COMPLETED", task |-> g.task, worker |-> g.worker])
    /\ inflight' = inflight \ {g}
    /\ UNCHANGED <<stores, pq, assigned, vault, pc, bounds>>

ReactorStep ==
    \/ RegisterArrivedDAG \/ RejectArrivedDAG \/ CompleteTask \/ MarkWorkerIdle
    \/ \E t \in pq, w \in Workers : DispatchTask(t, w)
    \/ EndScheduling

GoroutineStep(g) == SendTrigger(g) \/ EndPing(g) \/ ReportCompleted(g)

Next ==
    \/ \E d \in Dags : SubmitDAG(d)
    \/ \E w \in Workers : ReportIdle(w)
    \/ ReactorStep
    \/ Stop
    \/ \E g \in inflight : GoroutineStep(g)

Spec == Init /\ [][Next]_vars

-----------------------------------------------------------------------------
\* Properties

\* Every variable keeps to the values its Go type and the code give it.
TypeOK ==
    /\ registered \subseteq Dags
    /\ rem \in [Tasks -> Nat]
    /\ taskState \in [Tasks -> TaskStates]
    /\ dagState \in [Dags \cup Tasks -> {"NONE", "ACTIVE", "COMPLETED", "FAILED"}]
    /\ workerState \in [Workers -> {"IDLE", "BUSY"}]
    /\ pq \subseteq Tasks
    /\ assigned \in [Tasks -> Workers \cup {0}]
    /\ DOMAIN vault \subseteq NumIds
    /\ \A k \in DOMAIN vault : IsRule(vault[k])
    /\ eventChan \in Seq(Event)
    /\ Len(eventChan) <= ChanCap
    /\ inflight \subseteq Goroutine
    /\ pc \in {"select", "schedule", "stopped"}
    /\ submits \in [Dags -> 0..MaxSubmits]
    /\ idleReports \in 0..MaxIdleReports

Done(t) == taskState[t] = "COMPLETED"
Reports(t) == {i \in DOMAIN eventChan : /\ eventChan[i].type = "TASK_COMPLETED"
                                        /\ eventChan[i].task = t}
Runs(t) == {g \in inflight : g.task = t}

\* A task is queued, runs or has run only if all its predecessors have
\* completed: the indegree counters release a successor neither early nor
\* against a stale count (DecrementIndegree, core.go EventTaskCompleted).
PrecedenceRespected ==
    \A t \in Tasks :
        taskState[t] \in {"READY", "RUNNING", "COMPLETED"}
            => \A p \in Pred(t) : Done(p)

\* The three places that know about a task agree: it is in the queue exactly
\* when it is READY, and a RUNNING task has exactly one goroutine or one
\* completion event under way, any other task none.  (UpdateTaskState's errors
\* are ignored, so nothing else stops a task from being dispatched twice.)
QueueAndRunnersMatchStates ==
    /\ pq = {t \in Tasks : taskState[t] = "READY"}
    /\ \A t \in Tasks :
         Cardinality(Runs(t)) + Cardinality(Reports(t))
            = IF taskState[t] = "RUNNING" THEN 1 ELSE 0

\* As long as nobody has put a WORKER_IDLE event on the channel, a worker is
\* BUSY exactly when one task has been dispatched to it and that task's
\* completion has not been handled yet.
WorkerRunsOneTask ==
    idleReports = 0 => \A w \in Workers :
        Cardinality({g \in inflight : g.worker = w})
          + Cardinality({i \in DOMAIN eventChan :
                            /\ eventChan[i].type = "TASK_COMPLETED"
                            /\ eventChan[i].worker = w})
            = IF workerState[w] = "BUSY" THEN 1 ELSE 0

\* The Golden Rule of core.go and loader_linux.go: until a dispatched task has
\* sent its trigger, vault_map holds that task's own rule under its numeric id.
GoldenRule ==
    \A g \in inflight :
        g.phase = "compute" =>
            /\ NumId[g.task] \in DOMAIN vault
            /\ vault[NumId[g.task]].task = g.task

\* A DAG reported COMPLETED has no task left to run (the exit-node test of
\* EventTaskCompleted against the states of all the tasks).
CompletedDagIsDone ==
    \A d \in Dags : dagState[d] = "COMPLETED" =>
        \A t \in TasksOf(d) : Done(t)

\* Conversely a DAG all of whose tasks have completed is reported COMPLETED,
\* under the id it was registered with; a second submission alone can change
\* that, to FAILED.
FinishedDagIsCompleted ==
    \A d \in registered :
        (\A t \in TasksOf(d) : Done(t)) =>
            \/ dagState[d] = "COMPLETED"
            \/ submits[d] > 1 /\ dagState[d] = "FAILED"

\* Every DAG whose submission got into the channel is executed to the end,
\* whatever the channel's capacity and however the senders compete for it,
\* unless the reactor is stopped.
AcceptedDagsFinish ==
    \A d \in Dags :
        submits[d] > 0 ~> pc = "stopped" \/ \A t \in TasksOf(d) : Done(t)
=============================================================================
