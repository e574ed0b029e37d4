------------------------- MODULE SchedulerRefinement -------------------------
(***************************************************************************)
(* The scheduler core implements DagExecution.  A registered task is       *)
(* pending until it is RUNNING, and its runner is the worker whose IP is   *)
(* in AssignedNodeIP: dispatchTask writes there a guess for the successors *)
(* of the task it starts, so that the mapping is right only if no guess    *)
(* ever replaces the address of a task that runs.                          *)
(***************************************************************************)
EXTENDS Scheduler

status == [t \in Tasks |-> CASE taskState[t] = "NONE" -> "absent"
                             [] taskState[t] = "RUNNING" -> "running"
                             [] taskState[t] = "COMPLETED" -> "done"
                             [] OTHER -> "pending"]

runner == [t \in Tasks |-> IF taskState[t] = "RUNNING" THEN assigned[t] ELSE 0]

mode == IF pc = "stopped" THEN "closed"
        ELSE IF idleReports = 0 THEN "exclusive" ELSE "shared"

Execution == INSTANCE DagExecution
                WITH Preds <- [t \in Tasks |-> Pred(t)], NoWorker <- 0

\* Every step of the reactor, of a submitter or of a task goroutine is a step
\* of DagExecution or leaves what it shows unchanged.
ImplementsExecution == Execution!Spec

\* ... and no start or finish that DagExecution owes is put off for ever.
ImplementsFairExecution == Execution!FairSpec

-----------------------------------------------------------------------------
\* Why this holds: the inductive invariant of the scheduler core.

Unfinished(t) == {p \in Pred(t) : ~Done(p)}
IsReport(i) == eventChan[i].type = "TASK_COMPLETED"

\* RemainingDependencies counts the predecessors that have not completed, but
\* for main.go's tasks of one predecessor, which start at 0.
CountersExact ==
    \A t \in Tasks : \/ rem[t] = Cardinality(Unfinished(t))
                     \/ rem[t] = 0 /\ Cardinality(Pred(t)) <= 1

StatesKnown ==
    \A t \in Tasks : taskState[t] = "NONE" <=> DagOf[t] \notin registered

QueueIsReady == pq = {t \in Tasks : taskState[t] = "READY"}

\* Goroutines and completion events belong to running tasks, one to each, and
\* carry the worker whose address the task still has.
GoroutinesRun ==
    \A g \in inflight :
        taskState[g.task] = "RUNNING" /\ assigned[g.task] = g.worker

ReportsRun ==
    \A i \in DOMAIN eventChan : IsReport(i) =>
        /\ taskState[eventChan[i].task] = "RUNNING"
        /\ assigned[eventChan[i].task] = eventChan[i].worker

OneGoroutineEach == \A g, h \in inflight : g.task = h.task => g = h

OneReportEach ==
    \A i, j \in DOMAIN eventChan :
        IsReport(i) /\ IsReport(j) /\ eventChan[i].task = eventChan[j].task
            => i = j

NoReportWhileRunning ==
    \A g \in inflight : \A i \in DOMAIN eventChan :
        IsReport(i) => eventChan[i].task # g.task

RunningIsUnderWay ==
    \A t \in Tasks : taskState[t] = "RUNNING" =>
        \/ \E g \in inflight : g.task = t
        \/ \E i \in DOMAIN eventChan : IsReport(i) /\ eventChan[i].task = t

RunnersExact ==
    /\ GoroutinesRun /\ ReportsRun
    /\ OneGoroutineEach /\ OneReportEach /\ NoReportWhileRunning
    /\ RunningIsUnderWay

\* As long as nobody has sent a WORKER_IDLE event, a running task's worker is
\* busy with it alone.
NoStrayReport == \A i \in DOMAIN eventChan : eventChan[i].type # "WORKER_IDLE"

BookedExactly ==
    /\ \A t \in Tasks : taskState[t] = "RUNNING" =>
            assigned[t] \in Workers /\ workerState[assigned[t]] = "BUSY"
    /\ \A t, u \in Tasks :
            /\ taskState[t] = "RUNNING" /\ taskState[u] = "RUNNING"
            /\ assigned[t] = assigned[u]
            => t = u
    /\ \A w \in Workers : workerState[w] = "BUSY" =>
            \E t \in Tasks : taskState[t] = "RUNNING" /\ assigned[t] = w

WorkersExact == idleReports = 0 => NoStrayReport /\ BookedExactly

\* Inductive: the counters, the task states, the queue, and the goroutines and
\* events under way stay in step with one another through every handler.
CoreInv == /\ TypeOK
           /\ CountersExact
           /\ StatesKnown
           /\ PrecedenceRespected
           /\ QueueIsReady
           /\ RunnersExact

\* ... and, until the first stray WORKER_IDLE event, so do the workers.
WorkerInv == CoreInv /\ WorkersExact
=============================================================================
