---------------------------- MODULE DagExecution ----------------------------
(***************************************************************************)
(* What the scheduler promises to whoever submits DAGs: the tasks of a DAG *)
(* that has arrived are each executed once, on one worker, none before its *)
(* predecessors are done, no worker holding two tasks, and all of them in  *)
(* the end.  Two things a client may do weaken this: once somebody has     *)
(* reported a worker idle on his own account, workers may be shared, and   *)
(* once the context is cancelled nothing more happens.  No queue, event,   *)
(* counter or kernel map appears here.                                     *)
(***************************************************************************)
CONSTANTS Dags, Tasks, Workers,
          DagOf,     \* the DAG of each task
          Preds,     \* the predecessors of each task
          NoWorker

VARIABLES status,   \* of each task: absent, pending, running or done
          runner,   \* the worker of each running task, else NoWorker
          mode      \* of the workers: exclusive, shared or closed

vars == <<status, runner, mode>>

Init == /\ status = [t \in Tasks |-> "absent"]
        /\ runner = [t \in Tasks |-> NoWorker]
        /\ mode = "exclusive"

\* The DAG is accepted, with all its tasks at once.
Arrive(d) ==
    /\ mode # "closed"
    /\ \A t \in Tasks : DagOf[t] = d => status[t] = "absent"
    /\ status' = [t \in Tasks |-> IF DagOf[t] = d THEN "pending" ELSE status[t]]
    /\ UNCHANGED <<runner, mode>>

Start(t, w) ==
    /\ mode # "closed"
    /\ status[t] = "pending"
    /\ \A p \in Preds[t] : status[p] = "done"
    /\ mode = "exclusive" => \A u \in Tasks : runner[u] # w
    /\ status' = [status EXCEPT ![t] = "running"]
    /\ runner' = [runner EXCEPT ![t] = w]
    /\ UNCHANGED mode

Finish(t) ==
    /\ mode # "closed"
    /\ status[t] = "running"
    /\ status' = [status EXCEPT ![t] = "done"]
    /\ runner' = [runner EXCEPT ![t] = NoWorker]
    /\ UNCHANGED mode

Share == mode = "exclusive" /\ mode' = "shared" /\ UNCHANGED <<status, runner>>

Close == mode # "closed" /\ mode' = "closed" /\ UNCHANGED <<status, runner>>

Next == \/ \E d \in Dags : Arrive(d)
        \/ \E t \in Tasks, w \in Workers : Start(t, w)
        \/ \E t \in Tasks : Finish(t)
        \/ Share \/ Close

Spec == Init /\ [][Next]_vars

FairSpec == /\ Spec
            /\ WF_vars(\E t \in Tasks, w \in Workers : Start(t, w))
            /\ \A t \in Tasks : WF_vars(Finish(t))
=============================================================================
