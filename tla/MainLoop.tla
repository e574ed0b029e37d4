------------------------------ MODULE MainLoop ------------------------------
(***************************************************************************)
(* main.go around the scheduler core: one goroutine that submits a two-    *)
(* task DAG, polls the state of its last task, goes on when that is        *)
(* COMPLETED or when the context has expired, and ends after a fixed       *)
(* number of iterations.  The context is the one Run was given, so the     *)
(* reactor may return at any time after it has expired.                    *)
(*                                                                         *)
(* The round-trip times that the task goroutines measure go into rttStats, *)
(* two counters added to one after the other; their mean is read, in two   *)
(* loads, by main at the end and by whoever logs it on the way.            *)
(***************************************************************************)
EXTENDS Scheduler, Functions

CONSTANTS Iterations,  \* the DAG submitted in each iteration
          LastTask,    \* task1ID of each DAG
          RTTs         \* round-trip times that a ping may take

ASSUME IterationsAssumption ==
    /\ Iterations \in Seq(Dags)
    /\ \A d \in Dags : LastTask[d] \in TasksOf(d)
    /\ IsFiniteSet(RTTs) /\ RTTs \subseteq Nat \ {0}

VARIABLES iter,      \* loop variable i
          polling,   \* inside the polling loop of iteration i
          expired,   \* ctx.Err() is not nil
          totalNs, count,  \* rttStats
          recording,       \* goroutines between the two additions of Record
          reader,          \* a call of Mean between its two loads
          acks             \* ghost: how many pings took each time

rttVars == <<totalNs, count, recording, acks>>
mainVars == <<iter, polling, expired>>
allVars == <<vars, mainVars, rttVars, reader>>

NoReader == [c |-> 0, final |-> FALSE]

MainInit ==
    /\ Init
    /\ iter = 1 /\ polling = FALSE /\ expired = FALSE
    /\ totalNs = 0 /\ count = 0
    /\ recording = {}
    /\ reader = NoReader
    /\ acks = [r \in RTTs |-> 0]

\* sched.SubmitDAG(dag): blocks while the channel is full.
MainSubmit ==
    /\ iter <= Len(Iterations)
    /\ ~polling
    /\ SubmitDAG(Iterations[iter])
    /\ polling' = TRUE
    /\ UNCHANGED <<iter, expired, rttVars, reader>>

\* Variants: the loop breaks as soon as the last task has been started; the
\* context is not looked at.
MainPollStarted ==
    /\ polling
    /\ expired \/ taskState[LastTask[Iterations[iter]]] \in {"RUNNING", "COMPLETED"}
    /\ polling' = FALSE
    /\ iter' = iter + 1
    /\ UNCHANGED <<vars, expired, rttVars, reader>>

MainPollForEver ==
    /\ polling
    /\ taskState[LastTask[Iterations[iter]]] = "COMPLETED"
    /\ polling' = FALSE
    /\ iter' = iter + 1
    /\ UNCHANGED <<vars, expired, rttVars, reader>>

\* The polling loop breaks; a look that breaks nothing changes nothing.
MainPoll ==
    /\ polling
    /\ expired \/ taskState[LastTask[Iterations[iter]]] = "COMPLETED"
    /\ polling' = FALSE
    /\ iter' = iter + 1
    /\ UNCHANGED <<vars, expired, rttVars, reader>>

\* 300 s have passed.
Expire ==
    /\ ~expired
    /\ expired' = TRUE
    /\ UNCHANGED <<vars, iter, polling, rttVars, reader>>

-----------------------------------------------------------------------------
\* rttStats

\* Variant: the sample is counted before it is added.
RecordCountFirst(step, r) ==
    \/ step = 1 /\ count' = count + 1 /\ UNCHANGED totalNs
    \/ step = 2 /\ totalNs' = totalNs + r /\ UNCHANGED count

\* The two atomic additions of Record.
Record(step, r) ==
    \/ step = 1 /\ totalNs' = totalNs + r /\ UNCHANGED count
    \/ step = 2 /\ count' = count + 1 /\ UNCHANGED totalNs

Recording(g) == {s \in recording : s.task = g.task}

\* sendAndWaitForAck returns a time, and executeWorker begins to record it ...
AckArrives(g, r) ==
    /\ g.phase = "await"
    /\ Recording(g) = {}
    /\ Record(1, r)
    /\ acks' = [acks EXCEPT ![r] = @ + 1]
    /\ recording' = recording \cup {[task |-> g.task, rtt |-> r]}
    /\ UNCHANGED <<vars, mainVars, reader>>

\* ... and goes on when that is done, or at once if the ping failed.
EndRecording(g) ==
    /\ EndPing(g)
    /\ \/ Recording(g) = {} /\ UNCHANGED <<totalNs, count>>
       \/ \E s \in Recording(g) : Record(2, s.rtt)
    /\ recording' = recording \ Recording(g)
    /\ UNCHANGED <<mainVars, acks, reader>>

PingStep(g) ==
    \/ (SendTrigger(g) \/ ReportCompleted(g)) /\ UNCHANGED <<mainVars, rttVars, reader>>
    \/ \E r \in RTTs : AckArrives(g, r)
    \/ EndRecording(g)

\* Mean loads the count, and the total only if that is not 0.  A task
\* goroutine or a timeout message asks for it at any time, main when the loop
\* has ended.  One call at a time is followed.
LoadCount ==
    /\ reader = NoReader
    /\ count # 0
    /\ reader' = [c |-> count, final |-> iter > Len(Iterations)]
    /\ UNCHANGED <<vars, mainVars, rttVars>>

LoadTotal ==
    /\ reader # NoReader
    /\ reader' = NoReader
    /\ UNCHANGED <<vars, mainVars, rttVars>>

-----------------------------------------------------------------------------
MainNext ==
    \/ MainSubmit
    \/ MainPoll
    \/ Expire
    \/ (expired /\ Stop /\ UNCHANGED <<mainVars, rttVars, reader>>)
    \/ ReactorStep /\ UNCHANGED <<mainVars, rttVars, reader>>
    \/ \E g \in inflight : PingStep(g)
    \/ LoadCount
    \/ LoadTotal

MainSpec == MainInit /\ [][MainNext]_allVars

\* Time passes, and every goroutine that can run does.  Nothing says that the
\* reactor takes ctx.Done() while events keep coming, nor that it does not.
MainFairSpec ==
    /\ MainSpec
    /\ WF_allVars(Expire)
    /\ WF_allVars(MainSubmit)
    /\ WF_allVars(MainPoll)
    /\ WF_allVars(ReactorStep /\ UNCHANGED <<mainVars, rttVars, reader>>)
    /\ \A t \in Tasks :
         WF_allVars(\E g \in inflight : g.task = t /\ PingStep(g))

-----------------------------------------------------------------------------
UnderWay(d) == \E t \in TasksOf(d) : taskState[t] \notin {"NONE", "COMPLETED"}

\* main.go never has two DAGs under way before the context expires: polling the
\* last task alone is enough to know that the iteration is over.
OneDagAtATime ==
    ~expired => \A d, e \in Dags : UnderWay(d) /\ UnderWay(e) => d = e

\* Ids of different iterations clash ("task1-1" and "task0-11" are both 11),
\* but until the context expires a task never runs under another task's rule.
GoldenRuleInSequence == ~expired => GoldenRule

\* The mean that Mean is about to return (the total is loaded in this state).
MeanSoFar == totalNs \div reader.c

\* Although count and total are two variables, read and written without a lock,
\* no mean is smaller than every time measured: Record and Mean go through
\* them in opposite orders.
MeanNotBelowSamples ==
    reader # NoReader => \E r \in RTTs : acks[r] > 0 /\ MeanSoFar >= r

\* The "statistical mean RTT" main.go prints is that of all the pings that were
\* answered, none half recorded, if the context did not expire before.
MeanIsExact ==
    ~expired /\ reader.final =>
        MeanSoFar = SumFunction([r \in RTTs |-> r * acks[r]]) \div SumFunction(acks)

\* The program gets to its final statistics, expired context or not.
MainEnds == <>(iter > Len(Iterations))
=============================================================================
