--------------------------- MODULE MainLoopProofs ----------------------------
(***************************************************************************)
(* main.go around the scheduler core: what is proved of the core holds in  *)
(* it; its DAGs run one after the other, and under their own rules; and    *)
(* the lock-free statistics never report a mean below every time measured, *)
(* for any number of tasks, goroutines and times, and report the exact one *)
(* when the loop has ended.                                                *)
(***************************************************************************)
EXTENDS MainLoop, SchedulerProofs

IterOK == iter \in Nat \ {0}

\* Every step of the program is one of the core, or leaves it alone.
LEMMA MainStep == IterOK /\ [MainNext]_allVars => [Next]_vars
  <1> SUFFICES ASSUME IterOK, [MainNext]_allVars PROVE [Next]_vars
    OBVIOUS
  <1>1. CASE MainSubmit
    <2>1. Iterations[iter] \in Dags
      BY <1>1, IterationsAssumption DEF MainSubmit, IterOK
    <2> QED
      BY <1>1, <2>1 DEF MainSubmit, Next
  <1>2. ASSUME NEW g \in inflight, PingStep(g) PROVE [Next]_vars
    BY <1>2 DEF PingStep, AckArrives, EndRecording, Next, GoroutineStep
  <1>3. CASE ReactorStep \/ Stop
    BY <1>3 DEF Next
  <1> QED
    BY <1>1, <1>2, <1>3
    DEF MainNext, MainPoll, Expire, LoadCount, LoadTotal, allVars

LEMMA IterInvariant == MainSpec => []IterOK
  <1>1. MainInit => IterOK
    BY DEF MainInit, IterOK
  <1>2. IterOK /\ [MainNext]_allVars => IterOK'
    BY DEF IterOK, MainNext, MainSubmit, MainPoll, Expire, PingStep, AckArrives,
           EndRecording, LoadCount, LoadTotal, mainVars, allVars
  <1> QED
    BY <1>1, <1>2, PTL DEF MainSpec

\* main.go, whose counters start at 0, and whose loop, timeout and statistics
\* surround the core, implements the core.
THEOREM MainImplementsCore == MainSpec => Spec
  <1>1. MainInit => Init
    BY DEF MainInit
  <1> QED
    BY <1>1, MainStep, IterInvariant, PTL DEF MainSpec, Spec

\* In main.go's DAGs, too, no task is queued, runs or has run before its
\* predecessors have completed, although its counters start at 0.
THEOREM MainPrecedence == MainSpec => []PrecedenceRespected
  BY MainImplementsCore, Precedence, PTL

-----------------------------------------------------------------------------
\* One iteration after the other

\* The task main.go polls is the only exit of its DAG, as in every graph it
\* builds.
LastIsExit ==
    \A d \in Dags : \A t \in TasksOf(d) : IsExit(t) <=> t = LastTask[d]

InIteration(d) ==
    /\ polling
    /\ iter <= Len(Iterations)
    /\ d = Iterations[iter]

\* Inductive: what has been submitted is over, but for the DAG that is polled.
Sequential ==
    /\ polling => iter <= Len(Iterations)
    /\ ~expired =>
         \A d \in Dags : d \in registered \/ Arrivals(d) # {} =>
            \/ InIteration(d)
            \/ d \in registered /\ \A t \in TasksOf(d) : Done(t)

\* Nothing but a submission makes a DAG known to the reactor.
LEMMA KnownKept ==
  ASSUME CoreInv, NEW d \in Dags, d \in registered' \/ Arrivals(d)' # {},
         \/ ReactorStep \/ Stop \/ UNCHANGED vars
         \/ \E g \in inflight : GoroutineStep(g)
  PROVE  d \in registered \/ Arrivals(d) # {}
  <1>1. eventChan \in Seq(Event)
    BY DEF CoreInv, TypeOK
  <1>2. CASE UNCHANGED <<eventChan, registered>>
    BY <1>2 DEF Arrivals
  <1>3. ASSUME eventChan # <<>>, eventChan' = Tail(eventChan)
        PROVE  Arrivals(d)' # {} => Arrivals(d) # {}
    <2>1. /\ Len(eventChan) \in Nat \ {0}
          /\ DOMAIN eventChan = 1..Len(eventChan)
          /\ DOMAIN eventChan' = 1..(Len(eventChan) - 1)
          /\ \A i \in 1..(Len(eventChan) - 1) : eventChan'[i] = eventChan[i + 1]
      BY <1>1, <1>3
    <2>2. \A i \in Arrivals(d)' : i + 1 \in Arrivals(d)
      BY <2>1 DEF Arrivals
    <2> QED
      BY <2>2
  <1>4. CASE RegisterArrivedDAG
    <2>1. /\ eventChan # <<>> /\ eventChan' = Tail(eventChan)
          /\ registered' = registered \cup {Head(eventChan).dag}
          /\ Head(eventChan).type = "DAG_ARRIVED"
      BY <1>4 DEF RegisterArrivedDAG, Receive
    <2>2. 1 \in Arrivals(Head(eventChan).dag)
      BY <1>1, <2>1 DEF Arrivals
    <2> QED
      BY <1>3, <2>1, <2>2
  <1>5. CASE RejectArrivedDAG \/ CompleteTask \/ MarkWorkerIdle
    <2>1. /\ eventChan # <<>> /\ eventChan' = Tail(eventChan)
          /\ registered' = registered
      BY <1>5 DEF RejectArrivedDAG, CompleteTask, MarkWorkerIdle, Receive
    <2> QED
      BY <1>3, <2>1
  <1>6. ASSUME NEW g \in inflight, ReportCompleted(g)
        PROVE  d \in registered \/ Arrivals(d) # {}
    <2> DEFINE e == [type |-> "TASK_COMPLETED", task |-> g.task, worker |-> g.worker]
    <2>1. e \in Event /\ e.type # "DAG_ARRIVED"
      BY DEF Event, CoreInv, TypeOK, Goroutine
    <2>2. eventChan' = Append(eventChan, e) /\ registered' = registered
      BY <1>6 DEF ReportCompleted, Send, stores
    <2> HIDE DEF e
    <2>3. /\ Len(eventChan) \in Nat
          /\ DOMAIN eventChan = 1..Len(eventChan)
          /\ DOMAIN eventChan' = 1..(Len(eventChan) + 1)
          /\ \A i \in 1..Len(eventChan) : eventChan'[i] = eventChan[i]
          /\ eventChan'[Len(eventChan) + 1] = e
      BY <1>1, <2>1, <2>2
    <2>4. Arrivals(d)' \subseteq Arrivals(d)
      BY <2>1, <2>3 DEF Arrivals
    <2> QED
      BY <2>2, <2>4
  <1>7. ASSUME EndScheduling \/ Stop
               \/ (\E t \in pq, w \in Workers : DispatchTask(t, w))
               \/ (\E g \in inflight : SendTrigger(g) \/ EndPing(g))
               \/ UNCHANGED vars
        PROVE  UNCHANGED <<eventChan, registered>>
    BY <1>7 DEF EndScheduling, Stop, DispatchTask, SendTrigger, EndPing, vars, stores
  <1> QED
    BY <1>2, <1>4, <1>5, <1>6, <1>7 DEF ReactorStep, GoroutineStep

LEMMA RegisteredKept ==
  ASSUME [Next]_vars
  PROVE  registered \subseteq registered'
  <1>1. CASE RegisterArrivedDAG
    BY <1>1 DEF RegisterArrivedDAG
  <1>2. ASSUME CompleteTask \/ \E t \in pq, w \in Workers : DispatchTask(t, w)
        PROVE  registered' = registered
    BY <1>2 DEF CompleteTask, DispatchTask
  <1>3. CASE OtherStep
    BY <1>3, OtherStates
  <1> QED
    BY <1>1, <1>2, <1>3, StepCases

LEMMA SequentialPreserved ==
  ASSUME LastIsExit, IterOK, CoreInv, Sequential, [MainNext]_allVars
  PROVE  Sequential'
  <1>1. [Next]_vars
    BY MainStep
  <1>2. iter \in Nat \ {0} /\ Len(Iterations) \in Nat
    BY IterationsAssumption DEF IterOK
  <1>3. \A d \in Dags : /\ \A t \in TasksOf(d) : Done(t) => Done(t)'
                       /\ TasksOf(d)' = TasksOf(d)
    BY <1>1, DoneStates DEF TasksOf
  <1>4. registered \subseteq registered'
    BY <1>1, RegisteredKept
  <1>5. CASE MainSubmit
    <2>1. /\ ~polling /\ polling' /\ iter <= Len(Iterations)
          /\ UNCHANGED <<iter, expired>>
          /\ Iterations[iter] \in Dags
          /\ SubmitDAG(Iterations[iter])
      BY <1>2, <1>5, IterationsAssumption DEF MainSubmit
    <2> SUFFICES ASSUME ~expired, NEW d \in Dags,
                        d \in registered' \/ Arrivals(d)' # {}
                 PROVE  \/ InIteration(d)'
                        \/ d \in registered' /\ \A t \in TasksOf(d) : Done(t)'
      BY <1>3, <2>1 DEF Sequential
    <2>2. CASE d = Iterations[iter]
      BY <2>1, <2>2 DEF InIteration
    <2>3. CASE d # Iterations[iter]
      <3> DEFINE e == [type |-> "DAG_ARRIVED", dag |-> Iterations[iter]]
      <3>1. e \in Event /\ e.dag = Iterations[iter]
        BY <2>1 DEF Event
      <3>2. eventChan' = Append(eventChan, e) /\ registered' = registered
        BY <2>1 DEF SubmitDAG, Send, stores
      <3> HIDE DEF e
      <3>3. /\ eventChan \in Seq(Event)
            /\ Len(eventChan) \in Nat
            /\ DOMAIN eventChan = 1..Len(eventChan)
            /\ DOMAIN eventChan' = 1..(Len(eventChan) + 1)
            /\ \A i \in 1..Len(eventChan) : eventChan'[i] = eventChan[i]
            /\ eventChan'[Len(eventChan) + 1] = e
        BY <3>1, <3>2 DEF CoreInv, TypeOK
      <3>4. Arrivals(d)' \subseteq Arrivals(d)
        BY <2>3, <3>1, <3>3 DEF Arrivals
      <3>5. d \in registered /\ \A t \in TasksOf(d) : Done(t)
        BY <2>1, <3>2, <3>4 DEF Sequential, InIteration
      <3> QED
        BY <1>3, <1>4, <3>5
    <2> QED
      BY <2>2, <2>3
  <1>6. CASE MainPoll
    <2>1. /\ polling /\ ~polling' /\ UNCHANGED <<vars, expired>>
          /\ expired \/ taskState[LastTask[Iterations[iter]]] = "COMPLETED"
          /\ iter <= Len(Iterations)
      BY <1>6 DEF MainPoll, Sequential
    <2> SUFFICES ASSUME ~expired, NEW d \in Dags,
                        d \in registered \/ Arrivals(d) # {}
                 PROVE  d \in registered /\ \A t \in TasksOf(d) : Done(t)
      BY <2>1 DEF Sequential, vars, stores, Arrivals, Done, TasksOf
    <2>2. CASE ~InIteration(d)
      BY <2>2 DEF Sequential
    <2>3. CASE InIteration(d)
      <3> DEFINE last == LastTask[d]
                 done == {t \in Tasks : taskState[t] = "COMPLETED"}
      <3>1. last \in TasksOf(d) /\ last \in Tasks /\ DagOf[last] = d
        BY IterationsAssumption DEF TasksOf
      <3>2. taskState[last] = "COMPLETED"
        BY <2>1, <2>3 DEF InIteration
      <3>3. d \in registered
        BY <3>1, <3>2 DEF CoreInv, StatesKnown
      <3>4. OneExit /\ IsExit(last)
        BY <3>1 DEF LastIsExit, OneExit
      <3>5. \A t \in done : Pred(t) \subseteq done
        BY PredFacts DEF CoreInv, PrecedenceRespected, Done
      <3>6. TasksOf(d) \subseteq done
        BY <3>1, <3>2, <3>4, <3>5, ExitIsLast
      <3> QED
        BY <3>3, <3>6 DEF Done
    <2> QED
      BY <2>2, <2>3
  <1>7. CASE Expire
    BY <1>7 DEF Expire, Sequential
  <1>8. ASSUME UNCHANGED mainVars,
               \/ ReactorStep \/ Stop \/ UNCHANGED vars
               \/ \E g \in inflight : GoroutineStep(g)
        PROVE  Sequential'
    <2>1. UNCHANGED <<iter, polling, expired>>
      BY <1>8 DEF mainVars
    <2> SUFFICES ASSUME ~expired, NEW d \in Dags,
                        d \in registered' \/ Arrivals(d)' # {}
                 PROVE  \/ InIteration(d)'
                        \/ d \in registered' /\ \A t \in TasksOf(d) : Done(t)'
      BY <1>3, <2>1 DEF Sequential
    <2>2. d \in registered \/ Arrivals(d) # {}
      BY <1>8, KnownKept
    <2>3. CASE InIteration(d)
      BY <2>1, <2>3 DEF InIteration
    <2>4. CASE d \in registered /\ \A t \in TasksOf(d) : Done(t)
      BY <1>3, <1>4, <2>4
    <2> QED
      BY <2>2, <2>3, <2>4 DEF Sequential
  <1>9. ASSUME NEW g \in inflight, PingStep(g)
        PROVE  UNCHANGED mainVars /\ (GoroutineStep(g) \/ UNCHANGED vars)
    BY <1>9 DEF PingStep, AckArrives, EndRecording, GoroutineStep
  <1> QED
    BY <1>5, <1>6, <1>7, <1>8, <1>9
    DEF MainNext, LoadCount, LoadTotal, allVars

LEMMA SequentialHolds ==
  ASSUME LastIsExit
  PROVE  MainSpec => [](CoreInv /\ Sequential)
  <1>1. MainInit => Sequential
    BY DEF MainInit, Init, Sequential, Arrivals
  <1>2. IterOK /\ CoreInv /\ Sequential /\ [MainNext]_allVars => Sequential'
    BY SequentialPreserved
  <1> QED
    BY <1>1, <1>2, IterInvariant, MainImplementsCore, CoreInvariant, PTL
    DEF MainSpec

LEMMA SequentialOneDag ==
  ASSUME CoreInv, Sequential, ~expired, NEW d \in Dags, UnderWay(d)
  PROVE  d \in registered /\ InIteration(d)
  <1>1. PICK t \in TasksOf(d) : taskState[t] \notin {"NONE", "COMPLETED"}
    BY DEF UnderWay
  <1>2. d \in registered
    BY <1>1 DEF CoreInv, StatesKnown, TasksOf
  <1> QED
    BY <1>1, <1>2 DEF Sequential, Done

\* If the task polled is the only exit, main.go has one DAG under way at a time
\* until its context expires.
THEOREM DagsInSequence ==
    ASSUME LastIsExit
    PROVE  MainSpec => []OneDagAtATime
  <1>1. CoreInv /\ Sequential => OneDagAtATime
    BY SequentialOneDag DEF OneDagAtATime, InIteration
  <1> QED
    BY <1>1, SequentialHolds, PTL

\* So the rules of its tasks may share ids between iterations, as they do: it is
\* enough that the ids of one DAG's tasks differ, and that the map has room.
THEOREM RulesInSequence ==
    ASSUME LastIsExit,
           \A t, u \in Tasks : DagOf[t] = DagOf[u] /\ NumId[t] = NumId[u] => t = u,
           Cardinality(NumIds) <= VaultCap
    PROVE  MainSpec => []GoldenRuleInSequence
  <1>1. MainInit => GoldenRuleInSequence
    BY DEF MainInit, Init, GoldenRuleInSequence, GoldenRule
  <1>2. IterOK /\ CoreInv /\ Sequential /\ GoldenRuleInSequence
          /\ [MainNext]_allVars => GoldenRuleInSequence'
    <2> SUFFICES ASSUME IterOK, CoreInv, Sequential, GoldenRuleInSequence,
                        [MainNext]_allVars, ~expired'
                 PROVE  GoldenRule'
      BY DEF GoldenRuleInSequence
    <2>1. ~expired
      BY DEF MainNext, MainSubmit, MainPoll, Expire, PingStep, AckArrives,
             EndRecording, LoadCount, LoadTotal, mainVars, allVars
    <2>2. GoldenRule /\ [Next]_vars
      BY <2>1, MainStep DEF GoldenRuleInSequence
    <2>3. ASSUME NEW t \in Tasks, NEW u \in Tasks,
                 taskState[t] = "READY", taskState[u] = "RUNNING"
          PROVE  NumId[t] # NumId[u]
      <3>1. /\ DagOf[t] \in Dags /\ t \in TasksOf(DagOf[t])
            /\ DagOf[u] \in Dags /\ u \in TasksOf(DagOf[u])
        BY SetsAssumption DEF TasksOf
      <3>2. UnderWay(DagOf[t]) /\ UnderWay(DagOf[u])
        BY <2>3, <3>1 DEF UnderWay
      <3>3. DagOf[t] = DagOf[u]
        BY <2>1, <3>1, <3>2, SequentialOneDag DEF InIteration
      <3> QED
        BY <2>3, <3>3
    <2> QED
      BY <2>2, <2>3, GoldenRulePreserved
  <1> QED
    BY <1>1, <1>2, IterInvariant, SequentialHolds, PTL DEF MainSpec

-----------------------------------------------------------------------------
\* rttStats

\* Samples that are in totalNs.
Taken == count + Cardinality(recording)

\* Inductive: the total is at least what it would be if every sample in it had
\* taken the shortest time measured, and a reader's count is not ahead of it.
StatsInv ==
    /\ totalNs \in Nat /\ count \in Nat /\ acks \in [RTTs -> Nat]
    /\ IsFiniteSet(recording)
    /\ \A s \in recording : s.rtt \in RTTs
    /\ \A s, u \in recording : s.task = u.task => s = u
    /\ reader # NoReader => reader.c \in 1..count
    /\ Taken > 0 => \E m \in RTTs : acks[m] > 0 /\ m * Taken <= totalNs

LEMMA TakenNat == StatsInv => Cardinality(recording) \in Nat /\ Taken \in Nat
  BY FS_CardinalityType DEF StatsInv, Taken

\* The first addition: a sample more in the total.
LEMMA AckKeepsStats ==
    ASSUME StatsInv, NEW g, NEW r \in RTTs, AckArrives(g, r)
    PROVE  StatsInv'
  <1> DEFINE x == [task |-> g.task, rtt |-> r]
  <1>1. /\ r \in Nat /\ r > 0 /\ RTTs \subseteq Nat
        /\ totalNs' = totalNs + r /\ count' = count
        /\ acks' = [acks EXCEPT ![r] = @ + 1]
        /\ recording' = recording \cup {x}
        /\ reader' = reader
    BY IterationsAssumption DEF AckArrives, Record
  <1>2. \A s \in recording : s.task # g.task
    BY DEF AckArrives, Recording
  <1>3. x \notin recording
    BY <1>2
  <1>4. /\ IsFiniteSet(recording')
        /\ Cardinality(recording') = Cardinality(recording) + 1
    BY <1>1, <1>3, FS_AddElement DEF StatsInv
  <1>5. Taken' = Taken + 1 /\ Taken \in Nat
    BY <1>1, <1>4, TakenNat DEF Taken, StatsInv
  <1>6. \E m \in RTTs : acks'[m] > 0 /\ m * Taken' <= totalNs'
    <2>1. acks'[r] > 0 /\ \A q \in RTTs : acks'[q] >= acks[q]
      BY <1>1 DEF StatsInv
    <2>2. CASE Taken = 0
      BY <1>1, <1>5, <2>1, <2>2 DEF StatsInv
    <2>3. CASE Taken > 0
      <3>1. PICK m \in RTTs : acks[m] > 0 /\ m * Taken <= totalNs
        BY <2>3 DEF StatsInv
      <3>2. m \in Nat /\ totalNs \in Nat /\ acks[m] \in Nat /\ acks'[m] \in Nat
        BY <1>1, <3>1 DEF StatsInv
      <3>3. CASE m <= r
        <4>1. m * (Taken + 1) = m * Taken + m
          BY <1>5, <3>2
        <4>2. m * Taken \in Nat
          BY <1>5, <3>2
        <4>3. m * Taken' <= totalNs'
          BY <1>1, <1>5, <3>1, <3>2, <3>3, <4>1, <4>2
        <4>4. acks'[m] > 0
          BY <2>1, <3>1, <3>2
        <4> QED
          BY <4>3, <4>4
      <3>4. CASE r < m
        <4>1. r * (Taken + 1) = r * Taken + r /\ r * Taken <= m * Taken
          BY <1>1, <1>5, <3>2, <3>4
        <4>2. r * Taken \in Nat /\ m * Taken \in Nat
          BY <1>1, <1>5, <3>2
        <4> QED
          BY <1>1, <1>5, <2>1, <3>1, <3>2, <4>1, <4>2
      <3> QED
        BY <1>1, <3>2, <3>3, <3>4
    <2> QED
      BY <1>5, <2>2, <2>3
  <1>7. /\ \A s \in recording' : s.rtt \in RTTs
        /\ \A s, u \in recording' : s.task = u.task => s = u
    BY <1>1, <1>2 DEF StatsInv
  <1> QED
    BY <1>1, <1>4, <1>6, <1>7 DEF StatsInv

\* The second: the sample is counted, or there was none.
LEMMA EndKeepsStats ==
    ASSUME StatsInv, NEW g, EndRecording(g)
    PROVE  StatsInv'
  <1>1. /\ UNCHANGED <<acks, reader, totalNs>>
        /\ recording' = recording \ Recording(g)
    BY DEF EndRecording, Record
  <1>2. CASE Recording(g) = {}
    <2>1. UNCHANGED <<recording, count>>
      BY <1>1, <1>2 DEF EndRecording
    <2> QED
      BY <1>1, <2>1 DEF StatsInv, Taken
  <1>3. CASE Recording(g) # {}
    <2>1. PICK s \in Recording(g) : count' = count + 1
      BY <1>3 DEF EndRecording, Record
    <2>2. s \in recording /\ Recording(g) = {s}
      BY <2>1 DEF Recording, StatsInv
    <2>3. /\ IsFiniteSet(recording')
          /\ Cardinality(recording') = Cardinality(recording) - 1
      BY <1>1, <2>2, FS_RemoveElement DEF StatsInv
    <2>4. Taken' = Taken
      BY <2>1, <2>3, TakenNat DEF Taken, StatsInv
    <2>5. reader' # NoReader => reader'.c \in 1..count'
      BY <1>1, <2>1 DEF StatsInv
    <2> QED
      BY <1>1, <2>1, <2>3, <2>4, <2>5 DEF StatsInv
  <1> QED
    BY <1>2, <1>3

LEMMA StatsPreserved == StatsInv /\ [MainNext]_allVars => StatsInv'
  <1> SUFFICES ASSUME StatsInv, [MainNext]_allVars PROVE StatsInv'
    OBVIOUS
  <1>1. ASSUME NEW g \in inflight, PingStep(g) PROVE StatsInv'
    <2>1. CASE UNCHANGED <<mainVars, rttVars, reader>>
      BY <2>1 DEF StatsInv, Taken, rttVars
    <2> QED
      BY <1>1, <2>1, AckKeepsStats, EndKeepsStats DEF PingStep
  <1>2. CASE LoadCount
    <2>1. /\ UNCHANGED rttVars /\ count # 0
          /\ reader' = [c |-> count, final |-> iter > Len(Iterations)]
      BY <1>2 DEF LoadCount
    <2>2. reader'.c = count /\ count \in 1..count
      BY <2>1 DEF StatsInv
    <2> QED
      BY <2>1, <2>2 DEF StatsInv, Taken, rttVars
  <1>3. CASE LoadTotal
    BY <1>3 DEF LoadTotal, StatsInv, Taken, rttVars
  <1>4. CASE UNCHANGED <<rttVars, reader>>
    BY <1>4 DEF StatsInv, Taken, rttVars
  <1> QED
    BY <1>1, <1>2, <1>3, <1>4
    DEF MainNext, MainSubmit, MainPoll, Expire, allVars

\* What the shortest sample bounds from below, its multiples divided do too.
LEMMA DivAbove ==
    ASSUME NEW n \in Nat, NEW c \in Nat \ {0}, NEW m \in Nat, m * c <= n
    PROVE  n \div c >= m
  <1> DEFINE q == n \div c
  <1>1. q \in Nat /\ n < c * (q + 1)
    BY SMTT(30)
  <1>2. ~(q + 1 <= m)
    <2> SUFFICES ASSUME q + 1 <= m PROVE FALSE
      OBVIOUS
    <2>1. c * (q + 1) <= c * m
      BY <1>1
    <2>2. c * (q + 1) \in Nat /\ c * m \in Nat /\ c * m = m * c
      BY <1>1
    <2> QED
      BY <1>1, <2>1, <2>2
  <1> QED
    BY <1>1, <1>2

LEMMA StatsGiveMean == StatsInv => MeanNotBelowSamples
  <1> SUFFICES ASSUME StatsInv, reader # NoReader
               PROVE  \E r \in RTTs : acks[r] > 0 /\ MeanSoFar >= r
    BY DEF MeanNotBelowSamples
  <1>1. /\ reader.c \in Nat \ {0} /\ reader.c <= count /\ count \in Nat
        /\ totalNs \in Nat
    BY DEF StatsInv
  <1>2. Taken \in Nat /\ reader.c <= Taken /\ Taken > 0
    BY <1>1, TakenNat DEF Taken
  <1>3. PICK m \in RTTs : acks[m] > 0 /\ m * Taken <= totalNs
    BY <1>2 DEF StatsInv
  <1>4. m \in Nat
    BY IterationsAssumption
  <1>5. m * reader.c <= m * Taken
    BY <1>1, <1>2, <1>4
  <1>6. m * reader.c <= totalNs
    BY <1>1, <1>2, <1>3, <1>4, <1>5
  <1>7. MeanSoFar >= m
    BY <1>1, <1>4, <1>6, DivAbove DEF MeanSoFar
  <1> QED
    BY <1>3, <1>7

\* Record and Mean of rttStats use no lock, yet no mean is below every time
\* measured: for any number of goroutines recording, and any times.
THEOREM MeanNeverTooLow == MainSpec => []MeanNotBelowSamples
  <1>1. MainInit => StatsInv
    BY FS_EmptySet DEF MainInit, StatsInv, Taken
  <1> QED
    BY <1>1, StatsPreserved, StatsGiveMean, PTL DEF MainSpec

-----------------------------------------------------------------------------
\* Sums over a finite set

\* F sums f over every subset of R.
Sums(F, f, R) ==
    F = [S \in SUBSET R |-> IF S = {} THEN 0
                            ELSE LET x == CHOOSE x \in S : TRUE
                                 IN  f[x] + F[S \ {x}]]

UpTo(R, n) == {S \in SUBSET R : Cardinality(S) <= n}

LEMMA SumsExist ==
    ASSUME NEW R, IsFiniteSet(R), NEW f \in [R -> Nat]
    PROVE  \E F \in [SUBSET R -> Nat] : Sums(F, f, R)
  <1> DEFINE Some(S) == CHOOSE x \in S : TRUE
             Value(F, S) == IF S = {} THEN 0 ELSE f[Some(S)] + F[S \ {Some(S)}]
             P(n) == \E F \in [UpTo(R, n) -> Nat] :
                       \A S \in UpTo(R, n) : F[S] = Value(F, S)
  <1>1. \A S \in SUBSET R :
          /\ IsFiniteSet(S) /\ Cardinality(S) \in Nat
          /\ Cardinality(S) = 0 <=> S = {}
          /\ S # {} => /\ Some(S) \in S
                       /\ Cardinality(S \ {Some(S)}) = Cardinality(S) - 1
    BY FS_Subset, FS_CardinalityType, FS_EmptySet, FS_RemoveElement
  <1> HIDE DEF Some
  <1>2. P(0)
    <2>1. UpTo(R, 0) = {{}}
      <3>1. {} \in SUBSET R /\ Cardinality({}) = 0
        BY FS_EmptySet
      <3>2. \A S \in SUBSET R : Cardinality(S) <= 0 => S = {}
        <4> SUFFICES ASSUME NEW S \in SUBSET R, Cardinality(S) <= 0 PROVE S = {}
          OBVIOUS
        <4>1. Cardinality(S) \in Nat
          BY <1>1
        <4>2. Cardinality(S) = 0
          BY <4>1
        <4> QED
          BY <1>1, <4>2
      <3> QED
        BY <3>1, <3>2 DEF UpTo
    <2> DEFINE F == [S \in UpTo(R, 0) |-> 0]
    <2>2. F \in [UpTo(R, 0) -> Nat] /\ \A S \in UpTo(R, 0) : F[S] = Value(F, S)
      BY <2>1
    <2> QED
      BY <2>2
  <1>3. ASSUME NEW n \in Nat, P(n) PROVE P(n + 1)
    <2>1. PICK F \in [UpTo(R, n) -> Nat] : \A S \in UpTo(R, n) : F[S] = Value(F, S)
      BY <1>3
    <2> DEFINE G == [S \in UpTo(R, n + 1) |-> Value(F, S)]
    <2>2. ASSUME NEW S \in UpTo(R, n + 1), S # {}
          PROVE  S \ {Some(S)} \in UpTo(R, n) /\ Some(S) \in R
      BY <1>1, <2>2 DEF UpTo
    <2>3. ASSUME NEW S \in UpTo(R, n) PROVE S \in UpTo(R, n + 1)
      <3>1. S \in SUBSET R /\ Cardinality(S) <= n
        BY DEF UpTo
      <3>2. Cardinality(S) \in Nat
        BY <1>1, <3>1
      <3>3. Cardinality(S) <= n + 1
        BY <3>1, <3>2
      <3> QED
        BY <3>1, <3>3 DEF UpTo
    <2>4. \A S \in UpTo(R, n) : G[S] = F[S]
      BY <2>1, <2>3
    <2>5. G \in [UpTo(R, n + 1) -> Nat]
      BY <2>2
    <2>6. ASSUME NEW S \in UpTo(R, n + 1) PROVE G[S] = Value(G, S)
      <3>1. CASE S = {}
        BY <3>1
      <3>2. CASE S # {}
        <4>1. G[S] = f[Some(S)] + F[S \ {Some(S)}]
          BY <3>2
        <4>2. G[S \ {Some(S)}] = F[S \ {Some(S)}]
          BY <2>2, <2>4, <3>2
        <4> QED
          BY <3>2, <4>1, <4>2
      <3> QED
        BY <3>1, <3>2
    <2> HIDE DEF G
    <2> QED
      BY <2>5, <2>6
  <1> DEFINE N == Cardinality(R)
             Bad == {n \in Nat : ~P(n)}
  <1>4. N \in Nat
    BY <1>1
  <1> HIDE DEF P
  <1>5. Bad = {}
    <2> SUFFICES ASSUME Bad # {} PROVE FALSE
      OBVIOUS
    <2>1. PICK n \in Bad : \A k \in Bad : ~(<<k, n>> \in OpToRel(<, Nat))
      <3>1. Bad \subseteq Nat
        OBVIOUS
      <3> HIDE DEF Bad
      <3> QED
        BY <3>1, NatLessThanWellFounded, WFMin
    <2>2. n \in Nat /\ n # 0 /\ n - 1 \in Nat /\ n - 1 < n
      BY <1>2
    <2>3. P(n - 1)
      BY <2>1, <2>2 DEF OpToRel
    <2>4. (n - 1) + 1 = n
      BY <2>2
    <2>5. P((n - 1) + 1)
      BY <1>3, <2>2, <2>3
    <2> QED
      BY <2>4, <2>5
  <1>6. P(N)
    BY <1>4, <1>5
  <1>7. UpTo(R, N) = SUBSET R
    BY <1>4, FS_Subset DEF UpTo
  <1>8. PICK F \in [SUBSET R -> Nat] : \A S \in SUBSET R : F[S] = Value(F, S)
    BY <1>6, <1>7 DEF P
  <1>9. F = [S \in SUBSET R |-> Value(F, S)]
    <2> DEFINE G == [S \in SUBSET R |-> Value(F, S)]
    <2>1. \A S \in SUBSET R : F[S] = G[S]
      BY <1>8
    <2> HIDE DEF Value
    <2> QED
      BY <2>1
  <1> QED
    BY <1>9 DEF Sums, Some

LEMMA LeastSubset ==
    ASSUME NEW R, IsFiniteSet(R), NEW Bad, Bad \subseteq SUBSET R, Bad # {}
    PROVE  \E S \in Bad : \A T \in Bad : ~(T \subseteq S /\ T # S)
  <1>1. FiniteSubsetsOf(R) = SUBSET R
    BY FS_FiniteSubsetsOfFinite
  <1>2. PICK S \in Bad : \A T \in Bad : <<T, S>> \notin StrictSubsetOrdering(R)
    BY <1>1, FS_StrictSubsetOrderingWellFounded, WFMin
  <1> QED
    BY <1>2 DEF StrictSubsetOrdering

\* Two functions that sum f are the same.
LEMMA SumsAgree ==
    ASSUME NEW R, IsFiniteSet(R), NEW f, NEW F, NEW G, Sums(F, f, R), Sums(G, f, R)
    PROVE  \A S \in SUBSET R : F[S] = G[S]
  <1> DEFINE Bad == {S \in SUBSET R : F[S] # G[S]}
  <1>1. Bad = {}
    <2> SUFFICES ASSUME Bad # {} PROVE FALSE
      OBVIOUS
    <2>1. Bad \subseteq SUBSET R
      OBVIOUS
    <2>2. PICK S \in Bad : \A T \in Bad : ~(T \subseteq S /\ T # S)
      <3> HIDE DEF Bad
      <3> QED
        BY <2>1, LeastSubset
    <2>3. S # {}
      BY DEF Sums
    <2> DEFINE x == CHOOSE y \in S : TRUE
    <2>4. x \in S /\ S \ {x} \in SUBSET R
      BY <2>1, <2>3
    <2>5. F[S] = f[x] + F[S \ {x}] /\ G[S] = f[x] + G[S \ {x}]
      BY <2>1, <2>3 DEF Sums
    <2> HIDE DEF x
    <2>6. F[S \ {x}] = G[S \ {x}]
      BY <2>2, <2>4
    <2> QED
      BY <2>5, <2>6
  <1> QED
    BY <1>1

LEMMA SumUnfolds ==
    ASSUME NEW R, NEW f \in [R -> Nat], NEW F, Sums(F, f, R)
    PROVE  LET G == CHOOSE G : Sums(G, f, R)
           IN  Sums(G, f, R) /\ SumFunction(f) = G[R]
  BY ZenonT(60) DEF Sums, SumFunction, SumFunctionOnSet, FoldFunctionOnSet, MapThenFoldSet

\* The sum of f, and how it grows when one value does.
LEMMA SumOf ==
    ASSUME NEW R, IsFiniteSet(R), NEW f \in [R -> Nat]
    PROVE  \E F \in [SUBSET R -> Nat] : Sums(F, f, R) /\ SumFunction(f) = F[R]
  <1> DEFINE G == CHOOSE F : Sums(F, f, R)
  <1>1. PICK F \in [SUBSET R -> Nat] : Sums(F, f, R)
    BY SumsExist
  <1>2. Sums(G, f, R) /\ SumFunction(f) = G[R]
    BY <1>1, SumUnfolds
  <1> HIDE DEF G
  <1>3. \A S \in SUBSET R : G[S] = F[S]
    BY <1>1, <1>2, SumsAgree
  <1>4. G = [S \in SUBSET R |-> G[S]]
    BY <1>2 DEF Sums
  <1>5. G \in [SUBSET R -> Nat]
    BY <1>3, <1>4
  <1> QED
    BY <1>2, <1>5

LEMMA SumGrows ==
    ASSUME NEW R, IsFiniteSet(R), NEW f \in [R -> Nat], NEW r \in R, NEW d \in Nat
    PROVE  SumFunction([f EXCEPT ![r] = @ + d]) = SumFunction(f) + d
  <1> DEFINE g == [f EXCEPT ![r] = @ + d]
             By(S) == IF r \in S THEN d ELSE 0
  <1>1. /\ g \in [R -> Nat] /\ g[r] = f[r] + d
        /\ \A x \in R : x # r => g[x] = f[x]
    OBVIOUS
  <1> HIDE DEF g
  <1>2. PICK F \in [SUBSET R -> Nat] : Sums(F, f, R) /\ SumFunction(f) = F[R]
    BY SumOf
  <1>3. PICK G \in [SUBSET R -> Nat] : Sums(G, g, R) /\ SumFunction(g) = G[R]
    BY <1>1, SumOf
  <1> DEFINE Bad == {S \in SUBSET R : G[S] # F[S] + By(S)}
  <1>4. Bad = {}
    <2> SUFFICES ASSUME Bad # {} PROVE FALSE
      OBVIOUS
    <2>1. Bad \subseteq SUBSET R
      OBVIOUS
    <2>2. PICK S \in Bad : \A T \in Bad : ~(T \subseteq S /\ T # S)
      <3> HIDE DEF Bad
      <3> QED
        BY <2>1, LeastSubset
    <2>3. S # {}
      BY <1>2, <1>3 DEF Sums
    <2> DEFINE x == CHOOSE y \in S : TRUE
    <2>4. x \in S /\ x \in R /\ S \ {x} \in SUBSET R
      BY <2>1, <2>3
    <2>5. F[S] = f[x] + F[S \ {x}] /\ G[S] = g[x] + G[S \ {x}]
      BY <1>2, <1>3, <2>1, <2>3 DEF Sums
    <2> HIDE DEF x
    <2>6. G[S \ {x}] = F[S \ {x}] + By(S \ {x})
      BY <2>2, <2>4
    <2>7. /\ F[S \ {x}] \in Nat /\ f[x] \in Nat /\ g[x] \in Nat
      BY <1>1, <2>4
    <2>8. g[x] + By(S \ {x}) = f[x] + By(S)
      BY <1>1, <2>4
    <2>9. G[S] = F[S] + By(S)
      <3> HIDE DEF By
      <3>1. By(S) \in Nat /\ By(S \ {x}) \in Nat
        BY DEF By
      <3> QED
        BY <2>5, <2>6, <2>7, <2>8, <3>1
    <2> QED
      BY <2>9
  <1>5. G[R] = F[R] + d
    BY <1>4
  <1> QED
    BY <1>2, <1>3, <1>5 DEF g

\* No time measured: the sum is 0.
LEMMA SumOfZeros ==
    ASSUME NEW R, IsFiniteSet(R), NEW f \in [R -> Nat], \A r \in R : f[r] = 0
    PROVE  SumFunction(f) = 0
  <1>1. PICK F \in [SUBSET R -> Nat] : Sums(F, f, R) /\ SumFunction(f) = F[R]
    BY SumOf
  <1> DEFINE Bad == {S \in SUBSET R : F[S] # 0}
  <1>2. Bad = {}
    <2> SUFFICES ASSUME Bad # {} PROVE FALSE
      OBVIOUS
    <2>1. Bad \subseteq SUBSET R
      OBVIOUS
    <2>2. PICK S \in Bad : \A T \in Bad : ~(T \subseteq S /\ T # S)
      <3> HIDE DEF Bad
      <3> QED
        BY <2>1, LeastSubset
    <2>3. S # {}
      BY <1>1 DEF Sums
    <2> DEFINE x == CHOOSE y \in S : TRUE
    <2>4. x \in S /\ x \in R /\ S \ {x} \in SUBSET R
      BY <2>1, <2>3
    <2>5. F[S] = f[x] + F[S \ {x}]
      BY <1>1, <2>1, <2>3 DEF Sums
    <2> HIDE DEF x
    <2>6. F[S \ {x}] = 0 /\ f[x] = 0
      BY <2>2, <2>4
    <2> QED
      BY <2>5, <2>6
  <1> QED
    BY <1>1, <1>2

-----------------------------------------------------------------------------
\* The mean that main.go prints

Spent == [r \in RTTs |-> r * acks[r]]

\* Inductive: the total and the number of samples in it are those of the pings
\* answered; a sample is recorded by a goroutine that still awaits; and once
\* main has read the count at the end, the count stays.
ExactInv ==
    /\ \A s \in recording : \E g \in inflight : g.task = s.task /\ g.phase = "await"
    /\ totalNs = SumFunction(Spent)
    /\ Taken = SumFunction(acks)
    /\ ~expired /\ reader.final => iter > Len(Iterations) /\ reader.c = count

\* After the last iteration no goroutine is left.
LEMMA NoneInFlight ==
    ASSUME CoreInv, Sequential, ~expired, iter > Len(Iterations), IterOK
    PROVE  inflight = {}
  <1> SUFFICES ASSUME NEW g \in inflight PROVE FALSE
    OBVIOUS
  <1> DEFINE d == DagOf[g.task]
  <1>1. g.task \in Tasks /\ taskState[g.task] = "RUNNING"
    BY DEF CoreInv, TypeOK, Goroutine, RunnersExact, GoroutinesRun
  <1>2. d \in Dags /\ g.task \in TasksOf(d)
    BY <1>1, SetsAssumption DEF TasksOf
  <1>3. d \in registered
    BY <1>1 DEF CoreInv, StatesKnown
  <1>4. ~InIteration(d)
    BY IterationsAssumption DEF InIteration, IterOK
  <1>5. Done(g.task)
    BY <1>2, <1>3, <1>4 DEF Sequential
  <1> QED
    BY <1>1, <1>5 DEF Done

LEMMA SpentType == StatsInv => Spent \in [RTTs -> Nat]
  BY IterationsAssumption DEF StatsInv, Spent

\* The first addition adds to the total what is added to the sum.
LEMMA AckKeepsSums ==
    ASSUME StatsInv, ExactInv, NEW g, NEW r \in RTTs, AckArrives(g, r)
    PROVE  totalNs' = SumFunction(Spent)' /\ Taken' = SumFunction(acks)'
  <1>1. /\ r \in Nat /\ RTTs \subseteq Nat /\ IsFiniteSet(RTTs)
        /\ totalNs' = totalNs + r /\ count' = count
        /\ acks' = [acks EXCEPT ![r] = @ + 1]
        /\ recording' = recording \cup {[task |-> g.task, rtt |-> r]}
    BY IterationsAssumption DEF AckArrives, Record
  <1>2. \A s \in recording : s.task # g.task
    BY DEF AckArrives, Recording
  <1>3. Cardinality(recording') = Cardinality(recording) + 1
    <2>1. [task |-> g.task, rtt |-> r] \notin recording
      BY <1>2
    <2> QED
      BY <1>1, <2>1, FS_AddElement DEF StatsInv
  <1>4. Taken' = Taken + 1
    BY <1>1, <1>3, TakenNat DEF Taken, StatsInv
  <1>5. acks \in [RTTs -> Nat]
    BY DEF StatsInv
  <1>6. \A f \in [RTTs -> Nat], d \in Nat :
          SumFunction([f EXCEPT ![r] = @ + d]) = SumFunction(f) + d
    <2>1. IsFiniteSet(RTTs)
      BY <1>1
    <2> QED
      BY <2>1, SumGrows
  <1>7. Spent' = [Spent EXCEPT ![r] = @ + r]
    <2>1. Spent' = [x \in RTTs |-> x * acks'[x]]
      BY DEF Spent
    <2>2. \A x \in RTTs : acks'[x] = IF x = r THEN acks[x] + 1 ELSE acks[x]
      BY <1>1, <1>5
    <2>3. \A x \in RTTs : x * acks'[x] = IF x = r THEN x * acks[x] + r
                                                  ELSE x * acks[x]
      <3> SUFFICES ASSUME NEW x \in RTTs
                   PROVE  x * acks'[x] = IF x = r THEN x * acks[x] + r
                                                  ELSE x * acks[x]
        OBVIOUS
      <3>1. x \in Nat /\ acks[x] \in Nat
        BY <1>1, <1>5
      <3>2. \A m, n \in Nat : m * (n + 1) = m * n + m
        OBVIOUS
      <3>3. x * (acks[x] + 1) = x * acks[x] + x
        BY <3>1, <3>2
      <3>4. CASE x = r
        BY <2>2, <3>3, <3>4
      <3>5. CASE x # r
        BY <2>2, <3>5
      <3> QED
        BY <3>4, <3>5
    <2>4. Spent = [x \in RTTs |-> x * acks[x]]
      BY DEF Spent
    <2> QED
      BY <2>1, <2>3, <2>4
  <1>8. SumFunction([Spent EXCEPT ![r] = @ + r]) = SumFunction(Spent) + r
    <2>1. r \in Nat
      BY <1>1
    <2> QED
      BY <2>1, <1>6, SpentType
  <1>9. totalNs' = SumFunction(Spent')
    BY <1>1, <1>7, <1>8 DEF ExactInv
  <1>10. Taken' = SumFunction(acks')
    <2>1. 1 \in Nat /\ SumFunction(acks') = SumFunction(acks) + 1
      BY <1>1, <1>5, <1>6
    <2> QED
      BY <1>4, <2>1 DEF ExactInv
  <1> QED
    BY <1>9, <1>10

\* The second counts the sample that is no longer being recorded.
LEMMA EndKeepsSums ==
    ASSUME StatsInv, NEW g, EndRecording(g)
    PROVE  Taken' = Taken /\ UNCHANGED <<totalNs, acks>>
  <1>1. /\ UNCHANGED <<acks, totalNs>>
        /\ recording' = recording \ Recording(g)
    BY DEF EndRecording, Record
  <1>2. CASE Recording(g) = {}
    BY <1>1, <1>2 DEF EndRecording, Taken
  <1>3. CASE Recording(g) # {}
    <2>1. PICK s \in Recording(g) : count' = count + 1
      BY <1>3 DEF EndRecording, Record
    <2>2. s \in recording /\ Recording(g) = {s}
      BY <2>1 DEF Recording, StatsInv
    <2>3. Cardinality(recording') = Cardinality(recording) - 1
      BY <1>1, <2>2, FS_RemoveElement DEF StatsInv
    <2> QED
      BY <1>1, <2>1, <2>3, TakenNat DEF Taken, StatsInv
  <1> QED
    BY <1>2, <1>3

LEMMA ExactPreserved ==
    ASSUME IterOK, CoreInv, Sequential, StatsInv, ExactInv, [MainNext]_allVars
    PROVE  ExactInv'
  <1>1. ASSUME NEW g \in inflight, PingStep(g) PROVE ExactInv'
    <2>1. UNCHANGED <<iter, expired, reader>>
      BY <1>1 DEF PingStep, AckArrives, EndRecording, mainVars
    <2>2. ~expired => ~(reader.final)
      BY NoneInFlight DEF ExactInv
    <2>3. /\ \A s \in recording' : \E h \in inflight' :
                h.task = s.task /\ h.phase = "await"
          /\ totalNs' = SumFunction(Spent)' /\ Taken' = SumFunction(acks)'
      <3>1. CASE \E r \in RTTs : AckArrives(g, r)
        <4>1. PICK r \in RTTs : AckArrives(g, r)
          BY <3>1
        <4>2. /\ recording' = recording \cup {[task |-> g.task, rtt |-> r]}
              /\ inflight' = inflight /\ g.phase = "await"
          BY <4>1 DEF AckArrives, vars
        <4>3. totalNs' = SumFunction(Spent)' /\ Taken' = SumFunction(acks)'
          BY <4>1, AckKeepsSums
        <4> QED
          BY <4>2, <4>3 DEF ExactInv
      <3>2. CASE EndRecording(g)
        <4>1. /\ recording' = recording \ Recording(g)
              /\ inflight' = (inflight \ {g}) \cup {[g EXCEPT !.phase = "report"]}
          BY <3>2 DEF EndRecording, EndPing
        <4>2. ASSUME NEW s \in recording'
              PROVE  \E h \in inflight' : h.task = s.task /\ h.phase = "await"
          <5>1. s \in recording /\ s.task # g.task
            BY <4>1 DEF Recording
          <5>2. PICK h \in inflight : h.task = s.task /\ h.phase = "await"
            BY <5>1 DEF ExactInv
          <5> QED
            BY <4>1, <5>1, <5>2
        <4>3. Taken' = Taken /\ UNCHANGED <<totalNs, acks>>
          BY <3>2, EndKeepsSums
        <4> QED
          BY <4>2, <4>3 DEF ExactInv, Spent
      <3>3. CASE (SendTrigger(g) \/ ReportCompleted(g)) /\ UNCHANGED rttVars
        <4>1. /\ g.phase # "await"
              /\ inflight \ {g} \subseteq inflight'
          BY <3>3 DEF SendTrigger, ReportCompleted
        <4>2. UNCHANGED <<totalNs, count, recording, acks>>
          BY <3>3 DEF rttVars
        <4>3. UNCHANGED <<Spent, Taken>>
          BY <4>2 DEF Spent, Taken
        <4>4. \A s \in recording : \E h \in inflight' :
                  h.task = s.task /\ h.phase = "await"
          BY <4>1 DEF ExactInv
        <4> QED
          BY <4>2, <4>3, <4>4 DEF ExactInv
      <3> QED
        BY <1>1, <3>1, <3>2, <3>3 DEF PingStep
    <2> QED
      BY <2>1, <2>2, <2>3 DEF ExactInv
  <1>2. ASSUME UNCHANGED rttVars, inflight \subseteq inflight',
               expired \/ iter' = iter \/ iter' = iter + 1,
               \/ expired'
               \/ ~expired /\ \/ ~(reader'.final)
                              \/ UNCHANGED reader
                              \/ /\ reader'.final => iter > Len(Iterations)
                                 /\ reader'.c = count
        PROVE  ExactInv'
    <2>1. UNCHANGED <<totalNs, count, recording, acks>>
      BY <1>2 DEF rttVars
    <2>2. UNCHANGED <<Spent, Taken>>
      BY <2>1 DEF Spent, Taken
    <2>3. \A s \in recording : \E h \in inflight' :
              h.task = s.task /\ h.phase = "await"
      BY <1>2 DEF ExactInv
    <2>4. ASSUME ~expired', reader'.final
          PROVE  iter' > Len(Iterations) /\ reader'.c = count
      <3>1. ~expired /\ reader'.c = count /\ iter > Len(Iterations)
        BY <1>2, <2>4 DEF ExactInv
      <3>2. iter \in Nat /\ Len(Iterations) \in Nat
        BY IterationsAssumption DEF IterOK
      <3> QED
        BY <1>2, <3>1, <3>2
    <2> QED
      BY <2>1, <2>2, <2>3, <2>4 DEF ExactInv
  <1>3. CASE MainSubmit
    BY <1>2, <1>3 DEF MainSubmit, SubmitDAG, ExactInv, allVars
  <1>4. CASE MainPoll
    BY <1>2, <1>4 DEF MainPoll, vars
  <1>5. CASE Expire
    BY <1>2, <1>5 DEF Expire, vars
  <1>6. CASE (ReactorStep \/ Stop) /\ UNCHANGED <<mainVars, rttVars, reader>>
    <2>1. inflight \subseteq inflight'
      BY <1>6 DEF ReactorStep, Stop, RegisterArrivedDAG, RejectArrivedDAG,
         CompleteTask, MarkWorkerIdle, DispatchTask, EndScheduling
    <2> QED
      BY <1>2, <1>6, <2>1 DEF mainVars
  <1>7. CASE LoadCount
    BY <1>2, <1>7 DEF LoadCount, mainVars, vars
  <1>8. CASE LoadTotal
    BY <1>2, <1>8 DEF LoadTotal, mainVars, vars, NoReader
  <1>9. CASE UNCHANGED allVars
    BY <1>2, <1>9 DEF allVars, mainVars, vars
  <1> QED
    BY <1>1, <1>3, <1>4, <1>5, <1>6, <1>7, <1>8, <1>9 DEF MainNext

\* The mean that main prints when the loop has ended before the context has is
\* the exact mean of all the pings answered, for any number of tasks, times and
\* interleavings: nobody records any more when main loads the two counters.
THEOREM MeanAtTheEnd ==
    ASSUME LastIsExit
    PROVE  MainSpec => []MeanIsExact
  <1>1. MainInit => StatsInv
    BY FS_EmptySet DEF MainInit, StatsInv, Taken
  <1>2. MainInit => ExactInv
    <2> SUFFICES ASSUME MainInit PROVE ExactInv
      OBVIOUS
    <2>1. /\ acks \in [RTTs -> Nat] /\ \A r \in RTTs : acks[r] = 0
          /\ totalNs = 0 /\ count = 0 /\ recording = {} /\ reader = NoReader
      BY DEF MainInit
    <2>2. Spent \in [RTTs -> Nat] /\ \A r \in RTTs : Spent[r] = 0
      BY <2>1, IterationsAssumption DEF Spent
    <2>3. SumFunction(Spent) = 0 /\ SumFunction(acks) = 0
      BY <2>1, <2>2, SumOfZeros, IterationsAssumption
    <2>4. Taken = 0
      BY <2>1, FS_EmptySet DEF Taken
    <2> QED
      BY <2>1, <2>3, <2>4 DEF ExactInv, NoReader
  <1>3. IterOK /\ CoreInv /\ Sequential /\ StatsInv /\ ExactInv
          /\ [MainNext]_allVars => ExactInv'
    BY ExactPreserved
  <1>4. IterOK /\ CoreInv /\ Sequential /\ StatsInv /\ ExactInv => MeanIsExact
    <2> SUFFICES ASSUME IterOK, CoreInv, Sequential, StatsInv, ExactInv,
                        ~expired, reader.final
                 PROVE  MeanSoFar = SumFunction(Spent) \div SumFunction(acks)
      BY DEF MeanIsExact, Spent
    <2>1. inflight = {} /\ reader.c = count
      BY NoneInFlight DEF ExactInv
    <2>2. recording = {} /\ count \in Nat
      BY <2>1 DEF ExactInv, StatsInv
    <2>3. Taken = count
      BY <2>2, FS_EmptySet DEF Taken
    <2> QED
      BY <2>1, <2>3 DEF ExactInv, MeanSoFar
  <1> QED
    BY <1>1, <1>2, <1>3, <1>4, StatsPreserved, IterInvariant, SequentialHolds, PTL
    DEF MainSpec
=============================================================================
