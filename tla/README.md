# dpls-xdp in TLA+

dpls-xdp schedules task graphs (DAGs) on edge workers and programs the kernel's
packet path with what it knows of the graph: before a task starts, the scheduler
writes a *dependency rule* into an eBPF map; when the task has computed it sends
a UDP *trigger*, and an eBPF program that sees the trigger looks up the rule,
retains the task's output for its consumers and reroutes the packet. Beside the
system, the repository has benches that compare its data path with the usual
ones, and scripts that run them.

This directory holds TLA+ modules of the parts with real control in them, TLC
configurations for small instances, and theorems checked by TLAPS for instances of
any size.

## Inventory

| part | state | operations | hard because |
|---|---|---|---|
| scheduler core, `internal/scheduler/core.go` | event channel (1000 slots), priority queue, `dagMeta`, per-task `AssignedNodeIP`, `rttStats` | `SubmitDAG`, `Run`/`handleEvent`, `scheduleReadyTasks`/`dispatchTask`, `executeWorker`, `Record`/`Mean` | submitters, reactor and one goroutine per task interleave; all errors of the stores are ignored; the statistics take no lock |
| priority queue, `queue.go`, `core.go` | binary heap, priorities, times of readiness | push, pop, ageing of every priority in place | keys change while they are in the heap |
| graph engine, `internal/graph/engine.go` | registered DAGs with their indegree counters | `RegisterDAG`, `DecrementIndegree`, getters | counters must release a successor exactly once |
| state manager, `internal/state/manager.go` | states of tasks, DAGs, workers | `UpdateTaskState` (transition table), `UpdateDAGState`, `UpdateWorkerState` | refused transitions go unnoticed |
| rule writing, `internal/ebpf/loader_linux.go` | `vault_map` | `WriteDependencyRuleToKernel` | keyed by a number that is not unique; may fail; nothing is deleted |
| main program, `main.go` | the iteration | submit a two-task DAG, poll its last task, give up on a timeout, print the mean | shares a context with the reactor |
| ingress program, `internal/ebpf/c/tc_bridge.c` | `retention_map` | retain, serve, reclaim (step 10), reroute (step 11) | runs on every CPU at once; lookup, insertion, countdown and deletion are separate steps |
| egress program, connect4 hook | none | reroute | a rule is read after its lookup, replies meet the hooks again |
| loader, `internal/ebpf/loader_linux.go`, `cgroup_linux.go` | handles, attached hooks | load, attach, detach | partial failure; detaching while tasks still run |
| parser, `internal/parser/parser.go` | colours of the cycle search | `Parse`: four passes over the tasks | the passes run in Go's random map order |
| ranks, `core.go` | upward and downward ranks, critical set | `calculateRanks` | depth-first search where a topological order is needed |
| fan-out and its bench, `fanout.c`, `cmd/path2_bench` | `fanout_map`, sockets, the loopback | clone, send, drain | the clones meet the program again; datagrams outlive the drain |
| `crossover_bench`, `mec_bench`, `mec_xnode` | iptables tables, link, namespace, route, worker process | set up, load rules, measure, clear, attach, detach | what they change outlives them; fatal exits and signals skip the deferred calls |
| run scripts `bootstrap_run.sh`, `run_all.sh`, `run_xnode.sh` | the benches still to start | start, time out, clean up in a trap | may be stopped at any point |
| c3_bench, `cmd/c3_bench` | ids, echo server | rules, triggers with a deadline, shutdown | late answers |
| cache_bench, worker listener, worker registry, mock loader, analysis scripts | measurements and maps | | no control worth a model, see below |

Interaction: clients and `main.go` call `SubmitDAG`, which puts an event on the
channel. The reactor takes one event at a time, updates the graph engine and the
state manager, ages the queue, and then dispatches queued tasks while a worker is
idle. Each dispatch writes a rule to the kernel map and starts a goroutine, which
computes, sends the trigger, waits at most 50 ms for an acknowledgement, records its
time, and puts a completion event on the same channel. `c3_bench` drives the tc
programs with rules and triggers of its own. The other benches meet only through the
network of their host, which the scripts clean up between them.

What makes the parts correct:

* core: a task starts after all its predecessors have completed, exactly once, on
  a worker that runs nothing else, under its own rule; every accepted DAG is
  executed to the end and reported so;
* queue: the heap is in order when it is popped, and a task that has waited is passed
  over only for one that outranks what it has gained;
* main program: one DAG at a time; it ends, timeout or not; the mean it prints is one;
* retention: an entry stays until its last consumer has been served, and no longer;
* data path: a rule is there before its trigger, the rule read is the task's own, a
  trigger is counted once, and no hook outlives the program's main function;
* fan-out: every consumer gets every datagram once, and cloning comes to an end;
* benches and scripts: the two arms of a sweep differ in the mechanism measured alone,
  and what the benches put into the host's tables and routes is taken out again.

`PROJECT.json` lists the hazards, each at its line.

## Modules

| module | models | |
|---|---|---|
| `Scheduler` | core, graph engine, state manager, rule writing | one action per submission, event type, dispatch, goroutine step |
| `DagExecution` | what the core promises: arrive, start, finish | abstract specification |
| `SchedulerRefinement` | mapping from the core to `DagExecution`; the inductive invariant | |
| `AgingQueue` | the heap and ageing in the core | extends `SchedulerRefinement`, composes by conjunction |
| `MainLoop` | `main.go` and `rttStats` around the core | extends `Scheduler`, composes by conjunction |
| `Retention` | step 10 of `dpls_tc_ingress` on several CPUs | |
| `Datapath` | the loader, the three hooks, and the triggers of `main.go` and `c3_bench` | |
| `Parser` | `Parse`, one action per loop turn | |
| `Ranks` | `calculateRanks` on what `Parse` accepted | extends `Parser` |
| `Fanout` | `fanout.c`, the loopback, and `path2_bench`'s loop | |
| `BenchSuite` | the benches that change the host, under the scripts | extends `Fanout` |
| `SchedulerProofs` | theorems about `Scheduler` | TLAPS |
| `AgingProofs`, `MainLoopProofs`, `RetentionProofs`, `DatapathProofs`, `BenchSuiteProofs`, `ParserProofs`, `RanksProofs` | theorems about the module of that name | TLAPS |
| `MCScheduler`, `MCAgingQueue`, `MCMainLoop`, `MCRetention`, `MCRanks`, `MCDatapath`, `MCBenchSuite` | instances | TLC |

Definitions called *variant* in a comment are the code with a plausible mistake in it.
The specifications do not use them; each stands before the definition that it is a variant
of, and `PROJECT.json` says which property it breaks.

### Scheduler

A DAG is given by the constants `Succ`, `DagOf` and `InitRem`; `NumId` and
`Qualified` stand for what `parseNumericTaskID` and `extractDAGID` make of an id.
A worker stands for its IP address. The variables are the code's: `registered` and
`rem` (graph engine), `taskState`, `dagState`, `workerState` (state manager), `pq`,
`assigned` (`AssignedNodeIP`), `vault` (`vault_map`), `eventChan`, `inflight` (the
goroutines in `executeWorker`, each computing, awaiting the ACK or reporting) and
`pc` (where the reactor is). The field `task` of a rule is a ghost: it says whose
rule it is, which the kernel cannot know.

Steps: `SubmitDAG` and `ReportIdle` are sends on the bounded channel;
`RegisterArrivedDAG`, `RejectArrivedDAG`, `CompleteTask`, `MarkWorkerIdle` are the
cases of `handleEvent`, each one step, since only the reactor writes the stores;
`DispatchTask` is one turn of the loop in `scheduleReadyTasks` with all of
`dispatchTask`; `EndScheduling` leaves the loop; `Stop` is `ctx.Done()`;
`SendTrigger`, `EndPing`, `ReportCompleted` are the visible steps of `executeWorker`.

Abstracted: which queued task goes first (any of them; `AgingQueue` has the code's
choice), which worker a critical successor is predicted on (EFT: any), durations, and
whether the ACK arrives (the code goes on in the same way). Repeated edges, which the
parser admits, are left out.

`DagExecution` knows three modes. A client that sends WORKER_IDLE events of its own
makes the workers *shared*, since the code then does book a worker twice; a cancelled
context *closes* the scheduler; otherwise they are *exclusive*. The refinement holds in
all three.

### AgingQueue

`heap` is the slice of `queue.go`, first element at 1, with `container/heap`'s `up`,
`down` and `Init` as recursive functions on positions, a sequence and an index in it
(external to the repository). Every handler of `Scheduler` is conjoined with
`PushAndAge`: the tasks it makes ready are pushed one by one (`PushNew`), and
`updateDynamicPriorities` then gives every queued task its priority of Eq. 19 in place
and restores the heap. A new task is pushed with the rank
and volume it has before it waits. `AgingDispatch` pops the heap and
dispatches what it got. `Tick` is the clock.

`HeapOrdered` asks for order whenever the reactor pops; between events priorities are
stale and nothing is claimed. `OvertakingIsBounded` is what ageing is for: with
`Standing(t)` the rank and volume of a task less the ageing factor times the moment it
became ready, no task is popped before one of a higher standing.

### MainLoop

Conjoins `main.go`'s loop with the core. The ids of its tasks carry no DAG id, its
counters start at 0, and ids of different iterations clash (`task1-1` and `task0-11`
are both 11). `Record` and `Mean` of `rttStats` are two atomic additions and two atomic
loads: `AckArrives` is the first addition, `EndRecording` the second, `LoadCount` and
`LoadTotal` the loads. `acks` is a ghost that counts the pings of each duration, against
which `MeanIsExact` and `MeanNotBelowSamples` hold the printed mean.

### Retention

`where` maps a task id to one of the preallocated elements of the hash map, as the
kernel does: a lookup returns the element, and the element may be reused while a CPU
still holds it. Each CPU runs the program's map calls as separate steps. The variable
`discipline`, chosen at the start, is the environment: *ordered*, where consumers send
only after the producer's trigger has been handled, which `c3_bench` sees to by waiting
for its acknowledgement, for 50 ms: it does not look at the result, and a producer's
trigger later than that falls under the other disciplines; *serial*, where triggers come in any order, get lost or are
repeated, but one CPU at a time handles them; and *free*, where neither holds. `sent`
and `served` record who has sent and who has been counted; the program sees neither.
`NextRound` uses an id again. No program of the repository does so behind the tc hooks:
`c3_bench` takes fresh ids, and `main.go`, whose ids come again, attaches none.

### Datapath

One of two programs runs, chosen in `Init`: `main.go` in ebpf mode, whose reactor and
goroutines are `Dispatch` and `SendTrigger`, or `c3_bench`, one trigger at a time. `pc`
follows the main function through `LoadBPFObjects`, the attachment, the run and the
deferred detaching; steps that may fail do so or not. A socket is used for one
datagram, whose `at` says which hook it meets next, and which element of `vault_map` that
hook holds between its lookup and its read. `Connect` is any other process of the root
cgroup. On the loopback a datagram passes egress, then ingress. `Exit` is the death of
the process, at which the kernel drops everything; `NoHookLeft` speaks of the moment
before. Step 10 is only counted. The hooks read a rule's destination twice, for the test
against 0 and for the use, and once in the model: `c3_bench`, the only program that
attaches them, writes no rule twice, and `RuleReadIsOwn` says that the element stays its own. The `want` of a datagram is a ghost: where the comment
in `executeWorker` says it goes.

### Parser and Ranks

`Parser` runs the four passes of `Parse`. A loop over the map `dag.Tasks` takes the
tasks in any order, as Go does, and the recursion of `hasCycle` is an explicit stack
whose frames are a task and the index of its next successor. `Ranks` goes on with the
accepted DAG: the upward rank is a recursive function, since its value depends on no
order; the downward rank is the code's depth-first search, on the same kind of stack.
Their references are independent of both: `Acyclic` on the raw input (every set of tasks
has one without a successor in the set; `MCRanks` compares it with `IsDag` of the
community module `Graphs` on all graphs of three nodes), and the costs of all paths. `CountersMatchEdges` is what `Scheduler`
assumes of `InitRem`. Costs are integers; the code divides them by the slowest worker's
speed and bandwidth.

### Fanout

`path2_bench` opens a socket for every consumer, then in each repetition sends (one
trigger to port 9000 in the kernel arm, one datagram per consumer in the other) and
drains one datagram of each socket or gives up. The kernel takes datagrams from `wire`
in any order: a trigger whose task has a rule becomes its clones, at port 9001, which go
through the same hook again; anything else is delivered or dropped. `sent` and `got` are
ghosts. A datagram may arrive after the drain that waited for it, and after the degree it
belongs to. Cloning is one step, though the program reads the rule all along: a rule
stands from before its first trigger until after its last drain, and what a trigger of an
earlier degree might clone by another rule is none of the datagrams counted.

### BenchSuite

`net` is the host's network: the rules in the nat and filter tables, the virtual link,
the route to the services, who answers at the far end, and the sysctl `accept_local`.
`found` is a ghost: the rules that stood in the table a bench does not use when it began. A
bench goes through its
set-up, the two arms of every point of its sweep, and its deferred calls. `Fatal` is
`log.Fatalf`, which skips those and leaves a worker process orphaned; `Killed` is
`timeout` or Ctrl-C. The scripts start the benches in order, stop at the first failure
(`set -e`) and clean up in a trap, but `run_all.sh` has none. `path2_bench` runs as
`Fanout`, which takes its sysctl to have succeeded.

`ArmsApart` is what makes the two latencies of a point comparable: each arm walks its own
rules, or none, of the table the bench uses, and both walk the same of the other, at which
no bench looks. That is nothing under `bootstrap_run.sh` and in `mec_bench`.
`HostLeftClean` is about what stays when a script has ended: nothing but the sysctl, after
the scripts that promise it.

## Runs

| run | shows |
|---|---|
| `scheduler` | a diamond and a single task, each submitted up to twice, a stray WORKER_IDLE event and cancellation at any time, two workers, a channel of two slots: queue, states, goroutines, rules and DAG states in step, and the refinement of `DagExecution` |
| `aging_queue` | a fork and a single task on one worker, the real heap: the heap's order, bounded overtaking, the core invariant, and, under fairness, that every accepted DAG is executed and that `DagExecution` is implemented with its fairness |
| `main_loop` | two iterations of `main.go` whose ids clash, expiry at any time, two pings of different length, the mean read at any time |
| `retention` | three tasks of fan-out 2, 3 and 1, two CPUs, two elements, two rounds: concurrently with the producer first, or one at a time with triggers lost, repeated and reordered |
| `bench_suite` | up to three sessions of the three scripts in any order, failures and kills at any moment, datagrams as late as can be |
| `ranks` | every graph of three tasks whose lists hold at most two successors (repeated edges and cycles included), and eight malformed inputs |
| `datapath` | both programs, three sockets, three task ids of which one is beyond connect4's ports: attachments fail or not, datagrams arrive after the bench has given them up, tasks run on during the detaching |
| `scheduler_id_clash` | violated: two DAGs that number their tasks from 0 share the keys of `vault_map` |
| `main_loop_full_channel` | violated: after the timeout, `main.go` blocks on the channel nobody reads |
| `retention_unordered` | violated: two first triggers at once leak the entry |
| `ranks_order` | violated: a downward rank is computed before those it depends on |
| `datapath_unconnected` | violated: the scheduler's socket never connects, so that connect4, the only hook `main.go` attaches, never sees a trigger |

Bounds. In `scheduler` (about 1.7 million states) two workers, a join with both orders of
its predecessors and a second DAG to compete with are enough for every branch of a
handler; `MaxSubmits` = 2 and `MaxIdleReports` = 1 bring each DAG to every state with a
rejected arrival or a stray event; a channel of `ChanCap` = 2 slots fills up with three
goroutines and submitters, so that senders block. `VaultCap` has room for all ids
in use. `aging_queue` has one worker, so that tasks queue up, and
`MaxTime` = 1: two tasks then differ in waiting time by more than they differ in rank.
`main_loop` has two ids that clash and two durations. In `retention` (2.3 million
states) two elements serve two retained tasks, so that an element is reused at once;
`MaxRounds` = 2 uses ids again, `MaxLost` = `MaxDup` = 1, and `Word` = 8: a count below 0
wraps to 7, which is out of the range of every fan-out used. `bench_suite` has
`MaxSessions` = 3, which lets a session find what one script left after another had
cleaned up, `Reps` = 2 and `MaxLate` = 2, so that a datagram can be a repetition and an
arm late, and sweeps of two points. `datapath` (710 000 states) has one element more than
`vault_map` has entries, so that an update of a full map takes a free element, as the
kernel's does. CPUs and elements in `retention`, and elements, sockets and workers in
`datapath`, are interchangeable, and the runs use that symmetry, neither having liveness
properties. The runs that expect a violation have
bounds of their own in their configurations.

Deadlock is not checked: a scheduler with nothing submitted rests, and so do the programs
and scripts once they have ended.

Fairness. `AgingFairSpec` gives weak fairness to the reactor's next step and to each
task's goroutine: the Go scheduler runs what can run, a blocked sender is served in
turn, and a socket read with a deadline returns. Nobody is obliged to submit, to
report a worker or to cancel the context, nor the clock to go on. `MainFairSpec` adds that
time passes and that `main.go` runs; nothing says that the reactor sees `ctx.Done()`, for
`select` chooses at random while events are there. `SuiteSpec` is fair to the kernel's
handling of datagrams only: a bench may stay where it is for ever. `RankSpec` is fair to
the one goroutine there is. Safety runs need no fairness.

## Proofs

All theorems hold for every value of the constants that meets the named assumptions of the
modules, and for all behaviours unless a condition is given here.

**Scheduler.** `TypeCorrect`, `CoreInvariant`, `Precedence`, `QueueAndRunners`,
`WorkerInvariant`, `OneTaskPerWorker` and `Refinement` have no condition; repeated
submissions, stray WORKER_IDLE events and cancellation are included (what is said of
workers holds until the first such event, and the refinement then goes on in mode
*shared*). `GoldenRuleHolds` needs numeric ids that tell tasks apart and a map with room
for them; `scheduler_id_clash` drops the first. `CompletedIsDone` needs DAGs of one exit,
`FinishedIsCompleted` needs ids that carry their DAG's id, and DAGs with tasks.

The argument is one inductive invariant, `CoreInv` in `SchedulerRefinement`. Precedence
alone is not inductive: that a successor released at count 0 has no unfinished
predecessor needs the counters to be exact (`CountersExact`), which needs each
completion event to belong to a task that is still RUNNING and to be the only one
(`RunnersExact`), which in turn needs the queue to hold READY tasks only
(`QueueIsReady`), so that no task is dispatched twice. Tasks that start with a counter
of 0 although they have a predecessor (`main.go`) are the second disjunct of
`CountersExact`. `WorkersExact` adds the workers, and the refinement follows from
both: the guess written into a successor's `AssignedNodeIP` never reaches a task that
runs, since a task with an unfinished predecessor does not run. That a DAG marked at its
exit is done is a descent along the heights of its tasks (`ExitIsLast`); that it stays
marked needs the count of its arrivals against its submissions (`SubmitsCounted`).

**AgingQueue, MainLoop.** `QueueImplementsCore` and `MainImplementsCore`: every step of
the composition is one of `Scheduler` or leaves it alone, so that its theorems hold under
the real queue and in `main.go` (`QueueKeepsCore`, `MainPrecedence`).

`HeapIsOrdered` has no condition; `BoundedOvertaking` needs ids that carry their DAG's,
without which a task's volume is not found. Both follow from `QueueInvariant`: the heap
holds the queue, once each and in order, and all priorities are those of one moment
(`AgedAt`), so that two of them differ as the standings do. The loops of `container/heap`
are proved for heaps of every size: a loop whose steps make a number smaller has a
function that it computes (`LoopExists`), and what holds at its end and is carried back
over a step holds of its result (`LoopInduction`). For `down` that is `HeapedBut`, order
everywhere but between one element and its children (`DownStepOrders`, `DownEndOrders`);
`HeapInitFacts`, `HeapPopFacts` and `PushNewFacts` say what the operations return. Why
order survives ageing in place: `Init` needs none of its argument.

`MeanNeverTooLow` rests on `StatsInv`: the total is at least the shortest time measured
multiplied by the samples counted or being recorded, and a reader's count is never ahead
of it.
`MeanAtTheEnd` takes the polled task to be the only exit of its DAG. `ExactInv` makes the
total the sum of all times measured, and the count and those still recording the number of
them; a sample half recorded belongs to a goroutine under way, of which there is none left
when the loop has ended (`NoneInFlight`), which rests on `Sequential`. Sums over a set are
functions on its subsets, equal to the library's `SumFunction` (`Sums`, `SumOf`).
`DagsInSequence` and `RulesInSequence` take the polled task to be the only exit of its DAG,
as in `main.go`'s graphs; `Sequential` says that what has been submitted is over, but for
the DAG polled. The latter needs distinct ids only within a DAG, and room in the map.

**Retention.** Under `Room` (an element for every task with more than one consumer; the
code has 4096, `c3_bench` uses about 1000) and `Disciplined` (ordered or serial):
`RetentionInvariant` and the six properties of the run. `Handled(k)` are the triggers that
have been counted; `EntryMatches` ties entry and count to their number, `ProducerFirst` adds
who has been served under the ordered discipline. `retention_unordered` drops `Disciplined`.

**Datapath.** Under `Room` (an entry of `vault_map` for every id in use): the type invariant,
which includes that no two rules share an element, `RuleComesFirst`, `RuleStaysOwn`,
`CountedOnce`. The invariant has the state of loader and links at every point of main
(`Wiring`), that nothing is sent before (`QuietFirst`), that triggers have rules
(`RulesFirst`), and the traffic of `c3_bench` (`BenchTraffic`). `HooksTakenDown` needs no
condition.

**Parser.** `ParserInvariant` and what follows from it, `ParseAcceptsDags` and
`ParseCountsEdges`, have no condition but the types of the input (`RawAssumption`: what
`json.Unmarshal` can yield, lists of any length, costs of any sign). The search for a
cycle is right for a reason no single step shows: the calls under way are a path of grey
tasks (`StackIsGreyPath`), so that an edge to a grey task closes a cycle, which is a set
without a sink; all that a call has looked at is black (`SeenIsBlack`), so that a task
turns black when all its successors are, and the black tasks stay closed under edges and
without a cycle (`BlackIsClosed`, `BlackIsAcyclic`). When no task is white, all are black.
The counters are those of the tasks linked so far (`Counted`), whatever the order.

**Ranks.** `RanksInvariant`, `UpwardRanksAreLongestPaths`, `DownwardRanksNotTooHigh`,
`CriticalTasksLieOnLongestPaths`: for every DAG that `Parse` accepts. That the recursion of
`computeUpwardRank` ends is `UpwardExists`, by a least set of tasks still without a rank;
that its value is the longest path is an induction from the sinks (`FromTheSinks`) over
walks of any length, which in an acyclic graph are simple and so among the finitely many
`Paths` (`WalksArePaths`). A downward rank is 0 or extends a path to a predecessor
(`DownwardRankBelow`), so the order of the search can only make it too low, as
`ranks_order` shows it does. The critical set may for that reason stop short of an exit
task, and nothing else is claimed. A task that is taken for critical is on a longest path: its
sum reaches the entry's rank, and no sum can exceed it (`ThroughTask`), as the longest
path of all begins at the entry (`EntryIsHighest`).

**BenchSuite.** `HostIsLeftClean`, `ArmsStayApart` and `TopologyStaysOwn` have no condition.
`SuiteInv` has what is still to start (`Agenda`), where a bench is (`Position`), the rules of
its own table (`OwnRules`), that `bootstrap_run.sh` keeps the nat table empty until
`crossover_bench` is done (`NatKeptEmpty`), that no bench touches the table it does not use
and that `mec_bench` finds the filter table cleared (`OthersRules`), who sets the remote route
(`RemoteRouteIsXnode`), `mec_bench`'s topology (`OwnTopology`), and what benches that ended
well have cleared (`ClearedSoFar`). `ConsumersServed` has an invariant of its own,
`FanoutInv`: what a consumer has been given and what is under way to it, clone, copy or
trigger not yet cloned, add up to the sends (`AllAccounted`). That counts each datagram
once since no datagram is of a send still to be made (`NoneAhead`) and a send is a single
trigger or its clones, never both (`TriggerOrClones`).

Only model-checked: the liveness properties `AcceptedDagsFinish`,
`ImplementsFairExecution`, `MainEnds`, `InputHandled` and `FanoutSettles`. Every invariant
and action property of the runs that pass has a theorem, under the conditions given
above. Liveness under fairness and `ENABLED` are
out of the prover's reach, and so are the library's induction theorems, which take an
operator: inductions over data are made here from a least counterexample (`WFMin` on
numbers or on finite sets), as for the heap's loops and in `Ranks`.

## Known limits of the code, not runs of their own

* Rule writes fail unnoticed when `vault_map` is full. Its comment sizes it for
  thousands of iterations; `main.go` uses 90000 ids in 65536 entries. `GoldenRule`
  fails as soon as `VaultCap` is below the number of ids.
* The destinations of a rule are predictions: a successor goes to the first idle worker,
  whatever was predicted, and the rule is not rewritten.
* `main.go` calls `DetachTC` without having attached tc; the early return leaves its maps
  and tc programs open. `RuleBeforeTrigger` needs just that, since tasks still run then.
* `main.go` uses numeric ids again: an update frees the rule's old element while connect4
  may hold it, and another id may take it (`RuleReadIsOwn` is about `c3_bench` only).
* `GetMockRule` unpacks addresses in the opposite byte order to that in which
  `WriteDependencyRuleToKernel` packs them.
* A fifth successor is counted in a rule but not named in it.
* The DAG of every iteration of `main.go` stays ACTIVE: its exit task's id is taken
  for a DAG id.
* `retention_map` evicts nothing when full, although a comment promises LRU. With fewer
  elements than retained tasks `NoLeak` fails: the consumer that comes after a failed
  insertion stores its own payload, with the full count.
* A DAG with two exits is marked COMPLETED at the first.
* A drain of `path2_bench` that gave up leaves its datagram to a later drain, which counts
  it there; the counts are only printed.
* `run_all.sh` without `bootstrap_run.sh` around it leaves the rules of a bench that failed.
  The next `crossover_bench`, which clears the filter table alone, walks nat rules, and
  `mec_xnode`, which clears the nat table alone, filter rules: in both arms alike
  (`ArmsApart`), so that the gap between the arms is right and both latencies are too high.
  `HostLeftClean` leaves a failed `run_all.sh` out, and says nothing of filter rules and link
  after `run_xnode.sh`, whose trap does not look at them.
* `path2_bench` sets `net.ipv4.conf.all.accept_local` and nobody resets it: the trap of
  `bootstrap_run.sh`, which announces "restoring clean network state", does not.
  It is the one thing `HostLeftClean` allows to stay. The cgroup2 mount of the MEC benches,
  which is no part of the network, stays as well.
* `crossover_bench` drops the top 2 % of its samples and so averages none, which gives NaN,
  when it has fewer than two.

## Not modelled

* `cache_bench`: sequential loops that time map accesses and echoes, with nothing beside
  them but an echo server; it leaves nothing behind.
* Worker listener: a stateless echo. Whether its answer comes is open in `Scheduler`,
  `MainLoop` and `Datapath`.
* Worker registry: a map under a lock, each operation one critical section; nothing calls
  it.
* Mock loader and helpers: a Go map for platforms without eBPF, the packing of an address.
* `xdp_lookup.c` and the `connect4.c` of the benches: one lookup each in maps filled before
  they are attached; `BenchSuite` has when they are attached.
* Analysis scripts: arithmetic on CSV files.
* Floating point (ranks and priorities are integers), latencies and samples, checksums,
  byte order, packet bounds tests, the earliest finish times (any prediction), repeated
  edges in `Scheduler`.

## Plan

What would come next, in this order:

1. `Datapath` composed with `Retention`: rules that change while step 10 reads them.
2. Repeated edges in `Scheduler`, whose counters the parser counts twice.
