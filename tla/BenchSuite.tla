----------------------------- MODULE BenchSuite ------------------------------
(***************************************************************************)
(* The benches that change the network of their host, one after the other  *)
(* and session after session, under the shell scripts that start them:     *)
(* crossover_bench, mec_bench, mec_xnode and path2_bench, and              *)
(* scripts/bootstrap_run.sh, run_all.sh and run_xnode.sh.                  *)
(*                                                                         *)
(* Rules, routes and the virtual link of a bench stay in the kernel when   *)
(* its process ends, and are removed by deferred calls, which log.Fatalf   *)
(* and signals skip.  eBPF programs go with the process that attached      *)
(* them.  A script may be told to stop, and `timeout` kills a bench, at    *)
(* any moment; their traps run in any case.                                *)
(*                                                                         *)
(* c3_bench and cache_bench, which run_all.sh also starts, leave nothing   *)
(* behind.  iptables-restore with no rules is taken to succeed where its   *)
(* result is not looked at (crossover_bench).  Whether a measurement gets  *)
(* samples is left open.                                                   *)
(***************************************************************************)
EXTENDS Fanout

CONSTANTS
    Sweep,       \* the numbers of services of a sweep
    MaxSessions  \* bound: how often a script is started

ASSUME SuiteAssumption == Sweep \in Seq(Nat) /\ MaxSessions \in Nat

VARIABLES
    script,    \* the script that runs, or "none"
    todo,      \* benches it has still to start
    allWell,   \* no bench of the session has failed
    previous,  \* the script that ran before
    sessions,  \* spent bound
    process,   \* the bench that runs, or "none"
    pc, point, \* where it is, at which element of the sweep
    hook,      \* the eBPF program it has attached
    found,     \* ghost: rules it found in the table it does not use
    net        \* the host's network

sessionVars == <<script, todo, allWell, previous, sessions>>
processVars == <<process, pc, point, hook, found>>
suiteVars == <<sessionVars, processVars, net, fanoutVars>>

\* Tables: {} without rules, else {the rules of one bench}.  The route is that
\* to the ClusterIP range; the responder is the echo process that answers at
\* the far end of the virtual link; acceptLocal is the sysctl of that name.
CleanHost ==
    [nat |-> {}, filter |-> {}, veth |-> FALSE, route |-> "none",
     responder |-> "none", acceptLocal |-> FALSE]

SuiteInit ==
    /\ script = "none" /\ todo = <<>> /\ allWell = TRUE
    /\ previous = "none" /\ sessions = 0
    /\ process = "none" /\ pc = "none" /\ point = 1 /\ hook = "none"
    /\ found = {}
    /\ net = CleanHost
    /\ FanoutInit

-----------------------------------------------------------------------------
\* What the benches and scripts do to the network

\* crossover_bench uses the filter table, the MEC benches the nat table.
OwnTable(h, p) == IF p = "crossover" THEN h.filter ELSE h.nat
OtherTable(h, p) == IF p = "crossover" THEN h.nat ELSE h.filter

FarEnd(p) == IF p = "mec" THEN "veth" ELSE "remote"

LoadRules(h, p, n) ==
    IF p = "crossover" THEN [h EXCEPT !.filter = {n}]
    ELSE [h EXCEPT !.nat = {[services |-> n, to |-> FarEnd(p)]}]

\* Variant: only crossover_bench clears the rules.
ClearOwnRules(h, p) == IF p = "crossover" THEN [h EXCEPT !.filter = {}] ELSE h

\* Each bench clears its own table.
ClearRules(h, p) ==
    IF p = "crossover" THEN [h EXCEPT !.filter = {}] ELSE [h EXCEPT !.nat = {}]

\* The route goes with its link, and so does the way to the responder.
TeardownTopology(h) ==
    [h EXCEPT !.veth = FALSE, !.responder = "none",
              !.route = IF @ = "veth" THEN "none" ELSE @]

\* The commands fail, unnoticed, where the namespace, the link or a route is
\* there already.
AddTopology(h) ==
    [h EXCEPT !.veth = TRUE, !.route = IF @ = "none" THEN "veth" ELSE @]

SetupTopology(h) == AddTopology(TeardownTopology(h))

\* The worker cannot bind its address while another process has it.
StartWorker(h) ==
    [h EXCEPT !.responder = IF @ = "none" THEN "own" ELSE @]

SetRemoteRoute(h) == [h EXCEPT !.route = "remote"]

\* path2_bench's sysctl, whose result is not looked at.  Nobody resets it.
AcceptLocal(h) == [h EXCEPT !.acceptLocal = TRUE]

Setup(h, p) ==
    CASE p = "mec" -> StartWorker(SetupTopology(h))
      [] p = "xnode" -> SetRemoteRoute(h)
      [] p = "path2" -> AcceptLocal(h)
      [] OTHER -> h

DeleteRemoteRoute(h) ==
    [h EXCEPT !.route = IF @ = "remote" THEN "none" ELSE @]

Teardown(h, p) ==
    CASE p = "mec" -> TeardownTopology(ClearRules(h, p))
      [] p = "xnode" -> DeleteRemoteRoute(ClearRules(h, p))
      [] p = "crossover" -> ClearRules(h, p)
      [] OTHER -> h

\* Variant: the traps leave the nat table.
CleanupWithoutNat(h, s) ==
    CASE s = "bootstrap_run" -> TeardownTopology(ClearRules(h, "crossover"))
      [] s = "run_xnode" -> DeleteRemoteRoute(h)
      [] OTHER -> h

\* cleanup() of the scripts, set as a trap for EXIT, INT and TERM.
Cleanup(h, s) ==
    CASE s = "bootstrap_run" ->
           TeardownTopology(ClearRules(ClearRules(h, "crossover"), "mec"))
      [] s = "run_xnode" -> DeleteRemoteRoute(ClearRules(h, "xnode"))
      [] OTHER -> h

-----------------------------------------------------------------------------
\* Scripts

Benches(s) == IF s = "run_xnode" THEN <<"xnode">>
                                 ELSE <<"crossover", "mec", "path2">>

\* bootstrap_run.sh begins with its own clean-up.
StartScript(s) ==
    /\ script = "none" /\ sessions < MaxSessions
    /\ script' = s /\ todo' = Benches(s) /\ allWell' = TRUE
    /\ sessions' = sessions + 1
    /\ net' = IF s = "bootstrap_run" THEN Cleanup(net, s) ELSE net
    /\ UNCHANGED <<previous, processVars, fanoutVars>>

StartBench ==
    /\ process = "none" /\ todo # <<>>
    /\ process' = Head(todo) /\ todo' = Tail(todo)
    /\ pc' = "setup" /\ point' = 1
    /\ found' = OtherTable(net, process')
    /\ UNCHANGED <<script, allWell, previous, sessions, hook, net, fanoutVars>>

EndScript ==
    /\ script # "none" /\ process = "none" /\ todo = <<>>
    /\ script' = "none" /\ previous' = script
    /\ net' = Cleanup(net, script)
    /\ UNCHANGED <<todo, allWell, sessions, processVars, fanoutVars>>

-----------------------------------------------------------------------------
\* One bench

\* What ends with the process: its programs and maps, its sockets and so what
\* is on its way to them.
ProcessGone ==
    /\ process' = "none" /\ pc' = "none" /\ point' = 1 /\ hook' = "none"
    /\ found' = {}
    /\ FanoutGone

SetupBench ==
    /\ pc = "setup"
    /\ net' = Setup(net, process)
    /\ pc' = IF process = "path2" THEN "fanout" ELSE "baseline"
    /\ hook' = IF process = "path2" THEN process ELSE hook
    /\ UNCHANGED <<sessionVars, process, point, found, fanoutVars>>

\* measureIptables, measureBaseline, measureKubeProxy.
LoadBaseline ==
    /\ pc = "baseline" /\ point <= Len(Sweep)
    /\ net' = LoadRules(net, process, Sweep[point])
    /\ pc' = "pingBaseline"
    /\ UNCHANGED <<sessionVars, process, point, hook, found, fanoutVars>>

\* The MEC benches clear their rules on return, crossover_bench does not.
EndBaseline ==
    /\ pc = "pingBaseline"
    /\ net' = IF process = "crossover" THEN net ELSE ClearRules(net, process)
    /\ pc' = "ebpf"
    /\ UNCHANGED <<sessionVars, process, point, hook, found, fanoutVars>>

\* measureXDP, measureEBPF.
ClearForEBPF ==
    /\ pc = "ebpf"
    /\ net' = ClearRules(net, process)
    /\ pc' = "attach"
    /\ UNCHANGED <<sessionVars, process, point, hook, found, fanoutVars>>

AttachEBPF ==
    /\ pc = "attach"
    /\ hook' = process
    /\ pc' = "pingEBPF"
    /\ UNCHANGED <<sessionVars, process, point, found, net, fanoutVars>>

EndEBPF ==
    /\ pc = "pingEBPF"
    /\ hook' = "none"
    /\ point' = point + 1
    /\ pc' = "baseline"
    /\ UNCHANGED <<sessionVars, process, found, net, fanoutVars>>

\* main returns: the deferred calls.
EndBench ==
    /\ \/ pc = "baseline" /\ point > Len(Sweep)
       \/ pc = "fanout" /\ Finished
    /\ net' = Teardown(net, process)
    /\ ProcessGone
    /\ UNCHANGED sessionVars

\* Where a bench may call log.Fatalf: crossover_bench and path2_bench not while
\* they measure, nor the former when it clears its rules.
MayFail ==
    CASE process = "crossover" -> \/ pc \in {"setup", "attach"}
                                  \/ pc = "baseline" /\ point <= Len(Sweep)
      [] process = "path2" -> arm = "setup"
      [] OTHER -> process # "none"

\* No deferred call runs, the worker is left to itself, and `set -e` ends
\* run_all.sh.
Fatal ==
    /\ MayFail
    /\ net' = [net EXCEPT !.responder = IF @ = "own" THEN "orphan" ELSE @]
    /\ ProcessGone
    /\ todo' = <<>> /\ allWell' = FALSE
    /\ UNCHANGED <<script, previous, sessions>>

\* `timeout`, or Ctrl-C: the whole process group goes, the worker with it.
Killed ==
    /\ script # "none" /\ (process # "none" \/ todo # <<>>)
    /\ net' = [net EXCEPT !.responder = IF @ = "own" THEN "none" ELSE @]
    /\ ProcessGone
    /\ todo' = <<>> /\ allWell' = FALSE
    /\ UNCHANGED <<script, previous, sessions>>

SuiteNext ==
    \/ \E s \in {"bootstrap_run", "run_all", "run_xnode"} : StartScript(s)
    \/ StartBench \/ EndScript
    \/ SetupBench \/ LoadBaseline \/ EndBaseline
    \/ ClearForEBPF \/ AttachEBPF \/ EndEBPF
    \/ EndBench \/ Fatal \/ Killed
    \/ pc = "fanout" /\ BenchStep /\ UNCHANGED <<sessionVars, processVars, net>>
    \/ Kernel /\ UNCHANGED <<sessionVars, processVars, net>>

\* The kernel gets round to every datagram.
SuiteSpec ==
    /\ SuiteInit /\ [][SuiteNext]_suiteVars
    /\ WF_suiteVars(Kernel /\ UNCHANGED <<sessionVars, processVars, net>>)

-----------------------------------------------------------------------------
\* Properties

\* The two arms of a sweep differ in the routing mechanism alone.  In its own
\* table the baseline walks exactly the rules of its point, with no program
\* attached, and the eBPF arm none ("No iptables rules present",
\* crossover_bench), whatever aborted sessions have left there.  In the other
\* table, at which no bench looks, both arms walk what the bench has found
\* there: nothing under bootstrap_run.sh, and nothing in mec_bench, which
\* crossover_bench has come before; else what a failed run_all.sh has left.
ArmsApart ==
    /\ pc = "pingBaseline" =>
         /\ hook = "none"
         /\ IF process = "crossover" THEN net.filter = {Sweep[point]}
            ELSE net.nat = {[services |-> Sweep[point], to |-> FarEnd(process)]}
    /\ pc = "pingEBPF" => hook = process /\ OwnTable(net, process) = {}
    /\ pc \in {"pingBaseline", "pingEBPF"} =>
         /\ OtherTable(net, process) = found
         /\ process = "mec" \/ script = "bootstrap_run" => found = {}

\* mec_bench measures its own topology: its own worker answers, not one that an
\* earlier bench left behind, and the ClusterIP range is routed to its link.
TopologyIsOwn ==
    process = "mec" /\ pc \in {"pingBaseline", "pingEBPF"} =>
        net.veth /\ net.responder = "own" /\ net.route = "veth"

\* bootstrap_run.sh: "a trap + timeout guarantee nat is always flushed".  After
\* a script with a trap, however it ended and whatever it found, and after a
\* run_all.sh in which nothing failed, no bench's nat rules and no remote route
\* are left; and, but for run_xnode.sh, which does not look at the rest, the
\* host is as it was made in all but path2_bench's sysctl, which nobody resets.
HostLeftClean ==
    script = "none" /\ previous # "none" /\ (previous = "run_all" => allWell) =>
        /\ net.nat = {}
        /\ net.route # "remote"
        /\ previous # "run_xnode" =>
             net = [CleanHost EXCEPT !.acceptLocal = net.acceptLocal]
=============================================================================
