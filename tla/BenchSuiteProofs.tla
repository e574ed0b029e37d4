-------------------------- MODULE BenchSuiteProofs ---------------------------
(***************************************************************************)
(* The benches do not disturb one another and leave their host as it was,  *)
(* for every sweep and any number of sessions, and every consumer of       *)
(* path2_bench is given every fan-out once, for all degrees, repetitions   *)
(* and delays.                                                             *)
(***************************************************************************)
EXTENDS BenchSuite, FiniteSetTheorems, TLAPS

SweepBenches == {"crossover", "mec", "xnode"}
SweepSteps == {"baseline", "pingBaseline", "ebpf", "attach", "pingEBPF"}
Networks ==
    [nat : SUBSET [services : Nat, to : {"veth", "remote"}],
     filter : SUBSET Nat, veth : BOOLEAN, route : {"none", "veth", "remote"},
     responder : {"none", "own", "orphan"}, acceptLocal : BOOLEAN]

SuiteType ==
    /\ net \in Networks
    /\ point \in Nat \ {0}

\* What is left to start, for the script and the bench that run.
Agenda ==
    \/ script = "none" /\ process = "none" /\ todo = <<>>
    \/ /\ script = "run_xnode"
       /\ \/ process = "none" /\ todo = <<"xnode">>
          \/ process \in {"none", "xnode"} /\ todo = <<>>
    \/ /\ script \in {"bootstrap_run", "run_all"}
       /\ \/ process = "none" /\ todo = <<"crossover", "mec", "path2">>
          \/ process \in {"none", "crossover"} /\ todo = <<"mec", "path2">>
          \/ process \in {"none", "mec"} /\ todo = <<"path2">>
          \/ process \in {"none", "path2"} /\ todo = <<>>

\* Where each bench may be, and when it has a program attached.
Position ==
    /\ process = "none" => pc = "none"
    /\ process = "path2" => pc \in {"setup", "fanout"}
    /\ process \in SweepBenches => pc \in {"setup"} \cup SweepSteps
    /\ pc \notin {"pingEBPF", "fanout"} => hook = "none"
    /\ pc = "pingEBPF" => hook = process

\* The rules in the bench's own table, while it measures.
OwnRules ==
    /\ pc = "pingBaseline" =>
         IF process = "crossover" THEN net.filter = {Sweep[point]}
         ELSE net.nat = {[services |-> Sweep[point], to |-> FarEnd(process)]}
    /\ pc \in {"attach", "pingEBPF"} =>
         IF process = "crossover" THEN net.filter = {} ELSE net.nat = {}

\* bootstrap_run.sh keeps the nat table empty until crossover_bench is done.
NatKeptEmpty ==
    script = "bootstrap_run" /\ (Len(todo) = 3 \/ process = "crossover")
        => net.nat = {}

\* No bench touches the table it does not use, and mec_bench comes after
\* crossover_bench has cleared its own.
OthersRules ==
    /\ process # "none" => OtherTable(net, process) = found
    /\ process = "mec" => net.filter = {}
    /\ process = "none" /\ todo = <<"mec", "path2">> => net.filter = {}

RemoteRouteIsXnode == net.route = "remote" => script = "run_xnode"

\* mec_bench's topology, from its set-up to its end.
OwnTopology ==
    process = "mec" /\ pc # "setup" =>
        net.veth /\ net.responder = "own" /\ net.route = "veth"

\* What the benches that have ended well have cleared.
ClearedSoFar ==
    script = "run_all" /\ allWell =>
        /\ Len(todo) < 3 /\ process # "crossover" => net.filter = {}
        /\ Len(todo) < 2 /\ process # "mec" =>
             /\ net.nat = {} /\ ~net.veth /\ net.route = "none"
             /\ net.responder = "none"

SuiteInv ==
    /\ SuiteType /\ Agenda /\ Position
    /\ OwnRules /\ OthersRules /\ NatKeptEmpty /\ RemoteRouteIsXnode
    /\ OwnTopology /\ ClearedSoFar /\ HostLeftClean

-----------------------------------------------------------------------------
\* What the commands do to each part of the network.

Loaded(g, h, p, n) ==
    /\ g \in Networks
    /\ g.veth = h.veth /\ g.route = h.route /\ g.responder = h.responder
    /\ p = "crossover" => g.filter = {n} /\ g.nat = h.nat
    /\ p # "crossover" => /\ g.filter = h.filter
                          /\ g.nat = {[services |-> n, to |-> FarEnd(p)]}

LEMMA LoadRulesNet ==
  ASSUME NEW h \in Networks, NEW p \in SweepBenches, NEW n \in Nat
  PROVE  Loaded(LoadRules(h, p, n), h, p, n)
  <1>1. CASE p = "crossover"
    BY <1>1 DEF Loaded, LoadRules, Networks
  <1>2. CASE p # "crossover"
    <2>1. {[services |-> n, to |-> FarEnd(p)]} \in
              SUBSET [services : Nat, to : {"veth", "remote"}]
      BY DEF FarEnd
    <2> QED
      BY <1>2, <2>1 DEF Loaded, LoadRules, Networks
  <1> QED
    BY <1>1, <1>2

LEMMA ClearRulesNet ==
  ASSUME NEW h \in Networks, NEW p
  PROVE  /\ ClearRules(h, p) \in Networks
         /\ ClearRules(h, p).veth = h.veth
         /\ ClearRules(h, p).route = h.route
         /\ ClearRules(h, p).responder = h.responder
         /\ ClearRules(h, p).filter = IF p = "crossover" THEN {} ELSE h.filter
         /\ ClearRules(h, p).nat = IF p = "crossover" THEN h.nat ELSE {}
  BY DEF ClearRules, Networks

LEMMA TeardownTopologyNet ==
  ASSUME NEW h \in Networks
  PROVE  /\ TeardownTopology(h) \in Networks
         /\ TeardownTopology(h).nat = h.nat
         /\ TeardownTopology(h).filter = h.filter
         /\ TeardownTopology(h).veth = FALSE
         /\ TeardownTopology(h).responder = "none"
         /\ TeardownTopology(h).route = IF h.route = "veth" THEN "none"
                                        ELSE h.route
  BY DEF TeardownTopology, Networks

LEMMA DeleteRemoteRouteNet ==
  ASSUME NEW h \in Networks
  PROVE  /\ DeleteRemoteRoute(h) \in Networks
         /\ DeleteRemoteRoute(h).nat = h.nat
         /\ DeleteRemoteRoute(h).filter = h.filter
         /\ DeleteRemoteRoute(h).veth = h.veth
         /\ DeleteRemoteRoute(h).responder = h.responder
         /\ DeleteRemoteRoute(h).route = IF h.route = "remote" THEN "none"
                                         ELSE h.route
  BY DEF DeleteRemoteRoute, Networks

LEMMA SetupNet ==
  ASSUME NEW h \in Networks, NEW p
  PROVE  /\ Setup(h, p) \in Networks
         /\ Setup(h, p).nat = h.nat
         /\ Setup(h, p).filter = h.filter
         /\ p = "mec" /\ h.route # "remote" =>
              /\ Setup(h, p).veth /\ Setup(h, p).responder = "own"
              /\ Setup(h, p).route = "veth"
         /\ p \notin {"mec", "xnode"} =>
              /\ Setup(h, p).veth = h.veth /\ Setup(h, p).route = h.route
              /\ Setup(h, p).responder = h.responder
         /\ Setup(h, p).route = "remote" => p = "xnode" \/ h.route = "remote"
  <1>1. CASE p = "mec"
    <2> DEFINE g == TeardownTopology(h)
    <2>1. /\ g \in Networks /\ g.nat = h.nat /\ g.filter = h.filter
          /\ g.responder = "none"
          /\ h.route # "remote" => g.route = "none"
          /\ g.route = "remote" => h.route = "remote"
      BY TeardownTopologyNet DEF Networks
    <2>2. Setup(h, p) = StartWorker(AddTopology(g))
      BY <1>1 DEF Setup, SetupTopology
    <2> HIDE DEF g
    <2> QED
      BY <1>1, <2>1, <2>2 DEF StartWorker, AddTopology, Networks
  <1>2. CASE p = "xnode"
    <2>1. Setup(h, p) = [h EXCEPT !.route = "remote"]
      BY <1>2 DEF Setup, SetRemoteRoute
    <2> QED
      BY <1>2, <2>1 DEF Networks
  <1>3. CASE p = "path2"
    <2>1. Setup(h, p) = [h EXCEPT !.acceptLocal = TRUE]
      BY <1>3 DEF Setup, AcceptLocal
    <2> QED
      BY <1>3, <2>1 DEF Networks
  <1>4. CASE p \notin {"mec", "xnode", "path2"}
    BY <1>4 DEF Setup
  <1> QED
    BY <1>1, <1>2, <1>3, <1>4

LEMMA TeardownNet ==
  ASSUME NEW h \in Networks, NEW p
  PROVE  /\ Teardown(h, p) \in Networks
         /\ Teardown(h, p).filter = IF p = "crossover" THEN {} ELSE h.filter
         /\ Teardown(h, p).nat = IF p \in {"mec", "xnode"} THEN {} ELSE h.nat
         /\ Teardown(h, p).route = "remote" => h.route = "remote"
         /\ p = "mec" => /\ ~Teardown(h, p).veth
                         /\ Teardown(h, p).responder = "none"
                         /\ h.route # "remote" => Teardown(h, p).route = "none"
         /\ p \notin {"mec", "xnode"} => /\ Teardown(h, p).veth = h.veth
                                         /\ Teardown(h, p).route = h.route
                                         /\ Teardown(h, p).responder = h.responder
  <1> DEFINE g == ClearRules(h, p)
  <1>1. /\ g \in Networks /\ g.veth = h.veth /\ g.route = h.route
        /\ g.responder = h.responder
        /\ g.filter = IF p = "crossover" THEN {} ELSE h.filter
        /\ g.nat = IF p = "crossover" THEN h.nat ELSE {}
    BY ClearRulesNet
  <1> HIDE DEF g
  <1>2. CASE p = "mec"
    <2>1. Teardown(h, p) = TeardownTopology(g)
      BY <1>2 DEF Teardown, g
    <2>2. g.route \in {"none", "veth", "remote"}
      BY <1>1 DEF Networks
    <2>3. /\ TeardownTopology(g) \in Networks
          /\ TeardownTopology(g).nat = g.nat
          /\ TeardownTopology(g).filter = g.filter
          /\ TeardownTopology(g).veth = FALSE
          /\ TeardownTopology(g).responder = "none"
          /\ TeardownTopology(g).route = IF g.route = "veth" THEN "none"
                                         ELSE g.route
      BY <1>1, TeardownTopologyNet
    <2> DEFINE t == TeardownTopology(g)
    <2> HIDE DEF t
    <2> QED
      BY <1>1, <1>2, <2>1, <2>2, <2>3 DEF t
  <1>3. CASE p = "xnode"
    <2>1. Teardown(h, p) = DeleteRemoteRoute(g)
      BY <1>3 DEF Teardown, g
    <2> QED
      BY <1>1, <1>3, <2>1, DeleteRemoteRouteNet
  <1>4. CASE p = "crossover"
    BY <1>1, <1>4 DEF Teardown, g
  <1>5. CASE p \notin SweepBenches
    BY <1>5 DEF Teardown, SweepBenches
  <1> QED
    BY <1>2, <1>3, <1>4, <1>5 DEF SweepBenches

LEMMA CleanupNet ==
  ASSUME NEW h \in Networks, NEW s
  PROVE  /\ Cleanup(h, s) \in Networks
         /\ s \in {"bootstrap_run", "run_xnode"} => Cleanup(h, s).nat = {}
         /\ s = "run_xnode" => Cleanup(h, s).route # "remote"
         /\ s = "bootstrap_run" =>
              /\ Cleanup(h, s).filter = {} /\ ~Cleanup(h, s).veth
              /\ Cleanup(h, s).responder = "none"
              /\ h.route # "remote" => Cleanup(h, s).route = "none"
         /\ s \notin {"bootstrap_run", "run_xnode"} => Cleanup(h, s) = h
  <1>1. CASE s = "bootstrap_run"
    <2> DEFINE f == ClearRules(h, "crossover")
               g == ClearRules(f, "mec")
    <2>1. f \in Networks /\ f.filter = {} /\ f.route = h.route
      BY ClearRulesNet
    <2>2. /\ g \in Networks /\ g.filter = {} /\ g.nat = {} /\ g.route = h.route
          /\ g.route \in {"none", "veth", "remote"}
      <3> HIDE DEF f
      <3> QED
        BY <2>1, ClearRulesNet DEF Networks
    <2>3. Cleanup(h, s) = TeardownTopology(g)
      BY <1>1 DEF Cleanup
    <2> HIDE DEF f, g
    <2> QED
      BY <1>1, <2>2, <2>3, TeardownTopologyNet
  <1>2. CASE s = "run_xnode"
    <2> DEFINE g == ClearRules(h, "xnode")
    <2>1. g \in Networks /\ g.nat = {}
      BY ClearRulesNet
    <2>2. Cleanup(h, s) = DeleteRemoteRoute(g)
      BY <1>2 DEF Cleanup
    <2> HIDE DEF g
    <2> QED
      BY <1>2, <2>1, <2>2, DeleteRemoteRouteNet
  <1>3. CASE s \notin {"bootstrap_run", "run_xnode"}
    BY <1>3 DEF Cleanup
  <1> QED
    BY <1>1, <1>2, <1>3

LEMMA SameFields ==
  ASSUME NEW g \in Networks, NEW h \in Networks,
         g.nat = h.nat, g.filter = h.filter, g.veth = h.veth,
         g.route = h.route, g.responder = h.responder,
         g.acceptLocal = h.acceptLocal
  PROVE  g = h
  BY DEF Networks

LEMMA CleanButSysctl ==
  ASSUME NEW h \in Networks, h.nat = {}, h.filter = {}, ~h.veth,
         h.route = "none", h.responder = "none"
  PROVE  h = [CleanHost EXCEPT !.acceptLocal = h.acceptLocal]
  <1> DEFINE g == [CleanHost EXCEPT !.acceptLocal = h.acceptLocal]
  <1>1. CleanHost \in Networks /\ h.acceptLocal \in BOOLEAN /\ h.veth = FALSE
    BY DEF CleanHost, Networks
  <1>2. /\ g \in Networks /\ g.acceptLocal = h.acceptLocal
        /\ g.nat = CleanHost.nat /\ g.filter = CleanHost.filter
        /\ g.veth = CleanHost.veth /\ g.route = CleanHost.route
        /\ g.responder = CleanHost.responder
    BY <1>1 DEF Networks
  <1>3. /\ CleanHost.nat = {} /\ CleanHost.filter = {}
        /\ CleanHost.veth = FALSE /\ CleanHost.route = "none"
        /\ CleanHost.responder = "none"
    BY DEF CleanHost
  <1> HIDE DEF g
  <1>4. h = g
    BY <1>1, <1>2, <1>3, SameFields
  <1> QED
    BY <1>4 DEF g

-----------------------------------------------------------------------------
LEMMA SuiteStart == SuiteInit => SuiteInv
  <1> SUFFICES ASSUME SuiteInit PROVE SuiteInv
    OBVIOUS
  <1>1. net \in Networks
    BY DEF SuiteInit, CleanHost, Networks
  <1> QED
    BY <1>1 DEF SuiteInit, SuiteInv, SuiteType, Agenda, Position, SweepBenches,
       OwnRules, OthersRules, OtherTable, CleanHost, NatKeptEmpty, RemoteRouteIsXnode, OwnTopology, ClearedSoFar,
       HostLeftClean

LEMMA SuiteStutter ==
  SuiteInv /\ UNCHANGED <<sessionVars, processVars, net>> => SuiteInv'
  BY DEF sessionVars, processVars, SuiteInv, SuiteType, Agenda, Position,
     OwnRules, OthersRules, OtherTable, NatKeptEmpty, RemoteRouteIsXnode,
     OwnTopology, ClearedSoFar, HostLeftClean

LEMMA SuiteStep == SuiteInv /\ [SuiteNext]_suiteVars => SuiteInv'
  <1> SUFFICES ASSUME SuiteInv, [SuiteNext]_suiteVars PROVE SuiteInv'
    OBVIOUS
  <1> USE DEF sessionVars, processVars, SweepBenches, SweepSteps
  <1>net. net \in Networks
    BY DEF SuiteInv, SuiteType
  <1>1. CASE \E s \in {"bootstrap_run", "run_all", "run_xnode"} : StartScript(s)
    <2>a. SuiteType'
      BY <1>1, <1>net, CleanupNet DEF StartScript, Benches, SuiteInv,
         SuiteType
    <2>b. Agenda' /\ Position'
      BY <1>1, <1>net, CleanupNet DEF StartScript, Benches, SuiteInv, Agenda,
         Position
    <2>c. OwnRules' /\ OwnTopology'
      BY <1>1, <1>net, CleanupNet DEF StartScript, Benches, SuiteInv, Agenda,
         Position, OwnRules, OwnTopology, RemoteRouteIsXnode
    <2>d. NatKeptEmpty' /\ RemoteRouteIsXnode'
      BY <1>1, <1>net, CleanupNet DEF StartScript, Benches, SuiteInv, Agenda,
         Position, NatKeptEmpty, RemoteRouteIsXnode
    <2>e. ClearedSoFar' /\ HostLeftClean'
      BY <1>1, <1>net, CleanupNet DEF StartScript, Benches, SuiteInv, Agenda,
         Position, OwnTopology, RemoteRouteIsXnode, ClearedSoFar,
         HostLeftClean
    <2>f. OthersRules'
      BY <1>1, <1>net, CleanupNet
      DEF StartScript, Benches, SuiteInv, Agenda, Position, OthersRules, OtherTable
    <2> QED
      BY <2>a, <2>b, <2>c, <2>d, <2>e, <2>f DEF SuiteInv
  <1>2. CASE StartBench
    <2>1. /\ process = "none" /\ pc' = "setup" /\ point' = 1
          /\ script' = script /\ allWell' = allWell /\ previous' = previous
          /\ hook' = hook /\ net' = net
      BY <1>2 DEF StartBench
    <2> DEFINE At(b, rest) == process' = b /\ todo' = rest
    <2>2. \/ script = "run_xnode" /\ At("xnode", <<>>)
          \/ /\ script \in {"bootstrap_run", "run_all"}
             /\ \/ Len(todo) = 3 /\ At("crossover", <<"mec", "path2">>)
                \/ Len(todo) = 2 /\ At("mec", <<"path2">>)
                \/ Len(todo) = 1 /\ At("path2", <<>>)
      <3>1. CASE todo = <<"xnode">>
        BY <1>2, <3>1 DEF StartBench, SuiteInv, Agenda
      <3>2. CASE todo = <<"crossover", "mec", "path2">>
        BY <1>2, <3>2 DEF StartBench, SuiteInv, Agenda
      <3>3. CASE todo = <<"mec", "path2">>
        BY <1>2, <3>3 DEF StartBench, SuiteInv, Agenda
      <3>4. CASE todo = <<"path2">>
        BY <1>2, <3>4 DEF StartBench, SuiteInv, Agenda
      <3> QED
        BY <1>2, <3>1, <3>2, <3>3, <3>4 DEF StartBench, SuiteInv, Agenda
    <2>3. \/ script = "run_xnode" /\ process' = "xnode"
          \/ Len(todo) = 3 /\ Len(todo') = 2 /\ process' = "crossover"
          \/ Len(todo) = 2 /\ Len(todo') = 1 /\ process' = "mec"
          \/ Len(todo) = 1 /\ Len(todo') = 0 /\ process' = "path2"
      BY <2>2
    <2>a. SuiteType'
      BY <2>1 DEF SuiteInv, SuiteType
    <2>b. Agenda' /\ Position'
      BY <2>1, <2>2 DEF SuiteInv, Agenda, Position
    <2>c. OwnRules' /\ OwnTopology'
      BY <2>1 DEF OwnRules, OwnTopology
    <2>d. NatKeptEmpty' /\ RemoteRouteIsXnode'
      BY <2>1, <2>3 DEF SuiteInv, NatKeptEmpty, RemoteRouteIsXnode
    <2>e. ClearedSoFar' /\ HostLeftClean'
      <3>1. HostLeftClean'
        BY <2>1, <2>2 DEF HostLeftClean
      <3>2. ASSUME script = "run_all", allWell
            PROVE  /\ Len(todo') < 3 /\ process' # "crossover" => net.filter = {}
                   /\ Len(todo') < 2 /\ process' # "mec" =>
                        /\ net.nat = {} /\ ~net.veth /\ net.route = "none"
                        /\ net.responder = "none"
        <4>1. /\ Len(todo') < 3 /\ process' # "crossover" => Len(todo) < 3
              /\ Len(todo') < 2 /\ process' # "mec" => Len(todo) < 2
          <5>1. CASE Len(todo) = 3 /\ Len(todo') = 2 /\ process' = "crossover"
            BY <5>1
          <5>2. CASE Len(todo) = 2 /\ Len(todo') = 1 /\ process' = "mec"
            BY <5>2
          <5>3. CASE Len(todo) = 1 /\ Len(todo') = 0 /\ process' = "path2"
            BY <5>3
          <5> QED
            BY <2>3, <3>2, <5>1, <5>2, <5>3, Zenon
        <4>2. process # "crossover" /\ process # "mec"
          BY <2>1
        <4> QED
          BY <3>2, <4>1, <4>2, Zenon DEF SuiteInv, ClearedSoFar
      <3>3. ClearedSoFar'
        BY <2>1, <3>2 DEF ClearedSoFar
      <3> QED
        BY <3>1, <3>3
    <2>f. OthersRules'
      <3>1. found' = OtherTable(net, process') /\ process' = Head(todo)
        BY <1>2 DEF StartBench
      <3>2. process' # "none"
        BY <2>3
      <3>3. ASSUME process' = "mec" PROVE net.filter = {}
        <4>1. todo = <<"mec", "path2">>
          <5>1. todo \in {<<"xnode">>, <<"crossover", "mec", "path2">>,
                          <<"mec", "path2">>, <<"path2">>}
            BY <1>2 DEF StartBench, SuiteInv, Agenda
          <5> QED
            BY <3>1, <3>3, <5>1
        <4> QED
          BY <2>1, <4>1 DEF SuiteInv, OthersRules
      <3> QED
        BY <2>1, <3>1, <3>2, <3>3 DEF OthersRules, OtherTable
    <2> QED
      BY <2>a, <2>b, <2>c, <2>d, <2>e, <2>f DEF SuiteInv
  <1>3. CASE EndScript
    <2>a. SuiteType'
      BY <1>3, <1>net, CleanupNet DEF EndScript, SuiteInv, SuiteType
    <2>b. Agenda' /\ Position'
      BY <1>3, <1>net, CleanupNet DEF EndScript, SuiteInv, Agenda, Position
    <2>c. OwnRules' /\ OwnTopology'
      BY <1>3, <1>net, CleanupNet DEF EndScript, SuiteInv, Agenda, Position,
         OwnRules, OwnTopology, RemoteRouteIsXnode
    <2>d. NatKeptEmpty' /\ RemoteRouteIsXnode'
      BY <1>3, <1>net, CleanupNet DEF EndScript, SuiteInv, Agenda, Position,
         NatKeptEmpty, RemoteRouteIsXnode
    <2>e. ClearedSoFar' /\ HostLeftClean'
      <3>1. ClearedSoFar'
        BY <1>3 DEF EndScript, ClearedSoFar
      <3>2. HostLeftClean'
        <4>1. /\ net' \in Networks /\ net' = Cleanup(net, script)
              /\ script' = "none" /\ previous' = script /\ allWell' = allWell
              /\ process = "none" /\ Len(todo) = 0 /\ script # "none"
          BY <1>3, <1>net, CleanupNet DEF EndScript
        <4>2. CASE script = "run_xnode"
          BY <1>net, <4>1, <4>2, CleanupNet DEF HostLeftClean
        <4>3. CASE script = "bootstrap_run"
          <5>1. /\ net'.nat = {} /\ net'.filter = {} /\ ~net'.veth
                /\ net'.route = "none" /\ net'.responder = "none"
            BY <1>net, <4>1, <4>3, CleanupNet DEF SuiteInv, RemoteRouteIsXnode
          <5>2. net' = [CleanHost EXCEPT !.acceptLocal = net'.acceptLocal]
            BY <4>1, <5>1, CleanButSysctl
          <5> QED
            BY <4>1, <5>1, <5>2 DEF HostLeftClean
        <4>4. CASE script = "run_all" /\ allWell
          <5>1. net' = net
            BY <1>net, <4>1, <4>4, CleanupNet
          <5>2. /\ net.nat = {} /\ net.filter = {} /\ ~net.veth
                /\ net.route = "none" /\ net.responder = "none"
            BY <4>1, <4>4 DEF SuiteInv, ClearedSoFar
          <5>3. net = [CleanHost EXCEPT !.acceptLocal = net.acceptLocal]
            BY <1>net, <5>2, CleanButSysctl
          <5> QED
            BY <4>1, <5>1, <5>2, <5>3 DEF HostLeftClean
        <4>5. CASE script = "run_all" /\ ~allWell
          BY <4>1, <4>5 DEF HostLeftClean
        <4>6. script \in {"bootstrap_run", "run_all", "run_xnode"}
          BY <4>1 DEF SuiteInv, Agenda
        <4> QED
          BY <4>2, <4>3, <4>4, <4>5, <4>6
      <3> QED
        BY <3>1, <3>2
    <2>f. OthersRules'
      BY <1>3, <1>net, CleanupNet
      DEF EndScript, SuiteInv, Agenda, Position, OthersRules, OtherTable
    <2> QED
      BY <2>a, <2>b, <2>c, <2>d, <2>e, <2>f DEF SuiteInv
  <1>4. CASE SetupBench
    <2>a. SuiteType'
      BY <1>4, <1>net, SetupNet DEF SetupBench, SuiteInv, SuiteType
    <2>b. Agenda' /\ Position'
      BY <1>4, <1>net, SetupNet DEF SetupBench, SuiteInv, Agenda, Position
    <2>c. OwnRules' /\ OwnTopology'
      BY <1>4, <1>net, SetupNet DEF SetupBench, SuiteInv, Agenda, Position,
         OwnRules, OwnTopology, RemoteRouteIsXnode
    <2>d. NatKeptEmpty' /\ RemoteRouteIsXnode'
      BY <1>4, <1>net, SetupNet DEF SetupBench, SuiteInv, Agenda, Position,
         NatKeptEmpty, RemoteRouteIsXnode
    <2>e. ClearedSoFar' /\ HostLeftClean'
      BY <1>4, <1>net, SetupNet DEF SetupBench, SuiteInv, Agenda, Position,
         OwnTopology, RemoteRouteIsXnode, ClearedSoFar, HostLeftClean
    <2>f. OthersRules'
      BY <1>4, <1>net, SetupNet
      DEF SetupBench, SuiteInv, Agenda, Position, OthersRules, OtherTable
    <2> QED
      BY <2>a, <2>b, <2>c, <2>d, <2>e, <2>f DEF SuiteInv
  <1>5. CASE LoadBaseline
    <2>1. process \in SweepBenches
      BY <1>5 DEF LoadBaseline, SuiteInv, Agenda, Position
    <2>2. Sweep[point] \in Nat
      BY <1>5, SuiteAssumption DEF LoadBaseline, SuiteInv, SuiteType
    <2>3. /\ net' \in Networks
          /\ net'.veth = net.veth /\ net'.route = net.route
          /\ net'.responder = net.responder
          /\ process = "crossover" => /\ net'.filter = {Sweep[point]}
                                      /\ net'.nat = net.nat
          /\ process # "crossover" =>
               /\ net'.filter = net.filter
               /\ net'.nat = {[services |-> Sweep[point],
                              to |-> FarEnd(process)]}
      <3>1. net' = LoadRules(net, process, Sweep[point])
        BY <1>5 DEF LoadBaseline
      <3>2. Loaded(net', net, process, Sweep[point])
        BY <3>1, <1>net, <2>1, <2>2, LoadRulesNet
      <3> QED
        BY <3>2 DEF Loaded
    <2>a. SuiteType'
      BY <1>5, <2>1, <2>3 DEF LoadBaseline, SuiteInv, SuiteType
    <2>b. Agenda' /\ Position'
      BY <1>5, <2>1, <2>3 DEF LoadBaseline, SuiteInv, Agenda, Position
    <2>c. OwnRules' /\ OwnTopology'
      <3>1. OwnRules'
        BY <1>5, <2>1, <2>3 DEF LoadBaseline, SuiteInv, Position, OwnRules
      <3>2. OwnTopology'
        BY <1>5, <2>1, <2>3 DEF LoadBaseline, SuiteInv, OwnTopology
      <3> QED
        BY <3>1, <3>2
    <2>d. NatKeptEmpty' /\ RemoteRouteIsXnode'
      <3>1. NatKeptEmpty'
        BY <1>5, <2>1, <2>3 DEF LoadBaseline, SuiteInv, Agenda, Position,
           NatKeptEmpty
      <3>2. RemoteRouteIsXnode'
        BY <1>5, <2>1, <2>3 DEF LoadBaseline, SuiteInv, RemoteRouteIsXnode
      <3> QED
        BY <3>1, <3>2
    <2>e. ClearedSoFar' /\ HostLeftClean'
      BY <1>5, <2>1, <2>3 DEF LoadBaseline, SuiteInv, Agenda, Position,
         OwnTopology, RemoteRouteIsXnode, ClearedSoFar, HostLeftClean
    <2>f. OthersRules'
      BY <1>5, <2>1, <2>3 DEF LoadBaseline, SuiteInv, OthersRules, OtherTable
    <2> QED
      BY <2>a, <2>b, <2>c, <2>d, <2>e, <2>f DEF SuiteInv
  <1>6. CASE EndBaseline
    <2>a. SuiteType'
      BY <1>6, <1>net, ClearRulesNet DEF EndBaseline, SuiteInv, SuiteType
    <2>b. Agenda' /\ Position'
      BY <1>6, <1>net, ClearRulesNet DEF EndBaseline, SuiteInv, Agenda,
         Position
    <2>c. OwnRules' /\ OwnTopology'
      BY <1>6, <1>net, ClearRulesNet DEF EndBaseline, SuiteInv, Agenda,
         Position, OwnRules, OwnTopology, RemoteRouteIsXnode
    <2>d. NatKeptEmpty' /\ RemoteRouteIsXnode'
      BY <1>6, <1>net, ClearRulesNet DEF EndBaseline, SuiteInv, Agenda,
         Position, NatKeptEmpty, RemoteRouteIsXnode
    <2>e. ClearedSoFar' /\ HostLeftClean'
      BY <1>6, <1>net, ClearRulesNet DEF EndBaseline, SuiteInv, Agenda,
         Position, OwnTopology, RemoteRouteIsXnode, ClearedSoFar,
         HostLeftClean
    <2>f. OthersRules'
      BY <1>6, <1>net, ClearRulesNet
      DEF EndBaseline, SuiteInv, Agenda, Position, OthersRules, OtherTable
    <2> QED
      BY <2>a, <2>b, <2>c, <2>d, <2>e, <2>f DEF SuiteInv
  <1>7. CASE ClearForEBPF
    <2>a. SuiteType'
      BY <1>7, <1>net, ClearRulesNet DEF ClearForEBPF, SuiteInv, SuiteType
    <2>b. Agenda' /\ Position'
      BY <1>7, <1>net, ClearRulesNet DEF ClearForEBPF, SuiteInv, Agenda,
         Position
    <2>c. OwnRules' /\ OwnTopology'
      BY <1>7, <1>net, ClearRulesNet DEF ClearForEBPF, SuiteInv, Agenda,
         Position, OwnRules, OwnTopology, RemoteRouteIsXnode
    <2>d. NatKeptEmpty' /\ RemoteRouteIsXnode'
      BY <1>7, <1>net, ClearRulesNet DEF ClearForEBPF, SuiteInv, Agenda,
         Position, NatKeptEmpty, RemoteRouteIsXnode
    <2>e. ClearedSoFar' /\ HostLeftClean'
      BY <1>7, <1>net, ClearRulesNet DEF ClearForEBPF, SuiteInv, Agenda,
         Position, OwnTopology, RemoteRouteIsXnode, ClearedSoFar,
         HostLeftClean
    <2>f. OthersRules'
      BY <1>7, <1>net, ClearRulesNet
      DEF ClearForEBPF, SuiteInv, Agenda, Position, OthersRules, OtherTable
    <2> QED
      BY <2>a, <2>b, <2>c, <2>d, <2>e, <2>f DEF SuiteInv
  <1>8. CASE AttachEBPF
    <2>a. SuiteType'
      BY <1>8 DEF AttachEBPF, SuiteInv, SuiteType
    <2>b. Agenda' /\ Position'
      BY <1>8 DEF AttachEBPF, SuiteInv, Agenda, Position
    <2>c. OwnRules' /\ OwnTopology'
      BY <1>8 DEF AttachEBPF, SuiteInv, Agenda, Position, OwnRules,
         OwnTopology, RemoteRouteIsXnode
    <2>d. NatKeptEmpty' /\ RemoteRouteIsXnode'
      BY <1>8 DEF AttachEBPF, SuiteInv, Agenda, Position, NatKeptEmpty,
         RemoteRouteIsXnode
    <2>e. ClearedSoFar' /\ HostLeftClean'
      BY <1>8 DEF AttachEBPF, SuiteInv, Agenda, Position, OwnTopology,
         RemoteRouteIsXnode, ClearedSoFar, HostLeftClean
    <2>f. OthersRules'
      BY <1>8
      DEF AttachEBPF, SuiteInv, Agenda, Position, OthersRules, OtherTable
    <2> QED
      BY <2>a, <2>b, <2>c, <2>d, <2>e, <2>f DEF SuiteInv
  <1>9. CASE EndEBPF
    <2>a. SuiteType'
      BY <1>9 DEF EndEBPF, SuiteInv, SuiteType
    <2>b. Agenda' /\ Position'
      BY <1>9 DEF EndEBPF, SuiteInv, Agenda, Position
    <2>c. OwnRules' /\ OwnTopology'
      BY <1>9 DEF EndEBPF, SuiteInv, Agenda, Position, OwnRules, OwnTopology,
         RemoteRouteIsXnode
    <2>d. NatKeptEmpty' /\ RemoteRouteIsXnode'
      BY <1>9 DEF EndEBPF, SuiteInv, Agenda, Position, NatKeptEmpty,
         RemoteRouteIsXnode
    <2>e. ClearedSoFar' /\ HostLeftClean'
      BY <1>9 DEF EndEBPF, SuiteInv, Agenda, Position, OwnTopology,
         RemoteRouteIsXnode, ClearedSoFar, HostLeftClean
    <2>f. OthersRules'
      BY <1>9
      DEF EndEBPF, SuiteInv, Agenda, Position, OthersRules, OtherTable
    <2> QED
      BY <2>a, <2>b, <2>c, <2>d, <2>e, <2>f DEF SuiteInv
  <1>10. CASE EndBench
    <2>a. SuiteType'
      BY <1>10, <1>net, TeardownNet DEF EndBench, ProcessGone, SuiteInv,
         SuiteType
    <2>b. Agenda' /\ Position'
      BY <1>10, <1>net, TeardownNet DEF EndBench, ProcessGone, SuiteInv,
         Agenda, Position
    <2>c. OwnRules' /\ OwnTopology'
      BY <1>10, <1>net, TeardownNet DEF EndBench, ProcessGone, SuiteInv,
         Agenda, Position, OwnRules, OwnTopology, RemoteRouteIsXnode
    <2>d. NatKeptEmpty' /\ RemoteRouteIsXnode'
      BY <1>10, <1>net, TeardownNet DEF EndBench, ProcessGone, SuiteInv,
         Agenda, Position, NatKeptEmpty, RemoteRouteIsXnode
    <2>e. ClearedSoFar' /\ HostLeftClean'
      BY <1>10, <1>net, TeardownNet DEF EndBench, ProcessGone, SuiteInv,
         Agenda, Position, OwnTopology, RemoteRouteIsXnode, ClearedSoFar,
         HostLeftClean
    <2>f. OthersRules'
      BY <1>10, <1>net, TeardownNet
      DEF EndBench, ProcessGone, SuiteInv, Agenda, Position, OthersRules, OtherTable
    <2> QED
      BY <2>a, <2>b, <2>c, <2>d, <2>e, <2>f DEF SuiteInv
  <1>11. CASE Fatal
    <2>1. /\ net' \in Networks
          /\ net'.nat = net.nat /\ net'.filter = net.filter
          /\ net'.veth = net.veth /\ net'.route = net.route
      BY <1>11, <1>net DEF Fatal, Networks
    <2>a. SuiteType'
      <3>1. point' = 1 /\ allWell' = FALSE
        BY <1>11 DEF Fatal, ProcessGone
      <3> QED
        BY <2>1, <3>1 DEF SuiteType
    <2>b. Agenda' /\ Position'
      BY <1>11, <2>1 DEF Fatal, MayFail, ProcessGone, SuiteInv, Agenda,
         Position
    <2>c. OwnRules' /\ OwnTopology'
      BY <1>11, <2>1 DEF Fatal, MayFail, ProcessGone, SuiteInv, Agenda,
         Position, OwnRules, OwnTopology, RemoteRouteIsXnode
    <2>d. NatKeptEmpty' /\ RemoteRouteIsXnode'
      BY <1>11, <2>1 DEF Fatal, MayFail, ProcessGone, SuiteInv, Agenda,
         Position, NatKeptEmpty, RemoteRouteIsXnode
    <2>e. ClearedSoFar' /\ HostLeftClean'
      BY <1>11, <2>1 DEF Fatal, MayFail, ProcessGone, SuiteInv, Agenda,
         Position, OwnTopology, RemoteRouteIsXnode, ClearedSoFar,
         HostLeftClean
    <2>f. OthersRules'
      BY <1>11, <2>1
      DEF Fatal, ProcessGone, SuiteInv, Agenda, Position, OthersRules, OtherTable
    <2> QED
      BY <2>a, <2>b, <2>c, <2>d, <2>e, <2>f DEF SuiteInv
  <1>12. CASE Killed
    <2>1. /\ net' \in Networks
          /\ net'.nat = net.nat /\ net'.filter = net.filter
          /\ net'.veth = net.veth /\ net'.route = net.route
      BY <1>12, <1>net DEF Killed, Networks
    <2>a. SuiteType'
      <3>1. point' = 1 /\ allWell' = FALSE
        BY <1>12 DEF Killed, ProcessGone
      <3> QED
        BY <2>1, <3>1 DEF SuiteType
    <2>b. Agenda' /\ Position'
      BY <1>12, <2>1 DEF Killed, ProcessGone, SuiteInv, Agenda, Position
    <2>c. OwnRules' /\ OwnTopology'
      BY <1>12, <2>1 DEF Killed, ProcessGone, SuiteInv, Agenda, Position,
         OwnRules, OwnTopology, RemoteRouteIsXnode
    <2>d. NatKeptEmpty' /\ RemoteRouteIsXnode'
      BY <1>12, <2>1 DEF Killed, ProcessGone, SuiteInv, Agenda, Position,
         NatKeptEmpty, RemoteRouteIsXnode
    <2>e. ClearedSoFar' /\ HostLeftClean'
      BY <1>12, <2>1 DEF Killed, ProcessGone, SuiteInv, Agenda, Position,
         OwnTopology, RemoteRouteIsXnode, ClearedSoFar, HostLeftClean
    <2>f. OthersRules'
      BY <1>12, <2>1
      DEF Killed, ProcessGone, SuiteInv, Agenda, Position, OthersRules, OtherTable
    <2> QED
      BY <2>a, <2>b, <2>c, <2>d, <2>e, <2>f DEF SuiteInv
  <1>13. CASE UNCHANGED <<sessionVars, processVars, net>>
    BY <1>13, SuiteStutter DEF sessionVars, processVars
  <1> QED
    BY <1>1, <1>2, <1>3, <1>4, <1>5, <1>6, <1>7, <1>8, <1>9, <1>10, <1>11,
       <1>12, <1>13, Zenon DEF SuiteNext, suiteVars

-----------------------------------------------------------------------------
\* Whatever is measured, fails or is killed, in however many sessions, the
\* host's tables, routes and link are where the benches and traps put them.
THEOREM SuiteInvariant == SuiteSpec => []SuiteInv
  BY SuiteStart, SuiteStep, PTL DEF SuiteSpec

\* After a script with a trap, and after a run_all.sh in which nothing failed,
\* nat rules and remote route are gone (bootstrap_run.sh's promise), and but
\* for run_xnode.sh the host is as it was made, path2_bench's sysctl excepted.
THEOREM HostIsLeftClean == SuiteSpec => []HostLeftClean
  <1>1. SuiteInv => HostLeftClean
    BY DEF SuiteInv
  <1> QED
    BY <1>1, SuiteInvariant, PTL

\* At every point of every sweep the baseline walks, of its own table, exactly
\* its rules with no program attached, and the eBPF arm walks none of it
\* (measureBaseline, measureEBPF, measureXDP); of the other table both walk what
\* the bench found there, which is nothing under bootstrap_run.sh and in
\* mec_bench.
THEOREM ArmsStayApart == SuiteSpec => []ArmsApart
  <1>1. SuiteInv => ArmsApart
    <2> SUFFICES ASSUME SuiteInv, pc \in {"pingBaseline", "pingEBPF"}
                 PROVE  ArmsApart
      BY DEF ArmsApart
    <2>1. process \in SweepBenches
      BY DEF SuiteInv, Agenda, Position, SweepBenches
    <2>2. /\ pc = "pingBaseline" => hook = "none"
          /\ pc = "pingEBPF" => hook = process
      BY DEF SuiteInv, Position
    <2>3. pc = "pingEBPF" => OwnTable(net, process) = {}
      BY DEF SuiteInv, OwnRules, OwnTable
    <2>4. OtherTable(net, process) = found
      BY <2>1 DEF SuiteInv, OthersRules, SweepBenches
    <2>5. process = "mec" => found = {}
      BY <2>4 DEF SuiteInv, OthersRules, OtherTable
    <2>6. script = "bootstrap_run" => found = {}
      <3> SUFFICES ASSUME script = "bootstrap_run" PROVE found = {}
        OBVIOUS
      <3>1. process \in {"crossover", "mec"}
        BY <2>1 DEF SuiteInv, Agenda, SweepBenches
      <3> QED
        BY <2>4, <2>5, <3>1 DEF SuiteInv, NatKeptEmpty, OtherTable
    <2> QED
      BY <2>2, <2>3, <2>4, <2>5, <2>6 DEF SuiteInv, OwnRules, ArmsApart
  <1> QED
    BY <1>1, SuiteInvariant, PTL

\* mec_bench measures its own link, route and worker, whatever an earlier
\* bench left behind (setupTopology).
THEOREM TopologyStaysOwn == SuiteSpec => []TopologyIsOwn
  <1>1. SuiteInv => TopologyIsOwn
    BY DEF SuiteInv, OwnTopology, TopologyIsOwn
  <1> QED
    BY <1>1, SuiteInvariant, PTL

-----------------------------------------------------------------------------
\* path2_bench and the loopback

\* The sends of a degree, in their order.
Stage(a, r) == IF a = "kernel" THEN r ELSE Reps + r

IsDatagram(d) ==
    /\ DOMAIN d = {"port", "dst", "task", "arm", "rep", "copy"}
    /\ d.port \in {9000, 9001} /\ d.dst \in Nat /\ d.task \in Nat
    /\ d.arm \in {"kernel", "app"} /\ d.rep \in 1..Reps

FanoutType ==
    /\ degree \in Nat \ {0} /\ arm \in {"setup", "kernel", "app"}
    /\ rep \in 1..Reps /\ reading \in Nat /\ sent \in Nat
    /\ arm = "setup" =>
         reading = 0 /\ sockets = Closed /\ fanoutMap = Closed
    /\ arm # "setup" =>
         /\ degree \in DOMAIN Degrees
         /\ DOMAIN sockets = 1..Degrees[degree]
         /\ DOMAIN fanoutMap = {degree} /\ fanoutMap[degree] = Degrees[degree]
         /\ got \in [1..Degrees[degree] -> Nat]

WireType ==
    /\ IsFiniteSet(wire)
    /\ \A d \in wire : IsDatagram(d)
    /\ \A d \in wire : d.task <= degree /\ (d.port = 9000 => d.arm = "kernel")

\* No datagram of this degree is of a send that has not been made yet.
NoneAhead ==
    \A d \in wire : d.task = degree =>
        /\ arm # "setup"
        /\ Stage(d.arm, d.rep) <= Stage(arm, rep)
        /\ reading = 0 => Stage(d.arm, d.rep) < Stage(arm, rep)

\* A send of the kernel's arm is one trigger, or clones.
TriggerOrClones ==
    \A d, e \in wire :
        /\ d.task = degree /\ e.task = degree /\ d.rep = e.rep
        /\ d.port = 9000 /\ e.arm = "kernel"
        => d = e

\* What is still to reach consumer c.
Owed(c) == {d \in wire : d.task = degree /\ (d.port = 9000 \/ d.dst = c)}

AllAccounted ==
    arm # "setup" => \A c \in 1..Degrees[degree] :
        got[c] + Cardinality(Owed(c)) = sent

FanoutInv ==
    FanoutType /\ WireType /\ NoneAhead /\ TriggerOrClones /\ AllAccounted

LEMMA DegreeFacts ==
  /\ Reps \in Nat \ {0} /\ MaxFanout \in Nat
  /\ \A k \in DOMAIN Degrees : Degrees[k] \in 1..MaxFanout
  /\ DOMAIN Degrees = 1..Len(Degrees) /\ Len(Degrees) \in Nat
  <1>1. /\ Degrees \in Seq(Nat \ {0}) /\ Reps \in Nat \ {0} /\ MaxFanout \in Nat
        /\ \A k \in DOMAIN Degrees : Degrees[k] <= MaxFanout
    BY FanoutAssumption
  <1>2. /\ DOMAIN Degrees = 1..Len(Degrees) /\ Len(Degrees) \in Nat
        /\ \A k \in DOMAIN Degrees : Degrees[k] \in Nat \ {0}
    BY <1>1
  <1> QED
    BY <1>1, <1>2

LEMMA NothingOnTheWire ==
  ASSUME degree' = 1, arm' = "setup", rep' = 1, reading' = 0,
         fanoutMap' = Closed, sockets' = Closed, wire' = {}, sent' = 0
  PROVE  FanoutInv'
  BY DegreeFacts, FS_EmptySet
  DEF FanoutInv, FanoutType, WireType, NoneAhead, TriggerOrClones, AllAccounted

LEMMA FanoutStart == FanoutInit => FanoutInv
  BY DegreeFacts, FS_EmptySet
  DEF FanoutInit, FanoutInv, FanoutType, WireType, NoneAhead, TriggerOrClones,
      AllAccounted

LEMMA OpenKeeps ==
  ASSUME FanoutInv, OpenDegree
  PROVE  FanoutInv'
  <1>1. /\ arm = "setup" /\ degree <= Len(Degrees) /\ degree \in Nat \ {0}
        /\ UNCHANGED <<degree, wire>>
        /\ sockets' = [c \in 1..Degrees[degree] |-> 0]
        /\ fanoutMap' = [t \in {degree} |-> Degrees[degree]]
        /\ arm' = "kernel" /\ rep' = 1 /\ reading' = 0 /\ sent' = 0
        /\ got' = [c \in 1..Degrees[degree] |-> 0]
    BY DEF OpenDegree, FanoutInv, FanoutType
  <1>2. degree \in DOMAIN Degrees
    BY <1>1, DegreeFacts
  <1>3. \A d \in wire : d.task # degree
    BY <1>1 DEF FanoutInv, NoneAhead
  <1>4. FanoutType'
    BY <1>1, <1>2, DegreeFacts DEF FanoutType
  <1>5. WireType' /\ NoneAhead' /\ TriggerOrClones'
    BY <1>1, <1>3 DEF FanoutInv, WireType, NoneAhead, TriggerOrClones
  <1>6. ASSUME NEW c \in 1..Degrees[degree]
        PROVE  got'[c] + Cardinality(Owed(c)') = sent'
    <2>1. Owed(c)' = {}
      BY <1>1, <1>3 DEF Owed
    <2> QED
      BY <1>1, <2>1, FS_EmptySet
  <1> QED
    BY <1>1, <1>4, <1>5, <1>6 DEF FanoutInv, AllAccounted

Trigger == Datagram(9000, 0, FALSE)
Copy(c) == Datagram(9001, c, FALSE)

LEMMA SentFields ==
  ASSUME FanoutInv, arm # "setup", NEW c \in Nat
  PROVE  /\ IsDatagram(Trigger) /\ Trigger.port = 9000
         /\ Trigger.task = degree /\ Trigger.arm = arm /\ Trigger.rep = rep
         /\ IsDatagram(Copy(c)) /\ Copy(c).port = 9001 /\ Copy(c).dst = c
         /\ Copy(c).task = degree /\ Copy(c).arm = arm /\ Copy(c).rep = rep
  <1>1. degree \in Nat /\ arm \in {"kernel", "app"} /\ rep \in 1..Reps
    BY DEF FanoutInv, FanoutType
  <1>2. /\ IsDatagram(Trigger) /\ Trigger.port = 9000
        /\ Trigger.task = degree /\ Trigger.arm = arm /\ Trigger.rep = rep
    BY <1>1 DEF Trigger, Datagram, IsDatagram
  <1>3. /\ IsDatagram(Copy(c)) /\ Copy(c).port = 9001 /\ Copy(c).dst = c
        /\ Copy(c).task = degree /\ Copy(c).arm = arm /\ Copy(c).rep = rep
    BY <1>1 DEF Copy, Datagram, IsDatagram
  <1> QED
    BY <1>2, <1>3

\* A datagram is new on the wire if its send is.
LEMMA SendKeeps ==
  ASSUME FanoutInv, Send
  PROVE  FanoutInv'
  <1>1. /\ arm \in {"kernel", "app"} /\ reading = 0
        /\ UNCHANGED <<degree, arm, rep, fanoutMap, sockets, got>>
        /\ sent' = sent + 1 /\ reading' = 1
    BY DEF Send, FanoutInv, FanoutType
  <1>2. /\ degree \in Nat \ {0} /\ rep \in 1..Reps /\ sent \in Nat
        /\ degree \in DOMAIN Degrees /\ DOMAIN sockets = 1..Degrees[degree]
        /\ Degrees[degree] \in Nat /\ Reps \in Nat
        /\ got \in [1..Degrees[degree] -> Nat]
    BY <1>1, DegreeFacts DEF FanoutInv, FanoutType
  <1> DEFINE fresh == IF arm = "kernel" THEN {Trigger}
                      ELSE {Copy(c) : c \in 1..Degrees[degree]}
  <1>3. wire' = wire \cup fresh
    BY <1>1, <1>2 DEF Send, Trigger, Copy
  <1>4. ASSUME NEW d \in fresh
        PROVE  /\ IsDatagram(d)
               /\ d.task = degree /\ d.arm = arm /\ d.rep = rep
               /\ d.port = 9000 => arm = "kernel" /\ fresh = {d}
    <2>1. CASE arm = "kernel"
      <3>1. d = Trigger /\ fresh = {d}
        BY <2>1
      <3> HIDE DEF fresh
      <3> QED
        BY <1>1, <2>1, <3>1, SentFields
    <2>2. CASE arm = "app"
      <3>1. PICK c \in 1..Degrees[degree] : d = Copy(c)
        BY <2>2
      <3> QED
        BY <1>1, <1>2, <2>2, <3>1, SentFields
    <2> QED
      BY <1>1, <2>1, <2>2
  <1>5. \A d \in wire : d.task = degree => d.arm # arm \/ d.rep # rep
    BY <1>1, <1>2 DEF FanoutInv, NoneAhead, Stage
  <1>6. IsFiniteSet(fresh)
    <2>1. CASE arm = "kernel"
      BY <2>1, FS_Singleton
    <2>2. CASE arm # "kernel"
      <3> DEFINE f == [c \in 1..Degrees[degree] |-> Copy(c)]
      <3>1. f \in Surjection(1..Degrees[degree], fresh)
        BY <2>2 DEF Surjection
      <3> QED
        BY <1>2, <3>1, FS_Interval, FS_Surjection
    <2> QED
      BY <2>1, <2>2
  <1>7. FanoutType'
    BY <1>1, <1>2 DEF FanoutInv, FanoutType
  <1>8. WireType'
    <2> HIDE DEF fresh
    <2>1. IsFiniteSet(wire)
      BY DEF FanoutInv, WireType
    <2>2. IsFiniteSet(wire')
      BY <1>3, <1>6, <2>1, FS_Union
    <2>3. \A d \in wire' : IsDatagram(d)
      BY <1>3, <1>4 DEF FanoutInv, WireType
    <2>4. ASSUME NEW d \in wire'
          PROVE  d.task <= degree /\ (d.port = 9000 => d.arm = "kernel")
      <3>1. CASE d \in fresh
        BY <1>2, <1>4, <3>1
      <3>2. CASE d \in wire
        BY <3>2 DEF FanoutInv, WireType
      <3> QED
        BY <1>3, <3>1, <3>2
    <2> QED
      BY <1>1, <2>2, <2>3, <2>4 DEF WireType
  <1> HIDE DEF fresh
  <1>9. NoneAhead'
    BY <1>1, <1>2, <1>3, <1>4 DEF FanoutInv, NoneAhead, Stage
  <1>10. TriggerOrClones'
    <2> SUFFICES ASSUME NEW d \in wire', NEW e \in wire',
                        d.task = degree, e.task = degree, d.rep = e.rep,
                        d.port = 9000, e.arm = "kernel"
                 PROVE  d = e
      BY <1>1 DEF TriggerOrClones
    <2>1. d.arm = "kernel"
      BY <1>3, <1>4 DEF FanoutInv, WireType
    <2>2. CASE d \in fresh
      BY <1>3, <1>4, <1>5, <2>1, <2>2
    <2>3. CASE d \in wire /\ e \in fresh
      BY <1>4, <1>5, <2>1, <2>3
    <2>4. CASE d \in wire /\ e \in wire
      BY <2>4 DEF FanoutInv, TriggerOrClones
    <2> QED
      BY <1>3, <2>2, <2>3, <2>4
  <1>11. ASSUME NEW c \in 1..Degrees[degree]
         PROVE  got'[c] + Cardinality(Owed(c)') = sent'
    <2> DEFINE x == IF arm = "kernel" THEN Trigger ELSE Copy(c)
    <2>1. x \in fresh /\ x.task = degree /\ (x.port = 9000 \/ x.dst = c)
      BY <1>1, <1>2, SentFields DEF fresh
    <2>2. \A d \in fresh : d.port = 9000 \/ d.dst = c => d = x
      <3>1. CASE arm = "kernel"
        BY <3>1 DEF fresh
      <3>2. CASE arm # "kernel"
        <4> SUFFICES ASSUME NEW b \in 1..Degrees[degree],
                            Copy(b).port = 9000 \/ Copy(b).dst = c
                     PROVE  Copy(b) = Copy(c)
          BY <3>2 DEF fresh
        <4>1. b \in Nat /\ arm # "setup"
          BY <1>1, <1>2
        <4>2. Copy(b).port = 9001 /\ Copy(b).dst = b
          BY <4>1, SentFields
        <4> QED
          BY <4>2
      <3> QED
        BY <3>1, <3>2
    <2> HIDE DEF x
    <2>3. Owed(c)' = Owed(c) \cup {x}
      BY <1>1, <1>3, <1>4, <2>1, <2>2 DEF Owed
    <2>4. x \notin Owed(c)
      BY <1>4, <1>5, <2>1 DEF Owed
    <2>5. IsFiniteSet(Owed(c))
      BY FS_Subset DEF Owed, FanoutInv, WireType
    <2>6. Cardinality(Owed(c)') = Cardinality(Owed(c)) + 1
      BY <2>3, <2>4, <2>5, FS_AddElement
    <2>7. got[c] + Cardinality(Owed(c)) = sent
      BY <1>1 DEF FanoutInv, AllAccounted
    <2>8. got[c] \in Nat /\ Cardinality(Owed(c)) \in Nat
      BY <1>2, <2>5, FS_CardinalityType
    <2> QED
      BY <1>1, <1>2, <2>6, <2>7, <2>8
  <1> QED
    BY <1>1, <1>7, <1>8, <1>9, <1>10, <1>11 DEF FanoutInv, AllAccounted

\* The drains and the turns of the loop leave the wire alone.
LEMMA LoopKeeps ==
  ASSUME FanoutInv, DrainOne \/ EndRep \/ CloseDegree
  PROVE  FanoutInv'
  <1>1. UNCHANGED <<wire, sent, got>>
    BY DEF DrainOne, EndRep, CloseDegree
  <1>2. Reps \in Nat /\ rep \in 1..Reps /\ degree \in Nat \ {0} /\ reading \in Nat
    BY DegreeFacts DEF FanoutInv, FanoutType
  <1>3. CASE DrainOne
    <2>1. /\ UNCHANGED <<degree, arm, rep, fanoutMap>>
          /\ reading \in DOMAIN sockets /\ reading' = reading + 1
          /\ DOMAIN sockets' = DOMAIN sockets
      BY <1>3 DEF DrainOne
    <2>2. arm # "setup"
      BY <2>1 DEF FanoutInv, FanoutType, Closed
    <2>3. FanoutType'
      BY <1>1, <1>2, <2>1, <2>2 DEF FanoutInv, FanoutType
    <2>4. WireType' /\ TriggerOrClones' /\ AllAccounted'
      BY <1>1, <2>1
      DEF FanoutInv, WireType, TriggerOrClones, AllAccounted, Owed
    <2>5. NoneAhead'
      BY <1>1, <1>2, <2>1 DEF FanoutInv, NoneAhead, Stage
    <2> QED
      BY <2>3, <2>4, <2>5 DEF FanoutInv
  <1>4. CASE EndRep
    <2>1. /\ UNCHANGED <<degree, fanoutMap, sockets>>
          /\ reading > Cardinality(DOMAIN sockets) /\ reading' = 0
          /\ \/ rep < Reps /\ rep' = rep + 1 /\ arm' = arm
             \/ rep = Reps /\ arm = "kernel" /\ rep' = 1 /\ arm' = "app"
      BY <1>4 DEF EndRep
    <2>2. arm # "setup"
      <3> SUFFICES ASSUME arm = "setup" PROVE FALSE
        OBVIOUS
      <3>1. reading = 0 /\ DOMAIN sockets = {}
        BY DEF FanoutInv, FanoutType, Closed
      <3> QED
        BY <2>1, <3>1, FS_EmptySet
    <2>3. FanoutType'
      BY <1>1, <1>2, <2>1, <2>2 DEF FanoutInv, FanoutType
    <2>4. WireType' /\ TriggerOrClones' /\ AllAccounted'
      BY <1>1, <2>1, <2>2
      DEF FanoutInv, WireType, TriggerOrClones, AllAccounted, Owed
    <2>5. arm \in {"kernel", "app"}
      BY <2>2 DEF FanoutInv, FanoutType
    <2>6. Stage(arm', rep') > Stage(arm, rep)
      BY <1>2, <2>1, <2>5 DEF Stage
    <2>7. \A d \in wire : Stage(d.arm, d.rep) \in Nat
      BY <1>2 DEF FanoutInv, WireType, IsDatagram, Stage
    <2>8. Stage(arm', rep') \in Nat /\ Stage(arm, rep) \in Nat
      BY <1>2, <2>1, <2>5 DEF Stage
    <2>9. NoneAhead'
      BY <1>1, <2>1, <2>2, <2>5, <2>6, <2>7, <2>8 DEF FanoutInv, NoneAhead
    <2> QED
      BY <2>3, <2>4, <2>9 DEF FanoutInv
  <1>5. CASE CloseDegree
    <2>1. /\ arm' = "setup" /\ degree' = degree + 1 /\ rep' = 1 /\ reading' = 0
          /\ sockets' = Closed /\ fanoutMap' = Closed
      BY <1>5 DEF CloseDegree
    <2>2. FanoutType'
      BY <1>1, <1>2, <2>1 DEF FanoutInv, FanoutType
    <2>3. \A d \in wire : d.task \in Nat /\ d.task <= degree
      BY DEF FanoutInv, WireType, IsDatagram
    <2>4. \A d \in wire : d.task # degree' /\ d.task <= degree'
      BY <1>2, <2>1, <2>3
    <2>5. WireType' /\ NoneAhead' /\ TriggerOrClones' /\ AllAccounted'
      BY <1>1, <2>1, <2>4
      DEF FanoutInv, WireType, NoneAhead, TriggerOrClones, AllAccounted
    <2> QED
      BY <2>2, <2>5 DEF FanoutInv
  <1> QED
    BY <1>3, <1>4, <1>5

CloneFor(d, c) == [d EXCEPT !.port = 9001, !.dst = c, !.copy = TRUE]

\* A trigger counts for every consumer, and so does its clone for its own.
LEMMA FanOutKeeps ==
  ASSUME FanoutInv, NEW d \in wire, FanOut(d)
  PROVE  FanoutInv'
  <1>1. /\ UNCHANGED <<degree, arm, rep, reading, fanoutMap, sockets, sent, got>>
        /\ wire' = (wire \ {d}) \cup Clones(d)
        /\ d.port = 9000 /\ d.task \in DOMAIN fanoutMap
    BY DEF FanOut, IsTrigger, bench
  <1>2. arm # "setup"
    BY <1>1 DEF FanoutInv, FanoutType, Closed
  <1>3. /\ d.task = degree /\ fanoutMap[degree] = Degrees[degree]
        /\ degree \in Nat \ {0} /\ degree \in DOMAIN Degrees
        /\ Degrees[degree] \in 1..MaxFanout /\ MaxFanout \in Nat
        /\ DOMAIN sockets = 1..Degrees[degree]
    BY <1>1, <1>2, DegreeFacts DEF FanoutInv, FanoutType
  <1>4. IsDatagram(d) /\ d.arm = "kernel"
    BY <1>1 DEF FanoutInv, WireType
  <1>5. Clones(d) = {CloneFor(d, c) : c \in 1..Degrees[degree]}
    <2>1. 1..MaxFanout \cap 1..fanoutMap[d.task] = 1..Degrees[degree]
      BY <1>3
    <2>2. Clones(d) = {CloneFor(d, c) :
                         c \in 1..MaxFanout \cap 1..fanoutMap[d.task]}
      BY DEF Clones, CloneFor
    <2> QED
      BY <2>1, <2>2
  <1>6. ASSUME NEW c \in 1..Degrees[degree]
        PROVE  /\ IsDatagram(CloneFor(d, c))
               /\ CloneFor(d, c).port = 9001 /\ CloneFor(d, c).dst = c
               /\ CloneFor(d, c).task = degree /\ CloneFor(d, c).arm = "kernel"
               /\ CloneFor(d, c).rep = d.rep
    BY <1>3, <1>4 DEF CloneFor, IsDatagram
  <1>7. d.arm = "kernel" /\ d.rep \in 1..Reps
    BY <1>4 DEF IsDatagram
  <1>8. \A c \in 1..Degrees[degree] : CloneFor(d, c) \notin wire
    BY <1>1, <1>3, <1>6 DEF FanoutInv, TriggerOrClones
  <1>9. FanoutType'
    BY <1>1 DEF FanoutInv, FanoutType
  <1>10. WireType'
    <2>1. IsFiniteSet(Clones(d))
      <3> DEFINE f == [c \in 1..Degrees[degree] |-> CloneFor(d, c)]
      <3>1. f \in Surjection(1..Degrees[degree], Clones(d))
        BY <1>5 DEF Surjection
      <3>2. IsFiniteSet(1..Degrees[degree])
        BY <1>3, FS_Interval
      <3> QED
        BY <3>1, <3>2, FS_Surjection
    <2>2. IsFiniteSet(wire)
      BY DEF FanoutInv, WireType
    <2>3. IsFiniteSet(wire \ {d})
      BY <2>2, FS_Subset
    <2>4. IsFiniteSet((wire \ {d}) \cup Clones(d))
      BY <2>1, <2>3, FS_Union
    <2>5. \A e \in wire' : IsDatagram(e)
      BY <1>1, <1>5, <1>6 DEF FanoutInv, WireType
    <2>6. \A e \in wire' : e.task <= degree /\ (e.port = 9000 => e.arm = "kernel")
      BY <1>1, <1>3, <1>5, <1>6 DEF FanoutInv, WireType
    <2> QED
      BY <1>1, <2>4, <2>5, <2>6 DEF WireType
  <1>11. NoneAhead'
    BY <1>1, <1>3, <1>5, <1>6, <1>7 DEF FanoutInv, NoneAhead
  <1>12. TriggerOrClones'
    <2> SUFFICES ASSUME NEW x \in wire', NEW e \in wire',
                        x.task = degree, e.task = degree, x.rep = e.rep,
                        x.port = 9000, e.arm = "kernel"
                 PROVE  x = e
      BY <1>1 DEF TriggerOrClones
    <2>1. x \in wire /\ x # d
      BY <1>1, <1>5, <1>6
    <2>2. CASE e \in wire
      BY <2>1, <2>2 DEF FanoutInv, TriggerOrClones
    <2>3. CASE e \in Clones(d)
      <3>1. x.rep = d.rep
        BY <1>5, <1>6, <2>3
      <3>2. x = d
        BY <1>3, <1>4, <2>1, <3>1 DEF FanoutInv, TriggerOrClones
      <3> QED
        BY <2>1, <3>2
    <2> QED
      BY <1>1, <2>2, <2>3
  <1>13. ASSUME NEW c \in 1..Degrees[degree]
         PROVE  Cardinality(Owed(c)') = Cardinality(Owed(c))
    <2> DEFINE x == CloneFor(d, c)
    <2>1. x \in Clones(d) /\ x.task = degree /\ x.dst = c /\ x \notin wire
      BY <1>5, <1>6, <1>8
    <2>2. \A e \in Clones(d) : e.port # 9000 /\ (e.dst = c => e = x)
      BY <1>5, <1>6
    <2> HIDE DEF x
    <2>3. Owed(c)' = (Owed(c) \ {d}) \cup {x}
      BY <1>1, <1>3, <2>1, <2>2 DEF Owed
    <2>4. d \in Owed(c) /\ x \notin Owed(c) \ {d}
      BY <1>1, <1>3, <2>1 DEF Owed
    <2>5. IsFiniteSet(Owed(c))
      BY FS_Subset DEF Owed, FanoutInv, WireType
    <2>6. /\ IsFiniteSet(Owed(c) \ {d})
          /\ Cardinality(Owed(c) \ {d}) = Cardinality(Owed(c)) - 1
      BY <2>4, <2>5, FS_RemoveElement
    <2>7. Cardinality(Owed(c)') = Cardinality(Owed(c) \ {d}) + 1
      BY <2>3, <2>4, <2>6, FS_AddElement
    <2>8. Cardinality(Owed(c)) \in Nat
      BY <2>5, FS_CardinalityType
    <2> QED
      BY <2>6, <2>7, <2>8
  <1>14. AllAccounted'
    BY <1>1, <1>13 DEF FanoutInv, AllAccounted
  <1> QED
    BY <1>9, <1>10, <1>11, <1>12, <1>14 DEF FanoutInv

\* What a consumer is given is no longer owed.
LEMMA DeliverKeeps ==
  ASSUME FanoutInv, NEW d \in wire, Deliver(d)
  PROVE  FanoutInv'
  <1>1. /\ UNCHANGED <<degree, arm, rep, reading, fanoutMap, sent>>
        /\ wire' = wire \ {d} /\ ~IsTrigger(d)
    BY DEF Deliver, bench
  <1>2. WireType'
    BY <1>1, FS_Subset DEF FanoutInv, WireType
  <1>3. NoneAhead' /\ TriggerOrClones'
    BY <1>1 DEF FanoutInv, NoneAhead, TriggerOrClones
  <1>4. CASE arm = "setup"
    <2>1. UNCHANGED <<sockets, got>>
      BY <1>4 DEF Deliver, FanoutInv, FanoutType, Closed
    <2>2. FanoutType' /\ AllAccounted'
      BY <1>1, <1>4, <2>1 DEF FanoutInv, FanoutType, AllAccounted
    <2> QED
      BY <1>2, <1>3, <2>2 DEF FanoutInv
  <1>5. CASE arm # "setup"
    <2>1. /\ DOMAIN sockets = 1..Degrees[degree] /\ DOMAIN fanoutMap = {degree}
          /\ got \in [1..Degrees[degree] -> Nat] /\ sent \in Nat
      BY <1>5 DEF FanoutInv, FanoutType
    <2>2. d.task = degree => d.port # 9000
      BY <1>1, <2>1 DEF IsTrigger
    <2>3. d.port \in {9000, 9001}
      BY DEF FanoutInv, WireType, IsDatagram
    <2> DEFINE served == d.port = 9001 /\ d.dst \in 1..Degrees[degree]
                           /\ d.task = degree
    <2>4. /\ DOMAIN sockets' = DOMAIN sockets
          /\ served => got' = [got EXCEPT ![d.dst] = @ + 1]
          /\ ~served => got' = got
      BY <2>1 DEF Deliver
    <2>5. got' \in [1..Degrees[degree] -> Nat]
      <3>1. CASE served
        BY <2>1, <2>4, <3>1
      <3>2. CASE ~served
        BY <2>1, <2>4, <3>2
      <3> QED
        BY <3>1, <3>2
    <2>6. FanoutType'
      BY <1>1, <1>5, <2>4, <2>5 DEF FanoutInv, FanoutType
    <2>7. ASSUME NEW c \in 1..Degrees[degree]
          PROVE  got'[c] + Cardinality(Owed(c)') = sent'
      <3>1. got[c] + Cardinality(Owed(c)) = sent
        BY <1>5 DEF FanoutInv, AllAccounted
      <3>2. IsFiniteSet(Owed(c))
        BY FS_Subset DEF Owed, FanoutInv, WireType
      <3>3. Owed(c)' = Owed(c) \ {d}
        BY <1>1 DEF Owed
      <3>4. CASE served /\ d.dst = c
        <4>1. d \in Owed(c)
          BY <3>4 DEF Owed
        <4>2. Cardinality(Owed(c)') = Cardinality(Owed(c)) - 1
          BY <3>2, <3>3, <4>1, FS_RemoveElement
        <4>3. got'[c] = got[c] + 1
          <5>1. got' = [got EXCEPT ![c] = @ + 1]
            BY <2>4, <3>4
          <5> QED
            BY <2>1, <5>1
        <4>4. got[c] \in Nat /\ Cardinality(Owed(c)) \in Nat
          BY <2>1, <3>2, FS_CardinalityType
        <4> QED
          BY <1>1, <3>1, <4>2, <4>3, <4>4
      <3>5. CASE ~(served /\ d.dst = c)
        <4>1. d \notin Owed(c)
          BY <2>2, <2>3, <3>5 DEF Owed
        <4>2. Owed(c)' = Owed(c)
          BY <3>3, <4>1
        <4>3. got'[c] = got[c]
          <5>1. CASE served
            <6>1. got' = [got EXCEPT ![d.dst] = @ + 1] /\ d.dst # c
              BY <2>4, <3>5, <5>1
            <6> QED
              BY <2>1, <6>1
          <5>2. CASE ~served
            BY <2>4, <5>2
          <5> QED
            BY <5>1, <5>2
        <4> QED
          BY <1>1, <3>1, <4>2, <4>3
      <3> QED
        BY <3>4, <3>5
    <2>8. AllAccounted'
      BY <1>1, <2>7 DEF AllAccounted
    <2> QED
      BY <1>2, <1>3, <2>6, <2>8 DEF FanoutInv
  <1> QED
    BY <1>4, <1>5

LEMMA FanoutStep == FanoutInv /\ [SuiteNext]_suiteVars => FanoutInv'
  <1> SUFFICES ASSUME FanoutInv, [SuiteNext]_suiteVars PROVE FanoutInv'
    OBVIOUS
  <1>1. CASE UNCHANGED fanoutVars
    BY <1>1 DEF fanoutVars, bench, FanoutInv, FanoutType, WireType, NoneAhead,
       TriggerOrClones, AllAccounted, Owed
  <1>2. CASE FanoutGone
    BY <1>2, NothingOnTheWire DEF FanoutGone
  <1>3. CASE BenchStep
    BY <1>3, OpenKeeps, SendKeeps, LoopKeeps DEF BenchStep
  <1>4. CASE Kernel
    BY <1>4, FanOutKeeps, DeliverKeeps DEF Kernel
  <1>5. ASSUME EndBench \/ Fatal \/ Killed
        PROVE  FanoutGone
    BY <1>5 DEF EndBench, Fatal, Killed, ProcessGone
  <1>6. ASSUME \/ \E s \in {"bootstrap_run", "run_all", "run_xnode"} : StartScript(s)
               \/ StartBench \/ EndScript \/ SetupBench \/ LoadBaseline
               \/ EndBaseline \/ ClearForEBPF \/ AttachEBPF \/ EndEBPF
               \/ UNCHANGED suiteVars
        PROVE  UNCHANGED fanoutVars
    BY <1>6 DEF StartScript, StartBench, EndScript, SetupBench, LoadBaseline,
       EndBaseline, ClearForEBPF, AttachEBPF, EndEBPF, suiteVars
  <1> QED
    BY <1>1, <1>2, <1>3, <1>4, <1>5, <1>6, Zenon DEF SuiteNext

\* path2_bench: once nothing is on its way, each consumer has been given one
\* datagram for every send, cloned or direct, however late the earlier ones
\* came and wherever the bench was killed before.
THEOREM ConsumersServed == SuiteSpec => []EveryConsumerServed
  <1>1. SuiteInit => FanoutInv
    BY FanoutStart DEF SuiteInit
  <1>2. FanoutInv => EveryConsumerServed
    <2> SUFFICES ASSUME FanoutInv, wire = {}, NEW c \in DOMAIN sockets
                 PROVE  got[c] = sent
      BY DEF EveryConsumerServed
    <2>1. arm # "setup"
      BY DEF FanoutInv, FanoutType, Closed
    <2>2. /\ c \in 1..Degrees[degree] /\ sent \in Nat
          /\ got \in [1..Degrees[degree] -> Nat]
      BY <2>1 DEF FanoutInv, FanoutType
    <2>3. Owed(c) = {}
      BY DEF Owed
    <2>4. got[c] + Cardinality(Owed(c)) = sent
      BY <2>1, <2>2 DEF FanoutInv, AllAccounted
    <2> QED
      BY <2>2, <2>3, <2>4, FS_EmptySet
  <1> QED
    BY <1>1, <1>2, FanoutStep, PTL DEF SuiteSpec
=============================================================================
