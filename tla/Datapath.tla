------------------------------- MODULE Datapath -------------------------------
(***************************************************************************)
(* The way of a trigger through the eBPF programs of tc_bridge.c, and the  *)
(* loader that attaches and detaches them (internal/ebpf), as the two      *)
(* programs use it: main.go in ebpf mode attaches connect4 only and sends  *)
(* to a service address, the scheduler's goroutines and its exit going     *)
(* their own ways; c3_bench attaches tc ingress and egress to the loopback *)
(* and sends one trigger at a time to its own echo server.                 *)
(*                                                                         *)
(* A hook looks a rule up and gets a pointer to an element of vault_map,   *)
(* which it reads later.  An update puts the rule into another element and *)
(* frees the old one at once, so that another task's rule may be read.     *)
(* The tc hooks read its destination once here and twice in the code, for  *)
(* the test against 0 and for the use: the bench they are attached for     *)
(* never writes a rule again.  A socket is used once.  The retention of    *)
(* step 10 is in Retention; here it only counts how often it is passed.    *)
(***************************************************************************)
EXTENDS Integers, FiniteSets

CONSTANTS
    Keys,       \* numeric task ids
    Sockets,
    Workers,    \* addresses of nodes
    Local,      \* 127.0.0.1
    Service,    \* 10.43.100.100, the ClusterIP
    None,       \* an address of 0, no element
    Elements,   \* of vault_map: one more than max_entries
    MaxEntries, \* 65536
    PortRange   \* ports that connect4 takes for task ids: 100

ASSUME DatapathAssumption ==
    /\ IsFiniteSet(Elements) /\ Cardinality(Elements) > MaxEntries
    /\ IsFiniteSet(Sockets)
    /\ Keys \subseteq Nat /\ MaxEntries \in Nat /\ PortRange \in Nat
    /\ None \notin Elements \cup Workers \cup {Local, Service}

VARIABLES
    prog,     \* which program runs
    pc,       \* where its main function is
    handle,   \* vaultMap, retentionMap and the three programs
    link,     \* tcxIngressLink, tcxEgressLink, cgroupLink: those not nil
    attachedIface,
    vault,    \* vault_map: key -> element
    dest,     \* dest_ips[0] of every element
    sock,     \* what each socket's datagram is doing
    current,  \* c3_bench: the task it has programmed last
    waiting,  \* c3_bench: the socket it waits for
    counted   \* how often step 10 was passed, by key

loader == <<handle, link, attachedIface>>
rules == <<vault, dest>>
bench == <<current, waiting>>
vars == <<prog, pc, loader, rules, sock, bench, counted>>

Objects == {"vault", "retention", "ingress", "egress", "connect4"}
Optional == {"egress", "connect4"}
Stages == {"unused", "compute", "connecting", "egress", "egressHeld",
           "ingress", "ingressHeld", "arrived", "done"}

\* port: what it is beyond 9000.  want: where the comment in executeWorker
\* says the trigger goes (a ghost).
Socket(at, by, k, dst, port) ==
    [at |-> at, by |-> by, key |-> k, dst |-> dst, port |-> port,
     reply |-> FALSE, held |-> None, want |-> dst]
Unused == [at |-> "unused"]

Present == DOMAIN vault

\* Variant: an element that is in use is taken.
FreeAny == Elements
Free == Elements \ {vault[k] : k \in Present}

Running == pc \notin {"load", "attach", "exit"}

Init ==
    /\ prog \in {"main", "c3_bench"}
    /\ pc = "load"
    /\ handle = [o \in Objects |-> "nil"]
    /\ link = {}
    /\ attachedIface = FALSE
    /\ vault = [k \in {} |-> None]
    /\ dest = [e \in Elements |-> None]
    /\ sock = [s \in Sockets |-> Unused]
    /\ current = None
    /\ waiting = None
    /\ counted = [k \in Keys |-> 0]

-----------------------------------------------------------------------------
\* The loader

\* LoadBPFObjects: the object file may lack the optional programs.
LoadBPFObjects ==
    /\ pc = "load"
    /\ pc' = "attach"
    /\ \E missing \in SUBSET Optional :
         handle' = [o \in Objects |-> IF o \in missing THEN "nil" ELSE "open"]
    /\ UNCHANGED <<prog, link, attachedIface, rules, sock, bench, counted>>

\* log.Fatalf: LoadBPFObjects fails, AttachTC does before its egress part, or
\* c3_bench cannot start its echo server, before its first rule.
LoadFails ==
    /\ \/ pc = "load"
       \/ prog = "c3_bench" /\ (pc = "attach" \/ (pc = "run" /\ current = None))
    /\ pc' = "exit"
    /\ link' = {}
    /\ UNCHANGED <<prog, handle, attachedIface, rules, sock, bench, counted>>

\* Variant: the interface is remembered when both hooks are attached.
RememberBoth(hooks) == hooks = {"ingress", "egress"}

\* attachedIface = interfaceName
Remember(hooks) == "ingress" \in hooks

\* The attachment of the egress hook may fail.
AttachTC ==
    /\ pc = "attach" /\ prog = "c3_bench"
    /\ \E hooks \in {{"ingress"}, {"ingress", "egress"}} :
         /\ "egress" \in hooks => handle["egress"] = "open"
         /\ link' = link \cup hooks
         /\ attachedIface' = Remember(hooks)
    /\ pc' = "run"
    /\ UNCHANGED <<prog, handle, rules, sock, bench, counted>>

\* A failure is a warning in main.go.
AttachCgroup ==
    /\ pc = "attach" /\ prog = "main"
    /\ \/ handle["connect4"] = "open" /\ link' = link \cup {"connect4"}
       \/ UNCHANGED link
    /\ pc' = "run"
    /\ UNCHANGED <<prog, handle, attachedIface, rules, sock, bench, counted>>

\* Main's loop is over: its deferred calls run while the reactor and the
\* goroutines go on.  c3_bench has closed its echo server by then.
Finish ==
    /\ pc = "run"
    /\ prog = "c3_bench" => waiting = None
    /\ pc' = "detachTC"
    /\ UNCHANGED <<prog, loader, rules, sock, bench, counted>>

\* Variant: the early return is left out.
DetachAlways == TRUE

\* Nothing is done if attachedIface is empty.
DetachesTC == attachedIface

DetachTC ==
    /\ pc = "detachTC"
    /\ IF DetachesTC
       THEN /\ link' = link \ {"ingress", "egress"}
            /\ handle' = [o \in Objects |-> IF o # "connect4" /\ handle[o] = "open"
                                            THEN "closed" ELSE handle[o]]
            /\ attachedIface' = FALSE
       ELSE UNCHANGED loader
    /\ pc' = IF prog = "main" THEN "detachCgroup" ELSE "ended"
    /\ UNCHANGED <<prog, rules, sock, bench, counted>>

DetachCgroup ==
    /\ pc = "detachCgroup"
    /\ link' = link \ {"connect4"}
    /\ handle' = [handle EXCEPT !["connect4"] = IF @ = "nil" THEN @ ELSE "closed"]
    /\ pc' = "ended"
    /\ UNCHANGED <<prog, attachedIface, rules, sock, bench, counted>>

\* The main function returns; the kernel drops what the process held.
Exit ==
    /\ pc = "ended"
    /\ pc' = "exit"
    /\ link' = {}
    /\ UNCHANGED <<prog, handle, attachedIface, rules, sock, bench, counted>>

Loader == \/ LoadBPFObjects \/ LoadFails \/ AttachTC \/ AttachCgroup
          \/ Finish \/ DetachTC \/ DetachCgroup \/ Exit

-----------------------------------------------------------------------------
\* Writing rules and sending triggers

\* WriteDependencyRuleToKernel, whose error nobody looks at.
WriteRule(k, ip) ==
    IF handle["vault"] = "open" /\ (k \in Present \/ Cardinality(Present) < MaxEntries)
    THEN \E e \in Free :
           /\ vault' = [j \in Present \cup {k} |-> IF j = k THEN e ELSE vault[j]]
           /\ dest' = [dest EXCEPT ![e] = ip]
    ELSE UNCHANGED rules

\* dispatchTask: the rule, then the goroutine.  An exit task has no destination.
Dispatch(s, k, ip) ==
    /\ prog = "main" /\ Running
    /\ sock[s] = Unused
    /\ WriteRule(k, ip)
    /\ sock' = [sock EXCEPT ![s] = Socket("compute", "program", k, Service, k)]
    /\ UNCHANGED <<prog, pc, loader, bench, counted>>

\* What executeWorker says the hook does.
Rerouted(k) ==
    IF "connect4" \in link /\ k \in Present /\ k < PortRange /\ dest[vault[k]] # None
    THEN dest[vault[k]] ELSE Service

\* sendAndWaitForAck: WriteTo on an unconnected socket, which calls no connect.
SendTrigger(s) ==
    /\ Running
    /\ sock[s].at = "compute"
    /\ sock' = [sock EXCEPT ![s].at = "egress", ![s].want = Rerouted(sock[s].key)]
    /\ UNCHANGED <<prog, pc, loader, rules, bench, counted>>

\* Variant: ids are used again.
AnyId(k) == k \in Keys
FreshId(k) == k \notin Present

\* c3_bench: programRule; every destination is this host.
ProgramRule(k) ==
    /\ prog = "c3_bench" /\ pc = "run"
    /\ waiting = None
    /\ FreshId(k)
    /\ WriteRule(k, Local)
    /\ current' = k
    /\ UNCHANGED <<prog, pc, loader, sock, waiting, counted>>

\* c3_bench: sendTrigger
SendBenchTrigger(s) ==
    /\ prog = "c3_bench" /\ pc = "run"
    /\ waiting = None /\ current # None
    /\ sock[s] = Unused
    /\ sock' = [sock EXCEPT ![s] = Socket("egress", "program", current, Local, 0)]
    /\ waiting' = s
    /\ UNCHANGED <<prog, pc, loader, rules, current, counted>>

\* The deadline of 50 ms; the datagram is still on its way.
Timeout ==
    /\ waiting # None
    /\ waiting' = None
    /\ UNCHANGED <<prog, pc, loader, rules, sock, current, counted>>

\* Any process in the root cgroup connects to a port from 9000 on.
Connect(s, k) ==
    /\ "connect4" \in link
    /\ sock[s] = Unused
    /\ sock' = [sock EXCEPT ![s] =
          IF k < PortRange /\ k \in Present
          THEN [Socket("connecting", "other", k, Service, k) EXCEPT !.held = vault[k]]
          ELSE Socket("arrived", "other", k, Service, k)]
    /\ UNCHANGED <<prog, pc, loader, rules, bench, counted>>

\* dpls_cgroup_connect4, from real_ip on
Connect4(s) ==
    /\ sock[s].at = "connecting"
    /\ LET ip == dest[sock[s].held] IN
         sock' = [sock EXCEPT ![s] =
            IF ip = None THEN [@ EXCEPT !.at = "arrived"]
            ELSE [@ EXCEPT !.at = "arrived", !.dst = ip, !.port = 0]]
    /\ UNCHANGED <<prog, pc, loader, rules, bench, counted>>

-----------------------------------------------------------------------------
\* The tc hooks.  A reply of the echo server comes from port 9000.

EgressMatches(p) == p.reply \/ p.port = 0

\* Variant: as on egress, either port.
IngressEitherPort(p) == EgressMatches(p)
IngressMatches(p) == ~p.reply /\ p.port = 0

\* Steps 1 to 9: a datagram the hook lets pass, or the rule it has found.
Hook(s, name, matches, held, pass) ==
    /\ sock[s].at = name
    /\ sock' = [sock EXCEPT ![s] =
          IF name \in link /\ matches /\ @.key \in Present
          THEN [@ EXCEPT !.at = held, !.held = vault[sock[s].key]]
          ELSE [@ EXCEPT !.at = pass]]
    /\ UNCHANGED <<prog, pc, loader, rules, bench, counted>>

\* Step 11: no rewriting if the rule has no destination.
Rewritten(p) == IF dest[p.held] = None THEN p.dst ELSE dest[p.held]

Egress(s) == Hook(s, "egress", EgressMatches(sock[s]), "egressHeld", "ingress")

EgressRewrite(s) ==
    /\ sock[s].at = "egressHeld"
    /\ sock' = [sock EXCEPT ![s].at = "ingress", ![s].held = None,
                            ![s].dst = Rewritten(sock[s])]
    /\ UNCHANGED <<prog, pc, loader, rules, bench, counted>>

Ingress(s) == Hook(s, "ingress", IngressMatches(sock[s]), "ingressHeld", "arrived")

IngressRewrite(s) ==
    /\ sock[s].at = "ingressHeld"
    /\ counted' = [counted EXCEPT ![sock[s].key] = @ + 1]
    /\ sock' = [sock EXCEPT ![s].at = "arrived", ![s].held = None,
                            ![s].dst = Rewritten(sock[s])]
    /\ UNCHANGED <<prog, pc, loader, rules, bench>>

\* startEchoServer, on port 9000 of the loopback
Echo(s) ==
    /\ prog = "c3_bench" /\ pc = "run"
    /\ sock[s].at = "arrived" /\ ~sock[s].reply
    /\ sock[s].dst = Local
    /\ sock' = [sock EXCEPT ![s].at = "egress", ![s].reply = TRUE]
    /\ UNCHANGED <<prog, pc, loader, rules, bench, counted>>

\* The ACK: the bench goes on, unless it has done so already.
Acknowledge(s) ==
    /\ sock[s].at = "arrived" /\ sock[s].reply
    /\ sock[s].dst = Local
    /\ sock' = [sock EXCEPT ![s].at = "done"]
    /\ waiting' = IF waiting = s THEN None ELSE waiting
    /\ UNCHANGED <<prog, pc, loader, rules, current, counted>>

Traffic(s) ==
    \/ SendTrigger(s) \/ SendBenchTrigger(s)
    \/ Egress(s) \/ EgressRewrite(s) \/ Ingress(s) \/ IngressRewrite(s)
    \/ Echo(s) \/ Acknowledge(s) \/ Connect4(s)
    \/ \E k \in Keys : Connect(s, k)
    \/ \E k \in Keys : \E ip \in Workers \cup {None} : Dispatch(s, k, ip)

Next ==
    \/ Loader
    \/ Timeout
    \/ \E k \in Keys : ProgramRule(k)
    \/ \E s \in Sockets : Traffic(s)

Spec == Init /\ [][Next]_vars

-----------------------------------------------------------------------------
\* Properties

SocketState ==
    {Unused} \cup
    [at : Stages \ {"unused"}, by : {"program", "other"}, key : Keys,
     dst : Workers \cup {Local, Service}, port : Keys \cup {0},
     reply : BOOLEAN, held : Elements \cup {None},
     want : Workers \cup {Local, Service}]

TypeOK ==
    /\ handle \in [Objects -> {"nil", "open", "closed"}]
    /\ link \subseteq Objects
    /\ Present \subseteq Keys
    /\ \A k \in Present : vault[k] \in Elements
    /\ \A j, k \in Present : vault[j] = vault[k] => j = k
    /\ dest \in [Elements -> Workers \cup {Local, None}]
    /\ sock \in [Sockets -> SocketState]
    /\ waiting \in Sockets \cup {None} /\ current \in Keys \cup {None}
    /\ counted \in [Keys -> Nat]

Triggers == {s \in Sockets : sock[s] # Unused /\ sock[s].by = "program"}

\* A task's trigger never leaves before the kernel has a rule for the task, not
\* even when the program is shutting down its hooks and maps around it.
RuleBeforeTrigger ==
    \A s \in Triggers : sock[s].at # "compute" => sock[s].key \in Present

\* c3_bench: what a hook reads through the pointer it holds is the rule of its
\* own task, late triggers of earlier tasks included.
RuleReadIsOwn ==
    prog = "c3_bench" =>
        \A s \in Triggers : sock[s].held # None => sock[s].held = vault[sock[s].key]

\* c3_bench: each trigger passes the retention once, although the echo server
\* sends the same bytes back through the same hooks.
CountedOncePerTrigger ==
    prog = "c3_bench" /\ "ingress" \in link =>
        \A k \in Keys :
            counted[k] = Cardinality({s \in Triggers :
                           /\ sock[s].key = k
                           /\ sock[s].reply \/ sock[s].at = "arrived"})

\* When main returns, whatever failed to load or attach, no hook is left behind.
NoHookLeft == pc = "ended" => link = {}

\* core.go, executeWorker: the connect4 hook "reads the task ID encoded in the
\* port, and rewrites the destination to the REAL pod IP".
HookReroutesTriggers ==
    prog = "main" =>
        \A s \in Triggers : sock[s].at = "arrived" => sock[s].dst = sock[s].want
=============================================================================
