---------------------------- MODULE DatapathProofs ----------------------------
(***************************************************************************)
(* Rules come before triggers, the hooks read the rules of their own       *)
(* tasks, count each trigger once and are all taken down, for any tasks,   *)
(* sockets and workers, as long as vault_map has room for the tasks.       *)
(***************************************************************************)
EXTENDS Datapath, FiniteSetTheorems, TLAPS

Room == IsFiniteSet(Keys) /\ Cardinality(Keys) <= MaxEntries

\* What is attached, remembered and open at each point of the main function.
Wiring ==
    /\ prog \in {"main", "c3_bench"}
    /\ pc \in {"load", "attach", "run", "detachTC", "detachCgroup", "ended",
              "exit"}
    /\ prog = "main" => link \subseteq {"connect4"} /\ attachedIface = FALSE
    /\ prog = "c3_bench" =>
         link \subseteq {"ingress", "egress"} /\ pc # "detachCgroup"
    /\ pc \in {"load", "attach", "ended"} => link = {}
    /\ prog = "c3_bench" /\ pc \in {"run", "detachTC"} => attachedIface = TRUE
    /\ pc \in {"load", "attach"} => attachedIface = FALSE
    /\ \/ pc \in {"attach", "run"}
       \/ prog = "main" /\ pc \in {"detachTC", "detachCgroup", "ended"}
       => handle["vault"] = "open"

\* Nothing is sent before something is attached.
QuietFirst ==
    pc \in {"load", "attach"} =>
        /\ \A s \in Sockets : sock[s] = Unused
        /\ \A k \in Keys : counted[k] = 0

\* Tasks with a trigger, and the one programmed last, have a rule.
RulesFirst ==
    /\ \A s \in Triggers : sock[s].key \in Present
    /\ current # None => current \in Present

\* A pointer is held between a hook's two steps.
PointerHeld ==
    \A s \in Sockets :
        sock[s].at \in {"connecting", "egressHeld", "ingressHeld"} =>
            sock[s].held \in Elements

\* All datagrams of c3_bench are triggers to the port the hooks take, or
\* replies, which the ingress hook lets pass.
BenchTraffic ==
    prog = "c3_bench" => \A s \in Sockets : sock[s] # Unused =>
        /\ sock[s].by = "program" /\ sock[s].port = 0
        /\ sock[s].at # "connecting" /\ sock[s].at # "compute"
        /\ sock[s].at = "ingressHeld" => ~sock[s].reply
        /\ sock[s].at = "done" => sock[s].reply
        /\ sock[s].held # None => sock[s].held = vault[sock[s].key]

LoaderTypeOK ==
    handle \in [Objects -> {"nil", "open", "closed"}] /\ link \subseteq Objects

DatapathInv ==
    /\ TypeOK /\ Wiring /\ QuietFirst /\ RulesFirst /\ PointerHeld
    /\ BenchTraffic /\ CountedOncePerTrigger

-----------------------------------------------------------------------------
LEMMA RoomFact ==
  ASSUME Room, NEW S, S \subseteq Keys, NEW k \in Keys, k \notin S
  PROVE  Cardinality(S) < MaxEntries
  <1>1. IsFiniteSet(Keys) /\ IsFiniteSet(Keys \ {k})
    BY FS_RemoveElement DEF Room
  <1>2. S \subseteq Keys \ {k}
    OBVIOUS
  <1>3. Cardinality(S) <= Cardinality(Keys \ {k}) /\ IsFiniteSet(S)
    BY <1>1, <1>2, FS_Subset
  <1>4. Cardinality(Keys \ {k}) = Cardinality(Keys) - 1
    BY <1>1, FS_RemoveElement
  <1>5. Cardinality(S) \in Nat /\ Cardinality(Keys) \in Nat
    BY <1>1, <1>3, FS_CardinalityType
  <1> QED
    BY <1>3, <1>4, <1>5, DatapathAssumption DEF Room

\* An update keeps the rules of the other tasks where they are, and succeeds
\* while the map is open.
LEMMA RuleWritten ==
  ASSUME TypeOK, Room, NEW k \in Keys, NEW ip \in Workers \cup {Local, None},
         WriteRule(k, ip)
  PROVE  /\ Present \subseteq DOMAIN vault' /\ DOMAIN vault' \subseteq Keys
         /\ \A j \in DOMAIN vault' : vault'[j] \in Elements
         /\ \A i, j \in DOMAIN vault' : vault'[i] = vault'[j] => i = j
         /\ dest' \in [Elements -> Workers \cup {Local, None}]
         /\ handle["vault"] = "open" => k \in DOMAIN vault'
         /\ k \notin Present => \A j \in Present : vault'[j] = vault[j]
  <1>1. CASE UNCHANGED rules /\ (handle["vault"] # "open"
                                \/ ~(k \in Present \/ Cardinality(Present) < MaxEntries))
    <2>1. k \notin Present => Cardinality(Present) < MaxEntries
      BY RoomFact DEF TypeOK
    <2> QED
      BY <1>1, <2>1 DEF rules, TypeOK, Present
  <1>2. ASSUME NEW e \in Free,
               vault' = [j \in Present \cup {k} |-> IF j = k THEN e ELSE vault[j]],
               dest' = [dest EXCEPT ![e] = ip]
        PROVE  /\ Present \subseteq DOMAIN vault' /\ DOMAIN vault' \subseteq Keys
               /\ \A j \in DOMAIN vault' : vault'[j] \in Elements
               /\ \A i, j \in DOMAIN vault' : vault'[i] = vault'[j] => i = j
               /\ dest' \in [Elements -> Workers \cup {Local, None}]
               /\ k \in DOMAIN vault'
               /\ k \notin Present => \A j \in Present : vault'[j] = vault[j]
    <2>1. e \in Elements /\ \A j \in Present : vault[j] # e
      BY <1>2 DEF Free
    <2>2. DOMAIN vault' = Present \cup {k}
      BY <1>2
    <2>3. vault'[k] = e /\ \A j \in Present : j # k => vault'[j] = vault[j]
      BY <1>2
    <2>4. dest' \in [Elements -> Workers \cup {Local, None}]
      BY <1>2, <2>1 DEF TypeOK
    <2> QED
      BY <2>1, <2>2, <2>3, <2>4 DEF TypeOK
  <1> QED
    BY <1>1, <1>2 DEF WriteRule

-----------------------------------------------------------------------------
LEMMA InitInv == Init => DatapathInv
  <1> SUFFICES ASSUME Init
               PROVE  DatapathInv
    OBVIOUS
  <1>1. Triggers = {} /\ \A s \in Sockets : sock[s] = Unused
    BY DEF Init, Triggers
  <1>2. TypeOK
    BY DEF Init, TypeOK, Present, SocketState, Objects
  <1>3. Wiring
    BY DEF Init, Wiring
  <1>4. QuietFirst /\ RulesFirst /\ BenchTraffic
    BY <1>1 DEF Init, QuietFirst, RulesFirst, BenchTraffic
  <1>5. PointerHeld
    BY <1>1 DEF PointerHeld, Unused
  <1>6. CountedOncePerTrigger
    BY DEF Init, CountedOncePerTrigger
  <1> QED
    BY <1>2, <1>3, <1>4, <1>5, <1>6 DEF DatapathInv

\* The loader touches neither rules nor datagrams.
LEMMA LoaderTypes ==
  ASSUME LoaderTypeOK, Loader
  PROVE  /\ LoaderTypeOK'
         /\ UNCHANGED <<prog, rules, sock, bench, counted>>
  <1>1. CASE LoadBPFObjects
    BY <1>1 DEF LoadBPFObjects, LoaderTypeOK
  <1>2. CASE LoadFails
    BY <1>2 DEF LoadFails, LoaderTypeOK, loader
  <1>3. CASE AttachTC
    BY <1>3 DEF AttachTC, LoaderTypeOK, Objects
  <1>4. CASE AttachCgroup
    BY <1>4 DEF AttachCgroup, LoaderTypeOK, Objects
  <1>5. CASE Finish
    BY <1>5 DEF Finish, LoaderTypeOK, loader
  <1>6. CASE DetachTC
    <2>1. UNCHANGED <<prog, rules, sock, bench, counted>>
      BY <1>6 DEF DetachTC
    <2>2. link' \subseteq Objects
      BY <1>6 DEF DetachTC, LoaderTypeOK, loader
    <2>3. handle' \in [Objects -> {"nil", "open", "closed"}]
      BY <1>6 DEF DetachTC, LoaderTypeOK, loader
    <2> QED
      BY <2>1, <2>2, <2>3 DEF LoaderTypeOK
  <1>7. CASE DetachCgroup
    BY <1>7 DEF DetachCgroup, LoaderTypeOK, Objects
  <1>8. CASE Exit
    BY <1>8 DEF Exit, LoaderTypeOK
  <1> QED
    BY <1>1, <1>2, <1>3, <1>4, <1>5, <1>6, <1>7, <1>8 DEF Loader

LEMMA LoaderWiring ==
  ASSUME LoaderTypeOK, Wiring, Loader
  PROVE  Wiring'
  <1> USE DEF Wiring
  <1>1. CASE LoadBPFObjects
    BY <1>1 DEF LoadBPFObjects, Objects, Optional
  <1>2. CASE LoadFails
    BY <1>2 DEF LoadFails, loader
  <1>3. CASE AttachTC
    <2>1. PICK hooks \in {{"ingress"}, {"ingress", "egress"}} :
             link' = link \cup hooks /\ attachedIface' = Remember(hooks)
      BY <1>3 DEF AttachTC
    <2>2. attachedIface' = TRUE
      BY <2>1, Zenon DEF Remember
    <2>3. pc = "attach" /\ prog = "c3_bench" /\ pc' = "run" /\ UNCHANGED <<prog, handle>>
      BY <1>3 DEF AttachTC
    <2>4. link' \subseteq {"ingress", "egress"}
      BY <2>1, <2>3
    <2> QED
      BY <2>2, <2>3, <2>4
  <1>4. CASE AttachCgroup
    BY <1>4 DEF AttachCgroup
  <1>5. CASE Finish
    BY <1>5 DEF Finish, loader
  <1>6. CASE DetachTC
    <2>1. CASE prog = "main"
      BY <1>6, <2>1 DEF DetachTC, DetachesTC, loader
    <2>2. CASE prog = "c3_bench"
      <3>1. attachedIface = TRUE
        BY <1>6, <2>2 DEF DetachTC
      <3>2. link' = {} /\ attachedIface' = FALSE /\ pc' = "ended" /\ prog' = prog
        BY <1>6, <2>2, <3>1 DEF DetachTC, DetachesTC
      <3> QED
        BY <2>2, <3>2
    <2> QED
      BY <2>1, <2>2
  <1>7. CASE DetachCgroup
    BY <1>7 DEF DetachCgroup, LoaderTypeOK, Objects
  <1>8. CASE Exit
    BY <1>8 DEF Exit
  <1> QED
    BY <1>1, <1>2, <1>3, <1>4, <1>5, <1>6, <1>7, <1>8 DEF Loader

\* The ingress hook is attached before the first datagram and never again.
LEMMA LoaderStep ==
  ASSUME DatapathInv, Loader
  PROVE  DatapathInv'
  <1> USE DEF DatapathInv
  <1>0. LoaderTypeOK
    BY DEF TypeOK, LoaderTypeOK
  <1>1. /\ UNCHANGED <<prog, vault, dest, sock, current, waiting, counted>>
        /\ Triggers' = Triggers /\ Present' = Present
    BY <1>0, LoaderTypes DEF rules, bench, Triggers, Present
  <1>2. TypeOK'
    BY <1>0, <1>1, LoaderTypes DEF TypeOK, LoaderTypeOK
  <1>3. Wiring'
    BY <1>0, LoaderWiring
  <1>4. pc' \in {"load", "attach"} => pc \in {"load", "attach"}
    BY DEF Loader, LoadBPFObjects, LoadFails, AttachTC, AttachCgroup, Finish,
           DetachTC, DetachCgroup, Exit
  <1>5. QuietFirst' /\ RulesFirst' /\ PointerHeld' /\ BenchTraffic'
    BY <1>1, <1>4 DEF QuietFirst, RulesFirst, PointerHeld, BenchTraffic
  <1>6. ASSUME prog = "c3_bench", "ingress" \in link'
        PROVE  pc = "attach" \/ "ingress" \in link
    BY <1>6 DEF Loader, LoadBPFObjects, LoadFails, AttachTC, AttachCgroup, Finish,
           DetachTC, DetachCgroup, Exit, loader
  <1>7. CASE pc = "attach"
    <2>1. Triggers = {}
      BY <1>7 DEF QuietFirst, Triggers
    <2>2. \A k \in Keys : counted[k] = 0
      BY <1>7 DEF QuietFirst
    <2> QED
      BY <1>1, <1>2, <1>3, <1>5, <2>1, <2>2, FS_EmptySet DEF CountedOncePerTrigger
  <1>8. CASE pc # "attach"
    BY <1>1, <1>2, <1>3, <1>5, <1>6, <1>8 DEF CountedOncePerTrigger
  <1> QED
    BY <1>7, <1>8

-----------------------------------------------------------------------------
\* One datagram changes

Datagram ==
    [at : Stages \ {"unused"}, by : {"program", "other"}, key : Keys,
     dst : Workers \cup {Local, Service}, port : Keys \cup {0},
     reply : BOOLEAN, held : Elements \cup {None},
     want : Workers \cup {Local, Service}]

\* What a datagram must keep to, with the rules at the places v.
Sound(q, v) ==
    /\ q.by = "program" => q.key \in DOMAIN v
    /\ q.at \in {"connecting", "egressHeld", "ingressHeld"} => q.held \in Elements
    /\ prog = "c3_bench" =>
         /\ q.by = "program" /\ q.port = 0
         /\ q.at # "connecting" /\ q.at # "compute"
         /\ q.at = "ingressHeld" => ~q.reply
         /\ q.at = "done" => q.reply
         /\ q.held # None => q.held = v[q.key]

LEMMA InUse ==
  ASSUME TypeOK, NEW s \in Sockets
  PROVE  /\ sock[s] # Unused => sock[s] \in Datagram
         /\ sock[s].at # "unused" => sock[s] # Unused
  BY DEF TypeOK, SocketState, Datagram, Unused

LEMMA NotUnused ==
  ASSUME NEW q \in Datagram
  PROVE  q # Unused
  <1>1. q.at # "unused"
    BY DEF Datagram
  <1> QED
    BY <1>1 DEF Unused

LEMMA WasSound ==
  ASSUME DatapathInv, NEW s \in Sockets, sock[s] # Unused
  PROVE  Sound(sock[s], vault)
  <1>1. sock[s].by = "program" => sock[s].key \in DOMAIN vault
    BY DEF DatapathInv, RulesFirst, Triggers, Present
  <1>2. sock[s].at \in {"connecting", "egressHeld", "ingressHeld"}
          => sock[s].held \in Elements
    BY DEF DatapathInv, PointerHeld
  <1>3. prog = "c3_bench" =>
         /\ sock[s].by = "program" /\ sock[s].port = 0
         /\ sock[s].at # "connecting" /\ sock[s].at # "compute"
         /\ sock[s].at = "ingressHeld" => ~sock[s].reply
         /\ sock[s].at = "done" => sock[s].reply
         /\ sock[s].held # None => sock[s].held = vault[sock[s].key]
    BY DEF DatapathInv, BenchTraffic
  <1> QED
    BY <1>1, <1>2, <1>3 DEF Sound

\* All of the invariant but the count.
UncountedInv ==
    TypeOK /\ Wiring /\ QuietFirst /\ RulesFirst /\ PointerHeld /\ BenchTraffic

LEMMA OneSocket ==
  ASSUME DatapathInv,
         NEW s \in Sockets, NEW q \in Datagram, sock' = [sock EXCEPT ![s] = q],
         UNCHANGED <<prog, pc, handle, link, attachedIface, current>>,
         pc \notin {"load", "attach"},
         Present \subseteq DOMAIN vault', DOMAIN vault' \subseteq Keys,
         \A j \in DOMAIN vault' : vault'[j] \in Elements,
         \A i, j \in DOMAIN vault' : vault'[i] = vault'[j] => i = j,
         dest' \in [Elements -> Workers \cup {Local, None}],
         prog = "c3_bench" => \A j \in Present : vault'[j] = vault[j],
         waiting' \in Sockets \cup {None}, counted' \in [Keys -> Nat],
         Sound(q, vault')
  PROVE  UncountedInv'
  <1> USE DEF DatapathInv, Present
  <1>1. sock' \in [Sockets -> SocketState] /\ sock'[s] = q
        /\ \A r \in Sockets \ {s} : sock'[r] = sock[r]
    BY DEF TypeOK, SocketState, Datagram
  <1>2. TypeOK'
    BY <1>1 DEF TypeOK
  <1>3. Wiring' /\ QuietFirst'
    BY DEF Wiring, QuietFirst
  <1>4. ASSUME NEW r \in Sockets, sock'[r] # Unused
        PROVE  /\ sock'[r].by = "program" => sock'[r].key \in DOMAIN vault'
               /\ sock'[r].at \in {"connecting", "egressHeld", "ingressHeld"}
                     => sock'[r].held \in Elements
               /\ prog = "c3_bench" =>
                    /\ sock'[r].by = "program" /\ sock'[r].port = 0
                    /\ sock'[r].at # "connecting" /\ sock'[r].at # "compute"
                    /\ sock'[r].at = "ingressHeld" => ~sock'[r].reply
                    /\ sock'[r].at = "done" => sock'[r].reply
                    /\ sock'[r].held # None => sock'[r].held = vault'[sock'[r].key]
    <2>1. CASE r = s
      BY <1>1, <2>1 DEF Sound
    <2>2. CASE r # s
      <3>1. sock'[r] = sock[r] /\ Sound(sock[r], vault)
        BY <1>1, <1>4, <2>2, WasSound
      <3>2. prog = "c3_bench" => sock[r].key \in Present
        BY <3>1 DEF Sound
      <3> QED
        BY <3>1, <3>2 DEF Sound
    <2> QED
      BY <2>1, <2>2
  <1>5. RulesFirst'
    BY <1>4 DEF RulesFirst, Triggers
  <1>6. PointerHeld'
    <2>1. Unused.at = "unused"
      BY DEF Unused
    <2> QED
      BY <1>4, <2>1 DEF PointerHeld
  <1>7. BenchTraffic'
    BY <1>4 DEF BenchTraffic
  <1> QED
    BY <1>2, <1>3, <1>5, <1>6, <1>7 DEF UncountedInv

-----------------------------------------------------------------------------
\* Which triggers have passed the retention

Passed(q, k) == /\ q # Unused /\ q.by = "program"
                /\ q.key = k
                /\ q.reply \/ q.at = "arrived"

LEMMA CountByPassed ==
  /\ CountedOncePerTrigger <=>
       (prog = "c3_bench" /\ "ingress" \in link => \A k \in Keys :
          counted[k] = Cardinality({r \in Sockets : Passed(sock[r], k)}))
  /\ CountedOncePerTrigger' <=>
       (prog' = "c3_bench" /\ "ingress" \in link' => \A k \in Keys :
          counted'[k] = Cardinality({r \in Sockets : Passed(sock'[r], k)}))
  <1>1. ASSUME NEW k \in Keys
        PROVE  {r \in Triggers : sock[r].key = k /\ (sock[r].reply \/ sock[r].at = "arrived")}
                 = {r \in Sockets : Passed(sock[r], k)}
    BY DEF Triggers, Passed
  <1>2. ASSUME NEW k \in Keys
        PROVE  {r \in Triggers' : sock'[r].key = k /\ (sock'[r].reply \/ sock'[r].at = "arrived")}
                 = {r \in Sockets : Passed(sock'[r], k)}
    BY DEF Triggers, Passed
  <1> QED
    BY <1>1, <1>2 DEF CountedOncePerTrigger

LEMMA CountKept ==
  ASSUME TypeOK, CountedOncePerTrigger,
         NEW s \in Sockets, NEW q, sock' = [sock EXCEPT ![s] = q],
         UNCHANGED <<prog, link, counted>>,
         prog = "c3_bench" /\ "ingress" \in link =>
           \A k \in Keys : Passed(q, k) <=> Passed(sock[s], k)
  PROVE  CountedOncePerTrigger'
  <1>1. sock'[s] = q /\ \A r \in Sockets \ {s} : sock'[r] = sock[r]
    BY DEF TypeOK
  <1>2. ASSUME prog = "c3_bench", "ingress" \in link, NEW k \in Keys
        PROVE  {r \in Sockets : Passed(sock'[r], k)} = {r \in Sockets : Passed(sock[r], k)}
    <2>1. ASSUME NEW r \in Sockets
          PROVE  Passed(sock'[r], k) <=> Passed(sock[r], k)
      <3>1. CASE r = s
        BY <1>1, <1>2, <3>1
      <3>2. CASE r # s
        BY <1>1, <3>2
      <3> QED
        BY <3>1, <3>2
    <2> QED
      BY <2>1
  <1> QED
    BY <1>2, CountByPassed

LEMMA CountedUp ==
  ASSUME TypeOK, CountedOncePerTrigger,
         NEW s \in Sockets, NEW q, sock' = [sock EXCEPT ![s] = q],
         UNCHANGED <<prog, link>>,
         NEW j \in Keys, counted' = [counted EXCEPT ![j] = @ + 1],
         prog = "c3_bench" /\ "ingress" \in link =>
           \A k \in Keys : ~Passed(sock[s], k) /\ (Passed(q, k) <=> k = j)
  PROVE  CountedOncePerTrigger'
  <1>1. sock'[s] = q /\ \A r \in Sockets \ {s} : sock'[r] = sock[r]
    BY DEF TypeOK
  <1>2. ASSUME prog = "c3_bench", "ingress" \in link, NEW k \in Keys
        PROVE  counted'[k] = Cardinality({r \in Sockets : Passed(sock'[r], k)})
    <2> DEFINE Before == {r \in Sockets : Passed(sock[r], k)}
               After == {r \in Sockets : Passed(sock'[r], k)}
    <2>1. counted[k] = Cardinality(Before) /\ counted[k] \in Nat
      BY <1>2, CountByPassed DEF TypeOK
    <2>2. IsFiniteSet(Before) /\ s \notin Before
      BY <1>2, FS_Subset, DatapathAssumption
    <2>3. ASSUME NEW r \in Sockets, r # s
          PROVE  r \in After <=> r \in Before
      BY <1>1, <2>3
    <2>4. CASE k = j
      <3>1. s \in After
        BY <1>1, <1>2, <2>4
      <3>2. After = Before \cup {s}
        BY <2>3, <3>1
      <3>3. Cardinality(After) = Cardinality(Before) + 1
        BY <2>2, <3>2, FS_AddElement
      <3>4. counted'[k] = counted[k] + 1
        BY <2>4 DEF TypeOK
      <3> QED
        BY <2>1, <3>3, <3>4
    <2>5. CASE k # j
      <3>1. s \notin After
        BY <1>1, <1>2, <2>5
      <3>2. After = Before
        BY <2>2, <2>3, <3>1
      <3>3. counted'[k] = counted[k]
        BY <2>5 DEF TypeOK
      <3> QED
        BY <2>1, <3>2, <3>3
    <2> QED
      BY <2>4, <2>5
  <1> QED
    BY <1>2, CountByPassed

-----------------------------------------------------------------------------
\* A datagram that is under way moves on; no rule changes.
LEMMA Moved ==
  ASSUME DatapathInv,
         NEW s \in Sockets, sock[s] # Unused \/ link # {},
         NEW q \in Datagram, sock' = [sock EXCEPT ![s] = q],
         UNCHANGED <<prog, pc, loader, rules, current>>,
         waiting' \in Sockets \cup {None}, counted' \in [Keys -> Nat],
         Sound(q, vault)
  PROVE  UncountedInv'
  <1>1. pc \notin {"load", "attach"}
    BY DEF DatapathInv, QuietFirst, Wiring
  <1>2. UNCHANGED <<handle, link, attachedIface, vault, dest>>
    BY DEF loader, rules
  <1>3. \A j \in Present : vault[j] \in Elements
    BY DEF DatapathInv, TypeOK
  <1>4. \A j, k \in Present : vault[j] = vault[k] => j = k
    BY DEF DatapathInv, TypeOK
  <1>5. Present \subseteq Keys /\ dest \in [Elements -> Workers \cup {Local, None}]
    BY DEF DatapathInv, TypeOK
  <1> QED
    BY <1>1, <1>2, <1>3, <1>4, <1>5, OneSocket DEF Present

LEMMA MovedOn ==
  ASSUME DatapathInv,
         NEW s \in Sockets, sock[s] # Unused,
         NEW q \in Datagram, sock' = [sock EXCEPT ![s] = q],
         UNCHANGED <<prog, pc, loader, rules, current, counted>>,
         waiting' \in Sockets \cup {None},
         Sound(q, vault),
         q.by = sock[s].by /\ q.key = sock[s].key,
         prog = "c3_bench" /\ "ingress" \in link =>
           ((q.reply \/ q.at = "arrived") <=> (sock[s].reply \/ sock[s].at = "arrived"))
  PROVE  DatapathInv'
  <1>1. counted' \in [Keys -> Nat] /\ link' = link /\ prog' = prog /\ counted' = counted
    BY DEF DatapathInv, TypeOK, loader
  <1>2. UncountedInv'
    BY <1>1, Moved
  <1>3. q # Unused
    BY NotUnused
  <1>4. ASSUME prog = "c3_bench", "ingress" \in link, NEW k \in Keys
        PROVE  Passed(q, k) <=> Passed(sock[s], k)
    BY <1>3, <1>4 DEF Passed
  <1>5. CountedOncePerTrigger'
    BY <1>1, <1>4, CountKept DEF DatapathInv
  <1> QED
    BY <1>2, <1>5 DEF DatapathInv, UncountedInv

LEMMA ActionSendTrigger ==
  ASSUME DatapathInv, NEW s \in Sockets, SendTrigger(s)
  PROVE  DatapathInv'
  <1> DEFINE p == sock[s]
             q == [p EXCEPT !.at = "egress", !.want = Rerouted(p.key)]
  <1>1. p \in Datagram /\ p # Unused /\ p.at = "compute"
    BY InUse DEF SendTrigger, DatapathInv
  <1>2. sock' = [sock EXCEPT ![s] = q]
    BY DEF SendTrigger
  <1>3. Rerouted(p.key) \in Workers \cup {Local, Service}
    BY DEF Rerouted, DatapathInv, TypeOK
  <1>4. q \in Datagram
    BY <1>1, <1>3 DEF Datagram, Stages
  <1>5. q.by = p.by /\ q.key = p.key /\ q.at = "egress" /\ q.reply = p.reply
        /\ q.held = p.held /\ q.port = p.port
    BY <1>1 DEF Datagram
  <1>6. Sound(p, vault)
    BY <1>1, WasSound
  <1>7. prog # "c3_bench"
    BY <1>1, <1>6 DEF Sound
  <1>8. Sound(q, vault)
    BY <1>5, <1>6, <1>7 DEF Sound
  <1>9. UNCHANGED <<prog, pc, loader, rules, current, counted>>
        /\ waiting' \in Sockets \cup {None}
    BY DEF SendTrigger, bench, DatapathInv, TypeOK
  <1> HIDE DEF q
  <1> QED
    BY <1>1, <1>2, <1>4, <1>5, <1>7, <1>8, <1>9, MovedOn

LEMMA ActionHookPass ==
  ASSUME DatapathInv, NEW s \in Sockets, sock[s] # Unused,
         NEW to \in {"ingress", "arrived"},
         sock' = [sock EXCEPT ![s] = [sock[s] EXCEPT !.at = to]],
         UNCHANGED <<prog, pc, loader, rules, bench, counted>>,
         prog = "c3_bench" /\ "ingress" \in link =>
           ((sock[s].reply \/ to = "arrived") <=> (sock[s].reply \/ sock[s].at = "arrived"))
  PROVE  DatapathInv'
  <1> DEFINE p == sock[s]
             q == [p EXCEPT !.at = to]
  <1>1. p \in Datagram /\ Sound(p, vault)
    BY InUse, WasSound DEF DatapathInv
  <1>2. q \in Datagram
    BY <1>1 DEF Datagram, Stages
  <1>3. q.by = p.by /\ q.key = p.key /\ q.at = to /\ q.reply = p.reply
        /\ q.held = p.held /\ q.port = p.port
    BY <1>1 DEF Datagram
  <1>4. Sound(q, vault)
    BY <1>1, <1>3 DEF Sound
  <1>5. UNCHANGED <<prog, pc, loader, rules, current, counted>>
        /\ waiting' \in Sockets \cup {None}
    BY DEF bench, DatapathInv, TypeOK
  <1>6. sock' = [sock EXCEPT ![s] = q]
    OBVIOUS
  <1>7. prog = "c3_bench" /\ "ingress" \in link =>
           ((q.reply \/ q.at = "arrived") <=> (sock[s].reply \/ sock[s].at = "arrived"))
    BY <1>3
  <1> HIDE DEF q
  <1> QED
    BY <1>2, <1>3, <1>4, <1>5, <1>6, <1>7, MovedOn

LEMMA ActionHookHold ==
  ASSUME DatapathInv, NEW s \in Sockets, sock[s].at \in {"egress", "ingress"},
         NEW to \in {"egressHeld", "ingressHeld"},
         sock[s].key \in Present,
         to = "ingressHeld" => ~sock[s].reply,
         sock' = [sock EXCEPT ![s] = [sock[s] EXCEPT !.at = to, !.held = vault[sock[s].key]]],
         UNCHANGED <<prog, pc, loader, rules, bench, counted>>
  PROVE  DatapathInv'
  <1> DEFINE p == sock[s]
             q == [p EXCEPT !.at = to, !.held = vault[p.key]]
  <1>1. p # Unused /\ p \in Datagram /\ Sound(p, vault)
    BY InUse, WasSound DEF DatapathInv
  <1>2. vault[p.key] \in Elements
    BY DEF DatapathInv, TypeOK
  <1>3. q \in Datagram
    BY <1>1, <1>2 DEF Datagram, Stages
  <1>4. q.by = p.by /\ q.key = p.key /\ q.at = to /\ q.reply = p.reply
        /\ q.held = vault[p.key] /\ q.port = p.port
    BY <1>1 DEF Datagram
  <1>5. Sound(q, vault)
    BY <1>1, <1>2, <1>4 DEF Sound
  <1>6. UNCHANGED <<prog, pc, loader, rules, current, counted>>
        /\ waiting' \in Sockets \cup {None}
    BY DEF bench, DatapathInv, TypeOK
  <1>7. sock' = [sock EXCEPT ![s] = q]
    OBVIOUS
  <1>8. (q.reply \/ q.at = "arrived") <=> (p.reply \/ p.at = "arrived")
    BY <1>4
  <1> HIDE DEF q
  <1> QED
    BY <1>1, <1>3, <1>4, <1>5, <1>6, <1>7, <1>8, MovedOn

LEMMA ActionEgress ==
  ASSUME DatapathInv, NEW s \in Sockets, Egress(s)
  PROVE  DatapathInv'
  <1>1. sock[s].at = "egress" /\ sock[s] # Unused
        /\ UNCHANGED <<prog, pc, loader, rules, bench, counted>>
    BY InUse DEF Egress, Hook, DatapathInv
  <1>2. CASE "egress" \in link /\ EgressMatches(sock[s]) /\ sock[s].key \in Present
    <2>1. sock' = [sock EXCEPT ![s] =
             [sock[s] EXCEPT !.at = "egressHeld", !.held = vault[sock[s].key]]]
      BY <1>2 DEF Egress, Hook
    <2> QED
      BY <1>1, <1>2, <2>1, ActionHookHold
  <1>3. CASE ~("egress" \in link /\ EgressMatches(sock[s]) /\ sock[s].key \in Present)
    <2>1. sock' = [sock EXCEPT ![s] = [sock[s] EXCEPT !.at = "ingress"]]
      BY <1>3 DEF Egress, Hook
    <2> QED
      BY <1>1, <2>1, ActionHookPass
  <1> QED
    BY <1>2, <1>3

\* What the ingress hook lets pass while it is attached is a reply.
LEMMA ActionIngress ==
  ASSUME DatapathInv, NEW s \in Sockets, Ingress(s)
  PROVE  DatapathInv'
  <1>1. sock[s].at = "ingress" /\ sock[s] # Unused
        /\ UNCHANGED <<prog, pc, loader, rules, bench, counted>>
    BY InUse DEF Ingress, Hook, DatapathInv
  <1>2. CASE "ingress" \in link /\ IngressMatches(sock[s]) /\ sock[s].key \in Present
    <2>1. sock' = [sock EXCEPT ![s] =
             [sock[s] EXCEPT !.at = "ingressHeld", !.held = vault[sock[s].key]]]
      BY <1>2 DEF Ingress, Hook
    <2>2. ~sock[s].reply
      BY <1>2 DEF IngressMatches
    <2> QED
      BY <1>1, <1>2, <2>1, <2>2, ActionHookHold
  <1>3. CASE ~("ingress" \in link /\ IngressMatches(sock[s]) /\ sock[s].key \in Present)
    <2>1. sock' = [sock EXCEPT ![s] = [sock[s] EXCEPT !.at = "arrived"]]
      BY <1>3 DEF Ingress, Hook
    <2>2. Sound(sock[s], vault)
      BY <1>1, WasSound
    <2>3. prog = "c3_bench" /\ "ingress" \in link => sock[s].reply
      BY <1>3, <2>2 DEF Sound, IngressMatches, Present
    <2> QED
      BY <1>1, <2>1, <2>3, ActionHookPass
  <1> QED
    BY <1>2, <1>3

LEMMA RewrittenType ==
  ASSUME DatapathInv, NEW s \in Sockets, sock[s] \in Datagram,
         sock[s].at \in {"egressHeld", "ingressHeld"}
  PROVE  Rewritten(sock[s]) \in Workers \cup {Local, Service}
  <1>1. sock[s].held \in Elements
    BY DEF DatapathInv, PointerHeld
  <1>2. dest[sock[s].held] \in Workers \cup {Local, None}
    BY <1>1 DEF DatapathInv, TypeOK
  <1>3. sock[s].dst \in Workers \cup {Local, Service}
    BY DEF Datagram
  <1> QED
    BY <1>2, <1>3 DEF Rewritten

LEMMA ActionEgressRewrite ==
  ASSUME DatapathInv, NEW s \in Sockets, EgressRewrite(s)
  PROVE  DatapathInv'
  <1> DEFINE p == sock[s]
             q == [p EXCEPT !.at = "ingress", !.held = None, !.dst = Rewritten(p)]
  <1>1. p # Unused /\ p \in Datagram /\ Sound(p, vault) /\ p.at = "egressHeld"
    BY InUse, WasSound DEF DatapathInv, EgressRewrite
  <1>2. sock' = [sock EXCEPT ![s] = q]
    BY DEF EgressRewrite
  <1>3. q \in Datagram
    BY <1>1, RewrittenType DEF Datagram, Stages
  <1>4. q.by = p.by /\ q.key = p.key /\ q.at = "ingress" /\ q.reply = p.reply
        /\ q.held = None /\ q.port = p.port
    BY <1>1 DEF Datagram
  <1>5. Sound(q, vault)
    BY <1>1, <1>4 DEF Sound
  <1>6. UNCHANGED <<prog, pc, loader, rules, current, counted>>
        /\ waiting' \in Sockets \cup {None}
    BY DEF EgressRewrite, bench, DatapathInv, TypeOK
  <1>7. (q.reply \/ q.at = "arrived") <=> (p.reply \/ p.at = "arrived")
    BY <1>1, <1>4
  <1> HIDE DEF q
  <1> QED
    BY <1>1, <1>2, <1>3, <1>4, <1>5, <1>6, <1>7, MovedOn

\* Step 10 is passed: the trigger counts from now on.
LEMMA ActionIngressRewrite ==
  ASSUME DatapathInv, NEW s \in Sockets, IngressRewrite(s)
  PROVE  DatapathInv'
  <1> DEFINE p == sock[s]
             q == [p EXCEPT !.at = "arrived", !.held = None, !.dst = Rewritten(p)]
  <1>1. p # Unused /\ p \in Datagram /\ Sound(p, vault) /\ p.at = "ingressHeld"
    BY InUse, WasSound DEF DatapathInv, IngressRewrite
  <1>2. sock' = [sock EXCEPT ![s] = q]
    BY DEF IngressRewrite
  <1>3. q \in Datagram
    BY <1>1, RewrittenType DEF Datagram, Stages
  <1>4. q.by = p.by /\ q.key = p.key /\ q.at = "arrived" /\ q.reply = p.reply
        /\ q.held = None /\ q.port = p.port
    BY <1>1 DEF Datagram
  <1>5. Sound(q, vault)
    BY <1>1, <1>4 DEF Sound
  <1>6. p.key \in Keys /\ counted' = [counted EXCEPT ![p.key] = @ + 1]
    BY <1>1 DEF IngressRewrite, Datagram
  <1>7. UNCHANGED <<prog, pc, loader, rules, current>> /\ link' = link
        /\ waiting' \in Sockets \cup {None} /\ counted' \in [Keys -> Nat]
    BY <1>6 DEF IngressRewrite, bench, loader, DatapathInv, TypeOK
  <1>8. q # Unused
    BY <1>3, NotUnused
  <1> HIDE DEF q
  <1>9. UncountedInv'
    BY <1>1, <1>2, <1>3, <1>5, <1>7, Moved
  <1>10. ASSUME prog = "c3_bench", NEW k \in Keys
         PROVE  ~Passed(p, k) /\ (Passed(q, k) <=> k = p.key)
    <2>1. p.by = "program" /\ ~p.reply
      BY <1>1, <1>10 DEF Sound
    <2>2. ~Passed(p, k)
      BY <1>1, <2>1 DEF Passed
    <2>3. Passed(q, k) <=> k = p.key
      BY <1>4, <1>8, <2>1 DEF Passed
    <2> QED
      BY <2>2, <2>3
  <1>11. CountedOncePerTrigger'
    BY <1>2, <1>6, <1>7, <1>10, CountedUp DEF DatapathInv
  <1> QED
    BY <1>9, <1>11 DEF DatapathInv, UncountedInv

LEMMA ActionEcho ==
  ASSUME DatapathInv, NEW s \in Sockets, Echo(s)
  PROVE  DatapathInv'
  <1> DEFINE p == sock[s]
             q == [p EXCEPT !.at = "egress", !.reply = TRUE]
  <1>1. p # Unused /\ p \in Datagram /\ Sound(p, vault) /\ p.at = "arrived"
    BY InUse, WasSound DEF DatapathInv, Echo
  <1>2. sock' = [sock EXCEPT ![s] = q]
    BY DEF Echo
  <1>3. q \in Datagram
    BY <1>1 DEF Datagram, Stages
  <1>4. q.by = p.by /\ q.key = p.key /\ q.at = "egress"
        /\ q.held = p.held /\ q.port = p.port
    BY <1>1 DEF Datagram
  <1>5. q.reply
    BY <1>1 DEF Datagram
  <1>6. Sound(q, vault)
    BY <1>1, <1>4 DEF Sound
  <1>7. UNCHANGED <<prog, pc, loader, rules, current, counted>>
        /\ waiting' \in Sockets \cup {None}
    BY DEF Echo, bench, DatapathInv, TypeOK
  <1>8. (q.reply \/ q.at = "arrived") <=> (p.reply \/ p.at = "arrived")
    BY <1>1, <1>5
  <1> HIDE DEF q
  <1> QED
    BY <1>1, <1>2, <1>3, <1>4, <1>6, <1>7, <1>8, MovedOn

LEMMA ActionAcknowledge ==
  ASSUME DatapathInv, NEW s \in Sockets, Acknowledge(s)
  PROVE  DatapathInv'
  <1> DEFINE p == sock[s]
             q == [p EXCEPT !.at = "done"]
  <1>1. p # Unused /\ p \in Datagram /\ Sound(p, vault) /\ p.at = "arrived" /\ p.reply
    BY InUse, WasSound DEF DatapathInv, Acknowledge
  <1>2. sock' = [sock EXCEPT ![s] = q]
    BY DEF Acknowledge
  <1>3. q \in Datagram
    BY <1>1 DEF Datagram, Stages
  <1>4. q.by = p.by /\ q.key = p.key /\ q.at = "done" /\ q.reply = p.reply
        /\ q.held = p.held /\ q.port = p.port
    BY <1>1 DEF Datagram
  <1>5. q.reply
    BY <1>1, <1>4
  <1>6. Sound(q, vault)
    BY <1>1, <1>4, <1>5 DEF Sound
  <1>7. UNCHANGED <<prog, pc, loader, rules, current, counted>>
        /\ waiting' \in Sockets \cup {None}
    BY DEF Acknowledge, DatapathInv, TypeOK
  <1>8. (q.reply \/ q.at = "arrived") <=> (p.reply \/ p.at = "arrived")
    BY <1>1, <1>5
  <1> HIDE DEF q
  <1> QED
    BY <1>1, <1>2, <1>3, <1>4, <1>6, <1>7, <1>8, MovedOn

\* Only with main.go is there a connect4 hook.
LEMMA ActionConnect4 ==
  ASSUME DatapathInv, NEW s \in Sockets, Connect4(s)
  PROVE  DatapathInv'
  <1> DEFINE p == sock[s]
             ip == dest[p.held]
             q == IF ip = None THEN [p EXCEPT !.at = "arrived"]
                  ELSE [p EXCEPT !.at = "arrived", !.dst = ip, !.port = 0]
  <1>1. p # Unused /\ p \in Datagram /\ Sound(p, vault) /\ p.at = "connecting"
    BY InUse, WasSound DEF DatapathInv, Connect4
  <1>2. sock' = [sock EXCEPT ![s] = q]
    BY DEF Connect4
  <1>3. p.held \in Elements /\ prog # "c3_bench"
    BY <1>1 DEF Sound
  <1>4. ip \in Workers \cup {Local, None}
    BY <1>3 DEF DatapathInv, TypeOK
  <1>5. q \in Datagram
    <2>1. CASE ip = None
      BY <1>1, <2>1 DEF Datagram, Stages
    <2>2. CASE ip # None
      BY <1>1, <1>4, <2>2 DEF Datagram, Stages
    <2> QED
      BY <2>1, <2>2
  <1>6. q.by = p.by /\ q.key = p.key /\ q.at = "arrived"
    <2>1. CASE ip = None
      BY <1>1, <2>1 DEF Datagram
    <2>2. CASE ip # None
      BY <1>1, <2>2 DEF Datagram
    <2> QED
      BY <2>1, <2>2
  <1>7. Sound(q, vault)
    BY <1>1, <1>3, <1>6 DEF Sound
  <1>8. UNCHANGED <<prog, pc, loader, rules, current, counted>>
        /\ waiting' \in Sockets \cup {None}
    BY DEF Connect4, bench, DatapathInv, TypeOK
  <1> HIDE DEF q
  <1> QED
    BY <1>1, <1>2, <1>3, <1>5, <1>6, <1>7, <1>8, MovedOn

-----------------------------------------------------------------------------
\* New datagrams and rules

LEMMA NotYetPassed ==
  ASSUME NEW s \in Sockets, sock[s] = Unused, NEW k
  PROVE  ~Passed(sock[s], k)
  BY DEF Passed

LEMMA ActionSendBenchTrigger ==
  ASSUME DatapathInv, NEW s \in Sockets, SendBenchTrigger(s)
  PROVE  DatapathInv'
  <1> DEFINE q == Socket("egress", "program", current, Local, 0)
  <1>1. sock[s] = Unused /\ sock' = [sock EXCEPT ![s] = q] /\ waiting' = s
        /\ prog = "c3_bench" /\ pc = "run" /\ current # None
        /\ UNCHANGED <<prog, pc, loader, rules, current, counted>>
    BY DEF SendBenchTrigger
  <1>2. current \in Keys /\ current \in Present
    BY <1>1 DEF DatapathInv, TypeOK, RulesFirst
  <1>3. q \in Datagram /\ q.at = "egress" /\ q.by = "program" /\ q.key = current
        /\ q.port = 0 /\ q.held = None /\ ~q.reply
    BY <1>2 DEF Socket, Datagram, Stages
  <1>4. counted' \in [Keys -> Nat] /\ link' = link /\ counted' = counted
    BY <1>1 DEF DatapathInv, TypeOK, loader
  <1> HIDE DEF q
  <1>5. Sound(q, vault)
    BY <1>2, <1>3 DEF Sound, Present
  <1>6. Present \subseteq Keys /\ (\A j \in Present : vault[j] \in Elements)
        /\ (\A i, j \in Present : vault[i] = vault[j] => i = j)
        /\ dest \in [Elements -> Workers \cup {Local, None}]
    BY DEF DatapathInv, TypeOK
  <1>7. UncountedInv'
    BY <1>1, <1>3, <1>4, <1>5, <1>6, OneSocket DEF loader, rules, Present
  <1>8. \A k \in Keys : Passed(q, k) <=> Passed(sock[s], k)
    BY <1>1, <1>3, NotYetPassed DEF Passed
  <1>9. CountedOncePerTrigger'
    BY <1>1, <1>4, <1>8, CountKept DEF DatapathInv
  <1> QED
    BY <1>7, <1>9 DEF DatapathInv, UncountedInv

\* Another process connects: main.go's hook is attached.
LEMMA ActionConnect ==
  ASSUME DatapathInv, NEW s \in Sockets, NEW k \in Keys, Connect(s, k)
  PROVE  DatapathInv'
  <1> DEFINE taken == k < PortRange /\ k \in Present
             q == IF taken
                  THEN [Socket("connecting", "other", k, Service, k)
                           EXCEPT !.held = vault[k]]
                  ELSE Socket("arrived", "other", k, Service, k)
  <1>1. sock[s] = Unused /\ sock' = [sock EXCEPT ![s] = q] /\ "connect4" \in link
        /\ UNCHANGED <<prog, pc, loader, rules, bench, counted>>
    BY DEF Connect
  <1>2. prog # "c3_bench"
    BY <1>1 DEF DatapathInv, Wiring
  <1>3. q \in Datagram /\ q.by = "other" /\ (q.at = "connecting" => q.held \in Elements)
        /\ q.at \in {"connecting", "arrived"}
    <2>1. CASE taken
      <3>1. vault[k] \in Elements
        BY <2>1 DEF DatapathInv, TypeOK
      <3>2. Socket("connecting", "other", k, Service, k) \in Datagram
            /\ Socket("connecting", "other", k, Service, k).at = "connecting"
            /\ Socket("connecting", "other", k, Service, k).by = "other"
        BY DEF Socket, Datagram, Stages
      <3> QED
        BY <2>1, <3>1, <3>2 DEF Datagram
    <2>2. CASE ~taken
      <3>1. Socket("arrived", "other", k, Service, k) \in Datagram
            /\ Socket("arrived", "other", k, Service, k).at = "arrived"
            /\ Socket("arrived", "other", k, Service, k).by = "other"
        BY DEF Socket, Datagram, Stages
      <3> QED
        BY <2>2, <3>1
    <2> QED
      BY <2>1, <2>2
  <1> HIDE DEF q
  <1>4. Sound(q, vault)
    BY <1>2, <1>3 DEF Sound
  <1>5. waiting' \in Sockets \cup {None} /\ counted' \in [Keys -> Nat]
        /\ link' = link /\ counted' = counted /\ current' = current
    BY <1>1 DEF DatapathInv, TypeOK, loader, bench
  <1>6. UncountedInv'
    BY <1>1, <1>3, <1>4, <1>5, Moved
  <1>7. CountedOncePerTrigger'
    BY <1>1, <1>2, <1>5, CountKept DEF DatapathInv
  <1> QED
    BY <1>6, <1>7 DEF DatapathInv, UncountedInv

\* main.go writes rules as long as its tasks run, which vault_map outlives.
LEMMA ActionDispatch ==
  ASSUME DatapathInv, Room, NEW s \in Sockets, NEW k \in Keys,
         NEW ip \in Workers \cup {None}, Dispatch(s, k, ip)
  PROVE  DatapathInv'
  <1> DEFINE q == Socket("compute", "program", k, Service, k)
  <1>1. prog = "main" /\ Running /\ sock[s] = Unused
        /\ sock' = [sock EXCEPT ![s] = q] /\ WriteRule(k, ip)
        /\ UNCHANGED <<prog, pc, loader, bench, counted>>
    BY DEF Dispatch
  <1>2. handle["vault"] = "open" /\ pc \notin {"load", "attach"}
    BY <1>1 DEF DatapathInv, Wiring, Running
  <1>3. q \in Datagram /\ q.at = "compute" /\ q.by = "program" /\ q.key = k
        /\ q.held = None
    BY DEF Socket, Datagram, Stages
  <1>4. /\ Present \subseteq DOMAIN vault' /\ DOMAIN vault' \subseteq Keys
        /\ \A j \in DOMAIN vault' : vault'[j] \in Elements
        /\ \A i, j \in DOMAIN vault' : vault'[i] = vault'[j] => i = j
        /\ dest' \in [Elements -> Workers \cup {Local, None}]
        /\ k \in DOMAIN vault'
    BY <1>1, <1>2, RuleWritten DEF DatapathInv
  <1> HIDE DEF q
  <1>5. Sound(q, vault')
    BY <1>1, <1>3, <1>4 DEF Sound
  <1>6. waiting' \in Sockets \cup {None} /\ counted' \in [Keys -> Nat]
        /\ UNCHANGED <<handle, link, attachedIface, counted, current>>
    BY <1>1 DEF DatapathInv, TypeOK, loader, bench
  <1>7. UncountedInv'
    BY <1>1, <1>2, <1>3, <1>4, <1>5, <1>6, OneSocket
  <1>8. CountedOncePerTrigger'
    BY <1>1, <1>6, CountKept DEF DatapathInv
  <1> QED
    BY <1>7, <1>8 DEF DatapathInv, UncountedInv

\* c3_bench takes a fresh id, so that no rule moves.
LEMMA ActionProgramRule ==
  ASSUME DatapathInv, Room, NEW k \in Keys, ProgramRule(k)
  PROVE  DatapathInv'
  <1>1. prog = "c3_bench" /\ pc = "run" /\ k \notin Present
        /\ WriteRule(k, Local) /\ current' = k
        /\ UNCHANGED <<prog, pc, handle, link, attachedIface, sock, waiting, counted>>
    BY DEF ProgramRule, FreshId, loader
  <1>2. /\ Present \subseteq DOMAIN vault' /\ DOMAIN vault' \subseteq Keys
        /\ \A j \in DOMAIN vault' : vault'[j] \in Elements
        /\ \A i, j \in DOMAIN vault' : vault'[i] = vault'[j] => i = j
        /\ dest' \in [Elements -> Workers \cup {Local, None}]
        /\ k \in DOMAIN vault'
        /\ \A j \in Present : vault'[j] = vault[j]
    BY <1>1, RuleWritten DEF DatapathInv, Wiring
  <1>3. TypeOK'
    BY <1>1, <1>2 DEF DatapathInv, TypeOK, Present
  <1>4. Wiring' /\ QuietFirst' /\ PointerHeld' /\ CountedOncePerTrigger'
    BY <1>1 DEF DatapathInv, Wiring, QuietFirst, PointerHeld,
                CountedOncePerTrigger, Triggers
  <1>5. RulesFirst'
    BY <1>1, <1>2 DEF DatapathInv, RulesFirst, Triggers, Present
  <1>6. BenchTraffic'
    <2>1. \A s \in Sockets : sock[s] # Unused =>
             sock[s].by = "program" /\ sock[s].key \in Present
      BY <1>1 DEF DatapathInv, BenchTraffic, RulesFirst, Triggers
    <2> QED
      BY <1>1, <1>2, <2>1 DEF DatapathInv, BenchTraffic
  <1> QED
    BY <1>3, <1>4, <1>5, <1>6 DEF DatapathInv

LEMMA Unaffected ==
  ASSUME DatapathInv,
         UNCHANGED <<prog, pc, loader, rules, sock, current, counted>>,
         waiting' \in Sockets \cup {None}
  PROVE  DatapathInv'
  <1> USE DEF DatapathInv, loader, rules, Present
  <1>1. TypeOK'
    BY DEF TypeOK
  <1>2. Wiring' /\ QuietFirst' /\ RulesFirst'
    BY DEF Wiring, QuietFirst, RulesFirst, Triggers
  <1>3. PointerHeld' /\ BenchTraffic' /\ CountedOncePerTrigger'
    BY DEF PointerHeld, BenchTraffic, CountedOncePerTrigger, Triggers
  <1> QED
    BY <1>1, <1>2, <1>3

LEMMA DatapathStep ==
  ASSUME DatapathInv, Room, [Next]_vars
  PROVE  DatapathInv'
  <1>1. CASE Loader
    BY <1>1, LoaderStep
  <1>2. CASE Timeout
    BY <1>2, Unaffected DEF Timeout
  <1>3. CASE \E k \in Keys : ProgramRule(k)
    BY <1>3, ActionProgramRule
  <1>4. ASSUME NEW s \in Sockets, Traffic(s)
        PROVE  DatapathInv'
    <2>1. CASE SendTrigger(s) \/ SendBenchTrigger(s)
      BY <2>1, ActionSendTrigger, ActionSendBenchTrigger
    <2>2. CASE Egress(s) \/ EgressRewrite(s) \/ Ingress(s) \/ IngressRewrite(s)
      BY <2>2, ActionEgress, ActionEgressRewrite, ActionIngress, ActionIngressRewrite
    <2>3. CASE Echo(s) \/ Acknowledge(s) \/ Connect4(s)
      BY <2>3, ActionEcho, ActionAcknowledge, ActionConnect4
    <2>4. CASE \E k \in Keys : Connect(s, k)
      BY <2>4, ActionConnect
    <2>5. CASE \E k \in Keys : \E ip \in Workers \cup {None} : Dispatch(s, k, ip)
      BY <2>5, ActionDispatch
    <2> QED
      BY <1>4, <2>1, <2>2, <2>3, <2>4, <2>5 DEF Traffic
  <1>5. CASE UNCHANGED vars
    BY <1>5, Unaffected DEF vars, bench, DatapathInv, TypeOK
  <1> QED
    BY <1>1, <1>2, <1>3, <1>4, <1>5 DEF Next

-----------------------------------------------------------------------------
\* The wiring of the hooks, the rules and the datagrams stay in step through
\* every handler of the two programs and of the kernel.
THEOREM DatapathInvariant == Room => (Spec => []DatapathInv)
  <1> SUFFICES ASSUME Room
               PROVE  Spec => []DatapathInv
    OBVIOUS
  <1>1. DatapathInv /\ [Next]_vars => DatapathInv'
    BY DatapathStep
  <1> QED
    BY <1>1, InitInv, PTL DEF Spec

\* The types, the injectivity of vault_map's elements among them.
THEOREM DatapathTypeCorrect == Room => (Spec => []TypeOK)
  <1> SUFFICES ASSUME Room
               PROVE  Spec => []TypeOK
    OBVIOUS
  <1>1. DatapathInv => TypeOK
    BY DEF DatapathInv
  <1> QED
    BY <1>1, DatapathInvariant, PTL

\* No trigger of either program leaves before the kernel has a rule for its
\* task, not even while main.go takes its hooks down around running tasks.
THEOREM RuleComesFirst == Room => (Spec => []RuleBeforeTrigger)
  <1> SUFFICES ASSUME Room
               PROVE  Spec => []RuleBeforeTrigger
    OBVIOUS
  <1>1. DatapathInv => RuleBeforeTrigger
    BY DEF DatapathInv, RulesFirst, RuleBeforeTrigger
  <1> QED
    BY <1>1, DatapathInvariant, PTL

\* c3_bench's late triggers still read their own tasks' rules in the hooks.
THEOREM RuleStaysOwn == Room => (Spec => []RuleReadIsOwn)
  <1> SUFFICES ASSUME Room
               PROVE  Spec => []RuleReadIsOwn
    OBVIOUS
  <1>1. DatapathInv => RuleReadIsOwn
    BY DEF DatapathInv, BenchTraffic, RuleReadIsOwn, Triggers
  <1> QED
    BY <1>1, DatapathInvariant, PTL

\* c3_bench's triggers pass step 10 once each, the echoed replies never.
THEOREM CountedOnce == Room => (Spec => []CountedOncePerTrigger)
  <1> SUFFICES ASSUME Room
               PROVE  Spec => []CountedOncePerTrigger
    OBVIOUS
  <1>1. DatapathInv => CountedOncePerTrigger
    BY DEF DatapathInv
  <1> QED
    BY <1>1, DatapathInvariant, PTL

\* The datagrams and the rules do not touch the loader.
LEMMA WiringStep ==
  ASSUME LoaderTypeOK, Wiring, [Next]_vars
  PROVE  LoaderTypeOK' /\ Wiring'
  <1>1. CASE Loader
    BY <1>1, LoaderTypes, LoaderWiring
  <1>2. CASE UNCHANGED <<prog, pc, loader>>
    BY <1>2 DEF LoaderTypeOK, Wiring, loader
  <1>3. CASE Timeout \/ \E k \in Keys : ProgramRule(k)
    BY <1>2, <1>3 DEF Timeout, ProgramRule
  <1>4. ASSUME NEW s \in Sockets, Traffic(s)
        PROVE  LoaderTypeOK' /\ Wiring'
    BY <1>2, <1>4 DEF Traffic, SendTrigger, SendBenchTrigger, Egress, Ingress,
           Hook, EgressRewrite, IngressRewrite, Echo, Acknowledge, Connect4,
           Connect, Dispatch
  <1>5. CASE UNCHANGED vars
    BY <1>2, <1>5 DEF vars
  <1> QED
    BY <1>1, <1>3, <1>4, <1>5 DEF Next

\* The deferred DetachTC and DetachCgroup take every hook down, whatever
\* AttachTC and AttachCgroup managed to attach, with room in the map or not.
THEOREM HooksTakenDown == Spec => []NoHookLeft
  <1>1. Init => LoaderTypeOK /\ Wiring
    BY DEF Init, LoaderTypeOK, Wiring
  <1>2. LoaderTypeOK /\ Wiring /\ [Next]_vars => LoaderTypeOK' /\ Wiring'
    BY WiringStep
  <1>3. LoaderTypeOK /\ Wiring => NoHookLeft
    BY DEF Wiring, NoHookLeft
  <1> QED
    BY <1>1, <1>2, <1>3, PTL DEF Spec
=============================================================================
