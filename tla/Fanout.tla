------------------------------- MODULE Fanout --------------------------------
(***************************************************************************)
(* The fan-out in the kernel (internal/ebpf/c/fanout.c) and the bench that *)
(* drives it (cmd/path2_bench): one trigger datagram to port 9000 becomes  *)
(* one clone for every consumer of its task, at port 9001.  The clones are *)
(* injected into the ingress of the loopback, where they meet the same     *)
(* program again.                                                          *)
(*                                                                         *)
(* The bench sends and drains; the kernel takes the datagrams on the       *)
(* loopback one by one, in any order and as late as it likes.  A consumer  *)
(* is the number i of its address 127.0.0.{1+i}.  The sysctl that lets the *)
(* clones in (accept_local) is taken to have succeeded.  How many          *)
(* datagrams a drain got is only printed.                                  *)
(***************************************************************************)
EXTENDS Integers, Sequences, FiniteSets

CONSTANTS
    Degrees,   \* the fan-outs of the sweep
    Reps,      \* --reps
    MaxFanout, \* MAX_FANOUT_P2
    MaxLate    \* bound: datagrams on their way when the next send is made

ASSUME FanoutAssumption ==
    /\ Degrees \in Seq(Nat \ {0})
    /\ \A k \in DOMAIN Degrees : Degrees[k] <= MaxFanout
    /\ Reps \in Nat \ {0} /\ MaxFanout \in Nat /\ MaxLate \in Nat

VARIABLES
    degree,     \* index of the fan-out measured now
    arm,        \* "setup", "kernel" or "app"
    rep,        \* repetition
    reading,    \* consumer to be drained next; 0: about to send
    fanoutMap,  \* fanout_map: task -> number of consumers
    sockets,    \* datagrams queued at each consumer socket that is open
    wire,       \* datagrams on their way through the loopback
    sent,       \* ghost: sends of this degree
    got         \* ghost: datagrams of this degree each consumer was given

bench == <<degree, arm, rep, reading>>
fanoutVars == <<bench, fanoutMap, sockets, wire, sent, got>>

\* What one send, or one clone of it, carries; dst 0 is 127.0.0.1.
Datagram(port, dst, copy) ==
    [port |-> port, dst |-> dst, task |-> degree, arm |-> arm, rep |-> rep,
     copy |-> copy]

Closed == [c \in {} |-> 0]

FanoutInit ==
    /\ degree = 1 /\ arm = "setup" /\ rep = 1 /\ reading = 0
    /\ fanoutMap = Closed /\ sockets = Closed
    /\ wire = {}
    /\ sent = 0 /\ got = Closed

-----------------------------------------------------------------------------
\* path2_bench

\* The consumers' sockets are bound and the rule is put.
OpenDegree ==
    /\ arm = "setup" /\ degree <= Len(Degrees)
    /\ sockets' = [c \in 1..Degrees[degree] |-> 0]
    /\ fanoutMap' = [t \in {degree} |-> Degrees[degree]]
    /\ arm' = "kernel" /\ rep' = 1 /\ reading' = 0
    /\ sent' = 0
    /\ got' = [c \in 1..Degrees[degree] |-> 0]
    /\ UNCHANGED <<degree, wire>>

\* One send to the trigger port, or one to every consumer.
Send ==
    /\ arm # "setup" /\ reading = 0
    /\ Cardinality(wire) <= MaxLate
    /\ wire' = wire \cup
         IF arm = "kernel" THEN {Datagram(9000, 0, FALSE)}
         ELSE {Datagram(9001, c, FALSE) : c \in DOMAIN sockets}
    /\ sent' = sent + 1
    /\ reading' = 1
    /\ UNCHANGED <<degree, arm, rep, fanoutMap, sockets, got>>

\* drain reads one datagram of each socket, or gives up after 5 ms.
DrainOne ==
    /\ reading \in DOMAIN sockets
    /\ sockets' = [sockets EXCEPT ![reading] = IF @ > 0 THEN @ - 1 ELSE 0]
    /\ reading' = reading + 1
    /\ UNCHANGED <<degree, arm, rep, fanoutMap, wire, sent, got>>

EndRep ==
    /\ reading > Cardinality(DOMAIN sockets)
    /\ reading' = 0
    /\ \/ rep < Reps /\ rep' = rep + 1 /\ arm' = arm
       \/ rep = Reps /\ arm = "kernel" /\ rep' = 1 /\ arm' = "app"
    /\ UNCHANGED <<degree, fanoutMap, sockets, wire, sent, got>>

CloseDegree ==
    /\ reading > Cardinality(DOMAIN sockets)
    /\ rep = Reps /\ arm = "app"
    /\ arm' = "setup" /\ degree' = degree + 1 /\ rep' = 1 /\ reading' = 0
    /\ sockets' = Closed /\ fanoutMap' = Closed
    /\ UNCHANGED <<wire, sent, got>>

\* The process ends; what is on its way to its sockets is dropped.
FanoutGone ==
    /\ degree' = 1 /\ arm' = "setup" /\ rep' = 1 /\ reading' = 0
    /\ fanoutMap' = Closed /\ sockets' = Closed
    /\ wire' = {}
    /\ sent' = 0 /\ got' = Closed

-----------------------------------------------------------------------------
\* The kernel takes a datagram from the loopback

\* dpls_fanout acts on triggers of a task with a rule; everything else passes.
IsTrigger(d) == d.port = 9000 /\ d.task \in DOMAIN fanoutMap

\* Variants: the clones keep the trigger's port; the original goes on, after
\* its last clone.
ClonesOnTriggerPort(d) ==
    {[d EXCEPT !.dst = c, !.copy = TRUE] :
        c \in 1..MaxFanout \cap 1..fanoutMap[d.task]}

ClonesAndOriginal(d) ==
    {[d EXCEPT !.port = 9001, !.dst = c, !.copy = TRUE] :
        c \in 1..MaxFanout \cap 1..fanoutMap[d.task]}
    \cup {[d EXCEPT !.port = 9001, !.dst = fanoutMap[d.task]]}

\* One clone for each consumer, at the consumer port; TC_ACT_SHOT drops the
\* original.
Clones(d) ==
    {[d EXCEPT !.port = 9001, !.dst = c, !.copy = TRUE] :
        c \in 1..MaxFanout \cap 1..fanoutMap[d.task]}

\* One step: the program reads the rule while it clones, and the bench writes a
\* rule before the first trigger and deletes it after the last drain.  Only a
\* trigger of an earlier degree could meet another rule in its place.
FanOut(d) ==
    /\ IsTrigger(d)
    /\ wire' = (wire \ {d}) \cup Clones(d)
    /\ UNCHANGED <<bench, fanoutMap, sockets, sent, got>>

\* To the socket at its address, if one is open.
Deliver(d) ==
    /\ ~IsTrigger(d)
    /\ wire' = wire \ {d}
    /\ IF d.port = 9001 /\ d.dst \in DOMAIN sockets
       THEN /\ sockets' = [sockets EXCEPT ![d.dst] = @ + 1]
            /\ got' = IF d.task = degree THEN [got EXCEPT ![d.dst] = @ + 1]
                                         ELSE got
       ELSE UNCHANGED <<sockets, got>>
    /\ UNCHANGED <<bench, fanoutMap, sent>>

Kernel == \E d \in wire : FanOut(d) \/ Deliver(d)

BenchStep == OpenDegree \/ Send \/ DrainOne \/ EndRep \/ CloseDegree

Finished == degree > Len(Degrees)

-----------------------------------------------------------------------------
\* Properties

\* path2_bench: "the fan-out really happens".  Once nothing is on its way, each
\* consumer has been given exactly one datagram for every send, whether the
\* bench sent it directly or the kernel cloned it, and however late.
EveryConsumerServed ==
    wire = {} => \A c \in DOMAIN sockets : got[c] = sent

\* fanout.c: "no infinite fan-out", although every clone meets the hook again.
FanoutSettles == []<>(wire = {})
=============================================================================
