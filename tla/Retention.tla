------------------------------ MODULE Retention ------------------------------
(***************************************************************************)
(* The fan-out retention of dpls_tc_ingress (internal/ebpf/c/tc_bridge.c,  *)
(* step 10): the producer's trigger stores the payload of a task in        *)
(* retention_map with a count of ref_count consumers, every later trigger  *)
(* of the same task counts one down, and the one that reaches 0 deletes    *)
(* the entry.                                                              *)
(*                                                                         *)
(* The program runs on several CPUs at once.  Its steps are its map calls, *)
(* each atomic in the kernel: a lookup, which returns a pointer into the   *)
(* preallocated elements of the hash map; an insertion that must not find  *)
(* the key (BPF_NOEXIST) and fails when no element is free; a decrement    *)
(* under the entry's spin lock; a deletion by key.  A deleted element goes *)
(* to the free list at once, so that a pointer from an earlier lookup may  *)
(* by then belong to another task.                                         *)
(*                                                                         *)
(* A trigger of a task is numbered by its sender: 0 is the producer, i > 0 *)
(* the i-th consumer.  The program does not see the number.                *)
(*                                                                         *)
(* Who sends when is a discipline of the environment, one for a behaviour: *)
(*   "ordered"  the consumers of a task send when the producer's trigger   *)
(*              was handled, as in c3_bench while answers come within      *)
(*              50 ms, and nothing is lost;                                *)
(*   "serial"   triggers come in any order, lost or repeated ones among    *)
(*              them, but one CPU at a time handles them;                  *)
(*   "free"     triggers come in any order, on any CPU.                    *)
(***************************************************************************)
EXTENDS Integers, FiniteSets

CONSTANTS
    Keys,       \* numeric task ids with a rule in vault_map
    RefCount,   \* RefCount[k]: ref_count of the rule of k
    CPUs,
    Elements,   \* elements of retention_map (4096 in the code)
    Word,       \* remaining_consumers wraps at Word (2^32 in the code)
    Disciplines,
    MaxRounds,  \* bound: how often a task is run
    MaxLost,    \* bound: triggers lost on the way
    MaxDup      \* bound: triggers that arrive twice

ASSUME RetentionAssumption ==
    /\ IsFiniteSet(CPUs) /\ IsFiniteSet(Elements)
    /\ Word \in Nat \ {0} /\ RefCount \in [Keys -> Nat]
    /\ \A k \in Keys : RefCount[k] < Word
    /\ Disciplines \subseteq {"ordered", "serial", "free"}
    /\ MaxRounds \in Nat \ {0} /\ MaxLost \in Nat /\ MaxDup \in Nat

Senders(k) == 0..RefCount[k]
Consumers(k) == 1..RefCount[k]

VARIABLES
    where,      \* the map: key -> element, for the keys present
    remaining,  \* remaining_consumers of every element
    cpu,        \* what each CPU is doing
    sent,       \* senders of k whose trigger has left, in this round
    served,     \* consumers of k that were counted down, in this round
    discipline,
    round, lost, dup  \* spent bounds

bounds == <<discipline, round, lost, dup>>
env == <<sent, served, bounds>>
vars == <<where, remaining, cpu, env>>

Idle == [pc |-> "idle"]
At(pc, k, who) == [pc |-> pc, key |-> k, who |-> who]
Serving(k, who, e) == [pc |-> "serve", key |-> k, who |-> who, held |-> e]

CPUState ==
    {Idle} \cup [pc : {"lookup", "store", "delete"}, key : Keys, who : Nat]
           \cup [pc : {"serve"}, key : Keys, who : Nat, held : Elements]

Busy(k) == {c \in CPUs : cpu[c].pc # "idle" /\ cpu[c].key = k}
Present == DOMAIN where
Free == Elements \ {where[k] : k \in Present}

Init ==
    /\ where = [k \in {} |-> 0]
    /\ remaining = [e \in Elements |-> 0]
    /\ cpu = [c \in CPUs |-> Idle]
    /\ sent = [k \in Keys |-> {}]
    /\ served = [k \in Keys |-> {}]
    /\ discipline \in Disciplines
    /\ round = [k \in Keys |-> 1]
    /\ lost = 0
    /\ dup = 0

-----------------------------------------------------------------------------
\* The senders and the network

\* c3_bench's consumers wait for the ACK to the producer's trigger.  After 50 ms
\* they do without it: "ordered" leaves that case to the other disciplines.
MaySend(k, who) ==
    /\ who \in Senders(k) \ sent[k]
    /\ discipline = "ordered" /\ who # 0
          => 0 \in sent[k] /\ (sent[k] = {0} => Busy(k) = {})

Takes(c) ==
    /\ cpu[c] = Idle
    /\ discipline = "serial" => \A b \in CPUs : cpu[b] = Idle

Arrive(c, k, who) ==
    /\ Takes(c)
    /\ MaySend(k, who)
    /\ sent' = [sent EXCEPT ![k] = @ \cup {who}]
    /\ cpu' = [cpu EXCEPT ![c] = At("lookup", k, who)]
    /\ UNCHANGED <<where, remaining, served, bounds>>

Lose(k, who) ==
    /\ discipline # "ordered"
    /\ lost < MaxLost
    /\ MaySend(k, who)
    /\ sent' = [sent EXCEPT ![k] = @ \cup {who}]
    /\ lost' = lost + 1
    /\ UNCHANGED <<where, remaining, cpu, served, discipline, round, dup>>

Duplicate(c, k, who) ==
    /\ discipline # "ordered"
    /\ dup < MaxDup
    /\ Takes(c)
    /\ who \in sent[k]
    /\ dup' = dup + 1
    /\ cpu' = [cpu EXCEPT ![c] = At("lookup", k, who)]
    /\ UNCHANGED <<where, remaining, sent, served, discipline, round, lost>>

\* All triggers of k have been handled.
Settled(k) == sent[k] = Senders(k) /\ Busy(k) = {}

\* The numeric id comes again, as main.go's do.  c3_bench takes fresh ids: each
\* of its tasks has one round.
NextRound(k) ==
    /\ round[k] < MaxRounds
    /\ Settled(k)
    /\ sent' = [sent EXCEPT ![k] = {}]
    /\ served' = [served EXCEPT ![k] = {}]
    /\ round' = [round EXCEPT ![k] = @ + 1]
    /\ UNCHANGED <<where, remaining, cpu, discipline, lost, dup>>

-----------------------------------------------------------------------------
\* dpls_tc_ingress on one CPU

\* if (rule->ref_count > 1), then the lookup in retention_map.
Lookup(c) ==
    /\ cpu[c].pc = "lookup"
    /\ LET k == cpu[c].key IN
         cpu' = [cpu EXCEPT ![c] =
            CASE RefCount[k] <= 1 -> Idle
              [] RefCount[k] > 1 /\ k \in Present ->
                   Serving(k, @.who, where[k])
              [] OTHER -> At("store", k, @.who)]
    /\ UNCHANGED <<where, remaining, env>>

\* Variants: the producer is counted as well, or one consumer too few.
CountProducerToo(k) == RefCount[k] + 1
CountOneLess(k) == RefCount[k] - 1

\* .remaining_consumers = rule->ref_count
InitialCount(k) == RefCount[k]

\* bpf_map_update_elem(BPF_NOEXIST); its result is not looked at.
Store(c) ==
    /\ cpu[c].pc = "store"
    /\ LET k == cpu[c].key IN
         IF k \in Present \/ Free = {}
         THEN UNCHANGED <<where, remaining>>
         ELSE \E e \in Free :
                /\ where' = [j \in Present \cup {k} |->
                               IF j = k THEN e ELSE where[j]]
                /\ remaining' = [remaining EXCEPT ![e] = InitialCount(k)]
    /\ cpu' = [cpu EXCEPT ![c] = Idle]
    /\ UNCHANGED env

\* Variant: decremented once when read and once when written back.
CountDownTwice(n) == n - 2

CountDown(n) == (n + Word - 1) % Word

\* The decrement between bpf_spin_lock and bpf_spin_unlock, and the test of
\* the value it left.
Serve(c) ==
    /\ cpu[c].pc = "serve"
    /\ LET k == cpu[c].key
           e == cpu[c].held
           left == CountDown(remaining[e])
       IN /\ remaining' = [remaining EXCEPT ![e] = left]
          /\ cpu' = [cpu EXCEPT ![c] = IF left = 0 THEN At("delete", k, @.who)
                                                   ELSE Idle]
          /\ served' = [served EXCEPT ![k] = @ \cup {cpu[c].who}]
    /\ UNCHANGED <<where, sent, bounds>>

\* bpf_map_delete_elem: by key, whatever element the key has now.
Delete(c) ==
    /\ cpu[c].pc = "delete"
    /\ where' = [k \in Present \ {cpu[c].key} |-> where[k]]
    /\ cpu' = [cpu EXCEPT ![c] = Idle]
    /\ UNCHANGED <<remaining, env>>

Ingress(c) == Lookup(c) \/ Store(c) \/ Serve(c) \/ Delete(c)

Next ==
    \/ \E k \in Keys : \E who \in Senders(k) :
         Lose(k, who) \/ \E c \in CPUs : Arrive(c, k, who) \/ Duplicate(c, k, who)
    \/ \E k \in Keys : NextRound(k)
    \/ \E c \in CPUs : Ingress(c)

Spec == Init /\ [][Next]_vars

-----------------------------------------------------------------------------
\* Properties

\* Every variable keeps to the values the kernel's map and the bounds give it.
TypeOK ==
    /\ Present \subseteq Keys
    /\ \A k \in Present : where[k] \in Elements
    /\ remaining \in [Elements -> 0..Word-1]
    /\ cpu \in [CPUs -> CPUState]
    /\ \A c \in CPUs : cpu[c] # Idle => cpu[c].who \in Senders(cpu[c].key)
    /\ {sent, served} \subseteq [Keys -> SUBSET Nat]
    /\ \A k \in Keys : sent[k] \subseteq Senders(k) /\ served[k] \subseteq sent[k]
    /\ discipline \in Disciplines
    /\ round \in [Keys -> 1..MaxRounds]
    /\ lost \in 0..MaxLost /\ dup \in 0..MaxDup

\* README: "no premature eviction".  An entry leaves the map only when every
\* consumer of its task has been counted down.
NoPrematureEviction ==
    [][discipline = "ordered" =>
         \A k \in Present : k \notin DOMAIN where' => Consumers(k) \subseteq served[k]]_vars

\* README: "no leaks".  When all the triggers of a task have been handled and
\* none was lost or repeated, its entry is gone, whichever came first.
NoLeak ==
    lost = 0 /\ dup = 0 => \A k \in Keys : Settled(k) => k \notin Present

\* A CPU that is about to count down does it on the entry of its own task: the
\* element it looked up has not been freed, or reused, since.
HeldIsOwnEntry ==
    \A c \in CPUs : cpu[c].pc = "serve" =>
        /\ cpu[c].key \in Present
        /\ cpu[c].held = where[cpu[c].key]

\* The count in an entry is the number of consumers still to be served.
CountIsUnserved ==
    discipline = "ordered" => \A k \in Present :
        remaining[where[k]] = Cardinality(Consumers(k) \ served[k])

\* Whatever is lost, repeated or out of order, no entry is counted below 0, and
\* one counted down to 0 is about to be deleted.
CountInRange ==
    \A k \in Present :
        /\ remaining[where[k]] \in 0..RefCount[k]
        /\ remaining[where[k]] = 0 =>
              \E c \in Busy(k) : cpu[c].pc = "delete"
=============================================================================
