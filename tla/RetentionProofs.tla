--------------------------- MODULE RetentionProofs ---------------------------
(***************************************************************************)
(* The retention of dpls_tc_ingress neither leaks nor evicts too early,    *)
(* for any tasks, fan-outs and CPUs, as long as the triggers keep to one   *)
(* of the disciplines "ordered" and "serial" and every retained task finds *)
(* an element.                                                             *)
(***************************************************************************)
EXTENDS Retention, FiniteSetTheorems, TLAPS

Retained == {k \in Keys : RefCount[k] > 1}

\* Retained tasks are at most as many as the elements of retention_map.
Room == IsFiniteSet(Retained) /\ Cardinality(Retained) <= Cardinality(Elements)

Disciplined == Disciplines \subseteq {"ordered", "serial"}

Pending(c, k) == cpu[c].pc \in {"lookup", "store", "serve"} /\ cpu[c].key = k
Deleting(c, k) == cpu[c].pc = "delete" /\ cpu[c].key = k

\* The triggers of k that dpls_tc_ingress has counted, in this round.
Handled(k) ==
    {who \in sent[k] : \A c \in CPUs : Pending(c, k) => cpu[c].who # who}

OnlyRetained ==
    /\ Present \subseteq Retained
    /\ \A c \in CPUs : cpu[c].pc \in {"store", "serve", "delete"} =>
                       cpu[c].key \in Retained

OwnElements ==
    \A j, k \in Present : where[j] = where[k] => j = k

OneCPU == \A b, c \in CPUs : cpu[b].pc # "idle" /\ cpu[c].pc # "idle" => b = c

Discipline ==
    /\ discipline \in {"ordered", "serial"}
    /\ discipline = "serial" => OneCPU
    /\ discipline = "ordered" => lost = 0 /\ dup = 0

BusyIsSent ==
    \A c \in CPUs : cpu[c].pc # "idle" => cpu[c].who \in sent[cpu[c].key]

\* No trigger is on two CPUs, unless one was repeated.
OneTriggerOneCPU ==
    dup = 0 => \A b, c \in CPUs :
        /\ cpu[b].pc # "idle" /\ cpu[c].pc # "idle"
        /\ cpu[b].key = cpu[c].key /\ cpu[b].who = cpu[c].who
        => b = c

\* The entry of k, as long as every trigger is handled once.
EntryMatches(k) ==
    /\ k \in Present <=>
         /\ Handled(k) # {}
         /\ Handled(k) # Senders(k) \/ \E c \in CPUs : Deleting(c, k)
    /\ k \in Present =>
         remaining[where[k]] = Cardinality(Senders(k) \ Handled(k))
    /\ \A c \in CPUs : Deleting(c, k) => Handled(k) = Senders(k)
    /\ \A b, c \in CPUs : Deleting(b, k) /\ Deleting(c, k) => b = c
    /\ \A c \in CPUs : cpu[c].pc = "store" /\ cpu[c].key = k => Handled(k) = {}

\* The producer first; then the consumers counted are the consumers served.
ProducerFirst ==
    discipline = "ordered" => \A k \in Keys :
        /\ 0 \notin sent[k] => sent[k] = {}
        /\ ~(sent[k] \subseteq {0}) => 0 \in Handled(k)
        /\ k \in Retained => served[k] = Handled(k) \ {0}

RetentionInv ==
    /\ TypeOK /\ OnlyRetained /\ OwnElements
    /\ Discipline /\ BusyIsSent /\ OneTriggerOneCPU
    /\ HeldIsOwnEntry /\ CountInRange /\ ProducerFirst
    /\ lost = 0 /\ dup = 0 => \A k \in Retained : EntryMatches(k)

-----------------------------------------------------------------------------
\* Lemmas about the operators

\* The lock-protected decrement wraps only below 0.
LEMMA CountDownIs ==
  ASSUME NEW n \in 0..Word-1
  PROVE  /\ CountDown(n) \in 0..Word-1
         /\ n > 0 => CountDown(n) = n - 1
  <1>1. Word \in Nat \ {0} /\ n \in Nat
    BY RetentionAssumption
  <1>2. CountDown(n) \in 0..Word-1
    BY <1>1 DEF CountDown
  <1>3. ASSUME n > 0 PROVE CountDown(n) = n - 1
    <2>1. n + Word - 1 = 1 * Word + (n - 1) /\ 0 <= n - 1 /\ n - 1 < Word
      BY <1>1, <1>3
    <2> QED
      BY <1>1, <2>1, SMTT(60) DEF CountDown
  <1> QED
    BY <1>2, <1>3

\* What a CPU may be doing.
LEMMA CPUStates ==
  ASSUME TypeOK, NEW c \in CPUs
  PROVE  /\ cpu[c].pc \in {"idle", "lookup", "store", "serve", "delete"}
         /\ cpu[c].pc = "idle" <=> cpu[c] = Idle
         /\ cpu[c].pc # "idle" => /\ cpu[c].key \in Keys
                                  /\ cpu[c].who \in Senders(cpu[c].key)
         /\ cpu[c].pc = "serve" => cpu[c].held \in Elements
  BY DEF TypeOK, CPUState, Idle

LEMMA NewStates ==
  ASSUME NEW k \in Keys, NEW who \in Senders(k)
  PROVE  /\ Idle \in CPUState
         /\ \A pc \in {"lookup", "store", "delete"} : At(pc, k, who) \in CPUState
         /\ \A e \in Elements : Serving(k, who, e) \in CPUState
  BY RetentionAssumption DEF CPUState, At, Serving, Senders

\* A retained task without an entry finds a free element.
LEMMA RoomForOneMore ==
  ASSUME Room, TypeOK, OnlyRetained, NEW k \in Retained, k \notin Present
  PROVE  Free # {}
  <1>1. IsFiniteSet(Retained \ {k}) /\ Cardinality(Retained \ {k}) < Cardinality(Elements)
    <2>1. /\ IsFiniteSet(Retained \ {k})
          /\ Cardinality(Retained \ {k}) = Cardinality(Retained) - 1
      BY FS_RemoveElement DEF Room
    <2>2. Cardinality(Retained) \in Nat /\ Cardinality(Elements) \in Nat
      BY FS_CardinalityType, RetentionAssumption DEF Room
    <2> QED
      BY <2>1, <2>2 DEF Room
  <1>2. Present \subseteq Retained \ {k}
    BY DEF OnlyRetained
  <1>3. IsFiniteSet(Present) /\ Cardinality(Present) <= Cardinality(Retained \ {k})
    BY <1>1, <1>2, FS_Subset
  <1>4. ASSUME Free = {} PROVE FALSE
    <2> DEFINE f == [j \in Present |-> where[j]]
    <2>1. f \in Surjection(Present, Elements)
      <3>1. \A j \in Present : where[j] \in Elements
        BY DEF TypeOK
      <3> QED
        BY <1>4, <3>1 DEF Free, Surjection
    <2>2. Cardinality(Elements) <= Cardinality(Present)
      BY <1>3, <2>1, FS_Surjection
    <2>3. /\ Cardinality(Elements) \in Nat /\ Cardinality(Present) \in Nat
          /\ Cardinality(Retained \ {k}) \in Nat
      BY <1>1, <1>3, FS_CardinalityType, RetentionAssumption
    <2> QED
      BY <1>1, <1>3, <2>2, <2>3
  <1> QED
    BY <1>4

\* Counting the senders that are still to come.
LEMMA SendersLeft ==
  ASSUME NEW k \in Keys, NEW H \in SUBSET Senders(k)
  PROVE  /\ Cardinality(Senders(k) \ H) \in 0..RefCount[k]+1
         /\ Cardinality(Senders(k) \ H) = 0 <=> H = Senders(k)
         /\ H # {} => Cardinality(Senders(k) \ H) <= RefCount[k]
         /\ \A who \in Senders(k) \ H :
              Cardinality(Senders(k) \ (H \cup {who}))
                = Cardinality(Senders(k) \ H) - 1
  <1>1. RefCount[k] \in Nat
    BY RetentionAssumption
  <1>2. /\ IsFiniteSet(Senders(k))
        /\ Cardinality(Senders(k)) = RefCount[k] + 1
    <2> DEFINE n == RefCount[k]
    <2>1. n \in Nat
      BY <1>1
    <2> HIDE DEF n
    <2>2. IsFiniteSet(0..n) /\ Cardinality(0..n) = n + 1
      BY <2>1, FS_Interval
    <2> QED
      BY <2>2 DEF n, Senders
  <1>3. /\ IsFiniteSet(Senders(k) \ H)
        /\ Cardinality(Senders(k) \ H) <= RefCount[k] + 1
    BY <1>2, FS_Subset
  <1>4. Cardinality(Senders(k) \ H) \in Nat
    BY <1>3, FS_CardinalityType
  <1>5. Cardinality(Senders(k) \ H) = 0 <=> H = Senders(k)
    BY <1>3, FS_EmptySet
  <1>6. ASSUME H # {} PROVE Cardinality(Senders(k) \ H) <= RefCount[k]
    <2>1. PICK h \in Senders(k) : h \in H
      BY <1>6
    <2>2. /\ IsFiniteSet(Senders(k) \ {h})
          /\ Cardinality(Senders(k) \ {h}) = Cardinality(Senders(k)) - 1
      BY <1>2, FS_RemoveElement
    <2>3. Senders(k) \ H \in SUBSET (Senders(k) \ {h})
      BY <2>1
    <2>4. Cardinality(Senders(k) \ H) <= Cardinality(Senders(k) \ {h})
      BY <2>2, <2>3, FS_Subset
    <2> QED
      BY <1>1, <1>2, <2>2, <2>4
  <1>7. ASSUME NEW who \in Senders(k) \ H
        PROVE  Cardinality(Senders(k) \ (H \cup {who}))
                 = Cardinality(Senders(k) \ H) - 1
    <2> DEFINE R == Senders(k) \ H
    <2>1. Senders(k) \ (H \cup {who}) = R \ {who}
      OBVIOUS
    <2>2. IsFiniteSet(R) /\ who \in R
      BY <1>3
    <2> HIDE DEF R
    <2>3. Cardinality(R \ {who}) = Cardinality(R) - 1
      BY <2>2, FS_RemoveElement
    <2> QED
      BY <2>1, <2>3 DEF R
  <1>8. Cardinality(Senders(k) \ H) \in 0..RefCount[k]+1
    BY <1>1, <1>3, <1>4
  <1> QED
    BY <1>5, <1>6, <1>7, <1>8

-----------------------------------------------------------------------------
\* Lemmas about the invariant

\* What a step does not touch stays as it was.
LEMMA Untouched ==
  ASSUME NEW j \in Keys,
         \A b \in CPUs : \/ cpu'[b] = cpu[b]
                         \/ /\ cpu[b].pc = "idle" \/ cpu[b].key # j
                            /\ cpu'[b].pc = "idle" \/ cpu'[b].key # j,
         sent'[j] = sent[j]
  PROVE  /\ Handled(j)' = Handled(j)
         /\ /\ j \in Present <=> j \in Present'
            /\ j \in Present => /\ where'[j] = where[j]
                                /\ remaining'[where[j]] = remaining[where[j]]
            /\ EntryMatches(j)
            => EntryMatches(j)'
  <1>1. \A b \in CPUs : /\ Pending(b, j)' <=> Pending(b, j)
                        /\ Deleting(b, j)' <=> Deleting(b, j)
                        /\ Pending(b, j) => cpu'[b] = cpu[b]
                        /\ cpu'[b].pc = "store" /\ cpu'[b].key = j
                             => cpu[b].pc = "store" /\ cpu[b].key = j
    BY DEF Pending, Deleting
  <1>2. Handled(j)' = Handled(j)
    BY <1>1 DEF Handled
  <1> QED
    BY <1>1, <1>2 DEF EntryMatches

\* The trigger that a CPU works on is not handled yet.
LEMMA PendingNotHandled ==
  ASSUME NEW k \in Keys, NEW c \in CPUs, Pending(c, k)
  PROVE  cpu[c].who \notin Handled(k)
  BY DEF Handled

\* Until a trigger of k is handled, one CPU at most works on k.
LEMMA FirstIsAlone ==
  ASSUME Discipline, BusyIsSent, OneTriggerOneCPU, ProducerFirst, dup = 0,
         NEW k \in Keys, Handled(k) = {},
         NEW b \in CPUs, NEW c \in CPUs, Pending(b, k), Pending(c, k)
  PROVE  b = c
  <1>1. CASE discipline = "serial"
    BY <1>1 DEF Discipline, OneCPU, Pending
  <1>2. CASE discipline = "ordered"
    <2>1. sent[k] \subseteq {0}
      BY <1>2 DEF ProducerFirst
    <2>2. cpu[b].who = 0 /\ cpu[c].who = 0
      BY <2>1 DEF BusyIsSent, Pending
    <2> QED
      BY <2>2 DEF OneTriggerOneCPU, Pending
  <1> QED
    BY <1>1, <1>2 DEF Discipline

\* While a CPU works on a trigger of k, none deletes the entry of k.
LEMMA PendingNotDeleting ==
  ASSUME RetentionInv, NEW b \in CPUs, NEW c \in CPUs, NEW k \in Retained,
         Pending(b, k), Deleting(c, k)
  PROVE  FALSE
  <1>1. CASE discipline = "serial"
    BY <1>1 DEF RetentionInv, Discipline, OneCPU, Pending, Deleting
  <1>2. CASE discipline = "ordered"
    <2>1. Handled(k) = Senders(k)
      BY <1>2 DEF RetentionInv, Discipline, EntryMatches
    <2>2. cpu[b].who \in Senders(k)
      BY CPUStates DEF RetentionInv, Pending
    <2> QED
      BY <2>1, <2>2, PendingNotHandled DEF Retained
  <1> QED
    BY <1>1, <1>2 DEF RetentionInv, Discipline

LEMMA HandledAreSenders ==
  ASSUME TypeOK, NEW k \in Keys
  PROVE  Handled(k) \in SUBSET Senders(k)
  BY DEF TypeOK, Handled

LEMMA RetentionStart == Disciplined /\ Init => RetentionInv
  <1> SUFFICES ASSUME Disciplined, Init PROVE RetentionInv
    OBVIOUS
  <1>1. \A c \in CPUs : cpu[c] = Idle /\ cpu[c].pc = "idle"
    BY DEF Init, Idle
  <1>2. Present = {}
    BY DEF Init, Present
  <1>3. TypeOK
    BY <1>1, <1>2, RetentionAssumption DEF Init, TypeOK, CPUState
  <1>4. OnlyRetained /\ OwnElements /\ HeldIsOwnEntry /\ CountInRange
    BY <1>1, <1>2 DEF OnlyRetained, OwnElements, HeldIsOwnEntry, CountInRange
  <1>5. Discipline /\ BusyIsSent /\ OneTriggerOneCPU
    BY <1>1 DEF Init, Disciplined, Discipline, OneCPU, BusyIsSent,
       OneTriggerOneCPU
  <1>6. \A k \in Keys : Handled(k) = {}
    BY DEF Init, Handled
  <1>7. ProducerFirst
    BY <1>6 DEF Init, ProducerFirst, Retained
  <1>8. \A k \in Retained : EntryMatches(k)
    BY <1>1, <1>2, <1>6 DEF EntryMatches, Deleting, Retained
  <1> QED
    BY <1>3, <1>4, <1>5, <1>7, <1>8 DEF RetentionInv

-----------------------------------------------------------------------------
\* The senders and the network keep the invariant

LEMMA ArriveKeeps ==
  ASSUME RetentionInv, NEW c \in CPUs, NEW k \in Keys, NEW who \in Senders(k),
         Arrive(c, k, who)
  PROVE  RetentionInv'
  <1> USE DEF RetentionInv
  <1>1. /\ cpu[c].pc = "idle" /\ cpu' = [cpu EXCEPT ![c] = At("lookup", k, who)]
        /\ sent' = [sent EXCEPT ![k] = @ \cup {who}]
        /\ UNCHANGED <<where, remaining, served, bounds>>
    BY DEF Arrive, Takes, Idle
  <1>2. /\ cpu'[c].pc = "lookup" /\ cpu'[c].key = k /\ cpu'[c].who = who
        /\ \A b \in CPUs \ {c} : cpu'[b] = cpu[b]
    BY <1>1 DEF TypeOK, At
  <1>3. /\ who \notin sent[k] /\ sent'[k] = sent[k] \cup {who}
        /\ \A j \in Keys \ {k} : sent'[j] = sent[j]
    <2>1. sent \in [Keys -> SUBSET Nat]
      BY DEF TypeOK
    <2> QED
      BY <1>1, <2>1 DEF Arrive, MaySend
  <1>a. TypeOK'
    <2>1. cpu' \in [CPUs -> CPUState]
      BY <1>1, NewStates DEF TypeOK
    <2>2. \A b \in CPUs : cpu'[b] # Idle => cpu'[b].who \in Senders(cpu'[b].key)
      BY <1>2 DEF TypeOK
    <2>3. \A j \in Keys : sent'[j] \subseteq Senders(j) /\ served'[j] \subseteq sent'[j]
      BY <1>1, <1>3 DEF TypeOK
    <2>4. sent' \in [Keys -> SUBSET Nat]
      BY <1>1, RetentionAssumption DEF TypeOK, Senders
    <2> QED
      BY <1>1, <2>1, <2>2, <2>3, <2>4 DEF TypeOK, Present, bounds
  <1>b. OnlyRetained' /\ OwnElements'
    BY <1>1, <1>2 DEF OnlyRetained, OwnElements, Present
  <1>c. Discipline'
    <2>1. discipline = "serial" => \A b \in CPUs : cpu[b].pc = "idle"
      BY DEF Arrive, Takes, Idle
    <2> QED
      BY <1>1, <1>2, <2>1 DEF Discipline, OneCPU, bounds
  <1>d. BusyIsSent'
    BY <1>2, <1>3, CPUStates DEF BusyIsSent
  <1>e. OneTriggerOneCPU'
    BY <1>1, <1>2, <1>3 DEF OneTriggerOneCPU, BusyIsSent, bounds
  <1>f. HeldIsOwnEntry' /\ CountInRange'
    <2>1. HeldIsOwnEntry'
      BY <1>1, <1>2 DEF HeldIsOwnEntry, Present
    <2>2. \A j \in Keys : \A b \in Busy(j) : b \in Busy(j)' /\ cpu'[b] = cpu[b]
      BY <1>1, <1>2 DEF Busy
    <2> QED
      BY <1>1, <2>1, <2>2 DEF CountInRange, Present, TypeOK
  <1>4. \A j \in Keys : Handled(j)' = Handled(j)
    <2>1. ASSUME NEW j \in Keys, j # k PROVE Handled(j)' = Handled(j)
      BY <1>1, <1>2, <1>3, <2>1, Untouched
    <2>2. Handled(k)' = Handled(k)
      BY <1>1, <1>2, <1>3 DEF Handled, Pending
    <2> QED
      BY <2>1, <2>2
  <1>g. ProducerFirst'
    <2> SUFFICES ASSUME discipline = "ordered", NEW j \in Keys
                 PROVE  /\ 0 \notin sent'[j] => sent'[j] = {}
                        /\ ~(sent'[j] \subseteq {0}) => 0 \in Handled(j)
                        /\ j \in Retained => served'[j] = Handled(j) \ {0}
      BY <1>1, <1>4 DEF ProducerFirst, bounds
    <2>1. CASE j # k
      BY <1>1, <1>3, <2>1 DEF ProducerFirst
    <2>2. CASE j = k
      <3>1. who # 0 => 0 \in sent[k] /\ (sent[k] = {0} => Busy(k) = {})
        BY DEF Arrive, MaySend
      <3>2. sent[k] = {0} /\ Busy(k) = {} => 0 \in Handled(k)
        BY DEF Handled, Busy, Pending
      <3> QED
        BY <1>1, <1>3, <2>2, <3>1, <3>2 DEF ProducerFirst
    <2> QED
      BY <2>1, <2>2
  <1>h. ASSUME lost' = 0, dup' = 0, NEW j \in Retained PROVE EntryMatches(j)'
    <2>1. EntryMatches(j) /\ Handled(j)' = Handled(j) /\ j \in Keys
      BY <1>1, <1>4, <1>h DEF Retained, bounds
    <2>2. \A b \in CPUs : /\ Deleting(b, j)' <=> Deleting(b, j)
                          /\ cpu'[b].pc = "store" /\ cpu'[b].key = j
                               => cpu[b].pc = "store" /\ cpu[b].key = j
      BY <1>1, <1>2 DEF Deleting
    <2> QED
      BY <1>1, <2>1, <2>2 DEF EntryMatches, Present
  <1> QED
    BY <1>a, <1>b, <1>c, <1>d, <1>e, <1>f, <1>g, <1>h

LEMMA DuplicateKeeps ==
  ASSUME RetentionInv, NEW c \in CPUs, NEW k \in Keys, NEW who \in Senders(k),
         Duplicate(c, k, who)
  PROVE  RetentionInv'
  <1> USE DEF RetentionInv
  <1>1. /\ discipline = "serial" /\ \A b \in CPUs : cpu[b].pc = "idle"
        /\ who \in sent[k] /\ dup < MaxDup /\ dup' = dup + 1
        /\ cpu' = [cpu EXCEPT ![c] = At("lookup", k, who)]
        /\ UNCHANGED <<where, remaining, sent, served, discipline, round, lost>>
    BY DEF Duplicate, Takes, Idle, Discipline
  <1>2. /\ cpu'[c].pc = "lookup" /\ cpu'[c].key = k /\ cpu'[c].who = who
        /\ \A b \in CPUs \ {c} : cpu'[b].pc = "idle" /\ cpu'[b] = cpu[b]
    BY <1>1 DEF TypeOK, At
  <1>3. dup' \in 1..MaxDup
    BY <1>1, RetentionAssumption DEF TypeOK
  <1>a. TypeOK'
    <2>1. cpu' \in [CPUs -> CPUState]
      BY <1>1, NewStates DEF TypeOK
    <2>2. \A b \in CPUs : cpu'[b] # Idle => cpu'[b].who \in Senders(cpu'[b].key)
      BY <1>2 DEF TypeOK
    <2> QED
      BY <1>1, <1>3, <2>1, <2>2 DEF TypeOK, Present
  <1>b. OnlyRetained' /\ OwnElements'
    BY <1>1, <1>2 DEF OnlyRetained, OwnElements, Present
  <1>c. Discipline' /\ BusyIsSent'
    BY <1>1, <1>2 DEF Discipline, OneCPU, BusyIsSent
  <1>d. OneTriggerOneCPU' /\ ~(lost' = 0 /\ dup' = 0)
    BY <1>3 DEF OneTriggerOneCPU
  <1>e. HeldIsOwnEntry' /\ CountInRange'
    <2>1. \A j \in Keys : Busy(j) = {}
      BY <1>1 DEF Busy
    <2>2. HeldIsOwnEntry'
      BY <1>1, <1>2 DEF HeldIsOwnEntry
    <2>3. CountInRange'
      BY <1>1, <2>1 DEF CountInRange, Present, TypeOK
    <2> QED
      BY <2>2, <2>3
  <1>f. ProducerFirst'
    BY <1>1 DEF ProducerFirst
  <1> QED
    BY <1>a, <1>b, <1>c, <1>d, <1>e, <1>f

LEMMA LoseKeeps ==
  ASSUME RetentionInv, NEW k \in Keys, NEW who \in Senders(k), Lose(k, who)
  PROVE  RetentionInv'
  <1> USE DEF RetentionInv
  <1>1. /\ discipline = "serial" /\ lost < MaxLost /\ lost' = lost + 1
        /\ sent' = [sent EXCEPT ![k] = @ \cup {who}]
        /\ UNCHANGED <<where, remaining, cpu, served, discipline, round, dup>>
    BY DEF Lose, Discipline
  <1>2. lost' \in 1..MaxLost
    BY <1>1, RetentionAssumption DEF TypeOK
  <1>3. \A j \in Keys : sent[j] \subseteq sent'[j] /\ sent'[j] \subseteq Senders(j)
    <2>1. sent \in [Keys -> SUBSET Nat]
      BY DEF TypeOK
    <2> QED
      BY <1>1, <2>1 DEF TypeOK
  <1>a. TypeOK'
    <2>1. sent' \in [Keys -> SUBSET Nat]
      BY <1>1, RetentionAssumption DEF TypeOK, Senders
    <2>2. \A j \in Keys : served[j] \subseteq sent'[j]
      BY <1>3 DEF TypeOK
    <2> QED
      BY <1>1, <1>2, <1>3, <2>1, <2>2 DEF TypeOK, Present
  <1>b. OnlyRetained' /\ OwnElements' /\ HeldIsOwnEntry' /\ CountInRange'
    BY <1>1 DEF OnlyRetained, OwnElements, HeldIsOwnEntry, CountInRange,
       Present, Busy
  <1>c. Discipline' /\ BusyIsSent' /\ OneTriggerOneCPU'
    BY <1>1, <1>3, CPUStates DEF Discipline, OneCPU, BusyIsSent,
       OneTriggerOneCPU
  <1>d. ProducerFirst' /\ ~(lost' = 0 /\ dup' = 0)
    BY <1>1, <1>2 DEF ProducerFirst
  <1> QED
    BY <1>a, <1>b, <1>c, <1>d

LEMMA NextRoundKeeps ==
  ASSUME RetentionInv, NEW k \in Keys, NextRound(k)
  PROVE  RetentionInv'
  <1> USE DEF RetentionInv
  <1>1. /\ sent[k] = Senders(k) /\ Busy(k) = {} /\ round[k] < MaxRounds
        /\ sent' = [sent EXCEPT ![k] = {}] /\ served' = [served EXCEPT ![k] = {}]
        /\ round' = [round EXCEPT ![k] = @ + 1]
        /\ UNCHANGED <<where, remaining, cpu, discipline, lost, dup>>
    BY DEF NextRound, Settled
  <1>2. \A c \in CPUs : cpu[c].pc # "idle" => cpu[c].key # k
    BY <1>1 DEF Busy
  <1>3. /\ sent'[k] = {} /\ served'[k] = {}
        /\ \A j \in Keys \ {k} : sent'[j] = sent[j] /\ served'[j] = served[j]
    <2>1. sent \in [Keys -> SUBSET Nat] /\ served \in [Keys -> SUBSET Nat]
      BY DEF TypeOK
    <2> QED
      BY <1>1, <2>1
  <1>4. Handled(k) = Senders(k) /\ Handled(k)' = {}
    BY <1>1, <1>2, <1>3 DEF Handled, Pending
  <1>5. ASSUME NEW j \in Keys, j # k
        PROVE  /\ Handled(j)' = Handled(j)
               /\ EntryMatches(j) => EntryMatches(j)'
    BY <1>1, <1>3, <1>5, Untouched DEF Present
  <1>a. TypeOK'
    <2>1. round' \in [Keys -> 1..MaxRounds]
      BY <1>1, RetentionAssumption DEF TypeOK
    <2>2. \A j \in Keys : sent'[j] \subseteq Senders(j) /\ served'[j] \subseteq sent'[j]
      BY <1>3 DEF TypeOK
    <2> QED
      BY <1>1, <2>1, <2>2 DEF TypeOK, Present
  <1>b. OnlyRetained' /\ OwnElements' /\ HeldIsOwnEntry' /\ CountInRange'
    BY <1>1 DEF OnlyRetained, OwnElements, HeldIsOwnEntry, CountInRange,
       Present, Busy
  <1>c. Discipline' /\ BusyIsSent' /\ OneTriggerOneCPU'
    BY <1>1, <1>2, <1>3, CPUStates DEF Discipline, OneCPU, BusyIsSent,
       OneTriggerOneCPU
  <1>d. ProducerFirst'
    <2>1. ASSUME discipline = "ordered", NEW j \in Keys
          PROVE  /\ 0 \notin sent'[j] => sent'[j] = {}
                 /\ ~(sent'[j] \subseteq {0}) => 0 \in Handled(j)'
                 /\ j \in Retained => served'[j] = Handled(j)' \ {0}
      <3>1. CASE j # k
        <4>1. Handled(j)' = Handled(j)
          BY <1>5, <3>1
        <4> QED
          BY <1>3, <2>1, <3>1, <4>1 DEF ProducerFirst
      <3>2. CASE j = k
        BY <1>3, <1>4, <3>2
      <3> QED
        BY <3>1, <3>2
    <2> QED
      BY <1>1, <2>1 DEF ProducerFirst
  <1>e. ASSUME lost' = 0, dup' = 0, NEW j \in Retained PROVE EntryMatches(j)'
    <2>1. EntryMatches(j) /\ j \in Keys
      BY <1>1, <1>e DEF Retained
    <2>2. CASE j # k
      BY <1>5, <2>1, <2>2
    <2>3. CASE j = k
      <3>1. \A c \in CPUs : ~Deleting(c, k) /\ ~(cpu[c].pc = "store" /\ cpu[c].key = k)
        BY <1>2 DEF Deleting
      <3>2. k \notin Present
        BY <1>4, <2>1, <2>3, <3>1 DEF EntryMatches
      <3> QED
        BY <1>1, <1>4, <2>3, <3>1, <3>2 DEF EntryMatches, Deleting, Present
    <2> QED
      BY <2>2, <2>3
  <1> QED
    BY <1>a, <1>b, <1>c, <1>d, <1>e

-----------------------------------------------------------------------------
\* The steps of dpls_tc_ingress keep the invariant

LEMMA LookupKeeps ==
  ASSUME RetentionInv, NEW c \in CPUs, Lookup(c)
  PROVE  RetentionInv'
  <1> USE DEF RetentionInv
  <1>1. PICK k \in Keys : cpu[c].key = k
    BY CPUStates DEF Lookup
  <1>2. PICK who \in Senders(k) : cpu[c].who = who
    BY <1>1, CPUStates DEF Lookup
  <1>3. cpu[c].pc = "lookup" /\ UNCHANGED <<where, remaining, env>>
    BY DEF Lookup
  <1>4. \A b \in CPUs \ {c} : cpu'[b] = cpu[b]
    BY DEF Lookup, TypeOK
  <1>5. \/ k \notin Retained /\ cpu'[c] = Idle
        \/ k \in Retained /\ k \in Present /\ cpu'[c] = Serving(k, who, where[k])
        \/ k \in Retained /\ k \notin Present /\ cpu'[c] = At("store", k, who)
    BY <1>1, <1>2, RetentionAssumption DEF Lookup, TypeOK, Retained
  <1>6. \/ k \notin Retained /\ cpu'[c].pc = "idle"
        \/ /\ k \in Retained /\ cpu'[c].key = k /\ cpu'[c].who = who
           /\ \/ /\ k \in Present /\ cpu'[c].pc = "serve"
                 /\ cpu'[c].held = where[k]
              \/ k \notin Present /\ cpu'[c].pc = "store"
    BY <1>5 DEF Idle, Serving, At
  <1>a. TypeOK'
    <2>1. cpu' \in [CPUs -> CPUState]
      <3>1. cpu'[c] \in CPUState
        BY <1>5, NewStates DEF TypeOK
      <3> QED
        BY <1>3, <3>1 DEF Lookup, TypeOK
    <2>2. \A b \in CPUs : cpu'[b] # Idle => cpu'[b].who \in Senders(cpu'[b].key)
      <3>1. cpu'[c] # Idle => cpu'[c].who \in Senders(cpu'[c].key)
        BY <1>5, <1>6
      <3> QED
        BY <1>4, <3>1 DEF TypeOK
    <2> QED
      BY <1>3, <2>1, <2>2 DEF TypeOK, Present, env, bounds
  <1>b. OnlyRetained' /\ OwnElements'
    BY <1>3, <1>4, <1>6 DEF OnlyRetained, OwnElements, Present
  <1>c. Discipline' /\ BusyIsSent' /\ OneTriggerOneCPU'
    BY <1>1, <1>2, <1>3, <1>4, <1>6 DEF Discipline, OneCPU, BusyIsSent,
       OneTriggerOneCPU, env, bounds
  <1>d. HeldIsOwnEntry' /\ CountInRange'
    <2>1. HeldIsOwnEntry'
      BY <1>3, <1>4, <1>6 DEF HeldIsOwnEntry, Present
    <2>2. \A j \in Keys : \A b \in Busy(j) :
            cpu[b].pc = "delete" => b \in Busy(j)' /\ cpu'[b].pc = "delete"
      BY <1>3, <1>4 DEF Busy
    <2> QED
      BY <1>3, <2>1, <2>2 DEF CountInRange, Present, TypeOK
  <1>7. ASSUME NEW j \in Keys, j # k
        PROVE  /\ Handled(j)' = Handled(j)
               /\ EntryMatches(j) => EntryMatches(j)'
    BY <1>1, <1>3, <1>4, <1>6, <1>7, Untouched DEF Present, env
  <1>8. /\ Handled(k) \subseteq Handled(k)'
        /\ k \in Retained => Handled(k)' = Handled(k)
    BY <1>1, <1>2, <1>3, <1>4, <1>6 DEF Handled, Pending, env
  <1>e. ProducerFirst'
    <2>1. ASSUME discipline = "ordered", NEW j \in Keys
          PROVE  /\ 0 \notin sent[j] => sent[j] = {}
                 /\ ~(sent[j] \subseteq {0}) => 0 \in Handled(j)'
                 /\ j \in Retained => served[j] = Handled(j)' \ {0}
      <3>1. Handled(j) \subseteq Handled(j)' /\ (j \in Retained => Handled(j)' = Handled(j))
        BY <1>7, <1>8
      <3> QED
        BY <2>1, <3>1 DEF ProducerFirst
    <2> QED
      BY <1>3, <2>1 DEF ProducerFirst, env, bounds
  <1>f. ASSUME lost' = 0, dup' = 0, NEW j \in Retained PROVE EntryMatches(j)'
    <2>1. EntryMatches(j) /\ j \in Keys
      BY <1>3, <1>f DEF Retained, env, bounds
    <2>2. CASE j # k
      BY <1>7, <2>1, <2>2
    <2>3. CASE j = k
      <3>1. \A b \in CPUs : Deleting(b, k)' <=> Deleting(b, k)
        BY <1>3, <1>4, <1>6, <2>3 DEF Deleting
      <3>2. Handled(k)' = Handled(k)
        BY <1>8, <2>3
      <3>3. k \notin Present => Handled(k) = {}
        <4>1. who \notin Handled(k)
          BY <1>1, <1>2, <1>3, PendingNotHandled DEF Pending
        <4> QED
          BY <2>1, <2>3, <4>1 DEF EntryMatches
      <3>4. ASSUME NEW b \in CPUs, cpu'[b].pc = "store", cpu'[b].key = k
            PROVE  Handled(k) = {}
        <4>1. CASE b = c
          BY <1>6, <3>3, <3>4, <4>1
        <4>2. CASE b # c
          BY <1>4, <2>1, <2>3, <3>4, <4>2 DEF EntryMatches
        <4> QED
          BY <4>1, <4>2
      <3> QED
        BY <1>3, <2>1, <2>3, <3>1, <3>2, <3>4 DEF EntryMatches, Present
    <2> QED
      BY <2>2, <2>3
  <1> QED
    BY <1>a, <1>b, <1>c, <1>d, <1>e, <1>f

LEMMA StoreKeeps ==
  ASSUME Room, RetentionInv, NEW c \in CPUs, Store(c)
  PROVE  RetentionInv'
  <1> USE DEF RetentionInv
  <1>1. PICK k \in Retained : cpu[c].key = k
    BY DEF Store, OnlyRetained
  <1>2. PICK who \in Senders(k) : cpu[c].who = who
    BY <1>1, CPUStates DEF Store
  <1>3. /\ cpu[c].pc = "store" /\ k \in Keys /\ RefCount[k] \in Nat
        /\ RefCount[k] > 1 /\ RefCount[k] < Word
        /\ cpu'[c] = Idle /\ cpu'[c].pc = "idle" /\ UNCHANGED env
        /\ \A b \in CPUs \ {c} : cpu'[b] = cpu[b]
    BY <1>1, RetentionAssumption DEF Store, TypeOK, Retained, Idle
  <1>4. \/ UNCHANGED <<where, remaining>> /\ (k \in Present \/ Free = {})
        \/ /\ k \notin Present
           /\ \E e \in Free :
                /\ where' = [j \in Present \cup {k} |->
                               IF j = k THEN e ELSE where[j]]
                /\ remaining' = [remaining EXCEPT ![e] = RefCount[k]]
    BY <1>1 DEF Store, InitialCount
  <1>5. /\ Present' \in {Present, Present \cup {k}}
        /\ \A j \in Present : /\ j \in Present' /\ where'[j] = where[j]
                             /\ remaining'[where[j]] = remaining[where[j]]
        /\ k \notin Present /\ k \in Present' =>
             /\ where'[k] \in Free /\ remaining'[where'[k]] = RefCount[k]
        /\ remaining' \in [Elements -> 0..Word-1]
    <2>1. CASE UNCHANGED <<where, remaining>>
      BY <2>1 DEF Present, TypeOK
    <2>2. ASSUME k \notin Present, NEW e \in Free,
                 where' = [j \in Present \cup {k} |->
                             IF j = k THEN e ELSE where[j]],
                 remaining' = [remaining EXCEPT ![e] = RefCount[k]]
          PROVE  /\ Present' = Present \cup {k} /\ where'[k] = e
                 /\ \A j \in Present : /\ j \in Present' /\ where'[j] = where[j]
                             /\ remaining'[where[j]] = remaining[where[j]]
                 /\ remaining'[e] = RefCount[k]
                 /\ remaining' \in [Elements -> 0..Word-1]
      <3>1. e \in Elements /\ \A j \in Present : where[j] \in Elements /\ where[j] # e
        BY DEF Free, TypeOK
      <3>2. RefCount[k] \in 0..Word-1
        BY <1>3, RetentionAssumption
      <3>3. Present' = Present \cup {k} /\ where'[k] = e
        BY <2>2 DEF Present
      <3>4. \A j \in Present : j \in Present' /\ where'[j] = where[j]
        BY <2>2, <3>3
      <3>5. /\ remaining \in [Elements -> 0..Word-1]
            /\ \A j \in Present : remaining'[where[j]] = remaining[where[j]]
            /\ remaining'[e] = RefCount[k]
            /\ remaining' \in [Elements -> 0..Word-1]
        BY <2>2, <3>1, <3>2 DEF TypeOK
      <3> QED
        BY <3>3, <3>4, <3>5
    <2> QED
      BY <1>4, <2>1, <2>2
  <1>a. TypeOK'
    <2>1. cpu' \in [CPUs -> CPUState]
      BY <1>1, <1>2, NewStates DEF Store, TypeOK, Retained
    <2>2. \A b \in CPUs : cpu'[b] # Idle => cpu'[b].who \in Senders(cpu'[b].key)
      BY <1>3 DEF TypeOK
    <2>3. Present' \subseteq Keys /\ \A j \in Present' : where'[j] \in Elements
      BY <1>3, <1>5 DEF TypeOK, Free
    <2> QED
      BY <1>3, <1>5, <2>1, <2>2, <2>3 DEF TypeOK, env, bounds
  <1>b. OnlyRetained' /\ OwnElements'
    BY <1>3, <1>5 DEF OnlyRetained, OwnElements, Free
  <1>c. Discipline' /\ BusyIsSent' /\ OneTriggerOneCPU'
    BY <1>3 DEF Discipline, OneCPU, BusyIsSent, OneTriggerOneCPU, env, bounds
  <1>d. HeldIsOwnEntry' /\ CountInRange'
    <2>1. HeldIsOwnEntry'
      BY <1>3, <1>5 DEF HeldIsOwnEntry
    <2>2. \A j \in Keys : \A b \in Busy(j) :
            cpu[b].pc = "delete" => b \in Busy(j)' /\ cpu'[b].pc = "delete"
      BY <1>3 DEF Busy
    <2>3. ASSUME NEW j \in Present'
          PROVE  /\ remaining'[where'[j]] \in 0..RefCount[j]
                 /\ remaining'[where'[j]] = 0 =>
                       \E b \in Busy(j)' : cpu'[b].pc = "delete"
      <3>1. CASE j \in Present
        BY <1>5, <2>2, <3>1 DEF CountInRange, TypeOK
      <3>2. CASE j \notin Present
        BY <1>3, <1>5, <2>3, <3>2
      <3> QED
        BY <3>1, <3>2
    <2> QED
      BY <2>1, <2>3 DEF CountInRange
  <1>6. ASSUME NEW j \in Keys, j # k
        PROVE  /\ Handled(j)' = Handled(j)
               /\ EntryMatches(j) => EntryMatches(j)'
    BY <1>1, <1>3, <1>5, <1>6, Untouched DEF env
  <1>7. Handled(k) \subseteq Handled(k)'
    BY <1>1, <1>3 DEF Handled, Pending, env, Idle
  <1>8. ASSUME dup = 0, lost = 0
        PROVE  /\ Handled(k) = {} /\ Handled(k)' = {who}
               /\ k \notin Present /\ k \in Present'
               /\ \A b \in CPUs : ~Deleting(b, k) /\ ~Deleting(b, k)'
               /\ \A b \in CPUs : ~(cpu'[b].pc = "store" /\ cpu'[b].key = k)
    <2>1. EntryMatches(k)
      BY <1>8
    <2>2. Handled(k) = {} /\ k \notin Present
      BY <1>1, <1>3, <2>1 DEF EntryMatches
    <2>3. Pending(c, k)
      BY <1>1, <1>3 DEF Pending
    <2>4. \A b \in CPUs : Pending(b, k) => b = c
      BY <1>3, <1>8, <2>2, <2>3, FirstIsAlone
    <2>5. \A b \in CPUs : ~Pending(b, k)'
      BY <1>3, <2>4 DEF Pending
    <2>6. Handled(k)' = sent[k]
      BY <1>3, <2>5 DEF Handled, env
    <2>7. sent[k] = {who}
      <3>1. who \in sent[k]
        BY <1>1, <1>2, <1>3 DEF BusyIsSent
      <3>2. ASSUME NEW w \in sent[k] PROVE w = who
        BY <1>2, <2>2, <2>4, <3>2 DEF Handled
      <3> QED
        BY <3>1, <3>2
    <2>8. Free # {} /\ k \in Present'
      BY <1>4, <2>2, RoomForOneMore DEF Present
    <2>9. \A b \in CPUs : ~Deleting(b, k)
      BY <2>3, PendingNotDeleting
    <2>10. \A b \in CPUs : ~Deleting(b, k)'
      BY <1>3, <2>9 DEF Deleting
    <2>11. \A b \in CPUs : ~(cpu'[b].pc = "store" /\ cpu'[b].key = k)
      BY <2>5 DEF Pending
    <2> QED
      BY <2>2, <2>6, <2>7, <2>8, <2>9, <2>10, <2>11
  <1>e. ProducerFirst'
    <2>1. ASSUME discipline = "ordered", NEW j \in Keys
          PROVE  /\ 0 \notin sent[j] => sent[j] = {}
                 /\ ~(sent[j] \subseteq {0}) => 0 \in Handled(j)'
                 /\ j \in Retained => served[j] = Handled(j)' \ {0}
      <3>1. CASE j # k
        <4>1. Handled(j)' = Handled(j)
          BY <1>6, <3>1
        <4> QED
          BY <2>1, <4>1 DEF ProducerFirst
      <3>2. CASE j = k
        <4>1. Handled(k) = {} /\ Handled(k)' = {who}
          BY <1>8, <2>1 DEF Discipline
        <4>2. sent[k] \subseteq {0} /\ who \in sent[k]
          BY <1>1, <1>2, <1>3, <2>1, <3>2, <4>1 DEF ProducerFirst, BusyIsSent
        <4> QED
          BY <2>1, <3>2, <4>1, <4>2 DEF ProducerFirst
      <3> QED
        BY <3>1, <3>2
    <2> QED
      BY <1>3, <2>1 DEF ProducerFirst, env, bounds
  <1>f. ASSUME lost' = 0, dup' = 0, NEW j \in Retained PROVE EntryMatches(j)'
    <2>1. lost = 0 /\ dup = 0 /\ EntryMatches(j) /\ j \in Keys
      BY <1>3, <1>f DEF Retained, env, bounds
    <2>2. CASE j # k
      BY <1>6, <2>1, <2>2
    <2>3. CASE j = k
      <3>1. remaining'[where'[k]] = RefCount[k]
        BY <1>5, <1>8, <2>1
      <3>2. Cardinality(Senders(k) \ {who}) = RefCount[k]
        <4>1. IsFiniteSet(Senders(k)) /\ Cardinality(Senders(k)) = RefCount[k] + 1
          BY <1>3, FS_Interval DEF Senders
        <4>2. Cardinality(Senders(k) \ {who}) = Cardinality(Senders(k)) - 1
          BY <4>1, FS_RemoveElement
        <4> QED
          BY <1>3, <4>1, <4>2
      <3>3. {who} # Senders(k)
        BY <1>3 DEF Senders
      <3> QED
        BY <1>8, <2>1, <2>3, <3>1, <3>2, <3>3 DEF EntryMatches
    <2> QED
      BY <2>2, <2>3
  <1> QED
    BY <1>a, <1>b, <1>c, <1>d, <1>e, <1>f

LEMMA ServeKeeps ==
  ASSUME RetentionInv, NEW c \in CPUs, Serve(c)
  PROVE  RetentionInv'
  <1> USE DEF RetentionInv
  <1>1. PICK k \in Retained : cpu[c].key = k
    BY DEF Serve, OnlyRetained
  <1>2. PICK who \in Senders(k) : cpu[c].who = who
    BY <1>1, CPUStates DEF Serve
  <1> DEFINE e == where[k]
             n == remaining[e]
  <1>3. /\ cpu[c].pc = "serve" /\ k \in Keys /\ k \in Present
        /\ cpu[c].held = e /\ e \in Elements
        /\ RefCount[k] \in Nat /\ RefCount[k] > 1 /\ RefCount[k] < Word
    BY <1>1, RetentionAssumption DEF Serve, HeldIsOwnEntry, TypeOK, Retained
  <1>4. Pending(c, k)
    BY <1>1, <1>3 DEF Pending
  <1>5. \A b \in CPUs : ~Deleting(b, k)
    BY <1>4, PendingNotDeleting
  <1>6. n \in 1..RefCount[k] /\ CountDown(n) = n - 1
    <2>1. n \in 0..RefCount[k] /\ n # 0
      BY <1>3, <1>5 DEF CountInRange, Busy, Deleting
    <2>2. n \in 0..Word-1 /\ n > 0
      BY <1>3, <2>1, RetentionAssumption
    <2> QED
      BY <1>3, <2>1, <2>2, CountDownIs
  <1>7. /\ remaining' = [remaining EXCEPT ![e] = n - 1]
        /\ cpu' = [cpu EXCEPT ![c] = IF n - 1 = 0 THEN At("delete", k, who)
                                                   ELSE Idle]
        /\ served' = [served EXCEPT ![k] = @ \cup {who}]
        /\ UNCHANGED <<where, sent, bounds>>
    BY <1>1, <1>2, <1>3, <1>6 DEF Serve
  <1>8. /\ remaining'[e] = n - 1
        /\ \A f \in Elements \ {e} : remaining'[f] = remaining[f]
        /\ remaining' \in [Elements -> 0..Word-1]
    <2>1. n - 1 \in 0..Word-1
      BY <1>3, <1>6, RetentionAssumption
    <2> QED
      BY <1>3, <1>7, <2>1 DEF TypeOK
  <1>9. /\ \A b \in CPUs \ {c} : cpu'[b] = cpu[b]
        /\ \/ n = 1 /\ cpu'[c] = At("delete", k, who)
           \/ n # 1 /\ cpu'[c] = Idle
    BY <1>6, <1>7 DEF TypeOK
  <1>10. \/ /\ n = 1 /\ cpu'[c].pc = "delete"
            /\ cpu'[c].key = k /\ cpu'[c].who = who
         \/ n # 1 /\ cpu'[c].pc = "idle"
    BY <1>9 DEF At, Idle
  <1>11. /\ served'[k] = served[k] \cup {who} /\ who \in sent[k]
         /\ \A j \in Keys \ {k} : served'[j] = served[j]
         /\ served' \in [Keys -> SUBSET Nat]
    <2>1. who \in Nat
      BY <1>2, <1>3 DEF Senders
    <2>2. who \in sent[k]
      BY <1>1, <1>2, <1>3 DEF BusyIsSent
    <2> QED
      BY <1>3, <1>7, <2>1, <2>2 DEF TypeOK
  <1>12. \A j \in Present : j # k => where[j] \in Elements \ {e}
    BY <1>3 DEF OwnElements, TypeOK
  <1> HIDE DEF e, n
  <1>a. TypeOK'
    <2>1. cpu' \in [CPUs -> CPUState]
      BY <1>3, <1>7, NewStates DEF TypeOK
    <2>2. \A b \in CPUs : cpu'[b] # Idle => cpu'[b].who \in Senders(cpu'[b].key)
      BY <1>9, <1>10 DEF TypeOK
    <2>3. \A j \in Keys : served'[j] \subseteq sent[j]
      BY <1>11 DEF TypeOK
    <2> QED
      BY <1>7, <1>8, <1>11, <2>1, <2>2, <2>3 DEF TypeOK, Present, bounds
  <1>b. OnlyRetained' /\ OwnElements'
    BY <1>7, <1>9, <1>10 DEF OnlyRetained, OwnElements, Present
  <1>c. Discipline' /\ BusyIsSent' /\ OneTriggerOneCPU'
    BY <1>1, <1>2, <1>3, <1>7, <1>9, <1>10 DEF Discipline, OneCPU, BusyIsSent,
       OneTriggerOneCPU, bounds
  <1>d. HeldIsOwnEntry' /\ CountInRange'
    <2>1. HeldIsOwnEntry'
      BY <1>7, <1>9, <1>10 DEF HeldIsOwnEntry, Present
    <2>2. \A j \in Keys : \A b \in Busy(j) :
            cpu[b].pc = "delete" => b \in Busy(j)' /\ cpu'[b].pc = "delete"
      BY <1>3, <1>9 DEF Busy
    <2>3. ASSUME NEW j \in Present
          PROVE  /\ remaining'[where[j]] \in 0..RefCount[j]
                 /\ remaining'[where[j]] = 0 =>
                       \E b \in Busy(j)' : cpu'[b].pc = "delete"
      <3>1. CASE j # k
        BY <1>8, <1>12, <2>2, <3>1 DEF CountInRange, TypeOK
      <3>2. CASE j = k
        <4>1. n - 1 \in 0..RefCount[k] /\ (n - 1 = 0 => n = 1)
          BY <1>3, <1>6
        <4>2. n = 1 => c \in Busy(k)' /\ cpu'[c].pc = "delete"
          BY <1>10 DEF Busy
        <4> QED
          BY <1>8, <3>2, <4>1, <4>2 DEF e
      <3> QED
        BY <3>1, <3>2
    <2>4. Present' = Present /\ where' = where
      BY <1>7 DEF Present
    <2> QED
      BY <2>1, <2>3, <2>4 DEF CountInRange
  <1>13. ASSUME NEW j \in Keys, j # k
         PROVE  /\ Handled(j)' = Handled(j)
                /\ EntryMatches(j) => EntryMatches(j)'
    <2>1. \A b \in CPUs : \/ cpu'[b] = cpu[b]
                          \/ /\ cpu[b].pc = "idle" \/ cpu[b].key # j
                             /\ cpu'[b].pc = "idle" \/ cpu'[b].key # j
      BY <1>1, <1>9, <1>10, <1>13
    <2>2. /\ j \in Present <=> j \in Present'
          /\ j \in Present => /\ where'[j] = where[j]
                              /\ remaining'[where[j]] = remaining[where[j]]
      BY <1>7, <1>8, <1>12, <1>13 DEF Present
    <2> QED
      BY <1>7, <2>1, <2>2, Untouched
  <1>14. ASSUME dup = 0
         PROVE  Handled(k)' = Handled(k) \cup {who} /\ who \notin Handled(k)
    <2>1. \A b \in CPUs : Pending(b, k) /\ cpu[b].who = who => b = c
      BY <1>1, <1>2, <1>4, <1>14 DEF OneTriggerOneCPU, Pending
    <2>2. \A b \in CPUs : Pending(b, k)' <=> Pending(b, k) /\ b # c
      BY <1>9, <1>10 DEF Pending
    <2>3. \A b \in CPUs : Pending(b, k)' => cpu'[b].who = cpu[b].who
      BY <1>9, <2>2
    <2>4. who \notin Handled(k)
      BY <1>2, <1>3, <1>4, PendingNotHandled
    <2>5. ASSUME NEW w \in sent[k]
          PROVE  w \in Handled(k)' <=> w \in Handled(k) \/ w = who
      BY <1>2, <1>4, <1>7, <2>1, <2>2, <2>3 DEF Handled
    <2>6. Handled(k)' \subseteq sent[k] /\ Handled(k) \subseteq sent[k]
      BY <1>7 DEF Handled
    <2> QED
      BY <1>11, <2>4, <2>5, <2>6
  <1>e. ProducerFirst'
    <2>1. ASSUME discipline = "ordered", NEW j \in Keys
          PROVE  /\ 0 \notin sent[j] => sent[j] = {}
                 /\ ~(sent[j] \subseteq {0}) => 0 \in Handled(j)'
                 /\ j \in Retained => served'[j] = Handled(j)' \ {0}
      <3>1. CASE j # k
        <4>1. Handled(j)' = Handled(j)
          BY <1>13, <3>1
        <4> QED
          BY <1>11, <2>1, <3>1, <4>1 DEF ProducerFirst
      <3>2. CASE j = k
        <4>1. lost = 0 /\ dup = 0
          BY <2>1 DEF Discipline
        <4>2. Handled(k)' = Handled(k) \cup {who} /\ who \notin Handled(k)
          BY <1>14, <4>1
        <4>3. who # 0
          <5>1. Handled(k) # {}
            BY <1>3, <4>1 DEF EntryMatches
          <5>2. Handled(k) \subseteq sent[k]
            BY DEF Handled
          <5> QED
            BY <1>3, <2>1, <4>2, <5>1, <5>2 DEF ProducerFirst
        <4>4. /\ 0 \notin sent[k] => sent[k] = {}
              /\ ~(sent[k] \subseteq {0}) => 0 \in Handled(k)
              /\ served[k] = Handled(k) \ {0}
          BY <1>3, <2>1 DEF ProducerFirst
        <4> QED
          BY <1>11, <3>2, <4>2, <4>3, <4>4
      <3> QED
        BY <3>1, <3>2
    <2> QED
      BY <1>7, <2>1 DEF ProducerFirst, bounds
  <1>f. ASSUME lost' = 0, dup' = 0, NEW j \in Retained PROVE EntryMatches(j)'
    <2>1. lost = 0 /\ dup = 0 /\ EntryMatches(j) /\ j \in Keys
      BY <1>7, <1>f DEF Retained, bounds
    <2>2. CASE j # k
      BY <1>13, <2>1, <2>2
    <2>3. CASE j = k
      <3>1. /\ Handled(k)' = Handled(k) \cup {who}
            /\ who \in Senders(k) \ Handled(k)
            /\ Handled(k) \in SUBSET Senders(k) /\ Handled(k)' \in SUBSET Senders(k)
        BY <1>2, <1>3, <1>14, <2>1, HandledAreSenders
      <3>2. n = Cardinality(Senders(k) \ Handled(k))
        BY <1>3, <2>1, <2>3 DEF EntryMatches, n, e
      <3>3. n - 1 = Cardinality(Senders(k) \ Handled(k)')
        BY <1>3, <3>1, <3>2, SendersLeft
      <3>4. n - 1 = 0 <=> Handled(k)' = Senders(k)
        BY <1>3, <3>1, <3>3, SendersLeft
      <3>5. k \in Present' /\ remaining'[where'[k]] = n - 1
        BY <1>3, <1>7, <1>8 DEF Present, e
      <3>6. \A b \in CPUs : Deleting(b, k)' <=> b = c /\ n = 1
        BY <1>5, <1>9, <1>10 DEF Deleting
      <3>7. \A b \in CPUs : ~(cpu'[b].pc = "store" /\ cpu'[b].key = k)
        <4>1. Handled(k) # {}
          BY <1>3, <2>1, <2>3 DEF EntryMatches
        <4> QED
          BY <1>9, <1>10, <2>1, <2>3, <4>1 DEF EntryMatches
      <3>8. n - 1 = 0 <=> n = 1
        BY <1>6
      <3> QED
        BY <2>3, <3>1, <3>3, <3>4, <3>5, <3>6, <3>7, <3>8 DEF EntryMatches
    <2> QED
      BY <2>2, <2>3
  <1> QED
    BY <1>a, <1>b, <1>c, <1>d, <1>e, <1>f

LEMMA DeleteKeeps ==
  ASSUME RetentionInv, NEW c \in CPUs, Delete(c)
  PROVE  RetentionInv'
  <1> USE DEF RetentionInv
  <1>1. PICK k \in Retained : cpu[c].key = k
    BY DEF Delete, OnlyRetained
  <1>2. /\ cpu[c].pc = "delete" /\ k \in Keys
        /\ cpu'[c] = Idle /\ cpu'[c].pc = "idle"
        /\ \A b \in CPUs \ {c} : cpu'[b] = cpu[b]
        /\ UNCHANGED <<remaining, env>>
    BY <1>1 DEF Delete, TypeOK, Retained, Idle
  <1>3. /\ Present' = Present \ {k}
        /\ \A j \in Present' : where'[j] = where[j]
    BY <1>1 DEF Delete, Present
  <1>4. Deleting(c, k)
    BY <1>1, <1>2 DEF Deleting
  <1>5. \A b \in CPUs : ~Pending(b, k)
    BY <1>4, PendingNotDeleting
  <1>a. TypeOK'
    <2>1. cpu' \in [CPUs -> CPUState]
      <3>1. Idle \in CPUState
        BY DEF CPUState
      <3> QED
        BY <3>1 DEF Delete, TypeOK
    <2>2. \A b \in CPUs : cpu'[b] # Idle => cpu'[b].who \in Senders(cpu'[b].key)
      BY <1>2 DEF TypeOK
    <2>3. Present' \subseteq Keys /\ \A j \in Present' : where'[j] \in Elements
      BY <1>3 DEF TypeOK
    <2> QED
      BY <1>2, <2>1, <2>2, <2>3 DEF TypeOK, env, bounds
  <1>b. OnlyRetained' /\ OwnElements'
    BY <1>2, <1>3 DEF OnlyRetained, OwnElements
  <1>c. Discipline' /\ BusyIsSent' /\ OneTriggerOneCPU'
    BY <1>2 DEF Discipline, OneCPU, BusyIsSent, OneTriggerOneCPU, env, bounds
  <1>d. HeldIsOwnEntry' /\ CountInRange'
    <2>1. ASSUME NEW b \in CPUs, cpu'[b].pc = "serve"
          PROVE  cpu'[b].key \in Present' /\ cpu'[b].held = where'[cpu'[b].key]
      <3>1. b # c /\ cpu'[b] = cpu[b] /\ cpu[b].pc = "serve"
        BY <1>2, <2>1
      <3>2. cpu[b].key # k
        BY <1>5, <3>1 DEF Pending
      <3> QED
        BY <1>3, <3>1, <3>2 DEF HeldIsOwnEntry
    <2>2. \A j \in Keys \ {k} : \A b \in Busy(j) :
            cpu[b].pc = "delete" => b \in Busy(j)' /\ cpu'[b].pc = "delete"
      BY <1>1, <1>2 DEF Busy
    <2>3. ASSUME NEW j \in Present'
          PROVE  /\ remaining'[where'[j]] \in 0..RefCount[j]
                 /\ remaining'[where'[j]] = 0 =>
                       \E b \in Busy(j)' : cpu'[b].pc = "delete"
      BY <1>2, <1>3, <2>2 DEF CountInRange, TypeOK
    <2> QED
      BY <2>1, <2>3 DEF HeldIsOwnEntry, CountInRange
  <1>6. ASSUME NEW j \in Keys, j # k
        PROVE  /\ Handled(j)' = Handled(j)
               /\ EntryMatches(j) => EntryMatches(j)'
    BY <1>1, <1>2, <1>3, <1>6, Untouched DEF env
  <1>7. Handled(k)' = Handled(k)
    BY <1>2, <1>5 DEF Handled, Pending, env
  <1>e. ProducerFirst'
    <2>1. \A j \in Keys : Handled(j)' = Handled(j)
      BY <1>6, <1>7
    <2> QED
      BY <1>2, <2>1 DEF ProducerFirst, env, bounds
  <1>f. ASSUME lost' = 0, dup' = 0, NEW j \in Retained PROVE EntryMatches(j)'
    <2>1. EntryMatches(j) /\ j \in Keys
      BY <1>2, <1>f DEF Retained, env, bounds
    <2>2. CASE j # k
      BY <1>6, <2>1, <2>2
    <2>3. CASE j = k
      <3>1. \A b \in CPUs : ~Deleting(b, k)'
        BY <1>2, <1>4, <2>1, <2>3 DEF EntryMatches, Deleting
      <3>2. Handled(k) = Senders(k) /\ k \notin Present'
        BY <1>3, <1>4, <2>1, <2>3 DEF EntryMatches
      <3>3. \A b \in CPUs : ~(cpu'[b].pc = "store" /\ cpu'[b].key = k)
        BY <1>2, <1>5 DEF Pending
      <3> QED
        BY <1>7, <2>3, <3>1, <3>2, <3>3 DEF EntryMatches
    <2> QED
      BY <2>2, <2>3
  <1> QED
    BY <1>a, <1>b, <1>c, <1>d, <1>e, <1>f

LEMMA RetentionStep == Room /\ RetentionInv /\ [Next]_vars => RetentionInv'
  <1> SUFFICES ASSUME Room, RetentionInv, [Next]_vars PROVE RetentionInv'
    OBVIOUS
  <1>1. CASE \E k \in Keys : \E who \in Senders(k) :
               Lose(k, who) \/ \E c \in CPUs : Arrive(c, k, who) \/ Duplicate(c, k, who)
    BY <1>1, LoseKeeps, ArriveKeeps, DuplicateKeeps
  <1>2. CASE \E k \in Keys : NextRound(k)
    BY <1>2, NextRoundKeeps
  <1>3. CASE \E c \in CPUs : Ingress(c)
    BY <1>3, LookupKeeps, StoreKeeps, ServeKeeps, DeleteKeeps DEF Ingress
  <1>4. CASE UNCHANGED vars
    <2>1. /\ where' = where /\ remaining' = remaining /\ cpu' = cpu
          /\ sent' = sent /\ served' = served /\ discipline' = discipline
          /\ round' = round /\ lost' = lost /\ dup' = dup
      BY <1>4 DEF vars, env, bounds
    <2>2. TypeOK' /\ OnlyRetained' /\ OwnElements'
      BY <2>1 DEF RetentionInv, TypeOK, OnlyRetained, OwnElements, Present
    <2>3. Discipline' /\ BusyIsSent' /\ OneTriggerOneCPU'
      BY <2>1 DEF RetentionInv, Discipline, OneCPU, BusyIsSent,
         OneTriggerOneCPU
    <2>4. HeldIsOwnEntry' /\ CountInRange'
      BY <2>1 DEF RetentionInv, HeldIsOwnEntry, CountInRange, Present, Busy
    <2>5. ProducerFirst'
      BY <2>1 DEF RetentionInv, ProducerFirst, Handled, Pending
    <2>6. ASSUME lost' = 0, dup' = 0, NEW k \in Retained PROVE EntryMatches(k)'
      <3>1. EntryMatches(k)
        BY <2>1, <2>6 DEF RetentionInv
      <3> QED
        BY <2>1, <3>1 DEF EntryMatches, Handled, Pending, Deleting, Present
    <2> QED
      BY <2>2, <2>3, <2>4, <2>5, <2>6 DEF RetentionInv
  <1> QED
    BY <1>1, <1>2, <1>3, <1>4 DEF Next

-----------------------------------------------------------------------------
\* With room in retention_map, under both disciplines: the map, the CPUs in
\* dpls_tc_ingress and the triggers they have counted stay in step.
THEOREM RetentionInvariant == Room /\ Disciplined => (Spec => []RetentionInv)
  <1> SUFFICES ASSUME Room, Disciplined PROVE Spec => []RetentionInv
    OBVIOUS
  <1>1. Init => RetentionInv
    BY RetentionStart
  <1>2. RetentionInv /\ [Next]_vars => RetentionInv'
    BY RetentionStep
  <1> QED
    BY <1>1, <1>2, PTL DEF Spec

\* The map, its counts and the CPUs keep to their types.
THEOREM RetentionTypeCorrect == Room /\ Disciplined => (Spec => []TypeOK)
  <1> SUFFICES ASSUME Room, Disciplined PROVE Spec => []TypeOK
    OBVIOUS
  <1>1. RetentionInv => TypeOK
    BY DEF RetentionInv
  <1> QED
    BY <1>1, RetentionInvariant, PTL

\* "No leaks": when all triggers of a task were handled once, its entry is
\* gone (the deletion in step 10).
THEOREM NothingLeaks == Room /\ Disciplined => (Spec => []NoLeak)
  <1> SUFFICES ASSUME Room, Disciplined PROVE Spec => []NoLeak
    OBVIOUS
  <1>1. RetentionInv => NoLeak
    <2> SUFFICES ASSUME RetentionInv, lost = 0, dup = 0, NEW k \in Keys,
                        Settled(k), k \in Present
                 PROVE  FALSE
      BY DEF NoLeak
    <2>1. k \in Retained /\ EntryMatches(k)
      BY DEF RetentionInv, OnlyRetained
    <2>2. Handled(k) = Senders(k)
      BY DEF Settled, Handled, Pending, Busy
    <2>3. \A c \in CPUs : ~Deleting(c, k)
      BY DEF Settled, Deleting, Busy
    <2> QED
      BY <2>1, <2>2, <2>3 DEF EntryMatches
  <1> QED
    BY <1>1, RetentionInvariant, PTL

\* A pointer into the map is used on the entry it was looked up for (the
\* spin-locked decrement in step 10).
THEOREM HeldStaysOwn == Room /\ Disciplined => (Spec => []HeldIsOwnEntry)
  <1> SUFFICES ASSUME Room, Disciplined PROVE Spec => []HeldIsOwnEntry
    OBVIOUS
  <1>1. RetentionInv => HeldIsOwnEntry
    BY DEF RetentionInv
  <1> QED
    BY <1>1, RetentionInvariant, PTL

\* No count wraps below 0, whatever is lost or repeated one at a time.
THEOREM CountStaysInRange == Room /\ Disciplined => (Spec => []CountInRange)
  <1> SUFFICES ASSUME Room, Disciplined PROVE Spec => []CountInRange
    OBVIOUS
  <1>1. RetentionInv => CountInRange
    BY DEF RetentionInv
  <1> QED
    BY <1>1, RetentionInvariant, PTL

\* remaining_consumers is the number of consumers still to be served.
THEOREM CountIsExact == Room /\ Disciplined => (Spec => []CountIsUnserved)
  <1> SUFFICES ASSUME Room, Disciplined PROVE Spec => []CountIsUnserved
    OBVIOUS
  <1>1. RetentionInv => CountIsUnserved
    <2> SUFFICES ASSUME RetentionInv, discipline = "ordered", NEW k \in Present
                 PROVE  remaining[where[k]]
                          = Cardinality(Consumers(k) \ served[k])
      BY DEF CountIsUnserved
    <2>1. /\ k \in Retained /\ k \in Keys /\ EntryMatches(k)
          /\ RefCount[k] \in Nat
      BY RetentionAssumption DEF RetentionInv, Discipline, OnlyRetained, Retained
    <2>2. Handled(k) # {} /\ Handled(k) \subseteq sent[k]
      BY <2>1 DEF EntryMatches, Handled
    <2>3. 0 \in Handled(k) /\ served[k] = Handled(k) \ {0}
      BY <2>1, <2>2 DEF RetentionInv, ProducerFirst
    <2>4. Senders(k) \ Handled(k) = Consumers(k) \ served[k]
      BY <2>1, <2>3 DEF Senders, Consumers
    <2> QED
      BY <2>1, <2>4 DEF EntryMatches
  <1> QED
    BY <1>1, RetentionInvariant, PTL

\* "No premature eviction": an entry leaves the map only when all consumers
\* of its task have been served.
THEOREM NothingEvictedEarly == Room /\ Disciplined => (Spec => NoPrematureEviction)
  <1> SUFFICES ASSUME Room, Disciplined PROVE Spec => NoPrematureEviction
    OBVIOUS
  <1> DEFINE OnlyServedLeave ==
               discipline = "ordered" =>
                 \A k \in Present :
                    k \notin DOMAIN where' => Consumers(k) \subseteq served[k]
  <1>1. RetentionInv /\ [Next]_vars => [OnlyServedLeave]_vars
    <2> SUFFICES ASSUME RetentionInv, [Next]_vars, discipline = "ordered",
                        NEW k \in Present, k \notin DOMAIN where'
                 PROVE  Consumers(k) \subseteq served[k]
      OBVIOUS
    <2>1. PICK c \in CPUs : Delete(c) /\ cpu[c].key = k
      BY DEF Next, Lose, Arrive, Duplicate, NextRound, Ingress, Lookup, Store,
         Serve, Delete, Present, vars
    <2>2. /\ k \in Retained /\ k \in Keys /\ EntryMatches(k)
          /\ RefCount[k] \in Nat
      BY RetentionAssumption DEF RetentionInv, Discipline, OnlyRetained, Retained
    <2>3. Handled(k) = Senders(k)
      BY <2>1, <2>2 DEF EntryMatches, Deleting, Delete
    <2>4. served[k] = Handled(k) \ {0}
      BY <2>2 DEF RetentionInv, ProducerFirst
    <2> QED
      BY <2>2, <2>3, <2>4 DEF Senders, Consumers
  <1> QED
    BY <1>1, RetentionInvariant, PTL DEF Spec, NoPrematureEviction
=============================================================================
