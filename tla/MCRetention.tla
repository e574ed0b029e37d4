----------------------------- MODULE MCRetention -----------------------------
(* Instances of Retention: tasks 0 and 1 of fan-out 2 and 3, and a task 2    *)
(* with one successor, which is routed without being retained.               *)
EXTENDS Retention, TLC

Fanouts == [k \in 0..2 |-> CASE k = 0 -> 2 [] k = 1 -> 3 [] k = 2 -> 1]
TwoFanouts == [k \in 0..1 |-> k + 2]

Symmetry == Permutations(CPUs) \cup Permutations(Elements)
=============================================================================
