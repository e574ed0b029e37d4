----------------------------- MODULE MCScheduler -----------------------------
(* Instances of Scheduler for TLC: a diamond A (a0 -> a1, a2 -> a3) beside a *)
(* single task B, with qualified ids as the parser makes them.               *)
EXTENDS SchedulerRefinement

MCDags == {"A", "B"}
MCTasks == {"A:0", "A:1", "A:2", "A:3", "B:0"}
MCDagOf == [t \in MCTasks |-> IF t = "B:0" THEN "B" ELSE "A"]
MCSucc == [t \in MCTasks |->
    CASE t = "A:0" -> <<"A:1", "A:2">>
      [] t \in {"A:1", "A:2"} -> <<"A:3">>
      [] OTHER -> <<>>]
MCInitRem == [t \in MCTasks |-> CASE t \in {"A:0", "B:0"} -> 0
                                  [] t = "A:3" -> 2
                                  [] OTHER -> 1]
MCCritical == {"A:0", "A:1", "A:3", "B:0"}

\* Numeric ids chosen apart ...
DistinctIds == [t \in MCTasks |->
    CASE t = "A:0" -> 0 [] t = "A:1" -> 1 [] t = "A:2" -> 2 [] t = "A:3" -> 3
      [] t = "B:0" -> 4]
\* ... and as parseNumericTaskID gives them when each DAG numbers from 0.
PerDagIds == [t \in MCTasks |->
    CASE t \in {"A:0", "B:0"} -> 0 [] t = "A:1" -> 1
      [] t = "A:2" -> 2 [] t = "A:3" -> 3]
=============================================================================
