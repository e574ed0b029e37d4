---------------------------- MODULE MCAgingQueue -----------------------------
(* One worker and a fork A (a0 -> a1, a2, a3) beside a single task B, whose  *)
(* ranks are such that a difference in waiting time decides.                 *)
EXTENDS AgingQueue

MCDags == {"A", "B"}
MCTasks == {"A:0", "A:1", "A:2", "A:3", "B:0"}
MCDagOf == [t \in MCTasks |-> IF t = "B:0" THEN "B" ELSE "A"]
MCSucc == [t \in MCTasks |-> IF t = "A:0" THEN <<"A:1", "A:2", "A:3">> ELSE <<>>]
MCInitRem == [t \in MCTasks |-> IF t \in {"A:0", "B:0"} THEN 0 ELSE 1]
MCNumId == [t \in MCTasks |->
    CASE t = "A:0" -> 0 [] t = "A:1" -> 1 [] t = "A:2" -> 2 [] t = "A:3" -> 3
      [] t = "B:0" -> 4]
MCRank == [t \in MCTasks |->
    CASE t = "A:0" -> 4 [] t = "A:1" -> 2 [] t = "A:2" -> 4 [] t = "A:3" -> 3
      [] t = "B:0" -> 2]
MCVol == [d \in MCDags |-> IF d = "A" THEN 1 ELSE 2]
=============================================================================
