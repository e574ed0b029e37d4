----------------------------- MODULE MCMainLoop ------------------------------
(* main.go's iterations 1, 2 and 11: two-task chains whose ids carry no DAG  *)
(* id and whose indegree counters are left at 0.                             *)
EXTENDS MainLoop

MCDags == {"testdag-1", "testdag-2", "testdag-11"}
First == [d \in MCDags |-> CASE d = "testdag-1" -> "task0-1"
                             [] d = "testdag-2" -> "task0-2"
                             [] d = "testdag-11" -> "task0-11"]
Last == [d \in MCDags |-> CASE d = "testdag-1" -> "task1-1"
                            [] d = "testdag-2" -> "task1-2"
                            [] d = "testdag-11" -> "task1-11"]
MCTasks == {First[d] : d \in MCDags} \cup {Last[d] : d \in MCDags}
MCDagOf == [t \in MCTasks |-> CHOOSE d \in MCDags : t \in {First[d], Last[d]}]
MCSucc == [t \in MCTasks |-> IF t = First[MCDagOf[t]] THEN <<Last[MCDagOf[t]]>>
                                                     ELSE <<>>]
MCInitRem == [t \in MCTasks |-> 0]
\* The digits of the whole id, since there is no colon to cut it at.
MCNumId == [t \in MCTasks |->
    CASE t = "task0-1" -> 1  [] t = "task1-1" -> 11
      [] t = "task0-2" -> 2  [] t = "task1-2" -> 12
      [] t = "task0-11" -> 11 [] t = "task1-11" -> 111]
MCIterations == <<"testdag-1", "testdag-2", "testdag-11">>
Clashing == <<"testdag-1", "testdag-11">>
=============================================================================
