------------------------------- MODULE MCRanks -------------------------------
(* Inputs of up to three tasks: every graph of successor lists of at most *)
(* two, repeated edges included, and the malformed inputs one by one.        *)
EXTENDS Ranks, Graphs

\* Acyclic is the absence of cycles, on every graph of three nodes.
ASSUME \A E \in SUBSET ((1..3) \X (1..3)) :
         Acyclic(1..3, E) <=> IsDag([node |-> 1..3, edge |-> E])

Task(id, comp, succs) == [id |-> id, comp |-> comp, succs |-> succs]
Edge(to) == [to |-> to, size |-> (to % 2) + 1]
Input(tasks) == [dag |-> "d", tasks |-> tasks]

\* Successor lists over tasks 1 to 3, in either order.
Lists == {<<>>} \cup {<<Edge(a)>> : a \in 1..3}
         \cup {<<Edge(a), Edge(b)>> : a, b \in 1..3}
Graphs3 == {Input(<<Task(1, 1, a), Task(2, 2, b), Task(3, 2, c)>>)
              : a, b, c \in Lists}

Good == Task(1, 1, <<>>)
Malformed ==
    {[dag |-> NoId, tasks |-> <<Good>>], Input(<<>>),
     Input(<<Good, Task(NoId, 1, <<>>)>>), Input(<<Good, Good>>),
     Input(<<Good, Task(2, 0, <<>>)>>),
     Input(<<Good, Task(2, 1, <<[to |-> NoId, size |-> 1]>>)>>),
     Input(<<Good, Task(2, 1, <<[to |-> 1, size |-> -1]>>)>>),
     Input(<<Good, Task(2, 1, <<Edge(1), Edge(4)>>)>>)}

AllNames == 1..4 \cup {NoId}
Inputs == Graphs3 \cup Malformed
=============================================================================
