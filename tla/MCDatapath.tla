----------------------------- MODULE MCDatapath -----------------------------
(* Instances of Datapath: task 2 is beyond the port range of connect4.       *)
(* Elements, sockets and workers are interchangeable.                        *)
EXTENDS Datapath, TLC

Symmetry == Permutations(Elements) \cup Permutations(Sockets)
            \cup Permutations(Workers)
=============================================================================
