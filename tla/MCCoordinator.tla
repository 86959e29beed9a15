---------------------------- MODULE MCCoordinator ----------------------------
(* Coordinator and its refinement for TLC: the symmetry of its small instances. *)
EXTENDS JobRefinement, TLC

\* Nodes and request threads are interchangeable; jobs and tasks are ordered.
Symmetry == Permutations(Nodes) \cup Permutations(Threads)

\* Behaviours in which no worker says goodbye: a node that claims and reports
\* is one whose process is running.
NoBye == \A n \in Nodes : nodes'[n].status = "offline" =>
            nodes[n].status = "offline" \/ nodes[n].quiet
StaySpec == Init /\ [][Next /\ NoBye]_vars
=============================================================================
