-------------------------- MODULE MCMaintenanceRun --------------------------
(* Two processes that may be given one of two runs, which share the lease,  *)
(* over two memories; the manifests approve what the edge and concept       *)
(* passes usually come to.                                                  *)
EXTENDS MaintenanceRun

CONSTANTS r1, r2, c, usual, other

Manifests == [r \in Run |-> usual]

Proposals == [r \in Run |-> {c}]

\* A candidate, and a memory that had faded and was made active again by hand.
Rows == { [status |-> "candidate", decay |-> 0], [status |-> "active", decay |-> MaxDecay] }

\* Bounds: the second run begins after the first, which is no restriction as
\* they are alike, and others write to the database while there is one run.
RunBound ==
    run[r2].status # "none" => run[r1].status # "none" /\ moves = MaxMoves
=============================================================================
