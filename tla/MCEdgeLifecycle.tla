-------------------------- MODULE MCEdgeLifecycle --------------------------
(* Maintenance runs at three times, the first time twice, and one restore,  *)
(* of one edge that may fade and one that is protected.                     *)
EXTENDS EdgeLifecycle, TLC

CONSTANTS early, again, late, back, e, f

Maintenance(asOf) == [op |-> "maintenance", edges |-> Edge, asOf |-> asOf]

Requests ==
    early :> Maintenance(1) @@ again :> Maintenance(1) @@ late :> Maintenance(2)
    @@ back :> [op |-> "restore", edges |-> {e}, asOf |-> 3]

ProcSymmetry == Permutations(Proc)
=============================================================================
