--------------------------- MODULE MCMaintenance ---------------------------
(* The rhythm of p1's decay passes beside the calls of p2. *)
EXTENDS Maintenance

CONSTANTS p1

DecayOfP1 == <<p1, "decay">>
=============================================================================
