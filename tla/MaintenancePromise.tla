------------------------- MODULE MaintenancePromise -------------------------
(***************************************************************************)
(* What a maintenance run promises, however many processes work on it, die *)
(* or are taken for dead: it goes through its stages in order, one at a    *)
(* time, and stays completed; it decays memories in its second stage only, *)
(* each at most once, and no more than its limit in all.                   *)
(***************************************************************************)
EXTENDS Integers, FiniteSets

CONSTANTS Run, Item, Limit

VARIABLES stage, decays

Done == 6   \* the stages are 1 .. 5; 0 is a run that was never begun

Decayed(r) == {i \in Item : decays[r][i] > 0}

Init ==
    /\ stage = [r \in Run |-> 0]
    /\ decays = [r \in Run |-> [i \in Item |-> 0]]

Advance(r) ==
    /\ stage[r] < Done
    /\ stage' = [stage EXCEPT ![r] = @ + 1]

\* The last decay of a run ends the stage, an earlier one need not.
Decay(r, D) ==
    /\ stage[r] = 2
    /\ \A i \in D : decays[r][i] = 0
    /\ decays' = [decays EXCEPT ![r] = [i \in Item |-> IF i \in D THEN 1 ELSE @[i]]]
    /\ Cardinality(Decayed(r)') <= Limit
    /\ Advance(r) \/ UNCHANGED stage

Next == \E r \in Run :
    \/ Advance(r) /\ UNCHANGED decays
    \/ \E D \in SUBSET Item : Decay(r, D)

Spec == Init /\ [][Next]_<<stage, decays>>
=============================================================================
