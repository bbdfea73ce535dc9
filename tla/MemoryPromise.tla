--------------------------- MODULE MemoryPromise ---------------------------
(***************************************************************************)
(* What the memory store promises a client, whatever processes, clocks and *)
(* batches do behind it: each memory is published once, is shown by recall *)
(* or withdrawn from it, and an erasure is final.  Withdrawing may be the  *)
(* work of a pass over many memories; a memory comes back only through a   *)
(* call that names it, one at a time; and a publication withdraws at most  *)
(* the one memory it replaces.                                             *)
(***************************************************************************)
CONSTANTS Item

VARIABLE fate

Fates == {"unwritten", "shown", "withdrawn", "erased"}

Init == fate = [i \in Item |-> "unwritten"]

\* Every memory outside "named" stays as it is or moves along "way".
Others(named, way) ==
    /\ fate' \in [Item -> Fates]
    /\ \A i \in Item \ named : fate'[i] = fate[i] \/ <<fate[i], fate'[i]>> \in way

\* A new memory is shown; the one it replaces, if it is still shown, is not.
Publish(i) ==
    /\ fate[i] = "unwritten" /\ fate'[i] = "shown"
    /\ Others({i}, {<<"shown", "withdrawn">>})
    /\ \A j, k \in Item \ {i} : fate'[j] # fate[j] /\ fate'[k] # fate[k] => j = k

Withdraw == Others({}, {<<"shown", "withdrawn">>})

Reveal(i) ==
    /\ fate[i] = "withdrawn" /\ fate'[i] = "shown"
    /\ Others({i}, {})

Erase == Others({}, {<<"shown", "erased">>, <<"withdrawn", "erased">>})

Next ==
    \/ \E i \in Item : Publish(i) \/ Reveal(i)
    \/ Withdraw
    \/ Erase

Spec == Init /\ [][Next]_fate
=============================================================================
