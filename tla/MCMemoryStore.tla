--------------------------- MODULE MCMemoryStore ---------------------------
(* A note and a decision anchored to code that state the same fact, and     *)
(* two server processes.                                                    *)
EXTENDS MemoryStore, TLC

CONSTANTS note, adr, p1, p2

\* A project's own database, and the global one.
BothKinds == {Item, {}}
ProjectOnly == {Item}

OneBucket == [i \in Item |-> "fact"]

PairAlike == {<<note, adr>>}

\* Bound: in the global database only the sweep would read the clock, and it
\* selects nothing there; one deletion at a time is under way.
GlobalBound == scoped = {} => now = 0 /\ \E p \in Proc : job[p] = Idle

ProcSymmetry == Permutations({p1, p2})
=============================================================================
