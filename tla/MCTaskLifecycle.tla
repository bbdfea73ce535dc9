-------------------------- MODULE MCTaskLifecycle --------------------------
(* Two tasks of one turn, two tool uses, two agents' keys and two or three  *)
(* processes; completions credit one memory on the evidence of the first    *)
(* use, directly or by citing an earlier completion's feedback.             *)
EXTENDS TaskLifecycle, TLC

CONSTANTS t1, t2, turn, u1, u2, k1, k2, m, n

OneTurn == [t \in Task |-> turn]

AllRetrieved == t1 :> {m, n} @@ t2 :> {m}

Attribute(memory, state, evidence, feedback) ==
    [memory |-> memory, state |-> state, evidence |-> evidence, feedback |-> feedback]

Direct == {Attribute(m, "used", u1, None)}

\* The second attribution stands for a task that retrieved both memories and
\* must undo the first for one that did not.
Citing == {Attribute(m, "used", u1, k1), Attribute(n, "rejected", u1, None)}

Send(outcome, list, key) == [outcome |-> outcome, list |-> list, key |-> key]

Requests ==
    { Send("completed", Direct, k1), Send("completed", Citing, k2),
      Send("failed", {}, k2), Send("failed", Direct, k1) }

\* Bound: one answer to a request that is not on record.
MootBound == Cardinality(told \ Rows) <= 1

ProcSymmetry == Permutations(Proc)
=============================================================================
