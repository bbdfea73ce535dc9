---------------------------- MODULE TaskPromise ----------------------------
(***************************************************************************)
(* What the orchestrator promises its callers, however many hooks and      *)
(* agents call at a time and retry: a journal that each call acts on in    *)
(* one step, as if it were alone.  A call is recorded under a key that     *)
(* nobody used, or finds itself on record, or is a hook's and finds that   *)
(* its task has an outcome; only then it is answered.  Nothing on record   *)
(* ever goes.  Credit is given by recording a completed task and in no     *)
(* other step, for the whole of its verdicts, on evidence that is on       *)
(* record for the same task by then.                                       *)
(***************************************************************************)
VARIABLES
    recorded,   \* the calls on record
    credits,    \* what memories were credited with
    told        \* the calls that were answered "recorded" or "replayed"

Init == recorded = {} /\ credits = {} /\ told = {}

Verdict(a) == a.state \in {"used", "rejected", "contradicted"}

\* A credit that the outcome gives.
Earned(c, outcome) ==
    /\ outcome.state = "completed" /\ c.by = outcome.key /\ c.task = outcome.task
    /\ \E r \in recorded :
          r.task = c.task /\ r.state = "evidence_observed" /\ r.key = c.evidence

\* The credit for a verdict, given by this outcome or by an earlier one.
Given(a, outcome) ==
    \E c \in credits' :
        /\ c.task = outcome.task /\ c.memory = a.memory
        /\ c.state = a.state /\ c.evidence = a.evidence

Record(row) ==
    /\ \A r \in recorded : r.key # row.key
    /\ recorded' = recorded \cup {row} /\ told' = told \cup {row}
    /\ credits \subseteq credits' /\ \A c \in credits' \ credits : Earned(c, row)
    /\ row.state = "completed" => \A a \in row.detail : Verdict(a) => Given(a, row)

Replay(row) ==
    /\ row \in recorded
    /\ told' = told \cup {row} /\ UNCHANGED <<recorded, credits>>

Outcome(row) == row.state \in {"completed", "failed", "cancelled", "abandoned"}

\* Evidence and the abandonment of a task that has an outcome: answered as
\* if replayed, and not recorded.
Moot(row) ==
    /\ row.state \in {"evidence_observed", "abandoned"}
    /\ \E r \in recorded : r.task = row.task /\ Outcome(r)
    /\ told' = told \cup {row} /\ UNCHANGED <<recorded, credits>>

Next ==
    \/ \E row \in recorded' : Record(row)
    \/ \E row \in recorded : Replay(row)
    \/ \E row \in told' : Moot(row)

Spec == Init /\ [][Next]_<<recorded, credits, told>>
=============================================================================
