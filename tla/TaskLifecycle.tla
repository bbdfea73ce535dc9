--------------------------- MODULE TaskLifecycle ---------------------------
(***************************************************************************)
(* The tasks of the agents' turns in the global memory database, kept by   *)
(* memory_orchestrator.c in the append-only table codex_task_lifecycle.    *)
(*                                                                         *)
(* A turn's prompt hook or the agent begins tasks; the hook that runs      *)
(* after each tool call records evidence; the agent completes the task     *)
(* with attributions that credit recalled memories; the stop hook abandons *)
(* what is still open.  Hooks are processes of their own.  Begin is one    *)
(* transaction.  The other calls first look - up the key they were given   *)
(* and the state of the task - and write in a transaction that follows;    *)
(* between the two, and between a hook's look at the turn and its call,    *)
(* any other process may write.                                            *)
(*                                                                         *)
(* A row stands for the call that appends it: its payload hash is that of  *)
(* the row itself, less the key, so two calls are the same request when    *)
(* their rows are equal.  "started" and "recall_completed", which one      *)
(* begin writes together, are one row.                                     *)
(***************************************************************************)
EXTENDS Integers, FiniteSets, Sequences

CONSTANTS
    Task,       \* tasks; the id is derived from the key of the begin, which it stands for
    Turn,       \* <session, turn>; also the key of the stop hook's abandonment
    TurnOf,     \* the turn a task is begun in
    Use,        \* tool uses; also the evidence, result and key their hook derives
    Key,        \* keys agents give to completions
    Text,       \* prompts and tool outputs, as far as their hashes differ
    Memory,     \* memories that recalls returned
    Retrieved,  \* the memories on record in each task's retrieval session
    Request,    \* what agents send to complete a task: outcome, attributions, key
    Proc,       \* hooks and servers under way at a time
    MaxRows,    \* bound on the journal
    None

Terminal == {"completed", "failed", "cancelled", "abandoned"}
State    == Terminal \cup {"recall_completed", "evidence_observed"}
Verdicts == {"used", "rejected", "contradicted"}

Attribution ==
    [memory : Memory, state : Verdicts \cup {"injected"}, evidence : Use \cup {None},
     feedback : Key \cup {None}]

ASSUME TaskAssumption ==
    /\ TurnOf \in [Task -> Turn]
    /\ Retrieved \in [Task -> SUBSET Memory]
    /\ Request \subseteq [outcome : Terminal, list : SUBSET Attribution, key : Key]
    /\ MaxRows \in Nat
    /\ IsFiniteSet(Proc)

Row ==
    [task : Task, state : State, detail : Text \cup SUBSET Attribution, key : Task \cup Turn \cup Use \cup Key]

VARIABLES
    journal,    \* codex_task_lifecycle in rowid order
    credits,    \* feedback events and their attributions, each by the completion that made it
    told,       \* the calls that were answered "recorded" or "replayed", as the rows they ask for
    job         \* what each process is about to write, and whether it has looked

vars == <<journal, credits, told, job>>

Rows     == {journal[n] : n \in DOMAIN journal}
Used(k)  == \E r \in Rows : r.key = k
Idle     == [step |-> "idle", row |-> None]

Room     == Len(journal) < MaxRows

Init ==
    /\ journal = << >>
    /\ credits = {} /\ told = {}
    /\ job = [p \in Proc |-> Idle]

(***************************************************************************)
(* cbm_global_task_begin, the whole of it in one transaction.  The answer  *)
(* to a repeated begin is a conflict, although nothing differs, when the   *)
(* turn has a task with a later row; this is the step not taken.           *)
(***************************************************************************)
Begin(t, prompt) ==
    LET row == [task |-> t, state |-> "recall_completed", detail |-> prompt, key |-> t] IN
    /\ IF Used(t) THEN row \in Rows ELSE Room
    /\ journal' = IF Used(t) THEN journal ELSE Append(journal, row)
    /\ told' = told \cup {row}
    /\ UNCHANGED <<credits, job>>

(***************************************************************************)
(* Where calls come from.  Both hooks act on the task with the turn's      *)
(* latest row, unless that row is terminal.                                *)
(***************************************************************************)
\* cbm_orchestrator_status by turn.
Latest(turn) ==
    {r \in Rows : \E n \in DOMAIN journal :
        /\ r = journal[n] /\ TurnOf[r.task] = turn
        /\ \A m \in DOMAIN journal : TurnOf[journal[m].task] = turn => m <= n}

Start(p, row) ==
    /\ job[p] = Idle
    /\ job' = [job EXCEPT ![p] = [step |-> "look", row |-> row]]
    /\ UNCHANGED <<journal, credits, told>>

PostTool(p, turn, use, output) ==
    \E r \in Latest(turn) :
        /\ r.state \notin Terminal
        /\ Start(p, [task |-> r.task, state |-> "evidence_observed", detail |-> output, key |-> use])

Complete(p, t, request) ==
    /\ \E r \in Rows : r.task = t
    /\ Start(p, [task |-> t, state |-> request.outcome, detail |-> request.list, key |-> request.key])

Stop(p, turn) ==
    \E r \in Latest(turn) :
        /\ r.state \notin Terminal
        /\ Start(p, [task |-> r.task, state |-> "abandoned", detail |-> {}, key |-> turn])

\* The task got its outcome after the stop hook's own look at the turn: the
\* abandonment is answered "replayed" and not recorded.
StopClosed(turn) ==
    \E r \in Latest(turn) :
        /\ r.state \in Terminal
        /\ told' = told \cup {[task |-> r.task, state |-> "abandoned", detail |-> {}, key |-> turn]}
        /\ UNCHANGED <<journal, credits, job>>

(***************************************************************************)
(* The call.  s12_replay answers a known key; evidence for a task that has *)
(* a terminal row ends here with the answer "replayed",                    *)
(* TASK_ALREADY_TERMINAL, and attributions of a task not completed with an *)
(* error.                                                                  *)
(***************************************************************************)
Closed(t) == \E r \in Rows : r.task = t /\ r.state \in Terminal

\* Slip: only the latest row of the task is looked at.
AdmissibleLatest(row) ==
    IF row.state = "evidence_observed"
    THEN \A r \in Latest(TurnOf[row.task]) : r.task = row.task => r.state \notin Terminal
    ELSE row.state # "completed" => row.detail = {}

Admissible(row) ==
    IF row.state = "evidence_observed" THEN ~Closed(row.task)
    ELSE row.state # "completed" => row.detail = {}

Look(p) ==
    /\ job[p].step = "look"
    /\ ~Used(job[p].row.key) /\ Admissible(job[p].row)
    /\ job' = [job EXCEPT ![p].step = "write"]
    /\ UNCHANGED <<journal, credits, told>>

Replay(p) ==
    /\ job[p].step = "look"
    /\ job[p].row \in Rows
    /\ told' = told \cup {job[p].row}
    /\ job' = [job EXCEPT ![p] = Idle]
    /\ UNCHANGED <<journal, credits>>

\* Slip: the answer does not wait for an outcome.
ReplayAnyEvidence(p) ==
    /\ job[p].step = "look"
    /\ ~Used(job[p].row.key)
    /\ job[p].row.state = "evidence_observed"
    /\ told' = told \cup {job[p].row}
    /\ job' = [job EXCEPT ![p] = Idle]
    /\ UNCHANGED <<journal, credits>>

ReplayClosed(p) ==
    /\ job[p].step = "look"
    /\ ~Used(job[p].row.key)
    /\ job[p].row.state = "evidence_observed" /\ Closed(job[p].row.task)
    /\ told' = told \cup {job[p].row}
    /\ job' = [job EXCEPT ![p] = Idle]
    /\ UNCHANGED <<journal, credits>>

EvidenceOf(t) == {r.key : r \in {r \in Rows : r.task = t /\ r.state = "evidence_observed"}}

Credit(row, a) ==
    [by |-> IF a.feedback = None THEN row.key ELSE a.feedback,
     task |-> row.task, memory |-> a.memory, state |-> a.state, evidence |-> a.evidence]

\* Slip: evidence of any task will do.
BackedByAny(row, a) ==
    /\ a.memory \in Retrieved[row.task]
    /\ a.state \in Verdicts =>
          IF a.feedback = None THEN \E t \in Task : a.evidence \in EvidenceOf(t)
          ELSE Credit(row, a) \in credits
    /\ a.state \notin Verdicts /\ a.evidence # None => \E t \in Task : a.evidence \in EvidenceOf(t)

\* An attribution names a memory the task's session retrieved.  A verdict
\* needs evidence of the same task, or a feedback event that agrees with it
\* in everything; for "injected" only the foreign key asks whether the
\* evidence exists.
Backed(row, a) ==
    /\ a.memory \in Retrieved[row.task]
    /\ a.state \in Verdicts =>
          IF a.feedback = None THEN a.evidence \in EvidenceOf(row.task)
          ELSE Credit(row, a) \in credits
    /\ a.state \notin Verdicts /\ a.evidence # None => \E t \in Task : a.evidence \in EvidenceOf(t)

Attributed(row) == IF row.state = "completed" THEN row.detail ELSE {}

\* Slip: an attribution that cites a feedback event ends the loop.
NewCreditsUncited(row) ==
    {Credit(row, a) : a \in {a \in Attributed(row) :
        a.state \in Verdicts /\ \A b \in Attributed(row) : b.feedback = None}}

NewCredits(row) ==
    {Credit(row, a) : a \in {a \in Attributed(row) : a.state \in Verdicts /\ a.feedback = None}}

\* The transaction: everything or nothing.  A key used meanwhile violates
\* the UNIQUE constraint and rolls back.
Commit(p) ==
    LET row == job[p].row IN
    /\ job[p].step = "write"
    /\ ~Used(row.key) /\ Room
    /\ \A a \in Attributed(row) : Backed(row, a)
    /\ journal' = Append(journal, row)
    /\ credits' = credits \cup NewCredits(row)
    /\ told' = told \cup {row}
    /\ job' = [job EXCEPT ![p] = Idle]

\* Slip: the request is left behind.
GiveUpHalf(p) ==
    /\ job[p] # Idle
    /\ job' = [job EXCEPT ![p].step = "idle"]
    /\ UNCHANGED <<journal, credits, told>>

\* The call is refused, its transaction fails or rolls back, or the process
\* dies: nothing was written.
GiveUp(p) ==
    /\ job[p] # Idle
    /\ job' = [job EXCEPT ![p] = Idle]
    /\ UNCHANGED <<journal, credits, told>>

Next ==
    \/ \E t \in Task, prompt \in Text : Begin(t, prompt)
    \/ \E p \in Proc, turn \in Turn, use \in Use, output \in Text : PostTool(p, turn, use, output)
    \/ \E p \in Proc, t \in Task, request \in Request : Complete(p, t, request)
    \/ \E p \in Proc, turn \in Turn : Stop(p, turn)
    \/ \E turn \in Turn : StopClosed(turn)
    \/ \E p \in Proc : Look(p) \/ Replay(p) \/ ReplayClosed(p) \/ Commit(p) \/ GiveUp(p)

Spec == Init /\ [][Next]_vars

(***************************************************************************)
(* Properties.                                                             *)
(***************************************************************************)

\* Every variable keeps its type.
TaskTypeOK ==
    /\ journal \in Seq(Row)
    /\ credits \subseteq [by : Key, task : Task, memory : Memory, state : Verdicts, evidence : Use]
    /\ told \subseteq Row
    /\ job \in [Proc -> [step : {"idle"}, row : {None}] \cup [step : {"look", "write"}, row : Row]]

\* What "recorded" and "replayed" stand for: the request itself is on
\* record, or it is a hook's and its task has an outcome that made it moot.
Answered(row) ==
    \/ row \in Rows
    \/ (row.state = "evidence_observed" \/ row.key \in Turn) /\ Closed(row.task)

\* An answer is the truth: whoever is told "recorded" or "replayed", in
\* however many retries by whatever processes, finds exactly the request it
\* made in the journal, once; only evidence and an abandonment are answered
\* so with nothing recorded (TASK_ALREADY_TERMINAL, test_orchestrator.c),
\* and never while their task is open.
ToldTrue ==
    /\ \A row \in told : Answered(row)
    /\ \A m, n \in DOMAIN journal : journal[m].key = journal[n].key => m = n

\* A memory is credited by a completion of a task that retrieved it, on
\* evidence that was recorded for this same task, and before it.
CreditGrounded ==
    \A c \in credits :
        /\ c.memory \in Retrieved[c.task]
        /\ \E m, n \in DOMAIN journal :
              /\ m < n
              /\ journal[m].task = c.task /\ journal[m].key = c.evidence
              /\ journal[m].state = "evidence_observed"
              /\ journal[n].task = c.task /\ journal[n].key = c.by /\ journal[n].state = "completed"

\* A completion took effect as a whole: every verdict in the list of a
\* completed task is on record, with its evidence.
OutcomeWhole ==
    \A r \in Rows : \A a \in Attributed(r) : a.state \in Verdicts => Credit(r, a) \in credits

\* Credits and outcomes agree, however calls interleave, fail and are sent
\* again: no credit without a task that retrieved the memory and recorded its
\* evidence before, and no completed task with a verdict left out.
CreditSound == CreditGrounded /\ OutcomeWhole

Promise == INSTANCE TaskPromise WITH recorded <- Rows

\* Calls that look in one step and write in another implement calls that act
\* in one step, as TaskPromise states them.
CallsAtomic == Promise!Spec

\* The hooks that looked before a task got its outcome are all that can
\* still add evidence to it, once each: evidence after an outcome is bounded
\* by the processes there were at that time.
Late(t) ==
    {n \in DOMAIN journal :
        /\ journal[n].task = t /\ journal[n].state = "evidence_observed"
        /\ \E m \in 1 .. n - 1 : journal[m].task = t /\ journal[m].state \in Terminal}

Pending(t) ==
    {p \in Proc : job[p].step = "write" /\ job[p].row.task = t /\ job[p].row.state = "evidence_observed"}

LateBounded ==
    \A t \in Task : Closed(t) => Cardinality(Late(t)) + Cardinality(Pending(t)) < Cardinality(Proc)

\* A task with an outcome takes no more evidence (test_orchestrator.c: a
\* record_evidence after the completion is answered TASK_ALREADY_TERMINAL
\* and leaves the number of rows as it was).
ClosedToEvidence ==
    [][\A t \in Task : Closed(t) => EvidenceOf(t)' \subseteq EvidenceOf(t)]_vars
=============================================================================
