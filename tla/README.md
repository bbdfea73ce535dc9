# Specifications of neuroplastic-memory-mcp

TLA+ models of the long-term memory layer of this repository, TLC runs that
check them on small instances and TLAPS proofs for every size. The reference is
the code in `src/`; a definition names the code it stands for in the `map` of
`PROJECT.json`.

## 1. The system

`semantic-memory-mcp` is one C program started once per coding agent. Each
process is an MCP server that answers JSON-RPC requests one at a time; several
of them, the agents' hooks (short-lived processes) and the standalone memory
server open the same SQLite files. So nearly all concurrency in the memory layer
is **between processes, through the database**: a write transaction
(`BEGIN IMMEDIATE`, WAL mode) excludes other writers, and whatever a function
does in two transactions, or reads before its transaction, can be interleaved
with anything another process does. A process can die between any two of its
commits.

| Component | State | Operations | What is hard, what makes it correct |
|---|---|---|---|
| memory rows (`memory/memory_store.c`, `handle_events`) | `memory_item`, `memory_event`, audit events, feedback events | write (with `supersedes`), status, feedback, consolidate, decay, delete (soft, hard, purge), restore, retention sweep | delete and sweep look before they lock; superseded memories stay out of recall; erasure complete and audited; anchored decisions never swept; feedback once |
| memory indexes (same file) | `memory_fts`, `memory_vec`, `memory_edge` | kept by the above; `reindex_fts` | the rebuild is not a transaction; nothing of an erased memory stays, what recall may show is found |
| automatic maintenance (`maintain_if_due`) | stamps in `memory_meta` | consolidate, decay and sweep when due, called from recall and write | no lock between processes, lost and backward stamps; passes come at last and not too often |
| task orchestrator (`memory_orchestrator.c`, hooks) | append-only `codex_task_lifecycle`, evidence, attributions, audit chain | begin, evidence, complete, abandon | checks before the transaction; retries under idempotency keys; late evidence and second outcomes |
| edge lifecycle (`edge_lifecycle.c`) | `edge_lifecycle_state`, runs, decisions, hash-linked audit | maintenance, restore, audit verification | decisions are made on a state that may be gone when they are written; the audit must account for every row, a run take effect once, and only a restore open an edge again |
| concept growth and review (`concept_growth.c`) | candidates, versions, review events, nodes | propose, edit, approve, reject, withdraw | state and version are read before the transaction; one node per approval, no edit lost under another |
| evolution (`evolution_engine.c`) | journal of applied tasks in two databases, maintenance lease and checkpoints | apply a task, run leased maintenance by phases | commit over two files, lease takeover, resume from a checkpoint; no batch twice, and a run that is begun ends |
| global memory (`global_memory.c`) | one database for all projects, migration inventories | open, task calls, staged migration with publish and adopt | crash between stages |
| observation (`memory_observe.c`) | sessions, candidates, usages, feedback, scores | record, replay | arithmetic, idempotency |
| graph store (`store/`) | code graph in SQLite | upserts, search, traversal | transactions the above rest on |
| indexing pipeline (`pipeline/`, `graph_buffer/`, `discover/`) | graph buffer, registry, per-file results | full and incremental indexing with a worker pool | parallel passes, dump to SQLite |
| supervisor, watcher (`mcp/index_supervisor.c`, `watcher/`) | worker process, watched projects | run, time out, poll | crash isolation, adaptive polling |
| query, interface, tools (`cypher/`, `semantic/`, `simhash/`, `ui/`, `cli/`) | none of their own, or files | read-only queries, HTTP, installation | parsing and I/O |

How they meet: `handle_events` writes a memory and its index rows in one
transaction and then calls `maintain_if_due`; the recall handler calls it on the
project's database and on the global one before it searches; completing a task
through `handle_memory_task_complete` calls the evolution engine, which reads the
orchestrator's rows; the engine's maintenance run calls consolidation, decay and
edge maintenance inside transactions of its own.

Left aside: vendored parsers and grammars (`internal/`, `vendored/`), the web
front end, packaging, scripts.

## 2. Plan

Done, in this order:

1. `MemoryStore`, its abstract specification `MemoryPromise`, proofs.
2. `MemoryIndex`, proofs.
3. `Maintenance`.
4. `TaskLifecycle`, proofs.
5. `EdgeLifecycle`, proofs: plan and persist apart.
6. `ConceptReview`, proofs: generation runs and reviewers that race.
7. `MaintenanceRun` and its abstract specification `MaintenancePromise`, proofs:
   the evolution engine's leased run with takeovers and checkpoints.
8. `Maintenance_proofs`, and `LateBounded` of `TaskLifecycle`.
9. Properties that relate a state to its history, and their proofs: verdicts that
   stand and sweeps that were overtaken (`MemoryStore`), what the journal of a
   maintenance run makes impossible (`StuckOnlyDry`), relations without a circle
   (`ConceptReview`).
10. Two more refinements with proofs: `MemoryIndex` implements `MemoryPromise` too, and
   `TaskLifecycle` the atomic calls of `TaskPromise`.

What would come next: `cbm_evolution_apply_completed_task` on top of
`TaskLifecycle` (which task rows it takes, and one effect per task in each
database), the staged migration of the global memory, the worker pool and the
incremental index.

## 3. Modules

`Slip` in a comment marks a definition that is no part of the specification: the
definition after it with a plausible mistake. Each property of a passing run is
violated when the slip listed under `mutants` takes its definition's place.

### MemoryStore

A memory database: a project's own, or the global one. `status`, `deletedAt`,
`supersedes` are columns of `memory_item`; `scoped` are the rows whose
`scope_project` is the callers' project, all of them in a project's database and
none in the global one, where the column is NULL; `replaced` remembers which rows
a write or a merge has replaced. `source` is which source events exist; `audit` the audit events
of status changes, restores and erasures (the event of a soft delete is left
out: nothing depends on it); `feedback` and `applied` what each idempotency key
acted on, whether its verdict retires the memory, and how often scores moved; `cited` the items a recall has recorded in
`retrieval_candidate`. `job` is what a process holds in memory
between two statements.

* A transaction is one action. One that fails rolls back and is a stutter.
* `Retire` archives the target of a superseding write only if it is `scoped`, as the
  UPDATE in `handle_events` asks: in the global database the link is written and
  the superseded memory stays in recall. The sweep selects scoped rows only
  (`Victims`); consolidation runs on the callers' project or on the whole database
  (`BatchOK`).
* `DeletePreflight` and `SoftDelete`/`HardDelete` are the two halves of
  `cbm_store_memory_delete`: the item is read before the transaction, and only
  soft mode has `deleted_at IS NULL` in its statement. `SweepSelect` and
  `SweepErase` are the two halves of `cbm_store_memory_purge_expired`.
  `Abandon` is a process that dies, or whose `BEGIN` fails, in between.
* `Consolidate` is the whole batch. The order in which SQLite yields the
  candidates decides which of several alike is promoted; `Promotable` and
  `LastMerged` describe the outcome of all orders.
* Every recall records what it returned, and those records reference
  `memory_item` ON DELETE RESTRICT: a hard delete, purge or sweep of a recalled
  memory fails and rolls back, the whole batch of a sweep included (`Erasable`).
  Other tables that reference a memory (task attributions, concept sources) do so
  for memories that were recalled or proposed, with the same effect.
* `Similar` stands for the cosine test within one entity, predicate and scope
  (`Bucket`). The query returns `CompareLimit` rows (20 in the code) in no stated
  order: a memory is `Crowded` if these may all be unlike it, and is promoted then
  although another one is like it.
* Scores are left out; `DecayPass` archives any set of active rows. `retired`
  stands for deprecated, archived and retracted alike.

`MemoryPromise` is what a client may count on: a memory is unwritten, shown,
withdrawn or erased; once erased it stays so, a write shows exactly one new
memory and only withdraws others, and a withdrawn memory comes back only alone.
`MemoryStore!Fate` is the refinement mapping.

### MemoryIndex

The rows again, with the three tables recall finds them through. Each operation
on rows is one action with what it does to every index (`Decay`, to none).
`cbm_store_memory_reindex_fts`
is seven: the wipe, the opening of the read cursor, and per row a delete, an
insert or a skip. While a read cursor is open its connection writes on a
snapshot, and SQLite refuses the write (`SQLITE_BUSY_SNAPSHOT`) once another
connection has committed: `fresh` is that condition, `Commit` clears it for the
others. `byHand` remembers whose status a client has set. `MemoryIndex!Fate` maps
the rows to `MemoryPromise`: this model and `MemoryStore`, two views of one table,
keep the same promise.

### Maintenance

`cbm_store_memory_maintain_if_due` step by step: `Begin` reads the clock and
counts candidates, `Check` decides whether a pass is due, `Run` is the pass,
`Stamp` writes the time the call began. `RunFails`, `StampFails` and `Crash` are
faults, of which there are finitely many. Ages are relative and cut off where no
test can tell more (`Far`). One memory is followed, red-lined or not (`RedLined`: a
decision, constraint or lesson anchored to code, which the sweep does not select); of the others it matters how many add to the count, and
whether one that is past its grace window is on record in `retrieval_candidate`:
`Recall` records, `RunRefused` is a sweep that such a record makes roll back.

### TaskLifecycle

The tasks of the agents' turns in the global database. `journal` is
`codex_task_lifecycle` in rowid order; a row carries the call that appended it
(state, what its payload hash covers, key), so two calls are one request when
their rows are equal. `credits` are the feedback events and attributions that
completions wrote; `told` the calls that were answered "recorded" or "replayed",
those included that the code answers so without a row.
`job` is what a hook or server is about to write.

* `Begin` is one transaction (`cbm_global_task_begin`); its two rows are one.
  A repeated begin is answered with a conflict when its turn has a later task:
  the model may skip the replay, nothing changes either way.
* `PostTool` and `Stop` are the hooks' look at the turn's latest row, from which
  they take the task; `Complete` is an agent's call. `Look` is the lookup of the
  key and the terminal test before the transaction, `Replay` the answer to a
  known key, `ReplayClosed` the answer "replayed" (`TASK_ALREADY_TERMINAL`) to evidence
  for a task that has an outcome and `StopClosed` the one to the abandonment of such a
  task, neither with a row, `Commit` the transaction with everything in it, `GiveUp` any
  refusal, rollback or death before it.
* `Backed` is what a completion demands of each attribution: a memory in the
  task's retrieval session, and evidence of the same task or an earlier feedback
  event that agrees in everything.
* The stop hook's key is made of session and turn, so it abandons one task of a
  turn at most.
* `TaskPromise` is the same service without processes: a set of recorded calls on
  which each call acts in one step, recorded under a key nobody used, found on
  record, or `Moot`: a hook's call for a task that has an outcome. Its state is `Rows`, `credits` and `told`; that credits come with the
  recording of a completed task only, all of them and on evidence that is there,
  is a matter of its steps.
* Left out: the hash-linked plasticity audit (it repeats `credits` in their
  order), feedback events recorded by `memory_feedback`, the schema migration.

### EdgeLifecycle

The state rows of memory edges (`row`), the audit of each edge in its order
(`audit`), the recorded runs with their decisions (`done`), the manifests
(`approved`) and what each process has decided and not yet written (`job`). A run
stands for its id and its request.

* `Approve` is the preview of a run and the manifest made of its report. `Decide`
  is the look of an active run: not recorded yet, and the decisions it comes to
  now are the manifest's. `Write` is `stage9_persist`, which looks at the states
  only to see whether an edge has a row. `Maintain` is both in one transaction,
  as the maintenance controller calls it.
* `Judged` is `stage9_decide`. Ages are times of the run's frozen clock; whether
  failures outweigh successes and conductance is low is one fact per edge
  (`failing`), the reasons for protection one set (`Protected`).
* `Signal` and `Disable` are what other code and hands do: feedback that turns
  the evidence, and the blocking of an edge in its row.

### ConceptReview

`version`, `node` and `relation` are rows of the tables of those names, `reviews`
the review events of each candidate in order; `eligible` is what a generation
would collect now. A process that has collected or looked holds its request and
the version it read (`job`).

* `Collect` and `Generate` are the two halves of `stage10_concept_generate`,
  `GenerateWithin` both inside the controller's transaction. `New` are the keys of
  run and candidates: one known candidate makes the whole run roll back.
* `Look` reads key and version, `Check` the state, each a statement of its own before
  the transaction; `Commit` writes what was asked with that version. (The key is
  read just before the version; one that is taken in between makes `Commit` fail.) What protects it are the keys of the tables: `Fresh` (of the event),
  `NextVersion` (of a version), `NodeFree` (of a node).
* `Judge` changes the evidence, and so what is eligible.

### MaintenanceRun

`evo_maintenance_controller`. `run` is the stored checkpoint of each run, `lease`
the project's lease, `journal` the keys of the events written; `ctl` is what a
process remembers: its run, the checkpoint it last committed, and whether it is
about to pause. `touched` counts how often a run decayed a memory.

* `Begin` and `Resume` are `evo_initialize_maintenance`. Each phase is one action,
  a batch of it with the checkpoint and the event of the same transaction
  (`PhaseCommit`); `Holds` is the fence of `evo_store_checkpoint`.
* `Interrupt` and `Pause` are a batch that fails or runs out of time and the
  transaction that says so; `Refused` a commit that is fenced off or asks for a
  key that is taken (`Collides`); `Leave` a death. `Expire` lets the lease run out
  at any moment, its holder alive or not.
* Consolidation and decay are here only as far as the run counts them: which
  memories a batch takes, in the order of ids for decay. What edge and concept
  passes come to is one value each, compared with the manifests of the run; the
  passes themselves are `EdgeLifecycle!Maintain` and
  `ConceptReview!GenerateWithin`.
* `Others` is everything else that writes to the database.

`MaintenancePromise` is what a run promises: its stages come in order, one at a
time; memories are decayed in the second only, each once at most and no more
than the limit. `Stage` and `touched` are the refinement mapping.

## 4. What is checked

| Run | Instance | Shows |
|---|---|---|
| `memory_store` | two memories that state one fact, one of them an anchored decision, in a project's database or in the global one; two processes; one feedback key; soft and hard delete; one unit of grace and two instants | the invariants below and that the store implements `MemoryPromise` |
| `sweep` (violation) | the same, soft delete only | a restored memory is erased by a sweep that selected it before |
| `memory_index` | two memories, two processes | index invariants under overlapping rebuilds and crashes, and that the rows implement `MemoryPromise` |
| `maintenance` | two processes, one fault, a call of at most one unit | liveness of consolidation and sweep, rhythm of decay |
| `maintenance_cited` (violation) | one process, another expired memory on record | one recalled memory that was deleted keeps every memory of the project from being swept |
| `maintenance_global` (violation) | the recall handler's arguments for the global store | a global candidate is never consolidated |
| `task_lifecycle` | two tasks of one turn, two tool uses, four completions under two keys, two processes, five rows, one answer without a row | the journal tells the truth and credits are grounded, in every order of hooks and agent; split calls implement atomic ones |
| `task_late` (violation) | the same | evidence is added to a completed task |
| `maintenance_run` | two runs, two processes, two memories, batches of one and a limit of two, two attempts, one change by others | no takeover repeats or loses a batch, keys collide in one case only, and a run that is begun is completed although another one takes the lease |
| `maintenance_run_resume` (violation) | one run, no changes by others | a run that lost its lease and whose candidates fill its batches cannot go on when it is resumed |
| `edge_lifecycle` | two edges, one protected; three maintenance runs at two times and a restore; two processes | audit, single effect and no revival under stale decisions |
| `concept_review` | two candidates, three generation runs, eight review requests, two processes | one node per approval, linear versions, one effect per key and no circle of relations under racing reviewers |

Properties of the passing runs:

* `SupersededHidden`: what a merge, or a write that names a memory of its own project,
  has replaced is not recalled again, in any order of supersede, merge, delete,
  restore and feedback, also when the link to it is overwritten. In the global
  database only merges replace.
* `TombstoneIffErased`, `ErasureReachesEvents`, `RedLine`: an erased memory has
  its tombstone and no other has; its source event is gone exactly when a purge
  or sweep covered it; an anchored decision is swept in no interleaving.
* `CitationsStand`: a memory that a recall has on record keeps its row.
* `FeedbackStands`, `NoSilentDuplicate`: retries move scores once, and a verdict that
  retired a memory stands until its status is set by hand; consolidation
  never makes two active memories of one fact, also within one batch, while one
  comparison reaches all memories of their kind.
* `SweepErasesDropped`: the finding of `sweep` is all that can go wrong: what a sweep
  erases is past its grace window then, or had been restored.
* `PromiseKept`, `IndexPromiseKept`: the refinements of `MemoryPromise`.
* `NoOrphans`, `ActiveHasVector`, `QuietReindexHeals`: nothing of an erased
  memory in any index at any moment of a rebuild; an active memory without
  embedding is one whose status was set by hand; a rebuild nobody disturbed
  leaves everything recallable searchable, whatever it found.
* `Backstop`, `EventuallySwept`, `OwnRhythm`: a waiting candidate is consolidated
  and a row past its grace window erased (or they are deleted, restored, or a
  recall's record of an expired row blocks the sweep; a red-lined row is never
  erased); a
  process keeps its interval, less the duration of a call, although the other
  process's stamps may put the clock back.
* `ToldTrue`: whoever was told "recorded" or "replayed" finds its request in the
  journal, or sent evidence or an abandonment for a task that has an outcome, which
  the code answers "replayed" and does not record; and each key is there once,
  though the key is looked up outside the transaction.
* `CreditSound` (`CreditGrounded`, `OutcomeWhole`): a memory is credited on evidence
  recorded earlier for the same task that retrieved it; a completion's verdicts are
  all on record or the completion is not.
* `CallsAtomic`: the refinement of `TaskPromise`. Nobody can tell from the journal,
  the credits and the answers that a call looks the key up outside its transaction.
  (That the terminal test is outside it can be told: `task_late`.)
* `LateBounded`: evidence still arrives after an outcome (`task_late`), but only
  from processes that had looked before it.
* `AuditTold`, `RunOnce`, `NeverRevived`: although decisions are written on states
  that may be gone, every row has as many audit events as versions and the last
  one tells its state (or a hand has disabled it); a run is recorded once, with
  what a manifest approved; no maintenance opens an edge that must not be walked.
* `ProposedOnce`, `KeysOnce`, `VersionsLinear`, `ApprovalSound` (`NodeApproved`,
  `WithdrawGrounded`), `Acyclic`: what racing generation runs and reviewers leave
  behind, with no lock between look and commit.
* `FenceSound`, `Accounted` (`DecayOnce`, `Counted`), `RunPromiseKept`, `Finishes`: at
  most one process can commit and it knows what is stored; no memory is decayed
  twice and the checkpoint counts exactly what was done; the refinement; a run whose
  caller asks again is completed, unless its next transaction is impossible: another
  run that holds the lease keeps it only until it ends or lapses.
* `StuckOnlyDry`: how far the finding of `maintenance_run_resume` goes: the key of
  the next transaction is taken exactly if a batch finds nothing after one that did
  something. Resuming and pausing never collide.

What these runs do **not** promise, because the code does not: that an edge
decision is still right when it is written (an archived edge can become cold
again, a manual disable can be overwritten), that a rejection excludes an
approval looked up before it, that an edit does not follow an approval, and that
generation goes on while a known candidate stays eligible; that a memory of the global
database that was superseded leaves recall, or that what was restored or set
active by hand is compared with other memories again.

The five violation runs are disagreements between code and its documentation;
`findings` in `PROJECT.json` quotes both sides. Two that the models show and no
run states: a merge overwrites the survivor's `supersedes`
(`MemoryStore!LastMerged`), and `restore` does not index (`MemoryIndex!Restore`). And a
third: the comment at `handle_events` (`mcp_memory_handlers.c:1340`) has an explicit
`supersedes` retire the old memory from recall, but a global write archives nothing
(`MemoryStore!Retire`; the answer then carries a warning, line 1364). All three are among
the hazards.

### Bounds

Every constant of a `.cfg` bounds the instance. Two memories are enough for the
pairwise properties (superseding, alike, merged into). Two processes are enough for the split operations, each of which
races one other commit. `MaxTime = Grace = 1` gives a delete, a grace window that
passes, and a sweep. In the global database, where the sweep selects nothing,
`GlobalBound` stops the clock and lets one process at a time be inside a delete.
`CompareLimit = 1` crowds nothing while there are two memories; TLC has checked three
memories of one kind as well, two of them alike, in both kinds of database
(2,952,974 states), and finds the duplicate if `NoSilentDuplicate` does not allow for
`Crowded`. Rows of both kinds in one database are left to the proofs, and so is
"purge": with two processes in play a third mode multiplies states, and the hard mode
with the sweep covers both treatments of source events. Recalls return the note only (`Retrieved`) and feedback
judges it, and in `maintenance` the followed memory only (`Recorded`); the other one is on record in
`maintenance_cited`. In `Maintenance` a sweep is due after one unit, decay and the
backstop after two, `RedLined` is false, as the liveness of a red-lined row says nothing,
and `OwnRhythm` watches the decay pass of one process, all
processes and interval passes being alike. `Threshold = 2` with `Others = 1`
makes counts of zero, below the threshold and at it possible.

In `task_lifecycle`, `MaxRows = 5` leaves room for two begins, evidence, a
completion and a second one that cites it, and for two late rows after a begin
and an outcome, which `LateBounded` must exclude with two processes. `MootBound` allows
one answered request that is not on record. The requests
contain a list that one of the tasks must refuse half-way, an outcome that
forbids attributions, and keys that two tasks share.

In `maintenance_run`, two memories in batches of one and a limit of two give full,
part-filled and closing batches; `Rows` starts them as candidates or as active
with a decay that must be cut off. `MaxAttempt = 2` bounds what can go wrong: the
last attempt neither dies nor is interrupted nor lapses, which `Finishes` needs,
and the one before it may at any step. Two runs share the lease; `RunBound` lets the
second begin after the first, which is no restriction as they are alike, and others
write while there is one run. TLC has also checked one run with three attempts (136,782
states), the safety properties with three memories in batches of two, and
the proofs hold for any number of all of these. `MaxMoves = 1` is one change by
another process, at any moment.

`edge_lifecycle` has maintenance runs at times 1, 1 and 2 with `ColdAge = Dwell = 1`,
so that an edge goes cold, is archived in a later run and restored, while the
repeated run of time 1 brings a stale decision. `concept_review` has two requests
of each kind that can race, one that uses a key again for another candidate. Two approvals of the narrow concept
relate it to itself and to the wide one, whose approval relates it to the narrow
one: a circle, if the code did not ask for the related node to exist.

Deadlock is not checked: every model comes to an end, of ids to issue or of time.

### Fairness

`Maintenance`: weak fairness of each process's steps, and of time. A step follows
the previous one in the same call, so weak fairness of steps is that a running
process runs. That a process calls again rests on agents going on to recall:
`maintain_if_due` has no timer. Faults are bounded: with a fault at every pass
nothing could be promised.

`MaintenanceRun!FairSpec`: weak fairness of each process's work within a call; of
`Expire`, as the lease has an absolute time; and, for each run, of some process
resuming it. This is an assumption about callers: nothing in the code retries, the
controller never resumes by itself, and whoever wants a run to end calls again with
the same input, as the result `CBM_STORE_CHECKPOINTED` asks for. That another run's
lease does not keep it out for ever is checked, not assumed. Nothing is
assumed of `Leave`, `Interrupt` or others' writes but that faults come to an end.

## 5. What is proved

In the modules named `..._proofs`, for every set of items, tasks, requests, edges,
runs, candidates, keys and processes, every `Similar`, interval, grace, age, batch
size and limit, from the assumption each module states about its constants alone.

* `Invariance` (`Spec => []IInv`): `TypeOK`, `SupersededHidden`, `RedLine`,
  `TombstoneIffErased`, `ErasureReachesEvents`, `NoSilentDuplicate`,
  `CitationsStand` and `FeedbackCounted`, together with what makes them inductive: `LinkInv` (what was
  replaced is out of the recallable statuses, deleted or not, as a restore shows), `JobInv` (what a process holds between its
  statements was written once, and a sweep holds nothing anchored) and `Blank`
  (only rows are soft-deleted). The safety theorems follow from it. They hold for
  databases that mix rows of the callers' project with others, and for any
  `CompareLimit`: once a memory is `Crowded` it stays so (`CrowdedGrows`).
* `Remembered` adds what relates a state to its history. `VerdictInv`: a memory that a
  verdict retired is out of the recallable statuses, soft-deleted or not, unless
  its status was set by hand; being hidden alone is not inductive, as a restore
  shows. `SweepInv`: what a process in the middle of a sweep holds is past its
  grace window, was restored, or is erased already. `VerdictsStand` and `SweepsGrounded`, an
  action property, follow.
* `Implementation` (`Spec => PromiseKept`): each action maps to a step of
  `MemoryPromise` or leaves `Fate` unchanged (`StepPromise`).
* `IndexInvariance`: `NoOrphans` is inductive only with the claim a cursor has on
  its rows: while a cursor is fresh every row on its list exists. The other
  index theorems follow from it, and `IndexImplementation` (`IndexPromiseKept`) with
  `FateTold`, what `Fate` tells of the columns.
* `TaskInvariant`: `TaskTypeOK`, `ToldTrue`, `CreditGrounded` and `OutcomeWhole`
  with `KeyedInv`, which says what kind of key evidence and completions have, in
  the journal and in what processes are about to write. Only a begin and a
  `Commit` write; lemmas `OneMore` and `AppendKeeps` treat the new row once, and
  `AnsweredLasts` what was answered before.
* `TaskImplementation` (`Spec => CallsAtomic`): a begin or a `Commit` is `Record` (lemmas
  `BeginRecords`, `CommitRecords`), an answer to a known key is `Replay`, one without a
  row is `Moot`, a look or a refusal is none (`StepTaskPromise`). That a replayed call is still on record needs
  the invariant; that `Commit` finds its key unused is the code's UNIQUE column.
* `LateHolds`: `LateBounded` is inductive by counting (`LateAppend`, `LateCommit`): an
  outcome takes its writer out of those about to write evidence, afterwards late
  rows and pending ones trade places. It is what needs `Proc` to be finite.
* `MaintenanceInvariant`, `RhythmHolds`: types, and `OwnRhythm` from `RhythmInv`, which
  compares the stamp of the watched pass with the time its process has rested.
* `EdgeInvariant`: `EdgeTypeOK`, `AuditTold` and `RunOnce` with `PlanInv`, what holds of a
  plan that is not written yet although the edges may have changed. `RevivalHolds`
  (`NeverRevived`) follows from it.
* `ReviewInvariant`: `ReviewTypeOK`, `ProposedOnce`, `KeysOnce`, `VersionsLinear`,
  `NodeApproved` and `WithdrawGrounded` with `HeldInv`, what a process that has looked
  may rely on: the candidate is known, the version it read is no later than the
  one there is, and if it is to withdraw and has checked the state, an approval is
  on record.
* `AcyclicHolds`: `Acyclic` is inductive with `Founded`: what a concept generalizes has
  its node. A relation is written with the node of its first concept, so nothing
  leads to that concept yet; `AddRelation` is the lemma about one relation more.
* `RunInvariant`: `RunTypeOK`, `FenceSound`, `DecayOnce` and `Counted` with `Started` and
  `Behind`, which relate a process that was given up to the stored checkpoint.
  `RunImplementation` (`Spec => RunPromiseKept`) maps every step of the controller
  to one of `MaintenancePromise` or to none (`StepRunPromise`).
* `StuckHolds`: `StuckOnlyDry` from `TraceInv`, which says what the journal tells of the
  work: `Traced` (the journal has of a run only keys of attempts and of counts it has
  `Made`, and has that of its present count unless this is zero), with it `Unfilled`
  (a phase is left when its count reaches the limit, so that the next batch has
  room), and `Unpaused` (the process that may still commit has not used the pause of
  its attempt). One lemma per kind of transaction keeps it (`AcquireTrace`,
  `BatchTrace`, `PassTrace`, `GiveBackTrace`, ...).

Only model-checked: liveness (`Backstop`, `EventuallySwept`, `Finishes`), which needs
fairness and `ENABLED`, out of the prover's reach, and the violation runs.

## 6. What is not modelled

* Within the modelled components: scores, embeddings and texts; the ranking and
  scope filters of recall; import and export; user scopes; schema migrations. The
  migrations of edge lifecycle and concept growth add triggers that forbid
  deletes from their tables; `MemoryStore`, `MemoryIndex` and `Maintenance` are about a
  database whose memories have no rows there.
* `cbm_evolution_apply_completed_task`: its commit over two attached databases is
  atomic by SQLite's super-journal, which a model could only assume, and what it
  writes is arithmetic on confidences.
* The global memory's migration (files copied, hashed and swapped), observation
  and scoring, security filters, project resolution.
* The code graph and its indexing, queries, parsers and grammars, the web
  interface, hooks and installer: they keep no shared state of their own, rebuild
  it from files, or are I/O. Together with generated and vendored tables they are
  by far most of the lines in `src/`.
