---------------------------- MODULE MemoryStore ----------------------------
(***************************************************************************)
(* The rows of a memory database - a project's own, or the global one that *)
(* all projects share - and the operations several MCP server processes    *)
(* run on them.  A write to the global database leaves scope_project NULL; *)
(* statements that compare the column do not reach its rows.               *)
(*                                                                         *)
(* The database is one SQLite file in WAL mode.  cbm_store_begin issues    *)
(* BEGIN IMMEDIATE, so a write transaction excludes every other writer: a  *)
(* transaction is one action here, and one that rolls back is a stutter.   *)
(* What is NOT in one transaction is split: cbm_store_memory_delete looks  *)
(* at the item before its transaction begins, and the retention sweep of   *)
(* cbm_store_memory_purge_expired collects its victims before it begins.   *)
(* Between those two steps any other process may run, or this one may die. *)
(*                                                                         *)
(* Scores (confidence, importance, decay, hit counts) are abstracted: a    *)
(* guard reads none of them except the decay threshold, which is a choice  *)
(* of DecayPass.  The full text, vector and edge tables are the subject of *)
(* MemoryIndex, the cadence of the automatic passes that of Maintenance.   *)
(*                                                                         *)
(* A definition under "Slip" is no part of the specification: it is the    *)
(* neighbouring definition with a plausible mistake, and a property must   *)
(* notice when it takes that definition's place.                           *)
(***************************************************************************)
EXTENDS Naturals, FiniteSets

CONSTANTS
    Item,       \* memory_item ids that may be issued (each id is fresh: memory_make_id)
    Proc,       \* MCP server processes sharing the database file
    FbKey,      \* feedback event ids, the callers' idempotency keys
    None,       \* SQL NULL
    Adr,        \* items of kind decision, constraint or lesson
    Anchored,   \* items written with an about_code edge
    Scopes,     \* for each kind of database, the ids whose scope_project is the callers' project
    Bucket,     \* for each item its entity, predicate and scopes: what the duplicate query compares
    Similar,    \* pairs of one bucket whose cosine is >= 0.90
    CompareLimit, \* LIMIT of the duplicate query (20)
    DeleteModes,\* modes callers pass; the MCP tool refuses "hard" and "purge"
    Retrieved,  \* bound: the memories that recalls return, and that feedback is about
    BatchLimit, \* LIMIT of one consolidation pass
    Grace,      \* grace_ms of the retention sweep
    MaxTime     \* bound on the clock

ASSUME StoreAssumption ==
    /\ Adr \subseteq Item /\ Anchored \subseteq Item
    /\ Retrieved \subseteq Item
    /\ Scopes \subseteq SUBSET Item
    /\ Similar \subseteq {pair \in Item \X Item :
          /\ Bucket[pair[1]] = Bucket[pair[2]]
          /\ \A scope \in Scopes : pair[1] \in scope <=> pair[2] \in scope}
    /\ CompareLimit \in Nat \ {0}
    /\ DeleteModes \subseteq {"soft", "hard", "purge"}
    /\ None \notin Item /\ None \notin Nat /\ None \notin [item : Item, retires : BOOLEAN]
    /\ Grace \in Nat /\ MaxTime \in Nat /\ BatchLimit \in Nat

VARIABLES
    status,     \* memory_item.status, and whether the row exists
    deletedAt,  \* memory_item.deleted_at
    scoped,     \* rows with scope_project = the callers' project, the others have NULL
    supersedes, \* memory_item.supersedes
    replaced,   \* history: rows that a write or a merge has replaced, and no hand reset since
    source,     \* items whose source event is in memory_event
    audit,      \* <<item, kind>> of its audit events: status changes, restores, erasures
    feedback,   \* each recorded feedback event: its item, and whether the verdict retires it
    applied,    \* how often the score update of each feedback key was made
    cited,      \* items some recall has recorded in retrieval_candidate
    now,        \* memory_now_ms
    job         \* what each process holds in memory between two statements

linkVars == <<scoped, supersedes, replaced>>
rowVars == <<status, deletedAt, linkVars>>
logVars == <<source, audit>>
fbVars  == <<feedback, applied, cited>>
vars    == <<status, deletedAt, scoped, supersedes, replaced, source, audit, feedback, applied, cited, now, job>>

\* deprecated, archived and retracted are one value: no statement of the
\* operations below tells them apart.  "unwritten" and "erased" have no row.
Recallable == {"candidate", "active"}
RowStatus  == Recallable \cup {"retired"}
Status     == RowStatus \cup {"unwritten", "erased"}
Mode       == {"hard", "purge", "sweep"}
AuditKind  == Mode \cup {"status_change", "restore"}

Time == 0 .. MaxTime
Written == {i \in Item : status[i] # "unwritten"}
Rows == {i \in Item : status[i] \in RowStatus}
Live == {i \in Rows : deletedAt[i] = None}

\* What cbm_store_memory_retrieve shows by default.
Visible == {i \in Live : status[i] \in Recallable}

Alike(i, j) == <<i, j>> \in Similar \/ <<j, i>> \in Similar

Idle == [op |-> "idle", batch |-> {}]

Init ==
    /\ status = [i \in Item |-> "unwritten"]
    /\ deletedAt = [i \in Item |-> None]
    /\ scoped \in Scopes
    /\ supersedes = [i \in Item |-> None]
    /\ replaced = {}
    /\ source = {} /\ audit = {}
    /\ feedback = [f \in FbKey |-> None]
    /\ applied = [f \in FbKey |-> 0]
    /\ cited = {}
    /\ now = 0
    /\ job = [p \in Proc |-> Idle]

(***************************************************************************)
(* handle_events: source event, candidate row and the retirement of the    *)
(* memory it supersedes commit together.  The target is archived whether   *)
(* or not it is soft-deleted, but only if its scope_project is the         *)
(* caller's: in the global database the link is written and nothing is     *)
(* archived.  A target that is gone leaves a dangling link.                *)
(***************************************************************************)
\* Slip: archive the target only while it is not soft-deleted.
RetireUndeleted(target) ==
    [i \in Item |-> IF i = target /\ i \in scoped \cap Live /\ status[i] \in Recallable
                    THEN "retired" ELSE status[i]]

Retire(target) ==
    [i \in Item |-> IF i = target /\ i \in scoped /\ status[i] \in Recallable
                    THEN "retired" ELSE status[i]]

WriteMemory(i, target) ==
    /\ status[i] = "unwritten"
    /\ target \in Written \cup {None}
    /\ status' = [Retire(target) EXCEPT ![i] = "candidate"]
    /\ supersedes' = [supersedes EXCEPT ![i] = target]
    /\ replaced' = replaced \cup ({target} \cap Rows \cap scoped)
    /\ source' = source \cup {i}
    /\ UNCHANGED <<deletedAt, scoped, audit, fbVars, now, job>>

(***************************************************************************)
(* Every recall records what it returns: memory_observe_record_batch, in a *)
(* transaction after the search, rejects an item whose row has gone since. *)
(***************************************************************************)
Recall(i) ==
    /\ i \in Retrieved \cap Rows
    /\ cited' = cited \cup {i}
    /\ UNCHANGED <<rowVars, logVars, feedback, applied, now, job>>

(***************************************************************************)
(* cbm_store_memory_update_status: any row to any status, soft-deleted     *)
(* rows included, with its audit event.                                    *)
(***************************************************************************)
UpdateStatus(i, s) ==
    /\ i \in Rows /\ s \in RowStatus
    /\ status' = [status EXCEPT ![i] = s]
    /\ replaced' = replaced \ {i}
    /\ audit' = audit \cup {<<i, "status_change">>}
    /\ UNCHANGED <<deletedAt, scoped, supersedes, source, fbVars, now, job>>

(***************************************************************************)
(* cbm_store_memory_feedback_idempotent: the key is looked up inside the   *)
(* transaction that applies the verdict and records it.  "useful" and      *)
(* "not_useful" move scores only; "wrong" and "stale" also retire the row. *)
(***************************************************************************)
\* Slip: a soft-deleted row only moves its scores.
FeedbackUndeleted(f, i, retires) ==
    /\ feedback[f] = None
    /\ i \in Retrieved \cap Rows
    /\ applied' = [applied EXCEPT ![f] = @ + 1]
    /\ feedback' = [feedback EXCEPT ![f] = [item |-> i, retires |-> retires]]
    /\ status' = IF retires /\ i \in Live THEN [status EXCEPT ![i] = "retired"] ELSE status
    /\ UNCHANGED <<deletedAt, linkVars, logVars, cited, now, job>>

Feedback(f, i, retires) ==
    /\ feedback[f] = None
    /\ i \in Retrieved \cap Rows
    /\ applied' = [applied EXCEPT ![f] = @ + 1]
    /\ feedback' = [feedback EXCEPT ![f] = [item |-> i, retires |-> retires]]
    /\ status' = IF retires THEN [status EXCEPT ![i] = "retired"] ELSE status
    /\ UNCHANGED <<deletedAt, linkVars, logVars, cited, now, job>>

\* A known key answers REPLAYED or IDEMPOTENCY_CONFLICT and writes nothing.
FeedbackReplay(f, i) ==
    /\ feedback[f] # None
    /\ i \in Item
    /\ UNCHANGED vars

(***************************************************************************)
(* memory_consolidate_impl: one transaction over up to BatchLimit          *)
(* candidates, of the whole database (memory_consolidate with scope        *)
(* global) or of the callers' project.  Each is compared with rows of its  *)
(* bucket that are active by then, those promoted earlier in this batch    *)
(* included: it is promoted when none is alike, and otherwise archived and *)
(* merged into one of them, whose supersedes column then names it.  In     *)
(* whatever order the cursor yields the batch, every one that is not       *)
(* promoted has a row to merge into, and of several merged into one row    *)
(* the last stays.  Two promoted ones are unlike, unless the comparison    *)
(* did not reach the other: the query returns CompareLimit rows, in no     *)
(* stated order, and misses a row made active by hand, which may not have  *)
(* an entity key yet.                                                      *)
(***************************************************************************)
Pending == {i \in Live : status[i] = "candidate"}
ActiveLive == {i \in Live : status[i] = "active"}

BatchOK(batch) ==
    /\ batch # {}
    /\ \E pool \in {Pending, Pending \cap scoped} :
          /\ batch \subseteq pool
          /\ \/ batch = pool /\ Cardinality(pool) <= BatchLimit
             \/ Cardinality(batch) = BatchLimit

\* There are CompareLimit rows the query may return for i, none of them alike.
Crowded(i, rows) ==
    \E seen \in SUBSET {j \in rows \ {i} : Bucket[j] = Bucket[i]} :
        Cardinality(seen) = CompareLimit /\ \A j \in seen : ~Alike(i, j)

\* Slip: compare with the rows active before the batch only.
PromotableStale(batch, promoted) ==
    /\ promoted \subseteq batch
    /\ \A i \in promoted, j \in ActiveLive :
          Alike(i, j) => Crowded(i, ActiveLive) \/ <<j, "status_change">> \in audit
    /\ \A i \in batch \ promoted : \E j \in ActiveLive : Alike(i, j)

Promotable(batch, promoted) ==
    LET rows == ActiveLive \cup promoted IN
    /\ promoted \subseteq batch
    /\ \A i \in promoted, j \in ActiveLive :
          Alike(i, j) => Crowded(i, rows) \/ <<j, "status_change">> \in audit
    /\ \A i, j \in promoted : i # j /\ Alike(i, j) => Crowded(i, rows) \/ Crowded(j, rows)
    /\ \A i \in batch \ promoted : \E j \in rows : Alike(i, j)

\* For each survivor, the duplicate merged into it last, if any: the one its
\* supersedes column keeps.  Every duplicate is merged into one survivor.
LastMerged(duplicates, survivors) ==
    {last \in [survivors -> duplicates \cup {None}] :
        \E into \in [duplicates -> survivors] :
            /\ \A d \in duplicates : Alike(d, into[d])
            /\ \A j \in survivors :
                  IF \E d \in duplicates : into[d] = j
                  THEN last[j] # None /\ into[last[j]] = j
                  ELSE last[j] = None}

Consolidate(batch, promoted) ==
    /\ BatchOK(batch)
    /\ Promotable(batch, promoted)
    /\ status' = [i \in Item |-> IF i \in promoted THEN "active"
                                 ELSE IF i \in batch THEN "retired" ELSE status[i]]
    /\ \E last \in LastMerged(batch \ promoted, ActiveLive \cup promoted) :
          supersedes' = [j \in Item |-> IF j \in DOMAIN last /\ last[j] # None
                                        THEN last[j] ELSE supersedes[j]]
    /\ replaced' = replaced \cup (batch \ promoted)
    /\ UNCHANGED <<deletedAt, scoped, logVars, fbVars, now, job>>

(***************************************************************************)
(* cbm_store_memory_decay: the active, undeleted rows whose decay reached  *)
(* 1.0 are archived.  Which ones do is left open.                          *)
(***************************************************************************)
\* Slip: a status outside the lifecycle.
DecayPassFaded(worn) ==
    /\ worn \subseteq ActiveLive /\ worn # {}
    /\ status' = [i \in Item |-> IF i \in worn THEN "faded" ELSE status[i]]
    /\ UNCHANGED <<deletedAt, linkVars, logVars, fbVars, now, job>>

DecayPass(worn) ==
    /\ worn \subseteq ActiveLive /\ worn # {}
    /\ status' = [i \in Item |-> IF i \in worn THEN "retired" ELSE status[i]]
    /\ UNCHANGED <<deletedAt, linkVars, logVars, fbVars, now, job>>

(***************************************************************************)
(* cbm_store_memory_delete: the pre-flight read, then the transaction.     *)
(* Only the soft mode looks at the row again; hard and purge erase what is *)
(* left of it and write their tombstone even when nothing is left.         *)
(***************************************************************************)
DeletePreflight(p, i, mode) ==
    /\ job[p] = Idle
    /\ i \in Rows /\ mode \in DeleteModes
    /\ job' = [job EXCEPT ![p] = [op |-> mode, batch |-> {i}]]
    /\ UNCHANGED <<rowVars, logVars, fbVars, now>>

SoftDelete(p) ==
    /\ job[p].op = "soft"
    /\ deletedAt' = [i \in Item |-> IF i \in job[p].batch \cap Live THEN now ELSE deletedAt[i]]
    /\ job' = [job EXCEPT ![p] = Idle]
    /\ UNCHANGED <<status, linkVars, logVars, fbVars, now>>

\* Slip: the sweep keeps the source events, as a hard delete does.
EraseRowsOnly(batch, mode) ==
    /\ status' = [i \in Item |-> IF i \in batch THEN "erased" ELSE status[i]]
    /\ deletedAt' = [i \in Item |-> IF i \in batch THEN None ELSE deletedAt[i]]
    /\ supersedes' = [i \in Item |-> IF i \in batch THEN None ELSE supersedes[i]]
    /\ replaced' = replaced \ batch
    /\ source' = IF mode = "purge" THEN source \ batch ELSE source
    /\ audit' = audit \cup (batch \X {mode})

\* Slip: the tombstones are written for the rows still soft-deleted only.
EraseRowsHalfAudited(batch, mode) ==
    /\ status' = [i \in Item |-> IF i \in batch THEN "erased" ELSE status[i]]
    /\ deletedAt' = [i \in Item |-> IF i \in batch THEN None ELSE deletedAt[i]]
    /\ supersedes' = [i \in Item |-> IF i \in batch THEN None ELSE supersedes[i]]
    /\ replaced' = replaced \ batch
    /\ source' = IF mode = "hard" THEN source ELSE source \ batch
    /\ audit' = audit \cup ({i \in batch : mode # "sweep" \/ i \notin Live} \X {mode})

\* memory_delete_rows for every item of batch, source events too when the
\* erasure covers them, each followed by its tombstone.
EraseRows(batch, mode) ==
    /\ status' = [i \in Item |-> IF i \in batch THEN "erased" ELSE status[i]]
    /\ deletedAt' = [i \in Item |-> IF i \in batch THEN None ELSE deletedAt[i]]
    /\ supersedes' = [i \in Item |-> IF i \in batch THEN None ELSE supersedes[i]]
    /\ replaced' = replaced \ batch
    /\ source' = IF mode = "hard" THEN source ELSE source \ batch
    /\ audit' = audit \cup (batch \X {mode})

\* Slip: only rows that are not soft-deleted are protected.
ErasableTrashed(batch) == batch \cap cited \cap Live = {}

\* retrieval_candidate references memory_item ON DELETE RESTRICT and
\* foreign_keys is on: one cited row makes the transaction roll back.
Erasable(batch) == batch \cap cited = {}

HardDelete(p) ==
    /\ job[p].op \in {"hard", "purge"}
    /\ Erasable(job[p].batch)
    /\ EraseRows(job[p].batch, job[p].op)
    /\ job' = [job EXCEPT ![p] = Idle]
    /\ UNCHANGED <<scoped, fbVars, now>>

\* Slip: the UPDATE forgets its WHERE id.
RestoreAll(i) ==
    /\ i \in Rows /\ deletedAt[i] # None
    /\ deletedAt' = [j \in Item |-> None]
    /\ audit' = audit \cup {<<i, "restore">>}
    /\ UNCHANGED <<status, linkVars, source, fbVars, now, job>>

Restore(i) ==
    /\ i \in Rows /\ deletedAt[i] # None
    /\ deletedAt' = [deletedAt EXCEPT ![i] = None]
    /\ audit' = audit \cup {<<i, "restore">>}
    /\ UNCHANGED <<status, linkVars, source, fbVars, now, job>>

(***************************************************************************)
(* cbm_store_memory_purge_expired: the victims are collected by a SELECT   *)
(* of its own; the transaction that follows erases exactly those.          *)
(***************************************************************************)
\* Slip: only live supersede links are worth protecting.
RedLinedHeads == {i \in Adr \cap Anchored : supersedes[i] # None}

RedLined == Adr \cap Anchored

Expired == {i \in Rows : deletedAt[i] # None /\ deletedAt[i] + Grace <= now}

\* The sweep is only ever called with a project (cbm_store_memory_maintain_if_due).
Victims == (Expired \cap scoped) \ RedLined

\* Slip: the grace window is forgotten.
SweepSelectEarly(p) ==
    /\ job[p] = Idle
    /\ {i \in (Rows \cap scoped) \ RedLined : deletedAt[i] # None} # {}
    /\ job' = [job EXCEPT ![p] =
          [op |-> "sweep", batch |-> {i \in (Rows \cap scoped) \ RedLined : deletedAt[i] # None}]]
    /\ UNCHANGED <<rowVars, logVars, fbVars, now>>

SweepSelect(p) ==
    /\ job[p] = Idle
    /\ Victims # {}
    /\ job' = [job EXCEPT ![p] = [op |-> "sweep", batch |-> Victims]]
    /\ UNCHANGED <<rowVars, logVars, fbVars, now>>

SweepErase(p) ==
    /\ job[p].op = "sweep"
    /\ Erasable(job[p].batch)
    /\ EraseRows(job[p].batch, "sweep")
    /\ job' = [job EXCEPT ![p] = Idle]
    /\ UNCHANGED <<scoped, fbVars, now>>

\* The process dies, or its transaction fails (a busy database, a cited row):
\* what it had collected is lost and nothing was written.
Abandon(p) ==
    /\ job[p] # Idle
    /\ job' = [job EXCEPT ![p] = Idle]
    /\ UNCHANGED <<rowVars, logVars, fbVars, now>>

Tick ==
    /\ now < MaxTime
    /\ now' = now + 1
    /\ UNCHANGED <<rowVars, logVars, fbVars, job>>

Next ==
    \/ \E i \in Item, target \in Item \cup {None} : WriteMemory(i, target)
    \/ \E i \in Item : Recall(i)
    \/ \E i \in Item, s \in RowStatus : UpdateStatus(i, s)
    \/ \E f \in FbKey, i \in Item, retires \in BOOLEAN : Feedback(f, i, retires)
    \/ \E f \in FbKey, i \in Item : FeedbackReplay(f, i)
    \/ \E batch \in SUBSET Pending : \E promoted \in SUBSET batch : Consolidate(batch, promoted)
    \/ \E worn \in SUBSET ActiveLive : DecayPass(worn)
    \/ \E p \in Proc, i \in Item, mode \in DeleteModes : DeletePreflight(p, i, mode)
    \/ \E p \in Proc : SoftDelete(p) \/ HardDelete(p)
    \/ \E i \in Item : Restore(i)
    \/ \E p \in Proc : SweepSelect(p) \/ SweepErase(p)
    \/ \E p \in Proc : Abandon(p)
    \/ Tick

Spec == Init /\ [][Next]_vars

(***************************************************************************)
(* Properties.                                                             *)
(***************************************************************************)

\* Every variable keeps its type; a row without a memory_item has no columns.
TypeOK ==
    /\ status \in [Item -> Status]
    /\ deletedAt \in [Item -> Time \cup {None}]
    /\ scoped \subseteq Item
    /\ supersedes \in [Item -> Item \cup {None}]
    /\ replaced \subseteq Item
    /\ source \subseteq Item
    /\ audit \subseteq (Item \X AuditKind)
    /\ feedback \in [FbKey -> [item : Item, retires : BOOLEAN] \cup {None}]
    /\ applied \in [FbKey -> Nat]
    /\ cited \subseteq Item
    /\ now \in Time
    /\ job \in [Proc -> [op : {"idle", "soft"} \cup Mode, batch : SUBSET Item]]

\* "Recall = latest link": a memory that was replaced - by a write under its
\* own project that names it in supersedes, or by a merge - is in no recall again
\* until somebody sets its status by hand: not after a restore, a consolidation
\* or feedback, not when a later merge overwrites the link, and not when the row
\* that replaced it is erased.  A write to the global database replaces nothing.
SupersededHidden == replaced \cap Visible = {}

\* The audit trail and the table agree: a 'delete' tombstone exists exactly
\* for the items whose row was erased, whichever process got there first.
TombstoneIffErased ==
    \A i \in Item : status[i] = "erased" <=> \E m \in Mode : <<i, m>> \in audit

\* P4 red line: no retention sweep erases a code-anchored decision,
\* constraint or lesson, whatever deletes, restores and sweeps overlap.
RedLine ==
    \A i \in Adr \cap Anchored : <<i, "sweep">> \notin audit

\* Provenance: a row's source event outlives the row, and is gone once an
\* erasure that covers it (purge or sweep) has run, in any order with a hard
\* delete of the same item.
ErasureReachesEvents ==
    /\ Rows \subseteq source
    /\ \A i \in Item : <<i, "sweep">> \in audit \/ <<i, "purge">> \in audit => i \notin source

\* What a recall has told an agent stays traceable: a memory on record in a
\* retrieval session has its row, whatever deletes and sweeps overlap.
CitationsStand == cited \subseteq Rows

\* A verdict takes effect once, however often the callers of several processes
\* retry it, and it stands: a memory that feedback called wrong or stale is in
\* no recall again unless somebody sets its status by hand - no restore, no
\* consolidation and no useful verdict of another caller brings it back.
FeedbackStands ==
    \A f \in FbKey :
        /\ applied[f] = IF feedback[f] = None THEN 0 ELSE 1
        /\ feedback[f] # None => LET i == feedback[f].item IN
              feedback[f].retires /\ <<i, "status_change">> \notin audit => i \notin Visible

\* Two active memories that state the same fact are never consolidation's
\* doing: somebody set the status of one by hand or restored it, or more
\* memories of their bucket were written than one comparison looks at.
NoSilentDuplicate ==
    \A i, j \in ActiveLive : i # j /\ Alike(i, j) =>
        \E k \in {i, j} :
            \/ \E a \in {"status_change", "restore"} : <<k, a>> \in audit
            \/ Crowded(k, Written)

\* How far a sweep goes that was overtaken between its two steps: it erases a
\* row before its grace window is over only if somebody had restored the row.
SweepErasesDropped ==
    [][\A i \in Rows : <<i, "sweep">> \in audit' \ audit =>
          i \in Expired \/ <<i, "restore">> \in audit]_vars

\* The store implements the promise made to its clients (MemoryPromise).
Fate ==
    [i \in Item |-> IF status[i] \notin RowStatus THEN status[i]
                    ELSE IF status[i] \in Recallable /\ deletedAt[i] = None THEN "shown"
                    ELSE "withdrawn"]

Promise == INSTANCE MemoryPromise WITH fate <- Fate

PromiseKept == Promise!Spec

\* The retention sweep erases a row only while it is soft-deleted and past
\* the grace window (memory_store.h: "undoable via restore until the
\* retention sweep physically purges it past the grace window").
SweepErasesExpired ==
    [][\A i \in Rows : <<i, "sweep">> \in audit' \ audit => i \in Expired]_vars
=============================================================================
