---------------------------- MODULE MemoryIndex ----------------------------
(***************************************************************************)
(* The tables a recall finds memories through: memory_fts (full text),     *)
(* memory_vec (embeddings) and memory_edge, kept beside memory_item by     *)
(* several server processes.                                               *)
(*                                                                         *)
(* Every operation of MemoryStore that touches them does so in its own     *)
(* transaction and is one action.  cbm_store_memory_reindex_fts is not: it *)
(* wipes the project's full text rows in one statement, then streams the   *)
(* items from a read cursor and deletes and inserts each row's text in two *)
(* more statements, every one of them committed by itself.  Others see the *)
(* half-built index, and the process may die at any point.                 *)
(*                                                                         *)
(* What keeps that loop from indexing rows that are gone is SQLite's WAL   *)
(* snapshot: while the read cursor is open, a write of this connection     *)
(* fails (SQLITE_BUSY_SNAPSHOT) once any other connection has committed.   *)
(* The cursor's "fresh" is that condition; a failed upsert is skipped and  *)
(* the pass still reports success, with a lower count.                     *)
(***************************************************************************)
EXTENDS Naturals, FiniteSets

CONSTANTS
    Item,       \* memory_item ids that may be issued
    Proc,       \* server processes, each with a connection of its own
    None,       \* no item
    BatchLimit  \* LIMIT of one consolidation pass

ASSUME IndexAssumption == None \notin Item /\ BatchLimit \in Nat

VARIABLES
    row,        \* memory_item.status, or whether there is a row at all
    hidden,     \* rows with deleted_at set
    fts,        \* item_ids of memory_fts
    vec,        \* item_ids of memory_vec
    links,      \* <<src, dst>> of the edges between two memories
    byHand,     \* items whose status was set by a client rather than by a pass
    cursor      \* each process's progress through a reindex

rowVars == <<row, hidden, byHand>>
vars    == <<row, hidden, fts, vec, links, byHand, cursor>>

RowStatus == {"candidate", "active", "deprecated", "archived"}
Rows      == {i \in Item : row[i] \in RowStatus}
Visible   == {i \in Rows \ hidden : row[i] \in {"candidate", "active"}}
Pending   == {i \in Rows \ hidden : row[i] = "candidate"}
Active    == {i \in Rows \ hidden : row[i] = "active"}

Idle == [pc |-> "idle", todo |-> {}, doing |-> None, fresh |-> TRUE, clean |-> TRUE]

Init ==
    /\ row = [i \in Item |-> "unwritten"]
    /\ hidden = {} /\ fts = {} /\ vec = {} /\ links = {} /\ byHand = {}
    /\ cursor = [p \in Proc |-> Idle]

\* A commit of p: every other open read cursor loses its claim to write.
Stale(q) == IF cursor[q].pc \in {"scan", "insert"} THEN [cursor[q] EXCEPT !.fresh = FALSE] ELSE cursor[q]

Commit(p, next) == cursor' = [q \in Proc |-> IF q = p THEN next ELSE Stale(q)]

\* One transaction of a process that is not in a reindex.
Transaction(p) == cursor[p] = Idle /\ Commit(p, Idle)

(***************************************************************************)
(* handle_events: row, full text, an optional derived_from edge to a       *)
(* visible memory, the archival of a superseded one of the same project    *)
(* (else old is None) - all or nothing.                                    *)
(***************************************************************************)
\* Slip: the caller's status is stored as it comes.
WriteUnchecked(p, i, from, old) ==
    /\ Transaction(p)
    /\ row[i] = "unwritten"
    /\ from \in Visible \cup {None}
    /\ old \in {j \in Rows : row[j] \in {"candidate", "active"}} \cup {None}
    /\ row' = [j \in Item |-> IF j = i THEN "pending" ELSE IF j = old THEN "archived" ELSE row[j]]
    /\ fts' = fts \cup {i}
    /\ links' = IF from = None THEN links ELSE links \cup {<<i, from>>}
    /\ UNCHANGED <<hidden, vec, byHand>>

Write(p, i, from, old) ==
    /\ Transaction(p)
    /\ row[i] = "unwritten"
    /\ from \in Visible \cup {None}
    /\ old \in {j \in Rows : row[j] \in {"candidate", "active"}} \cup {None}
    /\ row' = [j \in Item |-> IF j = i THEN "candidate" ELSE IF j = old THEN "archived" ELSE row[j]]
    /\ fts' = fts \cup {i}
    /\ links' = IF from = None THEN links ELSE links \cup {<<i, from>>}
    /\ UNCHANGED <<hidden, vec, byHand>>

\* cbm_store_memory_update_status, and the verdicts of feedback: the status
\* alone, no index follows.
SetStatus(p, i, s) ==
    /\ Transaction(p)
    /\ i \in Rows /\ s \in RowStatus
    /\ row' = [row EXCEPT ![i] = s]
    /\ byHand' = byHand \cup {i}
    /\ UNCHANGED <<hidden, fts, vec, links>>

(***************************************************************************)
(* memory_consolidate_impl: the promoted candidates get vector and text,   *)
(* the merged ones an edge to the active memory they repeat.               *)
(***************************************************************************)
BatchOK(batch) ==
    /\ batch # {}
    /\ \/ batch = Pending /\ Cardinality(batch) <= BatchLimit
       \/ batch \subseteq Pending /\ Cardinality(batch) = BatchLimit

\* Slip: a promoted memory gets no vector.
ConsolidateNoVector(p, promoted, merged) ==
    /\ Transaction(p)
    /\ promoted \cap merged = {} /\ BatchOK(promoted \cup merged)
    /\ row' = [i \in Item |-> IF i \in promoted THEN "active" ELSE IF i \in merged THEN "archived" ELSE row[i]]
    /\ fts' = fts \cup promoted
    /\ \E into \in [merged -> Active \cup promoted] : links' = links \cup {<<i, into[i]>> : i \in merged}
    /\ UNCHANGED <<hidden, vec, byHand>>

Consolidate(p, promoted, merged) ==
    /\ Transaction(p)
    /\ promoted \cap merged = {} /\ BatchOK(promoted \cup merged)
    /\ row' = [i \in Item |-> IF i \in promoted THEN "active" ELSE IF i \in merged THEN "archived" ELSE row[i]]
    /\ fts' = fts \cup promoted
    /\ vec' = vec \cup promoted
    /\ \E into \in [merged -> Active \cup promoted] : links' = links \cup {<<i, into[i]>> : i \in merged}
    /\ UNCHANGED <<hidden, byHand>>

\* The soft mode of cbm_store_memory_delete, and cbm_store_memory_restore:
\* no index is touched, recall joins memory_item and filters on deleted_at.
SoftDelete(p, i) ==
    /\ Transaction(p)
    /\ i \in Rows \ hidden
    /\ hidden' = hidden \cup {i}
    /\ UNCHANGED <<row, fts, vec, links, byHand>>

\* Slip: the UPDATE forgets its WHERE id.
RestoreAll(p, i) ==
    /\ Transaction(p)
    /\ i \in hidden
    /\ hidden' = {}
    /\ UNCHANGED <<row, fts, vec, links, byHand>>

Restore(p, i) ==
    /\ Transaction(p)
    /\ i \in hidden
    /\ hidden' = hidden \ {i}
    /\ UNCHANGED <<row, fts, vec, links, byHand>>

\* memory_delete_rows for a hard delete or for the victims of a sweep; some
\* may be gone already.
Erase(p, batch) ==
    /\ Transaction(p)
    /\ batch # {} /\ \A i \in batch : row[i] # "unwritten"
    /\ row' = [i \in Item |-> IF i \in batch THEN "erased" ELSE row[i]]
    /\ hidden' = hidden \ batch
    /\ fts' = fts \ batch
    /\ vec' = vec \ batch
    /\ links' = {e \in links : e[1] \notin batch /\ e[2] \notin batch}
    /\ UNCHANGED byHand

\* cbm_store_memory_decay: the active memories whose score has run out are
\* archived, their text, vector and edges stay.
Decay(p, faded) ==
    /\ Transaction(p)
    /\ row' = [i \in Item |-> IF i \in faded THEN "archived" ELSE row[i]]
    /\ UNCHANGED <<hidden, fts, vec, links, byHand>>

\* Recall's hit counts, the meta stamps: a commit elsewhere.
CommitElsewhere(p) == Transaction(p) /\ UNCHANGED <<rowVars, fts, vec, links>>

(***************************************************************************)
(* cbm_store_memory_reindex_fts.  The wipe covers soft-deleted rows too    *)
(* (and is skipped, unnoticed, when the database stays busy); the scan     *)
(* covers what the cursor's snapshot holds.                                *)
(***************************************************************************)
ReindexWipe(p) ==
    /\ cursor[p] = Idle
    /\ fts' \in {fts \ Rows, fts}
    /\ Commit(p, [Idle EXCEPT !.pc = "wiped"])
    /\ UNCHANGED <<rowVars, vec, links>>

\* Slip: the scan forgets candidates.
IndexableActive == {i \in Rows \ hidden : row[i] \in {"active", "deprecated"}}

Indexable == {i \in Rows \ hidden : row[i] \in {"active", "candidate", "deprecated"}}

ReindexOpen(p) ==
    /\ cursor[p].pc = "wiped"
    /\ cursor' = [cursor EXCEPT ![p].pc = "scan", ![p].todo = Indexable]
    /\ UNCHANGED <<rowVars, fts, vec, links>>

\* memory_fts_upsert, first statement: DELETE the row's old text.
ReindexClear(p, i) ==
    /\ cursor[p].pc = "scan" /\ i \in cursor[p].todo
    /\ cursor[p].fresh
    /\ fts' = fts \ {i}
    /\ Commit(p, [cursor[p] EXCEPT !.pc = "insert", !.doing = i])
    /\ UNCHANGED <<rowVars, vec, links>>

\* Slip: the items were collected up front, so no snapshot guards the insert.
ReindexInsertCollected(p) ==
    /\ cursor[p].pc = "insert"
    /\ fts' = fts \cup {cursor[p].doing}
    /\ Commit(p, [cursor[p] EXCEPT !.pc = "scan", !.doing = None, !.todo = @ \ {cursor[p].doing}])
    /\ UNCHANGED <<rowVars, vec, links>>

\* Second statement: INSERT the new text.
ReindexInsert(p) ==
    /\ cursor[p].pc = "insert" /\ cursor[p].fresh
    /\ fts' = fts \cup {cursor[p].doing}
    /\ Commit(p, [cursor[p] EXCEPT !.pc = "scan", !.doing = None, !.todo = @ \ {cursor[p].doing}])
    /\ UNCHANGED <<rowVars, vec, links>>

\* Either statement fails, for a stale snapshot or a busy database: the item
\* is skipped, in the second case after its old text is gone.
ReindexSkip(p, i) ==
    /\ \/ cursor[p].pc = "scan" /\ i \in cursor[p].todo
       \/ cursor[p].pc = "insert" /\ i = cursor[p].doing
    /\ cursor' = [cursor EXCEPT ![p].pc = "scan", ![p].doing = None, ![p].todo = @ \ {i}, ![p].clean = FALSE]
    /\ UNCHANGED <<rowVars, fts, vec, links>>

ReindexDone(p) ==
    /\ cursor[p].pc = "scan" /\ cursor[p].todo = {}
    /\ cursor' = [cursor EXCEPT ![p] = Idle]
    /\ UNCHANGED <<rowVars, fts, vec, links>>

\* The process dies in mid-reindex; what it committed stays.
Crash(p) ==
    /\ cursor[p] # Idle
    /\ cursor' = [cursor EXCEPT ![p] = Idle]
    /\ UNCHANGED <<rowVars, fts, vec, links>>

Reindex(p) ==
    \/ ReindexWipe(p) \/ ReindexOpen(p) \/ ReindexInsert(p) \/ ReindexDone(p)
    \/ \E i \in Item : ReindexClear(p, i) \/ ReindexSkip(p, i)

Next ==
    \E p \in Proc :
        \/ \E i \in Item, from \in Item \cup {None}, old \in Item \cup {None} : Write(p, i, from, old)
        \/ \E i \in Item, s \in RowStatus : SetStatus(p, i, s)
        \/ \E promoted, merged \in SUBSET Pending : Consolidate(p, promoted, merged)
        \/ \E i \in Item : SoftDelete(p, i) \/ Restore(p, i)
        \/ \E batch \in SUBSET Item : Erase(p, batch)
        \/ \E faded \in SUBSET Active : Decay(p, faded)
        \/ CommitElsewhere(p)
        \/ Reindex(p)
        \/ Crash(p)

Spec == Init /\ [][Next]_vars

(***************************************************************************)
(* Properties.                                                             *)
(***************************************************************************)
Progress == [pc : {"idle", "wiped", "scan", "insert"}, todo : SUBSET Item, doing : Item \cup {None},
             fresh : BOOLEAN, clean : BOOLEAN]

\* Every variable keeps its type; only rows are hidden.
IndexTypeOK ==
    /\ row \in [Item -> RowStatus \cup {"unwritten", "erased"}]
    /\ hidden \subseteq Rows
    /\ fts \subseteq Item /\ vec \subseteq Item /\ byHand \subseteq Item
    /\ links \subseteq Item \X Item
    /\ cursor \in [Proc -> Progress]

\* Erasure reaches every index: no text, vector or edge of a memory that has
\* no row, also when the row was erased while some process was half way
\* through a reindex that had it on its list (memory_delete_rows).
NoOrphans ==
    /\ fts \cup vec \subseteq Rows
    /\ links \subseteq Rows \X Rows

\* An active memory without an embedding is one whose status somebody set by
\* hand: no pass, crash, restore or reindex produces one.
ActiveHasVector == \A i \in Rows : row[i] = "active" => i \in vec \cup byHand

\* A reindex whose every upsert succeeded and that nobody interrupted leaves
\* every memory that recall may show searchable, whatever state another
\* crashed or overlapping reindex left the index in.
QuietReindexHeals ==
    \A p \in Proc : cursor[p].pc = "scan" /\ cursor[p].clean /\ cursor[p].fresh =>
        Visible \ cursor[p].todo \subseteq fts

\* The rows of this model, too, change only as MemoryPromise allows, whatever
\* reindexes and batches overlap: so the recall that joins the indexes with
\* them shows and loses memories as the one over MemoryStore does.
Fate ==
    [i \in Item |-> IF i \notin Rows THEN row[i] ELSE IF i \in Visible THEN "shown" ELSE "withdrawn"]

Promise == INSTANCE MemoryPromise WITH fate <- Fate

IndexPromiseKept == Promise!Spec
=============================================================================
