------------------------ MODULE MemoryIndex_proofs ------------------------
(***************************************************************************)
(* Proofs about MemoryIndex, for any set of memories, any number of server *)
(* processes and any batch limit.                                          *)
(*                                                                         *)
(* That no index row is ever orphaned is not inductive by itself: a        *)
(* reindex inserts the text of an item it saw one or more steps ago.  The  *)
(* strengthening, CursorInv, says what a cursor whose snapshot is still    *)
(* current knows: its items have rows, and the visible memories it no      *)
(* longer lists are indexed unless an upsert failed.  Every commit of      *)
(* another process ends that claim, which is lemma CommitEndsClaims.       *)
(***************************************************************************)
EXTENDS MemoryIndex, TLAPS

Scanning(p) == cursor[p].pc \in {"scan", "insert"}

CursorInv ==
    \A p \in Proc :
        /\ cursor[p].pc = "insert" => cursor[p].doing \in cursor[p].todo
        /\ Scanning(p) /\ cursor[p].fresh => cursor[p].todo \subseteq Rows
        /\ Scanning(p) /\ cursor[p].fresh /\ cursor[p].clean => Visible \ cursor[p].todo \subseteq fts

IndexIInv == IndexTypeOK /\ NoOrphans /\ ActiveHasVector /\ CursorInv

\* The two states a rebuild starts from.
LEMMA IdleIsProgress == Idle \in Progress /\ [Idle EXCEPT !.pc = "wiped"] \in Progress
  BY IndexAssumption DEF Idle, Progress

\* After a commit of p no other cursor claims anything of the rows.
LEMMA CommitEndsClaims ==
  ASSUME IndexTypeOK, CursorInv, NEW p \in Proc, NEW next \in Progress, Commit(p, next)
  PROVE  /\ cursor' \in [Proc -> Progress]
         /\ cursor'[p] = next
         /\ \A q \in Proc \ {p} : /\ cursor'[q].pc = "insert" => cursor'[q].doing \in cursor'[q].todo
                                  /\ cursor'[q].pc \in {"scan", "insert"} => ~cursor'[q].fresh
<1>1. \A q \in Proc : cursor[q] \in Progress
  BY DEF IndexTypeOK
<1>2. \A q \in Proc : Stale(q) \in Progress
  BY <1>1 DEF Stale, Progress
<1>3. cursor' = [q \in Proc |-> IF q = p THEN next ELSE Stale(q)]
  BY DEF Commit
<1>4. cursor' \in [Proc -> Progress] /\ cursor'[p] = next
  BY <1>2, <1>3
<1>5. ASSUME NEW q \in Proc \ {p}
      PROVE  /\ cursor'[q].pc = "insert" => cursor'[q].doing \in cursor'[q].todo
             /\ cursor'[q].pc \in {"scan", "insert"} => ~cursor'[q].fresh
  <2>1. cursor'[q] = Stale(q)
    BY <1>3
  <2> QED
    BY <2>1, <1>1 DEF Stale, CursorInv, Progress
<1> QED
  BY <1>4, <1>5

\* A transaction leaves its own process idle, so every claim has ended.
LEMMA TransactionEndsClaims ==
  ASSUME IndexTypeOK, CursorInv, NEW p \in Proc, NEW next \in Progress, Commit(p, next),
         next.pc \notin {"scan", "insert"}
  PROVE  cursor' \in [Proc -> Progress] /\ CursorInv'
<1>1. cursor' \in [Proc -> Progress] /\ cursor'[p] = next
  BY CommitEndsClaims
<1>2. \A q \in Proc : /\ cursor'[q].pc = "insert" => cursor'[q].doing \in cursor'[q].todo
                      /\ cursor'[q].pc \in {"scan", "insert"} => ~cursor'[q].fresh
  BY CommitEndsClaims, <1>1
<1> QED
  BY <1>1, <1>2 DEF CursorInv, Scanning

\* The initial state satisfies the inductive invariant.
THEOREM InitIndex == Init => IndexIInv
  BY IdleIsProgress, IndexAssumption DEF Init, IndexIInv, IndexTypeOK, NoOrphans, ActiveHasVector, CursorInv,
     Scanning, Rows, RowStatus, Visible, Idle

\* Every step preserves the invariant.
THEOREM NextIndex == IndexIInv /\ [Next]_vars => IndexIInv'
<1> SUFFICES ASSUME IndexIInv, [Next]_vars PROVE IndexIInv'
  OBVIOUS
<1> USE IndexAssumption
<1> USE DEF IndexIInv
<1>1. ASSUME NEW p \in Proc, NEW i \in Item, NEW from \in Item \cup {None}, NEW old \in Item \cup {None},
                      Write(p, i, from, old)
      PROVE  IndexIInv'
  <2>1. cursor' \in [Proc -> Progress] /\ CursorInv'
    <3>1. Commit(p, Idle)
      BY <1>1 DEF Write, Transaction
    <3> QED
      BY <3>1, IdleIsProgress, TransactionEndsClaims DEF Idle
  <2>2. IndexTypeOK'
    BY <1>1, <2>1 DEF Write, Visible, IndexTypeOK, Rows, RowStatus
  <2>3. NoOrphans'
    BY <1>1 DEF Write, Visible, IndexTypeOK, NoOrphans, Rows, RowStatus
  <2>4. ActiveHasVector'
    BY <1>1 DEF Write, Visible, IndexTypeOK, ActiveHasVector, Rows, RowStatus
  <2> QED
    BY <2>1, <2>2, <2>3, <2>4
<1>2. ASSUME NEW p \in Proc, NEW i \in Item, NEW s \in RowStatus, SetStatus(p, i, s)
      PROVE  IndexIInv'
  <2>1. cursor' \in [Proc -> Progress] /\ CursorInv'
    <3>1. Commit(p, Idle)
      BY <1>2 DEF SetStatus, Transaction
    <3> QED
      BY <3>1, IdleIsProgress, TransactionEndsClaims DEF Idle
  <2>2. IndexTypeOK'
    BY <1>2, <2>1 DEF SetStatus, IndexTypeOK, Rows, RowStatus
  <2>3. NoOrphans'
    BY <1>2 DEF SetStatus, IndexTypeOK, NoOrphans, Rows, RowStatus
  <2>4. ActiveHasVector'
    BY <1>2 DEF SetStatus, IndexTypeOK, ActiveHasVector, Rows, RowStatus
  <2> QED
    BY <2>1, <2>2, <2>3, <2>4
<1>3. ASSUME NEW p \in Proc, NEW promoted \in SUBSET Pending, NEW merged \in SUBSET Pending,
                      Consolidate(p, promoted, merged)
      PROVE  IndexIInv'
  <2>1. cursor' \in [Proc -> Progress] /\ CursorInv'
    <3>1. Commit(p, Idle)
      BY <1>3 DEF Consolidate, Transaction
    <3> QED
      BY <3>1, IdleIsProgress, TransactionEndsClaims DEF Idle
  <2>2. IndexTypeOK'
    BY <1>3, <2>1 DEF Consolidate, Pending, Active, IndexTypeOK, Rows, RowStatus
  <2>3. NoOrphans'
    BY <1>3 DEF Consolidate, Pending, Active, IndexTypeOK, NoOrphans, Rows, RowStatus
  <2>4. ActiveHasVector'
    BY <1>3 DEF Consolidate, Pending, Active, IndexTypeOK, ActiveHasVector, Rows, RowStatus
  <2> QED
    BY <2>1, <2>2, <2>3, <2>4
<1>4. ASSUME NEW p \in Proc, NEW i \in Item, SoftDelete(p, i)
      PROVE  IndexIInv'
  <2>1. cursor' \in [Proc -> Progress] /\ CursorInv'
    <3>1. Commit(p, Idle)
      BY <1>4 DEF SoftDelete, Transaction
    <3> QED
      BY <3>1, IdleIsProgress, TransactionEndsClaims DEF Idle
  <2>2. IndexTypeOK'
    BY <1>4, <2>1 DEF SoftDelete, IndexTypeOK, Rows, RowStatus
  <2>3. NoOrphans'
    BY <1>4 DEF SoftDelete, IndexTypeOK, NoOrphans, Rows, RowStatus
  <2>4. ActiveHasVector'
    BY <1>4 DEF SoftDelete, IndexTypeOK, ActiveHasVector, Rows, RowStatus
  <2> QED
    BY <2>1, <2>2, <2>3, <2>4
<1>5. ASSUME NEW p \in Proc, NEW i \in Item, Restore(p, i)
      PROVE  IndexIInv'
  <2>1. cursor' \in [Proc -> Progress] /\ CursorInv'
    <3>1. Commit(p, Idle)
      BY <1>5 DEF Restore, Transaction
    <3> QED
      BY <3>1, IdleIsProgress, TransactionEndsClaims DEF Idle
  <2>2. IndexTypeOK'
    BY <1>5, <2>1 DEF Restore, IndexTypeOK, Rows, RowStatus
  <2>3. NoOrphans'
    BY <1>5 DEF Restore, IndexTypeOK, NoOrphans, Rows, RowStatus
  <2>4. ActiveHasVector'
    BY <1>5 DEF Restore, IndexTypeOK, ActiveHasVector, Rows, RowStatus
  <2> QED
    BY <2>1, <2>2, <2>3, <2>4
<1>6. ASSUME NEW p \in Proc, NEW batch \in SUBSET Item, Erase(p, batch)
      PROVE  IndexIInv'
  <2>1. cursor' \in [Proc -> Progress] /\ CursorInv'
    <3>1. Commit(p, Idle)
      BY <1>6 DEF Erase, Transaction
    <3> QED
      BY <3>1, IdleIsProgress, TransactionEndsClaims DEF Idle
  <2>2. IndexTypeOK'
    BY <1>6, <2>1 DEF Erase, IndexTypeOK, Rows, RowStatus
  <2>3. NoOrphans'
    BY <1>6 DEF Erase, IndexTypeOK, NoOrphans, Rows, RowStatus
  <2>4. ActiveHasVector'
    BY <1>6 DEF Erase, IndexTypeOK, ActiveHasVector, Rows, RowStatus
  <2> QED
    BY <2>1, <2>2, <2>3, <2>4
<1>7. ASSUME NEW p \in Proc, CommitElsewhere(p)
      PROVE  IndexIInv'
  <2>1. cursor' \in [Proc -> Progress] /\ CursorInv'
    <3>1. Commit(p, Idle)
      BY <1>7 DEF CommitElsewhere, Transaction
    <3> QED
      BY <3>1, IdleIsProgress, TransactionEndsClaims DEF Idle
  <2>2. IndexTypeOK'
    BY <1>7, <2>1 DEF CommitElsewhere, rowVars, IndexTypeOK, Rows, RowStatus
  <2>3. NoOrphans'
    BY <1>7 DEF CommitElsewhere, rowVars, IndexTypeOK, NoOrphans, Rows, RowStatus
  <2>4. ActiveHasVector'
    BY <1>7 DEF CommitElsewhere, rowVars, IndexTypeOK, ActiveHasVector, Rows, RowStatus
  <2> QED
    BY <2>1, <2>2, <2>3, <2>4
<1>8. ASSUME NEW p \in Proc, ReindexWipe(p)
      PROVE  IndexIInv'
  <2>1. cursor' \in [Proc -> Progress] /\ CursorInv'
    <3>1. Commit(p, [Idle EXCEPT !.pc = "wiped"])
      BY <1>8 DEF ReindexWipe
    <3> QED
      BY <3>1, IdleIsProgress, TransactionEndsClaims DEF Idle
  <2>2. IndexTypeOK'
    BY <1>8, <2>1 DEF ReindexWipe, rowVars, IndexTypeOK, Rows, RowStatus
  <2>3. NoOrphans'
    BY <1>8 DEF ReindexWipe, rowVars, IndexTypeOK, NoOrphans, Rows, RowStatus
  <2>4. ActiveHasVector'
    BY <1>8 DEF ReindexWipe, rowVars, IndexTypeOK, ActiveHasVector, Rows, RowStatus
  <2> QED
    BY <2>1, <2>2, <2>3, <2>4
<1>9. ASSUME NEW p \in Proc, ReindexOpen(p) \/ ReindexDone(p) \/ Crash(p) \/ \E i \in Item : ReindexSkip(p, i)
      PROVE  IndexIInv'
  <2>1. UNCHANGED <<row, hidden, fts, vec, links, byHand>>
    BY <1>9 DEF ReindexOpen, ReindexDone, Crash, ReindexSkip, rowVars
  <2>2. \A q \in Proc \ {p} : cursor'[q] = cursor[q]
    BY <1>9 DEF ReindexOpen, ReindexDone, Crash, ReindexSkip, IndexTypeOK
  <2>3. cursor[p] \in Progress /\ cursor \in [Proc -> Progress]
    BY DEF IndexTypeOK
  <2>4. cursor'[p] \in Progress /\ cursor' \in [Proc -> Progress]
    <3>1. cursor' \in [Proc -> Progress] <=> cursor'[p] \in Progress
      BY <1>9, <2>2, <2>3 DEF ReindexOpen, ReindexDone, Crash, ReindexSkip
    <3>2. CASE ReindexOpen(p)
      <4>1. Indexable \in SUBSET Item
        BY DEF Indexable, Rows
      <4>2. cursor'[p] = [cursor[p] EXCEPT !.pc = "scan", !.todo = Indexable]
        BY <3>2, <2>3 DEF ReindexOpen
      <4> QED
        BY <3>1, <4>1, <4>2, <2>3 DEF Progress
    <3>3. CASE ReindexDone(p) \/ Crash(p)
      BY <3>1, <3>3, <2>3, IdleIsProgress DEF ReindexDone, Crash
    <3>4. ASSUME NEW i \in Item, ReindexSkip(p, i)
          PROVE  cursor'[p] \in Progress
      <4>1. cursor'[p] = [cursor[p] EXCEPT !.pc = "scan", !.doing = None, !.todo = @ \ {i}, !.clean = FALSE]
        BY <3>4, <2>3 DEF ReindexSkip
      <4> QED
        BY <4>1, <2>3 DEF Progress
    <3> QED
      BY <1>9, <3>1, <3>2, <3>3, <3>4
  <2>5. /\ cursor'[p].pc = "insert" => cursor'[p].doing \in cursor'[p].todo
        /\ cursor'[p].pc \in {"scan", "insert"} /\ cursor'[p].fresh => cursor'[p].todo \subseteq Rows
        /\ cursor'[p].pc \in {"scan", "insert"} /\ cursor'[p].fresh /\ cursor'[p].clean =>
              Visible \ cursor'[p].todo \subseteq fts
    <3>1. CASE ReindexOpen(p)
      BY <3>1, <2>3 DEF ReindexOpen, Progress, Indexable, Visible
    <3>2. CASE ReindexDone(p) \/ Crash(p)
      BY <3>2, <2>3 DEF ReindexDone, Crash, Idle
    <3>3. CASE \E i \in Item : ReindexSkip(p, i)
      BY <3>3, <2>3 DEF ReindexSkip, CursorInv, Scanning, Progress
    <3> QED
      BY <1>9, <3>1, <3>2, <3>3
  <2>6. CursorInv'
    BY <2>1, <2>2, <2>5 DEF CursorInv, Scanning, Rows, Visible
  <2> QED
    BY <2>1, <2>4, <2>6 DEF IndexTypeOK, NoOrphans, ActiveHasVector, Rows
<1>10. ASSUME NEW p \in Proc, NEW i \in Item, ReindexClear(p, i)
       PROVE  IndexIInv'
  <2> DEFINE next == [cursor[p] EXCEPT !.pc = "insert", !.doing = i]
  <2>1. UNCHANGED <<row, hidden, vec, links, byHand>> /\ fts' = fts \ {i} /\ Commit(p, next)
    BY <1>10 DEF ReindexClear, rowVars
  <2>2. cursor[p] \in Progress
    BY DEF IndexTypeOK
  <2>3. /\ next \in Progress /\ next.doing \in next.todo /\ next.todo \subseteq Rows
        /\ next.clean => Visible \ next.todo \subseteq fts \ {i}
    BY <1>10, <2>2 DEF ReindexClear, CursorInv, Scanning, Progress
  <2> HIDE DEF next
  <2>4. CursorInv' /\ cursor' \in [Proc -> Progress]
    <3>1. Rows' = Rows /\ Visible' = Visible
      BY <2>1 DEF Rows, Visible
    <3> QED
      BY <2>1, <2>3, <3>1, CommitEndsClaims DEF CursorInv, Scanning
  <2> QED
    BY <2>1, <2>4 DEF IndexTypeOK, NoOrphans, ActiveHasVector, Rows
<1>11. ASSUME NEW p \in Proc, ReindexInsert(p)
       PROVE  IndexIInv'
  <2> DEFINE i == cursor[p].doing
  <2> DEFINE next == [cursor[p] EXCEPT !.pc = "scan", !.doing = None, !.todo = @ \ {i}]
  <2>1. UNCHANGED <<row, hidden, vec, links, byHand>> /\ fts' = fts \cup {i} /\ Commit(p, next)
    BY <1>11 DEF ReindexInsert, rowVars
  <2>2. cursor[p] \in Progress
    BY DEF IndexTypeOK
  <2>3. i \in Rows
    BY <1>11 DEF ReindexInsert, CursorInv, Scanning
  <2>4. /\ next \in Progress /\ next.pc = "scan" /\ next.todo \subseteq Rows
        /\ next.clean => Visible \ next.todo \subseteq fts \cup {i}
    BY <1>11, <2>2 DEF ReindexInsert, CursorInv, Scanning, Progress
  <2> HIDE DEF next, i
  <2>5. CursorInv' /\ cursor' \in [Proc -> Progress]
    <3>1. Rows' = Rows /\ Visible' = Visible
      BY <2>1 DEF Rows, Visible
    <3> QED
      BY <2>1, <2>4, <3>1, CommitEndsClaims DEF CursorInv, Scanning
  <2> QED
    BY <2>1, <2>3, <2>5 DEF IndexTypeOK, NoOrphans, ActiveHasVector, Rows
<1>12. ASSUME NEW p \in Proc, NEW faded \in SUBSET Active, Decay(p, faded)
       PROVE  IndexIInv'
  <2>1. cursor' \in [Proc -> Progress] /\ CursorInv'
    <3>1. Commit(p, Idle)
      BY <1>12 DEF Decay, Transaction
    <3> QED
      BY <3>1, IdleIsProgress, TransactionEndsClaims DEF Idle
  <2>2. Rows' = Rows
    BY <1>12 DEF Decay, Active, Rows, RowStatus
  <2>3. row' \in [Item -> RowStatus \cup {"unwritten", "erased"}]
    BY <1>12 DEF Decay, IndexTypeOK, RowStatus
  <2>4. IndexTypeOK' /\ NoOrphans'
    BY <1>12, <2>1, <2>2, <2>3 DEF Decay, IndexTypeOK, NoOrphans
  <2>5. ActiveHasVector'
    BY <1>12 DEF Decay, IndexTypeOK, ActiveHasVector, Rows, RowStatus
  <2> QED
    BY <2>1, <2>4, <2>5
<1>13. CASE UNCHANGED vars
  BY <1>13 DEF vars, IndexTypeOK, NoOrphans, ActiveHasVector, CursorInv, Scanning, Rows, Visible
<1> QED
  BY <1>1, <1>2, <1>3, <1>4, <1>5, <1>6, <1>7, <1>8, <1>9, <1>10, <1>11, <1>12, <1>13 DEF Next, Reindex

\* The inductive invariant holds in every reachable state.
THEOREM IndexInvariance == Spec => []IndexIInv
  BY InitIndex, NextIndex, PTL DEF Spec

\* Every variable of the index model keeps its type.
THEOREM IndexTypeCorrect == Spec => []IndexTypeOK
  BY IndexInvariance, PTL DEF IndexIInv

\* No text, vector or edge outlives its memory, whatever deletions, sweeps,
\* reindexes and crashes overlap.
THEOREM ErasureReachesIndexes == Spec => []NoOrphans
  BY IndexInvariance, PTL DEF IndexIInv

\* Only a status set by hand makes an active memory without a vector.
THEOREM ActiveAreVectored == Spec => []ActiveHasVector
  BY IndexInvariance, PTL DEF IndexIInv

\* An undisturbed reindex makes every visible memory searchable again.
THEOREM ReindexHeals == Spec => []QuietReindexHeals
<1>1. IndexIInv => QuietReindexHeals
  BY DEF IndexIInv, CursorInv, Scanning, QuietReindexHeals
<1> QED
  BY <1>1, IndexInvariance, PTL

(***************************************************************************)
(* The rows keep MemoryPromise.  A step of a reindex is a stutter of the   *)
(* promise, since it touches no row; the others move the fates one way.    *)
(***************************************************************************)
\* The fate of each memory, in terms of its row.
FateTold ==
    \A i \in Item :
        /\ Fate[i] \in Promise!Fates
        /\ Fate[i] = "shown" <=> row[i] \in {"candidate", "active"} /\ i \notin hidden
        /\ Fate[i] = "withdrawn" <=> row[i] \in RowStatus /\ (i \in hidden \/ row[i] \notin {"candidate", "active"})
        /\ Fate[i] = "unwritten" <=> row[i] = "unwritten"
        /\ Fate[i] = "erased" <=> row[i] = "erased"

LEMMA FateOf == IndexTypeOK => FateTold
  BY DEF Fate, FateTold, IndexTypeOK, Promise!Fates, Rows, Visible, RowStatus

\* Every step of the index model is a step of the promise, or none.
THEOREM IndexStepPromise == IndexIInv /\ IndexIInv' /\ [Next]_vars => [Promise!Next]_Fate
<1> SUFFICES ASSUME IndexIInv, IndexIInv', [Next]_vars PROVE [Promise!Next]_Fate
  OBVIOUS
<1>a. IndexTypeOK /\ IndexTypeOK'
  BY DEF IndexIInv
<1>b. FateTold
  BY <1>a, FateOf
<1>c. FateTold'
  BY <1>a, FateOf, PTL
<1>d. Fate' \in [Item -> Promise!Fates]
  BY <1>c DEF Fate, FateTold
<1> HIDE DEF Fate
<1>1. ASSUME NEW p \in Proc, NEW i \in Item, NEW from \in Item \cup {None}, NEW old \in Item \cup {None},
             Write(p, i, from, old)
      PROVE  Promise!Next
  <2>1. Fate[i] = "unwritten" /\ Fate'[i] = "shown"
    BY <1>1, <1>a, <1>b, <1>c DEF Write, FateTold, IndexTypeOK, Rows, RowStatus
  <2>2. \A j \in Item \ {i} : Fate'[j] = Fate[j] \/ (j = old /\ Fate[j] = "shown" /\ Fate'[j] = "withdrawn")
    <3> TAKE j \in Item \ {i}
    <3>1. CASE j = old
      <4>1. row[j] \in {"candidate", "active"} /\ row'[j] = "archived" /\ hidden' = hidden
        BY <1>1, <1>a, <3>1, IndexAssumption DEF Write, IndexTypeOK
      <4> QED
        BY <1>b, <1>c, <3>1, <4>1 DEF FateTold, RowStatus
    <3>2. CASE j # old
      BY <1>1, <1>a, <1>b, <1>c, <3>2 DEF Write, FateTold, IndexTypeOK, Rows, RowStatus, Promise!Fates
    <3> QED
      BY <3>1, <3>2
  <2> QED
    BY <1>d, <2>1, <2>2 DEF Promise!Next, Promise!Publish, Promise!Others
<1>2. ASSUME NEW p \in Proc, NEW i \in Item, NEW s \in RowStatus, SetStatus(p, i, s)
      PROVE  Promise!Next
  <2>1. \A j \in Item \ {i} : Fate'[j] = Fate[j]
    BY <1>2, <1>a, <1>b, <1>c DEF SetStatus, FateTold, IndexTypeOK, Promise!Fates
  <2>2. Fate[i] \in {"shown", "withdrawn"} /\ Fate'[i] \in {"shown", "withdrawn"}
    BY <1>2, <1>a, <1>b, <1>c DEF SetStatus, FateTold, IndexTypeOK, Rows, RowStatus
  <2> QED
    BY <1>d, <2>1, <2>2 DEF Promise!Next, Promise!Reveal, Promise!Withdraw, Promise!Others
<1>3. ASSUME NEW p \in Proc, NEW promoted \in SUBSET Pending, NEW merged \in SUBSET Pending,
             Consolidate(p, promoted, merged)
      PROVE  Promise!Next
  <2>1. \A j \in Item : Fate'[j] = Fate[j] \/ (Fate[j] = "shown" /\ Fate'[j] = "withdrawn")
    BY <1>3, <1>a, <1>b, <1>c DEF Consolidate, Pending, Rows, RowStatus, FateTold, IndexTypeOK, Promise!Fates
  <2> QED
    BY <1>d, <2>1 DEF Promise!Next, Promise!Withdraw, Promise!Others
<1>4. ASSUME NEW p \in Proc, NEW i \in Item, SoftDelete(p, i)
      PROVE  Promise!Next
  <2>1. \A j \in Item : Fate'[j] = Fate[j] \/ (Fate[j] = "shown" /\ Fate'[j] = "withdrawn")
    BY <1>4, <1>a, <1>b, <1>c DEF SoftDelete, Rows, RowStatus, FateTold, IndexTypeOK, Promise!Fates
  <2> QED
    BY <1>d, <2>1 DEF Promise!Next, Promise!Withdraw, Promise!Others
<1>5. ASSUME NEW p \in Proc, NEW i \in Item, Restore(p, i)
      PROVE  Promise!Next
  <2>1. \A j \in Item \ {i} : Fate'[j] = Fate[j]
    BY <1>5, <1>a, <1>b, <1>c DEF Restore, FateTold, IndexTypeOK, Promise!Fates
  <2>2. Fate[i] = "withdrawn" /\ Fate'[i] \in {"shown", "withdrawn"}
    BY <1>5, <1>a, <1>b, <1>c DEF Restore, FateTold, IndexTypeOK, Rows, RowStatus
  <2> QED
    BY <1>d, <2>1, <2>2 DEF Promise!Next, Promise!Reveal, Promise!Withdraw, Promise!Others
<1>6. ASSUME NEW p \in Proc, NEW batch \in SUBSET Item, Erase(p, batch)
      PROVE  Promise!Next
  <2>1. \A j \in Item : Fate'[j] = Fate[j] \/ (Fate[j] \in {"shown", "withdrawn"} /\ Fate'[j] = "erased")
    BY <1>6, <1>a, <1>b, <1>c DEF Erase, FateTold, IndexTypeOK, RowStatus, Promise!Fates
  <2> QED
    BY <1>d, <2>1 DEF Promise!Next, Promise!Erase, Promise!Others
<1>7. ASSUME NEW p \in Proc, CommitElsewhere(p) \/ Reindex(p) \/ Crash(p)
      PROVE  UNCHANGED <<row, hidden>>
  BY <1>7 DEF CommitElsewhere, Reindex, ReindexWipe, ReindexOpen, ReindexInsert, ReindexDone, ReindexClear,
     ReindexSkip, Crash, rowVars
<1>8. UNCHANGED <<row, hidden>> => UNCHANGED Fate
  BY DEF Fate, Rows, Visible
<1>9. ASSUME NEW p \in Proc, NEW faded \in SUBSET Active, Decay(p, faded)
      PROVE  Promise!Next
  <2>1. \A j \in Item : Fate'[j] = Fate[j] \/ (Fate[j] = "shown" /\ Fate'[j] = "withdrawn")
    BY <1>9, <1>a, <1>b, <1>c DEF Decay, Active, Rows, RowStatus, FateTold, IndexTypeOK, Promise!Fates
  <2> QED
    BY <1>d, <2>1 DEF Promise!Next, Promise!Withdraw, Promise!Others
<1> QED
  BY <1>1, <1>2, <1>3, <1>4, <1>5, <1>6, <1>7, <1>8, <1>9 DEF Next, vars

\* What recall can show changes only as MemoryPromise allows.
THEOREM IndexImplementation == Spec => IndexPromiseKept
<1>1. Init => Promise!Init
  BY DEF Init, Promise!Init, Fate, Rows, RowStatus
<1> QED
  BY <1>1, IndexInvariance, IndexStepPromise, PTL DEF Spec, IndexPromiseKept, Promise!Spec
=============================================================================
