------------------------ MODULE MemoryStore_proofs ------------------------
(***************************************************************************)
(* The safety invariants of MemoryStore hold for every set of memories,    *)
(* processes and feedback keys, every similarity relation, batch and       *)
(* comparison limit, grace and clock bound, and for databases whose rows   *)
(* carry the callers' project or do not, in any mixture.                   *)
(*                                                                         *)
(* Several are not inductive by themselves.  That a superseded memory, or  *)
(* one a verdict dismissed, stays out of recall needs the same fact for    *)
(* soft-deleted rows (LinkInv, VerdictInv), or a restore could show it;    *)
(* and that verdicts name issued ids.  The red line, the                   *)
(* finality of an erasure and what a sweep may erase need to know what the *)
(* processes have collected but not yet erased (JobInv, SweepInv).         *)
(***************************************************************************)
EXTENDS MemoryStore, TLAPS

\* Replaced memories are out of the recallable statuses, deleted or not.
LinkInv ==
    \A i \in replaced : status[i] = "retired"

\* What a process has collected was issued; a sweep holds no red-lined item.
JobInv ==
    \A p \in Proc :
        /\ \A i \in job[p].batch : status[i] # "unwritten"
        /\ job[p].op = "sweep" => job[p].batch \cap RedLined = {}

\* A memory without a row is not soft-deleted.
Blank ==
    \A i \in Item : status[i] \notin RowStatus => deletedAt[i] = None

\* A feedback event that is on record has moved the scores once, another not.
FeedbackCounted ==
    \A f \in FbKey : applied[f] = IF feedback[f] = None THEN 0 ELSE 1

\* What a verdict retired was issued, and is out of the recallable statuses -
\* deleted or not - unless its status was set by hand.
VerdictInv ==
    \A f \in FbKey : feedback[f] # None =>
        /\ status[feedback[f].item] # "unwritten"
        /\ feedback[f].retires /\ <<feedback[f].item, "status_change">> \notin audit =>
              status[feedback[f].item] \notin Recallable

\* Each item a sweep has collected is past its grace window still, has been
\* restored, or has been erased by somebody else.
SweepInv ==
    \A p \in Proc : job[p].op = "sweep" =>
        \A i \in job[p].batch : i \in Expired \/ <<i, "restore">> \in audit \/ status[i] = "erased"

IInv ==
    /\ TypeOK
    /\ Blank
    /\ LinkInv
    /\ JobInv
    /\ TombstoneIffErased
    /\ RedLine
    /\ ErasureReachesEvents
    /\ CitationsStand
    /\ FeedbackCounted
    /\ NoSilentDuplicate

\* The status sets, spelled out once for the provers.
LEMMA Statuses ==
    /\ Recallable = {"candidate", "active"}
    /\ RowStatus = {"candidate", "active", "retired"}
    /\ Status = {"candidate", "active", "retired", "unwritten", "erased"}
    /\ AuditKind = {"hard", "purge", "sweep", "status_change", "restore"}
  BY DEF Recallable, RowStatus, Status, AuditKind, Mode

\* What the proofs need of the constants.
LEMMA Constants ==
    /\ Adr \subseteq Item /\ Anchored \subseteq Item /\ Retrieved \subseteq Item
    /\ Scopes \subseteq SUBSET Item
    /\ DeleteModes \subseteq {"soft", "hard", "purge"}
    /\ None \notin Item /\ None \notin Nat /\ None \notin [item : Item, retires : BOOLEAN]
    /\ Grace \in Nat /\ MaxTime \in Nat
  BY StoreAssumption

\* The more rows there are, the more a comparison may leave out.
LEMMA CrowdedGrows ==
    ASSUME NEW i \in Item, NEW few, NEW many, few \subseteq many, Crowded(i, few)
    PROVE  Crowded(i, many)
  BY DEF Crowded

\* A step that makes no memory active but by hand or by a restore makes no duplicate.
LEMMA NoMoreDuplicates ==
    ASSUME NoSilentDuplicate, Written \subseteq Written', audit \subseteq audit',
           \A i \in ActiveLive' \ ActiveLive :
               \E a \in {"status_change", "restore"} : <<i, a>> \in audit'
    PROVE  NoSilentDuplicate'
<1> SUFFICES ASSUME NEW x \in ActiveLive', NEW y \in ActiveLive', x # y, Alike(x, y)
             PROVE  \E k \in {x, y} :
                       \/ \E a \in {"status_change", "restore"} : <<k, a>> \in audit'
                       \/ Crowded(k, Written')
  BY DEF NoSilentDuplicate, Alike
<1>1. CASE x \in ActiveLive /\ y \in ActiveLive
  <2>1. PICK k \in {x, y} :
            \/ \E a \in {"status_change", "restore"} : <<k, a>> \in audit
            \/ Crowded(k, Written)
    BY <1>1 DEF NoSilentDuplicate
  <2>2. k \in Item
    BY <1>1 DEF ActiveLive, Live, Rows
  <2> QED
    BY <2>1, <2>2, CrowdedGrows
<1>2. CASE ~(x \in ActiveLive /\ y \in ActiveLive)
  BY <1>2
<1> QED
  BY <1>1, <1>2

\* The initial state satisfies the inductive invariant.
THEOREM InitIInv == Init => IInv
  BY Constants, Statuses
  DEF Init, IInv, TypeOK, Blank, LinkInv, JobInv, TombstoneIffErased, RedLine, ErasureReachesEvents,
      CitationsStand, FeedbackCounted, NoSilentDuplicate, ActiveLive, Live, Rows, Idle, Time, Mode

\* Every step of the store preserves it.
THEOREM NextIInv == IInv /\ [Next]_vars => IInv'
<1> SUFFICES ASSUME IInv, [Next]_vars PROVE IInv'
  OBVIOUS
<1> USE Constants, Statuses
<1>1. ASSUME NEW i \in Item, NEW target \in Item \cup {None},
                      WriteMemory(i, target)
      PROVE  IInv'
  <2>1. TypeOK'
    BY <1>1 DEF IInv, WriteMemory, Retire, Written, rowVars, linkVars, logVars, fbVars, vars,
       TypeOK, Time, Mode, Rows, Live, ActiveLive
  <2>2. Blank'
    BY <1>1 DEF IInv, WriteMemory, Retire, Written, rowVars, linkVars, logVars, fbVars, vars,
       TypeOK, Blank, Rows, Live, ActiveLive
  <2>3. LinkInv'
    BY <1>1 DEF IInv, WriteMemory, Retire, Written, rowVars, linkVars, logVars, fbVars, vars,
       TypeOK, LinkInv, JobInv, Rows, Live, ActiveLive
  <2>4. JobInv'
    BY <1>1 DEF IInv, WriteMemory, Retire, Written, rowVars, linkVars, logVars, fbVars, vars,
       TypeOK, JobInv, Rows, RedLined
  <2>5. TombstoneIffErased'
    BY <1>1 DEF IInv, WriteMemory, Retire, Written, rowVars, linkVars, logVars, fbVars, vars,
       TypeOK, TombstoneIffErased, JobInv, Rows, Live, ActiveLive, Mode
  <2>6. ErasureReachesEvents'
    BY <1>1 DEF IInv, WriteMemory, Retire, Written, rowVars, linkVars, logVars, fbVars, vars,
       TypeOK, ErasureReachesEvents, TombstoneIffErased, Rows, Live, ActiveLive, Mode
  <2>7. NoSilentDuplicate'
    BY <1>1, NoMoreDuplicates DEF IInv, WriteMemory, Retire, Written, rowVars, linkVars, logVars, fbVars, vars,
       TypeOK, Written, ActiveLive, Live, Rows, Mode
  <2>8. RedLine' /\ FeedbackCounted'
    BY <1>1 DEF IInv, WriteMemory, Retire, Written, rowVars, linkVars, logVars, fbVars, vars,
       RedLine, FeedbackCounted, ActiveLive, Live, Rows
  <2>9. CitationsStand'
    BY <1>1 DEF IInv, WriteMemory, Retire, Written, rowVars, linkVars, logVars, fbVars, vars,
       TypeOK, CitationsStand, Rows
  <2> QED
    BY <2>1, <2>2, <2>3, <2>4, <2>5, <2>6, <2>7, <2>8, <2>9 DEF IInv
<1>2. ASSUME NEW i \in Item, NEW s \in RowStatus, UpdateStatus(i, s)
      PROVE  IInv'
  <2>1. TypeOK'
    BY <1>2 DEF IInv, UpdateStatus, rowVars, linkVars, logVars, fbVars, vars,
       TypeOK, Time, Mode, Rows, Live, ActiveLive
  <2>2. Blank'
    BY <1>2 DEF IInv, UpdateStatus, rowVars, linkVars, logVars, fbVars, vars,
       TypeOK, Blank, Rows, Live, ActiveLive
  <2>3. LinkInv'
    BY <1>2 DEF IInv, UpdateStatus, rowVars, linkVars, logVars, fbVars, vars,
       TypeOK, LinkInv, JobInv, Rows, Live, ActiveLive
  <2>4. JobInv'
    BY <1>2 DEF IInv, UpdateStatus, rowVars, linkVars, logVars, fbVars, vars,
       TypeOK, JobInv, Rows, RedLined
  <2>5. TombstoneIffErased'
    <3>1. \A x \in Item : status'[x] = "erased" <=> status[x] = "erased"
      BY <1>2 DEF IInv, UpdateStatus, TypeOK, Rows
    <3>2. \A x \in Item, m \in Mode : <<x, m>> \in audit' <=> <<x, m>> \in audit
      BY <1>2 DEF UpdateStatus, logVars, Mode
    <3> QED
      BY <3>1, <3>2 DEF IInv, TombstoneIffErased
  <2>6. RedLine'
    BY <1>2 DEF IInv, UpdateStatus, rowVars, linkVars, logVars, fbVars, vars,
       TypeOK, RedLine, JobInv, RedLined, Mode
  <2>7. ErasureReachesEvents'
    BY <1>2 DEF IInv, UpdateStatus, rowVars, linkVars, logVars, fbVars, vars,
       TypeOK, ErasureReachesEvents, TombstoneIffErased, Rows, Live, ActiveLive, Mode
  <2>8. NoSilentDuplicate'
    BY <1>2, NoMoreDuplicates DEF IInv, UpdateStatus, rowVars, linkVars, logVars, fbVars, vars,
       TypeOK, Written, ActiveLive, Live, Rows, Mode
  <2>9. FeedbackCounted'
    BY <1>2 DEF IInv, UpdateStatus, rowVars, linkVars, logVars, fbVars, vars,
       FeedbackCounted, ActiveLive, Live, Rows
  <2>10. CitationsStand'
    BY <1>2 DEF IInv, UpdateStatus, rowVars, linkVars, logVars, fbVars, vars,
       TypeOK, CitationsStand, Rows
  <2> QED
    BY <2>1, <2>2, <2>3, <2>4, <2>5, <2>6, <2>7, <2>8, <2>9, <2>10 DEF IInv
<1>3. ASSUME NEW f \in FbKey, NEW i \in Item, NEW retires \in BOOLEAN,
                      Feedback(f, i, retires)
      PROVE  IInv'
  <2>1. TypeOK'
    BY <1>3 DEF IInv, Feedback, rowVars, linkVars, logVars, fbVars, vars,
       TypeOK, Time, Mode, Rows, Live, ActiveLive
  <2>2. Blank'
    BY <1>3 DEF IInv, Feedback, rowVars, linkVars, logVars, fbVars, vars,
       TypeOK, Blank, Rows, Live, ActiveLive
  <2>3. LinkInv'
    BY <1>3 DEF IInv, Feedback, rowVars, linkVars, logVars, fbVars, vars,
       TypeOK, LinkInv, JobInv, Rows, Live, ActiveLive
  <2>4. JobInv'
    BY <1>3 DEF IInv, Feedback, rowVars, linkVars, logVars, fbVars, vars,
       TypeOK, JobInv, Rows, RedLined
  <2>5. TombstoneIffErased'
    <3>1. \A x \in Item : status'[x] = "erased" <=> status[x] = "erased"
      BY <1>3 DEF IInv, Feedback, TypeOK, Rows
    <3>2. \A x \in Item, m \in Mode : <<x, m>> \in audit' <=> <<x, m>> \in audit
      BY <1>3 DEF Feedback, logVars, Mode
    <3> QED
      BY <3>1, <3>2 DEF IInv, TombstoneIffErased
  <2>6. ErasureReachesEvents'
    BY <1>3 DEF IInv, Feedback, rowVars, linkVars, logVars, fbVars, vars,
       TypeOK, ErasureReachesEvents, TombstoneIffErased, Rows, Live, ActiveLive, Mode
  <2>7. FeedbackCounted'
    BY <1>3 DEF IInv, Feedback, rowVars, linkVars, logVars, fbVars, vars,
       TypeOK, FeedbackCounted
  <2>8. NoSilentDuplicate'
    BY <1>3, NoMoreDuplicates DEF IInv, Feedback, rowVars, linkVars, logVars, fbVars, vars,
       TypeOK, Written, ActiveLive, Live, Rows, Mode
  <2>9. RedLine'
    BY <1>3 DEF IInv, Feedback, rowVars, linkVars, logVars, fbVars, vars,
       RedLine, ActiveLive, Live, Rows
  <2>10. CitationsStand'
    BY <1>3 DEF IInv, Feedback, rowVars, linkVars, logVars, fbVars, vars,
       TypeOK, CitationsStand, Rows
  <2> QED
    BY <2>1, <2>2, <2>3, <2>4, <2>5, <2>6, <2>7, <2>8, <2>9, <2>10 DEF IInv
<1>4. ASSUME NEW f \in FbKey, NEW i \in Item, FeedbackReplay(f, i)
      PROVE  IInv'
  <2>1. TypeOK'
    BY <1>4 DEF IInv, FeedbackReplay, rowVars, linkVars, logVars, fbVars, vars,
       TypeOK, Time, Mode, Rows, Live, ActiveLive
  <2>2. Blank' /\ LinkInv' /\ JobInv' /\ TombstoneIffErased' /\ RedLine' /\ ErasureReachesEvents' /\ FeedbackCounted' /\ NoSilentDuplicate'
    BY <1>4 DEF IInv, FeedbackReplay, rowVars, linkVars, logVars, fbVars, vars,
       Blank, LinkInv, JobInv, TombstoneIffErased, RedLine, ErasureReachesEvents, FeedbackCounted, NoSilentDuplicate, Written, ActiveLive, Live, Rows
  <2>3. CitationsStand'
    BY <1>4 DEF IInv, FeedbackReplay, rowVars, linkVars, logVars, fbVars, vars,
       TypeOK, CitationsStand, Rows
  <2> QED
    BY <2>1, <2>2, <2>3 DEF IInv
<1>5. ASSUME NEW batch \in SUBSET Pending, NEW promoted \in SUBSET batch,
                      Consolidate(batch, promoted)
      PROVE  IInv'
  <2>1. TypeOK'
    BY <1>5 DEF IInv, Consolidate, BatchOK, Promotable, LastMerged, Pending, rowVars, linkVars, logVars, fbVars, vars,
       TypeOK, Time, Mode, Rows, Live, ActiveLive
  <2>2. Blank'
    BY <1>5 DEF IInv, Consolidate, BatchOK, Promotable, LastMerged, Pending, rowVars, linkVars, logVars, fbVars, vars,
       TypeOK, Blank, Rows, Live, ActiveLive
  <2>3. LinkInv'
    BY <1>5 DEF IInv, Consolidate, BatchOK, Promotable, LastMerged, Pending, rowVars, linkVars, logVars, fbVars, vars,
       TypeOK, LinkInv, JobInv, Rows, Live, ActiveLive
  <2>4. JobInv'
    BY <1>5 DEF IInv, Consolidate, BatchOK, Promotable, LastMerged, Pending, rowVars, linkVars, logVars, fbVars, vars,
       TypeOK, JobInv, Rows, RedLined
  <2>5. TombstoneIffErased'
    BY <1>5 DEF IInv, Consolidate, BatchOK, Promotable, LastMerged, Pending, rowVars, linkVars, logVars, fbVars, vars,
       TypeOK, TombstoneIffErased, JobInv, Rows, Live, ActiveLive, Mode
  <2>6. ErasureReachesEvents'
    BY <1>5 DEF IInv, Consolidate, BatchOK, Promotable, LastMerged, Pending, rowVars, linkVars, logVars, fbVars, vars,
       TypeOK, ErasureReachesEvents, TombstoneIffErased, Rows, Live, ActiveLive, Mode
  <2>7. NoSilentDuplicate'
    <3> SUFFICES ASSUME NEW x \in ActiveLive', NEW y \in ActiveLive', x # y, Alike(x, y)
                 PROVE  \E k \in {x, y} :
                           \/ \E a \in {"status_change", "restore"} : <<k, a>> \in audit'
                           \/ Crowded(k, Written')
      BY DEF NoSilentDuplicate, Alike
    <3>1. {x, y} \subseteq ActiveLive \cup promoted
      BY <1>5 DEF IInv, Consolidate, BatchOK, Promotable, Pending, TypeOK, ActiveLive, Live, Rows
    <3>2. audit' = audit /\ Written' = Written /\ x \in Item /\ y \in Item
      BY <1>5 DEF IInv, Consolidate, Pending, TypeOK, Written, ActiveLive, Live, Rows, logVars
    <3>3. ActiveLive \cup promoted \subseteq Written
      BY DEF Pending, Written, ActiveLive, Live, Rows
    <3>4. CASE x \in promoted /\ y \in promoted
      <4>1. Crowded(x, ActiveLive \cup promoted) \/ Crowded(y, ActiveLive \cup promoted)
        BY <1>5, <3>4 DEF Consolidate, Promotable
      <4> QED
        BY <4>1, <3>2, <3>3, CrowdedGrows
    <3>5. ASSUME NEW k \in promoted, NEW j \in ActiveLive, {k, j} = {x, y}, Alike(k, j)
          PROVE  \/ Crowded(k, Written')
                 \/ <<j, "status_change">> \in audit'
      <4>1. Crowded(k, ActiveLive \cup promoted) \/ <<j, "status_change">> \in audit
        BY <1>5, <3>5 DEF Consolidate, Promotable
      <4> QED
        BY <4>1, <3>2, <3>3, <3>5, CrowdedGrows
    <3>6. CASE x \in ActiveLive /\ y \in ActiveLive
      BY <3>2, <3>6 DEF IInv, NoSilentDuplicate
    <3> QED
      BY <3>1, <3>4, <3>5, <3>6 DEF Alike
  <2>8. RedLine' /\ FeedbackCounted'
    BY <1>5 DEF IInv, Consolidate, BatchOK, Promotable, LastMerged, Pending, rowVars, linkVars, logVars, fbVars, vars,
       RedLine, FeedbackCounted, ActiveLive, Live, Rows
  <2>9. CitationsStand'
    BY <1>5 DEF IInv, Consolidate, BatchOK, Promotable, LastMerged, Pending, rowVars, linkVars, logVars, fbVars, vars,
       TypeOK, CitationsStand, Rows, Pending, Live, ActiveLive
  <2> QED
    BY <2>1, <2>2, <2>3, <2>4, <2>5, <2>6, <2>7, <2>8, <2>9 DEF IInv
<1>6. ASSUME NEW worn \in SUBSET ActiveLive, DecayPass(worn)
      PROVE  IInv'
  <2>1. TypeOK'
    BY <1>6 DEF IInv, DecayPass, rowVars, linkVars, logVars, fbVars, vars,
       TypeOK, Time, Mode, Rows, Live, ActiveLive
  <2>2. Blank'
    BY <1>6 DEF IInv, DecayPass, rowVars, linkVars, logVars, fbVars, vars,
       TypeOK, Blank, Rows, Live, ActiveLive
  <2>3. LinkInv'
    BY <1>6 DEF IInv, DecayPass, rowVars, linkVars, logVars, fbVars, vars,
       TypeOK, LinkInv, JobInv, Rows, Live, ActiveLive
  <2>4. JobInv'
    BY <1>6 DEF IInv, DecayPass, rowVars, linkVars, logVars, fbVars, vars,
       TypeOK, JobInv, Rows, RedLined
  <2>5. TombstoneIffErased'
    BY <1>6 DEF IInv, DecayPass, rowVars, linkVars, logVars, fbVars, vars,
       TypeOK, TombstoneIffErased, JobInv, Rows, Live, ActiveLive, Mode
  <2>6. ErasureReachesEvents'
    BY <1>6 DEF IInv, DecayPass, rowVars, linkVars, logVars, fbVars, vars,
       TypeOK, ErasureReachesEvents, TombstoneIffErased, Rows, Live, ActiveLive, Mode
  <2>7. NoSilentDuplicate'
    BY <1>6, NoMoreDuplicates DEF IInv, DecayPass, rowVars, linkVars, logVars, fbVars, vars,
       TypeOK, Written, ActiveLive, Live, Rows, Mode
  <2>8. RedLine' /\ FeedbackCounted'
    BY <1>6 DEF IInv, DecayPass, rowVars, linkVars, logVars, fbVars, vars,
       RedLine, FeedbackCounted, ActiveLive, Live, Rows
  <2>9. CitationsStand'
    BY <1>6 DEF IInv, DecayPass, rowVars, linkVars, logVars, fbVars, vars,
       TypeOK, CitationsStand, Rows, Pending, Live, ActiveLive
  <2> QED
    BY <2>1, <2>2, <2>3, <2>4, <2>5, <2>6, <2>7, <2>8, <2>9 DEF IInv
<1>7. ASSUME NEW p \in Proc, NEW i \in Item, NEW mode \in DeleteModes,
                      DeletePreflight(p, i, mode)
      PROVE  IInv'
  <2>1. TypeOK'
    BY <1>7 DEF IInv, DeletePreflight, Idle, rowVars, linkVars, logVars, fbVars, vars,
       TypeOK, Time, Mode, Rows, Live, ActiveLive
  <2>2. JobInv'
    BY <1>7 DEF IInv, DeletePreflight, Idle, rowVars, linkVars, logVars, fbVars, vars,
       TypeOK, JobInv, Rows, RedLined
  <2>3. UNCHANGED <<status, deletedAt, replaced, source, audit, feedback, applied>>
    BY <1>7 DEF DeletePreflight, rowVars, linkVars, logVars, fbVars
  <2>4. Blank' /\ LinkInv' /\ TombstoneIffErased' /\ RedLine' /\ ErasureReachesEvents' /\ FeedbackCounted' /\ NoSilentDuplicate'
    BY <2>3 DEF IInv, DeletePreflight, Idle, rowVars, linkVars, logVars, fbVars, vars,
       Blank, LinkInv, TombstoneIffErased, RedLine, ErasureReachesEvents, FeedbackCounted, NoSilentDuplicate, Written, ActiveLive, Live, Rows
  <2>5. CitationsStand'
    BY <1>7 DEF IInv, DeletePreflight, Idle, rowVars, linkVars, logVars, fbVars, vars,
       TypeOK, CitationsStand, Rows
  <2> QED
    BY <2>1, <2>2, <2>3, <2>4, <2>5 DEF IInv
<1>8. ASSUME NEW p \in Proc, SoftDelete(p)
      PROVE  IInv'
  <2>1. TypeOK'
    BY <1>8 DEF IInv, SoftDelete, Idle, rowVars, linkVars, logVars, fbVars, vars,
       TypeOK, Time, Mode, Rows, Live, ActiveLive
  <2>2. Blank'
    BY <1>8 DEF IInv, SoftDelete, Idle, rowVars, linkVars, logVars, fbVars, vars,
       TypeOK, Blank, Rows, Live, ActiveLive
  <2>3. JobInv'
    BY <1>8 DEF IInv, SoftDelete, Idle, rowVars, linkVars, logVars, fbVars, vars,
       TypeOK, JobInv, Rows, RedLined
  <2>4. NoSilentDuplicate'
    BY <1>8, NoMoreDuplicates DEF IInv, SoftDelete, Idle, rowVars, linkVars, logVars, fbVars, vars,
       TypeOK, Written, ActiveLive, Live, Rows, Mode
  <2>5. LinkInv' /\ TombstoneIffErased' /\ RedLine' /\ ErasureReachesEvents' /\ FeedbackCounted'
    BY <1>8 DEF IInv, SoftDelete, Idle, rowVars, linkVars, logVars, fbVars, vars,
       LinkInv, TombstoneIffErased, RedLine, ErasureReachesEvents, FeedbackCounted, ActiveLive, Live, Rows
  <2>6. CitationsStand'
    BY <1>8 DEF IInv, SoftDelete, Idle, rowVars, linkVars, logVars, fbVars, vars,
       TypeOK, CitationsStand, Rows
  <2> QED
    BY <2>1, <2>2, <2>3, <2>4, <2>5, <2>6 DEF IInv
<1>9. ASSUME NEW p \in Proc, HardDelete(p)
      PROVE  IInv'
  <2>1. TypeOK'
    BY <1>9 DEF IInv, HardDelete, EraseRows, Idle, rowVars, linkVars, logVars, fbVars, vars,
       TypeOK, Time, Mode, Rows, Live, ActiveLive
  <2>2. Blank'
    BY <1>9 DEF IInv, HardDelete, EraseRows, Idle, rowVars, linkVars, logVars, fbVars, vars,
       TypeOK, Blank, Rows, Live, ActiveLive
  <2>3. LinkInv'
    BY <1>9 DEF IInv, HardDelete, EraseRows, Idle, rowVars, linkVars, logVars, fbVars, vars,
       TypeOK, LinkInv, JobInv, Rows, Live, ActiveLive
  <2>4. JobInv'
    BY <1>9 DEF IInv, HardDelete, EraseRows, Idle, rowVars, linkVars, logVars, fbVars, vars,
       TypeOK, JobInv, Rows, RedLined
  <2>5. TombstoneIffErased'
    BY <1>9 DEF IInv, HardDelete, EraseRows, Idle, rowVars, linkVars, logVars, fbVars, vars,
       TypeOK, TombstoneIffErased, JobInv, Rows, Live, ActiveLive, Mode
  <2>6. RedLine'
    BY <1>9 DEF IInv, HardDelete, EraseRows, Idle, rowVars, linkVars, logVars, fbVars, vars,
       TypeOK, RedLine, JobInv, RedLined, Mode
  <2>7. ErasureReachesEvents'
    BY <1>9 DEF IInv, HardDelete, EraseRows, Idle, rowVars, linkVars, logVars, fbVars, vars,
       TypeOK, ErasureReachesEvents, TombstoneIffErased, Rows, Live, ActiveLive, Mode
  <2>8. NoSilentDuplicate'
    BY <1>9, NoMoreDuplicates DEF IInv, HardDelete, EraseRows, Idle, rowVars, linkVars, logVars, fbVars, vars,
       TypeOK, Written, ActiveLive, Live, Rows, Mode
  <2>9. FeedbackCounted'
    BY <1>9 DEF IInv, HardDelete, EraseRows, Idle, rowVars, linkVars, logVars, fbVars, vars,
       FeedbackCounted, ActiveLive, Live, Rows
  <2>10. CitationsStand'
    BY <1>9 DEF IInv, HardDelete, EraseRows, Idle, Erasable, rowVars, linkVars, logVars, fbVars, vars,
       TypeOK, CitationsStand, Rows
  <2> QED
    BY <2>1, <2>2, <2>3, <2>4, <2>5, <2>6, <2>7, <2>8, <2>9, <2>10 DEF IInv
<1>10. ASSUME NEW i \in Item, Restore(i)
      PROVE  IInv'
  <2>1. TypeOK'
    BY <1>10 DEF IInv, Restore, rowVars, linkVars, logVars, fbVars, vars,
       TypeOK, Time, Mode, Rows, Live, ActiveLive
  <2>2. Blank'
    BY <1>10 DEF IInv, Restore, rowVars, linkVars, logVars, fbVars, vars,
       TypeOK, Blank, Rows, Live, ActiveLive
  <2>3. LinkInv'
    BY <1>10 DEF IInv, Restore, rowVars, linkVars, logVars, fbVars, vars,
       TypeOK, LinkInv, JobInv, Rows, Live, ActiveLive
  <2>4. TombstoneIffErased'
    BY <1>10 DEF IInv, Restore, rowVars, linkVars, logVars, fbVars, vars,
       TypeOK, TombstoneIffErased, JobInv, Rows, Live, ActiveLive, Mode
  <2>5. RedLine'
    BY <1>10 DEF IInv, Restore, rowVars, linkVars, logVars, fbVars, vars,
       TypeOK, RedLine, JobInv, RedLined, Mode
  <2>6. ErasureReachesEvents'
    BY <1>10 DEF IInv, Restore, rowVars, linkVars, logVars, fbVars, vars,
       TypeOK, ErasureReachesEvents, TombstoneIffErased, Rows, Live, ActiveLive, Mode
  <2>7. NoSilentDuplicate'
    BY <1>10, NoMoreDuplicates DEF IInv, Restore, rowVars, linkVars, logVars, fbVars, vars,
       TypeOK, Written, ActiveLive, Live, Rows, Mode
  <2>8. JobInv' /\ FeedbackCounted'
    BY <1>10 DEF IInv, Restore, rowVars, linkVars, logVars, fbVars, vars,
       JobInv, FeedbackCounted, ActiveLive, Live, Rows
  <2>9. CitationsStand'
    BY <1>10 DEF IInv, Restore, rowVars, linkVars, logVars, fbVars, vars,
       TypeOK, CitationsStand, Rows
  <2> QED
    BY <2>1, <2>2, <2>3, <2>4, <2>5, <2>6, <2>7, <2>8, <2>9 DEF IInv
<1>11. ASSUME NEW p \in Proc, SweepSelect(p)
      PROVE  IInv'
  <2>1. TypeOK'
    BY <1>11 DEF IInv, SweepSelect, Idle, Victims, Expired, rowVars, linkVars, logVars, fbVars, vars,
       TypeOK, Time, Mode, Rows, Live, ActiveLive
  <2>2. JobInv'
    BY <1>11 DEF IInv, SweepSelect, Idle, Victims, Expired, rowVars, linkVars, logVars, fbVars, vars,
       TypeOK, JobInv, Rows, RedLined
  <2>3. UNCHANGED <<status, deletedAt, replaced, source, audit, feedback, applied>>
    BY <1>11 DEF SweepSelect, rowVars, linkVars, logVars, fbVars
  <2>4. Blank' /\ LinkInv' /\ TombstoneIffErased' /\ RedLine' /\ ErasureReachesEvents' /\ FeedbackCounted' /\ NoSilentDuplicate'
    BY <2>3 DEF IInv, SweepSelect, Idle, Victims, Expired, rowVars, linkVars, logVars, fbVars, vars,
       Blank, LinkInv, TombstoneIffErased, RedLine, ErasureReachesEvents, FeedbackCounted, NoSilentDuplicate, Written, ActiveLive, Live, Rows
  <2>5. CitationsStand'
    BY <1>11 DEF IInv, SweepSelect, Idle, Victims, Expired, rowVars, linkVars, logVars, fbVars, vars,
       TypeOK, CitationsStand, Rows
  <2> QED
    BY <2>1, <2>2, <2>3, <2>4, <2>5 DEF IInv
<1>12. ASSUME NEW p \in Proc, SweepErase(p)
      PROVE  IInv'
  <2>1. TypeOK'
    BY <1>12 DEF IInv, SweepErase, EraseRows, Idle, rowVars, linkVars, logVars, fbVars, vars,
       TypeOK, Time, Mode, Rows, Live, ActiveLive
  <2>2. Blank'
    BY <1>12 DEF IInv, SweepErase, EraseRows, Idle, rowVars, linkVars, logVars, fbVars, vars,
       TypeOK, Blank, Rows, Live, ActiveLive
  <2>3. LinkInv'
    BY <1>12 DEF IInv, SweepErase, EraseRows, Idle, rowVars, linkVars, logVars, fbVars, vars,
       TypeOK, LinkInv, JobInv, Rows, Live, ActiveLive
  <2>4. JobInv'
    BY <1>12 DEF IInv, SweepErase, EraseRows, Idle, rowVars, linkVars, logVars, fbVars, vars,
       TypeOK, JobInv, Rows, RedLined
  <2>5. TombstoneIffErased'
    BY <1>12 DEF IInv, SweepErase, EraseRows, Idle, rowVars, linkVars, logVars, fbVars, vars,
       TypeOK, TombstoneIffErased, JobInv, Rows, Live, ActiveLive, Mode
  <2>6. RedLine'
    BY <1>12 DEF IInv, SweepErase, EraseRows, Idle, rowVars, linkVars, logVars, fbVars, vars,
       TypeOK, RedLine, JobInv, RedLined, Mode
  <2>7. ErasureReachesEvents'
    BY <1>12 DEF IInv, SweepErase, EraseRows, Idle, rowVars, linkVars, logVars, fbVars, vars,
       TypeOK, ErasureReachesEvents, TombstoneIffErased, Rows, Live, ActiveLive, Mode
  <2>8. NoSilentDuplicate'
    BY <1>12, NoMoreDuplicates DEF IInv, SweepErase, EraseRows, Idle, rowVars, linkVars, logVars, fbVars, vars,
       TypeOK, Written, ActiveLive, Live, Rows, Mode
  <2>9. FeedbackCounted'
    BY <1>12 DEF IInv, SweepErase, EraseRows, Idle, rowVars, linkVars, logVars, fbVars, vars,
       FeedbackCounted, ActiveLive, Live, Rows
  <2>10. CitationsStand'
    BY <1>12 DEF IInv, SweepErase, EraseRows, Idle, Erasable, rowVars, linkVars, logVars, fbVars, vars,
       TypeOK, CitationsStand, Rows
  <2> QED
    BY <2>1, <2>2, <2>3, <2>4, <2>5, <2>6, <2>7, <2>8, <2>9, <2>10 DEF IInv
<1>13. ASSUME NEW p \in Proc, Abandon(p)
      PROVE  IInv'
  <2>1. TypeOK'
    BY <1>13 DEF IInv, Abandon, Idle, rowVars, linkVars, logVars, fbVars, vars,
       TypeOK, Time, Mode, Rows, Live, ActiveLive
  <2>2. JobInv'
    BY <1>13 DEF IInv, Abandon, Idle, rowVars, linkVars, logVars, fbVars, vars,
       TypeOK, JobInv, Rows, RedLined
  <2>3. UNCHANGED <<status, deletedAt, replaced, source, audit, feedback, applied>>
    BY <1>13 DEF Abandon, rowVars, linkVars, logVars, fbVars
  <2>4. Blank' /\ LinkInv' /\ TombstoneIffErased' /\ RedLine' /\ ErasureReachesEvents' /\ FeedbackCounted' /\ NoSilentDuplicate'
    BY <2>3 DEF IInv, Abandon, Idle, rowVars, linkVars, logVars, fbVars, vars,
       Blank, LinkInv, TombstoneIffErased, RedLine, ErasureReachesEvents, FeedbackCounted, NoSilentDuplicate, Written, ActiveLive, Live, Rows
  <2>5. CitationsStand'
    BY <1>13 DEF IInv, Abandon, Idle, rowVars, linkVars, logVars, fbVars, vars,
       TypeOK, CitationsStand, Rows
  <2> QED
    BY <2>1, <2>2, <2>3, <2>4, <2>5 DEF IInv
<1>14. ASSUME Tick
      PROVE  IInv'
  <2>1. TypeOK'
    BY <1>14 DEF IInv, Tick, rowVars, linkVars, logVars, fbVars, vars,
       TypeOK, Time, Mode, Rows, Live, ActiveLive
  <2>2. UNCHANGED <<status, deletedAt, replaced, source, audit, feedback, applied, job>>
    BY <1>14 DEF Tick, rowVars, linkVars, logVars, fbVars
  <2>3. Blank' /\ LinkInv' /\ JobInv' /\ TombstoneIffErased' /\ RedLine' /\ ErasureReachesEvents' /\ FeedbackCounted' /\ NoSilentDuplicate'
    BY <2>2 DEF IInv, Tick, rowVars, linkVars, logVars, fbVars, vars,
       Blank, LinkInv, JobInv, TombstoneIffErased, RedLine, ErasureReachesEvents, FeedbackCounted, NoSilentDuplicate, Written, ActiveLive, Live, Rows
  <2>4. CitationsStand'
    BY <1>14 DEF IInv, Tick, rowVars, linkVars, logVars, fbVars, vars,
       TypeOK, CitationsStand, Rows
  <2> QED
    BY <2>1, <2>2, <2>3, <2>4 DEF IInv
<1>15. ASSUME NEW i \in Item, Recall(i)
      PROVE  IInv'
  <2>1. TypeOK'
    BY <1>15 DEF IInv, Recall, rowVars, linkVars, logVars, vars, TypeOK, Time, Mode
  <2>2. UNCHANGED <<status, deletedAt, replaced, source, audit, feedback, applied, job>>
    BY <1>15 DEF Recall, rowVars, linkVars, logVars
  <2>3. Blank' /\ LinkInv' /\ JobInv' /\ TombstoneIffErased' /\ RedLine' /\ ErasureReachesEvents' /\ FeedbackCounted' /\ NoSilentDuplicate'
    BY <2>2 DEF IInv, Blank, LinkInv, JobInv, TombstoneIffErased, RedLine, ErasureReachesEvents,
       FeedbackCounted, NoSilentDuplicate, Written, ActiveLive, Live, Rows
  <2>4. CitationsStand'
    BY <1>15, <2>2 DEF IInv, Recall, TypeOK, CitationsStand, Rows
  <2> QED
    BY <2>1, <2>3, <2>4 DEF IInv
<1>16. CASE UNCHANGED vars
  BY <1>16 DEF IInv, vars, TypeOK, Blank, LinkInv, JobInv, TombstoneIffErased, RedLine, ErasureReachesEvents,
     CitationsStand, FeedbackCounted, NoSilentDuplicate, Written, ActiveLive, Live, Rows, RedLined, Mode, Alike,
     rowVars, linkVars, logVars, fbVars
<1> QED
  BY <1>1, <1>2, <1>3, <1>4, <1>5, <1>6, <1>7, <1>8, <1>9, <1>10, <1>11, <1>12, <1>13, <1>14, <1>15, <1>16 DEF Next

\* Every step preserves what the verdicts on record say of the rows.
LEMMA NextVerdict == IInv /\ VerdictInv /\ [Next]_vars => VerdictInv'
<1> SUFFICES ASSUME IInv, VerdictInv, [Next]_vars, NEW f \in FbKey, feedback'[f] # None
             PROVE  /\ status'[feedback'[f].item] # "unwritten"
                    /\ feedback'[f].retires /\ <<feedback'[f].item, "status_change">> \notin audit' =>
                          status'[feedback'[f].item] \notin Recallable
  BY DEF VerdictInv
<1> USE Constants, Statuses
<1>a. TypeOK
  BY DEF IInv
<1> DEFINE i == feedback[f].item
<1>b. feedback[f] # None =>
        /\ i \in Item /\ status[i] # "unwritten"
        /\ feedback[f].retires /\ <<i, "status_change">> \notin audit => status[i] \notin Recallable
  BY <1>a DEF VerdictInv, TypeOK
<1>c. ASSUME feedback' = feedback, audit \subseteq audit',
             feedback[f] # None => status'[i] = status[i] \/ status'[i] \in {"retired", "erased"}
      PROVE  /\ status'[i] # "unwritten"
             /\ feedback'[f].retires /\ <<i, "status_change">> \notin audit' => status'[i] \notin Recallable
  BY <1>b, <1>c
<1>1. ASSUME NEW x \in Item, NEW target \in Item \cup {None}, WriteMemory(x, target)
      PROVE  /\ status'[feedback'[f].item] # "unwritten"
             /\ feedback'[f].retires /\ <<feedback'[f].item, "status_change">> \notin audit' =>
                   status'[feedback'[f].item] \notin Recallable
  <2>1. feedback' = feedback /\ audit' = audit
    BY <1>1 DEF WriteMemory, fbVars
  <2>2. i # x
    BY <1>1, <1>b, <2>1 DEF WriteMemory
  <2>3. status'[i] = status[i] \/ status'[i] = "retired"
    BY <1>1, <1>a, <1>b, <2>1, <2>2 DEF WriteMemory, Retire, TypeOK
  <2> QED
    BY <1>c, <2>1, <2>3
<1>2. ASSUME NEW x \in Item, NEW s \in RowStatus, UpdateStatus(x, s)
      PROVE  /\ status'[feedback'[f].item] # "unwritten"
             /\ feedback'[f].retires /\ <<feedback'[f].item, "status_change">> \notin audit' =>
                   status'[feedback'[f].item] \notin Recallable
  <2>1. feedback' = feedback /\ audit' = audit \cup {<<x, "status_change">>}
    BY <1>2 DEF UpdateStatus, fbVars
  <2>2. CASE i = x
    BY <1>2, <1>a, <1>b, <2>1, <2>2 DEF UpdateStatus, TypeOK
  <2>3. CASE i # x
    BY <1>2, <1>a, <1>b, <1>c, <2>1, <2>3 DEF UpdateStatus, TypeOK
  <2> QED
    BY <2>2, <2>3
<1>3. ASSUME NEW g \in FbKey, NEW x \in Item, NEW retires \in BOOLEAN, Feedback(g, x, retires)
      PROVE  /\ status'[feedback'[f].item] # "unwritten"
             /\ feedback'[f].retires /\ <<feedback'[f].item, "status_change">> \notin audit' =>
                   status'[feedback'[f].item] \notin Recallable
  <2>1. /\ feedback' = [feedback EXCEPT ![g] = [item |-> x, retires |-> retires]] /\ audit' = audit
        /\ status' = IF retires THEN [status EXCEPT ![x] = "retired"] ELSE status
        /\ x \in Rows
    BY <1>3 DEF Feedback, logVars
  <2>2. CASE f = g
    BY <1>a, <2>1, <2>2 DEF TypeOK, Rows
  <2>3. CASE f # g
    BY <1>a, <1>b, <2>1, <2>3 DEF TypeOK
  <2> QED
    BY <2>2, <2>3
<1>4. ASSUME NEW batch \in SUBSET Pending, NEW promoted \in SUBSET batch, Consolidate(batch, promoted)
      PROVE  /\ status'[feedback'[f].item] # "unwritten"
             /\ feedback'[f].retires /\ <<feedback'[f].item, "status_change">> \notin audit' =>
                   status'[feedback'[f].item] \notin Recallable
  <2>1. feedback' = feedback /\ audit' = audit
    BY <1>4 DEF Consolidate, fbVars, logVars
  <2>2. status'[i] = IF i \in promoted THEN "active" ELSE IF i \in batch THEN "retired" ELSE status[i]
    BY <1>4, <1>b, <2>1 DEF Consolidate
  <2>3. i \in batch => status[i] = "candidate"
    BY DEF Pending
  <2> QED
    BY <1>b, <2>1, <2>2, <2>3
<1>5. ASSUME NEW worn \in SUBSET ActiveLive, DecayPass(worn)
      PROVE  /\ status'[feedback'[f].item] # "unwritten"
             /\ feedback'[f].retires /\ <<feedback'[f].item, "status_change">> \notin audit' =>
                   status'[feedback'[f].item] \notin Recallable
  <2>1. feedback' = feedback /\ audit' = audit
    BY <1>5 DEF DecayPass, fbVars, logVars
  <2>2. status'[i] = status[i] \/ status'[i] = "retired"
    BY <1>5, <1>b, <2>1 DEF DecayPass
  <2> QED
    BY <1>c, <2>1, <2>2
<1>6. ASSUME NEW p \in Proc, HardDelete(p) \/ SweepErase(p)
      PROVE  /\ status'[feedback'[f].item] # "unwritten"
             /\ feedback'[f].retires /\ <<feedback'[f].item, "status_change">> \notin audit' =>
                   status'[feedback'[f].item] \notin Recallable
  <2>1. feedback' = feedback /\ audit \subseteq audit'
    BY <1>6 DEF HardDelete, SweepErase, EraseRows, fbVars
  <2>2. status'[i] = status[i] \/ status'[i] = "erased"
    BY <1>6, <1>b, <2>1 DEF HardDelete, SweepErase, EraseRows
  <2> QED
    BY <1>c, <2>1, <2>2
<1>7. ASSUME feedback' = feedback, status' = status, audit \subseteq audit'
      PROVE  /\ status'[feedback'[f].item] # "unwritten"
             /\ feedback'[f].retires /\ <<feedback'[f].item, "status_change">> \notin audit' =>
                   status'[feedback'[f].item] \notin Recallable
  BY <1>c, <1>7
<1> QED
  <2>1. ASSUME \/ \E g \in FbKey, x \in Item : FeedbackReplay(g, x)
               \/ \E x \in Item : Recall(x) \/ Restore(x)
               \/ \E p \in Proc, x \in Item, mode \in DeleteModes : DeletePreflight(p, x, mode)
               \/ \E p \in Proc : SoftDelete(p) \/ SweepSelect(p) \/ Abandon(p)
               \/ Tick
               \/ UNCHANGED vars
        PROVE  feedback' = feedback /\ status' = status /\ audit \subseteq audit'
    BY <2>1 DEF FeedbackReplay, Recall, Restore, DeletePreflight, SoftDelete, SweepSelect, Abandon, Tick,
       vars, rowVars, linkVars, logVars, fbVars
  <2> QED
    BY <1>1, <1>2, <1>3, <1>4, <1>5, <1>6, <1>7, <2>1 DEF Next

\* Every step preserves what a sweep knows of the items it has collected.
LEMMA NextSweep == IInv /\ SweepInv /\ [Next]_vars => SweepInv'
<1> SUFFICES ASSUME IInv, SweepInv, [Next]_vars, NEW p \in Proc, job'[p].op = "sweep", NEW i \in job'[p].batch
             PROVE  i \in Expired' \/ <<i, "restore">> \in audit' \/ status'[i] = "erased"
  BY DEF SweepInv
<1> USE Constants, Statuses
<1>a. TypeOK
  BY DEF IInv
<1>b. ASSUME NEW q \in Proc, SweepSelect(q)
      PROVE  i \in Expired' \/ <<i, "restore">> \in audit' \/ status'[i] = "erased"
  <2>1. UNCHANGED <<status, deletedAt, audit, now>>
    BY <1>b DEF SweepSelect, rowVars, linkVars, logVars
  <2>2. i \in Expired \/ <<i, "restore">> \in audit \/ status[i] = "erased"
    BY <1>a, <1>b DEF SweepSelect, Victims, SweepInv, TypeOK
  <2> QED
    BY <2>1, <2>2 DEF Expired, Rows
<1>c. (\A q \in Proc : ~SweepSelect(q)) => job[p].op = "sweep" /\ job'[p] = job[p]
  <2>1. ASSUME NEW q \in Proc, NEW x \in Item, NEW mode \in DeleteModes, DeletePreflight(q, x, mode)
        PROVE  q # p /\ job'[p] = job[p]
    BY <1>a, <2>1 DEF DeletePreflight, TypeOK
  <2>2. ASSUME NEW q \in Proc, SoftDelete(q) \/ HardDelete(q) \/ SweepErase(q) \/ Abandon(q)
        PROVE  q # p /\ job'[p] = job[p]
    BY <1>a, <2>2 DEF SoftDelete, HardDelete, SweepErase, Abandon, Idle, TypeOK
  <2>3. ASSUME \/ \E x \in Item, target \in Item \cup {None} : WriteMemory(x, target)
               \/ \E x \in Item : Recall(x) \/ Restore(x)
               \/ \E x \in Item, s \in RowStatus : UpdateStatus(x, s)
               \/ \E f \in FbKey, x \in Item, retires \in BOOLEAN : Feedback(f, x, retires)
               \/ \E f \in FbKey, x \in Item : FeedbackReplay(f, x)
               \/ \E batch \in SUBSET Pending : \E promoted \in SUBSET batch : Consolidate(batch, promoted)
               \/ \E worn \in SUBSET ActiveLive : DecayPass(worn)
               \/ Tick
               \/ UNCHANGED vars
        PROVE  job' = job
    BY <2>3 DEF WriteMemory, Recall, Restore, UpdateStatus, Feedback, FeedbackReplay, Consolidate, DecayPass, Tick, vars
  <2> QED
    BY <2>1, <2>2, <2>3 DEF Next
<1> SUFFICES ASSUME \A q \in Proc : ~SweepSelect(q)
             PROVE  i \in Expired' \/ <<i, "restore">> \in audit' \/ status'[i] = "erased"
  BY <1>b
<1>d. i \in Item /\ (i \in Expired \/ <<i, "restore">> \in audit \/ status[i] = "erased")
  BY <1>a, <1>c DEF SweepInv, TypeOK
<1>e. audit \subseteq audit'
  BY DEF Next, vars, WriteMemory, Recall, UpdateStatus, Feedback, FeedbackReplay, Consolidate, DecayPass,
     DeletePreflight, SoftDelete, HardDelete, Restore, SweepErase, Abandon, Tick, EraseRows, rowVars, linkVars, logVars
<1> SUFFICES ASSUME i \in Expired \/ status[i] = "erased", <<i, "restore">> \notin audit'
             PROVE  i \in Expired' \/ status'[i] = "erased"
  BY <1>d, <1>e
<1>1. ASSUME NEW x \in Item, NEW target \in Item \cup {None}, WriteMemory(x, target)
      PROVE  i \in Expired' \/ status'[i] = "erased"
  <2>1. i # x
    BY <1>1, <1>d DEF WriteMemory, Expired, Rows
  <2>2. deletedAt' = deletedAt /\ now' = now
    BY <1>1 DEF WriteMemory
  <2>3. status'[i] = status[i] \/ (status[i] \in Recallable /\ status'[i] = "retired")
    BY <1>1, <1>a, <1>d, <2>1 DEF WriteMemory, Retire, TypeOK
  <2> QED
    BY <1>d, <2>2, <2>3 DEF Expired, Rows
<1>2. ASSUME NEW x \in Item, NEW s \in RowStatus, UpdateStatus(x, s)
      PROVE  i \in Expired' \/ status'[i] = "erased"
  BY <1>2, <1>a, <1>d DEF UpdateStatus, Expired, Rows, TypeOK
<1>3. ASSUME NEW f \in FbKey, NEW x \in Item, NEW retires \in BOOLEAN, Feedback(f, x, retires)
      PROVE  i \in Expired' \/ status'[i] = "erased"
  BY <1>3, <1>a, <1>d DEF Feedback, Expired, Rows, TypeOK
<1>4. ASSUME NEW batch \in SUBSET Pending, NEW promoted \in SUBSET batch, Consolidate(batch, promoted)
      PROVE  i \in Expired' \/ status'[i] = "erased"
  BY <1>4, <1>a, <1>d DEF Consolidate, Pending, Live, Expired, Rows, TypeOK
<1>5. ASSUME NEW worn \in SUBSET ActiveLive, DecayPass(worn)
      PROVE  i \in Expired' \/ status'[i] = "erased"
  BY <1>5, <1>a, <1>d DEF DecayPass, ActiveLive, Live, Expired, Rows, TypeOK
<1>6. ASSUME NEW q \in Proc, SoftDelete(q)
      PROVE  i \in Expired' \/ status'[i] = "erased"
  BY <1>6, <1>a, <1>d DEF SoftDelete, Live, Expired, Rows, TypeOK
<1>7. ASSUME NEW q \in Proc, HardDelete(q) \/ SweepErase(q)
      PROVE  i \in Expired' \/ status'[i] = "erased"
  BY <1>7, <1>a, <1>d DEF HardDelete, SweepErase, EraseRows, Expired, Rows, TypeOK
<1>8. ASSUME NEW x \in Item, Restore(x)
      PROVE  i \in Expired' \/ status'[i] = "erased"
  <2>1. i # x
    BY <1>8 DEF Restore
  <2> QED
    BY <1>8, <1>a, <1>d, <2>1 DEF Restore, Expired, Rows, TypeOK
<1>9. CASE Tick
  BY <1>9, <1>a, <1>d DEF Tick, rowVars, linkVars, logVars, Expired, Rows, TypeOK, Time
<1> QED
  <2>1. ASSUME \/ \E f \in FbKey, x \in Item : FeedbackReplay(f, x)
               \/ \E x \in Item : Recall(x)
               \/ \E q \in Proc, x \in Item, mode \in DeleteModes : DeletePreflight(q, x, mode)
               \/ \E q \in Proc : Abandon(q)
               \/ UNCHANGED vars
        PROVE  UNCHANGED <<status, deletedAt, now>>
    BY <2>1 DEF FeedbackReplay, Recall, DeletePreflight, Abandon, vars, rowVars, linkVars
  <2>2. UNCHANGED <<status, deletedAt, now>> => i \in Expired' \/ status'[i] = "erased"
    BY DEF Expired, Rows
  <2> QED
    BY <1>1, <1>2, <1>3, <1>4, <1>5, <1>6, <1>7, <1>8, <1>9, <2>1, <2>2 DEF Next

\* Type correctness, and the invariants the model checker sees, for every
\* instance.
THEOREM Invariance == Spec => []IInv
  BY InitIInv, NextIInv, PTL DEF Spec

\* Every variable of the store keeps its type.
THEOREM TypeCorrect == Spec => []TypeOK
  BY Invariance, PTL DEF IInv

\* A memory that a write under its own project or a merge has replaced stays out
\* of recall until its status is set by hand, whatever becomes of the link.
THEOREM SupersededStaysHidden == Spec => []SupersededHidden
<1>1. IInv => SupersededHidden
  BY Statuses DEF IInv, LinkInv, SupersededHidden, Visible, Live, Rows
<1> QED
  BY Invariance, <1>1, PTL

\* No sweep ever erases a code-anchored decision, constraint or lesson.
THEOREM RedLineHolds == Spec => []RedLine
  BY Invariance, PTL DEF IInv

\* Erased rows and tombstones agree, whichever process got there first.
THEOREM TombstonesHold == Spec => []TombstoneIffErased
  BY Invariance, PTL DEF IInv

\* Source events outlive their rows, and go with a purge or a sweep.
THEOREM ErasureSound == Spec => []ErasureReachesEvents
  BY Invariance, PTL DEF IInv

\* What a recall has recorded is not erased any more.
THEOREM CitationsHold == Spec => []CitationsStand
  BY Invariance, PTL DEF IInv

\* What verdicts and sweeps know of the rows holds in every reachable state.
THEOREM Remembered == Spec => [](IInv /\ VerdictInv /\ SweepInv)
<1>1. Init => VerdictInv /\ SweepInv
  BY DEF Init, VerdictInv, SweepInv, Idle
<1> QED
  BY <1>1, InitIInv, NextIInv, NextVerdict, NextSweep, PTL DEF Spec

\* A feedback key takes effect once, and a memory that a verdict dismissed
\* stays out of recall unless its status is set by hand.
THEOREM VerdictsStand == Spec => []FeedbackStands
<1>1. IInv /\ VerdictInv => FeedbackStands
  BY DEF IInv, FeedbackCounted, VerdictInv, FeedbackStands, Visible, Live, Rows
<1> QED
  BY <1>1, Remembered, PTL

\* A sweep erases only rows past their grace window, and rows that were
\* restored between its two steps.
THEOREM SweepsGrounded == Spec => SweepErasesDropped
<1>1. ASSUME IInv, SweepInv, [Next]_vars, NEW i \in Rows, <<i, "sweep">> \in audit' \ audit
      PROVE  i \in Expired \/ <<i, "restore">> \in audit
  <2>1. PICK p \in Proc : SweepErase(p)
    <3>1. ASSUME NEW p \in Proc, HardDelete(p)
          PROVE  FALSE
      <4>1. job[p].op \in {"hard", "purge"} /\ audit' = audit \cup (job[p].batch \X {job[p].op})
        BY <3>1 DEF HardDelete, EraseRows
      <4> QED
        BY <1>1, <4>1
    <3>2. ASSUME NEW x \in Item, NEW kind \in {"restore", "status_change"}
          PROVE  audit' # audit \cup {<<x, kind>>}
      BY <1>1
    <3>3. audit' # audit
      BY <1>1
    <3> QED
      BY <1>1, <3>1, <3>2, <3>3 DEF Next, vars, WriteMemory, Recall, UpdateStatus, Feedback, FeedbackReplay,
         Consolidate, DecayPass, DeletePreflight, SoftDelete, Restore, SweepSelect, Abandon, Tick, rowVars, linkVars, logVars
  <2>2. job[p].op = "sweep" /\ i \in job[p].batch
    BY <1>1, <2>1 DEF SweepErase, EraseRows
  <2> QED
    BY <1>1, <2>2, Statuses DEF SweepInv, Rows
<1>2. IInv /\ SweepInv /\ [Next]_vars =>
        [\A i \in Rows : <<i, "sweep">> \in audit' \ audit => i \in Expired \/ <<i, "restore">> \in audit]_vars
  BY <1>1
<1> QED
  BY <1>2, Remembered, PTL DEF Spec, SweepErasesDropped

\* Consolidation leaves no two active memories that state the same fact, as far
\* as the rows that one comparison looks at reach.
THEOREM NoDuplicateLeft == Spec => []NoSilentDuplicate
  BY Invariance, PTL DEF IInv

(***************************************************************************)
(* The store implements MemoryPromise: each action moves the fates the way *)
(* one action of the promise allows.                                       *)
(***************************************************************************)
\* Every step of the store is a step of the promise, or none.
THEOREM StepPromise == IInv /\ IInv' /\ [Next]_vars => [Promise!Next]_Fate
<1> SUFFICES ASSUME IInv, IInv', [Next]_vars PROVE [Promise!Next]_Fate
  OBVIOUS
<1> USE Statuses
<1>a. /\ TypeOK /\ TypeOK' /\ Blank
      /\ Fate \in [Item -> Promise!Fates] /\ Fate' \in [Item -> Promise!Fates]
  BY DEF IInv, TypeOK, Fate, Promise!Fates
<1>1. ASSUME NEW i \in Item, NEW target \in Item \cup {None}, WriteMemory(i, target)
      PROVE  Promise!Next
  <2>1. Fate[i] = "unwritten" /\ Fate'[i] = "shown"
    BY <1>1, <1>a, Constants DEF WriteMemory, Retire, Fate, TypeOK, Blank
  <2>2. \A j \in Item \ {i} : Fate'[j] # Fate[j] =>
            j = target /\ Fate[j] = "shown" /\ Fate'[j] = "withdrawn"
    BY <1>1, <1>a DEF WriteMemory, Retire, Fate, TypeOK
  <2> QED
    BY <1>a, <2>1, <2>2 DEF Promise!Next, Promise!Publish, Promise!Others
<1>2. ASSUME NEW i \in Item, NEW s \in RowStatus, UpdateStatus(i, s)
      PROVE  Promise!Next
  <2>1. \A j \in Item \ {i} : Fate'[j] = Fate[j]
    BY <1>2, <1>a DEF UpdateStatus, Fate, TypeOK
  <2>2. Fate[i] \in {"shown", "withdrawn"} /\ Fate'[i] \in {"shown", "withdrawn"}
    BY <1>2, <1>a DEF UpdateStatus, Fate, TypeOK, Rows
  <2> QED
    BY <1>a, <2>1, <2>2
    DEF Promise!Next, Promise!Reveal, Promise!Withdraw, Promise!Others
<1>3. ASSUME NEW f \in FbKey, NEW i \in Item, NEW retires \in BOOLEAN, Feedback(f, i, retires)
      PROVE  Promise!Next
  <2>1. \A j \in Item : Fate'[j] = Fate[j] \/ (Fate[j] = "shown" /\ Fate'[j] = "withdrawn")
    BY <1>3, <1>a DEF Feedback, Fate, TypeOK, Rows
  <2> QED
    BY <1>a, <2>1 DEF Promise!Next, Promise!Withdraw, Promise!Others
<1>4. ASSUME NEW batch \in SUBSET Pending, NEW promoted \in SUBSET batch,
             Consolidate(batch, promoted)
      PROVE  Promise!Next
  <2>1. \A j \in Item : Fate'[j] = Fate[j] \/ (Fate[j] = "shown" /\ Fate'[j] = "withdrawn")
    BY <1>4, <1>a DEF Consolidate, Pending, Live, Rows, Fate, TypeOK
  <2> QED
    BY <1>a, <2>1 DEF Promise!Next, Promise!Withdraw, Promise!Others
<1>5. ASSUME NEW worn \in SUBSET ActiveLive, DecayPass(worn)
      PROVE  Promise!Next
  <2>1. \A j \in Item : Fate'[j] = Fate[j] \/ (Fate[j] = "shown" /\ Fate'[j] = "withdrawn")
    BY <1>5, <1>a DEF DecayPass, ActiveLive, Live, Rows, Fate, TypeOK
  <2> QED
    BY <1>a, <2>1 DEF Promise!Next, Promise!Withdraw, Promise!Others
<1>6. ASSUME NEW p \in Proc, SoftDelete(p)
      PROVE  Promise!Next
  <2>1. \A j \in Item : Fate'[j] = Fate[j] \/ (Fate[j] = "shown" /\ Fate'[j] = "withdrawn")
    BY <1>6, <1>a, Constants DEF SoftDelete, Live, Rows, Fate, TypeOK, Time
  <2> QED
    BY <1>a, <2>1 DEF Promise!Next, Promise!Withdraw, Promise!Others
<1>7. ASSUME NEW p \in Proc, NEW mode \in Mode, EraseRows(job[p].batch, mode)
      PROVE  Promise!Next
  <2>1. \A j \in job[p].batch : Fate[j] # "unwritten"
    BY <1>a DEF IInv, JobInv, Fate, TypeOK
  <2>2. \A j \in Item : Fate'[j] = Fate[j]
            \/ (Fate[j] \in {"shown", "withdrawn"} /\ Fate'[j] = "erased")
    BY <1>7, <1>a, <2>1 DEF EraseRows, Fate, TypeOK, Promise!Fates
  <2> QED
    BY <1>a, <2>2 DEF Promise!Next, Promise!Erase, Promise!Others
<1>8. ASSUME NEW i \in Item, Restore(i)
      PROVE  Promise!Next
  <2>1. \A j \in Item \ {i} : Fate'[j] = Fate[j]
    BY <1>8, <1>a DEF Restore, Fate, TypeOK
  <2>2. Fate[i] = "withdrawn" /\ Fate'[i] \in {"shown", "withdrawn"}
    BY <1>8, <1>a DEF Restore, Rows, Fate, TypeOK
  <2> QED
    BY <1>a, <2>1, <2>2
    DEF Promise!Next, Promise!Reveal, Promise!Withdraw, Promise!Others
<1>9. ASSUME UNCHANGED <<status, deletedAt>> PROVE UNCHANGED Fate
  BY <1>9 DEF Fate
<1> QED
  <2>1. ASSUME NEW p \in Proc, HardDelete(p) \/ SweepErase(p) PROVE Promise!Next
    BY <2>1, <1>7 DEF HardDelete, SweepErase, Mode
  <2>2. ASSUME \/ \E f \in FbKey, i \in Item : FeedbackReplay(f, i)
               \/ \E i \in Item : Recall(i)
               \/ \E p \in Proc, i \in Item, mode \in DeleteModes : DeletePreflight(p, i, mode)
               \/ \E p \in Proc : SweepSelect(p) \/ Abandon(p)
               \/ Tick
               \/ UNCHANGED vars
        PROVE  UNCHANGED Fate
    BY <2>2, <1>9 DEF FeedbackReplay, Recall, DeletePreflight, SweepSelect, Abandon, Tick, vars, rowVars, linkVars
  <2> QED
    BY <1>1, <1>2, <1>3, <1>4, <1>5, <1>6, <1>8, <2>1, <2>2 DEF Next

\* The store keeps the promise made to its clients.
THEOREM Implementation == Spec => PromiseKept
<1>1. Init => Promise!Init
  BY Statuses DEF Init, Promise!Init, Fate
<1> QED
  BY <1>1, Invariance, StepPromise, PTL DEF Spec, PromiseKept, Promise!Spec
=============================================================================
