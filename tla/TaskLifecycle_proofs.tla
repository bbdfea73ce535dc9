----------------------- MODULE TaskLifecycle_proofs -----------------------
(***************************************************************************)
(* Proofs about TaskLifecycle, for any tasks, turns, tool uses, keys,      *)
(* requests and processes.                                                 *)
(*                                                                         *)
(* Only two steps write: a begin and the transaction of a call.  Both add  *)
(* one row with a key no row had (lemma OneMore), and what the             *)
(* transaction credits was backed in the state it started from.  The       *)
(* strengthening, KeyedInv, is about types: a row that records evidence    *)
(* has a tool use for its key and a completion an agent's key, in the      *)
(* journal and in what the processes are about to write.                   *)
(*                                                                         *)
(* LateBounded is its own invariant, by counting: an outcome takes the     *)
(* process that writes it out of those about to write evidence, and from   *)
(* then on late evidence and the processes that bring it trade places.     *)
(***************************************************************************)
EXTENDS TaskLifecycle, FiniteSetTheorems, TLAPS

Keyed(row) ==
    /\ row.state = "evidence_observed" => row.key \in Use
    /\ row.state = "completed" => row.key \in Key /\ row.detail \in SUBSET Attribution

KeyedInv ==
    /\ \A r \in Rows : Keyed(r)
    /\ \A p \in Proc : job[p] # Idle => Keyed(job[p].row)

TaskIInv == TaskTypeOK /\ KeyedInv /\ ToldTrue /\ CreditGrounded /\ OutcomeWhole

\* What a process holds.
LEMMA JobTypes ==
  ASSUME TaskTypeOK, NEW p \in Proc
  PROVE  /\ job[p] = Idle \/ job[p] \in [step : {"look", "write"}, row : Row]
         /\ job[p].step # "idle" => job[p] # Idle /\ job[p].row \in Row
  BY DEF TaskTypeOK, Idle

\* What a row of the journal is.
LEMMA RowTypes ==
  ASSUME TaskTypeOK
  PROVE  Rows \subseteq Row /\ \A r \in Rows : r.task \in Task
<1>1. Rows \subseteq Row
  BY DEF TaskTypeOK, Rows
<1>2. \A r \in Row : r.task \in Task
  BY DEF Row
<1> QED
  BY <1>1, <1>2

\* A new row is the last one, after those there were.
LEMMA OneMore ==
  ASSUME journal \in Seq(Row), NEW row \in Row, journal' = Append(journal, row)
  PROVE  /\ journal' \in Seq(Row)
         /\ Len(journal) + 1 \in DOMAIN journal'
         /\ journal'[Len(journal) + 1] = row
         /\ \A n \in DOMAIN journal :
               n \in DOMAIN journal' /\ journal'[n] = journal[n] /\ n < Len(journal) + 1
         /\ \A n \in DOMAIN journal' : n \in DOMAIN journal \/ n = Len(journal) + 1
         /\ Rows' = Rows \cup {row}
<1>1. /\ journal' \in Seq(Row)
      /\ DOMAIN journal = 1 .. Len(journal) /\ Len(journal) \in Nat
      /\ DOMAIN journal' = 1 .. Len(journal) + 1
  OBVIOUS
<1>2. journal'[Len(journal) + 1] = row /\ \A n \in 1 .. Len(journal) : journal'[n] = journal[n]
  OBVIOUS
<1>3. \A n \in DOMAIN journal' : n \in DOMAIN journal \/ n = Len(journal) + 1
  BY <1>1
<1>4. \A n \in DOMAIN journal :
         n \in DOMAIN journal' /\ journal'[n] = journal[n] /\ n < Len(journal) + 1
  BY <1>1, <1>2
<1>5. Rows' = Rows \cup {row}
  BY <1>1, <1>2, <1>3, <1>4 DEF Rows
<1> QED
  BY <1>1, <1>2, <1>3, <1>4, <1>5

\* An answer stays true while nothing on record goes.
LEMMA AnsweredLasts ==
  ASSUME Rows \subseteq Rows', NEW row, Answered(row)
  PROVE  Answered(row)'
  BY DEF Answered, Closed

\* Appending a row with a new key keeps what is said of keys and of credits.
LEMMA AppendKeeps ==
  ASSUME TaskIInv, NEW row \in Row, Keyed(row), ~Used(row.key), journal' = Append(journal, row),
         told' = told \cup {row}
  PROVE  /\ journal' \in Seq(Row) /\ told' \subseteq Row
         /\ Rows' = Rows \cup {row}
         /\ \A r \in Rows' : Keyed(r)
         /\ ToldTrue'
         /\ credits' = credits => CreditGrounded'
<1>1. journal \in Seq(Row)
  BY DEF TaskIInv, TaskTypeOK
<1>2. /\ journal' \in Seq(Row)
      /\ journal'[Len(journal) + 1] = row
      /\ \A n \in DOMAIN journal :
            n \in DOMAIN journal' /\ journal'[n] = journal[n] /\ n < Len(journal) + 1
      /\ \A n \in DOMAIN journal' : n \in DOMAIN journal \/ n = Len(journal) + 1
      /\ Rows' = Rows \cup {row}
  BY <1>1, OneMore
<1>3. \A n \in DOMAIN journal : journal[n].key # row.key
  BY DEF Used, Rows
<1>4. ToldTrue'
  <2>1. \A r \in told : Answered(r)'
    BY <1>2, AnsweredLasts DEF TaskIInv, ToldTrue
  <2>2. Answered(row)'
    BY <1>2 DEF Answered
  <2>3. \A m, n \in DOMAIN journal' : journal'[m].key = journal'[n].key => m = n
    BY <1>2, <1>3 DEF TaskIInv, ToldTrue
  <2> QED
    BY <2>1, <2>2, <2>3 DEF ToldTrue
<1>5. ASSUME credits' = credits PROVE CreditGrounded'
  BY <1>2, <1>5 DEF TaskIInv, CreditGrounded
<1>6. \A r \in Rows' : Keyed(r)
  BY <1>2 DEF TaskIInv, KeyedInv
<1> QED
  BY <1>2, <1>4, <1>5, <1>6 DEF TaskIInv, TaskTypeOK

\* The initial state satisfies the inductive invariant.
THEOREM InitTask == Init => TaskIInv
  BY DEF Init, TaskIInv, TaskTypeOK, KeyedInv, ToldTrue, CreditGrounded, OutcomeWhole, Rows, Idle

\* Steps that write nothing keep the invariant if what a process is about
\* to write is well keyed and what anybody is told is true.
LEMMA JobStep ==
  ASSUME TaskIInv, NEW p \in Proc, NEW next,
         next = Idle \/ (next \in [step : {"look", "write"}, row : Row] /\ Keyed(next.row)),
         job' = [job EXCEPT ![p] = next], UNCHANGED <<journal, credits>>,
         told' \subseteq Row, \A row \in told' : Answered(row)
  PROVE  TaskIInv'
<1>1. Rows' = Rows
  BY DEF Rows
<1>2. \A row \in told' : Answered(row)'
  BY <1>1, AnsweredLasts
<1>3. TaskTypeOK'
  BY DEF TaskIInv, TaskTypeOK, Idle
<1>4. KeyedInv'
  BY <1>1 DEF TaskIInv, TaskTypeOK, KeyedInv
<1>5. ToldTrue' /\ CreditGrounded' /\ OutcomeWhole'
  BY <1>1, <1>2 DEF TaskIInv, ToldTrue, CreditGrounded, OutcomeWhole
<1> QED
  BY <1>3, <1>4, <1>5 DEF TaskIInv

\* A begin keeps the invariant.
LEMMA BeginKeeps ==
  ASSUME TaskIInv, NEW t \in Task, NEW prompt \in Text, Begin(t, prompt)
  PROVE  TaskIInv'
<1> DEFINE row == [task |-> t, state |-> "recall_completed", detail |-> prompt, key |-> t]
<1>1. row \in Row /\ Keyed(row)
  BY DEF Row, State, Keyed
<1>2. told' = told \cup {row} /\ UNCHANGED <<credits, job>>
  BY DEF Begin
<1>3. CASE Used(t)
  <2>1. journal' = journal /\ row \in Rows
    BY <1>3 DEF Begin
  <2>2. Rows' = Rows
    BY <2>1 DEF Rows
  <2>3. TaskTypeOK'
    BY <1>1, <1>2, <2>1 DEF TaskIInv, TaskTypeOK
  <2>4. KeyedInv' /\ OutcomeWhole' /\ CreditGrounded'
    BY <1>2, <2>1, <2>2 DEF TaskIInv, KeyedInv, OutcomeWhole, CreditGrounded
  <2>5. ToldTrue'
    <3>1. \A r \in told : Answered(r)'
      BY <2>2, AnsweredLasts DEF TaskIInv, ToldTrue
    <3>2. Answered(row)'
      BY <2>1, <2>2 DEF Answered
    <3> QED
      BY <1>2, <2>1, <3>1, <3>2 DEF TaskIInv, ToldTrue
  <2> QED
    BY <2>3, <2>4, <2>5 DEF TaskIInv
<1>4. CASE ~Used(t)
  <2>1. journal' = Append(journal, row) /\ ~Used(row.key)
    BY <1>4 DEF Begin
  <2>2. /\ journal' \in Seq(Row) /\ told' \subseteq Row /\ Rows' = Rows \cup {row}
        /\ (\A r \in Rows' : Keyed(r)) /\ ToldTrue' /\ CreditGrounded'
    <3> HIDE DEF row
    <3> QED
      BY <1>1, <1>2, <2>1, AppendKeeps
  <2>3. TaskTypeOK' /\ KeyedInv'
    BY <1>2, <2>2 DEF TaskIInv, TaskTypeOK, KeyedInv
  <2>4. OutcomeWhole'
    BY <1>2, <2>2 DEF TaskIInv, OutcomeWhole, Attributed
  <2> QED
    BY <2>2, <2>3, <2>4 DEF TaskIInv
<1> QED
  BY <1>3, <1>4

\* The transaction of a call keeps the invariant.
LEMMA CommitKeeps ==
  ASSUME TaskIInv, NEW p \in Proc, Commit(p)
  PROVE  TaskIInv'
<1> DEFINE row == job[p].row
<1>1. row \in Row /\ Keyed(row)
  BY JobTypes DEF Commit, TaskIInv, KeyedInv
<1>2. /\ ~Used(row.key) /\ \A a \in Attributed(row) : Backed(row, a)
      /\ journal' = Append(journal, row) /\ told' = told \cup {row}
      /\ credits' = credits \cup NewCredits(row)
      /\ job' = [job EXCEPT ![p] = Idle]
  BY DEF Commit
<1> HIDE DEF row
<1>3. /\ journal' \in Seq(Row) /\ told' \subseteq Row /\ Rows' = Rows \cup {row}
      /\ (\A r \in Rows' : Keyed(r)) /\ ToldTrue'
  BY <1>1, <1>2, AppendKeeps
<1>4. ASSUME NEW c \in NewCredits(row)
      PROVE  /\ row.state = "completed"
             /\ \E a \in Attributed(row) :
                   /\ a \in Attribution /\ a.state \in Verdicts
                   /\ c = [by |-> row.key, task |-> row.task, memory |-> a.memory,
                           state |-> a.state, evidence |-> a.evidence]
                   /\ a.memory \in Retrieved[row.task] /\ a.evidence \in EvidenceOf(row.task)
  <2>1. PICK a \in Attributed(row) :
           a.state \in Verdicts /\ a.feedback = None /\ c = Credit(row, a)
    BY <1>4 DEF NewCredits
  <2>2. row.state = "completed" /\ a \in row.detail /\ a \in Attribution
    BY <2>1, <1>1 DEF Attributed, Keyed
  <2> QED
    BY <2>1, <2>2, <1>2 DEF Backed, Credit
<1>5. EvidenceOf(row.task) \subseteq Use
  BY DEF EvidenceOf, TaskIInv, KeyedInv, Keyed
<1>6. TaskTypeOK'
  <2>1. NewCredits(row) \subseteq [by : Key, task : Task, memory : Memory, state : Verdicts, evidence : Use]
    BY <1>1, <1>4, <1>5 DEF Keyed, Row, Attribution
  <2> QED
    BY <2>1, <1>2, <1>3 DEF TaskIInv, TaskTypeOK, Idle
<1>7. KeyedInv'
  BY <1>2, <1>3 DEF TaskIInv, TaskTypeOK, KeyedInv
<1>8. CreditGrounded'
  <2>1. /\ journal'[Len(journal) + 1] = row /\ Len(journal) + 1 \in DOMAIN journal'
        /\ \A n \in DOMAIN journal :
              n \in DOMAIN journal' /\ journal'[n] = journal[n] /\ n < Len(journal) + 1
    BY <1>1, <1>2, OneMore DEF TaskIInv, TaskTypeOK
  <2>2. ASSUME NEW c \in NewCredits(row)
        PROVE  /\ c.memory \in Retrieved[c.task]
               /\ \E m, n \in DOMAIN journal' :
                     /\ m < n
                     /\ journal'[m].task = c.task /\ journal'[m].key = c.evidence
                     /\ journal'[m].state = "evidence_observed"
                     /\ journal'[n].task = c.task /\ journal'[n].key = c.by
                     /\ journal'[n].state = "completed"
    <3>1. /\ c.task = row.task /\ c.by = row.key /\ row.state = "completed"
          /\ c.memory \in Retrieved[row.task] /\ c.evidence \in EvidenceOf(row.task)
      BY <2>2, <1>4
    <3>2. PICK m \in DOMAIN journal :
             /\ journal[m].task = row.task /\ journal[m].key = c.evidence
             /\ journal[m].state = "evidence_observed"
      BY <3>1 DEF EvidenceOf, Rows
    <3> QED
      BY <3>1, <3>2, <2>1
  <2>3. ASSUME NEW c \in credits
        PROVE  /\ c.memory \in Retrieved[c.task]
               /\ \E m, n \in DOMAIN journal' :
                     /\ m < n
                     /\ journal'[m].task = c.task /\ journal'[m].key = c.evidence
                     /\ journal'[m].state = "evidence_observed"
                     /\ journal'[n].task = c.task /\ journal'[n].key = c.by
                     /\ journal'[n].state = "completed"
    BY <2>1 DEF TaskIInv, CreditGrounded
  <2> QED
    BY <1>2, <2>2, <2>3 DEF CreditGrounded
<1>9. OutcomeWhole'
  <2>1. \A a \in Attributed(row) : a.state \in Verdicts => Credit(row, a) \in credits'
    BY <1>2 DEF Backed, NewCredits
  <2> QED
    BY <2>1, <1>2, <1>3 DEF TaskIInv, OutcomeWhole, Attributed, Credit
<1> QED
  BY <1>3, <1>6, <1>7, <1>8, <1>9 DEF TaskIInv

\* Every step preserves the invariant.
THEOREM NextTask == TaskIInv /\ [Next]_vars => TaskIInv'
<1> SUFFICES ASSUME TaskIInv, [Next]_vars PROVE TaskIInv'
  OBVIOUS
<1> USE DEF TaskIInv
<1>0. told \subseteq Row /\ \A row \in told : Answered(row)
  BY DEF ToldTrue, TaskTypeOK
<1>1. ASSUME NEW t \in Task, NEW prompt \in Text, Begin(t, prompt) PROVE TaskIInv'
  BY <1>1, BeginKeeps
<1>2. ASSUME NEW p \in Proc, NEW turn \in Turn, NEW use \in Use, NEW output \in Text,
             PostTool(p, turn, use, output)
      PROVE  TaskIInv'
  <2>1. PICK r \in Rows :
           Start(p, [task |-> r.task, state |-> "evidence_observed", detail |-> output, key |-> use])
    BY <1>2 DEF PostTool, Latest
  <2>2. r.task \in Task
    BY <2>1, RowTypes
  <2> DEFINE next == [step |-> "look", row |-> [task |-> r.task, state |-> "evidence_observed",
                                               detail |-> output, key |-> use]]
  <2>3. next \in [step : {"look", "write"}, row : Row] /\ Keyed(next.row)
    BY <2>2 DEF Row, State, Keyed
  <2>4. job' = [job EXCEPT ![p] = next] /\ UNCHANGED <<journal, credits>> /\ told' = told
    BY <2>1, <1>0 DEF Start
  <2> HIDE DEF next
  <2> QED
    BY <1>0, <2>3, <2>4, JobStep
<1>3. ASSUME NEW p \in Proc, NEW t \in Task, NEW request \in Request, Complete(p, t, request)
      PROVE  TaskIInv'
  <2> DEFINE next == [step |-> "look", row |-> [task |-> t, state |-> request.outcome,
                                               detail |-> request.list, key |-> request.key]]
  <2>1. next \in [step : {"look", "write"}, row : Row] /\ Keyed(next.row)
    BY TaskAssumption DEF Row, State, Keyed, Terminal
  <2>2. job' = [job EXCEPT ![p] = next] /\ UNCHANGED <<journal, credits>> /\ told' = told
    BY <1>3, <1>0 DEF Complete, Start
  <2> HIDE DEF next
  <2> QED
    BY <1>0, <2>1, <2>2, JobStep
<1>4. ASSUME NEW p \in Proc, NEW turn \in Turn, Stop(p, turn) PROVE TaskIInv'
  <2>1. PICK r \in Rows :
           Start(p, [task |-> r.task, state |-> "abandoned", detail |-> {}, key |-> turn])
    BY <1>4 DEF Stop, Latest
  <2>2. r.task \in Task
    BY <2>1, RowTypes
  <2> DEFINE next == [step |-> "look", row |-> [task |-> r.task, state |-> "abandoned",
                                               detail |-> {}, key |-> turn]]
  <2>3. next \in [step : {"look", "write"}, row : Row] /\ Keyed(next.row)
    BY <2>2 DEF Row, State, Keyed, Terminal
  <2>4. job' = [job EXCEPT ![p] = next] /\ UNCHANGED <<journal, credits>> /\ told' = told
    BY <2>1, <1>0 DEF Start
  <2> HIDE DEF next
  <2> QED
    BY <1>0, <2>3, <2>4, JobStep
<1>5. ASSUME NEW p \in Proc, Look(p) PROVE TaskIInv'
  <2> DEFINE next == [job[p] EXCEPT !.step = "write"]
  <2>1. next \in [step : {"look", "write"}, row : Row] /\ Keyed(next.row)
    BY <1>5, JobTypes DEF Look, KeyedInv
  <2>2. job' = [job EXCEPT ![p] = next] /\ UNCHANGED <<journal, credits>> /\ told' = told
    BY <1>5, <1>0 DEF Look
  <2> HIDE DEF next
  <2> QED
    BY <1>0, <2>1, <2>2, JobStep
<1>6. ASSUME NEW p \in Proc, Replay(p) \/ ReplayClosed(p) PROVE TaskIInv'
  <2>1. /\ job' = [job EXCEPT ![p] = Idle] /\ UNCHANGED <<journal, credits>>
        /\ told' = told \cup {job[p].row} /\ Answered(job[p].row)
    BY <1>6 DEF Replay, ReplayClosed, Answered
  <2>2. job[p].row \in Row
    BY <1>6, JobTypes DEF Replay, ReplayClosed
  <2>3. told' \subseteq Row /\ \A row \in told' : Answered(row)
    BY <1>0, <2>1, <2>2
  <2> QED
    BY <2>1, <2>3, JobStep
<1>7. ASSUME NEW p \in Proc, Commit(p) PROVE TaskIInv'
  BY <1>7, CommitKeeps
<1>8. ASSUME NEW p \in Proc, GiveUp(p) PROVE TaskIInv'
  <2>1. job' = [job EXCEPT ![p] = Idle] /\ UNCHANGED <<journal, credits>> /\ told' = told
    BY <1>8, <1>0 DEF GiveUp
  <2> QED
    BY <1>0, <2>1, JobStep
<1>9. ASSUME NEW turn \in Turn, StopClosed(turn) PROVE TaskIInv'
  <2>1. PICK r \in Rows :
           /\ r.state \in Terminal
           /\ told' = told \cup {[task |-> r.task, state |-> "abandoned", detail |-> {}, key |-> turn]}
           /\ UNCHANGED <<journal, credits, job>>
    BY <1>9 DEF StopClosed, Latest
  <2> DEFINE row == [task |-> r.task, state |-> "abandoned", detail |-> {}, key |-> turn]
  <2>2. r.task \in Task
    BY RowTypes
  <2>3. row \in Row
    BY <2>2 DEF Row, State, Terminal
  <2>4. Answered(row)
    BY <2>1 DEF Answered, Closed
  <2>5. told' = told \cup {row}
    BY <2>1
  <2> HIDE DEF row
  <2>6. Rows' = Rows
    BY <2>1 DEF Rows
  <2>7. \A r2 \in told' : Answered(r2)'
    BY <1>0, <2>4, <2>5, <2>6, AnsweredLasts
  <2>8. TaskTypeOK'
    BY <2>1, <2>3, <2>5 DEF TaskTypeOK
  <2>9. KeyedInv' /\ CreditGrounded' /\ OutcomeWhole'
    BY <2>1, <2>6 DEF KeyedInv, CreditGrounded, OutcomeWhole
  <2>10. ToldTrue'
    BY <2>1, <2>7 DEF ToldTrue
  <2> QED
    BY <2>8, <2>9, <2>10
<1>10. CASE UNCHANGED vars
  <2>1. Rows' = Rows
    BY <1>10 DEF vars, Rows
  <2>2. \A row \in told' : Answered(row)'
    BY <1>0, <1>10, <2>1, AnsweredLasts DEF vars
  <2> QED
    BY <1>10, <2>1, <2>2 DEF vars, TaskTypeOK, KeyedInv, ToldTrue, CreditGrounded, OutcomeWhole
<1> QED
  BY <1>1, <1>2, <1>3, <1>4, <1>5, <1>6, <1>7, <1>8, <1>9, <1>10 DEF Next

\* The inductive invariant holds in every reachable state.
LEMMA TaskInvariant == Spec => []TaskIInv
  BY InitTask, NextTask, PTL DEF Spec

\* Every variable keeps its type, whatever agents send.
THEOREM TaskTypes == Spec => []TaskTypeOK
<1>1. TaskIInv => TaskTypeOK
  BY DEF TaskIInv
<1> QED
  BY <1>1, TaskInvariant, PTL

\* What a caller was told is in the journal, and each key in it once.
THEOREM ToldHolds == Spec => []ToldTrue
<1>1. TaskIInv => ToldTrue
  BY DEF TaskIInv
<1> QED
  BY <1>1, TaskInvariant, PTL

\* Credits are grounded, and a completion's verdicts on record, all of them.
THEOREM CreditHolds == Spec => []CreditSound
<1>1. TaskIInv => CreditSound
  BY DEF TaskIInv, CreditSound
<1> QED
  BY <1>1, TaskInvariant, PTL

(***************************************************************************)
(* Calls are atomic: the begin and the transaction of a call are the one   *)
(* step in which it acts, a replay is the one in which it finds itself on  *)
(* record, and nothing else is visible.                                    *)
(***************************************************************************)
\* The transaction of a call records it, with the credit it gives.
LEMMA CommitRecords ==
  ASSUME TaskIInv, NEW p \in Proc, Commit(p)
  PROVE  Promise!Next
<1>1. PICK row \in Row : row = job[p].row /\ Keyed(row)
  BY JobTypes DEF Commit, TaskIInv, KeyedInv
<1>2. /\ ~Used(row.key) /\ \A a \in Attributed(row) : Backed(row, a)
      /\ journal' = Append(journal, row) /\ told' = told \cup {row}
      /\ credits' = credits \cup NewCredits(row)
  BY <1>1 DEF Commit
<1>3. Rows' = Rows \cup {row}
  BY <1>2, OneMore DEF TaskIInv, TaskTypeOK
<1>4. \A r \in Rows : r.key # row.key
  BY <1>2 DEF Used
<1>5. ASSUME NEW c \in credits' \ credits PROVE Promise!Earned(c, row)
  <2>1. c \in NewCredits(row)
    BY <1>2, <1>5
  <2>2. PICK a \in Attributed(row) : a.state \in Verdicts /\ a.feedback = None /\ c = Credit(row, a)
    BY <2>1 DEF NewCredits
  <2>3. row.state = "completed" /\ a.evidence \in EvidenceOf(row.task)
    BY <1>2, <2>2 DEF Backed, Attributed
  <2>4. c.by = row.key /\ c.task = row.task /\ c.evidence = a.evidence
    BY <2>2 DEF Credit
  <2> QED
    BY <2>3, <2>4 DEF Promise!Earned, EvidenceOf
<1>6. ASSUME row.state = "completed", NEW a \in row.detail, Promise!Verdict(a)
      PROVE  Promise!Given(a, row)
  <2>1. a \in Attributed(row) /\ a.state \in Verdicts
    BY <1>6 DEF Attributed, Promise!Verdict, Verdicts
  <2>2. Credit(row, a) \in credits'
    BY <1>2, <2>1 DEF Backed, NewCredits
  <2>3. /\ Credit(row, a).task = row.task /\ Credit(row, a).memory = a.memory
        /\ Credit(row, a).state = a.state /\ Credit(row, a).evidence = a.evidence
    BY DEF Credit
  <2> QED
    BY <2>2, <2>3 DEF Promise!Given
<1>7. Promise!Record(row)
  BY <1>2, <1>3, <1>4, <1>5, <1>6 DEF Promise!Record
<1> QED
  BY <1>3, <1>7 DEF Promise!Next

\* A begin is recorded or finds itself on record.
LEMMA BeginRecords ==
  ASSUME TaskIInv, NEW t \in Task, NEW prompt \in Text, Begin(t, prompt)
  PROVE  Promise!Next
<1> DEFINE begun == [task |-> t, state |-> "recall_completed", detail |-> prompt, key |-> t]
<1>1. PICK row : row = begun
  OBVIOUS
<1>2. /\ row \in Row /\ row.key = t /\ row.state = "recall_completed"
      /\ told' = told \cup {row} /\ credits' = credits
  BY <1>1 DEF Begin, Row, State
<1>3. CASE Used(t)
  <2>1. row \in Rows /\ Rows' = Rows
    BY <1>1, <1>3 DEF Begin, Rows
  <2> QED
    BY <1>2, <2>1 DEF Promise!Next, Promise!Replay
<1>4. CASE ~Used(t)
  <2>1. journal' = Append(journal, row) /\ \A r \in Rows : r.key # row.key
    BY <1>1, <1>2, <1>4 DEF Begin, Used
  <2>2. Rows' = Rows \cup {row}
    BY <1>2, <2>1, OneMore DEF TaskIInv, TaskTypeOK
  <2>3. Promise!Record(row)
    BY <1>2, <2>1, <2>2 DEF Promise!Record
  <2> QED
    BY <2>2, <2>3 DEF Promise!Next
<1> QED
  BY <1>3, <1>4

\* Every step is a step of the promise, or none.
THEOREM StepTaskPromise == TaskIInv /\ [Next]_vars => [Promise!Next]_<<Rows, credits, told>>
<1> SUFFICES ASSUME TaskIInv, [Next]_vars PROVE [Promise!Next]_<<Rows, credits, told>>
  OBVIOUS
<1>1. ASSUME NEW p \in Proc, Replay(p) PROVE Promise!Next
  <2>1. job[p].row \in Rows /\ told' = told \cup {job[p].row} /\ UNCHANGED <<Rows, credits>>
    BY <1>1 DEF Replay, Rows
  <2> QED
    BY <2>1 DEF Promise!Next, Promise!Replay
<1>2. ASSUME UNCHANGED <<journal, credits, told>> PROVE UNCHANGED <<Rows, credits, told>>
  BY <1>2 DEF Rows
<1>3. ASSUME NEW row, row.state \in {"evidence_observed", "abandoned"}, Closed(row.task),
             told' = told \cup {row}, UNCHANGED <<journal, credits>>
      PROVE  Promise!Next
  <2>1. PICK r \in Rows : r.task = row.task /\ r.state \in Terminal
    BY <1>3 DEF Closed
  <2>2. Promise!Moot(row)
    BY <1>3, <2>1 DEF Promise!Moot, Promise!Outcome, Terminal, Rows
  <2> QED
    BY <1>3, <2>2 DEF Promise!Next
<1>4. ASSUME NEW p \in Proc, ReplayClosed(p) PROVE Promise!Next
  BY <1>3, <1>4 DEF ReplayClosed
<1>5. ASSUME NEW turn \in Turn, StopClosed(turn) PROVE Promise!Next
  <2>1. PICK r \in Rows :
           /\ r.state \in Terminal
           /\ told' = told \cup {[task |-> r.task, state |-> "abandoned", detail |-> {}, key |-> turn]}
           /\ UNCHANGED <<journal, credits, job>>
    BY <1>5 DEF StopClosed, Latest
  <2>2. PICK row : row = [task |-> r.task, state |-> "abandoned", detail |-> {}, key |-> turn]
    OBVIOUS
  <2>3. row.state = "abandoned" /\ row.task = r.task
    BY <2>2
  <2>4. Closed(row.task) /\ told' = told \cup {row} /\ UNCHANGED <<journal, credits>>
    BY <2>1, <2>2, <2>3 DEF Closed
  <2> QED
    BY <1>3, <2>3, <2>4
<1> QED
  BY <1>1, <1>2, <1>4, <1>5, BeginRecords, CommitRecords
  DEF Next, PostTool, Complete, Stop, Start, Look, GiveUp, vars

\* The orchestrator keeps what TaskPromise promises.
THEOREM TaskImplementation == Spec => CallsAtomic
<1>1. Init => Promise!Init
  BY DEF Init, Promise!Init, Rows
<1> QED
  BY <1>1, TaskInvariant, StepTaskPromise, PTL DEF Spec, CallsAtomic, Promise!Spec

(***************************************************************************)
(* Late evidence.                                                          *)
(***************************************************************************)
\* Both sets are finite.
LEMMA LateFinite ==
  ASSUME TaskTypeOK, NEW t \in Task
  PROVE  /\ IsFiniteSet(Late(t)) /\ Cardinality(Late(t)) \in Nat
         /\ IsFiniteSet(Pending(t)) /\ Cardinality(Pending(t)) \in Nat
         /\ Cardinality(Proc) \in Nat
<1>1. DOMAIN journal = 1 .. Len(journal) /\ Len(journal) \in Nat
  BY DEF TaskTypeOK
<1>2. IsFiniteSet(DOMAIN journal) /\ Late(t) \subseteq DOMAIN journal
  BY <1>1, FS_Interval DEF Late
<1>3. IsFiniteSet(Proc) /\ Pending(t) \subseteq Proc
  BY TaskAssumption DEF Pending
<1> QED
  BY <1>2, <1>3, FS_Subset, FS_CardinalityType

\* Steps that leave the journal alone and make nobody newly about to add
\* evidence to a closed task.
LEMMA LateQuiet ==
  ASSUME TaskTypeOK, TaskTypeOK', LateBounded, UNCHANGED journal,
         \A t \in Task : Closed(t) => Pending(t)' \subseteq Pending(t)
  PROVE  LateBounded'
<1> SUFFICES ASSUME NEW t \in Task, Closed(t)'
             PROVE  Cardinality(Late(t)') + Cardinality(Pending(t)') < Cardinality(Proc)
  BY DEF LateBounded
<1>1. Closed(t) /\ Late(t)' = Late(t)
  BY DEF Closed, Rows, Late
<1>2. Cardinality(Pending(t)') <= Cardinality(Pending(t))
  BY <1>1, LateFinite, FS_Subset
<1>3. Cardinality(Pending(t)') \in Nat
  BY <1>1, LateFinite, FS_Subset, FS_CardinalityType
<1> QED
  BY <1>1, <1>2, <1>3, LateFinite DEF LateBounded

\* A step of one process that leaves the journal alone.
LEMMA LateMove ==
  ASSUME TaskTypeOK, TaskTypeOK', LateBounded, UNCHANGED journal, NEW p \in Proc, NEW next,
         job' = [job EXCEPT ![p] = next],
         \A t \in Task : Closed(t) =>
             ~(next.step = "write" /\ next.row.task = t /\ next.row.state = "evidence_observed")
  PROVE  LateBounded'
<1>1. job'[p] = next /\ \A q \in Proc \ {p} : job'[q] = job[q]
  BY DEF TaskTypeOK
<1>2. \A t \in Task : Closed(t) => Pending(t)' \subseteq Pending(t)
  BY <1>1 DEF Pending
<1> QED
  BY <1>2, LateQuiet

\* What appending a row does to the late evidence of a task.
LEMMA LateAppend ==
  ASSUME TaskTypeOK, NEW row \in Row, journal' = Append(journal, row), NEW t \in Task
  PROVE  /\ Closed(t)' <=> Closed(t) \/ (row.task = t /\ row.state \in Terminal)
         /\ ~Closed(t) => Late(t)' = {}
         /\ Closed(t) /\ row.task = t /\ row.state = "evidence_observed" =>
               Late(t)' = Late(t) \cup {Len(journal) + 1} /\ Len(journal) + 1 \notin Late(t)
         /\ ~(row.task = t /\ row.state = "evidence_observed") => Late(t)' = Late(t)
<1>1. journal \in Seq(Row) /\ DOMAIN journal = 1 .. Len(journal) /\ Len(journal) \in Nat
  BY DEF TaskTypeOK
<1>2. /\ journal' \in Seq(Row) /\ DOMAIN journal' = 1 .. Len(journal) + 1
      /\ journal'[Len(journal) + 1] = row
      /\ \A n \in 1 .. Len(journal) : journal'[n] = journal[n]
      /\ Rows' = Rows \cup {row}
  BY <1>1, OneMore
<1>3. Closed(t)' <=> Closed(t) \/ (row.task = t /\ row.state \in Terminal)
  BY <1>2 DEF Closed
<1>4. \A n \in 1 .. Len(journal) : n \in Late(t)' <=> n \in Late(t)
  BY <1>1, <1>2 DEF Late
<1>5. Late(t) \subseteq 1 .. Len(journal) /\ Late(t)' \subseteq 1 .. Len(journal) + 1
  BY <1>1, <1>2 DEF Late
<1>6. Len(journal) + 1 \in Late(t)' <=>
         Closed(t) /\ row.task = t /\ row.state = "evidence_observed"
  BY <1>1, <1>2 DEF Late, Closed, Rows
<1>7. ASSUME NEW n \in Late(t) PROVE Closed(t)
  <2>1. PICK m \in 1 .. n - 1 : journal[m].task = t /\ journal[m].state \in Terminal
    BY <1>7 DEF Late
  <2>2. n \in 1 .. Len(journal)
    BY <1>5, <1>7
  <2>3. m \in DOMAIN journal
    BY <1>1, <2>2
  <2> QED
    BY <2>1, <2>3 DEF Closed, Rows
<1>8. \A n : n \in 1 .. Len(journal) + 1 => n \in 1 .. Len(journal) \/ n = Len(journal) + 1
  BY <1>1
<1>9. Len(journal) + 1 \notin Late(t)' => Late(t)' = Late(t)
  BY <1>4, <1>5, <1>8
<1>10. Len(journal) + 1 \in Late(t)' => Late(t)' = Late(t) \cup {Len(journal) + 1}
  BY <1>4, <1>5, <1>8
<1>11. Len(journal) + 1 \notin Late(t)
  BY <1>1, <1>5
<1>12. ~Closed(t) => Late(t)' = {}
  BY <1>6, <1>7, <1>9
<1> QED
  BY <1>3, <1>6, <1>9, <1>10, <1>11, <1>12

\* A begin adds no evidence and no outcome.
LEMMA LateBegin ==
  ASSUME TaskTypeOK, TaskTypeOK', LateBounded, NEW t \in Task, NEW prompt \in Text, Begin(t, prompt)
  PROVE  LateBounded'
<1> DEFINE row == [task |-> t, state |-> "recall_completed", detail |-> prompt, key |-> t]
<1>1. row \in Row /\ row.state = "recall_completed"
  BY DEF Row, State
<1>2. UNCHANGED job /\ \A u \in Task : Pending(u)' = Pending(u)
  BY DEF Begin, Pending
<1>3. CASE Used(t)
  BY <1>2, <1>3, LateQuiet DEF Begin
<1>4. CASE ~Used(t)
  <2>1. journal' = Append(journal, row)
    BY <1>4 DEF Begin
  <2> HIDE DEF row
  <2>2. \A u \in Task : (Closed(u)' <=> Closed(u)) /\ Late(u)' = Late(u)
    BY <1>1, <2>1, LateAppend DEF Terminal
  <2> QED
    BY <1>2, <2>2 DEF LateBounded
<1> QED
  BY <1>3, <1>4

\* An outcome takes its writer out of the count, late evidence moves from
\* one set to the other.
LEMMA LateCommit ==
  ASSUME TaskTypeOK, TaskTypeOK', LateBounded, NEW p \in Proc, Commit(p)
  PROVE  LateBounded'
<1> DEFINE row == job[p].row
<1>1. row \in Row /\ job[p].step = "write"
  BY JobTypes DEF Commit
<1>2. journal' = Append(journal, row) /\ job' = [job EXCEPT ![p] = Idle]
  BY DEF Commit
<1> HIDE DEF row
<1>3. job'[p] = Idle /\ \A q \in Proc \ {p} : job'[q] = job[q]
  BY <1>2 DEF TaskTypeOK
<1> SUFFICES ASSUME NEW t \in Task, Closed(t)'
             PROVE  Cardinality(Late(t)') + Cardinality(Pending(t)') < Cardinality(Proc)
  BY DEF LateBounded
<1>4. Pending(t)' = Pending(t) \ {p}
  BY <1>3 DEF Pending, Idle
<1>5. IsFiniteSet(Pending(t)') /\ Cardinality(Pending(t)') \in Nat
      /\ Cardinality(Pending(t)') <= Cardinality(Pending(t))
      /\ (p \in Pending(t) => Cardinality(Pending(t)') = Cardinality(Pending(t)) - 1)
  <2> DEFINE P == Pending(t)
  <2>1. IsFiniteSet(P) /\ Cardinality(P) \in Nat
    BY LateFinite
  <2> HIDE DEF P
  <2>2. /\ IsFiniteSet(P \ {p})
        /\ Cardinality(P \ {p}) = IF p \in P THEN Cardinality(P) - 1 ELSE Cardinality(P)
    BY <2>1, FS_RemoveElement
  <2>3. Cardinality(P \ {p}) \in Nat
    BY <2>2, FS_CardinalityType
  <2> QED
    BY <1>4, <2>1, <2>2, <2>3 DEF P
<1>6. CASE ~Closed(t)
  <2>1. Late(t)' = {}
    BY <1>1, <1>2, <1>6, LateAppend
  <2>2. Pending(t)' \subseteq Proc \ {p}
    BY <1>4 DEF Pending
  <2>3. Cardinality(Proc \ {p}) = Cardinality(Proc) - 1 /\ IsFiniteSet(Proc \ {p})
    BY TaskAssumption, FS_RemoveElement
  <2>4. Cardinality(Pending(t)') <= Cardinality(Proc) - 1
    BY <2>2, <2>3, FS_Subset
  <2> QED
    BY <1>5, <2>1, <2>4, LateFinite, FS_EmptySet
<1>7. CASE Closed(t) /\ row.task = t /\ row.state = "evidence_observed"
  <2>1. p \in Pending(t)
    BY <1>1, <1>7 DEF Pending, row
  <2>2. Late(t)' = Late(t) \cup {Len(journal) + 1} /\ Len(journal) + 1 \notin Late(t)
    BY <1>1, <1>2, <1>7, LateAppend
  <2>3. Cardinality(Late(t)') = Cardinality(Late(t)) + 1
    BY <2>2, LateFinite, FS_AddElement
  <2> QED
    BY <1>5, <1>7, <2>1, <2>3, LateFinite DEF LateBounded
<1>8. CASE Closed(t) /\ ~(row.task = t /\ row.state = "evidence_observed")
  <2>1. Late(t)' = Late(t)
    BY <1>1, <1>2, <1>8, LateAppend
  <2> QED
    BY <1>5, <1>8, <2>1, LateFinite DEF LateBounded
<1> QED
  BY <1>6, <1>7, <1>8

\* Every step keeps the bound.
THEOREM NextLate == TaskTypeOK /\ TaskTypeOK' /\ LateBounded /\ [Next]_vars => LateBounded'
<1> SUFFICES ASSUME TaskTypeOK, TaskTypeOK', LateBounded, [Next]_vars PROVE LateBounded'
  OBVIOUS
<1>1. ASSUME NEW t \in Task, NEW prompt \in Text, Begin(t, prompt) PROVE LateBounded'
  BY <1>1, LateBegin
<1>2. ASSUME NEW p \in Proc, NEW row, Start(p, row) PROVE LateBounded'
  <2> DEFINE next == [step |-> "look", row |-> row]
  <2>1. job' = [job EXCEPT ![p] = next] /\ UNCHANGED journal /\ next.step # "write"
    BY <1>2 DEF Start
  <2> HIDE DEF next
  <2> QED
    BY <2>1, LateMove
<1>3. ASSUME NEW p \in Proc, Look(p) PROVE LateBounded'
  <2> DEFINE next == [job[p] EXCEPT !.step = "write"]
  <2>1. job[p] \in [step : {"look", "write"}, row : Row]
    BY <1>3, JobTypes DEF Look
  <2>2. next.row = job[p].row
    BY <2>1
  <2>3. job[p].row.state = "evidence_observed" => ~Closed(job[p].row.task)
    BY <1>3 DEF Look, Admissible
  <2>4. job' = [job EXCEPT ![p] = next] /\ UNCHANGED journal
    BY <1>3 DEF Look
  <2>5. \A t \in Task : Closed(t) =>
           ~(next.step = "write" /\ next.row.task = t /\ next.row.state = "evidence_observed")
    <3> HIDE DEF next
    <3> QED
      BY <2>2, <2>3
  <2> HIDE DEF next
  <2> QED
    BY <2>4, <2>5, LateMove
<1>4. ASSUME NEW p \in Proc, Replay(p) \/ ReplayClosed(p) \/ GiveUp(p) PROVE LateBounded'
  <2>1. job' = [job EXCEPT ![p] = Idle] /\ UNCHANGED journal /\ Idle.step # "write"
    BY <1>4 DEF Replay, ReplayClosed, GiveUp, Idle
  <2> QED
    BY <2>1, LateMove
<1>5. ASSUME NEW p \in Proc, Commit(p) PROVE LateBounded'
  BY <1>5, LateCommit
<1>6. CASE UNCHANGED vars \/ \E turn \in Turn : StopClosed(turn)
  <2>1. UNCHANGED <<journal, job>>
    BY <1>6 DEF vars, StopClosed
  <2>2. UNCHANGED journal /\ \A t \in Task : Pending(t)' = Pending(t)
    BY <2>1 DEF Pending
  <2> QED
    BY <2>2, LateQuiet
<1> QED
  BY <1>1, <1>2, <1>3, <1>4, <1>5, <1>6 DEF Next, PostTool, Complete, Stop

\* Evidence after an outcome is bounded by the processes there were when the
\* outcome was written.
THEOREM LateHolds == Spec => []LateBounded
<1>1. Init => LateBounded
  BY DEF Init, LateBounded, Closed, Rows
<1> QED
  BY <1>1, NextLate, TaskTypes, PTL DEF Spec
=============================================================================
