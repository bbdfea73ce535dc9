----------------------- MODULE EdgeLifecycle_proofs -----------------------
(***************************************************************************)
(* Proofs about EdgeLifecycle, for any edges, runs, requests, processes    *)
(* and ages.                                                               *)
(*                                                                         *)
(* The strengthening is PlanInv, what holds of a plan that is not written  *)
(* yet although the edges may have changed: a manifest has approved it, it *)
(* is about the edges its run names, and only a restore takes an edge from *)
(* another state to "active".                                              *)
(***************************************************************************)
EXTENDS EdgeLifecycle, TLAPS

Row  == [state : States, version : Nat, since : Nat]
Plans == [run : Run, decisions : SUBSET Decision]

PlanInv ==
    /\ \A p \in Proc : job[p] # Idle => job[p] \in approved
    /\ \A m \in approved : \A d \in m.decisions :
          /\ d.edge \in Request[m.run].edges
          /\ d.to = "active" /\ d.from # "active" => Request[m.run].op = "restore"

EdgeIInv == EdgeTypeOK /\ PlanInv /\ AuditTold /\ RunOnce

\* A plan is a set of decisions about the edges its run names.
LEMMA PlanTypes ==
  ASSUME EdgeTypeOK, NEW r \in Run
  PROVE  /\ Plan(r) \in Plans
         /\ \A d \in Plan(r).decisions :
               /\ d.edge \in Request[r].edges
               /\ d.to = "active" /\ d.from # "active" => Request[r].op = "restore"
<1>1. /\ Request[r].op \in {"maintenance", "restore"} /\ Request[r].edges \subseteq Edge
      /\ row \in [Edge -> Row \cup {None}]
  BY EdgeAssumption DEF EdgeTypeOK, Row
<1>2. ASSUME NEW e \in Edge
      PROVE  /\ State(e) \in States
             /\ Judged(e, Request[r].asOf) \in States /\ Restored(e) \in States
             /\ Judged(e, Request[r].asOf) = "active" => State(e) = "active"
  <2>1. State(e) \in States
    BY <1>1 DEF State, Row, States
  <2>2. /\ Judged(e, Request[r].asOf) \in {State(e), "cold", "archived"}
        /\ Restored(e) \in {State(e), "active"}
    BY DEF Judged, Restored
  <2> QED
    BY <2>1, <2>2 DEF States
<1>3. ASSUME NEW d \in Decisions(r)
      PROVE  /\ d \in Decision /\ d.edge \in Request[r].edges
             /\ d.to = "active" /\ d.from # "active" => Request[r].op = "restore"
  <2>1. PICK e \in Request[r].edges :
           d = [edge |-> e, from |-> State(e),
                to |-> IF Request[r].op = "restore" THEN Restored(e) ELSE Judged(e, Request[r].asOf)]
    BY DEF Decisions
  <2> QED
    BY <1>1, <1>2, <2>1 DEF Decision
<1> QED
  BY <1>3 DEF Plan, Plans

\* What the transaction does to one edge.
Hit(e, r, decisions) ==
    \E d \in Written(decisions) :
        /\ d.edge = e
        /\ row'[e] = [state |-> d.to, version |-> Version(e), since |-> Request[r].asOf]
        /\ audit'[e] = Append(audit[e], [run |-> r, op |-> Operation(r, d), from |-> d.from, to |-> d.to])

\* What the write of a plan does to one edge.
LEMMA PersistAt ==
  ASSUME NEW r \in Run, NEW D, Persist(r, D), NEW e \in Edge
  PROVE  Hit(e, r, D) \/ (row'[e] = row[e] /\ audit'[e] = audit[e])
<1>1. CASE \E d \in Written(D) : d.edge = e
  <2> DEFINE d == CHOOSE x \in Written(D) : x.edge = e
  <2>1. d \in Written(D) /\ d.edge = e
    BY <1>1
  <2>2. e \in {x.edge : x \in Written(D)}
    BY <1>1
  <2>3. /\ row'[e] = [state |-> d.to, version |-> Version(e), since |-> Request[r].asOf]
        /\ audit'[e] = Append(audit[e], [run |-> r, op |-> Operation(r, d), from |-> d.from, to |-> d.to])
    BY <2>2 DEF Persist
  <2> HIDE DEF d
  <2> QED
    BY <2>1, <2>3 DEF Hit
<1>2. CASE ~ \E d \in Written(D) : d.edge = e
  <2>1. e \notin {x.edge : x \in Written(D)}
    BY <1>2
  <2> QED
    BY <2>1 DEF Persist
<1> QED
  BY <1>1, <1>2

\* An event is added behind the others.
LEMMA Append1 ==
  ASSUME NEW S, NEW s \in Seq(S), NEW e \in S
  PROVE  /\ Append(s, e) \in Seq(S) /\ Append(s, e) # << >>
         /\ Len(Append(s, e)) = Len(s) + 1 /\ Append(s, e)[Len(Append(s, e))] = e
         /\ \A n \in DOMAIN Append(s, e) :
               (n \in DOMAIN s /\ Append(s, e)[n] = s[n]) \/ (n = Len(s) + 1 /\ Append(s, e)[n] = e)
         /\ Len(s) = 0 => s = << >>
         /\ s = << >> => Len(s) = 0
<1>1. /\ Append(s, e) \in Seq(S) /\ Len(s) \in Nat
      /\ DOMAIN s = 1 .. Len(s) /\ DOMAIN Append(s, e) = 1 .. Len(s) + 1
      /\ Len(Append(s, e)) = Len(s) + 1
  OBVIOUS
<1>2. Append(s, e)[Len(s) + 1] = e /\ \A n \in 1 .. Len(s) : Append(s, e)[n] = s[n]
  OBVIOUS
<1>3. Append(s, e) # << >>
  BY <1>1
<1>4. (Len(s) = 0 => s = << >>) /\ (s = << >> => Len(s) = 0)
  OBVIOUS
<1> QED
  BY <1>1, <1>2, <1>3, <1>4

\* What the audit calls a decision.
LEMMA OperationTypes ==
  ASSUME NEW r \in Run, NEW d
  PROVE  Operation(r, d) \in {"initialize", "transition", "restore"}
  BY DEF Operation

\* One edge after the transaction.
LEMMA HitAt ==
  ASSUME EdgeTypeOK, AuditTold, NEW r \in Run, NEW D \in SUBSET Decision, NEW e \in Edge, Hit(e, r, D)
  PROVE  /\ row'[e] \in Row /\ audit'[e] \in Seq(Event)
         /\ audit'[e] # << >> /\ row'[e] # None
         /\ row'[e].version = Len(audit'[e]) /\ row'[e].state = audit'[e][Len(audit'[e])].to
         /\ \A n \in DOMAIN audit'[e] :
               \/ n \in DOMAIN audit[e] /\ audit'[e][n] = audit[e][n]
               \/ /\ n = Len(audit[e]) + 1 /\ audit'[e][n].run = r
                  /\ [edge |-> e, from |-> audit'[e][n].from, to |-> audit'[e][n].to] \in D
<1>1. PICK d \in Written(D) :
        /\ d.edge = e
        /\ row'[e] = [state |-> d.to, version |-> Version(e), since |-> Request[r].asOf]
        /\ audit'[e] = Append(audit[e], [run |-> r, op |-> Operation(r, d), from |-> d.from, to |-> d.to])
  BY DEF Hit
<1> DEFINE v == [run |-> r, op |-> Operation(r, d), from |-> d.from, to |-> d.to]
<1>2. d \in D /\ d \in Decision /\ d.to \in States /\ d.from \in States
  BY DEF Written, Decision
<1>3. [edge |-> e, from |-> v.from, to |-> v.to] = d
  BY <1>1, <1>2 DEF Decision
<1>4. audit[e] \in Seq(Event) /\ v \in Event /\ v.run = r /\ v.to = d.to
  BY <1>2, OperationTypes DEF EdgeTypeOK, Event
<1>5. /\ row[e] \in Row \cup {None}
      /\ row[e] = None <=> audit[e] = << >>
      /\ row[e] # None => row[e].version = Len(audit[e])
  BY DEF EdgeTypeOK, AuditTold, Row
<1> HIDE DEF v
<1>6. /\ audit'[e] \in Seq(Event) /\ audit'[e] # << >>
      /\ Len(audit'[e]) = Len(audit[e]) + 1 /\ audit'[e][Len(audit'[e])] = v
      /\ \A n \in DOMAIN audit'[e] :
            (n \in DOMAIN audit[e] /\ audit'[e][n] = audit[e][n]) \/ (n = Len(audit[e]) + 1 /\ audit'[e][n] = v)
      /\ audit[e] = << >> => Len(audit[e]) = 0
  BY <1>1, <1>4, Append1 DEF v
<1>7. Version(e) = Len(audit[e]) + 1 /\ Len(audit[e]) \in Nat
  BY <1>4, <1>5, <1>6 DEF Version
<1>8. row'[e] \in Row
  BY <1>1, <1>2, <1>7, EdgeAssumption DEF Row
<1>9. row'[e] # None
  BY <1>8, EdgeAssumption DEF Row
<1>10. ASSUME NEW n \in DOMAIN audit'[e]
       PROVE  \/ n \in DOMAIN audit[e] /\ audit'[e][n] = audit[e][n]
              \/ /\ n = Len(audit[e]) + 1 /\ audit'[e][n].run = r
                 /\ [edge |-> e, from |-> audit'[e][n].from, to |-> audit'[e][n].to] \in D
  <2>1. (n \in DOMAIN audit[e] /\ audit'[e][n] = audit[e][n]) \/ (n = Len(audit[e]) + 1 /\ audit'[e][n] = v)
    BY <1>6
  <2>2. v.run = r /\ [edge |-> e, from |-> v.from, to |-> v.to] \in D
    BY <1>2, <1>3, <1>4
  <2> QED
    BY <2>1, <2>2
<1>11. row'[e].version = Len(audit'[e]) /\ row'[e].state = audit'[e][Len(audit'[e])].to
  <2>1. row'[e].version = Version(e) /\ row'[e].state = d.to
    BY <1>1
  <2> QED
    BY <1>4, <1>6, <1>7, <2>1
<1> QED
  BY <1>6, <1>8, <1>9, <1>10, <1>11

\* The transaction of a run that no row records yet.
LEMMA PersistStep ==
  ASSUME EdgeIInv, NEW r \in Run, NEW D \in SUBSET Decision, [run |-> r, decisions |-> D] \in approved,
         Free(r), Persist(r, D), UNCHANGED <<failing, approved>>,
         \A p \in Proc : job'[p] = Idle \/ job'[p] = job[p],
         job' \in [Proc -> {Idle} \cup Plans]
  PROVE  EdgeIInv'
<1> DEFINE m == [run |-> r, decisions |-> D]
<1>1. /\ EdgeTypeOK /\ PlanInv /\ AuditTold /\ RunOnce
      /\ done' = done \cup {m} /\ m \in Plans
  BY DEF EdgeIInv, Persist, Plans
<1>2. ASSUME NEW e \in Edge
      PROVE  \/ row'[e] = row[e] /\ audit'[e] = audit[e]
             \/ /\ row'[e] \in Row /\ audit'[e] \in Seq(Event)
                /\ audit'[e] # << >> /\ row'[e] # None
                /\ row'[e].version = Len(audit'[e]) /\ row'[e].state = audit'[e][Len(audit'[e])].to
                /\ \A n \in DOMAIN audit'[e] :
                      \/ n \in DOMAIN audit[e] /\ audit'[e][n] = audit[e][n]
                      \/ /\ n = Len(audit[e]) + 1 /\ audit'[e][n].run = r
                         /\ [edge |-> e, from |-> audit'[e][n].from, to |-> audit'[e][n].to] \in D
  BY <1>1, PersistAt, HitAt
<1>3. EdgeTypeOK'
  <2>1. row \in [Edge -> Row \cup {None}] /\ audit \in [Edge -> Seq(Event)]
    BY <1>1 DEF EdgeTypeOK, Row
  <2>2. DOMAIN row' = Edge /\ DOMAIN audit' = Edge
    BY DEF Persist
  <2>3. \A e \in Edge : row'[e] \in Row \cup {None} /\ audit'[e] \in Seq(Event)
    BY <1>2, <2>1
  <2>4. row' = [e \in Edge |-> row'[e]] /\ audit' = [e \in Edge |-> audit'[e]]
    BY DEF Persist
  <2>5. row' \in [Edge -> Row \cup {None}] /\ audit' \in [Edge -> Seq(Event)]
    BY <2>3, <2>4
  <2> QED
    BY <1>1, <2>5 DEF EdgeTypeOK, Row, Plans
<1>4. PlanInv'
  BY <1>1 DEF PlanInv
<1>5. AuditTold'
  <2> SUFFICES ASSUME NEW e \in Edge
               PROVE  /\ row'[e] = None <=> audit'[e] = << >>
                      /\ row'[e] # None =>
                            /\ row'[e].version = Len(audit'[e])
                            /\ row'[e].state \in {audit'[e][Len(audit'[e])].to, "disabled"}
    BY DEF AuditTold
  <2> QED
    BY <1>1, <1>2 DEF AuditTold
<1>6. \A d, f \in done' : d.run = f.run => d = f
  BY <1>1 DEF RunOnce, Free, Recorded
<1>7. done' \subseteq approved'
  BY <1>1 DEF RunOnce
<1>8. ASSUME NEW e \in Edge, NEW n \in DOMAIN audit'[e]
      PROVE  \/ n \in DOMAIN audit[e] /\ audit'[e][n] = audit[e][n]
             \/ /\ n = Len(audit[e]) + 1 /\ audit'[e][n].run = r
                /\ [edge |-> e, from |-> audit'[e][n].from, to |-> audit'[e][n].to] \in D
  BY <1>2
<1>9. ASSUME NEW e \in Edge, NEW n \in DOMAIN audit[e]
      PROVE  /\ audit[e][n].run # r
             /\ \E d \in done : d.run = audit[e][n].run /\
                   [edge |-> e, from |-> audit[e][n].from, to |-> audit[e][n].to] \in d.decisions
  BY <1>1 DEF RunOnce, Free, Recorded
<1>10. ASSUME NEW e \in Edge, NEW n \in DOMAIN audit'[e]
       PROVE  /\ \E d \in done' : d.run = audit'[e][n].run /\
                    [edge |-> e, from |-> audit'[e][n].from, to |-> audit'[e][n].to] \in d.decisions
              /\ \A k \in DOMAIN audit'[e] : audit'[e][n].run = audit'[e][k].run => n = k
  <2>1. \E d \in done' : d.run = audit'[e][n].run /\
           [edge |-> e, from |-> audit'[e][n].from, to |-> audit'[e][n].to] \in d.decisions
    <3>1. CASE n \in DOMAIN audit[e] /\ audit'[e][n] = audit[e][n]
      BY <1>1, <1>9, <3>1
    <3>2. CASE /\ n = Len(audit[e]) + 1 /\ audit'[e][n].run = r
               /\ [edge |-> e, from |-> audit'[e][n].from, to |-> audit'[e][n].to] \in D
      <4>1. m \in done' /\ m.run = r /\ m.decisions = D
        BY <1>1
      <4> QED
        BY <3>2, <4>1
    <3> QED
      BY <1>8, <1>10, <3>1, <3>2
  <2>2. ASSUME NEW k \in DOMAIN audit'[e], audit'[e][n].run = audit'[e][k].run PROVE n = k
    <3>1. CASE n \in DOMAIN audit[e] /\ audit'[e][n] = audit[e][n] /\ k \in DOMAIN audit[e] /\ audit'[e][k] = audit[e][k]
      BY <1>1, <2>2, <3>1 DEF RunOnce
    <3>2. CASE n \in DOMAIN audit[e] /\ audit'[e][n] = audit[e][n] /\ audit'[e][k].run = r
      BY <1>9, <2>2, <3>2
    <3>3. CASE k \in DOMAIN audit[e] /\ audit'[e][k] = audit[e][k] /\ audit'[e][n].run = r
      BY <1>9, <2>2, <3>3
    <3>4. CASE n = Len(audit[e]) + 1 /\ k = Len(audit[e]) + 1
      BY <3>4
    <3>5. /\ \/ n \in DOMAIN audit[e] /\ audit'[e][n] = audit[e][n]
             \/ n = Len(audit[e]) + 1 /\ audit'[e][n].run = r
          /\ \/ k \in DOMAIN audit[e] /\ audit'[e][k] = audit[e][k]
             \/ k = Len(audit[e]) + 1 /\ audit'[e][k].run = r
      BY <1>8
    <3> QED
      BY <3>1, <3>2, <3>3, <3>4, <3>5
  <2> QED
    BY <2>1, <2>2
<1> QED
  BY <1>3, <1>4, <1>5, <1>6, <1>7, <1>10 DEF EdgeIInv, RunOnce

\* The initial state satisfies the inductive invariant.
THEOREM InitEdge == Init => EdgeIInv
<1> SUFFICES ASSUME Init PROVE EdgeIInv
  OBVIOUS
<1>1. EdgeTypeOK
  BY DEF Init, EdgeTypeOK, Idle
<1>2. PlanInv /\ AuditTold /\ RunOnce
  BY DEF Init, PlanInv, AuditTold, RunOnce
<1> QED
  BY <1>1, <1>2 DEF EdgeIInv

\* The invariant is inductive.
THEOREM NextEdge == EdgeIInv /\ [Next]_vars => EdgeIInv'
<1> SUFFICES ASSUME EdgeIInv, [Next]_vars PROVE EdgeIInv'
  OBVIOUS
<1>1. /\ EdgeTypeOK /\ PlanInv /\ AuditTold /\ RunOnce
      /\ job \in [Proc -> {Idle} \cup Plans] /\ approved \subseteq Plans
  BY DEF EdgeIInv, EdgeTypeOK, Plans
<1>2. ASSUME NEW r \in Run, Approve(r) PROVE EdgeIInv'
  <2>1. /\ approved' = approved \cup {Plan(r)} /\ UNCHANGED <<row, audit, done, failing, job>>
        /\ Plan(r) \in Plans /\ Plan(r).run = r
    BY <1>1, <1>2, PlanTypes DEF Approve, Plan
  <2>2. EdgeTypeOK'
    BY <1>1, <2>1 DEF EdgeTypeOK, Plans
  <2>3. PlanInv'
    BY <1>1, <2>1, PlanTypes DEF PlanInv
  <2> QED
    BY <1>1, <2>1, <2>2, <2>3 DEF EdgeIInv, AuditTold, RunOnce
<1>3. ASSUME NEW p \in Proc, NEW r \in Run, Decide(p, r) PROVE EdgeIInv'
  <2>1. /\ job' = [job EXCEPT ![p] = Plan(r)] /\ UNCHANGED <<row, audit, done, failing, approved>>
        /\ Plan(r) \in Plans /\ Plan(r) \in approved
    BY <1>1, <1>3, PlanTypes DEF Decide, Allowed
  <2>2. EdgeTypeOK'
    BY <1>1, <2>1 DEF EdgeTypeOK, Plans
  <2>3. PlanInv'
    BY <1>1, <2>1 DEF PlanInv
  <2> QED
    BY <1>1, <2>1, <2>2, <2>3 DEF EdgeIInv, AuditTold, RunOnce
<1>4. ASSUME NEW p \in Proc, Write(p) PROVE EdgeIInv'
  <2>1. job[p] # Idle /\ job[p] \in Plans /\ job[p] \in approved
    BY <1>1, <1>4 DEF Write, PlanInv
  <2>2. /\ job[p].run \in Run /\ job[p].decisions \in SUBSET Decision
        /\ job[p] = [run |-> job[p].run, decisions |-> job[p].decisions]
    BY <2>1 DEF Plans
  <2>3. /\ job' \in [Proc -> {Idle} \cup Plans]
        /\ \A x \in Proc : job'[x] = Idle \/ job'[x] = job[x]
    BY <1>1, <1>4 DEF Write
  <2> QED
    BY <1>4, <2>1, <2>2, <2>3, PersistStep DEF Write
<1>5. ASSUME NEW p \in Proc, Drop(p) PROVE EdgeIInv'
  <2>1. job' = [job EXCEPT ![p] = Idle] /\ UNCHANGED <<row, audit, done, failing, approved>>
    BY <1>5 DEF Drop
  <2>2. EdgeTypeOK' /\ PlanInv'
    BY <1>1, <2>1 DEF EdgeTypeOK, Plans, PlanInv
  <2> QED
    BY <1>1, <2>1, <2>2 DEF EdgeIInv, AuditTold, RunOnce
<1>6. ASSUME NEW r \in Run, Maintain(r) PROVE EdgeIInv'
  <2>1. Plan(r) \in approved /\ Plan(r) = [run |-> r, decisions |-> Decisions(r)] /\ Plan(r) \in Plans
    BY <1>1, <1>6, PlanTypes DEF Maintain, Allowed, Plan
  <2>2. Decisions(r) \in SUBSET Decision
    BY <2>1 DEF Plans
  <2>3. Free(r) /\ Persist(r, Decisions(r)) /\ UNCHANGED <<failing, approved, job>>
    BY <1>6 DEF Maintain, Allowed, Free
  <2> QED
    BY <1>1, <2>1, <2>2, <2>3, PersistStep
<1>7. ASSUME NEW e \in Edge, Signal(e) PROVE EdgeIInv'
  <2>1. UNCHANGED <<row, audit, done, approved, job>> /\ failing' \subseteq Edge
    BY <1>1, <1>7 DEF Signal, EdgeTypeOK
  <2>2. EdgeTypeOK' /\ PlanInv'
    BY <1>1, <2>1 DEF EdgeTypeOK, PlanInv
  <2> QED
    BY <1>1, <2>1, <2>2 DEF EdgeIInv, AuditTold, RunOnce
<1>8. ASSUME NEW e \in Edge, Disable(e) PROVE EdgeIInv'
  <2>1. /\ row[e] \in Row /\ row[e] # None /\ UNCHANGED <<audit, done, failing, approved, job>>
        /\ row \in [Edge -> Row \cup {None}]
        /\ row' = [row EXCEPT ![e] = [row[e] EXCEPT !.state = "disabled"]]
    BY <1>1, <1>8 DEF Disable, EdgeTypeOK, Row
  <2>2. [row[e] EXCEPT !.state = "disabled"] \in Row
    BY <2>1 DEF Row, States
  <2>3. /\ row' \in [Edge -> Row \cup {None}] /\ row'[e] # None
        /\ row'[e].version = row[e].version /\ row'[e].state = "disabled"
        /\ \A x \in Edge \ {e} : row'[x] = row[x]
    BY <2>1, <2>2, EdgeAssumption DEF Row
  <2>4. EdgeTypeOK' /\ PlanInv'
    BY <1>1, <2>1, <2>3 DEF EdgeTypeOK, PlanInv, Row
  <2>5. AuditTold'
    BY <1>1, <2>1, <2>3 DEF AuditTold
  <2> QED
    BY <1>1, <2>1, <2>4, <2>5 DEF EdgeIInv, RunOnce
<1>9. CASE UNCHANGED vars
  BY <1>1, <1>9 DEF vars, EdgeIInv, EdgeTypeOK, PlanInv, AuditTold, RunOnce
<1> QED
  BY <1>2, <1>3, <1>4, <1>5, <1>6, <1>7, <1>8, <1>9 DEF Next

\* The inductive invariant holds in every reachable state.
THEOREM EdgeInvariant == Spec => []EdgeIInv
  BY InitEdge, NextEdge, PTL DEF Spec

\* Every variable keeps its type.
THEOREM EdgeTypes == Spec => []EdgeTypeOK
<1>1. EdgeIInv => EdgeTypeOK
  BY DEF EdgeIInv
<1> QED
  BY <1>1, EdgeInvariant, PTL

\* The audit accounts for every row.
THEOREM AuditHolds == Spec => []AuditTold
<1>1. EdgeIInv => AuditTold
  BY DEF EdgeIInv
<1> QED
  BY <1>1, EdgeInvariant, PTL

\* A run takes effect once, with decisions a manifest has approved.
THEOREM OnceHolds == Spec => []RunOnce
<1>1. EdgeIInv => RunOnce
  BY DEF EdgeIInv
<1> QED
  BY <1>1, EdgeInvariant, PTL

\* Only the write of a restore opens an edge that must not be walked.
THEOREM RevivalHolds == Spec => NeverRevived
<1> DEFINE Step == \A e \in Edge : State(e) # "active" /\ State(e)' = "active" =>
                      \E d \in done' \ done : Request[d.run].op = "restore" /\ e \in Request[d.run].edges
<1>1. ASSUME EdgeIInv, NEW r \in Run, NEW D, [run |-> r, decisions |-> D] \in approved,
             Free(r), Persist(r, D)
      PROVE  Step
  <2> SUFFICES ASSUME NEW e \in Edge, State(e) # "active", State(e)' = "active"
               PROVE  \E d \in done' \ done : Request[d.run].op = "restore" /\ e \in Request[d.run].edges
    OBVIOUS
  <2>1. Hit(e, r, D)
    <3>1. row'[e] # row[e]
      BY DEF State
    <3> QED
      BY <1>1, <3>1, PersistAt
  <2>2. PICK d \in Written(D) :
          d.edge = e /\ row'[e] = [state |-> d.to, version |-> Version(e), since |-> Request[r].asOf]
    BY <2>1 DEF Hit
  <2>3. row[e] # None /\ d \in D /\ d.from # d.to
    BY <2>2 DEF State, Written
  <2>4. row'[e] # None
    <3>1. row'[e] \in Row
      BY <1>1, <2>1, HitAt DEF EdgeIInv, EdgeTypeOK
    <3> QED
      BY <3>1, EdgeAssumption DEF Row
  <2>5. d.to = "active" /\ d.from # "active"
    BY <2>2, <2>3, <2>4 DEF State
  <2>6. Request[r].op = "restore" /\ e \in Request[r].edges
    BY <1>1, <2>2, <2>3, <2>5 DEF EdgeIInv, PlanInv
  <2>7. [run |-> r, decisions |-> D] \in done' \ done
    BY <1>1 DEF Persist, Free, Recorded
  <2> QED
    BY <2>6, <2>7
<1>2. EdgeIInv /\ [Next]_vars => [Step]_vars
  <2> SUFFICES ASSUME EdgeIInv, Next PROVE Step
    OBVIOUS
  <2>1. ASSUME NEW p \in Proc, Write(p) PROVE Step
    <3>1. job[p] # Idle /\ job[p] \in Plans /\ job[p] \in approved
      BY <2>1 DEF Write, EdgeIInv, EdgeTypeOK, PlanInv, Plans
    <3>2. job[p].run \in Run /\ job[p] = [run |-> job[p].run, decisions |-> job[p].decisions]
      BY <3>1 DEF Plans
    <3> QED
      BY <1>1, <2>1, <3>1, <3>2 DEF Write
  <2>2. ASSUME NEW r \in Run, Maintain(r) PROVE Step
    BY <1>1, <2>2 DEF Maintain, Allowed, Free, Plan
  <2>3. ASSUME NEW x \in Edge, Disable(x) PROVE Step
    <3>1. row \in [Edge -> Row \cup {None}] /\ row[x] # None /\ row[x] \in Row
      BY <2>3 DEF EdgeIInv, EdgeTypeOK, Row, Disable
    <3>2. /\ row'[x].state = "disabled" /\ row'[x] # None
          /\ \A e \in Edge \ {x} : row'[e] = row[e]
      BY <2>3, <3>1, EdgeAssumption DEF Disable, Row, States
    <3> QED
      BY <3>2 DEF State
  <2>4. ASSUME UNCHANGED row PROVE Step
    BY <2>4 DEF State
  <2> QED
    BY <2>1, <2>2, <2>3, <2>4 DEF Next, Approve, Decide, Drop, Signal
<1> QED
  BY <1>2, EdgeInvariant, PTL DEF Spec, NeverRevived
=============================================================================
