--------------------------- MODULE EdgeLifecycle ---------------------------
(***************************************************************************)
(* The lifecycle of memory edges: edge_lifecycle.c.  A maintenance run     *)
(* lets edges that fail go cold and then archives them, a restore run      *)
(* makes the edges it names active again.  A run is first previewed, its   *)
(* decisions are approved in a manifest, and an active run is carried out  *)
(* if it would decide exactly what the manifest says.                      *)
(*                                                                         *)
(* A process decides and compares before its transaction begins, and the   *)
(* transaction writes what was decided whatever the edges' states are by   *)
(* then.  Inside the maintenance controller's transaction the two are one. *)
(*                                                                         *)
(* A run stands for its id and its request, the manifest included; asking  *)
(* again for a recorded run, or with another request, writes nothing.      *)
(* The scores that make an edge fail are one fact per edge, and the chain  *)
(* of hashes over all edges is a sequence for each.                        *)
(***************************************************************************)
EXTENDS Naturals, Sequences, FiniteSets

CONSTANTS
    Proc,       \* processes
    Run,        \* runs
    Request,    \* each run's operation, edges and frozen time
    Edge,       \* memory_edge
    Foreign,    \* edges that leave the project
    Protected,  \* edges of a protected or unknown relation, or of a valued endpoint
    ColdAge,    \* time without a signal after which a failing edge goes cold
    Dwell,      \* time a failing edge is cold before it is archived
    None

States == {"active", "cold", "archived", "disabled"}

ASSUME EdgeAssumption ==
    /\ Request \in [Run -> [op : {"maintenance", "restore"}, edges : SUBSET Edge, asOf : Nat]]
    /\ \A r \in Run : Request[r].op = "maintenance" => Request[r].edges = Edge
    /\ Foreign \subseteq Edge /\ Protected \subseteq Edge
    /\ ColdAge \in Nat /\ Dwell \in Nat
    /\ None \notin [state : States, version : Nat, since : Nat]

VARIABLES
    row,        \* edge_lifecycle_state, or None
    audit,      \* edge_lifecycle_audit_event, for each edge in its order
    done,       \* edge_maintenance_run with its decisions: those recorded so far
    failing,    \* the edges whose evidence is against them
    approved,   \* the manifests of the runs: what each may decide
    job         \* what each process has decided and not yet written

vars == <<row, audit, done, failing, approved, job>>

Decision == [edge : Edge, from : States, to : States]
Idle     == [run |-> None, decisions |-> {}]

Init ==
    /\ row = [e \in Edge |-> None] /\ audit = [e \in Edge |-> << >>]
    /\ done = {} /\ failing \in SUBSET Edge
    /\ approved = {}
    /\ job = [p \in Proc |-> Idle]

\* stage9_load_edges: an edge without a row is active since it was created.
State(e) == IF row[e] = None THEN "active" ELSE row[e].state
Since(e) == IF row[e] = None THEN 0 ELSE row[e].since

\* stage9_decide.
Judged(e, asOf) ==
    CASE e \in Foreign \cup Protected                                      -> State(e)
      [] State(e) = "active" /\ e \in failing /\ asOf >= ColdAge           -> "cold"
      [] State(e) = "cold" /\ e \in failing /\ asOf >= Since(e) + Dwell    -> "archived"
      [] OTHER                                                             -> State(e)

\* stage9_build_restore.
Restored(e) == IF State(e) \in {"cold", "archived"} /\ e \notin Foreign THEN "active" ELSE State(e)

Decisions(r) ==
    {[edge |-> e, from |-> State(e),
      to |-> IF Request[r].op = "restore" THEN Restored(e) ELSE Judged(e, Request[r].asOf)] :
     e \in Request[r].edges}

Plan(r) == [run |-> r, decisions |-> Decisions(r)]

Recorded(r) == \E d \in done : d.run = r

(***************************************************************************)
(* stage9_persist: one transaction.  A decision that changes nothing is    *)
(* written only if the edge has no row yet.                                *)
(***************************************************************************)
\* Slip: every decision is written.
WrittenAll(decisions) == decisions

Written(decisions) == {d \in decisions : row[d.edge] = None \/ d.from # d.to}

\* Slip: the version is not counted up.
VersionKept(e) == IF row[e] = None THEN 1 ELSE row[e].version

Version(e) == IF row[e] = None THEN 1 ELSE row[e].version + 1

\* Slip: the audit carries the request's operation.
OperationNamed(r, d) == Request[r].op

Operation(r, d) ==
    IF Request[r].op = "restore" THEN "restore"
    ELSE IF row[d.edge] = None /\ d.from = d.to THEN "initialize" ELSE "transition"

Persist(r, decisions) ==
    LET to(e) == (CHOOSE d \in Written(decisions) : d.edge = e).to
        event(e) == LET d == CHOOSE d \in Written(decisions) : d.edge = e
                    IN [run |-> r, op |-> Operation(r, d), from |-> d.from, to |-> d.to]
        hit == {d.edge : d \in Written(decisions)}
    IN /\ done' = done \cup {[run |-> r, decisions |-> decisions]}
       /\ row' = [e \in Edge |->
             IF e \in hit THEN [state |-> to(e), version |-> Version(e), since |-> Request[r].asOf]
             ELSE row[e]]
       /\ audit' = [e \in Edge |-> IF e \in hit THEN Append(audit[e], event(e)) ELSE audit[e]]

\* A preview, and the manifest written and approved from its report.
Approve(r) ==
    /\ \A m \in approved : m.run # r
    /\ approved' = approved \cup {Plan(r)}
    /\ UNCHANGED <<row, audit, done, failing, job>>

\* No recorded run of this id, and a manifest with these decisions.
Allowed(r) == ~Recorded(r) /\ Plan(r) \in approved

Decide(p, r) ==
    /\ job[p] = Idle /\ Allowed(r)
    /\ job' = [job EXCEPT ![p] = Plan(r)]
    /\ UNCHANGED <<row, audit, done, failing, approved>>

\* Slip: the run's row is written again.
FreeAlways(r) == TRUE

\* The look-up before the transaction, and the primary key of the run.
Free(r) == ~Recorded(r)

Write(p) ==
    /\ job[p] # Idle /\ Free(job[p].run)
    /\ Persist(job[p].run, job[p].decisions)
    /\ job' = [job EXCEPT ![p] = Idle]
    /\ UNCHANGED <<failing, approved>>

\* The run was recorded meanwhile, or the process fails or dies: nothing is
\* written.
Drop(p) ==
    /\ job[p] # Idle
    /\ job' = [job EXCEPT ![p] = Idle]
    /\ UNCHANGED <<row, audit, done, failing, approved>>

\* cbm_store_memory_edge_maintenance_in_transaction.
Maintain(r) ==
    /\ Request[r].op = "maintenance" /\ Allowed(r)
    /\ Persist(r, Decisions(r))
    /\ UNCHANGED <<failing, approved, job>>

\* Feedback turns the evidence on an edge.
Signal(e) ==
    /\ \/ failing' = failing \cup {e}
       \/ failing' = failing \ {e}
    /\ UNCHANGED <<row, audit, done, approved, job>>

\* Somebody blocks an edge that has a row by hand.
Disable(e) ==
    /\ row[e] # None
    /\ row' = [row EXCEPT ![e].state = "disabled"]
    /\ UNCHANGED <<audit, done, failing, approved, job>>

Next ==
    \/ \E r \in Run : Approve(r) \/ Maintain(r) \/ \E p \in Proc : Decide(p, r)
    \/ \E p \in Proc : Write(p) \/ Drop(p)
    \/ \E e \in Edge : Signal(e) \/ Disable(e)

Spec == Init /\ [][Next]_vars

(***************************************************************************)
(* Properties.                                                             *)
(***************************************************************************)
Event == [run : Run, op : {"initialize", "transition", "restore"}, from : States, to : States]

\* Every variable keeps its type.
EdgeTypeOK ==
    /\ row \in [Edge -> [state : States, version : Nat, since : Nat] \cup {None}]
    /\ audit \in [Edge -> Seq(Event)]
    /\ done \subseteq [run : Run, decisions : SUBSET Decision]
    /\ failing \subseteq Edge
    /\ approved \subseteq [run : Run, decisions : SUBSET Decision]
    /\ job \in [Proc -> {Idle} \cup [run : Run, decisions : SUBSET Decision]]

\* The audit accounts for every row: as many events as the row has versions,
\* and the last one tells the state, unless the edge was blocked by hand.
AuditTold ==
    \A e \in Edge :
        /\ row[e] = None <=> audit[e] = << >>
        /\ row[e] # None =>
              /\ row[e].version = Len(audit[e])
              /\ row[e].state \in {audit[e][Len(audit[e])].to, "disabled"}

\* Whatever processes race, retry and die, a run takes effect once: it is
\* recorded with one set of decisions, which a manifest has approved, and
\* each of its audit events is one of them, at most one for each edge.
RunOnce ==
    /\ \A d, f \in done : d.run = f.run => d = f
    /\ done \subseteq approved
    /\ \A e \in Edge : \A m \in DOMAIN audit[e] :
          /\ \E d \in done : d.run = audit[e][m].run /\
                [edge |-> e, from |-> audit[e][m].from, to |-> audit[e][m].to] \in d.decisions
          /\ \A n \in DOMAIN audit[e] : audit[e][m].run = audit[e][n].run => m = n

\* Whatever is decided on old states, an edge that must not be walked is
\* opened again only by the write of a restore run that names it: no
\* maintenance revives an edge (cbm_store_memory_edge_allows_propagation).
NeverRevived ==
    [][\A e \in Edge : State(e) # "active" /\ State(e)' = "active" =>
          \E d \in done' \ done : Request[d.run].op = "restore" /\ e \in Request[d.run].edges]_vars
=============================================================================
