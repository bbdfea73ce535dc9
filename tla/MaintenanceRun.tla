--------------------------- MODULE MaintenanceRun ---------------------------
(***************************************************************************)
(* The maintenance controller of evolution_engine.c.  A run works through  *)
(* the phases consolidate, decay, edge, concept and finalize; each batch   *)
(* of a phase is one transaction that does the work, stores the checkpoint *)
(* in the run's row and in the lease, and adds an event whose key is       *)
(* unique.  Any process may be given a run: the first begins it, and when  *)
(* its lease has run out - the process died, or was only slow - the next   *)
(* one resumes it at the stored checkpoint with a higher attempt.          *)
(*                                                                         *)
(* Between two transactions a process holds nothing but the checkpoint it  *)
(* remembers, and a process that was given up for dead goes on with it.    *)
(*                                                                         *)
(* A run stands for its input: its id, its key and its payload, which      *)
(* names the owner too.  A second call with the same key and another       *)
(* payload, or of a completed run, only answers; it is no step.  Clock     *)
(* times are left out: a lease may run out at any moment.                  *)
(*                                                                         *)
(* What the edge and concept passes would decide is one value each, set by *)
(* whoever writes to the database; their own modules say how.              *)
(***************************************************************************)
EXTENDS Integers, FiniteSets

CONSTANTS
    Proc,       \* processes that may be given a run
    Run,        \* runs
    Item,       \* memories of the project, as the order of their ids
    Decision,   \* what an edge pass may come to
    Concept,    \* what a concept pass may propose
    EdgeManifest, ConceptManifest,  \* what the manifests of each run approve
    Batch,      \* rows of one transaction (16 in the code)
    Limit,      \* limit of the input: rows a run consolidates, and rows it decays
    MaxDecay,   \* decay at which a memory is archived, in steps of the increment
    Start,      \* bound: the rows there may be to begin with
    MaxAttempt, \* bound on the attempts of a run
    MaxMoves,   \* bound on what others do to the database meanwhile
    None

Statuses == {"candidate", "active", "out"}
Row      == [status : Statuses, decay : 0 .. MaxDecay]

ASSUME RunAssumption ==
    /\ Item \subseteq Nat \ {0} /\ IsFiniteSet(Item)
    /\ Batch \in Nat \ {0} /\ Limit \in Nat \ {0} /\ MaxDecay \in Nat \ {0}
    /\ Start \subseteq Row /\ MaxAttempt \in Nat \ {0} /\ MaxMoves \in Nat
    /\ EdgeManifest \in [Run -> Decision] /\ ConceptManifest \in [Run -> SUBSET Concept]
    /\ None \notin Run

Phase == {"consolidate", "decay", "edge", "concept", "finalize", "completed"}
Rank  == [consolidate |-> 1, decay |-> 2, edge |-> 3, concept |-> 4, finalize |-> 5, completed |-> 6]

Checkpoint == [phase : Phase, last : Nat, attempt : Nat, consolidated : Nat, decayed : Nat]

\* The checkpoint a run begins with.
Fresh == [phase |-> "consolidate", last |-> 0, attempt |-> 1, consolidated |-> 0, decayed |-> 0]

VARIABLES
    item,       \* memory_item: status ("out": in no pass's reach) and decay
    edge,       \* what stage9_build_maintenance comes to
    concept,    \* what stage10_collect_candidates comes to
    known,      \* concept_candidate
    run,        \* global_maintenance_run: status and checkpoint
    lease,      \* the row of global_maintenance_lease
    journal,    \* the keys in global_evolution_event
    written,    \* the runs in edge_maintenance_run and in concept_growth_run
    ctl,        \* what each process is doing for which run, and its checkpoint
    touched,    \* history: how often each run has decayed each memory
    moves       \* what others may still do

world == <<item, edge, concept, known>>
vars  == <<world, run, lease, journal, written, ctl, touched, moves>>

Away        == [step |-> "away", run |-> None, cp |-> Fresh]
Least(m, n) == IF m < n THEN m ELSE n

With(status) == {i \in Item : item[i].status = status}
Begun(r)     == run[r].status \in {"running", "checkpointed"}

\* Slip: a lease is given up only by its holder.
LeaseFreeNever == lease.run = None

LeaseFree == lease.run = None \/ lease.expired

\* Slip: the fence names the owner and forgets the attempt.
HoldsAsOwner(p) == ctl[p].step # "away" /\ lease.run = ctl[p].run

\* The run's row and the lease are still those of this attempt.
Holds(p) ==
    LET r == ctl[p].run IN
    /\ ctl[p].step # "away"
    /\ lease.run = r /\ lease.attempt = ctl[p].cp.attempt
    /\ run[r].cp.attempt = ctl[p].cp.attempt

Init ==
    /\ item \in [Item -> Start]
    /\ edge \in Decision /\ concept \in SUBSET Concept /\ known = {}
    /\ run = [r \in Run |-> [status |-> "none", cp |-> Fresh]]
    /\ lease = [run |-> None, attempt |-> 0, expired |-> FALSE]
    /\ journal = {} /\ written = [edge |-> {}, concept |-> {}]
    /\ ctl = [p \in Proc |-> Away]
    /\ touched = [r \in Run |-> [i \in Item |-> 0]]
    /\ moves = MaxMoves

(***************************************************************************)
(* evo_initialize_maintenance: one transaction that inserts the run or     *)
(* raises its attempt, takes the lease if nobody has it or its time has    *)
(* come, and adds "begin" or "resume".                                     *)
(***************************************************************************)
Acquire(p, r, cp, key) ==
    /\ ctl[p].step = "away" /\ LeaseFree
    /\ key \notin journal /\ journal' = journal \cup {key}
    /\ run' = [run EXCEPT ![r] = [status |-> "running", cp |-> cp]]
    /\ lease' = [run |-> r, attempt |-> cp.attempt, expired |-> FALSE]
    /\ ctl' = [ctl EXCEPT ![p] = [step |-> "loop", run |-> r, cp |-> cp]]
    /\ UNCHANGED <<world, written, touched, moves>>

Begin(p, r) ==
    /\ run[r].status = "none"
    /\ Acquire(p, r, Fresh, <<r, "begin", 1>>)

\* Slip: a resumed run starts over.
ResumeFresh(p, r) ==
    LET attempt == run[r].cp.attempt + 1 IN
    /\ Begun(r) /\ attempt <= MaxAttempt
    /\ Acquire(p, r, [Fresh EXCEPT !.attempt = attempt], <<r, "resume", attempt>>)

\* Slip: a resumed run keeps its counts and starts with the first phase.
ResumeFirstPhase(p, r) ==
    LET cp == [run[r].cp EXCEPT !.attempt = @ + 1, !.phase = "consolidate"] IN
    /\ Begun(r) /\ cp.attempt <= MaxAttempt
    /\ Acquire(p, r, cp, <<r, "resume", cp.attempt>>)

Resume(p, r) ==
    LET cp == [run[r].cp EXCEPT !.attempt = @ + 1] IN
    /\ Begun(r) /\ cp.attempt <= MaxAttempt
    /\ Acquire(p, r, cp, <<r, "resume", cp.attempt>>)

(***************************************************************************)
(* The phases.  "Room" is the batch a process asks for, "Claim" the key of *)
(* the transaction it is about to commit.                                  *)
(***************************************************************************)
Room(done) == Least(Batch, Limit - done)

\* Slip: the batch begins with the last memory of the one before.
DueAgain(cp) == {i \in With("active") : i >= cp.last}

Due(cp) == {i \in With("active") : i > cp.last}

Count(cp) ==
    CASE cp.phase = "consolidate" ->
           cp.consolidated + Least(Room(cp.consolidated), Cardinality(With("candidate")))
      [] cp.phase = "decay" -> cp.decayed + Least(Room(cp.decayed), Cardinality(Due(cp)))
      [] OTHER -> 0

Claim(p) == <<ctl[p].run, ctl[p].cp.phase, Count(ctl[p].cp)>>

\* evo_phase_commit, and the same at the end of the run.
PhaseCommit(p, cp) ==
    /\ Holds(p)
    /\ Claim(p) \notin journal /\ journal' = journal \cup {Claim(p)}
    /\ run' = [run EXCEPT ![ctl[p].run] = [status |-> "running", cp |-> cp]]
    /\ ctl' = [ctl EXCEPT ![p].cp = cp]
    /\ UNCHANGED <<lease, moves>>

In(p, phase) == ctl[p].step = "loop" /\ ctl[p].cp.phase = phase

\* memory_consolidate_impl on one batch: each candidate becomes active, or
\* is merged into a memory that is active by then.
Consolidate(p) ==
    LET cp == ctl[p].cp
        n  == Count(cp)
        full == n - cp.consolidated = Room(cp.consolidated) /\ n < Limit
    IN /\ In(p, "consolidate")
       /\ \E S \in SUBSET With("candidate") : \E merged \in SUBSET S :
             /\ Cardinality(S) = n - cp.consolidated
             /\ merged # {} => With("active") \cup (S \ merged) # {}
             /\ item' = [i \in Item |->
                    IF i \in S THEN [item[i] EXCEPT !.status = IF i \in merged THEN "out" ELSE "active"]
                    ELSE item[i]]
       /\ PhaseCommit(p, [cp EXCEPT !.consolidated = n, !.phase = IF full THEN @ ELSE "decay"])
       /\ UNCHANGED <<edge, concept, known, written, touched>>

\* Slip: the decay is not cut off where the memory is archived.
FadedUncut(row) ==
    [status |-> IF row.decay + 1 >= MaxDecay THEN "out" ELSE "active", decay |-> row.decay + 1]

Faded(row) ==
    [status |-> IF row.decay + 1 >= MaxDecay THEN "out" ELSE "active",
     decay |-> Least(row.decay + 1, MaxDecay)]

\* The next batch of active memories after the last id, in the order of ids.
Decay(p) ==
    LET cp == ctl[p].cp
        n  == Count(cp)
        full == n - cp.decayed = Room(cp.decayed) /\ n < Limit
    IN /\ In(p, "decay")
       /\ \E S \in SUBSET Due(cp) : \E last \in S \cup {cp.last} :
             /\ Cardinality(S) = n - cp.decayed
             /\ \A i \in S : i <= last /\ \A j \in Due(cp) \ S : i < j
             /\ item' = [i \in Item |-> IF i \in S THEN Faded(item[i]) ELSE item[i]]
             /\ touched' = [touched EXCEPT ![ctl[p].run] =
                                [i \in Item |-> IF i \in S THEN @[i] + 1 ELSE @[i]]]
             /\ PhaseCommit(p, [cp EXCEPT !.decayed = n, !.last = last,
                                          !.phase = IF full THEN @ ELSE "edge"])
       /\ UNCHANGED <<edge, concept, known, written>>

\* The pass finds what the manifest approves; a concept that is known
\* already cannot be inserted again.
Approved(p) ==
    LET r == ctl[p].run IN
    /\ In(p, "edge") => edge = EdgeManifest[r]
    /\ In(p, "concept") => concept = ConceptManifest[r] /\ concept \cap known = {}

EdgePhase(p) ==
    LET r == ctl[p].run IN
    /\ In(p, "edge") /\ Approved(p)
    /\ written' = [written EXCEPT !.edge = @ \cup {r}]
    /\ PhaseCommit(p, [ctl[p].cp EXCEPT !.phase = "concept"])
    /\ UNCHANGED <<world, touched>>

ConceptPhase(p) ==
    LET r == ctl[p].run IN
    /\ In(p, "concept") /\ Approved(p)
    /\ written' = [written EXCEPT !.concept = @ \cup {r}]
    /\ known' = known \cup concept
    /\ PhaseCommit(p, [ctl[p].cp EXCEPT !.phase = "finalize"])
    /\ UNCHANGED <<item, edge, concept, touched>>

\* The last transaction gives the lease back.
Finalize(p) ==
    LET r == ctl[p].run
        cp == [ctl[p].cp EXCEPT !.phase = "completed"]
    IN /\ In(p, "finalize") /\ Holds(p)
       /\ Claim(p) \notin journal /\ journal' = journal \cup {Claim(p)}
       /\ run' = [run EXCEPT ![r] = [status |-> "completed", cp |-> cp]]
       /\ lease' = [lease EXCEPT !.expired = TRUE]
       /\ ctl' = [ctl EXCEPT ![p] = Away]
       /\ UNCHANGED <<world, written, touched, moves>>

(***************************************************************************)
(* What ends an attempt.  A batch that fails or exceeds the time budget is *)
(* rolled back, and a transaction of its own says "checkpointed" and gives *)
(* the lease back; a commit that fails leaves the lease to its time.       *)
(***************************************************************************)
Interrupt(p) ==
    /\ ctl[p].step = "loop"
    /\ ~Approved(p) \/ ctl[p].cp.attempt < MaxAttempt
    /\ ctl' = [ctl EXCEPT ![p].step = "pausing"]
    /\ UNCHANGED <<world, run, lease, journal, written, touched, moves>>

Pause(p) ==
    LET r == ctl[p].run
        key == <<r, "checkpoint", ctl[p].cp.attempt>>
    IN /\ ctl[p].step = "pausing" /\ Holds(p)
       /\ key \notin journal /\ journal' = journal \cup {key}
       /\ run' = [run EXCEPT ![r] = [status |-> "checkpointed", cp |-> ctl[p].cp]]
       /\ lease' = [lease EXCEPT !.expired = TRUE]
       /\ ctl' = [ctl EXCEPT ![p] = Away]
       /\ UNCHANGED <<world, written, touched, moves>>

\* The process is not the holder any more, or its key is taken.
Collides(p) == ctl[p].step = "loop" /\ Holds(p) /\ Approved(p) /\ Claim(p) \in journal

Refused(p) ==
    /\ (ctl[p].step # "away" /\ ~Holds(p)) \/ Collides(p)
    /\ ctl' = [ctl EXCEPT ![p] = Away]
    /\ UNCHANGED <<world, run, lease, journal, written, touched, moves>>

\* The process dies, or gets no lock or no commit.
Leave(p) ==
    /\ ctl[p].step # "away" /\ ctl[p].cp.attempt < MaxAttempt
    /\ ctl' = [ctl EXCEPT ![p] = Away]
    /\ UNCHANGED <<world, run, lease, journal, written, touched, moves>>

\* The time of the lease runs out, whether or not its holder is alive.
Expire ==
    /\ lease.run # None /\ ~lease.expired
    /\ (\E p \in Proc : Holds(p)) => lease.attempt < MaxAttempt
    /\ lease' = [lease EXCEPT !.expired = TRUE]
    /\ UNCHANGED <<world, run, journal, written, ctl, touched, moves>>

(***************************************************************************)
(* Others write to the same database: memories come, change their status   *)
(* and go, and so changes what the passes would come to.                   *)
(***************************************************************************)
Others ==
    /\ moves > 0 /\ moves' = moves - 1
    /\ \/ \E i \in Item, s \in Statuses :
             item' = [item EXCEPT ![i].status = s] /\ UNCHANGED <<edge, concept>>
       \/ edge' \in Decision /\ UNCHANGED <<item, concept>>
       \/ concept' \in SUBSET Concept /\ UNCHANGED <<item, edge>>
    /\ UNCHANGED <<known, run, lease, journal, written, ctl, touched>>

Work(p) ==
    \/ Consolidate(p) \/ Decay(p) \/ EdgePhase(p) \/ ConceptPhase(p) \/ Finalize(p)
    \/ Interrupt(p) \/ Pause(p) \/ Refused(p)

Next ==
    \/ \E p \in Proc, r \in Run : Begin(p, r) \/ Resume(p, r)
    \/ \E p \in Proc : Work(p) \/ Leave(p)
    \/ Expire
    \/ Others

Spec == Init /\ [][Next]_vars

\* A process that runs takes its steps and time passes.  Nothing in the code
\* retries: that a run goes on after its process has died, or got no lease,
\* rests on its caller, who is assumed to ask again until it is completed.
FairSpec ==
    /\ Spec
    /\ \A p \in Proc : WF_vars(Work(p))
    /\ \A r \in Run : WF_vars(\E p \in Proc : Resume(p, r))
    /\ WF_vars(Expire)

(***************************************************************************)
(* Properties.                                                             *)
(***************************************************************************)
Mark == Phase \cup {"begin", "resume", "checkpoint"}

\* Every variable keeps its type.
RunTypeOK ==
    /\ item \in [Item -> Row]
    /\ edge \in Decision /\ concept \subseteq Concept /\ known \subseteq Concept
    /\ run \in [Run -> [status : {"none", "running", "checkpointed", "completed"}, cp : Checkpoint]]
    /\ lease \in [run : Run \cup {None}, attempt : Nat, expired : BOOLEAN]
    /\ journal \subseteq Run \X Mark \X Nat
    /\ written \in [edge : SUBSET Run, concept : SUBSET Run]
    /\ ctl \in [Proc -> {Away} \cup [step : {"loop", "pausing"}, run : Run, cp : Checkpoint]]
    /\ touched \in [Run -> [Item -> Nat]]
    /\ moves \in 0 .. MaxMoves

\* Whoever can still commit remembers what is stored: a process that was
\* taken for dead, and one whose run another process has carried on, is not
\* among them, and at most one process is (evo_store_checkpoint's fence).
FenceSound ==
    /\ \A p \in Proc : Holds(p) => ctl[p].cp = run[ctl[p].run].cp /\ Begun(ctl[p].run)
    /\ \A p, q \in Proc : Holds(p) /\ Holds(q) => p = q

Decayed(r) == {i \in Item : touched[r][i] > 0}

\* No memory is decayed twice, and the next one is behind the last one.
DecayOnce ==
    \A r \in Run, i \in Item :
        touched[r][i] > 0 => touched[r][i] = 1 /\ i <= run[r].cp.last

\* The counts, and the passes that have been made.
Counted ==
    \A r \in Run :
        LET cp == run[r].cp IN
        /\ cp.decayed = Cardinality(Decayed(r))
        /\ cp.decayed <= Limit /\ cp.consolidated <= Limit
        /\ r \in written.edge <=> Rank[cp.phase] > 3
        /\ r \in written.concept <=> Rank[cp.phase] > 4

\* The stored checkpoint tells the truth about what has been done, however
\* often a run is interrupted and resumed: as many decayed memories as it
\* counts, none of them twice or behind its last id, never more than the
\* limit, and the edge and concept passes exactly if it is past them.
Accounted == DecayOnce /\ Counted

\* What a batch comes to that finds nothing to do after one that did.
Dry(cp) ==
    \/ cp.phase = "consolidate" /\ cp.consolidated > 0 /\ With("candidate") = {}
    \/ cp.phase = "decay" /\ cp.decayed > 0 /\ Due(cp) = {}

\* The unique keys of the events stop a run at one point only: the key of its
\* next transaction is taken exactly when a batch is empty and the phase has
\* counted rows already; a run can always be resumed and paused.
StuckOnlyDry ==
    /\ \A p \in Proc : ctl[p].step = "loop" /\ Holds(p) => (Claim(p) \in journal <=> Dry(ctl[p].cp))
    /\ \A p \in Proc : ctl[p].step = "pausing" /\ Holds(p) =>
          <<ctl[p].run, "checkpoint", ctl[p].cp.attempt>> \notin journal
    /\ \A r \in Run : Begun(r) => <<r, "resume", run[r].cp.attempt + 1>> \notin journal

Stage == [r \in Run |-> IF run[r].status = "none" THEN 0 ELSE Rank[run[r].cp.phase]]

Promise == INSTANCE MaintenancePromise WITH stage <- Stage, decays <- touched

\* The controller implements the promise of MaintenancePromise.
RunPromiseKept == Promise!Spec

\* What stops a run for good: its next key is taken, or a pass does not
\* find what the manifest approves.
Blocked(r) == \E p \in Proc :
    ctl[p].run = r /\ ctl[p].step = "loop" /\ Holds(p) /\ (~Approved(p) \/ Claim(p) \in journal)

\* If its caller asks again, crashes, lapsed leases, interrupted batches and
\* another run that holds the one lease meanwhile - until it is completed,
\* or has used up its attempts - do not keep a run from being completed.
Finishes ==
    \A r \in Run : [](~Blocked(r)) => (Begun(r) ~> run[r].status = "completed")

\* A run that is called again after its lease has lapsed goes on
\* (test_stage14_global.c expects CBM_STORE_OK of that call and reports
\* checkpoint_resume=PASS): the key of its next transaction is free.
Resumable == \A p \in Proc : ctl[p].cp.attempt > 1 => ~Collides(p)
=============================================================================
