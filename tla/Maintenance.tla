---------------------------- MODULE Maintenance ----------------------------
(***************************************************************************)
(* cbm_store_memory_maintain_if_due: the automatic passes that run in the  *)
(* server processes' own recall and write calls, on one memory database.   *)
(*                                                                         *)
(* A call reads the clock once and counts the candidates, then for each of *)
(* consolidate, decay and sweep: reads the pass's last stamp in            *)
(* memory_meta, runs the pass in a transaction of its own if it is due,    *)
(* and stamps the time the call began.  Nothing excludes another process   *)
(* between those steps, a stamp may overwrite a later one, and a process   *)
(* may die between the pass and its stamp.  What each pass does to the     *)
(* rows is the subject of MemoryStore; here a pass matters for whether and *)
(* when it runs, and what that means for one memory; of the other ones     *)
(* only how many candidates they add to the count is of interest.          *)
(*                                                                         *)
(* Time is relative: "age" is the time since a stamp and "lag" the time    *)
(* since a call read its clock; ages are cut off at bounds no test below   *)
(* can tell from more.                                                     *)
(***************************************************************************)
EXTENDS Integers

CONSTANTS
    Proc,       \* server processes on the database
    None,       \* SQL NULL
    Arg,        \* the project argument of the call
    Scope,      \* scope_project of the database's rows
    Threshold,  \* CONSOLIDATE_THRESHOLD
    MinInterval,\* MIN_INTERVAL_MS
    MaxInterval,\* MAX_INTERVAL_MS
    DecayInterval, \* DECAY_INTERVAL_MS
    SweepInterval, \* SWEEP_INTERVAL_MS
    RedLined,   \* whether the memory is a decision, constraint or lesson anchored to code
    Recorded,   \* bound: which of "own" and "other" recalls may return
    Others,     \* bound on the other candidates a call counts
    Faults,     \* bound on crashes and failed statements
    MaxLag,     \* bound on the duration of a call
    Watched     \* the <<process, pass>> whose rhythm is observed

Passes == {"consolidate", "decay", "sweep"}

ASSUME MaintenanceAssumption ==
    /\ Threshold \in Nat \ {0} /\ Others \in Nat /\ Faults \in Nat /\ MaxLag \in Nat
    /\ MinInterval \in Nat /\ MaxInterval \in Nat
    /\ DecayInterval \in Nat /\ SweepInterval \in Nat
    /\ MinInterval <= MaxInterval
    /\ RedLined \in BOOLEAN
    /\ Recorded \subseteq {"own", "other"}
    /\ Watched \in Proc \X Passes

VARIABLES
    item,       \* where the memory stands with respect to the passes
    bin,        \* its soft deletion: not deleted, within the grace window, past it
    age,        \* time since each pass's stamp
    call,       \* each process's progress through maintain_if_due
    cited,      \* which rows a recall has on record: the memory, another expired row
    faults,     \* how many faults there may still be
    rested      \* time since the watched process last ran the watched pass

vars == <<item, bin, cited, age, call, faults, rested>>

\* The longest interval a pass waits for; a stamp that is older by more than
\* the duration of a call looks like one of this age.
Longest(pass) ==
    CASE pass = "consolidate" -> MaxInterval [] pass = "decay" -> DecayInterval [] OTHER -> SweepInterval

Far(pass) == Longest(pass) + MaxLag

Rest == Longest(Watched[2])

Idle == [pass |-> "idle", step |-> "idle", lag |-> 0, seen |-> 0]

\* "?1 IS NULL OR scope_project=?1", in every statement of the passes.
Matches == Arg = None \/ Arg = Scope

Pending == item = "candidate" /\ bin = "no"

Init ==
    /\ item = "unwritten" /\ bin = "no" /\ cited = {}
    /\ age = [q \in Passes |-> Far(q)]
    /\ call = [p \in Proc |-> Idle]
    /\ faults = Faults
    /\ rested = Rest

(***************************************************************************)
(* The clients' side: handle_events, delete and restore.                   *)
(***************************************************************************)
Write ==
    /\ item = "unwritten"
    /\ item' = "candidate"
    /\ UNCHANGED <<bin, cited, age, call, faults, rested>>

SoftDelete ==
    /\ item \in {"candidate", "settled"} /\ bin = "no"
    /\ bin' = "grace"
    /\ UNCHANGED <<item, cited, age, call, faults, rested>>

Restore ==
    /\ bin # "no"
    /\ bin' = "no"
    /\ UNCHANGED <<item, cited, age, call, faults, rested>>

\* Every recall records the memories it returns in retrieval_candidate, and
\* nothing removes them; "other" is a victim of the sweep: soft-deleted for long.
Recall(row) ==
    /\ row \in Recorded /\ row \notin cited
    /\ row = "own" => item \in {"candidate", "settled"} /\ bin = "no"
    /\ cited' = cited \cup {row}
    /\ UNCHANGED <<item, bin, age, call, faults, rested>>

(***************************************************************************)
(* The call.  The count of candidates does not look at deleted_at; on      *)
(* another project's rows it is zero.                                      *)
(***************************************************************************)
Begin(p) ==
    /\ call[p] = Idle
    /\ \E others \in 0 .. Others :
          LET count == others + (IF item = "candidate" THEN 1 ELSE 0) IN
          call' = [call EXCEPT ![p] = [pass |-> "consolidate", step |-> "check", lag |-> 0,
                                       seen |-> IF Matches THEN count ELSE 0]]
    /\ UNCHANGED <<item, bin, cited, age, faults, rested>>

\* Slip: no end to the list of passes.
NextPassOverrun(p) ==
    [call[p] EXCEPT !.pass = CASE @ = "consolidate" -> "decay" [] @ = "decay" -> "sweep" [] OTHER -> "next",
                    !.step = "check", !.seen = 0]

NextPass(p) ==
    IF call[p].pass = "sweep" THEN Idle
    ELSE [call[p] EXCEPT !.pass = IF @ = "consolidate" THEN "decay" ELSE "sweep", !.step = "check", !.seen = 0]

Since(p) == age[call[p].pass] - call[p].lag

\* Slip: no backstop for a few candidates that have waited long.
DueOnThresholdOnly(p) ==
    IF call[p].pass = "consolidate"
    THEN call[p].seen >= Threshold /\ Since(p) >= MinInterval
    ELSE Since(p) >= Longest(call[p].pass)

\* Slip: the sweep is nested in the branch for candidates.
DueWithCandidates(p) ==
    IF call[p].pass = "decay" THEN Since(p) >= DecayInterval
    ELSE /\ call[p].seen > 0
         /\ (call[p].seen >= Threshold /\ Since(p) >= MinInterval) \/ Since(p) >= MaxInterval

Due(p) ==
    IF call[p].pass = "consolidate"
    THEN /\ call[p].seen > 0
         /\ (call[p].seen >= Threshold /\ Since(p) >= MinInterval) \/ Since(p) >= MaxInterval
    ELSE Since(p) >= Longest(call[p].pass)

Check(p) ==
    /\ call[p].step = "check"
    /\ call' = [call EXCEPT ![p] = IF Due(p) THEN [@ EXCEPT !.step = "run", !.seen = 0] ELSE NextPass(p)]
    /\ UNCHANGED <<item, bin, cited, age, faults, rested>>

\* The sweep's SELECT takes what is past its grace window and not red-lined.
Victim == Matches /\ bin = "ripe" /\ ~RedLined

\* The sweep's transaction deletes all its victims or none, and a cited row
\* cannot be deleted (foreign_keys, ON DELETE RESTRICT).
Refused(p) ==
    /\ call[p].pass = "sweep" /\ Matches
    /\ "other" \in cited \/ (Victim /\ "own" \in cited)

\* What a pass does to the memory: settle it, as promoted or merged, or
\* erase it.  Decay's changes play no part here.
Run(p) ==
    /\ call[p].step = "run"
    /\ ~Refused(p)
    /\ LET pass == call[p].pass IN
        /\ item' = CASE pass = "consolidate" /\ Matches /\ Pending -> "settled"
                     [] pass = "sweep" /\ Victim -> "erased"
                     [] OTHER -> item
        /\ bin' = IF item' = "erased" THEN "no" ELSE bin
        /\ rested' = IF Watched = <<p, pass>> THEN 0 ELSE rested
    /\ call' = [call EXCEPT ![p].step = "stamp"]
    /\ UNCHANGED <<cited, age, faults>>

\* A refused sweep is rolled back and not stamped: the next call tries again.
RunRefused(p) ==
    /\ call[p].step = "run"
    /\ Refused(p)
    /\ call' = [call EXCEPT ![p] = NextPass(p)]
    /\ UNCHANGED <<item, bin, cited, age, faults, rested>>

\* Slip: the stamp goes to the key of another pass.
StampWrongKey(p) ==
    /\ call[p].step = "stamp"
    /\ age' = [age EXCEPT !["consolidate"] = call[p].lag]
    /\ call' = [call EXCEPT ![p] = NextPass(p)]
    /\ UNCHANGED <<item, bin, cited, faults, rested>>

Stamp(p) ==
    /\ call[p].step = "stamp"
    /\ age' = [age EXCEPT ![call[p].pass] = call[p].lag]
    /\ call' = [call EXCEPT ![p] = NextPass(p)]
    /\ UNCHANGED <<item, bin, cited, faults, rested>>

(***************************************************************************)
(* Faults: the pass's BEGIN or COMMIT fails on a busy database, and the    *)
(* pass is not stamped either; memory_meta_set_i64 fails, which nobody     *)
(* notices; the process dies.  With its stamp lost a process cannot be     *)
(* held to its rhythm.                                                     *)
(***************************************************************************)
Fault(p, next) ==
    /\ faults > 0 /\ faults' = faults - 1
    /\ call' = [call EXCEPT ![p] = next]
    /\ rested' = IF call[p].step = "stamp" /\ Watched = <<p, call[p].pass>> THEN Rest ELSE rested
    /\ UNCHANGED <<item, bin, cited, age>>

RunFails(p)   == call[p].step = "run" /\ Fault(p, NextPass(p))
StampFails(p) == call[p].step = "stamp" /\ Fault(p, NextPass(p))
Crash(p)      == call[p] # Idle /\ Fault(p, Idle)

\* The grace window is one unit of time.  A call lasts MaxLag at most.
Later(n, bound) == IF n < bound THEN n + 1 ELSE n

Tick ==
    /\ \A p \in Proc : call[p] # Idle => call[p].lag < MaxLag
    /\ age' = [q \in Passes |-> Later(age[q], Far(q))]
    /\ rested' = Later(rested, Rest)
    /\ call' = [p \in Proc |-> IF call[p] = Idle THEN Idle ELSE [call[p] EXCEPT !.lag = @ + 1]]
    /\ bin' = IF bin = "grace" THEN "ripe" ELSE bin
    /\ UNCHANGED <<item, cited, faults>>

Advance(p) == Begin(p) \/ Check(p) \/ Run(p) \/ RunRefused(p) \/ Stamp(p)

Next ==
    \/ Write \/ SoftDelete \/ Restore
    \/ \E row \in Recorded : Recall(row)
    \/ \E p \in Proc : Advance(p)
    \/ \E p \in Proc : RunFails(p) \/ StampFails(p) \/ Crash(p)
    \/ Tick

(***************************************************************************)
(* Agents go on recalling, which begins with such a call; a call's steps   *)
(* follow one another; time goes on.                                       *)
(***************************************************************************)
Fairness == WF_vars(Tick) /\ \A p \in Proc : WF_vars(Advance(p))

Spec == Init /\ [][Next]_vars /\ Fairness

(***************************************************************************)
(* Properties.                                                             *)
(***************************************************************************)

\* Every variable keeps its type; ages and lags stay within their bounds.
MaintenanceTypeOK ==
    /\ item \in {"unwritten", "candidate", "settled", "erased"}
    /\ bin \in {"no", "grace", "ripe"}
    /\ cited \subseteq Recorded
    /\ age \in [Passes -> Nat] /\ \A q \in Passes : age[q] <= Far(q)
    /\ call \in [Proc -> [pass : Passes \cup {"idle"}, step : {"idle", "check", "run", "stamp"},
                          lag : 0 .. MaxLag, seen : 0 .. Others + 1]]
    /\ faults \in 0 .. Faults
    /\ rested \in 0 .. Rest

\* "Backstop: any pending candidate eventually": however few there are, each
\* is consolidated, or deleted, at last.
Backstop == Pending ~> ~Pending

\* A memory past its grace window is at last erased, unless it is restored, or
\* a recall has it, or another row that is to be erased, on record.  One that
\* is red-lined stays soft-deleted for good.
EventuallySwept == ~RedLined /\ bin = "ripe" ~> bin # "ripe" \/ cited # {}

\* "Physically purge every item soft-deleted more than grace_ms ago"
\* (memory_store.h) but for the red line: whatever recalls have returned.
EverySwept == ~RedLined /\ bin = "ripe" ~> bin # "ripe"

\* The passes keep a rhythm without a lock: whatever the other processes
\* run and stamp, also when their stamps put the clock back, one process
\* does not repeat a pass sooner than its interval less the duration of a
\* call, provided its own stamp was written.
Gap(pass) == IF pass = "consolidate" THEN MinInterval ELSE Longest(pass)

OwnRhythm ==
    [][Run(Watched[1]) /\ call[Watched[1]].pass = Watched[2] => rested >= Gap(Watched[2]) - MaxLag]_vars
=============================================================================
