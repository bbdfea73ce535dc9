------------------------- MODULE Maintenance_proofs -------------------------
(***************************************************************************)
(* Proofs about Maintenance, for any processes, intervals, thresholds and  *)
(* bounds.                                                                 *)
(*                                                                         *)
(* The rhythm rests on one comparison, RhythmInv.  Whoever stamped last,   *)
(* its stamp says at most MaxLag more than the time since the watched      *)
(* process ran the watched pass; only between that run and its own stamp   *)
(* is the comparison void, and a stamp that is lost there frees the        *)
(* process.  Due reads the stamp, so a process found due has rested        *)
(* nearly its interval, and goes on resting until it runs.                 *)
(***************************************************************************)
EXTENDS Maintenance, TLAPS

Watcher == Watched[1]
Pass    == Watched[2]
At(step) == call[Watcher].pass = Pass /\ call[Watcher].step = step

RhythmInv ==
    /\ ~At("stamp") => age[Pass] <= rested + MaxLag
    /\ At("run") => rested >= Gap(Pass) - MaxLag

MaintenanceInv == MaintenanceTypeOK /\ RhythmInv

Calls == [pass : Passes \cup {"idle"}, step : {"idle", "check", "run", "stamp"},
          lag : 0 .. MaxLag, seen : 0 .. Others + 1]

\* Who and what is watched.
LEMMA WatchedTypes ==
    /\ Watched = <<Watcher, Pass>> /\ Watcher \in Proc /\ Pass \in Passes
    /\ Gap(Pass) \in Nat /\ Rest \in Nat /\ MaxLag \in Nat
    /\ Gap(Pass) <= Rest /\ Far(Pass) = Rest + MaxLag
  BY MaintenanceAssumption DEF Watcher, Pass, Passes, Gap, Rest, Far, Longest

\* Cut-offs are natural numbers.
LEMMA FarTypes == \A q \in Passes : Far(q) \in Nat /\ MaxLag <= Far(q)
  BY MaintenanceAssumption DEF Far, Longest

\* Where a call goes on after a pass.
LEMMA NextPassTypes ==
  ASSUME MaintenanceTypeOK, NEW p \in Proc, call[p] # Idle \/ call[p].step # "idle"
  PROVE  NextPass(p) \in Calls /\ NextPass(p).step \in {"idle", "check"}
<1>1. call[p] \in Calls /\ 0 \in 0 .. MaxLag /\ 0 \in 0 .. Others + 1
  BY MaintenanceAssumption DEF MaintenanceTypeOK, Calls
<1> QED
  BY <1>1 DEF NextPass, Idle, Calls, Passes

\* The initial state satisfies the inductive invariant.
THEOREM InitMaintenance == Init => MaintenanceInv
<1> SUFFICES ASSUME Init PROVE MaintenanceInv
  OBVIOUS
<1>1. MaintenanceTypeOK
  BY FarTypes, WatchedTypes, MaintenanceAssumption DEF Init, MaintenanceTypeOK, Idle
<1>2. RhythmInv
  BY WatchedTypes, MaintenanceAssumption DEF Init, RhythmInv, At, Idle
<1> QED
  BY <1>1, <1>2 DEF MaintenanceInv

\* A step of one call that stamps nothing and is no run keeps the rhythm, if
\* a watched run that begins was due, and a watched stamp that is skipped is
\* made up for by rested = Rest.
LEMMA CallStep ==
  ASSUME MaintenanceInv, NEW p \in Proc, NEW next \in Calls,
         call' = [call EXCEPT ![p] = next], UNCHANGED <<item, bin, cited, age>>,
         faults' \in 0 .. Faults, next.step # "stamp",
         next.step = "run" => next.pass = call[p].pass /\ call[p].step = "check" /\ Due(p),
         rested' = IF call[p].step = "stamp" /\ Watched = <<p, call[p].pass>> THEN Rest ELSE rested
  PROVE  MaintenanceInv'
<1>1. MaintenanceTypeOK'
  BY WatchedTypes, MaintenanceAssumption DEF MaintenanceInv, MaintenanceTypeOK, Calls
<1>2. /\ age[Pass] \in Nat /\ age[Pass] <= Rest + MaxLag /\ rested \in 0 .. Rest
      /\ Watched = <<Watcher, Pass>> /\ MaxLag \in Nat /\ Rest \in Nat
  BY WatchedTypes DEF MaintenanceInv, MaintenanceTypeOK
<1>3. Watcher \in Proc /\ Gap(Pass) \in Nat
  BY WatchedTypes
<1>4. CASE p # Watcher
  <2>1. call'[Watcher] = call[Watcher] /\ rested' = rested
    BY <1>2, <1>3, <1>4 DEF MaintenanceInv, MaintenanceTypeOK
  <2> QED
    BY <1>1, <2>1 DEF MaintenanceInv, RhythmInv, At
<1>5. CASE p = Watcher
  <2>1. call'[Watcher] = next
    BY <1>3, <1>5 DEF MaintenanceInv, MaintenanceTypeOK
  <2>2. age'[Pass] <= rested' + MaxLag
    <3>1. CASE At("stamp")
      <4>1. rested' = Rest
        BY <1>2, <1>5, <3>1 DEF At
      <4> QED
        BY <1>2, <4>1
    <3>2. CASE ~At("stamp")
      <4>1. rested' = rested
        BY <1>2, <1>5, <3>2 DEF At
      <4> QED
        BY <4>1, <3>2 DEF MaintenanceInv, RhythmInv
    <3> QED
      BY <3>1, <3>2
  <2>3. ASSUME At("run")' PROVE rested' >= Gap(Pass) - MaxLag
    <3>1. call[Watcher].pass = Pass /\ call[Watcher].step = "check" /\ Due(Watcher)
      BY <1>5, <2>1, <2>3 DEF At
    <3>2. call[Watcher].lag \in Nat
      BY <1>3 DEF MaintenanceInv, MaintenanceTypeOK
    <3>3. age[Pass] - call[Watcher].lag >= Gap(Pass)
      BY <1>2, <3>1, <3>2, MaintenanceAssumption DEF Due, Since, Gap, Longest, MaintenanceInv, MaintenanceTypeOK
    <3>4. rested' = rested /\ age[Pass] <= rested + MaxLag
      BY <3>1, <1>5 DEF MaintenanceInv, RhythmInv, At
    <3> QED
      BY <1>2, <1>3, <3>2, <3>3, <3>4
  <2> QED
    BY <1>1, <2>2, <2>3 DEF MaintenanceInv, RhythmInv, Gap, Pass
<1> QED
  BY <1>4, <1>5

\* A pass that runs makes the comparison void, and resting begins.
LEMMA RunKeeps ==
  ASSUME MaintenanceInv, NEW p \in Proc, Run(p)
  PROVE  MaintenanceInv'
<1>1. /\ call' = [call EXCEPT ![p].step = "stamp"] /\ UNCHANGED <<cited, age, faults>>
      /\ rested' = IF Watched = <<p, call[p].pass>> THEN 0 ELSE rested
      /\ item' \in {item, "settled", "erased"} /\ bin' \in {"no", bin}
  BY DEF Run
<1>2. MaintenanceTypeOK'
  BY <1>1, WatchedTypes, MaintenanceAssumption DEF MaintenanceInv, MaintenanceTypeOK
<1>3. /\ Watched = <<Watcher, Pass>> /\ Watcher \in Proc
      /\ call[p].step = "run" /\ call'[p].step = "stamp" /\ call'[p].pass = call[p].pass
      /\ p # Watcher => call'[Watcher] = call[Watcher]
  BY <1>1, WatchedTypes, MaintenanceAssumption
     DEF Run, MaintenanceInv, MaintenanceTypeOK, Watcher, Pass
<1>4. CASE Watched = <<p, call[p].pass>>
  BY <1>2, <1>3, <1>4 DEF MaintenanceInv, RhythmInv, At, Watcher, Pass
<1>5. CASE Watched # <<p, call[p].pass>>
  <2>1. ~At("stamp")' => ~At("stamp")
    BY <1>3 DEF At, Pass
  <2>2. At("run")' => At("run")
    BY <1>3 DEF At, Pass
  <2> QED
    BY <1>1, <1>2, <1>5, <2>1, <2>2 DEF MaintenanceInv, RhythmInv, Pass, Gap
<1> QED
  BY <1>4, <1>5

\* Any stamp is at most MaxLag old when it is written.
LEMMA StampKeeps ==
  ASSUME MaintenanceInv, NEW p \in Proc, Stamp(p)
  PROVE  MaintenanceInv'
<1>1. /\ call[p].step = "stamp" /\ age' = [age EXCEPT ![call[p].pass] = call[p].lag]
      /\ call' = [call EXCEPT ![p] = NextPass(p)]
      /\ UNCHANGED <<item, bin, cited, faults, rested>>
  BY DEF Stamp
<1>2. NextPass(p) \in Calls /\ NextPass(p).step \in {"idle", "check"}
  BY <1>1, NextPassTypes DEF MaintenanceInv
<1>3. /\ call[p].lag \in 0 .. MaxLag /\ MaxLag \in Nat /\ Rest \in Nat
      /\ rested \in 0 .. Rest /\ Watcher \in Proc /\ Pass \in Passes
  BY WatchedTypes, MaintenanceAssumption DEF MaintenanceInv, MaintenanceTypeOK
<1>4. MaintenanceTypeOK'
  <2>1. age' \in [Passes -> Nat] /\ \A q \in Passes : age'[q] <= Far(q)
    <3>1. age \in [Passes -> Nat] /\ \A q \in Passes : age[q] <= Far(q)
      BY DEF MaintenanceInv, MaintenanceTypeOK
    <3>2. \A x, n : n \in Nat => [age EXCEPT ![x] = n] \in [Passes -> Nat]
      BY <3>1
    <3>3. call[p].lag \in Nat
      BY <1>3
    <3>4. age' \in [Passes -> Nat]
      BY <1>1, <3>2, <3>3
    <3>5. ASSUME NEW q \in Passes PROVE age'[q] <= Far(q)
      <4>1. age'[q] = call[p].lag \/ age'[q] = age[q]
        BY <1>1, <3>1
      <4>2. Far(q) \in Nat /\ MaxLag <= Far(q)
        BY FarTypes
      <4> QED
        BY <1>3, <3>1, <4>1, <4>2
    <3> QED
      BY <3>4, <3>5
  <2>2. call' \in [Proc -> Calls]
    BY <1>1, <1>2 DEF MaintenanceInv, MaintenanceTypeOK, Calls
  <2> QED
    BY <1>1, <2>1, <2>2 DEF MaintenanceInv, MaintenanceTypeOK, Calls
<1>5. age'[Pass] = IF call[p].pass = Pass THEN call[p].lag ELSE age[Pass]
  BY <1>1, <1>3 DEF MaintenanceInv, MaintenanceTypeOK
<1>6. call'[Watcher] = IF p = Watcher THEN NextPass(p) ELSE call[Watcher]
  BY <1>1, <1>3 DEF MaintenanceInv, MaintenanceTypeOK
<1>7. ASSUME ~At("stamp")' PROVE age'[Pass] <= rested' + MaxLag
  <2>1. CASE call[p].pass = Pass
    BY <1>1, <1>3, <1>5, <2>1
  <2>2. CASE call[p].pass # Pass
    <3>1. ~At("stamp")
      BY <1>6, <1>7, <2>2 DEF At, Pass
    <3> QED
      BY <1>1, <1>5, <2>2, <3>1 DEF MaintenanceInv, RhythmInv
  <2> QED
    BY <2>1, <2>2
<1>8. At("run")' => At("run")
  BY <1>2, <1>6 DEF At, Pass
<1> QED
  BY <1>1, <1>4, <1>7, <1>8 DEF MaintenanceInv, RhythmInv, Pass, Gap

\* Time lets both sides of the comparison grow alike.
LEMMA TickKeeps ==
  ASSUME MaintenanceInv, Tick
  PROVE  MaintenanceInv'
<1>1. /\ age' = [q \in Passes |-> Later(age[q], Far(q))] /\ rested' = Later(rested, Rest)
      /\ call' = [p \in Proc |-> IF call[p] = Idle THEN Idle ELSE [call[p] EXCEPT !.lag = @ + 1]]
      /\ bin' \in {"ripe", bin} /\ UNCHANGED <<item, cited, faults>>
      /\ \A p \in Proc : call[p] # Idle => call[p].lag < MaxLag
  BY DEF Tick
<1>2. /\ MaxLag \in Nat /\ Rest \in Nat /\ Watcher \in Proc /\ Pass \in Passes /\ Gap(Pass) \in Nat
      /\ rested \in 0 .. Rest /\ age \in [Passes -> Nat] /\ \A q \in Passes : age[q] <= Far(q)
  BY WatchedTypes DEF MaintenanceInv, MaintenanceTypeOK
<1>3. \A bound \in Nat : \A n \in 0 .. bound :
         /\ Later(n, bound) \in 0 .. bound /\ n <= Later(n, bound) /\ Later(n, bound) <= n + 1
         /\ n < bound => Later(n, bound) = n + 1
  BY DEF Later
<1>4. call' \in [Proc -> Calls]
  <2>1. ASSUME NEW p \in Proc PROVE call'[p] \in Calls
    <3>1. call[p] \in Calls /\ Idle \in Calls
      BY MaintenanceAssumption DEF MaintenanceInv, MaintenanceTypeOK, Calls, Idle
    <3>2. call[p] # Idle => call[p].lag + 1 \in 0 .. MaxLag
      BY <1>1, <1>2, <3>1 DEF Calls
    <3> QED
      BY <1>1, <3>1, <3>2 DEF Calls
  <2> QED
    BY <1>1, <2>1
<1>5. MaintenanceTypeOK'
  <2>1. ASSUME NEW q \in Passes PROVE age'[q] \in Nat /\ age'[q] <= Far(q)
    <3>1. age[q] \in 0 .. Far(q) /\ Far(q) \in Nat /\ age'[q] = Later(age[q], Far(q))
      BY <1>1, <1>2, FarTypes
    <3> QED
      BY <1>3, <3>1
  <2>2. rested' \in 0 .. Rest
    BY <1>1, <1>2, <1>3
  <2>3. age' \in [Passes -> Nat] /\ \A q \in Passes : age'[q] <= Far(q)
    BY <1>1, <2>1
  <2> QED
    BY <1>1, <1>4, <2>2, <2>3 DEF MaintenanceInv, MaintenanceTypeOK, Calls
<1>6. call'[Watcher].pass = call[Watcher].pass /\ call'[Watcher].step = call[Watcher].step
  BY <1>1, <1>2 DEF MaintenanceInv, MaintenanceTypeOK, Idle
<1>7. ASSUME age[Pass] <= rested + MaxLag PROVE age'[Pass] <= rested' + MaxLag
  <2>1. /\ age'[Pass] = Later(age[Pass], Far(Pass)) /\ age[Pass] \in 0 .. Far(Pass)
        /\ Far(Pass) = Rest + MaxLag /\ Far(Pass) \in Nat
    BY <1>1, <1>2, WatchedTypes
  <2>2. age'[Pass] <= age[Pass] + 1 /\ age'[Pass] <= Far(Pass) /\ age'[Pass] \in Nat
    BY <1>3, <2>1
  <2>3. rested' \in Nat /\ (rested' = rested + 1 \/ rested' >= Rest)
    BY <1>1, <1>2 DEF Later
  <2> QED
    BY <1>2, <1>7, <2>1, <2>2, <2>3
<1>8. rested' >= rested /\ rested' \in 0 .. Rest
  BY <1>1, <1>2, <1>3
<1> QED
  BY <1>2, <1>5, <1>6, <1>7, <1>8 DEF MaintenanceInv, RhythmInv, At, Pass, Gap

\* Every step keeps the types and the comparison.
THEOREM NextMaintenance == MaintenanceInv /\ [Next]_vars => MaintenanceInv'
<1> SUFFICES ASSUME MaintenanceInv, [Next]_vars PROVE MaintenanceInv'
  OBVIOUS
<1> USE DEF MaintenanceInv
<1>1. CASE Write \/ SoftDelete \/ Restore \/ \E row \in Recorded : Recall(row)
  <2>1. UNCHANGED <<age, call, faults, rested>>
    BY <1>1 DEF Write, SoftDelete, Restore, Recall
  <2>2. /\ item' \in {item, "candidate"} /\ bin' \in {bin, "grace", "no"}
        /\ cited' \subseteq cited \cup Recorded
    BY <1>1 DEF Write, SoftDelete, Restore, Recall
  <2>3. MaintenanceTypeOK'
    BY <2>1, <2>2 DEF MaintenanceTypeOK
  <2>4. RhythmInv'
    BY <2>1 DEF RhythmInv, At, Pass, Gap
  <2> QED
    BY <2>3, <2>4
<1>2. ASSUME NEW p \in Proc, Begin(p) PROVE MaintenanceInv'
  <2>1. PICK others \in 0 .. Others :
           call' = [call EXCEPT ![p] = [pass |-> "consolidate", step |-> "check", lag |-> 0,
                      seen |-> IF Matches THEN others + (IF item = "candidate" THEN 1 ELSE 0) ELSE 0]]
    BY <1>2 DEF Begin
  <2> DEFINE next == [pass |-> "consolidate", step |-> "check", lag |-> 0,
                      seen |-> IF Matches THEN others + (IF item = "candidate" THEN 1 ELSE 0) ELSE 0]
  <2>2. next \in Calls /\ next.step = "check"
    BY MaintenanceAssumption DEF Calls, Passes
  <2>3. UNCHANGED <<item, bin, cited, age, faults, rested>> /\ call[p].step # "stamp"
    BY <1>2 DEF Begin, Idle
  <2>4. call' = [call EXCEPT ![p] = next] /\ faults' \in 0 .. Faults
    BY <2>1, <2>3 DEF MaintenanceTypeOK
  <2> HIDE DEF next
  <2> QED
    BY <2>2, <2>3, <2>4, CallStep
<1>3. ASSUME NEW p \in Proc, Check(p) PROVE MaintenanceInv'
  <2> DEFINE next == IF Due(p) THEN [call[p] EXCEPT !.step = "run", !.seen = 0] ELSE NextPass(p)
  <2>1. call[p] \in Calls /\ call[p].step = "check"
    BY <1>3 DEF Check, MaintenanceTypeOK, Calls
  <2>2. NextPass(p) \in Calls /\ NextPass(p).step \in {"idle", "check"}
    BY <2>1, NextPassTypes
  <2>3. /\ next \in Calls /\ next.step # "stamp"
        /\ next.step = "run" => next.pass = call[p].pass /\ call[p].step = "check" /\ Due(p)
    <3>1. CASE Due(p)
      <4>1. next = [call[p] EXCEPT !.step = "run", !.seen = 0]
        BY <3>1
      <4>2. 0 \in 0 .. Others + 1
        BY MaintenanceAssumption
      <4> HIDE DEF next
      <4> QED
        BY <2>1, <3>1, <4>1, <4>2 DEF Calls
    <3>2. CASE ~Due(p)
      BY <2>2, <3>2
    <3> QED
      BY <3>1, <3>2
  <2>4. /\ call' = [call EXCEPT ![p] = next]
        /\ UNCHANGED <<item, bin, cited, age, faults, rested>> /\ faults' \in 0 .. Faults
    BY <1>3 DEF Check, MaintenanceTypeOK
  <2> HIDE DEF next
  <2> QED
    BY <2>1, <2>3, <2>4, CallStep
<1>4. ASSUME NEW p \in Proc, Run(p) PROVE MaintenanceInv'
  BY <1>4, RunKeeps
<1>5. ASSUME NEW p \in Proc, RunRefused(p) PROVE MaintenanceInv'
  <2>1. /\ call' = [call EXCEPT ![p] = NextPass(p)] /\ call[p].step = "run"
        /\ UNCHANGED <<item, bin, cited, age, faults, rested>> /\ faults' \in 0 .. Faults
    BY <1>5 DEF RunRefused, MaintenanceTypeOK
  <2>2. NextPass(p) \in Calls /\ NextPass(p).step \in {"idle", "check"}
    BY <2>1, NextPassTypes
  <2> QED
    BY <2>1, <2>2, CallStep
<1>6. ASSUME NEW p \in Proc, Stamp(p) PROVE MaintenanceInv'
  BY <1>6, StampKeeps
<1>7. ASSUME NEW p \in Proc, RunFails(p) \/ StampFails(p) \/ Crash(p) PROVE MaintenanceInv'
  <2>1. call[p] # Idle \/ call[p].step # "idle"
    BY <1>7 DEF RunFails, StampFails, Crash
  <2>2. PICK next \in {NextPass(p), Idle} : Fault(p, next)
    BY <1>7 DEF RunFails, StampFails, Crash
  <2>3. next \in Calls /\ next.step \in {"idle", "check"}
    BY <2>1, NextPassTypes, MaintenanceAssumption DEF Idle, Calls
  <2>4. /\ call' = [call EXCEPT ![p] = next] /\ UNCHANGED <<item, bin, cited, age>>
        /\ rested' = IF call[p].step = "stamp" /\ Watched = <<p, call[p].pass>> THEN Rest ELSE rested
        /\ faults' \in 0 .. Faults
    BY <2>2, MaintenanceAssumption DEF Fault, MaintenanceTypeOK
  <2> QED
    BY <2>3, <2>4, CallStep
<1>8. CASE Tick
  BY <1>8, TickKeeps
<1>9. CASE UNCHANGED vars
  BY <1>9 DEF vars, MaintenanceTypeOK, RhythmInv, At, Pass, Gap
<1> QED
  BY <1>1, <1>2, <1>3, <1>4, <1>5, <1>6, <1>7, <1>8, <1>9 DEF Next, Advance

\* The inductive invariant holds in every reachable state.
LEMMA MaintenanceInvariant == Spec => []MaintenanceInv
  BY InitMaintenance, NextMaintenance, PTL DEF Spec

\* Every variable keeps its type; ages, lags and counts stay in their bounds.
THEOREM MaintenanceTypes == Spec => []MaintenanceTypeOK
<1>1. MaintenanceInv => MaintenanceTypeOK
  BY DEF MaintenanceInv
<1> QED
  BY <1>1, MaintenanceInvariant, PTL

\* A process keeps the rhythm of a pass without a lock, whatever the other
\* processes run and stamp.
THEOREM RhythmHolds == Spec => OwnRhythm
<1>1. ASSUME MaintenanceInv, Run(Watched[1]) /\ call[Watched[1]].pass = Watched[2]
      PROVE  rested >= Gap(Watched[2]) - MaxLag
  BY <1>1 DEF MaintenanceInv, RhythmInv, At, Watcher, Pass, Run
<1>2. MaintenanceInv /\ [Next]_vars =>
         [Run(Watched[1]) /\ call[Watched[1]].pass = Watched[2] => rested >= Gap(Watched[2]) - MaxLag]_vars
  BY <1>1
<1> QED
  BY <1>2, MaintenanceInvariant, PTL DEF Spec, OwnRhythm
=============================================================================
