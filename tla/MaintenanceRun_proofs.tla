----------------------- MODULE MaintenanceRun_proofs -----------------------
(***************************************************************************)
(* Proofs about MaintenanceRun, for any runs, memories, processes,         *)
(* manifests, batch sizes, limits and bounds.                              *)
(*                                                                         *)
(* The strengthening says why the fence is sound: a run that was never     *)
(* begun has the fresh checkpoint and nobody works for it (Started,        *)
(* Behind), and the attempt a process remembers is never ahead of the one  *)
(* that is stored, so that raising the stored attempt locks all of them    *)
(* out.  What the holder does is then done with the stored checkpoint, and *)
(* the counts and the phase follow.                                        *)
(***************************************************************************)
EXTENDS MaintenanceRun, FiniteSetTheorems, TLAPS

Started == \A r \in Run : run[r].status = "none" => run[r].cp = Fresh

Behind ==
    \A p \in Proc : ctl[p].step # "away" =>
        /\ run[ctl[p].run].status # "none"
        /\ ctl[p].cp.attempt <= run[ctl[p].run].cp.attempt

RunIInv == RunTypeOK /\ Started /\ Behind /\ FenceSound /\ DecayOnce /\ Counted

RunRow == [status : {"none", "running", "checkpointed", "completed"}, cp : Checkpoint]
Lease  == [run : Run \cup {None}, attempt : Nat, expired : BOOLEAN]
Busy   == [step : {"loop", "pausing"}, run : Run, cp : Checkpoint]

\* A run begins with a checkpoint.
LEMMA FreshTypes == Fresh \in Checkpoint
  BY DEF Fresh, Checkpoint, Phase

\* What a process that is at work remembers.
LEMMA BusyTypes ==
  ASSUME RunTypeOK, NEW p \in Proc, ctl[p].step # "away"
  PROVE  ctl[p] \in Busy
  BY DEF RunTypeOK, Away, Busy

\* The holder of the lease knows the stored checkpoint.
LEMMA HolderKnows ==
  ASSUME RunIInv, NEW p \in Proc, Holds(p)
  PROVE  /\ ctl[p] \in Busy /\ ctl[p].run \in Run /\ ctl[p].cp \in Checkpoint
         /\ run[ctl[p].run].cp = ctl[p].cp /\ run[ctl[p].run].status \in {"running", "checkpointed"}
         /\ ctl[p].cp.consolidated <= Limit /\ ctl[p].cp.decayed <= Limit
<1>1. ctl[p] \in Busy /\ ctl[p].run \in Run /\ ctl[p].cp \in Checkpoint
  BY BusyTypes DEF RunIInv, Holds, Busy
<1>2. run[ctl[p].run].cp = ctl[p].cp /\ Begun(ctl[p].run)
  BY DEF RunIInv, FenceSound
<1> QED
  BY <1>1, <1>2 DEF Begun, RunIInv, Counted

\* The memories of a status, and of them those a decay batch may take.
LEMMA Finite ==
  ASSUME NEW status, NEW cp
  PROVE  /\ IsFiniteSet(With(status)) /\ Cardinality(With(status)) \in Nat
         /\ IsFiniteSet(Due(cp)) /\ Cardinality(Due(cp)) \in Nat
<1>1. IsFiniteSet(Item) /\ With(status) \subseteq Item /\ Due(cp) \subseteq Item
  BY RunAssumption DEF With, Due
<1> QED
  BY <1>1, FS_Subset, FS_CardinalityType

\* A batch takes no more than there is room for.
LEMMA CountBounds ==
  ASSUME NEW cp \in Checkpoint, cp.consolidated <= Limit, cp.decayed <= Limit
  PROVE  /\ Count(cp) \in Nat
         /\ cp.phase = "consolidate" => cp.consolidated <= Count(cp) /\ Count(cp) <= Limit
         /\ cp.phase = "decay" => cp.decayed <= Count(cp) /\ Count(cp) <= Limit
<1>1. /\ cp.consolidated \in Nat /\ cp.decayed \in Nat
      /\ Limit \in Nat /\ Batch \in Nat \ {0}
      /\ Cardinality(With("candidate")) \in Nat /\ Cardinality(Due(cp)) \in Nat
  BY RunAssumption, Finite DEF Checkpoint
<1>2. ASSUME NEW k \in Nat, k <= Limit, NEW n \in Nat
      PROVE  /\ k + Least(Room(k), n) \in Nat
             /\ k <= k + Least(Room(k), n) /\ k + Least(Room(k), n) <= Limit
  BY <1>1, <1>2 DEF Least, Room
<1>3. CASE cp.phase = "consolidate"
  BY <1>1, <1>2, <1>3 DEF Count
<1>4. CASE cp.phase = "decay"
  BY <1>1, <1>2, <1>4 DEF Count
<1>5. CASE cp.phase \notin {"consolidate", "decay"}
  BY <1>5 DEF Count
<1> QED
  BY <1>3, <1>4, <1>5

\* What the transaction that ends a batch does to the bookkeeping.
LEMMA CommitStep ==
  ASSUME RunIInv, NEW p \in Proc, ctl[p].step = "loop", NEW cp \in Checkpoint,
         cp.attempt = ctl[p].cp.attempt, PhaseCommit(p, cp)
  PROVE  /\ run' \in [Run -> RunRow] /\ lease' \in Lease /\ journal' \subseteq Run \X Mark \X Nat
         /\ ctl' \in [Proc -> {Away} \cup Busy] /\ moves' \in 0 .. MaxMoves
         /\ Started' /\ Behind' /\ FenceSound'
         /\ run'[ctl[p].run].cp = cp /\ \A r \in Run \ {ctl[p].run} : run'[r] = run[r]
<1> DEFINE r == ctl[p].run
<1>1. /\ r \in Run /\ ctl[p] \in Busy /\ ctl[p].cp \in Checkpoint
      /\ run[r].cp = ctl[p].cp /\ Count(ctl[p].cp) \in Nat
  BY HolderKnows, CountBounds DEF PhaseCommit
<1>2. /\ run \in [Run -> RunRow] /\ ctl \in [Proc -> {Away} \cup Busy] /\ lease \in Lease
      /\ journal \subseteq Run \X Mark \X Nat /\ moves \in 0 .. MaxMoves
  BY DEF RunIInv, RunTypeOK, RunRow, Busy, Lease
<1>3. run' \in [Run -> RunRow] /\ lease' \in Lease /\ moves' \in 0 .. MaxMoves
  BY <1>1, <1>2 DEF PhaseCommit, RunRow
<1>4. /\ run'[r] = [status |-> "running", cp |-> cp]
      /\ \A q \in Run \ {r} : run'[q] = run[q]
  BY <1>1, <1>2 DEF PhaseCommit
<1>5. /\ ctl'[p] = [step |-> "loop", run |-> r, cp |-> cp] /\ \A q \in Proc \ {p} : ctl'[q] = ctl[q]
      /\ ctl' \in [Proc -> {Away} \cup Busy]
  BY <1>1, <1>2 DEF PhaseCommit, Busy
<1>6. journal' \subseteq Run \X Mark \X Nat
  <2>1. ctl[p].cp.phase \in Mark
    BY <1>1 DEF Checkpoint, Mark
  <2>2. Claim(p) \in Run \X Mark \X Nat
    BY <1>1, <2>1 DEF Claim
  <2> QED
    BY <1>2, <2>2 DEF PhaseCommit
<1>7. Started'
  BY <1>4 DEF Started, RunIInv
<1>8. run'[r].cp.attempt = run[r].cp.attempt
  BY <1>1, <1>4
<1>9. ASSUME NEW q \in Proc, ctl[q].step # "away"
      PROVE  /\ ctl[q].run \in Run /\ run'[ctl[q].run].cp.attempt = run[ctl[q].run].cp.attempt
             /\ ctl'[q].run = ctl[q].run /\ ctl'[q].step = ctl[q].step
             /\ ctl'[q].cp.attempt = ctl[q].cp.attempt
  <2>1. ctl[q].run \in Run
    BY <1>9, BusyTypes DEF RunIInv, Busy
  <2> QED
    BY <1>4, <1>5, <1>8, <2>1
<1>10. ASSUME NEW q \in Proc PROVE ctl'[q].step # "away" <=> ctl[q].step # "away"
  BY <1>5
<1>11. Behind'
  <2> SUFFICES ASSUME NEW q \in Proc, ctl'[q].step # "away"
               PROVE  /\ run'[ctl'[q].run].status # "none"
                      /\ ctl'[q].cp.attempt <= run'[ctl'[q].run].cp.attempt
    BY DEF Behind
  <2>1. /\ run[ctl[q].run].status # "none"
        /\ ctl[q].cp.attempt <= run[ctl[q].run].cp.attempt
    BY <1>10 DEF RunIInv, Behind
  <2>2. run'[ctl[q].run].status # "none"
    BY <1>4, <1>9, <1>10, <2>1
  <2> QED
    BY <1>9, <1>10, <2>1, <2>2
<1>12. \A q \in Proc : Holds(q)' <=> Holds(q)
  BY <1>9, <1>10 DEF Holds, PhaseCommit
<1>13. \A q \in Proc : Holds(q) => q = p
  BY DEF RunIInv, FenceSound, PhaseCommit
<1>14. FenceSound'
  BY <1>4, <1>5, <1>12, <1>13 DEF FenceSound, Begun
<1> QED
  BY <1>3, <1>4, <1>5, <1>6, <1>7, <1>11, <1>14

\* A step that decays nothing.
LEMMA NoDecay ==
  ASSUME RunIInv, UNCHANGED touched,
         \A r \in Run :
            /\ run'[r].cp.last = run[r].cp.last /\ run'[r].cp.decayed = run[r].cp.decayed
            /\ run'[r].cp.consolidated <= Limit
            /\ r \in written'.edge <=> Rank[run'[r].cp.phase] > 3
            /\ r \in written'.concept <=> Rank[run'[r].cp.phase] > 4
  PROVE  DecayOnce' /\ Counted'
<1>1. DecayOnce'
  BY DEF RunIInv, DecayOnce
<1>2. Counted'
  BY DEF RunIInv, Counted, Decayed
<1> QED
  BY <1>1, <1>2

\* The initial state satisfies the inductive invariant.
THEOREM InitRun == Init => RunIInv
<1> SUFFICES ASSUME Init PROVE RunIInv
  OBVIOUS
<1>1. RunTypeOK
  <2>1. moves \in 0 .. MaxMoves /\ item \in [Item -> Row]
    BY RunAssumption DEF Init
  <2>2. run \in [Run -> RunRow]
    BY FreshTypes DEF Init, RunRow
  <2>3. ctl \in [Proc -> {Away} \cup Busy]
    BY DEF Init
  <2> QED
    BY <2>1, <2>2, <2>3 DEF Init, RunTypeOK, RunRow, Busy
<1>2. Started /\ Behind /\ FenceSound
  BY DEF Init, Started, Behind, FenceSound, Holds, Away
<1>3. DecayOnce
  BY DEF Init, DecayOnce
<1>4. Counted
  <2>1. ASSUME NEW r \in Run PROVE Decayed(r) = {}
    BY DEF Init, Decayed
  <2>2. \A r \in Run : run[r].cp = Fresh
    BY DEF Init
  <2>3. /\ Fresh.decayed = 0 /\ Fresh.consolidated = 0 /\ Fresh.phase = "consolidate"
        /\ Rank["consolidate"] = 1 /\ Limit \in Nat
    BY RunAssumption DEF Fresh, Rank
  <2>4. \A r \in Run : r \notin written.edge /\ r \notin written.concept
    BY DEF Init
  <2>5. ASSUME NEW r \in Run
        PROVE  run[r].cp.decayed = Cardinality(Decayed(r))
    <3>1. Cardinality(Decayed(r)) = 0
      BY <2>1, FS_EmptySet
    <3> QED
      BY <2>2, <2>3, <3>1
  <2>6. ASSUME NEW r \in Run
        PROVE  /\ run[r].cp.decayed <= Limit /\ run[r].cp.consolidated <= Limit
               /\ ~(Rank[run[r].cp.phase] > 3) /\ ~(Rank[run[r].cp.phase] > 4)
    BY <2>2, <2>3
  <2> QED
    BY <2>4, <2>5, <2>6 DEF Counted
<1> QED
  BY <1>1, <1>2, <1>3, <1>4 DEF RunIInv

\* The attempt that is stored goes up and locks all others out.
LEMMA AcquireStep ==
  ASSUME RunIInv, NEW p \in Proc, NEW r \in Run, NEW cp \in Checkpoint, NEW key \in Run \X Mark \X Nat,
         Acquire(p, r, cp, key),
         \/ run[r].status = "none" /\ cp = Fresh
         \/ Begun(r) /\ cp = [run[r].cp EXCEPT !.attempt = @ + 1]
  PROVE  RunIInv'
<1>1. /\ run \in [Run -> RunRow] /\ ctl \in [Proc -> {Away} \cup Busy] /\ run[r].cp \in Checkpoint
      /\ RunTypeOK /\ Started /\ Behind
  BY DEF RunIInv, RunTypeOK, RunRow, Busy
<1>2. /\ run'[r] = [status |-> "running", cp |-> cp] /\ \A q \in Run \ {r} : run'[q] = run[q]
      /\ ctl'[p] = [step |-> "loop", run |-> r, cp |-> cp] /\ \A q \in Proc \ {p} : ctl'[q] = ctl[q]
      /\ lease' = [run |-> r, attempt |-> cp.attempt, expired |-> FALSE]
      /\ UNCHANGED <<item, edge, concept, known, written, touched, moves>>
  BY <1>1 DEF Acquire, world
<1>3. RunTypeOK'
  <2>1. run' \in [Run -> RunRow]
    BY <1>1 DEF Acquire, RunRow
  <2>2. ctl' \in [Proc -> {Away} \cup Busy]
    BY <1>1 DEF Acquire, Busy
  <2>3. lease' \in Lease /\ cp.attempt \in Nat
    BY <1>2 DEF Lease, Checkpoint
  <2>4. journal' \subseteq Run \X Mark \X Nat
    BY <1>1 DEF Acquire, RunTypeOK
  <2> QED
    BY <1>1, <1>2, <2>1, <2>2, <2>3, <2>4 DEF RunTypeOK, RunRow, Busy, Lease
<1>4. Started'
  BY <1>1, <1>2 DEF Started
<1>5. ASSUME NEW q \in Proc \ {p}, ctl[q].step # "away", ctl[q].run = r
      PROVE  ctl[q].cp.attempt < cp.attempt
  <2>1. run[r].status # "none" /\ ctl[q].cp.attempt <= run[r].cp.attempt
    BY <1>1, <1>5 DEF Behind
  <2>2. cp.attempt = run[r].cp.attempt + 1
    BY <1>1, <2>1 DEF Checkpoint
  <2>3. ctl[q].cp.attempt \in Nat /\ run[r].cp.attempt \in Nat
    BY <1>1, <1>5, BusyTypes DEF Busy, Checkpoint
  <2> QED
    BY <2>1, <2>2, <2>3
<1>6. Behind'
  <2> SUFFICES ASSUME NEW q \in Proc, ctl'[q].step # "away"
               PROVE  /\ run'[ctl'[q].run].status # "none"
                      /\ ctl'[q].cp.attempt <= run'[ctl'[q].run].cp.attempt
    BY DEF Behind
  <2>1. CASE q = p
    BY <1>2, <2>1 DEF Checkpoint
  <2>2. CASE q # p /\ ctl[q].run = r
    <3>1. ctl[q].cp.attempt < cp.attempt /\ ctl[q].cp.attempt \in Nat /\ cp.attempt \in Nat
      BY <1>1, <1>2, <1>5, <2>2, BusyTypes DEF Busy, Checkpoint
    <3> QED
      BY <1>2, <2>2, <3>1
  <2>3. CASE q # p /\ ctl[q].run # r
    <3>1. ctl'[q] = ctl[q] /\ ctl[q].run \in Run
      BY <1>1, <1>2, <2>3, BusyTypes DEF Busy
    <3> QED
      BY <1>1, <1>2, <2>3, <3>1 DEF Behind
  <2> QED
    BY <2>1, <2>2, <2>3
<1>7. FenceSound'
  <2>1. ASSUME NEW q \in Proc, Holds(q)' PROVE q = p
    <3> SUFFICES ASSUME q # p PROVE FALSE
      OBVIOUS
    <3>1. ctl[q].step # "away" /\ ctl[q].run = r /\ ctl[q].cp.attempt = cp.attempt
      BY <1>2, <2>1 DEF Holds
    <3>2. ctl[q].cp.attempt \in Nat /\ cp.attempt \in Nat
      BY <1>1, <3>1, BusyTypes DEF Busy, Checkpoint
    <3> QED
      BY <1>5, <3>1, <3>2
  <2>2. ctl'[p].cp = run'[ctl'[p].run].cp /\ run'[ctl'[p].run].status = "running"
    BY <1>2
  <2> QED
    BY <2>1, <2>2 DEF FenceSound, Begun
<1>8. DecayOnce' /\ Counted'
  <2>1. /\ cp.last = run[r].cp.last /\ cp.decayed = run[r].cp.decayed
        /\ cp.consolidated = run[r].cp.consolidated /\ cp.phase = run[r].cp.phase
    BY <1>1 DEF Started, Checkpoint
  <2>2. ASSUME NEW q \in Run
        PROVE  /\ run'[q].cp.last = run[q].cp.last /\ run'[q].cp.decayed = run[q].cp.decayed
               /\ run'[q].cp.consolidated = run[q].cp.consolidated
               /\ run'[q].cp.phase = run[q].cp.phase
    BY <1>2, <2>1
  <2>3. \A q \in Run :
           /\ run[q].cp.consolidated <= Limit
           /\ q \in written.edge <=> Rank[run[q].cp.phase] > 3
           /\ q \in written.concept <=> Rank[run[q].cp.phase] > 4
    BY DEF RunIInv, Counted
  <2>4. UNCHANGED <<touched, written>>
    BY <1>2
  <2> QED
    BY <2>2, <2>3, <2>4, NoDecay
<1> QED
  BY <1>3, <1>4, <1>6, <1>7, <1>8 DEF RunIInv

\* The phases are numbered in their order.
LEMMA Ranks ==
  /\ Rank["consolidate"] = 1 /\ Rank["decay"] = 2 /\ Rank["edge"] = 3
  /\ Rank["concept"] = 4 /\ Rank["finalize"] = 5 /\ Rank["completed"] = 6
  BY DEF Rank

\* What is stored of a run is true of it as long as the run is left alone.
LEMMA StoredTrue ==
  ASSUME RunIInv, NEW r \in Run
  PROVE  /\ run[r].cp.consolidated <= Limit
         /\ r \in written.edge <=> Rank[run[r].cp.phase] > 3
         /\ r \in written.concept <=> Rank[run[r].cp.phase] > 4
  BY DEF RunIInv, Counted

\* A batch of the consolidate phase keeps the invariant.
LEMMA ConsolidateStep ==
  ASSUME RunIInv, NEW p \in Proc, Consolidate(p)
  PROVE  RunIInv'
<1> DEFINE r  == ctl[p].run
           cp == ctl[p].cp
           n  == Count(cp)
           full == n - cp.consolidated = Room(cp.consolidated) /\ n < Limit
           next == [cp EXCEPT !.consolidated = n, !.phase = IF full THEN @ ELSE "decay"]
<1>1. /\ cp \in Checkpoint /\ r \in Run /\ run[r].cp = cp /\ cp.phase = "consolidate"
      /\ ctl[p].step = "loop" /\ cp.consolidated <= Limit /\ cp.decayed <= Limit
  BY HolderKnows DEF Consolidate, PhaseCommit, In
<1>2. n \in Nat /\ n <= Limit
  BY <1>1, CountBounds
<1>3. /\ next \in Checkpoint /\ next.attempt = cp.attempt /\ next.last = cp.last
      /\ next.decayed = cp.decayed /\ next.consolidated = n /\ next.phase \in {"consolidate", "decay"}
  BY <1>1, <1>2 DEF Checkpoint, Phase
<1>4. PhaseCommit(p, next) /\ UNCHANGED <<edge, concept, known, written, touched>>
  BY DEF Consolidate
<1>5. item' \in [Item -> Row]
  <2>1. item \in [Item -> Row]
    BY DEF RunIInv, RunTypeOK
  <2>2. PICK S \in SUBSET With("candidate") : \E merged \in SUBSET S :
           item' = [i \in Item |->
                  IF i \in S THEN [item[i] EXCEPT !.status = IF i \in merged THEN "out" ELSE "active"]
                  ELSE item[i]]
    BY DEF Consolidate
  <2>3. PICK merged \in SUBSET S :
           item' = [i \in Item |->
                  IF i \in S THEN [item[i] EXCEPT !.status = IF i \in merged THEN "out" ELSE "active"]
                  ELSE item[i]]
    BY <2>2
  <2> QED
    BY <2>1, <2>3 DEF Row, Statuses
<1> HIDE DEF next, n, full
<1>6. /\ run' \in [Run -> RunRow] /\ lease' \in Lease /\ journal' \subseteq Run \X Mark \X Nat
      /\ ctl' \in [Proc -> {Away} \cup Busy] /\ moves' \in 0 .. MaxMoves
      /\ Started' /\ Behind' /\ FenceSound'
      /\ run'[r].cp = next /\ \A q \in Run \ {r} : run'[q] = run[q]
  BY <1>1, <1>3, <1>4, CommitStep
<1>7. RunTypeOK'
  BY <1>4, <1>5, <1>6 DEF RunIInv, RunTypeOK, RunRow, Lease, Busy
<1>8. ASSUME NEW q \in Run
      PROVE  /\ run'[q].cp.last = run[q].cp.last /\ run'[q].cp.decayed = run[q].cp.decayed
             /\ run'[q].cp.consolidated <= Limit
             /\ q \in written'.edge <=> Rank[run'[q].cp.phase] > 3
             /\ q \in written'.concept <=> Rank[run'[q].cp.phase] > 4
  <2>1. CASE q = r
    BY <1>1, <1>2, <1>3, <1>4, <1>6, <2>1, Ranks, StoredTrue
  <2>2. CASE q # r
    BY <1>4, <1>6, <2>2, StoredTrue
  <2> QED
    BY <2>1, <2>2
<1> QED
  BY <1>4, <1>6, <1>7, <1>8, NoDecay DEF RunIInv

\* A batch of decays takes memories behind the last one that was decayed.
LEMMA DecayStep ==
  ASSUME RunIInv, NEW p \in Proc, Decay(p)
  PROVE  RunIInv'
<1> DEFINE r  == ctl[p].run
           cp == ctl[p].cp
           n  == Count(cp)
           full == n - cp.decayed = Room(cp.decayed) /\ n < Limit
           next(last) == [cp EXCEPT !.decayed = n, !.last = last, !.phase = IF full THEN @ ELSE "edge"]
<1>1. /\ ctl[p].step = "loop" /\ cp.phase = "decay" /\ Holds(p)
      /\ UNCHANGED <<edge, concept, known, written>>
  BY DEF Decay, In, PhaseCommit
<1>a. PICK S \in SUBSET Due(cp) : \E last \in S \cup {cp.last} :
        /\ Cardinality(S) = n - cp.decayed
        /\ \A i \in S : i <= last /\ \A j \in Due(cp) \ S : i < j
        /\ item' = [i \in Item |-> IF i \in S THEN Faded(item[i]) ELSE item[i]]
        /\ touched' = [touched EXCEPT ![r] = [i \in Item |-> IF i \in S THEN @[i] + 1 ELSE @[i]]]
        /\ PhaseCommit(p, next(last))
  BY DEF Decay
<1>2. PICK last \in S \cup {cp.last} :
        /\ Cardinality(S) = n - cp.decayed
        /\ \A i \in S : i <= last /\ \A j \in Due(cp) \ S : i < j
        /\ item' = [i \in Item |-> IF i \in S THEN Faded(item[i]) ELSE item[i]]
        /\ touched' = [touched EXCEPT ![r] = [i \in Item |-> IF i \in S THEN @[i] + 1 ELSE @[i]]]
        /\ PhaseCommit(p, next(last))
  BY <1>a
<1>3. /\ cp \in Checkpoint /\ r \in Run /\ run[r].cp = cp
      /\ cp.consolidated <= Limit /\ cp.decayed <= Limit
  BY <1>1, HolderKnows
<1>4. n \in Nat /\ cp.decayed <= n /\ n <= Limit /\ cp.decayed \in Nat /\ cp.last \in Nat
  BY <1>1, <1>3, CountBounds DEF Checkpoint
<1>5. /\ S \subseteq Item /\ \A i \in S : i \in Nat /\ cp.last < i
      /\ last \in Nat /\ cp.last <= last
  <2>1. S \subseteq Item /\ \A i \in S : i > cp.last
    BY <1>2 DEF Due, With
  <2>2. \A i \in S : i \in Nat /\ cp.last < i
    BY <1>4, <2>1, RunAssumption
  <2> QED
    BY <1>4, <2>1, <2>2
<1>6. /\ next(last) \in Checkpoint /\ next(last).attempt = cp.attempt /\ next(last).last = last
      /\ next(last).decayed = n /\ next(last).consolidated = cp.consolidated
      /\ next(last).phase \in {"decay", "edge"}
  BY <1>1, <1>3, <1>4, <1>5 DEF Checkpoint, Phase
<1>7. /\ touched \in [Run -> [Item -> Nat]] /\ item \in [Item -> Row]
      /\ \A i \in Item : touched[r][i] > 0 => touched[r][i] = 1 /\ i <= cp.last
      /\ cp.decayed = Cardinality(Decayed(r))
  BY <1>3 DEF RunIInv, RunTypeOK, DecayOnce, Counted
<1> HIDE DEF next, n, full
<1>8. /\ run' \in [Run -> RunRow] /\ lease' \in Lease /\ journal' \subseteq Run \X Mark \X Nat
      /\ ctl' \in [Proc -> {Away} \cup Busy] /\ moves' \in 0 .. MaxMoves
      /\ Started' /\ Behind' /\ FenceSound'
      /\ run'[r].cp = next(last) /\ \A q \in Run \ {r} : run'[q] = run[q]
  BY <1>1, <1>2, <1>3, <1>6, CommitStep
<1>9. /\ touched' \in [Run -> [Item -> Nat]]
      /\ \A q \in Run \ {r} : touched'[q] = touched[q]
      /\ \A i \in Item : touched'[r][i] = IF i \in S THEN touched[r][i] + 1 ELSE touched[r][i]
  BY <1>2, <1>3, <1>7
<1>10. ASSUME NEW i \in S PROVE touched[r][i] = 0
  <2>1. i \in Item /\ i \in Nat /\ cp.last < i /\ touched[r][i] \in Nat
    BY <1>3, <1>5, <1>7
  <2>2. ~(touched[r][i] > 0)
    BY <1>4, <1>7, <2>1
  <2> QED
    BY <2>1, <2>2
<1>11. item' \in [Item -> Row]
  <2>1. \A i \in Item : Faded(item[i]) \in Row
    BY <1>7, RunAssumption DEF Faded, Least, Row, Statuses
  <2> QED
    BY <1>2, <1>7, <2>1
<1>12. RunTypeOK'
  BY <1>1, <1>8, <1>9, <1>11 DEF RunIInv, RunTypeOK, RunRow, Lease, Busy
<1>13. DecayOnce'
  <2> SUFFICES ASSUME NEW q \in Run, NEW i \in Item, touched'[q][i] > 0
               PROVE  touched'[q][i] = 1 /\ i <= run'[q].cp.last
    BY DEF DecayOnce
  <2>1. CASE q # r
    BY <1>8, <1>9, <2>1 DEF RunIInv, DecayOnce
  <2>2. CASE q = r /\ i \in S
    BY <1>2, <1>6, <1>8, <1>9, <1>10, <2>2
  <2>3. CASE q = r /\ i \notin S
    <3>1. touched'[q][i] = 1 /\ i <= cp.last
      BY <1>7, <1>9, <2>3
    <3>2. i \in Nat
      BY RunAssumption
    <3> QED
      BY <1>4, <1>5, <1>6, <1>8, <2>3, <3>1, <3>2
  <2> QED
    BY <2>1, <2>2, <2>3
<1>14. ASSUME NEW q \in Run, q = r PROVE n = Cardinality(Decayed(q)')
  <2> DEFINE T == Decayed(r)
  <2>1. Decayed(q)' = T \cup S
    <3>1. ASSUME NEW i \in Item PROVE touched'[r][i] > 0 <=> touched[r][i] > 0 \/ i \in S
      BY <1>3, <1>7, <1>9, <1>10
    <3> QED
      BY <1>5, <1>14, <3>1 DEF Decayed
  <2>2. T \cap S = {} /\ T \subseteq Item
    BY <1>10 DEF Decayed
  <2>3. IsFiniteSet(T) /\ IsFiniteSet(S) /\ Cardinality(T) \in Nat
    BY <1>5, <2>2, FS_Subset, FS_CardinalityType, RunAssumption
  <2>4. Cardinality(T \cup S) = Cardinality(T) + Cardinality(S)
    <3>1. Cardinality(T \cup S) = Cardinality(T) + Cardinality(S) - Cardinality(T \cap S)
      BY <2>3, FS_Union
    <3>2. Cardinality(T \cap S) = 0 /\ Cardinality(S) \in Nat
      BY <2>2, <2>3, FS_EmptySet, FS_CardinalityType
    <3> QED
      BY <2>3, <3>1, <3>2
  <2>5. Cardinality(T) = cp.decayed
    BY <1>7
  <2> HIDE DEF T
  <2> QED
    BY <1>2, <1>4, <2>1, <2>4, <2>5
<1>15. Counted'
  <2> SUFFICES ASSUME NEW q \in Run
               PROVE  /\ run'[q].cp.decayed = Cardinality(Decayed(q)')
                      /\ run'[q].cp.decayed <= Limit /\ run'[q].cp.consolidated <= Limit
                      /\ q \in written'.edge <=> Rank[run'[q].cp.phase] > 3
                      /\ q \in written'.concept <=> Rank[run'[q].cp.phase] > 4
    BY DEF Counted
  <2>1. CASE q = r
    <3>1. run'[q].cp.decayed = Cardinality(Decayed(q)')
      BY <1>6, <1>8, <1>14, <2>1
    <3>2. /\ q \in written'.edge <=> Rank[run'[q].cp.phase] > 3
          /\ q \in written'.concept <=> Rank[run'[q].cp.phase] > 4
      BY <1>1, <1>3, <1>6, <1>8, <2>1, Ranks, StoredTrue
    <3> QED
      BY <1>3, <1>4, <1>6, <1>8, <2>1, <3>1, <3>2
  <2>2. CASE q # r
    BY <1>1, <1>8, <1>9, <2>2 DEF RunIInv, Counted, Decayed
  <2> QED
    BY <2>1, <2>2
<1> QED
  BY <1>8, <1>12, <1>13, <1>15 DEF RunIInv

\* The edge and the concept pass keep the invariant.
LEMMA PassStep ==
  ASSUME RunIInv, NEW p \in Proc, EdgePhase(p) \/ ConceptPhase(p)
  PROVE  RunIInv'
<1> DEFINE r  == ctl[p].run
           cp == ctl[p].cp
           next == [cp EXCEPT !.phase = IF cp.phase = "edge" THEN "concept" ELSE "finalize"]
<1>1. /\ ctl[p].step = "loop" /\ Holds(p) /\ cp.phase \in {"edge", "concept"}
      /\ PhaseCommit(p, next) /\ UNCHANGED <<item, edge, concept, touched>>
      /\ written' = IF cp.phase = "edge" THEN [written EXCEPT !.edge = @ \cup {r}]
                    ELSE [written EXCEPT !.concept = @ \cup {r}]
  BY DEF EdgePhase, ConceptPhase, In, PhaseCommit, world
<1>2. /\ cp \in Checkpoint /\ r \in Run /\ run[r].cp = cp
      /\ cp.consolidated <= Limit /\ cp.decayed <= Limit
  BY <1>1, HolderKnows
<1>3. /\ next \in Checkpoint /\ next.attempt = cp.attempt /\ next.last = cp.last
      /\ next.decayed = cp.decayed /\ next.consolidated = cp.consolidated
      /\ next.phase = IF cp.phase = "edge" THEN "concept" ELSE "finalize"
  BY <1>1, <1>2 DEF Checkpoint, Phase
<1>4. known' \subseteq Concept
  BY DEF RunIInv, RunTypeOK, EdgePhase, ConceptPhase, world
<1> HIDE DEF next
<1>5. /\ run' \in [Run -> RunRow] /\ lease' \in Lease /\ journal' \subseteq Run \X Mark \X Nat
      /\ ctl' \in [Proc -> {Away} \cup Busy] /\ moves' \in 0 .. MaxMoves
      /\ Started' /\ Behind' /\ FenceSound'
      /\ run'[r].cp = next /\ \A q \in Run \ {r} : run'[q] = run[q]
  BY <1>1, <1>3, CommitStep
<1>6. /\ written \in [edge : SUBSET Run, concept : SUBSET Run]
      /\ written' \in [edge : SUBSET Run, concept : SUBSET Run]
      /\ written'.edge = IF cp.phase = "edge" THEN written.edge \cup {r} ELSE written.edge
      /\ written'.concept = IF cp.phase = "edge" THEN written.concept ELSE written.concept \cup {r}
  BY <1>1, <1>2 DEF RunIInv, RunTypeOK
<1>7. RunTypeOK'
  BY <1>1, <1>4, <1>5, <1>6 DEF RunIInv, RunTypeOK, RunRow, Lease, Busy
<1>8. ASSUME NEW q \in Run
      PROVE  /\ run'[q].cp.last = run[q].cp.last /\ run'[q].cp.decayed = run[q].cp.decayed
             /\ run'[q].cp.consolidated <= Limit
             /\ q \in written'.edge <=> Rank[run'[q].cp.phase] > 3
             /\ q \in written'.concept <=> Rank[run'[q].cp.phase] > 4
  <2>1. CASE q = r
    BY <1>1, <1>2, <1>3, <1>5, <1>6, <2>1, Ranks, StoredTrue
  <2>2. CASE q # r
    BY <1>5, <1>6, <2>2, StoredTrue
  <2> QED
    BY <2>1, <2>2
<1> QED
  BY <1>1, <1>5, <1>7, <1>8, NoDecay DEF RunIInv

\* The transactions that give the lease back, with the run as they leave it.
LEMMA GiveBack ==
  ASSUME RunIInv, NEW p \in Proc, Holds(p), NEW status \in {"checkpointed", "completed"},
         NEW cp \in Checkpoint, cp.phase = ctl[p].cp.phase \/ (ctl[p].cp.phase = "finalize" /\ cp.phase = "completed"),
         cp.last = ctl[p].cp.last, cp.attempt = ctl[p].cp.attempt,
         cp.consolidated = ctl[p].cp.consolidated, cp.decayed = ctl[p].cp.decayed,
         run' = [run EXCEPT ![ctl[p].run] = [status |-> status, cp |-> cp]],
         lease' = [lease EXCEPT !.expired = TRUE], ctl' = [ctl EXCEPT ![p] = Away],
         journal' \subseteq Run \X Mark \X Nat,
         UNCHANGED <<world, written, touched, moves>>
  PROVE  RunIInv'
<1> DEFINE r == ctl[p].run
<1>1. /\ r \in Run /\ ctl[p] \in Busy /\ run[r].cp = ctl[p].cp /\ run[r].status # "none"
      /\ ctl[p].cp.consolidated <= Limit
  BY HolderKnows
<1>2. /\ run \in [Run -> RunRow] /\ ctl \in [Proc -> {Away} \cup Busy] /\ lease \in Lease
      /\ UNCHANGED <<item, edge, concept, known, written, touched, moves>>
  BY DEF RunIInv, RunTypeOK, RunRow, Busy, Lease, world
<1>3. /\ run' \in [Run -> RunRow] /\ run'[r] = [status |-> status, cp |-> cp]
      /\ \A q \in Run \ {r} : run'[q] = run[q]
  BY <1>1, <1>2 DEF RunRow
<1>4. /\ lease' \in Lease /\ lease'.run = lease.run /\ lease'.attempt = lease.attempt
  BY <1>2 DEF Lease
<1>5. /\ ctl' \in [Proc -> {Away} \cup Busy] /\ ctl'[p] = Away
      /\ \A q \in Proc \ {p} : ctl'[q] = ctl[q]
  BY <1>2
<1>6. RunTypeOK'
  BY <1>2, <1>3, <1>4, <1>5 DEF RunIInv, RunTypeOK, RunRow, Lease, Busy
<1>7. Started'
  BY <1>3 DEF Started, RunIInv
<1>8. run'[r].cp.attempt = run[r].cp.attempt /\ run'[r].status # "none"
  BY <1>1, <1>3
<1>9. ASSUME NEW q \in Proc, ctl'[q].step # "away"
      PROVE  /\ q # p /\ ctl'[q] = ctl[q] /\ ctl[q].step # "away" /\ ctl[q].run \in Run
             /\ run'[ctl[q].run].cp.attempt = run[ctl[q].run].cp.attempt
             /\ run[ctl[q].run].status # "none" => run'[ctl[q].run].status # "none"
  <2>1. q # p /\ ctl'[q] = ctl[q] /\ ctl[q].step # "away"
    BY <1>5, <1>9 DEF Away
  <2>2. ctl[q].run \in Run
    BY <2>1, BusyTypes DEF RunIInv, Busy
  <2> QED
    BY <1>3, <1>8, <2>1, <2>2
<1>10. Behind'
  BY <1>9 DEF RunIInv, Behind
<1>11. ASSUME NEW q \in Proc PROVE ~Holds(q)'
  <2> SUFFICES ASSUME Holds(q)' PROVE FALSE
    OBVIOUS
  <2>1. ctl'[q].step # "away"
    BY DEF Holds
  <2>2. Holds(q) /\ q # p
    BY <1>4, <1>9, <2>1 DEF Holds
  <2> QED
    BY <2>2 DEF RunIInv, FenceSound
<1>12. FenceSound'
  BY <1>11 DEF FenceSound
<1>13. ASSUME NEW q \in Run
       PROVE  /\ run'[q].cp.last = run[q].cp.last /\ run'[q].cp.decayed = run[q].cp.decayed
              /\ run'[q].cp.consolidated <= Limit
              /\ q \in written'.edge <=> Rank[run'[q].cp.phase] > 3
              /\ q \in written'.concept <=> Rank[run'[q].cp.phase] > 4
  <2>1. CASE q = r
    BY <1>1, <1>2, <1>3, <2>1, Ranks, StoredTrue
  <2>2. CASE q # r
    BY <1>2, <1>3, <2>2, StoredTrue
  <2> QED
    BY <2>1, <2>2
<1> QED
  BY <1>2, <1>6, <1>7, <1>10, <1>12, <1>13, NoDecay DEF RunIInv

\* Steps that change nothing but what one process is doing, or the lease's
\* time, or what others may write.
LEMMA LetGo ==
  ASSUME RunIInv, UNCHANGED <<known, run, journal, written, touched>>,
         item' \in [Item -> Row], edge' \in Decision, concept' \subseteq Concept,
         moves' \in 0 .. MaxMoves,
         lease' = lease \/ lease' = [lease EXCEPT !.expired = TRUE],
         ctl' \in [Proc -> {Away} \cup Busy],
         \A p \in Proc : ctl'[p] = ctl[p] \/ ctl'[p] = Away
            \/ (ctl[p].step = "loop" /\ ctl'[p] = [ctl[p] EXCEPT !.step = "pausing"])
  PROVE  RunIInv'
<1>1. lease \in Lease
  BY DEF RunIInv, RunTypeOK, Lease
<1>2. lease' \in Lease /\ lease'.run = lease.run /\ lease'.attempt = lease.attempt
  BY <1>1 DEF Lease
<1>3. RunTypeOK'
  BY <1>2 DEF RunIInv, RunTypeOK, Lease, Busy
<1>4. ASSUME NEW p \in Proc, ctl'[p].step # "away"
      PROVE  ctl[p].step # "away" /\ ctl'[p].run = ctl[p].run /\ ctl'[p].cp = ctl[p].cp
  <2>1. CASE ctl'[p] = ctl[p]
    BY <1>4, <2>1
  <2>2. CASE ctl[p].step = "loop" /\ ctl'[p] = [ctl[p] EXCEPT !.step = "pausing"]
    <3>1. ctl[p] \in Busy
      BY <2>2, BusyTypes DEF RunIInv
    <3> QED
      BY <2>2, <3>1 DEF Busy
  <2>3. ctl'[p] # Away
    BY <1>4 DEF Away
  <2> QED
    BY <2>1, <2>2, <2>3
<1>5. Started' /\ Behind'
  BY <1>4 DEF RunIInv, Started, Behind
<1>6. ASSUME NEW p \in Proc, Holds(p)' PROVE Holds(p) /\ ctl'[p].run = ctl[p].run /\ ctl'[p].cp = ctl[p].cp
  <2>1. ctl'[p].step # "away"
    BY <1>6 DEF Holds
  <2> QED
    BY <1>2, <1>4, <1>6, <2>1 DEF Holds
<1>7. FenceSound'
  BY <1>6 DEF RunIInv, FenceSound, Begun
<1>8. DecayOnce' /\ Counted'
  BY StoredTrue, NoDecay
<1> QED
  BY <1>3, <1>5, <1>7, <1>8 DEF RunIInv

\* The invariant is inductive.
THEOREM NextRun == RunIInv /\ [Next]_vars => RunIInv'
<1> SUFFICES ASSUME RunIInv, [Next]_vars PROVE RunIInv'
  OBVIOUS
<1>1. /\ RunTypeOK /\ run \in [Run -> RunRow] /\ ctl \in [Proc -> {Away} \cup Busy]
      /\ journal \subseteq Run \X Mark \X Nat
  BY DEF RunIInv, RunTypeOK, RunRow, Busy
<1>2. ASSUME NEW p \in Proc, NEW r \in Run, Begin(p, r) PROVE RunIInv'
  <2>1. <<r, "begin", 1>> \in Run \X Mark \X Nat
    BY DEF Mark
  <2> QED
    BY <1>2, <2>1, FreshTypes, AcquireStep DEF Begin
<1>3. ASSUME NEW p \in Proc, NEW r \in Run, Resume(p, r) PROVE RunIInv'
  <2> DEFINE cp == [run[r].cp EXCEPT !.attempt = @ + 1]
  <2>1. cp \in Checkpoint /\ cp.attempt \in Nat
    BY <1>1 DEF RunRow, Checkpoint
  <2>2. <<r, "resume", cp.attempt>> \in Run \X Mark \X Nat
    BY <2>1 DEF Mark
  <2>3. Begun(r) /\ Acquire(p, r, cp, <<r, "resume", cp.attempt>>)
    BY <1>3 DEF Resume
  <2> QED
    BY <2>1, <2>2, <2>3, AcquireStep
<1>4. ASSUME NEW p \in Proc, Consolidate(p) PROVE RunIInv'
  BY <1>4, ConsolidateStep
<1>5. ASSUME NEW p \in Proc, Decay(p) PROVE RunIInv'
  BY <1>5, DecayStep
<1>6. ASSUME NEW p \in Proc, EdgePhase(p) \/ ConceptPhase(p) PROVE RunIInv'
  BY <1>6, PassStep
<1>7. ASSUME NEW p \in Proc, Finalize(p) PROVE RunIInv'
  <2> DEFINE cp == [ctl[p].cp EXCEPT !.phase = "completed"]
  <2>1. /\ Holds(p) /\ ctl[p].cp.phase = "finalize"
        /\ journal' = journal \cup {Claim(p)}
        /\ run' = [run EXCEPT ![ctl[p].run] = [status |-> "completed", cp |-> cp]]
        /\ lease' = [lease EXCEPT !.expired = TRUE] /\ ctl' = [ctl EXCEPT ![p] = Away]
        /\ UNCHANGED <<world, written, touched, moves>>
    BY <1>7 DEF Finalize, In
  <2>2. ctl[p].cp \in Checkpoint /\ ctl[p].run \in Run /\ Count(ctl[p].cp) \in Nat
    BY <2>1, HolderKnows, CountBounds
  <2>3. /\ cp \in Checkpoint /\ cp.last = ctl[p].cp.last /\ cp.attempt = ctl[p].cp.attempt
        /\ cp.consolidated = ctl[p].cp.consolidated /\ cp.decayed = ctl[p].cp.decayed
        /\ cp.phase = "completed"
    BY <2>2 DEF Checkpoint, Phase
  <2>4. Claim(p) \in Run \X Mark \X Nat
    BY <2>1, <2>2 DEF Claim, Mark, Phase
  <2>5. journal' \subseteq Run \X Mark \X Nat
    BY <1>1, <2>1, <2>4
  <2> QED
    BY <2>1, <2>3, <2>5, GiveBack
<1>8. ASSUME NEW p \in Proc, Pause(p) PROVE RunIInv'
  <2>1. /\ Holds(p)
        /\ journal' = journal \cup {<<ctl[p].run, "checkpoint", ctl[p].cp.attempt>>}
        /\ run' = [run EXCEPT ![ctl[p].run] = [status |-> "checkpointed", cp |-> ctl[p].cp]]
        /\ lease' = [lease EXCEPT !.expired = TRUE] /\ ctl' = [ctl EXCEPT ![p] = Away]
        /\ UNCHANGED <<world, written, touched, moves>>
    BY <1>8 DEF Pause
  <2>2. ctl[p].cp \in Checkpoint /\ ctl[p].run \in Run
    BY <2>1, HolderKnows
  <2>3. journal' \subseteq Run \X Mark \X Nat
    BY <1>1, <2>1, <2>2 DEF Mark, Checkpoint
  <2> QED
    BY <2>1, <2>2, <2>3, GiveBack
<1>9. ASSUME NEW p \in Proc, Interrupt(p) \/ Refused(p) \/ Leave(p) PROVE RunIInv'
  <2>1. /\ UNCHANGED <<item, edge, concept, known, run, lease, journal, written, touched, moves>>
        /\ \/ ctl' = [ctl EXCEPT ![p] = Away]
           \/ ctl[p].step = "loop" /\ ctl' = [ctl EXCEPT ![p] = [ctl[p] EXCEPT !.step = "pausing"]]
    BY <1>9 DEF Interrupt, Refused, Leave, world
  <2>2. ctl[p].step = "loop" => [ctl[p] EXCEPT !.step = "pausing"] \in Busy
    BY <1>1, BusyTypes DEF Busy
  <2>3. /\ ctl' \in [Proc -> {Away} \cup Busy]
        /\ \A q \in Proc : ctl'[q] = ctl[q] \/ ctl'[q] = Away
              \/ (ctl[q].step = "loop" /\ ctl'[q] = [ctl[q] EXCEPT !.step = "pausing"])
    BY <1>1, <2>1, <2>2
  <2> QED
    BY <1>1, <2>1, <2>3, LetGo DEF RunTypeOK
<1>10. CASE Expire
  BY <1>1, <1>10, LetGo DEF Expire, world, RunTypeOK
<1>11. CASE Others
  <2>1. moves' \in 0 .. MaxMoves /\ UNCHANGED <<known, run, lease, journal, written, ctl, touched>>
    BY <1>1, <1>11, RunAssumption DEF Others, RunTypeOK
  <2>2. item' \in [Item -> Row] /\ edge' \in Decision /\ concept' \subseteq Concept
    <3>1. /\ item \in [Item -> Row] /\ edge \in Decision /\ concept \subseteq Concept
      BY <1>1 DEF RunTypeOK
    <3>2. \A i \in Item, s \in Statuses : [item EXCEPT ![i].status = s] \in [Item -> Row]
      BY <3>1 DEF Row
    <3> QED
      BY <1>11, <3>1, <3>2 DEF Others
  <2> QED
    BY <1>1, <2>1, <2>2, LetGo
<1>12. CASE UNCHANGED vars
  BY <1>1, <1>12, LetGo DEF vars, world, RunTypeOK
<1> QED
  BY <1>2, <1>3, <1>4, <1>5, <1>6, <1>7, <1>8, <1>9, <1>10, <1>11, <1>12 DEF Next, Work

\* The inductive invariant holds in every reachable state.
THEOREM RunInvariant == Spec => []RunIInv
  BY InitRun, NextRun, PTL DEF Spec

\* Every variable keeps its type.
THEOREM RunTypes == Spec => []RunTypeOK
<1>1. RunIInv => RunTypeOK
  BY DEF RunIInv
<1> QED
  BY <1>1, RunInvariant, PTL

\* At most one process can commit, and it knows what is stored.
THEOREM FenceHolds == Spec => []FenceSound
<1>1. RunIInv => FenceSound
  BY DEF RunIInv
<1> QED
  BY <1>1, RunInvariant, PTL

\* A run decays no memory twice.
THEOREM DecayHolds == Spec => []DecayOnce
<1>1. RunIInv => DecayOnce
  BY DEF RunIInv
<1> QED
  BY <1>1, RunInvariant, PTL

\* The stored checkpoint tells what has been done.
THEOREM AccountHolds == Spec => []Accounted
<1>1. RunIInv => Accounted
  BY DEF RunIInv, Accounted
<1> QED
  BY <1>1, RunInvariant, PTL

(***************************************************************************)
(* The keys.  The journal holds, of each run, the keys of attempts and of  *)
(* batches that it has made, and the last batch of the phase it is in.     *)
(***************************************************************************)
\* How many rows a run has dealt with in its phase.
Done(cp) == CASE cp.phase = "consolidate" -> cp.consolidated
              [] cp.phase = "decay" -> cp.decayed
              [] OTHER -> 0

\* The marks and numbers that a run has used when it is at cp.
Made(cp, m, n) ==
    \/ m = "begin"
    \/ m \in {"resume", "checkpoint"} /\ n <= cp.attempt
    \/ m \in Phase /\ (Rank[m] < Rank[cp.phase] \/ (m = cp.phase /\ 0 < n /\ n <= Done(cp)))

\* A phase is left when its limit is reached, and decays start at none.
Unfilled(cp) ==
    /\ cp.phase = "consolidate" => cp.consolidated < Limit /\ cp.decayed = 0
    /\ cp.phase = "decay" => cp.decayed < Limit

Traced(r) ==
    /\ \A m \in Mark, n \in Nat :
          <<r, m, n>> \in journal => run[r].status # "none" /\ Made(run[r].cp, m, n)
    /\ 0 < Done(run[r].cp) => <<r, run[r].cp.phase, Done(run[r].cp)>> \in journal
    /\ Unfilled(run[r].cp)

Unpaused == \A p \in Proc : Holds(p) => <<ctl[p].run, "checkpoint", ctl[p].cp.attempt>> \notin journal

TraceInv == (\A r \in Run : Traced(r)) /\ Unpaused

\* A key of one run is no key of another.
LEMMA TracedLeft ==
  ASSUME NEW q \in Run, Traced(q), NEW r \in Run \ {q}, NEW m \in Mark, NEW n \in Nat,
         journal' = journal \cup {<<r, m, n>>}, run'[q] = run[q]
  PROVE  Traced(q)'
<1>1. \A mm \in Mark, nn \in Nat : <<q, mm, nn>> \in journal' <=> <<q, mm, nn>> \in journal
  OBVIOUS
<1> QED
  BY <1>1 DEF Traced

\* A run adds a key of its own.
LEMMA TracedMove ==
  ASSUME NEW r \in Run, Traced(r), NEW m \in Mark, NEW n \in Nat,
         journal' = journal \cup {<<r, m, n>>}, run'[r].status # "none",
         run[r].cp \in Checkpoint, run'[r].cp \in Checkpoint,
         Made(run'[r].cp, m, n),
         \A mm \in Mark, nn \in Nat : Made(run[r].cp, mm, nn) => Made(run'[r].cp, mm, nn),
         0 < Done(run'[r].cp) =>
            \/ m = run'[r].cp.phase /\ n = Done(run'[r].cp)
            \/ run'[r].cp.phase = run[r].cp.phase /\ Done(run'[r].cp) = Done(run[r].cp),
         Unfilled(run'[r].cp)
  PROVE  Traced(r)'
<1>1. ASSUME NEW mm \in Mark, NEW nn \in Nat, <<r, mm, nn>> \in journal'
      PROVE  Made(run'[r].cp, mm, nn)
  <2>1. CASE <<r, mm, nn>> \in journal
    BY <2>1 DEF Traced
  <2>2. CASE <<r, mm, nn>> = <<r, m, n>>
    BY <2>2
  <2> QED
    BY <1>1, <2>1, <2>2
<1>2. 0 < Done(run'[r].cp) => <<r, run'[r].cp.phase, Done(run'[r].cp)>> \in journal'
  BY DEF Traced
<1> QED
  BY <1>1, <1>2 DEF Traced, Made, Done, Unfilled

\* What a run has dealt with is a number, and Count adds the next batch.
LEMMA DoneCount ==
  ASSUME NEW cp \in Checkpoint
  PROVE  /\ Done(cp) \in Nat
         /\ cp.phase = "consolidate" =>
              /\ Done(cp) = cp.consolidated
              /\ Count(cp) = Done(cp) + Least(Room(Done(cp)), Cardinality(With("candidate")))
         /\ cp.phase = "decay" =>
              /\ Done(cp) = cp.decayed
              /\ Count(cp) = Done(cp) + Least(Room(Done(cp)), Cardinality(Due(cp)))
         /\ cp.phase \notin {"consolidate", "decay"} => Done(cp) = 0 /\ Count(cp) = 0
<1>1. CASE cp.phase = "consolidate"
  BY <1>1 DEF Done, Count, Checkpoint
<1>2. CASE cp.phase = "decay"
  BY <1>2 DEF Done, Count, Checkpoint
<1>3. CASE cp.phase \notin {"consolidate", "decay"}
  BY <1>3 DEF Done, Count
<1> QED
  BY <1>1, <1>2, <1>3

\* There is room as long as the limit is not reached.
LEMMA RoomLeft ==
  ASSUME NEW k \in Nat, k < Limit
  PROVE  Room(k) \in Nat /\ Room(k) > 0
  BY RunAssumption DEF Room, Least

\* A process takes a run: the attempt of the new key is above all others.
LEMMA AcquireTrace ==
  ASSUME RunIInv, RunIInv', TraceInv, NEW p \in Proc, NEW r \in Run, Begin(p, r) \/ Resume(p, r)
  PROVE  TraceInv'
<1> DEFINE again == [run[r].cp EXCEPT !.attempt = @ + 1]
<1>1. /\ run \in [Run -> RunRow] /\ ctl \in [Proc -> {Away} \cup Busy] /\ Traced(r)
      /\ run[r].cp \in Checkpoint /\ run[r].cp.attempt \in Nat
  BY DEF RunIInv, RunTypeOK, RunRow, Busy, TraceInv, Checkpoint
<1>2. PICK cp \in Checkpoint, m \in {"begin", "resume"} :
        /\ Acquire(p, r, cp, <<r, m, cp.attempt>>)
        /\ \/ run[r].status = "none" /\ cp = Fresh /\ m = "begin"
           \/ run[r].status # "none" /\ cp = again
  <2>1. CASE Begin(p, r)
    <3>1. Fresh.attempt = 1
      BY DEF Fresh
    <3> QED
      BY <2>1, <3>1, FreshTypes DEF Begin
  <2>2. CASE Resume(p, r)
    <3>1. again \in Checkpoint /\ again.attempt = run[r].cp.attempt + 1
      BY <1>1 DEF Checkpoint
    <3> QED
      BY <2>2, <3>1 DEF Resume, Begun
  <2> QED
    BY <2>1, <2>2
<1>3. /\ run'[r] = [status |-> "running", cp |-> cp] /\ \A q \in Run \ {r} : run'[q] = run[q]
      /\ ctl'[p] = [step |-> "loop", run |-> r, cp |-> cp]
      /\ lease' = [run |-> r, attempt |-> cp.attempt, expired |-> FALSE]
      /\ journal' = journal \cup {<<r, m, cp.attempt>>}
      /\ m \in Mark /\ cp.attempt \in Nat
  BY <1>1, <1>2 DEF Acquire, Mark, Checkpoint
<1>4. <<r, "checkpoint", cp.attempt>> \notin journal
  <2>1. CASE run[r].status = "none"
    BY <1>1, <1>3, <2>1 DEF Traced, Mark
  <2>2. CASE run[r].status # "none"
    <3>1. cp.attempt = run[r].cp.attempt + 1
      BY <1>1, <1>2, <2>2 DEF Checkpoint
    <3>2. ~Made(run[r].cp, "checkpoint", cp.attempt)
      BY <1>1, <3>1 DEF Made, Phase
    <3> QED
      BY <1>1, <1>3, <3>2 DEF Traced, Mark
  <2> QED
    BY <2>1, <2>2
<1>5. Unpaused'
  <2>1. Holds(p)'
    BY <1>3 DEF Holds
  <2>2. ASSUME NEW q \in Proc, Holds(q)' PROVE q = p
    BY <2>1, <2>2 DEF RunIInv, FenceSound
  <2>3. <<r, "checkpoint", cp.attempt>> \notin journal'
    BY <1>2, <1>3, <1>4
  <2> QED
    BY <1>3, <2>2, <2>3 DEF Unpaused
<1>6. Traced(r)'
  <2>1. CASE run[r].status = "none"
    <3>1. \A mm \in Mark, nn \in Nat : <<r, mm, nn>> \in journal' => mm = "begin"
      BY <1>1, <1>2, <1>3, <2>1 DEF Traced
    <3>2. Done(Fresh) = 0 /\ Unfilled(Fresh)
      BY RunAssumption DEF Done, Unfilled, Fresh
    <3>3. run'[r].cp = Fresh /\ run'[r].status # "none"
      BY <1>2, <1>3, <2>1
    <3> QED
      BY <3>1, <3>2, <3>3 DEF Traced, Made
  <2>2. CASE run[r].status # "none"
    <3>1. /\ cp.attempt = run[r].cp.attempt + 1 /\ cp.phase = run[r].cp.phase
          /\ cp.consolidated = run[r].cp.consolidated /\ cp.decayed = run[r].cp.decayed
      BY <1>1, <1>2, <2>2 DEF Checkpoint
    <3>2. Done(cp) = Done(run[r].cp) /\ Unfilled(cp)
      BY <1>1, <3>1 DEF Done, Unfilled, Traced
    <3>3. \A mm \in Mark, nn \in Nat : Made(run[r].cp, mm, nn) => Made(cp, mm, nn)
      BY <1>1, <3>1, <3>2 DEF Made
    <3>4. Made(cp, m, cp.attempt)
      BY <1>2, <1>3 DEF Made
    <3> QED
      BY <1>1, <1>3, <3>1, <3>2, <3>3, <3>4, TracedMove
  <2> QED
    BY <2>1, <2>2
<1>7. ASSUME NEW q \in Run \ {r} PROVE Traced(q)'
  BY <1>3, <1>7, TracedLeft DEF TraceInv
<1> QED
  BY <1>5, <1>6, <1>7 DEF TraceInv

\* The transaction that ends a batch adds a key of the phase it is in, and
\* goes on to a later phase unless the batch was full and not the last.
LEMMA CommitTrace ==
  ASSUME RunIInv, RunIInv', TraceInv, NEW p \in Proc, ctl[p].step = "loop",
         NEW cp \in Checkpoint, PhaseCommit(p, cp), cp.attempt = ctl[p].cp.attempt, Unfilled(cp),
         \/ /\ cp.phase = ctl[p].cp.phase /\ Done(cp) = Count(ctl[p].cp)
            /\ Done(ctl[p].cp) < Done(cp)
         \/ Rank[ctl[p].cp.phase] < Rank[cp.phase] /\ Done(cp) = 0
  PROVE  TraceInv'
<1> DEFINE m == ctl[p].cp.phase
           n == Count(ctl[p].cp)
<1>a. PICK r \in Run : r = ctl[p].run
  BY HolderKnows DEF PhaseCommit
<1>1. /\ Holds(p) /\ ctl[p].cp \in Checkpoint /\ run[r].cp = ctl[p].cp
      /\ run \in [Run -> RunRow] /\ ctl \in [Proc -> {Away} \cup Busy] /\ Traced(r)
      /\ run[r].status # "none" /\ n \in Nat /\ Done(ctl[p].cp) \in Nat /\ Done(cp) \in Nat
  BY <1>a, HolderKnows, CountBounds, DoneCount DEF PhaseCommit, RunIInv, RunTypeOK, RunRow, Busy, TraceInv
<1>2. /\ run'[r] = [status |-> "running", cp |-> cp] /\ \A q \in Run \ {r} : run'[q] = run[q]
      /\ ctl'[p] = [ctl[p] EXCEPT !.cp = cp]
      /\ journal' = journal \cup {<<r, m, n>>} /\ lease' = lease
      /\ m \in Mark /\ m \in Phase
  BY <1>a, <1>1 DEF PhaseCommit, Claim, Mark, Checkpoint
<1>3. ctl'[p].run = r /\ ctl'[p].step = "loop" /\ ctl'[p].cp = cp /\ ctl[p] \in Busy
  BY <1>a, <1>1, <1>2, BusyTypes DEF Busy, RunIInv, Holds
<1>4. Unpaused'
  <2>1. Holds(p)'
    BY <1>a, <1>1, <1>2, <1>3 DEF Holds
  <2>2. ASSUME NEW q \in Proc, Holds(q)' PROVE q = p
    BY <2>1, <2>2 DEF RunIInv, FenceSound
  <2>3. <<r, "checkpoint", cp.attempt>> \notin journal
    BY <1>a, <1>1 DEF TraceInv, Unpaused
  <2>4. m # "checkpoint"
    BY <1>2 DEF Phase
  <2> QED
    BY <1>2, <1>3, <2>2, <2>3, <2>4 DEF Unpaused
<1>5. ASSUME NEW mm \in Mark, NEW nn \in Nat, Made(ctl[p].cp, mm, nn) PROVE Made(cp, mm, nn)
  <2>1. Rank[m] \in Nat /\ Rank[cp.phase] \in Nat /\ (mm \in Phase => Rank[mm] \in Nat)
    BY <1>2, Ranks DEF Checkpoint, Phase
  <2>2. CASE cp.phase = m
    BY <1>1, <1>5, <2>1, <2>2 DEF Made
  <2>3. CASE Rank[m] < Rank[cp.phase]
    BY <1>5, <2>1, <2>3 DEF Made
  <2> QED
    BY <2>2, <2>3
<1>6. Made(cp, m, n)
  BY <1>1, <1>2 DEF Made
<1>7. Traced(r)'
  BY <1>1, <1>2, <1>5, <1>6, TracedMove
<1>8. ASSUME NEW q \in Run \ {r} PROVE Traced(q)'
  BY <1>1, <1>2, <1>8, TracedLeft DEF TraceInv
<1> QED
  BY <1>4, <1>7, <1>8 DEF TraceInv

\* A transaction that gives the lease back leaves nobody to write its key.
LEMMA GiveBackTrace ==
  ASSUME RunIInv, TraceInv, NEW p \in Proc, Finalize(p) \/ Pause(p)
  PROVE  TraceInv'
<1>a. PICK r \in Run : r = ctl[p].run
  BY HolderKnows DEF Finalize, Pause
<1>1. /\ Holds(p) /\ ctl[p].cp \in Checkpoint /\ run[r].cp = ctl[p].cp
      /\ run \in [Run -> RunRow] /\ ctl \in [Proc -> {Away} \cup Busy] /\ lease \in Lease
      /\ Traced(r) /\ Done(ctl[p].cp) \in Nat /\ ctl[p].cp.attempt \in Nat
  BY <1>a, HolderKnows, DoneCount DEF Finalize, Pause, RunIInv, RunTypeOK, RunRow, Busy, Lease, TraceInv, Checkpoint
<1>2. PICK cp \in Checkpoint, status \in {"checkpointed", "completed"}, m \in Mark, n \in Nat :
        /\ run' = [run EXCEPT ![r] = [status |-> status, cp |-> cp]]
        /\ journal' = journal \cup {<<r, m, n>>}
        /\ \/ cp = ctl[p].cp /\ m = "checkpoint" /\ n = cp.attempt
           \/ /\ cp = [ctl[p].cp EXCEPT !.phase = "completed"] /\ ctl[p].cp.phase = "finalize"
              /\ m = "finalize"
  <2>1. CASE Pause(p)
    <3>1. "checkpoint" \in Mark
      BY DEF Mark
    <3> QED
      BY <1>a, <1>1, <2>1, <3>1 DEF Pause
  <2>2. CASE Finalize(p)
    <3>1. /\ ctl[p].cp.phase = "finalize" /\ "finalize" \in Mark
          /\ [ctl[p].cp EXCEPT !.phase = "completed"] \in Checkpoint
      BY <1>1, <2>2 DEF Finalize, In, Mark, Phase, Checkpoint
    <3>2. Count(ctl[p].cp) = 0
      BY <1>1, <3>1, DoneCount
    <3>3. journal' = journal \cup {<<r, "finalize", 0>>}
      BY <1>a, <2>2, <3>1, <3>2 DEF Finalize, Claim
    <3>4. run' = [run EXCEPT ![r] = [status |-> "completed", cp |-> [ctl[p].cp EXCEPT !.phase = "completed"]]]
      BY <1>a, <2>2 DEF Finalize
    <3> QED
      BY <3>1, <3>3, <3>4
  <2> QED
    BY <2>1, <2>2
<1>3. /\ run'[r] = [status |-> status, cp |-> cp] /\ \A q \in Run \ {r} : run'[q] = run[q]
      /\ cp.attempt = ctl[p].cp.attempt
      /\ lease'.run = lease.run /\ lease'.attempt = lease.attempt
      /\ ctl'[p] = Away /\ \A q \in Proc \ {p} : ctl'[q] = ctl[q]
  BY <1>1, <1>2 DEF Finalize, Pause, Lease, Checkpoint
<1>4. ASSUME NEW q \in Proc, Holds(q)' PROVE FALSE
  <2>1. q # p /\ ctl'[q] = ctl[q] /\ ctl[q].step # "away"
    BY <1>3, <1>4 DEF Holds, Away
  <2>2. ctl[q].run \in Run
    BY <2>1, BusyTypes DEF RunIInv, Busy
  <2>3. run'[ctl[q].run].cp.attempt = run[ctl[q].run].cp.attempt
    BY <1>1, <1>3, <2>2
  <2>4. Holds(q)
    BY <1>3, <1>4, <2>1, <2>3 DEF Holds
  <2> QED
    BY <1>1, <2>1, <2>4 DEF RunIInv, FenceSound
<1>5. Unpaused'
  BY <1>4 DEF Unpaused
<1>6. Traced(r)'
  <2>1. CASE cp = ctl[p].cp /\ m = "checkpoint" /\ n = cp.attempt
    <3>1. Made(cp, m, n) /\ Unfilled(cp)
      BY <1>1, <2>1 DEF Made, Traced
    <3> QED
      BY <1>1, <1>2, <1>3, <2>1, <3>1, TracedMove
  <2>2. CASE /\ cp = [ctl[p].cp EXCEPT !.phase = "completed"] /\ ctl[p].cp.phase = "finalize"
             /\ m = "finalize"
    <3>1. cp.phase = "completed"
      BY <1>1, <2>2 DEF Checkpoint
    <3>2. Done(cp) = 0 /\ Done(ctl[p].cp) = 0 /\ Unfilled(cp)
      BY <2>2, <3>1 DEF Done, Unfilled
    <3>3. Made(cp, m, n)
      BY <2>2, <3>1, Ranks DEF Made, Phase
    <3>4. ASSUME NEW mm \in Mark, NEW nn \in Nat, Made(ctl[p].cp, mm, nn) PROVE Made(cp, mm, nn)
      <4>1. mm \in Phase => Rank[mm] \in Nat
        BY Ranks DEF Phase
      <4> QED
        BY <1>3, <2>2, <3>1, <3>2, <3>4, <4>1, Ranks DEF Made
    <3> QED
      BY <1>1, <1>2, <1>3, <3>2, <3>3, <3>4, TracedMove
  <2> QED
    BY <1>2, <2>1, <2>2
<1>7. ASSUME NEW q \in Run \ {r} PROVE Traced(q)'
  BY <1>1, <1>2, <1>3, <1>7, TracedLeft DEF TraceInv
<1> QED
  BY <1>5, <1>6, <1>7 DEF TraceInv

\* The batches of the first two phases commit a larger count or go on.
LEMMA BatchTrace ==
  ASSUME RunIInv, RunIInv', TraceInv, NEW p \in Proc, Consolidate(p) \/ Decay(p)
  PROVE  TraceInv'
<1> DEFINE cp == ctl[p].cp
           n  == Count(cp)
           k  == Done(cp)
           full == n - k = Room(k) /\ n < Limit
<1>a. PICK r \in Run : r = ctl[p].run
  BY HolderKnows DEF Consolidate, Decay, PhaseCommit
<1>1. /\ ctl[p].step = "loop" /\ cp.phase \in {"consolidate", "decay"} /\ cp \in Checkpoint
      /\ run[r].cp = cp /\ Unfilled(cp) /\ cp.consolidated <= Limit /\ cp.decayed <= Limit
      /\ cp.attempt \in Nat /\ cp.last \in Nat /\ cp.decayed \in Nat
  BY <1>a, HolderKnows DEF Consolidate, Decay, PhaseCommit, In, TraceInv, Traced, Checkpoint
<1>2. n \in Nat /\ k \in Nat /\ n <= Limit /\ k < Limit /\ Limit \in Nat
  BY <1>1, CountBounds, DoneCount, RunAssumption DEF Unfilled
<1>3. full => k < n
  BY <1>2, RoomLeft
<1>4. CASE Consolidate(p)
  <2> DEFINE next == [cp EXCEPT !.consolidated = n, !.phase = IF full THEN @ ELSE "decay"]
  <2>1. cp.phase = "consolidate" /\ k = cp.consolidated /\ cp.decayed = 0
    BY <1>1, <1>4, DoneCount DEF Consolidate, In, Unfilled
  <2>2. PhaseCommit(p, next)
    BY <1>4, <2>1 DEF Consolidate
  <2>3. /\ next \in Checkpoint /\ next.attempt = cp.attempt
        /\ next.consolidated = n /\ next.decayed = 0
        /\ next.phase = IF full THEN "consolidate" ELSE "decay"
    BY <1>1, <1>2, <2>1 DEF Checkpoint, Phase
  <2> HIDE DEF next
  <2>4. Done(next) = (IF full THEN n ELSE 0) /\ Unfilled(next)
    BY <1>2, <2>3, RunAssumption DEF Done, Unfilled
  <2>5. ~full => Rank[cp.phase] < Rank[next.phase]
    BY <2>1, <2>3, Ranks
  <2> QED
    BY <1>1, <1>3, <2>1, <2>2, <2>3, <2>4, <2>5, CommitTrace
<1>5. CASE Decay(p)
  <2> DEFINE next(last) == [cp EXCEPT !.decayed = n, !.last = last, !.phase = IF full THEN @ ELSE "edge"]
  <2>1. cp.phase = "decay" /\ k = cp.decayed
    BY <1>1, <1>5, DoneCount DEF Decay, In
  <2>2. PICK S \in SUBSET Due(cp) : \E last \in S \cup {cp.last} : PhaseCommit(p, next(last))
    BY <1>5, <2>1 DEF Decay
  <2>3. PICK last \in S \cup {cp.last} : PhaseCommit(p, next(last))
    BY <2>2
  <2>4. last \in Nat
    <3>1. S \subseteq Item /\ Item \subseteq Nat
      BY RunAssumption DEF Due, With
    <3> QED
      BY <1>1, <2>3, <3>1
  <2>5. /\ next(last) \in Checkpoint /\ next(last).attempt = cp.attempt
        /\ next(last).decayed = n
        /\ next(last).phase = IF full THEN "decay" ELSE "edge"
    BY <1>1, <1>2, <2>1, <2>4 DEF Checkpoint, Phase
  <2> HIDE DEF next
  <2>6. Done(next(last)) = (IF full THEN n ELSE 0) /\ Unfilled(next(last))
    BY <1>2, <2>5 DEF Done, Unfilled
  <2>7. ~full => Rank[cp.phase] < Rank[next(last).phase]
    BY <2>1, <2>5, Ranks
  <2> QED
    BY <1>1, <1>3, <2>1, <2>3, <2>5, <2>6, <2>7, CommitTrace
<1> QED
  BY <1>4, <1>5

\* The edge and the concept pass go on to the next phase.
LEMMA PassTrace ==
  ASSUME RunIInv, RunIInv', TraceInv, NEW p \in Proc, EdgePhase(p) \/ ConceptPhase(p)
  PROVE  TraceInv'
<1> DEFINE cp == ctl[p].cp
           next == [cp EXCEPT !.phase = IF cp.phase = "edge" THEN "concept" ELSE "finalize"]
<1>1. /\ ctl[p].step = "loop" /\ cp.phase \in {"edge", "concept"} /\ PhaseCommit(p, next)
      /\ cp \in Checkpoint
  BY HolderKnows DEF EdgePhase, ConceptPhase, In, PhaseCommit
<1>2. /\ next \in Checkpoint /\ next.attempt = cp.attempt
      /\ next.phase = IF cp.phase = "edge" THEN "concept" ELSE "finalize"
  BY <1>1 DEF Checkpoint, Phase
<1> HIDE DEF next
<1>3. Done(next) = 0 /\ Unfilled(next) /\ Rank[cp.phase] < Rank[next.phase]
  BY <1>1, <1>2, Ranks DEF Done, Unfilled
<1> QED
  BY <1>1, <1>2, <1>3, CommitTrace

\* Steps that commit nothing.
LEMMA QuietTrace ==
  ASSUME RunIInv, TraceInv, UNCHANGED <<run, journal>>, lease \in Lease,
         lease' = lease \/ lease' = [lease EXCEPT !.expired = TRUE],
         \A p \in Proc : ctl'[p] = ctl[p] \/ ctl'[p] = Away
            \/ (ctl[p].step = "loop" /\ ctl'[p] = [ctl[p] EXCEPT !.step = "pausing"])
  PROVE  TraceInv'
<1>1. \A r \in Run : Traced(r)'
  BY DEF TraceInv, Traced
<1>2. ASSUME NEW p \in Proc, Holds(p)'
      PROVE  Holds(p) /\ ctl'[p].run = ctl[p].run /\ ctl'[p].cp = ctl[p].cp
  <2>1. ctl'[p].step # "away" /\ lease'.run = lease.run /\ lease'.attempt = lease.attempt
    BY <1>2 DEF Holds, Lease
  <2>2. ctl[p].step # "away" /\ ctl'[p].run = ctl[p].run /\ ctl'[p].cp = ctl[p].cp
    <3>1. CASE ctl[p].step = "loop" /\ ctl'[p] = [ctl[p] EXCEPT !.step = "pausing"]
      <4>1. ctl[p] \in Busy
        BY <3>1, BusyTypes DEF RunIInv
      <4> QED
        BY <3>1, <4>1 DEF Busy
    <3> QED
      BY <2>1, <3>1 DEF Away
  <2> QED
    BY <1>2, <2>1, <2>2 DEF Holds
<1>3. Unpaused'
  BY <1>2 DEF TraceInv, Unpaused
<1> QED
  BY <1>1, <1>3 DEF TraceInv

\* The journal stays as TraceInv says.
THEOREM NextTrace == RunIInv /\ RunIInv' /\ TraceInv /\ [Next]_vars => TraceInv'
<1> SUFFICES ASSUME RunIInv, RunIInv', TraceInv, [Next]_vars PROVE TraceInv'
  OBVIOUS
<1>1. ctl \in [Proc -> {Away} \cup Busy] /\ lease \in Lease
  BY DEF RunIInv, RunTypeOK, Busy, Lease
<1>2. ASSUME NEW p \in Proc, Interrupt(p) \/ Refused(p) \/ Leave(p) PROVE TraceInv'
  <2>1. /\ UNCHANGED <<run, journal, lease>>
        /\ \A q \in Proc : ctl'[q] = ctl[q] \/ ctl'[q] = Away
              \/ (ctl[q].step = "loop" /\ ctl'[q] = [ctl[q] EXCEPT !.step = "pausing"])
    BY <1>1, <1>2 DEF Interrupt, Refused, Leave
  <2> QED
    BY <1>1, <2>1, QuietTrace
<1>3. CASE Expire \/ Others \/ UNCHANGED vars
  BY <1>1, <1>3, QuietTrace DEF Expire, Others, vars
<1> QED
  BY <1>2, <1>3, AcquireTrace, BatchTrace, PassTrace, GiveBackTrace DEF Next, Work

\* A run's key is taken only when its batch is empty, and its phase has
\* counted rows.
LEMMA TraceStuck == RunIInv /\ TraceInv => StuckOnlyDry
<1> SUFFICES ASSUME RunIInv, TraceInv PROVE StuckOnlyDry
  OBVIOUS
<1>1. run \in [Run -> RunRow]
  BY DEF RunIInv, RunTypeOK, RunRow
<1>2. ASSUME NEW p \in Proc, ctl[p].step = "loop", Holds(p)
      PROVE  Claim(p) \in journal <=> Dry(ctl[p].cp)
  <2> DEFINE cp == ctl[p].cp
             k  == Done(cp)
  <2>1. PICK r \in Run : r = ctl[p].run
    BY <1>2, HolderKnows
  <2>2. /\ cp \in Checkpoint /\ run[r].cp = cp /\ Traced(r)
        /\ k \in Nat /\ Count(cp) \in Nat /\ cp.phase \in Mark /\ cp.phase \in Phase
    BY <1>2, <2>1, HolderKnows, CountBounds, DoneCount DEF TraceInv, Mark, Checkpoint
  <2>3. Claim(p) \in journal <=> 0 < k /\ Count(cp) = k
    <3>1. ASSUME Claim(p) \in journal PROVE 0 < Count(cp) /\ Count(cp) <= k
      <4>1. Made(cp, cp.phase, Count(cp))
        BY <2>1, <2>2, <3>1 DEF Claim, Traced
      <4>2. cp.phase \notin {"begin", "resume", "checkpoint"} /\ Rank[cp.phase] \in Nat
        BY <2>2, Ranks DEF Phase
      <4> QED
        BY <4>1, <4>2 DEF Made
    <3>2. k <= Count(cp)
      BY <2>2, CountBounds, DoneCount, <1>2, HolderKnows
    <3>3. 0 < k /\ Count(cp) = k => Claim(p) \in journal
      BY <2>1, <2>2 DEF Claim, Traced
    <3> QED
      BY <2>2, <3>1, <3>2, <3>3
  <2>4. ASSUME NEW T \in {With("candidate"), Due(cp)}, k < Limit
        PROVE  k + Least(Room(k), Cardinality(T)) = k <=> T = {}
    <3>1. IsFiniteSet(T) /\ Cardinality(T) \in Nat /\ (Cardinality(T) = 0 <=> T = {})
      BY Finite, FS_EmptySet
    <3>2. Room(k) \in Nat /\ Room(k) > 0
      BY <2>2, <2>4, RoomLeft
    <3> QED
      BY <2>2, <3>1, <3>2 DEF Least
  <2>5. Unfilled(cp)
    BY <2>2 DEF Traced
  <2>6. CASE cp.phase = "consolidate"
    BY <2>2, <2>3, <2>4, <2>5, <2>6, DoneCount DEF Dry, Unfilled
  <2>7. CASE cp.phase = "decay"
    BY <2>2, <2>3, <2>4, <2>5, <2>7, DoneCount DEF Dry, Unfilled
  <2>8. CASE cp.phase \notin {"consolidate", "decay"}
    BY <2>2, <2>3, <2>8, DoneCount DEF Dry
  <2> QED
    BY <2>6, <2>7, <2>8
<1>3. ASSUME NEW r \in Run, Begun(r) PROVE <<r, "resume", run[r].cp.attempt + 1>> \notin journal
  <2>1. run[r].cp.attempt \in Nat /\ Traced(r)
    BY <1>1 DEF RunRow, Checkpoint, TraceInv
  <2>2. ~Made(run[r].cp, "resume", run[r].cp.attempt + 1)
    BY <2>1 DEF Made, Phase
  <2> QED
    BY <2>1, <2>2 DEF Traced, Mark
<1> QED
  BY <1>2, <1>3 DEF StuckOnlyDry, TraceInv, Unpaused

\* The unique keys stop a run at an empty batch after a full one, and
\* nowhere else.
THEOREM StuckHolds == Spec => []StuckOnlyDry
<1>1. Init => TraceInv
  <2> SUFFICES ASSUME Init PROVE TraceInv
    OBVIOUS
  <2>1. ASSUME NEW r \in Run PROVE Traced(r)
    <3>1. run[r].cp = Fresh /\ journal = {}
      BY DEF Init
    <3>2. Done(Fresh) = 0 /\ Unfilled(Fresh)
      BY RunAssumption DEF Done, Unfilled, Fresh
    <3> QED
      BY <3>1, <3>2 DEF Traced
  <2> QED
    BY <2>1 DEF TraceInv, Unpaused, Init
<1> QED
  BY <1>1, RunInvariant, NextTrace, TraceStuck, PTL DEF Spec

(***************************************************************************)
(* The controller implements MaintenancePromise: a transaction moves the   *)
(* run it is about by one stage or leaves it where it is, and the batches  *)
(* of decays are the only ones that decay.                                 *)
(***************************************************************************)
LEMMA SameCardinality == \A S : Promise!Cardinality(S) = Cardinality(S)
  BY DEF Promise!Cardinality, Cardinality

At(row) == IF row.status = "none" THEN 0 ELSE Rank[row.cp.phase]

\* A commit that moves the phase by one step advances the stage.
LEMMA StageMove ==
  ASSUME NEW r \in Run, \A q \in Run \ {r} : run'[q] = run[q]
  PROVE  /\ At(run'[r]) = At(run[r]) => UNCHANGED Stage
         /\ At(run'[r]) = At(run[r]) + 1 /\ At(run[r]) < 6 => Promise!Advance(r)
<1>1. /\ Stage = [q \in Run |-> At(run[q])]
      /\ Stage' = [q \in Run |-> At(run'[q])]
  BY DEF Stage, At
<1> HIDE DEF Stage, At
<1>2. ASSUME At(run'[r]) = At(run[r]) PROVE UNCHANGED Stage
  BY <1>1, <1>2
<1>3. ASSUME At(run'[r]) = At(run[r]) + 1, At(run[r]) < 6 PROVE Promise!Advance(r)
  BY <1>1, <1>3 DEF Promise!Advance, Promise!Done
<1> QED
  BY <1>2, <1>3

\* Where the transaction at the end of a batch takes a run.
LEMMA CommitStage ==
  ASSUME RunIInv, NEW p \in Proc, NEW cp, PhaseCommit(p, cp), NEW r \in Run, r = ctl[p].run
  PROVE  /\ At(run[r]) = Rank[ctl[p].cp.phase]
         /\ cp.phase = ctl[p].cp.phase => UNCHANGED Stage
         /\ Rank[cp.phase] = Rank[ctl[p].cp.phase] + 1 /\ Rank[ctl[p].cp.phase] < 6 => Promise!Advance(r)
<1>1. /\ Holds(p) /\ run' = [run EXCEPT ![r] = [status |-> "running", cp |-> cp]]
      /\ run \in [Run -> RunRow]
  BY DEF PhaseCommit, RunIInv, RunTypeOK, RunRow
<1>2. /\ run'[r] = [status |-> "running", cp |-> cp]
      /\ \A q \in Run \ {r} : run'[q] = run[q]
  BY <1>1
<1>3. At(run[r]) = Rank[ctl[p].cp.phase] /\ At(run'[r]) = Rank[cp.phase]
  BY <1>1, <1>2, HolderKnows DEF At
<1> QED
  BY <1>2, <1>3, StageMove

\* Every step of the controller is a step of the promise, or none.
THEOREM StepRunPromise == RunIInv /\ RunIInv' /\ [Next]_vars => [Promise!Next]_<<Stage, touched>>
<1> SUFFICES ASSUME RunIInv, RunIInv', [Next]_vars PROVE [Promise!Next]_<<Stage, touched>>
  OBVIOUS
<1>1. run \in [Run -> RunRow]
  BY DEF RunIInv, RunTypeOK, RunRow
<1>2. ASSUME NEW p \in Proc, NEW r \in Run, Begin(p, r) PROVE [Promise!Next]_<<Stage, touched>>
  <2>1. /\ run'[r] = [status |-> "running", cp |-> Fresh] /\ \A q \in Run \ {r} : run'[q] = run[q]
        /\ run[r].status = "none" /\ UNCHANGED touched
    BY <1>1, <1>2 DEF Begin, Acquire
  <2>2. At(run[r]) = 0 /\ At(run'[r]) = 1
    BY <2>1, Ranks DEF At, Fresh
  <2>3. Promise!Advance(r)
    BY <2>1, <2>2, StageMove
  <2> QED
    BY <2>1, <2>3 DEF Promise!Next
<1>3. ASSUME NEW p \in Proc, NEW r \in Run, Resume(p, r) PROVE [Promise!Next]_<<Stage, touched>>
  <2> DEFINE cp == [run[r].cp EXCEPT !.attempt = @ + 1]
  <2>1. /\ run' = [run EXCEPT ![r] = [status |-> "running", cp |-> cp]]
        /\ run[r].status # "none" /\ run[r].cp \in Checkpoint /\ UNCHANGED touched
    BY <1>1, <1>3 DEF Resume, Acquire, Begun, RunRow
  <2>2. cp.phase = run[r].cp.phase
    BY <2>1 DEF Checkpoint
  <2> HIDE DEF cp
  <2>3. At(run[r]) = At(run'[r]) /\ \A q \in Run \ {r} : run'[q] = run[q]
    <3>1. run'[r] = [status |-> "running", cp |-> cp] /\ \A q \in Run \ {r} : run'[q] = run[q]
      BY <1>1, <2>1
    <3> QED
      BY <2>1, <2>2, <3>1 DEF At
  <2> QED
    BY <2>1, <2>3, StageMove
<1>4. ASSUME NEW p \in Proc, NEW cp, PhaseCommit(p, cp), UNCHANGED touched,
             \/ cp.phase = ctl[p].cp.phase
             \/ Rank[cp.phase] = Rank[ctl[p].cp.phase] + 1 /\ Rank[ctl[p].cp.phase] < 6
      PROVE  [Promise!Next]_<<Stage, touched>>
  <2>1. PICK r \in Run : r = ctl[p].run
    BY <1>4, HolderKnows DEF PhaseCommit
  <2>2. CASE cp.phase = ctl[p].cp.phase
    BY <1>4, <2>1, <2>2, CommitStage
  <2>3. CASE Rank[cp.phase] = Rank[ctl[p].cp.phase] + 1 /\ Rank[ctl[p].cp.phase] < 6
    <3>1. Promise!Advance(r)
      BY <1>4, <2>1, <2>3, CommitStage
    <3> QED
      BY <1>4, <3>1 DEF Promise!Next
  <2> QED
    BY <1>4, <2>2, <2>3
<1>5. ASSUME NEW p \in Proc, Holds(p) PROVE ctl[p].cp \in Checkpoint
  BY <1>5, HolderKnows
<1>6. ASSUME NEW p \in Proc, Consolidate(p) PROVE [Promise!Next]_<<Stage, touched>>
  <2> DEFINE cp == ctl[p].cp
             n  == Count(cp)
             full == n - cp.consolidated = Room(cp.consolidated) /\ n < Limit
             next == [cp EXCEPT !.consolidated = n, !.phase = IF full THEN @ ELSE "decay"]
  <2>1. PhaseCommit(p, next) /\ UNCHANGED touched /\ cp.phase = "consolidate" /\ cp \in Checkpoint
    BY <1>5, <1>6 DEF Consolidate, In, PhaseCommit
  <2>2. next.phase \in {"consolidate", "decay"}
    BY <2>1 DEF Checkpoint
  <2> HIDE DEF next
  <2> QED
    BY <1>4, <2>1, <2>2, Ranks
<1>7. ASSUME NEW p \in Proc, EdgePhase(p) \/ ConceptPhase(p) PROVE [Promise!Next]_<<Stage, touched>>
  <2> DEFINE cp == ctl[p].cp
             next == [cp EXCEPT !.phase = IF cp.phase = "edge" THEN "concept" ELSE "finalize"]
  <2>1. PhaseCommit(p, next) /\ UNCHANGED touched /\ cp.phase \in {"edge", "concept"} /\ cp \in Checkpoint
    BY <1>5, <1>7 DEF EdgePhase, ConceptPhase, In, PhaseCommit
  <2>2. next.phase = IF cp.phase = "edge" THEN "concept" ELSE "finalize"
    BY <2>1 DEF Checkpoint
  <2> HIDE DEF next
  <2> QED
    BY <1>4, <2>1, <2>2, Ranks
<1>8. ASSUME NEW p \in Proc, Decay(p) PROVE Promise!Next
  <2> DEFINE cp == ctl[p].cp
             n  == Count(cp)
             full == n - cp.decayed = Room(cp.decayed) /\ n < Limit
             next(last) == [cp EXCEPT !.decayed = n, !.last = last, !.phase = IF full THEN @ ELSE "edge"]
  <2>1. cp.phase = "decay" /\ Holds(p) /\ cp \in Checkpoint
    BY <1>5, <1>8 DEF Decay, In, PhaseCommit
  <2>2. PICK r \in Run : r = ctl[p].run
    BY <2>1, HolderKnows
  <2>3. PICK S \in SUBSET Due(cp) : \E last \in S \cup {cp.last} :
           /\ touched' = [touched EXCEPT ![r] = [i \in Item |-> IF i \in S THEN @[i] + 1 ELSE @[i]]]
           /\ PhaseCommit(p, next(last))
    BY <1>8, <2>2 DEF Decay
  <2>4. PICK last \in S \cup {cp.last} :
           /\ touched' = [touched EXCEPT ![r] = [i \in Item |-> IF i \in S THEN @[i] + 1 ELSE @[i]]]
           /\ PhaseCommit(p, next(last))
    BY <2>3
  <2>5. next(last).phase \in {"decay", "edge"}
    BY <2>1 DEF Checkpoint
  <2> HIDE DEF next
  <2>6. Promise!Advance(r) \/ UNCHANGED Stage
    BY <2>1, <2>2, <2>4, <2>5, CommitStage, Ranks
  <2>7. Stage[r] = 2
    <3>1. At(run[r]) = 2
      BY <2>1, <2>2, <2>4, CommitStage, Ranks
    <3> QED
      BY <3>1 DEF Stage, At
  <2>8. S \subseteq Item /\ \A i \in S : touched[r][i] = 0
    <3>1. /\ touched \in [Run -> [Item -> Nat]] /\ run[r].cp = cp /\ cp.last \in Nat
          /\ \A i \in Item : touched[r][i] > 0 => i <= cp.last
      BY <2>1, <2>2, HolderKnows DEF RunIInv, RunTypeOK, DecayOnce, Checkpoint
    <3>2. S \subseteq Item /\ \A i \in S : i > cp.last
      BY DEF Due, With
    <3>3. ASSUME NEW i \in S PROVE touched[r][i] = 0
      <4>1. i \in Nat /\ touched[r][i] \in Nat
        <5>1. i \in Item /\ Item \subseteq Nat
          BY <3>2, RunAssumption
        <5> QED
          BY <3>1, <5>1
      <4>2. i > cp.last /\ cp.last \in Nat
        BY <3>1, <3>2
      <4>3. ~(i <= cp.last)
        BY <4>1, <4>2
      <4> QED
        BY <3>1, <3>2, <4>1, <4>3
    <3> QED
      BY <3>2, <3>3
  <2>9. touched' = [touched EXCEPT ![r] = [i \in Item |-> IF i \in S THEN 1 ELSE @[i]]]
    <3>1. \A i \in Item : (IF i \in S THEN touched[r][i] + 1 ELSE touched[r][i])
                            = IF i \in S THEN 1 ELSE touched[r][i]
      BY <2>8
    <3>2. [i \in Item |-> IF i \in S THEN touched[r][i] + 1 ELSE touched[r][i]]
             = [i \in Item |-> IF i \in S THEN 1 ELSE touched[r][i]]
      BY <3>1
    <3> QED
      BY <2>4, <3>2
  <2>10. Promise!Cardinality(Promise!Decayed(r)') <= Limit
    <3>1. run'[r].cp.decayed = Cardinality(Decayed(r)') /\ run'[r].cp.decayed <= Limit
      BY DEF RunIInv, Counted
    <3>2. Promise!Decayed(r)' = Decayed(r)'
      BY DEF Decayed, Promise!Decayed
    <3> QED
      BY <3>1, <3>2, SameCardinality
  <2>11. Promise!Decay(r, S)
    BY <2>6, <2>7, <2>8, <2>9, <2>10 DEF Promise!Decay
  <2> QED
    BY <2>8, <2>11 DEF Promise!Next
<1>9. ASSUME NEW p \in Proc, Finalize(p) PROVE [Promise!Next]_<<Stage, touched>>
  <2>1. PICK r \in Run : r = ctl[p].run
    BY <1>9, HolderKnows DEF Finalize
  <2>2. /\ run' = [run EXCEPT ![r] = [status |-> "completed", cp |-> [ctl[p].cp EXCEPT !.phase = "completed"]]]
        /\ ctl[p].cp.phase = "finalize" /\ ctl[p].cp \in Checkpoint /\ UNCHANGED touched
        /\ run[r].cp = ctl[p].cp /\ run[r].status # "none"
    BY <1>9, <2>1, HolderKnows DEF Finalize, In
  <2>3. /\ run'[r].status = "completed" /\ run'[r].cp.phase = "completed"
        /\ \A q \in Run \ {r} : run'[q] = run[q]
    BY <1>1, <2>2 DEF Checkpoint
  <2>4. At(run[r]) = 5 /\ At(run'[r]) = 6
    BY <2>2, <2>3, Ranks DEF At
  <2>5. Promise!Advance(r)
    BY <2>3, <2>4, StageMove
  <2> QED
    BY <2>2, <2>5 DEF Promise!Next
<1>10. ASSUME NEW p \in Proc, Pause(p) PROVE [Promise!Next]_<<Stage, touched>>
  <2>1. PICK r \in Run : r = ctl[p].run
    BY <1>10, HolderKnows DEF Pause
  <2>2. /\ run' = [run EXCEPT ![r] = [status |-> "checkpointed", cp |-> ctl[p].cp]]
        /\ UNCHANGED touched /\ run[r].cp = ctl[p].cp /\ run[r].status # "none"
    BY <1>10, <2>1, HolderKnows DEF Pause
  <2>3. At(run'[r]) = At(run[r]) /\ \A q \in Run \ {r} : run'[q] = run[q]
    BY <1>1, <2>2 DEF At
  <2> QED
    BY <2>2, <2>3, StageMove
<1>11. ASSUME UNCHANGED <<run, touched>> PROVE UNCHANGED <<Stage, touched>>
  BY <1>11 DEF Stage
<1> QED
  BY <1>2, <1>3, <1>6, <1>7, <1>8, <1>9, <1>10, <1>11
  DEF Next, Work, Interrupt, Refused, Leave, Expire, Others, vars

\* The controller keeps what MaintenancePromise promises.
THEOREM RunImplementation == Spec => RunPromiseKept
<1>1. Init => Promise!Init
  BY DEF Init, Promise!Init, Stage
<1> QED
  BY <1>1, RunInvariant, StepRunPromise, PTL DEF Spec, RunPromiseKept, Promise!Spec
=============================================================================
