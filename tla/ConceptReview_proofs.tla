----------------------- MODULE ConceptReview_proofs -----------------------
(***************************************************************************)
(* Proofs about ConceptReview, for any candidates, runs, manifests,        *)
(* requests and processes.                                                 *)
(*                                                                         *)
(* The strengthening is HeldInv, what a process may rely on between its    *)
(* look and its transaction although nothing is locked: versions and       *)
(* reviews only grow, so the version it read is one there is, and what it  *)
(* wants to withdraw, once it has checked that, stays approved.            *)
(* Everything else a process read may be wrong by then, and no proof uses  *)
(* it.                                                                     *)
(***************************************************************************)
EXTENDS ConceptReview, TLAPS

HeldInv ==
    \A p \in Proc : job[p].req \in Review =>
        LET c == Request[job[p].req].candidate IN
        /\ job[p].seen \in Nat \ {0} /\ job[p].seen <= version[c]
        /\ job[p].fit /\ Request[job[p].req].action = "withdraw" =>
              \E n \in DOMAIN reviews[c] : Action(c, n) = "approve"

ReviewIInv ==
    /\ ReviewTypeOK /\ HeldInv /\ ProposedOnce /\ KeysOnce
    /\ VersionsLinear /\ NodeApproved /\ WithdrawGrounded

\* The order of versions is transitive.
LEMMA AtMost == \A a, b, c \in Nat : a <= b /\ b <= c => a <= c
  OBVIOUS

\* What a request is made of.
LEMMA RequestTypes ==
  ASSUME NEW q \in Review
  PROVE  /\ Request[q].candidate \in Candidate
         /\ Request[q].action \in {"approve", "edit", "reject", "withdraw"}
  BY ReviewAssumption DEF Actions

\* An event is added behind the others of its candidate.
Added(c, e, L) ==
    /\ reviews' \in [Candidate -> Seq(Event)]
    /\ L \in Nat \ {0} /\ L \in DOMAIN reviews'[c] /\ reviews'[c][L] = e
    /\ \A n \in DOMAIN reviews[c] : n \in Nat /\ n < L
    /\ \A d \in Candidate : \A n \in DOMAIN reviews[d] :
          n \in DOMAIN reviews'[d] /\ reviews'[d][n] = reviews[d][n] /\ (d = c => n # L)
    /\ \A d \in Candidate : \A n \in DOMAIN reviews'[d] :
          n \in DOMAIN reviews[d] \/ (d = c /\ n = L)

\* Appending adds one element behind those there were.
LEMMA Append1 ==
  ASSUME NEW S, NEW s \in Seq(S), NEW e \in S
  PROVE  /\ Append(s, e) \in Seq(S)
         /\ Len(s) + 1 \in DOMAIN Append(s, e) /\ Append(s, e)[Len(s) + 1] = e
         /\ \A n \in DOMAIN s : n \in DOMAIN Append(s, e) /\ Append(s, e)[n] = s[n] /\ n < Len(s) + 1
         /\ \A n \in DOMAIN Append(s, e) : n \in DOMAIN s \/ n = Len(s) + 1
<1>1. /\ Append(s, e) \in Seq(S)
      /\ DOMAIN s = 1 .. Len(s) /\ Len(s) \in Nat
      /\ DOMAIN Append(s, e) = 1 .. Len(s) + 1
  OBVIOUS
<1>2. Append(s, e)[Len(s) + 1] = e /\ \A n \in 1 .. Len(s) : Append(s, e)[n] = s[n]
  OBVIOUS
<1> QED
  BY <1>1, <1>2

\* A recorded event comes behind the others of its candidate.
LEMMA RecordAdds ==
  ASSUME ReviewTypeOK, NEW q \in Review, NEW seen \in Nat \ {0}, NEW next \in Nat \ {0},
         Record(q, seen, next)
  PROVE  Added(Request[q].candidate, [req |-> q, from |-> seen, to |-> next],
               Len(reviews[Request[q].candidate]) + 1)
<1> DEFINE c == Request[q].candidate
           e == [req |-> q, from |-> seen, to |-> next]
<1>1. c \in Candidate /\ e \in Event
  BY RequestTypes DEF Event
<1>2. reviews \in [Candidate -> Seq(Event)] /\ reviews[c] \in Seq(Event)
  BY <1>1 DEF ReviewTypeOK
<1>3. reviews' = [reviews EXCEPT ![c] = Append(reviews[c], e)]
  BY DEF Record
<1> HIDE DEF c, e
<1>4. reviews'[c] = Append(reviews[c], e) /\ \A d \in Candidate \ {c} : reviews'[d] = reviews[d]
  BY <1>1, <1>2, <1>3
<1>5. Append(reviews[c], e) \in Seq(Event)
  BY <1>1, <1>2, Append1
<1>6. reviews' \in [Candidate -> Seq(Event)]
  BY <1>2, <1>3, <1>5
<1>7. /\ Len(reviews[c]) \in Nat /\ DOMAIN reviews[c] = 1 .. Len(reviews[c])
      /\ Len(reviews[c]) + 1 \in Nat \ {0}
  BY <1>2
<1>8. /\ Len(reviews[c]) + 1 \in DOMAIN reviews'[c] /\ reviews'[c][Len(reviews[c]) + 1] = e
      /\ \A n \in DOMAIN reviews[c] : n \in DOMAIN reviews'[c] /\ reviews'[c][n] = reviews[c][n]
      /\ \A n \in DOMAIN reviews'[c] : n \in DOMAIN reviews[c] \/ n = Len(reviews[c]) + 1
  BY <1>1, <1>2, <1>4, Append1
<1>9. \A n \in DOMAIN reviews[c] : n \in Nat /\ n < Len(reviews[c]) + 1 /\ n # Len(reviews[c]) + 1
  BY <1>7
<1>10. Added(c, e, Len(reviews[c]) + 1)
  BY <1>1, <1>4, <1>6, <1>7, <1>8, <1>9 DEF Added
<1> QED
  BY <1>10 DEF c, e

\* The initial state satisfies the inductive invariant.
THEOREM InitReview == Init => ReviewIInv
<1> SUFFICES ASSUME Init PROVE ReviewIInv
  OBVIOUS
<1>1. ReviewTypeOK
  BY DEF Init, ReviewTypeOK, Idle
<1>2. HeldInv
  BY ReviewAssumption DEF Init, HeldInv, Idle
<1>3. ProposedOnce
  BY DEF Init, ProposedOnce, Known
<1>4. KeysOnce /\ VersionsLinear /\ NodeApproved /\ WithdrawGrounded
  BY DEF Init, KeysOnce, VersionsLinear, NodeApproved, WithdrawGrounded
<1> QED
  BY <1>1, <1>2, <1>3, <1>4 DEF ReviewIInv

\* A process has read a candidate's version for a request; has checked its state.
Took(p, q) ==
    /\ Request[q].candidate \in Known
    /\ job'[p] = [req |-> q, seen |-> version[Request[q].candidate], fit |-> FALSE]

Checked(p) ==
    job[p].req \in Review /\ Fit(job[p].req) /\ job'[p] = [job[p] EXCEPT !.fit = TRUE]

\* Steps that leave the tables alone.
LEMMA TablesKept ==
  ASSUME ReviewIInv, UNCHANGED <<grown, version, reviews, node, relation>>,
         eligible' \subseteq Candidate,
         job' \in [Proc -> [req : Growth \cup Review \cup {None}, seen : Nat, fit : BOOLEAN]],
         \A p \in Proc : job'[p] = job[p] \/ job'[p].req \notin Review
            \/ (\E q \in Review : Took(p, q)) \/ Checked(p)
  PROVE  ReviewIInv'
<1>1. ReviewTypeOK'
  BY DEF ReviewIInv, ReviewTypeOK
<1>2. ProposedOnce' /\ KeysOnce' /\ VersionsLinear' /\ NodeApproved' /\ WithdrawGrounded'
  BY DEF ReviewIInv, ProposedOnce, Known, KeysOnce, VersionsLinear, NodeApproved, WithdrawGrounded, Action
<1>3. HeldInv'
  <2> SUFFICES ASSUME NEW p \in Proc, job'[p].req \in Review
               PROVE  LET c == Request[job'[p].req].candidate IN
                      /\ job'[p].seen \in Nat \ {0} /\ job'[p].seen <= version[c]
                      /\ job'[p].fit /\ Request[job'[p].req].action = "withdraw" =>
                            \E n \in DOMAIN reviews[c] : Action(c, n) = "approve"
    BY DEF HeldInv, Action
  <2>1. CASE job'[p] = job[p]
    BY <2>1 DEF ReviewIInv, HeldInv
  <2>2. ASSUME NEW q \in Review, Took(p, q)
        PROVE  /\ job'[p].req = q /\ ~job'[p].fit
               /\ job'[p].seen \in Nat \ {0} /\ job'[p].seen <= version[Request[q].candidate]
    <3>1. Request[q].candidate \in Candidate /\ version \in [Candidate -> Nat]
      BY RequestTypes DEF ReviewIInv, ReviewTypeOK
    <3> QED
      BY <2>2, <3>1 DEF Known, Took
  <2>3. ASSUME Checked(p)
        PROVE  LET c == Request[job[p].req].candidate IN
               /\ job[p].req \in Review /\ job'[p].req = job[p].req /\ job'[p].seen = job[p].seen
               /\ Request[job[p].req].action = "withdraw" =>
                      \E n \in DOMAIN reviews[c] : Action(c, n) = "approve"
    <3> DEFINE q == job[p].req
               c == Request[q].candidate
    <3>1. c \in Candidate /\ reviews[c] \in Seq(Event)
      BY <2>3, RequestTypes DEF ReviewIInv, ReviewTypeOK, Checked
    <3>2. ASSUME Request[q].action = "withdraw"
          PROVE  \E n \in DOMAIN reviews[c] : Action(c, n) = "approve"
      <4>1. State(c) = "approve"
        BY <2>3, <3>2 DEF Fit, Checked
      <4>2. reviews[c] # << >> /\ Action(c, Len(reviews[c])) = "approve"
        BY <4>1 DEF State, Action
      <4>3. Len(reviews[c]) \in DOMAIN reviews[c]
        BY <3>1, <4>2
      <4> QED
        BY <4>2, <4>3
    <3>3. job[p] \in [req : Growth \cup Review \cup {None}, seen : Nat, fit : BOOLEAN]
      BY DEF ReviewIInv, ReviewTypeOK
    <3>4. job'[p].req = job[p].req /\ job'[p].seen = job[p].seen
      BY <2>3, <3>3 DEF Checked
    <3> QED
      BY <2>3, <3>2, <3>4 DEF Checked
  <2>4. job[p].req \in Review =>
            /\ job[p].seen \in Nat \ {0}
            /\ job[p].seen <= version[Request[job[p].req].candidate]
    BY DEF ReviewIInv, HeldInv
  <2> QED
    BY <2>1, <2>2, <2>3, <2>4
<1> QED
  BY <1>1, <1>2, <1>3 DEF ReviewIInv

\* A generation run that is written keeps the invariant.
LEMMA ProposeStep ==
  ASSUME ReviewIInv, NEW g \in Growth, Propose(g),
         job' \in [Proc -> [req : Growth \cup Review \cup {None}, seen : Nat, fit : BOOLEAN]],
         \A p \in Proc : job'[p] = job[p] \/ job'[p].req \notin Review
  PROVE  ReviewIInv'
<1>1. /\ Manifest[g] \subseteq Candidate /\ Manifest[g] \cap Known = {} /\ g \notin grown
      /\ version \in [Candidate -> Nat] /\ reviews \in [Candidate -> Seq(Event)]
      /\ \A c \in Candidate : version[c] <= version'[c] /\ version'[c] \in Nat
  BY ReviewAssumption DEF Propose, New, ReviewIInv, ReviewTypeOK, Known
<1>2. ReviewTypeOK'
  BY <1>1 DEF ReviewIInv, ReviewTypeOK, Propose
<1>3. HeldInv'
  <2> SUFFICES ASSUME NEW p \in Proc, job'[p].req \in Review
               PROVE  LET c == Request[job'[p].req].candidate IN
                      /\ job'[p].seen \in Nat \ {0} /\ job'[p].seen <= version'[c]
                      /\ job'[p].fit /\ Request[job'[p].req].action = "withdraw" =>
                            \E n \in DOMAIN reviews[c] : Action(c, n) = "approve"
    BY DEF HeldInv, Action, Propose
  <2>1. job'[p] = job[p] /\ job[p].req \in Review /\ Request[job[p].req].candidate \in Candidate
    BY RequestTypes
  <2>2. job[p].seen \in Nat \ {0} /\ job[p].seen <= version[Request[job[p].req].candidate]
    BY <2>1 DEF ReviewIInv, HeldInv
  <2> QED
    BY <1>1, <2>1, <2>2 DEF ReviewIInv, HeldInv
<1>4. ProposedOnce'
  <2>1. Known' = Known \cup Manifest[g]
    BY <1>1 DEF Known, Propose
  <2>2. Known = UNION {Manifest[h] : h \in grown}
    BY DEF ReviewIInv, ProposedOnce
  <2>3. grown' = grown \cup {g} /\ reviews' = reviews
    BY DEF Propose
  <2>4. Known' = UNION {Manifest[h] : h \in grown'}
    BY <2>1, <2>2, <2>3
  <2>5. \A h \in grown : Manifest[g] \cap Manifest[h] = {}
    BY <1>1, <2>2
  <2>6. \A h, k \in grown' : h # k => Manifest[h] \cap Manifest[k] = {}
    BY <2>3, <2>5 DEF ReviewIInv, ProposedOnce
  <2> QED
    BY <2>1, <2>3, <2>4, <2>6 DEF ReviewIInv, ProposedOnce
<1>5. KeysOnce' /\ NodeApproved' /\ WithdrawGrounded'
  BY DEF ReviewIInv, Propose, KeysOnce, NodeApproved, WithdrawGrounded, Action
<1>6. VersionsLinear'
  <2> SUFFICES ASSUME NEW c \in Candidate, NEW n \in DOMAIN reviews[c], Action(c, n) = "edit"
               PROVE  /\ reviews[c][n].to = reviews[c][n].from + 1 /\ reviews[c][n].to <= version'[c]
                      /\ \A m \in DOMAIN reviews[c] :
                            Action(c, m) = "edit" /\ m < n => reviews[c][m].to <= reviews[c][n].from
    BY DEF VersionsLinear, Propose, Action
  <2>1. reviews[c][n] \in Event
    BY <1>1
  <2> QED
    BY <1>1, <2>1 DEF ReviewIInv, VersionsLinear, Event
<1> QED
  BY <1>2, <1>3, <1>4, <1>5, <1>6 DEF ReviewIInv

\* What every committed review does, whatever it is.
LEMMA CommitStep ==
  ASSUME ReviewIInv, NEW p \in Proc, job[p].req \in Review, job[p].fit, Fresh(job[p].req),
         NEW next \in Nat \ {0}, Record(job[p].req, job[p].seen, next),
         job' = [job EXCEPT ![p] = Idle], UNCHANGED <<eligible, grown>>,
         version' \in [Candidate -> Nat], node' \in [Candidate -> Nat \cup {None}],
         relation' \subseteq Candidate \X Candidate,
         \A c \in Candidate : version[c] <= version'[c] /\ (version[c] = 0 => version'[c] = 0)
  PROVE  /\ Added(Request[job[p].req].candidate, [req |-> job[p].req, from |-> job[p].seen, to |-> next],
                  Len(reviews[Request[job[p].req].candidate]) + 1)
         /\ ReviewTypeOK' /\ HeldInv' /\ ProposedOnce' /\ KeysOnce' /\ WithdrawGrounded'
<1> DEFINE q == job[p].req
           c == Request[q].candidate
           e == [req |-> q, from |-> job[p].seen, to |-> next]
           L == Len(reviews[c]) + 1
<1>1. q \in Review /\ c \in Candidate /\ e.req = q
  BY RequestTypes
<1>2. /\ job[p].seen \in Nat \ {0} /\ job[p].seen <= version[c]
      /\ Request[q].action = "withdraw" => \E n \in DOMAIN reviews[c] : Action(c, n) = "approve"
  BY DEF ReviewIInv, HeldInv
<1>3. Added(c, e, L)
  BY <1>1, <1>2, RecordAdds DEF ReviewIInv
<1> HIDE DEF e, L
<1>4. /\ reviews' \in [Candidate -> Seq(Event)] /\ L \in DOMAIN reviews'[c] /\ reviews'[c][L] = e
      /\ \A d \in Candidate : \A n \in DOMAIN reviews[d] :
            n \in DOMAIN reviews'[d] /\ reviews'[d][n] = reviews[d][n] /\ (d = c => n # L)
      /\ \A d \in Candidate : \A n \in DOMAIN reviews'[d] : n \in DOMAIN reviews[d] \/ (d = c /\ n = L)
      /\ \A n \in DOMAIN reviews[c] : n < L
  BY <1>3 DEF Added
<1>5. job \in [Proc -> [req : Growth \cup Review \cup {None}, seen : Nat, fit : BOOLEAN]]
  BY DEF ReviewIInv, ReviewTypeOK
<1>6. job' \in [Proc -> [req : Growth \cup Review \cup {None}, seen : Nat, fit : BOOLEAN]]
      /\ \A r \in Proc : job'[r] = job[r] \/ job'[r].req = None
  BY <1>5 DEF Idle
<1>7. ReviewTypeOK'
  <2>1. \A d \in Candidate : \A n \in DOMAIN reviews[d] : Request[reviews[d][n].req].candidate = d
    BY DEF ReviewIInv, ReviewTypeOK
  <2>2. ASSUME NEW d \in Candidate, NEW n \in DOMAIN reviews'[d]
        PROVE  Request[reviews'[d][n].req].candidate = d
    <3>1. CASE n \in DOMAIN reviews[d]
      <4>1. reviews'[d][n] = reviews[d][n]
        BY <1>4, <3>1
      <4> QED
        BY <2>1, <3>1, <4>1
    <3>2. CASE d = c /\ n = L
      <4>1. reviews'[d][n].req = q
        BY <1>1, <1>4, <3>2
      <4> QED
        BY <3>2, <4>1
    <3> QED
      BY <1>4, <3>1, <3>2
  <2> QED
    BY <1>4, <1>6, <2>2 DEF ReviewIInv, ReviewTypeOK
<1>8. HeldInv'
  <2> SUFFICES ASSUME NEW r \in Proc, job'[r].req \in Review
               PROVE  LET d == Request[job'[r].req].candidate IN
                      /\ job'[r].seen \in Nat \ {0} /\ job'[r].seen <= version'[d]
                      /\ job'[r].fit /\ Request[job'[r].req].action = "withdraw" =>
                            \E n \in DOMAIN reviews'[d] : Request[reviews'[d][n].req].action = "approve"
    BY DEF HeldInv, Action
  <2>1. job'[r] = job[r] /\ job[r].req \in Review
    BY <1>6, ReviewAssumption
  <2> DEFINE d == Request[job[r].req].candidate
  <2>2. d \in Candidate /\ version[d] \in Nat /\ version'[d] \in Nat /\ version[d] <= version'[d]
    BY <2>1, RequestTypes DEF ReviewIInv, ReviewTypeOK
  <2>3. /\ job[r].seen \in Nat \ {0} /\ job[r].seen <= version[d]
        /\ job[r].fit /\ Request[job[r].req].action = "withdraw" =>
              \E n \in DOMAIN reviews[d] : Request[reviews[d][n].req].action = "approve"
    BY <2>1 DEF ReviewIInv, HeldInv, Action
  <2>4. ASSUME job[r].fit, Request[job[r].req].action = "withdraw"
        PROVE  \E n \in DOMAIN reviews'[d] : Request[reviews'[d][n].req].action = "approve"
    <3>1. PICK n \in DOMAIN reviews[d] : Request[reviews[d][n].req].action = "approve"
      BY <2>3, <2>4
    <3>2. n \in DOMAIN reviews'[d] /\ reviews'[d][n] = reviews[d][n]
      BY <1>4, <2>2
    <3> QED
      BY <3>1, <3>2
  <2>5. job[r].seen \in Nat \ {0} /\ job[r].seen <= version'[d]
    <3> HIDE DEF d
    <3>1. job[r].seen \in Nat \ {0} /\ job[r].seen <= version[d]
      BY <2>3
    <3>2. version[d] \in Nat /\ version'[d] \in Nat /\ version[d] <= version'[d]
      BY <2>2
    <3> QED
      BY <3>1, <3>2
  <2> QED
    BY <2>1, <2>4, <2>5
<1>9. ProposedOnce'
  <2>1. Known' = Known
    BY DEF Known, ReviewIInv, ReviewTypeOK
  <2>2. c \in Known
    BY <1>1, <1>2 DEF Known, ReviewIInv, ReviewTypeOK
  <2>3. \A d \in Candidate \ {c} : reviews'[d] # << >> => reviews[d] # << >>
    <3> SUFFICES ASSUME NEW d \in Candidate \ {c}, reviews'[d] # << >>, reviews[d] = << >>
                 PROVE  FALSE
      OBVIOUS
    <3>1. reviews'[d] \in Seq(Event)
      BY <1>4
    <3>2. 1 \in DOMAIN reviews'[d] /\ 1 \notin DOMAIN reviews[d]
      BY <3>1
    <3> QED
      BY <1>4, <3>2
  <2> QED
    BY <2>1, <2>2, <2>3 DEF ReviewIInv, ProposedOnce
<1>10. KeysOnce'
  <2> SUFFICES ASSUME NEW a \in Candidate, NEW b \in Candidate,
                      NEW m \in DOMAIN reviews'[a], NEW n \in DOMAIN reviews'[b],
                      Request[reviews'[a][m].req].key = Request[reviews'[b][n].req].key
               PROVE  a = b /\ m = n
    BY DEF KeysOnce
  <2>1. \A d \in Candidate : \A k \in DOMAIN reviews[d] : Request[reviews[d][k].req].key # Request[q].key
    BY DEF Fresh, Taken
  <2>2. CASE m \in DOMAIN reviews[a] /\ n \in DOMAIN reviews[b]
    <3>1. reviews'[a][m] = reviews[a][m] /\ reviews'[b][n] = reviews[b][n]
      BY <1>4, <2>2
    <3> QED
      BY <2>2, <3>1 DEF ReviewIInv, KeysOnce
  <2>3. CASE m \in DOMAIN reviews[a] /\ b = c /\ n = L
    <3>1. reviews'[a][m] = reviews[a][m]
      BY <1>4, <2>3
    <3>2. reviews'[b][n].req = q
      BY <1>1, <1>4, <2>3
    <3> QED
      BY <2>1, <2>3, <3>1, <3>2
  <2>4. CASE n \in DOMAIN reviews[b] /\ a = c /\ m = L
    <3>1. reviews'[b][n] = reviews[b][n]
      BY <1>4, <2>4
    <3>2. reviews'[a][m].req = q
      BY <1>1, <1>4, <2>4
    <3> QED
      BY <2>1, <2>4, <3>1, <3>2
  <2>5. /\ m \in DOMAIN reviews[a] \/ (a = c /\ m = L)
        /\ n \in DOMAIN reviews[b] \/ (b = c /\ n = L)
    BY <1>4
  <2> QED
    BY <2>2, <2>3, <2>4, <2>5
<1>11. WithdrawGrounded'
  <2> SUFFICES ASSUME NEW d \in Candidate, NEW n \in DOMAIN reviews'[d],
                      Request[reviews'[d][n].req].action = "withdraw"
               PROVE  \E m \in DOMAIN reviews'[d] : m < n /\ Request[reviews'[d][m].req].action = "approve"
    BY DEF WithdrawGrounded, Action
  <2>1. CASE n \in DOMAIN reviews[d]
    <3>1. \E m \in DOMAIN reviews[d] : m < n /\ Request[reviews[d][m].req].action = "approve"
      BY <1>4, <2>1 DEF ReviewIInv, WithdrawGrounded, Action
    <3> QED
      BY <1>4, <3>1
  <2>2. CASE d = c /\ n = L
    <3>1. \E m \in DOMAIN reviews[c] : Request[reviews[c][m].req].action = "approve"
      BY <1>1, <1>2, <1>4, <2>2 DEF Action
    <3> QED
      BY <1>1, <1>4, <2>2, <3>1
  <2> QED
    BY <1>4, <2>1, <2>2
<1> QED
  BY <1>3, <1>7, <1>8, <1>9, <1>10, <1>11 DEF e, L

\* An edit makes the version after the one it was read from: no other edit
\* came in between.
LEMMA EditStep ==
  ASSUME ReviewIInv, NEW p \in Proc, job[p].req \in Review, job[p].fit, Fresh(job[p].req),
         Edit(job[p].req, job[p].seen),
         job' = [job EXCEPT ![p] = Idle], UNCHANGED <<eligible, grown>>
  PROVE  ReviewIInv'
<1> DEFINE q == job[p].req
           c == Request[q].candidate
           s == job[p].seen
           L == Len(reviews[c]) + 1
<1>1. c \in Candidate /\ s \in Nat \ {0} /\ s + 1 \in Nat \ {0}
  BY RequestTypes DEF ReviewIInv, HeldInv
<1>2. /\ version \in [Candidate -> Nat] /\ version[c] = s
      /\ version' = [version EXCEPT ![c] = s + 1] /\ node' = node /\ relation' = relation
      /\ Request[q].action = "edit" /\ Record(q, s, s + 1)
  BY DEF ReviewIInv, ReviewTypeOK, Edit, NextVersion
<1>3. /\ version' \in [Candidate -> Nat] /\ version'[c] = s + 1
      /\ \A d \in Candidate : version[d] <= version'[d] /\ (version[d] = 0 => version'[d] = 0)
  BY <1>1, <1>2
<1>4. /\ Added(c, [req |-> q, from |-> s, to |-> s + 1], L)
      /\ ReviewTypeOK' /\ HeldInv' /\ ProposedOnce' /\ KeysOnce' /\ WithdrawGrounded'
  BY <1>1, <1>2, <1>3, CommitStep DEF ReviewIInv, ReviewTypeOK
<1> HIDE DEF q, c, s, L
<1>5. /\ reviews'[c][L].req = q /\ reviews'[c][L].from = s /\ reviews'[c][L].to = s + 1
      /\ L \in Nat /\ L \in DOMAIN reviews'[c]
      /\ \A d \in Candidate : \A n \in DOMAIN reviews[d] :
            n \in DOMAIN reviews'[d] /\ reviews'[d][n] = reviews[d][n] /\ (d = c => n # L)
      /\ \A d \in Candidate : \A n \in DOMAIN reviews'[d] : n \in DOMAIN reviews[d] \/ (d = c /\ n = L)
      /\ \A n \in DOMAIN reviews[c] : n \in Nat /\ n < L /\ ~(L < n)
  BY <1>4 DEF Added
<1>6. VersionsLinear'
  <2> SUFFICES ASSUME NEW d \in Candidate, NEW n \in DOMAIN reviews'[d],
                      Request[reviews'[d][n].req].action = "edit"
               PROVE  /\ reviews'[d][n].to = reviews'[d][n].from + 1 /\ reviews'[d][n].to <= version'[d]
                      /\ \A m \in DOMAIN reviews'[d] :
                            Request[reviews'[d][m].req].action = "edit" /\ m < n
                               => reviews'[d][m].to <= reviews'[d][n].from
    BY DEF VersionsLinear, Action
  <2>1. \A m \in DOMAIN reviews[d] : Request[reviews[d][m].req].action = "edit" =>
           /\ reviews[d][m].to = reviews[d][m].from + 1 /\ reviews[d][m].to <= version[d]
           /\ \A k \in DOMAIN reviews[d] :
                 Request[reviews[d][k].req].action = "edit" /\ k < m => reviews[d][k].to <= reviews[d][m].from
    BY DEF ReviewIInv, VersionsLinear, Action
  <2>2. CASE n \in DOMAIN reviews[d]
    <3>0. reviews[d] \in Seq(Event) /\ version[d] \in Nat /\ version'[d] \in Nat
      BY <1>3 DEF ReviewIInv, ReviewTypeOK
    <3>1. reviews'[d][n] = reviews[d][n] /\ reviews[d][n].to \in Nat
      <4>1. reviews[d][n] \in Event
        BY <2>2, <3>0
      <4> QED
        BY <1>5, <2>2, <4>1 DEF Event
    <3>2. reviews'[d][n].to = reviews'[d][n].from + 1 /\ reviews'[d][n].to <= version'[d]
      <4>1. reviews[d][n].to = reviews[d][n].from + 1 /\ reviews[d][n].to <= version[d]
        BY <2>1, <2>2, <3>1
      <4>2. version[d] <= version'[d]
        BY <1>3
      <4> QED
        BY <3>0, <3>1, <4>1, <4>2, AtMost
    <3>3. ASSUME NEW m \in DOMAIN reviews'[d], Request[reviews'[d][m].req].action = "edit", m < n
          PROVE  reviews'[d][m].to <= reviews'[d][n].from
      <4>1. m \in DOMAIN reviews[d]
        BY <1>5, <2>2, <3>3
      <4>2. reviews'[d][m] = reviews[d][m]
        BY <1>5, <4>1
      <4> QED
        BY <2>1, <2>2, <3>1, <3>3, <4>1, <4>2
    <3> QED
      BY <3>2, <3>3
  <2>3. CASE d = c /\ n = L
    <3>1. reviews'[d][n].to = reviews'[d][n].from + 1 /\ reviews'[d][n].to <= version'[d]
      <4>1. reviews'[d][n].to = s + 1 /\ reviews'[d][n].from = s /\ version'[d] = s + 1
        BY <1>3, <1>5, <2>3
      <4> QED
        BY <1>1, <4>1
    <3>2. ASSUME NEW m \in DOMAIN reviews'[d], Request[reviews'[d][m].req].action = "edit", m < n
          PROVE  reviews'[d][m].to <= reviews'[d][n].from
      <4>1. m \in DOMAIN reviews[d]
        <5>1. m = L => FALSE
          BY <1>5, <2>3, <3>2
        <5> QED
          BY <1>5, <2>3, <5>1
      <4>2. reviews'[d][m] = reviews[d][m]
        BY <1>5, <4>1
      <4>3. reviews[d][m].to <= version[c]
        BY <2>1, <2>3, <3>2, <4>1, <4>2
      <4> QED
        BY <1>2, <1>5, <2>3, <4>2, <4>3
    <3> QED
      BY <3>1, <3>2
  <2> QED
    BY <1>5, <2>2, <2>3
<1>7. NodeApproved'
  <2>1. \A d \in Candidate :
           /\ node[d] # None <=> \E n \in DOMAIN reviews[d] : Request[reviews[d][n].req].action = "approve"
           /\ \A n \in DOMAIN reviews[d] : Request[reviews[d][n].req].action = "approve" =>
                 /\ reviews[d][n].from = node[d]
                 /\ \A m \in DOMAIN reviews[d] : Request[reviews[d][m].req].action = "approve" => m = n
    BY DEF ReviewIInv, NodeApproved, Action
  <2>2. ASSUME NEW d \in Candidate, NEW n
        PROVE  n \in DOMAIN reviews'[d] /\ Request[reviews'[d][n].req].action = "approve" <=>
               n \in DOMAIN reviews[d] /\ Request[reviews[d][n].req].action = "approve"
    BY <1>2, <1>5
  <2>3. \A d \in Candidate : \A n \in DOMAIN reviews[d] : reviews'[d][n] = reviews[d][n]
    BY <1>5
  <2> QED
    BY <1>2, <2>1, <2>2, <2>3 DEF NodeApproved, Action
<1> QED
  BY <1>4, <1>6, <1>7 DEF ReviewIInv

\* An event that is no edit leaves the line of versions as it is.
LEMMA OtherEvent ==
  ASSUME ReviewIInv, NEW c \in Candidate, NEW e \in Event, NEW L, Added(c, e, L),
         Request[e.req].action # "edit", UNCHANGED version
  PROVE  VersionsLinear'
<1>1. \A d \in Candidate : \A n \in DOMAIN reviews[d] : Request[reviews[d][n].req].action = "edit" =>
         /\ reviews[d][n].to = reviews[d][n].from + 1 /\ reviews[d][n].to <= version[d]
         /\ \A k \in DOMAIN reviews[d] :
               Request[reviews[d][k].req].action = "edit" /\ k < n => reviews[d][k].to <= reviews[d][n].from
  BY DEF ReviewIInv, VersionsLinear, Action
<1>2. ASSUME NEW d \in Candidate, NEW n \in DOMAIN reviews'[d], Request[reviews'[d][n].req].action = "edit"
      PROVE  n \in DOMAIN reviews[d] /\ reviews'[d][n] = reviews[d][n]
  BY <1>2 DEF Added
<1>3. ASSUME NEW d \in Candidate, NEW n \in DOMAIN reviews'[d], Request[reviews'[d][n].req].action = "edit"
      PROVE  /\ reviews'[d][n].to = reviews'[d][n].from + 1 /\ reviews'[d][n].to <= version'[d]
             /\ \A k \in DOMAIN reviews'[d] :
                   Request[reviews'[d][k].req].action = "edit" /\ k < n
                      => reviews'[d][k].to <= reviews'[d][n].from
  <2>1. n \in DOMAIN reviews[d] /\ reviews'[d][n] = reviews[d][n]
    BY <1>2, <1>3
  <2>2. ASSUME NEW k \in DOMAIN reviews'[d], Request[reviews'[d][k].req].action = "edit", k < n
        PROVE  reviews'[d][k].to <= reviews'[d][n].from
    <3>1. k \in DOMAIN reviews[d] /\ reviews'[d][k] = reviews[d][k]
      BY <1>2, <2>2
    <3> QED
      BY <1>1, <1>3, <2>1, <2>2, <3>1
  <2> QED
    BY <1>1, <1>3, <2>1, <2>2
<1> QED
  BY <1>3 DEF VersionsLinear, Action

\* The first approval makes the node, and the node keeps out a second one.
LEMMA ApproveStep ==
  ASSUME ReviewIInv, NEW p \in Proc, job[p].req \in Review, job[p].fit, Fresh(job[p].req),
         Approve(job[p].req, job[p].seen),
         job' = [job EXCEPT ![p] = Idle], UNCHANGED <<eligible, grown>>
  PROVE  ReviewIInv'
<1> DEFINE q == job[p].req
           c == Request[q].candidate
           d == Request[q].related
           s == job[p].seen
           e == [req |-> q, from |-> s, to |-> s]
           L == Len(reviews[c]) + 1
<1>1. q \in Review /\ c \in Candidate /\ d \in Candidate \cup {None} /\ s \in Nat \ {0} /\ e \in Event
  BY RequestTypes, ReviewAssumption DEF ReviewIInv, HeldInv, Event
<1>2. /\ node \in [Candidate -> Nat \cup {None}] /\ node[c] = None
      /\ node' = [node EXCEPT ![c] = s] /\ version' = version
      /\ relation' = relation \cup (IF d = None THEN {} ELSE {<<c, d>>})
      /\ Request[q].action = "approve" /\ Record(q, s, s)
  BY DEF ReviewIInv, ReviewTypeOK, Approve, NodeFree
<1>3. /\ node' \in [Candidate -> Nat \cup {None}] /\ relation' \subseteq Candidate \X Candidate
      /\ version' \in [Candidate -> Nat]
      /\ \A x \in Candidate : version[x] <= version'[x] /\ (version[x] = 0 => version'[x] = 0)
  BY <1>1, <1>2 DEF ReviewIInv, ReviewTypeOK
<1>4. /\ Added(c, e, L)
      /\ ReviewTypeOK' /\ HeldInv' /\ ProposedOnce' /\ KeysOnce' /\ WithdrawGrounded'
  BY <1>1, <1>2, <1>3, CommitStep
<1>5. VersionsLinear'
  BY <1>1, <1>2, <1>4, OtherEvent
<1>6. s # None /\ e.req = q /\ e.from = s
  BY <1>1, ReviewAssumption
<1> HIDE DEF q, c, d, s, e, L
<1>7. NodeApproved'
  <2>1. \A x \in Candidate :
           /\ node[x] # None <=> \E n \in DOMAIN reviews[x] : Request[reviews[x][n].req].action = "approve"
           /\ \A n \in DOMAIN reviews[x] : Request[reviews[x][n].req].action = "approve" =>
                 /\ reviews[x][n].from = node[x]
                 /\ \A m \in DOMAIN reviews[x] : Request[reviews[x][m].req].action = "approve" => m = n
    BY DEF ReviewIInv, NodeApproved, Action
  <2>2. /\ L \in DOMAIN reviews'[c] /\ reviews'[c][L] = e
        /\ \A n \in DOMAIN reviews'[c] : Request[reviews'[c][n].req].action = "approve" => n = L
    BY <1>1, <1>2, <1>4, <2>1 DEF Added
  <2>3. node'[c] = s /\ \A x \in Candidate \ {c} : node'[x] = node[x] /\ reviews'[x] = reviews[x]
    <3>1. \A x \in Candidate \ {c} : reviews'[x] = reviews[x]
      BY <1>1, <1>2, <1>4 DEF Record, ReviewIInv, ReviewTypeOK, c
    <3> QED
      BY <1>1, <1>2, <3>1
  <2>4. ASSUME NEW x \in Candidate
        PROVE  /\ node'[x] # None <=> \E n \in DOMAIN reviews'[x] : Request[reviews'[x][n].req].action = "approve"
               /\ \A n \in DOMAIN reviews'[x] : Request[reviews'[x][n].req].action = "approve" =>
                     /\ reviews'[x][n].from = node'[x]
                     /\ \A m \in DOMAIN reviews'[x] : Request[reviews'[x][m].req].action = "approve" => m = n
    <3>1. CASE x = c
      <4>1. Request[reviews'[c][L].req].action = "approve" /\ reviews'[c][L].from = s
        BY <1>2, <1>6, <2>2
      <4> QED
        BY <1>6, <2>2, <2>3, <3>1, <4>1
    <3>2. CASE x # c
      BY <2>1, <2>3, <3>2
    <3> QED
      BY <3>1, <3>2
  <2> QED
    BY <2>4 DEF NodeApproved, Action
<1> QED
  BY <1>4, <1>5, <1>7 DEF ReviewIInv

\* A rejection or a withdrawal keeps the invariant.
LEMMA CloseStep ==
  ASSUME ReviewIInv, NEW p \in Proc, job[p].req \in Review, job[p].fit, Fresh(job[p].req),
         Close(job[p].req, job[p].seen),
         job' = [job EXCEPT ![p] = Idle], UNCHANGED <<eligible, grown>>
  PROVE  ReviewIInv'
<1> DEFINE q == job[p].req
           c == Request[q].candidate
           s == job[p].seen
           e == [req |-> q, from |-> s, to |-> s]
           L == Len(reviews[c]) + 1
<1>1. q \in Review /\ c \in Candidate /\ s \in Nat \ {0} /\ e \in Event /\ e.req = q
  BY RequestTypes DEF ReviewIInv, HeldInv, Event
<1>2. /\ UNCHANGED <<version, node, relation>>
      /\ Request[q].action # "edit" /\ Request[q].action # "approve" /\ Record(q, s, s)
  BY DEF Close
<1>3. /\ node' \in [Candidate -> Nat \cup {None}] /\ relation' \subseteq Candidate \X Candidate
      /\ version' \in [Candidate -> Nat]
      /\ \A x \in Candidate : version[x] <= version'[x] /\ (version[x] = 0 => version'[x] = 0)
  BY <1>1, <1>2 DEF ReviewIInv, ReviewTypeOK
<1>4. /\ Added(c, e, L)
      /\ ReviewTypeOK' /\ HeldInv' /\ ProposedOnce' /\ KeysOnce' /\ WithdrawGrounded'
  BY <1>1, <1>2, <1>3, CommitStep
<1>5. VersionsLinear'
  BY <1>1, <1>2, <1>4, OtherEvent
<1> HIDE DEF q, c, s, e, L
<1>6. NodeApproved'
  <2>1. \A x \in Candidate :
           /\ node[x] # None <=> \E n \in DOMAIN reviews[x] : Request[reviews[x][n].req].action = "approve"
           /\ \A n \in DOMAIN reviews[x] : Request[reviews[x][n].req].action = "approve" =>
                 /\ reviews[x][n].from = node[x]
                 /\ \A m \in DOMAIN reviews[x] : Request[reviews[x][m].req].action = "approve" => m = n
    BY DEF ReviewIInv, NodeApproved, Action
  <2>2. ASSUME NEW x \in Candidate, NEW n
        PROVE  n \in DOMAIN reviews'[x] /\ Request[reviews'[x][n].req].action = "approve" <=>
               n \in DOMAIN reviews[x] /\ Request[reviews[x][n].req].action = "approve"
    BY <1>1, <1>2, <1>4 DEF Added
  <2>3. \A x \in Candidate : \A n \in DOMAIN reviews[x] : reviews'[x][n] = reviews[x][n]
    BY <1>4 DEF Added
  <2> QED
    BY <1>2, <2>1, <2>2, <2>3 DEF NodeApproved, Action
<1> QED
  BY <1>4, <1>5, <1>6 DEF ReviewIInv

\* The invariant is inductive.
THEOREM NextReview == ReviewIInv /\ [Next]_vars => ReviewIInv'
<1> SUFFICES ASSUME ReviewIInv, [Next]_vars PROVE ReviewIInv'
  OBVIOUS
<1>1. /\ job \in [Proc -> [req : Growth \cup Review \cup {None}, seen : Nat, fit : BOOLEAN]]
      /\ eligible \subseteq Candidate /\ version \in [Candidate -> Nat]
  BY DEF ReviewIInv, ReviewTypeOK
<1>2. /\ \A q \in Review : q # None /\ q \notin Growth
      /\ Idle = [req |-> None, seen |-> 0, fit |-> FALSE]
  BY ReviewAssumption DEF Idle
<1>3. ASSUME NEW p \in Proc, NEW g \in Growth, Collect(p, g) PROVE ReviewIInv'
  <2>1. UNCHANGED <<grown, version, reviews, node, relation>> /\ eligible' \subseteq Candidate
    BY <1>1, <1>3 DEF Collect
  <2>2. /\ job' \in [Proc -> [req : Growth \cup Review \cup {None}, seen : Nat, fit : BOOLEAN]]
        /\ \A r \in Proc : job'[r] = job[r] \/ job'[r].req = g
    BY <1>1, <1>3 DEF Collect
  <2> QED
    BY <1>2, <2>1, <2>2, TablesKept
<1>4. ASSUME NEW p \in Proc, NEW q \in Review, Look(p, q) PROVE ReviewIInv'
  <2>1. UNCHANGED <<grown, version, reviews, node, relation>> /\ eligible' \subseteq Candidate
    BY <1>1, <1>4 DEF Look
  <2>2. /\ job' \in [Proc -> [req : Growth \cup Review \cup {None}, seen : Nat, fit : BOOLEAN]]
        /\ job'[p] = [req |-> q, seen |-> version[Request[q].candidate], fit |-> FALSE]
        /\ \A r \in Proc \ {p} : job'[r] = job[r]
    BY <1>1, <1>4, RequestTypes DEF Look
  <2>3. Took(p, q)
    BY <1>4, <2>2 DEF Look, Took
  <2> QED
    BY <2>1, <2>2, <2>3, TablesKept
<1>4a. ASSUME NEW p \in Proc, Check(p) PROVE ReviewIInv'
  <2>1. UNCHANGED <<grown, version, reviews, node, relation>> /\ eligible' \subseteq Candidate
    BY <1>1, <1>4a DEF Check
  <2>2. job[p].req \in Review /\ Fit(job[p].req)
    BY <1>4a DEF Check
  <2>3. job' = [job EXCEPT ![p] = [job[p] EXCEPT !.fit = TRUE]]
    BY <1>4a DEF Check
  <2>4. job' \in [Proc -> [req : Growth \cup Review \cup {None}, seen : Nat, fit : BOOLEAN]]
    BY <1>1, <2>3
  <2>5. job'[p] = [job[p] EXCEPT !.fit = TRUE] /\ \A r \in Proc \ {p} : job'[r] = job[r]
    BY <1>1, <2>3
  <2>6. Checked(p)
    BY <2>2, <2>5 DEF Checked
  <2> QED
    BY <2>1, <2>4, <2>5, <2>6, TablesKept
<1>5. ASSUME NEW p \in Proc, Generate(p) PROVE ReviewIInv'
  <2>1. /\ job' \in [Proc -> [req : Growth \cup Review \cup {None}, seen : Nat, fit : BOOLEAN]]
        /\ \A r \in Proc : job'[r] = job[r] \/ job'[r].req = None
    BY <1>1, <1>2, <1>5 DEF Generate
  <2> QED
    BY <1>2, <1>5, <2>1, ProposeStep DEF Generate
<1>6. ASSUME NEW p \in Proc, Commit(p) PROVE ReviewIInv'
  BY <1>6, EditStep, ApproveStep, CloseStep DEF Commit
<1>7. ASSUME NEW p \in Proc, Drop(p) PROVE ReviewIInv'
  <2>1. UNCHANGED <<grown, version, reviews, node, relation>> /\ eligible' \subseteq Candidate
    BY <1>1, <1>7 DEF Drop
  <2>2. /\ job' \in [Proc -> [req : Growth \cup Review \cup {None}, seen : Nat, fit : BOOLEAN]]
        /\ \A r \in Proc : job'[r] = job[r] \/ job'[r].req = None
    BY <1>1, <1>2, <1>7 DEF Drop
  <2> QED
    BY <1>2, <2>1, <2>2, TablesKept
<1>8. ASSUME NEW g \in Growth, GenerateWithin(g) PROVE ReviewIInv'
  BY <1>1, <1>8, ProposeStep DEF GenerateWithin
<1>9. ASSUME NEW c \in Candidate, Judge(c) PROVE ReviewIInv'
  <2>1. UNCHANGED <<grown, version, reviews, node, relation, job>> /\ eligible' \subseteq Candidate
    BY <1>1, <1>9 DEF Judge
  <2> QED
    BY <1>1, <2>1, TablesKept
<1>10. CASE UNCHANGED vars
  BY <1>1, <1>10, TablesKept DEF vars
<1> QED
  BY <1>3, <1>4, <1>5, <1>6, <1>7, <1>8, <1>9, <1>10, <1>4a DEF Next

\* The inductive invariant holds in every reachable state.
THEOREM ReviewInvariant == Spec => []ReviewIInv
  BY InitReview, NextReview, PTL DEF Spec

\* Every variable keeps its type, and an event is of its candidate.
THEOREM ReviewTypes == Spec => []ReviewTypeOK
<1>1. ReviewIInv => ReviewTypeOK
  BY DEF ReviewIInv
<1> QED
  BY <1>1, ReviewInvariant, PTL

\* Racing generation runs propose a candidate once.
THEOREM ProposedHolds == Spec => []ProposedOnce
<1>1. ReviewIInv => ProposedOnce
  BY DEF ReviewIInv
<1> QED
  BY <1>1, ReviewInvariant, PTL

\* A request takes effect once.
THEOREM KeysHold == Spec => []KeysOnce
<1>1. ReviewIInv => KeysOnce
  BY DEF ReviewIInv
<1> QED
  BY <1>1, ReviewInvariant, PTL

\* No edit is lost under another one.
THEOREM VersionsHold == Spec => []VersionsLinear
<1>1. ReviewIInv => VersionsLinear
  BY DEF ReviewIInv
<1> QED
  BY <1>1, ReviewInvariant, PTL

\* The nodes are those of the approvals, and only what had been approved is
\* withdrawn.
THEOREM ApprovalHolds == Spec => []ApprovalSound
<1>1. ReviewIInv => ApprovalSound
  BY DEF ReviewIInv, ApprovalSound
<1> QED
  BY <1>1, ReviewInvariant, PTL

(***************************************************************************)
(* There is no circle of generalizations: what a concept generalizes had   *)
(* its node before, so that nothing generalizes a concept that is only now *)
(* approved, and the relation it brings closes no circle.                  *)
(***************************************************************************)
Founded == \A c, d \in Candidate : <<c, d>> \in relation /\ c # d => node[d] # None

\* A relation of a concept that had no node keeps the layers.
LEMMA AddRelation ==
  ASSUME Acyclic, Founded, NEW a \in Candidate, NEW b \in Candidate, node[a] = None,
         relation' \subseteq relation \cup {<<a, b>>}
  PROVE  Acyclic'
<1> SUFFICES ASSUME NEW S \in SUBSET Candidate, S # {}
             PROVE  \E c \in S : \A d \in S : <<c, d>> \in relation' => d = c
  BY DEF Acyclic
<1>1. PICK c \in S : \A d \in S : <<c, d>> \in relation => d = c
  BY DEF Acyclic
<1>2. CASE c # a \/ b \notin S \/ b = a
  BY <1>1, <1>2
<1>3. CASE c = a /\ b \in S /\ b # a
  <2>1. S \ {a} \in SUBSET Candidate /\ S \ {a} # {}
    BY <1>3
  <2>2. PICK y \in S \ {a} : \A d \in S \ {a} : <<y, d>> \in relation => d = y
    BY <2>1 DEF Acyclic
  <2>3. <<y, a>> \notin relation
    BY <2>2 DEF Founded
  <2> QED
    BY <2>2, <2>3
<1> QED
  BY <1>2, <1>3

\* Every step keeps the layers.
THEOREM NextAcyclic == ReviewIInv /\ Acyclic /\ Founded /\ [Next]_vars => Acyclic' /\ Founded'
<1> SUFFICES ASSUME ReviewIInv, Acyclic, Founded, [Next]_vars PROVE Acyclic' /\ Founded'
  OBVIOUS
<1>1. CASE UNCHANGED <<node, relation>>
  BY <1>1 DEF Acyclic, Founded
<1>2. ASSUME NEW p \in Proc, job[p].req \in Review, Approve(job[p].req, job[p].seen)
      PROVE  Acyclic' /\ Founded'
  <2> DEFINE q == job[p].req
  <2>1. PICK a \in Candidate, b \in Candidate \cup {None} : a = Request[q].candidate /\ b = Request[q].related
    BY <1>2, RequestTypes, ReviewAssumption
  <2>2. /\ job[p].seen \in Nat /\ job[p].seen # None
        /\ node \in [Candidate -> Nat \cup {None}]
    BY <1>2, ReviewAssumption DEF ReviewIInv, HeldInv, ReviewTypeOK
  <2>3. /\ node[a] = None /\ node' = [node EXCEPT ![a] = job[p].seen]
        /\ relation' = relation \cup (IF b = None THEN {} ELSE {<<a, b>>})
        /\ b \notin {None, a} => node[b] # None
    BY <1>2, <2>1 DEF Approve, NodeFree, Related
  <2>4. \A c \in Candidate : node[c] # None => node'[c] # None
    BY <2>2, <2>3
  <2>5. CASE b = None
    BY <2>3, <2>4, <2>5 DEF Acyclic, Founded
  <2>6. CASE b # None
    <3>1. Acyclic'
      BY <2>3, <2>6, AddRelation
    <3>2. Founded'
      BY <2>3, <2>4, <2>6 DEF Founded
    <3> QED
      BY <3>1, <3>2
  <2> QED
    BY <2>5, <2>6
<1> QED
  BY <1>1, <1>2
  DEF Next, Collect, Look, Check, Generate, GenerateWithin, Propose, Commit, Edit, Close, Drop, Judge, vars

\* However concepts are approved and related, no circle of generalizations
\* comes to be.
THEOREM AcyclicHolds == Spec => []Acyclic
<1>1. Init => Acyclic /\ Founded
  <2> SUFFICES ASSUME relation = {} PROVE Acyclic /\ Founded
    BY DEF Init
  <2>1. ASSUME NEW S \in SUBSET Candidate, S # {} PROVE \E c \in S : TRUE
    BY <2>1
  <2> QED
    BY <2>1 DEF Acyclic, Founded
<1> QED
  BY <1>1, ReviewInvariant, NextAcyclic, PTL DEF Spec
=============================================================================
