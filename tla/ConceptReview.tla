--------------------------- MODULE ConceptReview ---------------------------
(***************************************************************************)
(* Concept growth and review: concept_growth.c.  A generation run proposes *)
(* the candidates that the evidence makes eligible, if its manifest names  *)
(* exactly those; reviews edit, approve, reject or withdraw a candidate,   *)
(* and an approval makes the concept node.  Every table only grows.        *)
(*                                                                         *)
(* A process reads (the eligible candidates; a candidate's last version,   *)
(* and after it the candidate's state), checks and only then begins its    *)
(* transaction, which writes with what was read: in between the keys of    *)
(* the tables are all that holds.                                          *)
(*                                                                         *)
(* A review request stands for its content, the text of an edit included.  *)
(* The chain of hashes over all reviews is a sequence for each candidate.  *)
(***************************************************************************)
EXTENDS Naturals, Sequences, FiniteSets

CONSTANTS
    Proc,       \* processes
    Candidate,  \* what the evidence can make eligible
    Growth,     \* generation runs
    Manifest,   \* the candidates the manifest of each run approves
    Review,     \* review requests
    Request,    \* each one's candidate, action, key and related candidate
    None

Actions == {"approve", "edit", "reject", "withdraw"}
Key     == {Request[q].key : q \in Review}

ASSUME ReviewAssumption ==
    /\ Manifest \in [Growth -> SUBSET Candidate]
    /\ \A q \in Review :
          /\ DOMAIN Request[q] = {"candidate", "action", "key", "related"}
          /\ Request[q].candidate \in Candidate /\ Request[q].action \in Actions
          /\ Request[q].related \in Candidate \cup {None}
    /\ Review \cap Growth = {}
    /\ None \notin Candidate \cup Review \cup Growth \cup Nat

VARIABLES
    eligible,   \* the candidates that the evidence supports now
    grown,      \* concept_growth_run
    version,    \* the last concept_candidate_version; 0: no such candidate
    reviews,    \* concept_review_event, for each candidate in its order
    node,       \* concept_node: the candidate version it was made of, or None
    relation,   \* concept_relation: the pairs <<a, b>> where a generalizes b
    job         \* what each process has read and not yet written: its request,
                \* the version it saw, and whether it has checked the state

vars == <<eligible, grown, version, reviews, node, relation, job>>

Idle == [req |-> None, seen |-> 0, fit |-> FALSE]

Init ==
    /\ eligible \in SUBSET Candidate /\ grown = {}
    /\ version = [c \in Candidate |-> 0] /\ reviews = [c \in Candidate |-> << >>]
    /\ node = [c \in Candidate |-> None] /\ relation = {}
    /\ job = [p \in Proc |-> Idle]

\* Slip: a candidate that is not there is reviewed.
KnownAny == Candidate

Known == {c \in Candidate : version[c] > 0}

(***************************************************************************)
(* Generation.                                                             *)
(***************************************************************************)
\* Not recorded yet, and the manifest names the candidates collected now.
Supported(g) == g \notin grown /\ Manifest[g] = eligible

\* Slip: a candidate that is known already is left as it is.
NewSome(g) == g \notin grown

\* The keys of the run and of its candidates.
New(g) == g \notin grown /\ Manifest[g] \cap Known = {}

Propose(g) ==
    /\ New(g)
    /\ grown' = grown \cup {g}
    /\ version' = [c \in Candidate |-> IF c \in Manifest[g] THEN 1 ELSE version[c]]
    /\ UNCHANGED <<eligible, reviews, node, relation>>

Collect(p, g) ==
    /\ job[p] = Idle /\ Supported(g)
    /\ job' = [job EXCEPT ![p] = [req |-> g, seen |-> 0, fit |-> FALSE]]
    /\ UNCHANGED <<eligible, grown, version, reviews, node, relation>>

Generate(p) ==
    /\ job[p].req \in Growth /\ Propose(job[p].req)
    /\ job' = [job EXCEPT ![p] = Idle]

\* cbm_store_memory_concept_generate_in_transaction.
GenerateWithin(g) == Supported(g) /\ Propose(g) /\ UNCHANGED job

(***************************************************************************)
(* Review.                                                                 *)
(***************************************************************************)
\* stage10_candidate_state: what the last review left; an edit leaves it open.
State(c) ==
    IF reviews[c] = << >> THEN "edit" ELSE Request[reviews[c][Len(reviews[c])].req].action

Taken(key) == \E c \in Candidate : \E n \in DOMAIN reviews[c] : Request[reviews[c][n].req].key = key

\* Only an approved candidate is withdrawn, and only an open one is reviewed.
Fit(q) == State(Request[q].candidate) = IF Request[q].action = "withdraw" THEN "approve" ELSE "edit"

\* The key, read just before the version, is read with it: a key that is taken
\* in between stays taken, and the transaction fails on it.
Look(p, q) ==
    /\ job[p] = Idle
    /\ ~Taken(Request[q].key) /\ Request[q].candidate \in Known
    /\ job' = [job EXCEPT ![p] = [req |-> q, seen |-> version[Request[q].candidate], fit |-> FALSE]]
    /\ UNCHANGED <<eligible, grown, version, reviews, node, relation>>

\* The candidate's state is read by a statement of its own, after the version.
Check(p) ==
    /\ job[p].req \in Review /\ ~job[p].fit /\ Fit(job[p].req)
    /\ job' = [job EXCEPT ![p].fit = TRUE]
    /\ UNCHANGED <<eligible, grown, version, reviews, node, relation>>

\* Slip: the event's key is not unique.
FreshAny(q) == TRUE

\* The event's key.
Fresh(q) == ~Taken(Request[q].key)

\* Slip: a version can be written over.
NextVersionAny(c, seen) == TRUE

\* The key of the versions: the one after the version read is not there.
NextVersion(c, seen) == version[c] = seen

\* Slip: a second node for a candidate.
NodeFreeAny(c) == TRUE

\* A candidate has one node.
NodeFree(c) == node[c] = None

\* Slip: the related candidate's node is not looked up.
RelatedAny(c, d) == TRUE

\* stage10_relation_pair: the related concept has a node, or is this one.
Related(c, d) == d \notin {None, c} => node[d] # None

Record(q, seen, next) ==
    reviews' = [reviews EXCEPT ![Request[q].candidate] =
                   Append(@, [req |-> q, from |-> seen, to |-> next])]

Edit(q, seen) ==
    /\ Request[q].action = "edit" /\ NextVersion(Request[q].candidate, seen)
    /\ Record(q, seen, seen + 1)
    /\ version' = [version EXCEPT ![Request[q].candidate] = seen + 1]
    /\ UNCHANGED <<node, relation>>

Approve(q, seen) ==
    LET c == Request[q].candidate
        d == Request[q].related
    IN /\ Request[q].action = "approve" /\ NodeFree(c) /\ Related(c, d)
       /\ Record(q, seen, seen)
       /\ node' = [node EXCEPT ![c] = seen]
       /\ relation' = relation \cup (IF d = None THEN {} ELSE {<<c, d>>})
       /\ UNCHANGED version

\* A rejection or a withdrawal is the event alone: the node stays.
Close(q, seen) ==
    /\ Request[q].action \in {"reject", "withdraw"}
    /\ Record(q, seen, seen)
    /\ UNCHANGED <<version, node, relation>>

Commit(p) ==
    /\ job[p].req \in Review /\ job[p].fit /\ Fresh(job[p].req)
    /\ \/ Edit(job[p].req, job[p].seen)
       \/ Approve(job[p].req, job[p].seen)
       \/ Close(job[p].req, job[p].seen)
    /\ job' = [job EXCEPT ![p] = Idle]
    /\ UNCHANGED <<eligible, grown>>

\* The transaction fails or the process dies: nothing is written.
Drop(p) ==
    /\ job[p] # Idle
    /\ job' = [job EXCEPT ![p] = Idle]
    /\ UNCHANGED <<eligible, grown, version, reviews, node, relation>>

\* Feedback, evidence or an edit of the memories changes what is eligible.
Judge(c) ==
    /\ \/ eligible' = eligible \cup {c}
       \/ eligible' = eligible \ {c}
    /\ UNCHANGED <<grown, version, reviews, node, relation, job>>

Next ==
    \/ \E p \in Proc, g \in Growth : Collect(p, g)
    \/ \E p \in Proc, q \in Review : Look(p, q)
    \/ \E p \in Proc : Generate(p) \/ Check(p) \/ Commit(p) \/ Drop(p)
    \/ \E g \in Growth : GenerateWithin(g)
    \/ \E c \in Candidate : Judge(c)

Spec == Init /\ [][Next]_vars

(***************************************************************************)
(* Properties.                                                             *)
(***************************************************************************)
Event == [req : Review, from : Nat \ {0}, to : Nat \ {0}]

Action(c, n) == Request[reviews[c][n].req].action

\* Every variable keeps its type, and an event is of its candidate.
ReviewTypeOK ==
    /\ eligible \subseteq Candidate /\ grown \subseteq Growth
    /\ version \in [Candidate -> Nat] /\ reviews \in [Candidate -> Seq(Event)]
    /\ node \in [Candidate -> Nat \cup {None}] /\ relation \subseteq Candidate \X Candidate
    /\ job \in [Proc -> [req : Growth \cup Review \cup {None}, seen : Nat, fit : BOOLEAN]]
    /\ \A c \in Candidate : \A n \in DOMAIN reviews[c] : Request[reviews[c][n].req].candidate = c

\* A candidate is proposed once, by one run, whatever runs race: the recorded
\* runs share no candidate, and only what they proposed is known or reviewed.
ProposedOnce ==
    /\ Known = UNION {Manifest[g] : g \in grown}
    /\ \A g, h \in grown : g # h => Manifest[g] \cap Manifest[h] = {}
    /\ \A c \in Candidate : reviews[c] # << >> => c \in Known

\* A request takes effect once, however often it is sent and by whom: no two
\* events have one key.
KeysOnce ==
    \A c, d \in Candidate : \A m \in DOMAIN reviews[c] : \A n \in DOMAIN reviews[d] :
        Request[reviews[c][m].req].key = Request[reviews[d][n].req].key => c = d /\ m = n

\* No edit is lost under another one: each starts from the version that the
\* edit before it made, and the last one made the version there is.
VersionsLinear ==
    \A c \in Candidate : \A n \in DOMAIN reviews[c] : Action(c, n) = "edit" =>
        /\ reviews[c][n].to = reviews[c][n].from + 1 /\ reviews[c][n].to <= version[c]
        /\ \A m \in DOMAIN reviews[c] :
              Action(c, m) = "edit" /\ m < n => reviews[c][m].to <= reviews[c][n].from

\* There is no node without its approval, and no second approval: a candidate
\* has a node exactly if one event approves it, and the node is of the version
\* that event names.
NodeApproved ==
    \A c \in Candidate :
        /\ node[c] # None <=> \E n \in DOMAIN reviews[c] : Action(c, n) = "approve"
        /\ \A n \in DOMAIN reviews[c] : Action(c, n) = "approve" =>
              /\ reviews[c][n].from = node[c]
              /\ \A m \in DOMAIN reviews[c] : Action(c, m) = "approve" => m = n

\* What is withdrawn had been approved.
WithdrawGrounded ==
    \A c \in Candidate : \A n \in DOMAIN reviews[c] : Action(c, n) = "withdraw" =>
        \E m \in DOMAIN reviews[c] : m < n /\ Action(c, m) = "approve"

\* Whatever reviewers race between their look and their transaction, the nodes
\* are those of the approvals, one for one, and only approved concepts are
\* withdrawn.
ApprovalSound == NodeApproved /\ WithdrawGrounded

\* Concepts come in layers, in whatever order they are approved and related:
\* in every set of them one generalizes no other of the set, so there is no
\* circle of generalizations.
Acyclic ==
    \A S \in SUBSET Candidate : S # {} =>
        \E c \in S : \A d \in S : <<c, d>> \in relation => d = c
=============================================================================
