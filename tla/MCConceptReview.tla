-------------------------- MODULE MCConceptReview --------------------------
(* Two candidates that three runs may propose, and requests that edit one    *)
(* twice, approve it twice, related to itself and to the other, reject and   *)
(* withdraw it, approve the other related to it, and use a key again.        *)
EXTENDS ConceptReview, TLC

CONSTANTS base, wide, first, both, other, edit1, edit2, ok1, ok2, no1, out1, reuse, relate

Manifests == first :> {base} @@ both :> {base, wide} @@ other :> {wide}

Ask(candidate, action, key, related) ==
    [candidate |-> candidate, action |-> action, key |-> key, related |-> related]

Requests ==
    edit1 :> Ask(base, "edit", edit1, None) @@ edit2 :> Ask(base, "edit", edit2, None)
    @@ ok1 :> Ask(base, "approve", ok1, base) @@ ok2 :> Ask(base, "approve", ok2, wide)
    @@ no1 :> Ask(base, "reject", no1, None) @@ out1 :> Ask(base, "withdraw", out1, None)
    @@ reuse :> Ask(wide, "edit", edit1, None) @@ relate :> Ask(wide, "approve", relate, base)

ProcSymmetry == Permutations(Proc)
=============================================================================
