-------------------------- MODULE MCEscrowWorkflow --------------------------
(* Small instances of EscrowWorkflow for TLC: one token of one decimal (a     *)
(* whole token is 10 units, the contribution minimum), plans whose cumulative *)
(* amounts do not divide the target, and a fee that rounds.                   *)
EXTENDS EscrowProperties, TLC

CONSTANTS f1, f2, f3, p1, p2, q1, v1, v2

OnePosting == [p \in Proposals |-> q1]
TwoPlan == 0 :> 0 @@ 1 :> 33 @@ 2 :> 100
ThreePlan == 0 :> 0 @@ 1 :> 37 @@ 2 :> 64 @@ 3 :> 100
Windows == [i \in 0..(Tranches - 1) |-> 1 + (i % 2)]

(* Runs about competing proposals leave out delisting of the token.           *)
PostingNext ==
    \/ Records \/ Funding \/ Settlement \/ Unwinding \/ Tick

PostingSpec == Init /\ [][PostingNext]_vars

(* A constraint for runs in which interleaved reviews are not the question.   *)
OneReviewAtATime ==
    Cardinality({d \in Funders \X Proposals : reviewed[d[1]][d[2]] # NoReview}) <= 1

FunderSymmetry == Permutations(Funders)
ProposalSymmetry == Permutations(Proposals)
=============================================================================
