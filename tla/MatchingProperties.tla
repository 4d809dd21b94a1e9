------------------------- MODULE MatchingProperties -------------------------
(***************************************************************************)
(* What members who pledge, and the owner of a posting, rely on.            *)
(***************************************************************************)
EXTENDS MockMatching

Outstanding == Held({"pledged", "locked"})

\* The ledger and the three documents that repeat it agree: the posting's total and
\* each open proposal's are what its records say, a selected proposal stays fully
\* funded, and money is locked for the confirmed proposal and for nothing else,
\* through refunds, removals, restorations and new selections.
LedgerFollowsMatch ==
    /\ matching.totalFunded = Sum(Outstanding)
    /\ \A p \in Proposals :
          proposals[p].state \in {"funding", "awaiting_confirmation", "confirmed"} =>
              proposals[p].funded = Sum(For(p, Outstanding))
    /\ matching.status \in {"awaiting_confirmation", "confirmed"} =>
          Sum(For(matching.proposalId, Outstanding)) = Target
    /\ IF matching.status = "confirmed"
       THEN Outstanding = For(matching.proposalId, Held({"locked"}))
       ELSE Held({"locked"}) = {}

\* The legacy expiry, which hands a posting's refunds to another settlement, never
\* takes one that has a mock match, nor by its schedule one whose deadline was moved
\* while it read ("Funding/selection can initialise matching after the preflight read").
ExpiryIsRightful ==
    posting.status = "expired" =>
        /\ ~matching.mode
        /\ posting.expirySource = "scheduled" => posting.expiresAt <= now

-----------------------------------------------------------------------------
(* Time passes and the sweep, which a schedule starts every five minutes,      *)
(* settles what is due.  Nothing is assumed of members or administrators.     *)

FairMatchingSpec == MatchingSpec /\ WF_vars(Tick) /\ WF_vars(Sweep)

\* No pledge hangs for ever: each is locked for a match or given back.
PledgesSettle ==
    \A r \in Requests : mockFunding[r].status = "pledged" ~> mockFunding[r].status # "pledged"

=============================================================================
