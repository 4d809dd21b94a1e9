----------------------- MODULE IndependentProperties -----------------------
(***************************************************************************)
(* What funders and the researcher of a listing rely on.                     *)
(***************************************************************************)
EXTENDS IndependentFunding, Functions

\* Every action that getState offers is one the contract accepts in the same
\* block, and the amount it shows as claimable is what claimRefund pays: the view
\* derives them from conditions of its own.
ViewIsHonest ==
    /\ ShowsCanAccept => CanAccept
    /\ ShowsCanDecline => ResearcherDecides
    /\ ShowsDepositsOpen => /\ escrow.state = "Open" /\ now < ExpiresAt /\ IsActive /\ listed
    /\ ShowsCanSubmitEvidence => CompletionOpen
    /\ ShowsCanRelease => \E v \in Evidence : CanReleaseCompletion(v)
    /\ \A f \in Funders :
         /\ ShowsCanVote(f) => \E v \in Evidence : CanVoteCompletion(f, v)
         /\ ShowsClaimable(f) > 0 <=> CanClaimRefund(f)
         /\ ShowsClaimable(f) > 0 => ShowsClaimable(f) = ClaimDue(f)

\* The completion half is paid only when funders of more than half of the money
\* approved the very evidence that is on record, not what it replaced.
CompletionHasMajority ==
    [][escrow'.state = "Released" /\ escrow.state # "Released" =>
          2 * FoldFunctionOnSet(+, 0, escrow.contributions,
                  {f \in Funders : <<f, escrow.evidence>> \in ballots}) > Target]_vars

-----------------------------------------------------------------------------

Phase ==
    IF escrow.refundsEnabled THEN "refunding"
    ELSE IF escrow.totalReleased > 0 THEN "paying" ELSE "collecting"

One(x) == [a \in {"escrow"} |-> x]

Account == INSTANCE CustodyAccount WITH
    Accounts <- {"escrow"}, phase <- One(Phase), held <- One(custody),
    deposited <- One(escrow.totalDeposited), paid <- One(escrow.totalReleased),
    returned <- One(escrow.totalRefunded)

\* The escrow is a custody account: it pays out of a complete collection only, and
\* once it gives money back it does nothing else.
ImplementsCustody == Account!Spec

-----------------------------------------------------------------------------
(* Time passes, and funders claim what they can.                             *)

FairIndependentSpec ==
    IndependentSpec /\ WF_vars(Tick) /\ \A f \in Funders : WF_vars(IndependentClaim(f))

\* No money stays in the escrow for ever, whatever the researcher, the platform
\* and the administrators do or fail to do.
FundsLeave == custody > 0 ~> custody = 0

=============================================================================
