------------------------- MODULE IndependentFunding -------------------------
(***************************************************************************)
(* IndependentFundingEscrow: funders pool money for a researcher's own        *)
(* listing (kind FundingRequest); the researcher accepts half of it, and the   *)
(* other half is paid when a majority of the money approved the delivered      *)
(* evidence and the platform or an administrator releases it.                 *)
(*                                                                         *)
(* The intervals, the proportional share, the fee and the contribution policy *)
(* are those of FundingEscrow ("Same telescoping, top-up-safe allocation").    *)
(* evidenceVersion is dropped: a hash is used once, so the evidence identifies *)
(* the version and `votes' holds the ballots about the evidence on record;     *)
(* noWeight is only shown.                                                   *)
(***************************************************************************)
EXTENDS FundingEscrow, FiniteSets

CONSTANTS
    ReviewTime,     \* reviewDays
    Amounts,        \* bound: contributions funders send
    MaxTime         \* bound: last block timestamp

ASSUME IndependentAssumption ==
    /\ Target > 1
    /\ ReviewTime \in Nat \ {0}
    /\ Amounts \subseteq Nat /\ MaxTime \in Nat

VARIABLES
    now,        \* block.timestamp
    listed,     \* allowedTokens[token]
    listing,    \* the registry's record of the listing
    escrow,     \* the escrow contract
    custody,    \* token.balanceOf(escrow)
    ballots     \* history: who approved which evidence

vars == <<now, listed, listing, escrow, custody, ballots>>

IndependentStates ==
    {"Open", "Accepted", "Released", "Declined", "Expired", "Cancelled", "Refunded"}

IndependentEscrow ==
    [state : IndependentStates, completionDeadline : Nat,
     totalDeposited : 0..Target, totalReleased : 0..Target, totalRefunded : 0..Target,
     feePaid : 0..Target, refundPool : 0..Target, refundsEnabled : BOOLEAN,
     contributions : [Funders -> 0..Target], ends : [Funders -> 0..Target],
     refundedAmounts : [Funders -> 0..Target],
     evidence : Evidence \cup {NoEvidence}, usedEvidence : SUBSET Evidence,
     votes : [Funders -> Ballots], yesWeight : 0..Target]

IndependentTypeOK ==
    /\ now \in 0..MaxTime /\ listed \in BOOLEAN
    /\ listing \in [edited : BOOLEAN, withdrawn : BOOLEAN, paused : BOOLEAN]
    /\ escrow \in IndependentEscrow
    /\ custody \in 0..Target
    /\ ballots \subseteq Funders \X Evidence

IndependentInit ==
    /\ now = 0 /\ listed = TRUE
    /\ listing = [edited |-> FALSE, withdrawn |-> FALSE, paused |-> FALSE]
    /\ escrow = [state |-> "Open", completionDeadline |-> 0,
                 totalDeposited |-> 0, totalReleased |-> 0, totalRefunded |-> 0,
                 feePaid |-> 0, refundPool |-> 0, refundsEnabled |-> FALSE,
                 contributions |-> [f \in Funders |-> 0], ends |-> [f \in Funders |-> 0],
                 refundedAmounts |-> [f \in Funders |-> 0],
                 evidence |-> NoEvidence, usedEvidence |-> {},
                 votes |-> NoBallots, yesWeight |-> 0]
    /\ custody = 0
    /\ ballots = {}

Running == escrow.state \in {"Open", "Accepted"}

\* _invalidated: the listing is not the one the escrow was created for any more
Invalidated == listing.withdrawn \/ listing.edited

\* Mutant: only the completion window runs out.
CompletionTimedOut == escrow.state = "Accepted" /\ now >= escrow.completionDeadline

TimedOut ==
    now >= IF escrow.state = "Accepted" THEN escrow.completionDeadline ELSE ExpiresAt

IsActive == ~Invalidated /\ ~listing.paused

CompletionOpen ==
    /\ escrow.state = "Accepted"
    /\ now < escrow.completionDeadline
    /\ IsActive

\* _openRefunds, in the state that the reason calls for
Opened(e, next) ==
    [e EXCEPT !.refundsEnabled = TRUE, !.state = next,
              !.refundPool = e.totalDeposited - e.totalReleased]

ClosingState == IF Invalidated THEN "Cancelled" ELSE "Expired"

-----------------------------------------------------------------------------
(* The listing and the token *)

\* A listing stays editable, its deposits never freeze it at the registry, and an
\* edit may restore the text the escrow was created for.
UpdateListing ==
    /\ ~listing.withdrawn /\ now < ExpiresAt
    /\ listing' = [listing EXCEPT !.edited = ~@]
    /\ UNCHANGED <<now, listed, escrow, custody, ballots>>

WithdrawListing ==
    /\ ~listing.withdrawn
    /\ listing' = [listing EXCEPT !.withdrawn = TRUE]
    /\ UNCHANGED <<now, listed, escrow, custody, ballots>>

SetPostingFundingPaused(paused) ==
    /\ listing' = [listing EXCEPT !.paused = paused]
    /\ UNCHANGED <<now, listed, escrow, custody, ballots>>

SetTokenAllowed ==
    /\ listed' = ~listed
    /\ UNCHANGED <<now, listing, escrow, custody, ballots>>

-----------------------------------------------------------------------------
(* The escrow *)

IndependentDeposit(f, amount) ==
    /\ escrow.state = "Open" /\ now < ExpiresAt
    /\ IsActive /\ listed
    /\ amount > 0
    /\ amount <= Target - escrow.totalDeposited
    /\ PolicyAllows(amount, Target - escrow.totalDeposited)
    /\ escrow' = Deposit(escrow, f, amount)
    /\ custody' = custody + amount
    /\ UNCHANGED <<now, listed, listing, ballots>>

\* Mutant: the researcher may accept what was declined, cancelled or expired.
TargetReached ==
    /\ escrow.state # "Accepted" /\ now < ExpiresAt
    /\ escrow.totalDeposited = Target

ResearcherDecides ==
    /\ escrow.state = "Open" /\ now < ExpiresAt
    /\ escrow.totalDeposited = Target

\* _pay: what the payment adds to the cumulative fee
FeeOf(gross) == CumulativeFee(escrow.totalReleased + gross) - escrow.feePaid

\* The net amount and the fee leave together, or the call reverts.
Covers(gross) == gross <= custody

Pay(gross, paid) ==
    /\ escrow' = [paid EXCEPT !.totalReleased = @ + gross, !.feePaid = @ + FeeOf(gross)]
    /\ custody' = custody - gross

\* What each call requires is an operator of its own: getState promises the same.
CanAccept ==
    /\ ResearcherDecides
    /\ IsActive /\ listed
    /\ Covers(Target \div 2)

AcceptFunding ==
    /\ CanAccept
    /\ Pay(Target \div 2, [escrow EXCEPT !.state = "Accepted",
                                         !.completionDeadline = now + ReviewTime])
    /\ UNCHANGED <<now, listed, listing, ballots>>

DeclineFunding ==
    /\ ResearcherDecides
    /\ escrow' = Opened(escrow, "Declined")
    /\ UNCHANGED <<now, listed, listing, custody, ballots>>

\* Mutant: new evidence keeps the votes about the old.
WithEvidenceAndTally(v) ==
    [escrow EXCEPT !.usedEvidence = @ \cup {v}, !.evidence = v, !.votes = NoBallots]

\* hasVoted is kept by version, so every funder votes afresh.
WithEvidence(v) ==
    [escrow EXCEPT !.usedEvidence = @ \cup {v}, !.evidence = v,
                   !.yesWeight = 0, !.votes = NoBallots]

IndependentEvidence(v) ==
    /\ CompletionOpen
    /\ v \notin escrow.usedEvidence
    /\ escrow' = WithEvidence(v)
    /\ UNCHANGED <<now, listed, listing, custody, ballots>>

\* The funder names the evidence that was shown.
CanVoteCompletion(f, v) ==
    /\ CompletionOpen
    /\ v = escrow.evidence
    /\ escrow.contributions[f] # 0
    /\ escrow.votes[f] = "none"

VoteCompletion(f, v, ballot) ==
    /\ CanVoteCompletion(f, v)
    /\ escrow' = Vote(escrow, f, ballot)
    /\ ballots' = IF ballot = "yes" THEN ballots \cup {<<f, v>>} ELSE ballots
    /\ UNCHANGED <<now, listed, listing, custody>>

\* So does the platform signer or the administrator who releases.
CanReleaseCompletion(v) ==
    /\ v = escrow.evidence
    /\ CompletionOpen
    /\ HasFunderMajority(escrow)
    /\ Covers(Target - escrow.totalReleased)

ReleaseCompletion(v) ==
    /\ CanReleaseCompletion(v)
    /\ Pay(Target - escrow.totalReleased, [escrow EXCEPT !.state = "Released"])
    /\ UNCHANGED <<now, listed, listing, ballots>>

AdminCancel ==
    /\ Running
    /\ escrow' = Opened(escrow, "Cancelled")
    /\ UNCHANGED <<now, listed, listing, custody, ballots>>

Openable == Running /\ (Invalidated \/ TimedOut)

ExpireFunding ==
    /\ Openable
    /\ escrow' = Opened(escrow, ClosingState)
    /\ UNCHANGED <<now, listed, listing, custody, ballots>>

OpenedForClaim == IF escrow.refundsEnabled THEN escrow ELSE Opened(escrow, ClosingState)

ClaimDue(f) == RefundDue(OpenedForClaim, f)

CanClaimRefund(f) ==
    /\ escrow.refundsEnabled \/ Openable
    /\ ClaimDue(f) # 0 /\ Covers(ClaimDue(f))

IndependentClaim(f) ==
    LET e == OpenedForClaim
        amount == ClaimDue(f)
        refunded == e.totalRefunded + amount
    IN  /\ CanClaimRefund(f)
        /\ escrow' = [e EXCEPT !.refundedAmounts = Credit(@, f, amount),
                               !.totalRefunded = refunded,
                               !.state = IF refunded = e.refundPool THEN "Refunded" ELSE @]
        /\ custody' = custody - amount
        /\ UNCHANGED <<now, listed, listing, ballots>>

Tick ==
    /\ now < MaxTime
    /\ now' = now + 1
    /\ UNCHANGED <<listed, listing, escrow, custody, ballots>>

-----------------------------------------------------------------------------
(* getState, as the fields that a page acts on *)

\* Mutant: the view shows the stored state, whatever the time.
StoredState == IF Running /\ Invalidated THEN "Cancelled" ELSE escrow.state

Effective ==
    IF Running /\ Invalidated THEN "Cancelled"
    ELSE IF Running /\ TimedOut THEN "Expired" ELSE escrow.state

Refundable == escrow.refundsEnabled \/ (Running /\ (Invalidated \/ TimedOut))

ShowsActive == ~(Running /\ Invalidated) /\ ~listing.paused

ShowsClaimable(f) ==
    IF Refundable
    THEN Share(escrow, f, escrow.totalDeposited - escrow.totalReleased)
         - escrow.refundedAmounts[f]
    ELSE 0

ShowsDepositsOpen ==
    /\ Effective = "Open" /\ ShowsActive
    /\ escrow.totalDeposited < Target /\ listed

ShowsCanAccept ==
    Effective = "Open" /\ ShowsActive /\ escrow.totalDeposited = Target /\ listed

ShowsCanDecline == Effective = "Open" /\ escrow.totalDeposited = Target

ShowsCanSubmitEvidence == Effective = "Accepted" /\ ShowsActive

ShowsCanVote(f) ==
    /\ Effective = "Accepted" /\ ShowsActive /\ escrow.evidence # NoEvidence
    /\ escrow.contributions[f] # 0 /\ escrow.votes[f] = "none"

ShowsCanRelease ==
    /\ Effective = "Accepted" /\ ShowsActive /\ escrow.evidence # NoEvidence
    /\ HasFunderMajority(escrow)

-----------------------------------------------------------------------------

ListingNext ==
    \/ UpdateListing \/ WithdrawListing \/ SetTokenAllowed
    \/ \E b \in BOOLEAN : SetPostingFundingPaused(b)

EscrowNext ==
    \/ AcceptFunding \/ DeclineFunding \/ AdminCancel \/ ExpireFunding
    \/ \E v \in Evidence : IndependentEvidence(v) \/ ReleaseCompletion(v)
    \/ \E f \in Funders :
          \/ \E a \in Amounts : IndependentDeposit(f, a)
          \/ \E v \in Evidence, b \in {"yes", "no"} : VoteCompletion(f, v, b)
          \/ IndependentClaim(f)

IndependentNext == ListingNext \/ EscrowNext \/ Tick

IndependentSpec == IndependentInit /\ [][IndependentNext]_vars

=============================================================================
