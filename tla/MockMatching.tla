---------------------------- MODULE MockMatching ----------------------------
(***************************************************************************)
(* The server-side mock workflow of one posting (matching.js): members       *)
(* pledge to proposals, the owner selects one, its creator confirms in time  *)
(* or the pledges go back; moderation, the owner's edits and the two expiry  *)
(* jobs (matching.js, opportunityExpiryService.js) run beside it.  A         *)
(* Firestore transaction is one action; the legacy expiry, which reads       *)
(* before its transaction, takes two.                                       *)
(***************************************************************************)
EXTENDS Integers, FiniteSets, FiniteSetsExt

CONSTANTS
    Proposals,
    Requests,       \* request ids of contributions: one document each
    Amounts,        \* amounts of a contribution
    Target,         \* what each proposal asks for
    Window,         \* CONFIRMATION_WINDOW_MS
    ExpiresAt,      \* the posting's first deadline
    MaxTime,        \* bound: the clock stops here
    None

ASSUME MatchingAssumption ==
    /\ IsFiniteSet(Requests)
    /\ Target \in Nat \ {0} /\ Amounts \subseteq 1..Target
    /\ {Window, ExpiresAt, MaxTime} \subseteq Nat \ {0}
    /\ ExpiresAt < MaxTime /\ None \notin Proposals

VARIABLES
    now,
    posting,        \* status, deadline and visibility of the problem document
    matching,       \* its matching map; mode tells whether there is one
    proposals,      \* each proposal's status and matching map
    mockFunding,    \* the ledger: one record per request id
    legacy          \* the legacy expiry run under way; bound: one at a time

vars == <<now, posting, matching, proposals, mockFunding, legacy>>

Sources == {"scheduled", "manual"}
NoRun == [source |-> None, at |-> None]
Terminal == {"confirmed", "voided", "declined", "cancelled"}

NoMatching == [mode |-> FALSE, status |-> "open", proposalId |-> None,
               deadlineAt |-> None, totalFunded |-> 0]

MatchingInit ==
    /\ now = 0
    /\ posting = [status |-> "open", expiresAt |-> ExpiresAt, removed |-> FALSE,
                  expirySource |-> None]
    /\ matching = NoMatching
    /\ proposals = [p \in Proposals |->
         [status |-> "none", removed |-> FALSE, state |-> "funding", funded |-> 0,
          evaluated |-> FALSE, closedByModerator |-> FALSE]]
    /\ mockFunding = [r \in Requests |->
         [status |-> "none", proposalId |-> None, amount |-> 0]]
    /\ legacy = NoRun

-----------------------------------------------------------------------------
(* Time and money *)

\* A transaction takes its time while it runs and commits a little later.
Stamps == {t \in {now - 1, now} : t >= 0}

\* A run of the legacy expiry is ended by its timeout of nine minutes.
Tick ==
    /\ now < MaxTime /\ now' = now + 1
    /\ legacy' = IF legacy # NoRun /\ legacy.at = now THEN legacy ELSE NoRun
    /\ UNCHANGED <<posting, matching, proposals, mockFunding>>

Held(statuses) == {r \in Requests : mockFunding[r].status \in statuses}
For(p, requests) == {r \in requests : mockFunding[r].proposalId = p}

\* What the requests add up to, counted in units: unit i of a request is there if it
\* is not beyond its amount.
Sum(requests) ==
    Cardinality({unit \in requests \X (1..Target) : unit[2] <= mockFunding[unit[1]].amount})

Backers(requests) == {mockFunding[r].proposalId : r \in requests}

Settled(requests, status) ==
    [r \in Requests |-> IF r \in requests
                        THEN [mockFunding[r] EXCEPT !.status = status]
                        ELSE mockFunding[r]]

Marked(ps, state) ==
    [p \in Proposals |-> IF p \in ps THEN [proposals[p] EXCEPT !.state = state]
                         ELSE proposals[p]]

Live(p) == proposals[p].funded > 0 /\ proposals[p].state \notin Terminal

Eligible(p) == proposals[p].status = "submitted" /\ ~proposals[p].removed

PostingDue(at) == posting.expiresAt <= at
ConfirmationDue(at) ==
    matching.status = "awaiting_confirmation" /\ matching.deadlineAt <= at

\* Mutant: the posting's own deadline is left to the legacy expiry.
OnlyConfirmationDue(at) ==
    matching.status \notin {"confirmed", "invalidated"} /\ ConfirmationDue(at)

\* What expireContext settles before anything else a transaction does.
Expirable(at) ==
    /\ matching.status \notin {"confirmed", "invalidated"}
    /\ ConfirmationDue(at) \/ (PostingDue(at) /\ matching.mode)

IsOpen(at) ==
    /\ matching.status = "open" /\ posting.status = "open"
    /\ ~PostingDue(at) /\ ~posting.removed

-----------------------------------------------------------------------------
(* Members and administrators.  Each callable first runs expireContext in a    *)
(* transaction of its own (Settle) and again in the one modelled here.        *)

InvalidateContext ==
    /\ proposals' = [p \in Proposals |->
         IF proposals[p].state \notin Terminal /\ (p = matching.proposalId \/ Live(p))
         THEN [proposals[p] EXCEPT
                 !.state = IF p = matching.proposalId THEN "voided" ELSE "cancelled",
                 !.closedByModerator = FALSE]
         ELSE proposals[p]]
    /\ mockFunding' = Settled(Held({"pledged"}), "refunded")
    /\ matching' = [matching EXCEPT !.mode = TRUE, !.status = "invalidated",
                                    !.deadlineAt = None, !.totalFunded = 0]
    /\ UNCHANGED <<now, posting, legacy>>

Settle(at) == Expirable(at) /\ InvalidateContext

\* The schedule of the sweep: every posting that is due, also a removed one.
Sweep == Settle(now)

Acting(at) == ~posting.removed /\ ~Expirable(at)

\* A request id that was used before is answered without a second pledge.
Fresh == Held({"none"})

FundMockProposal(p, amount, at) ==
    /\ Acting(at) /\ IsOpen(at) /\ Eligible(p)
    /\ Fresh # {} /\ proposals[p].state = "funding"
    /\ amount <= Target - proposals[p].funded
    /\ mockFunding' = [mockFunding EXCEPT ![CHOOSE r \in Fresh : TRUE] =
         [status |-> "pledged", proposalId |-> p, amount |-> amount]]
    /\ proposals' = [proposals EXCEPT ![p].funded = @ + amount]
    /\ matching' = [matching EXCEPT !.mode = TRUE, !.totalFunded = @ + amount]
    /\ UNCHANGED <<now, posting, legacy>>

SelectMockProposal(p, at) ==
    /\ Acting(at) /\ IsOpen(at) /\ Eligible(p)
    /\ proposals[p].state = "funding" /\ proposals[p].funded >= Target
    /\ proposals' = Marked({p}, "awaiting_confirmation")
    /\ matching' = [matching EXCEPT !.mode = TRUE, !.proposalId = p,
                      !.status = "awaiting_confirmation",
                      !.deadlineAt = Min({at + Window, posting.expiresAt})]
    /\ UNCHANGED <<now, posting, mockFunding, legacy>>

\* The owner accepted by selecting, so the creator's answer completes the match.
ConfirmMockProposal(p, at) ==
    /\ Acting(at) /\ ~proposals[p].removed
    /\ matching.status = "awaiting_confirmation" /\ matching.proposalId = p
    /\ proposals' = [q \in Proposals |->
         IF q = p THEN [proposals[q] EXCEPT !.state = "confirmed"]
         ELSE IF Live(q) THEN [proposals[q] EXCEPT !.state = "cancelled"]
         ELSE proposals[q]]
    /\ mockFunding' = [r \in Requests |->
         IF mockFunding[r].status # "pledged" THEN mockFunding[r]
         ELSE [mockFunding[r] EXCEPT
                 !.status = IF mockFunding[r].proposalId = p THEN "locked" ELSE "refunded"]]
    /\ matching' = [matching EXCEPT !.status = "confirmed", !.deadlineAt = None,
                                    !.totalFunded = proposals[p].funded]
    /\ UNCHANGED <<now, posting, legacy>>

Reopened(refunded) ==
    [matching EXCEPT !.status = "open", !.proposalId = None, !.deadlineAt = None,
                     !.totalFunded = Max({0, @ - refunded})]

\* The reason is the creator's own words, which may begin as a moderator's do.
DeclineMockProposal(p, at) ==
    /\ Acting(at)
    /\ matching.status = "awaiting_confirmation" /\ matching.proposalId = p
    /\ LET refunds == For(p, Held({"pledged"}))
       IN /\ mockFunding' = Settled(refunds, "refunded")
          /\ matching' = Reopened(Sum(refunds))
    /\ \E likeModeration \in BOOLEAN :
          proposals' = [proposals EXCEPT ![p].state = "declined",
                                         ![p].closedByModerator = likeModeration]
    /\ UNCHANGED <<now, posting, legacy>>

CompleteMockEvaluation(p, at) ==
    /\ Acting(at) /\ IsOpen(at) /\ Eligible(p)
    /\ ~proposals[p].evaluated /\ proposals[p].state \notin Terminal
    /\ proposals' = [proposals EXCEPT ![p].evaluated = TRUE]
    /\ matching' = [matching EXCEPT !.mode = TRUE]
    /\ UNCHANGED <<now, posting, mockFunding, legacy>>

ForceExpireMockMatch ==
    /\ ~posting.removed /\ matching.status = "awaiting_confirmation"
    /\ InvalidateContext

-----------------------------------------------------------------------------
(* Moderation: prepareModerationMatching within moderateContent's transaction. *)

Refundable(scope) == {r \in Held({"pledged", "locked"}) : mockFunding[r].proposalId \in scope}

SelectionIn(scope) ==
    matching.status \in {"awaiting_confirmation", "confirmed"} /\ matching.proposalId \in scope

Closed(scope) ==
    [p \in Proposals |->
       LET selected == SelectionIn(scope) /\ p = matching.proposalId
       IN IF selected \/ p \in Backers(Refundable(scope))
          THEN [proposals[p] EXCEPT !.state = IF selected THEN "voided" ELSE "cancelled",
                                    !.closedByModerator = TRUE]
          ELSE proposals[p]]

Refund(scope) ==
    /\ mockFunding' = Settled(Refundable(scope), "refunded")
    /\ matching' = IF SelectionIn(scope) THEN Reopened(Sum(Refundable(scope)))
                   ELSE [matching EXCEPT !.totalFunded = Max({0, @ - Sum(Refundable(scope))})]

RemovePosting ==
    /\ Refund(Proposals) /\ proposals' = Closed(Proposals)
    /\ posting' = [posting EXCEPT !.removed = TRUE]
    /\ UNCHANGED <<now, legacy>>

RemoveProposal(p) ==
    /\ proposals[p].status # "none"
    /\ Refund({p}) /\ proposals' = [Closed({p}) EXCEPT ![p].removed = TRUE]
    /\ UNCHANGED <<now, posting, legacy>>

\* Mutant: a restored proposal keeps the funding it had.
RestoredWithItsFunds(scope) ==
    [p \in Proposals |->
       IF matching.status # "confirmed" /\ p \in scope /\ proposals[p].closedByModerator
       THEN [proposals[p] EXCEPT !.state = "funding", !.closedByModerator = FALSE]
       ELSE proposals[p]]

Restored(scope) ==
    [p \in Proposals |->
       IF matching.status # "confirmed" /\ p \in scope /\ proposals[p].closedByModerator
       THEN [proposals[p] EXCEPT !.state = "funding", !.funded = 0,
                                 !.closedByModerator = FALSE]
       ELSE proposals[p]]

RestorePosting ==
    /\ proposals' = Restored(Proposals)
    /\ posting' = [posting EXCEPT !.removed = FALSE]
    /\ UNCHANGED <<now, matching, mockFunding, legacy>>

RestoreProposal(p) ==
    /\ proposals[p].status # "none"
    /\ proposals' = [Restored({p}) EXCEPT ![p].removed = FALSE]
    /\ UNCHANGED <<now, posting, matching, mockFunding, legacy>>

-----------------------------------------------------------------------------
(* Writes of the owner and of the authors, as firestore.rules lets them pass.  *)

SubmitProposal(p, at) ==
    /\ proposals[p].status = "none" /\ IsOpen(at)
    /\ proposals' = [proposals EXCEPT ![p].status = "submitted"]
    /\ UNCHANGED <<now, posting, matching, mockFunding, legacy>>

WithdrawProposal(p) ==
    /\ Eligible(p) /\ matching.status = "open"
    /\ proposals[p].funded = 0 /\ ~proposals[p].evaluated
    /\ proposals[p].state \notin Terminal \union {"awaiting_confirmation"}
    /\ proposals' = [proposals EXCEPT ![p].status = "withdrawn"]
    /\ UNCHANGED <<now, posting, matching, mockFunding, legacy>>

OwnerMayWrite(at) ==
    /\ posting.status = "open" /\ ~posting.removed /\ ~PostingDue(at)
    /\ matching.totalFunded = 0 /\ matching.status = "open"

ExtendExpiry(at) ==
    /\ OwnerMayWrite(at)
    /\ posting.expiresAt < MaxTime
    /\ posting' = [posting EXCEPT !.expiresAt = @ + 1]
    /\ UNCHANGED <<now, matching, proposals, mockFunding, legacy>>

CancelPosting(at) ==
    /\ OwnerMayWrite(at)
    /\ posting' = [posting EXCEPT !.status = "cancelled"]
    /\ UNCHANGED <<now, matching, proposals, mockFunding, legacy>>

-----------------------------------------------------------------------------
(* expireOpportunity, for postings without a mock match: what was read first   *)
(* is checked again in the transaction, with the time of the run.             *)

MayExpire(run) ==
    /\ posting.status = "open" /\ ~posting.removed /\ ~matching.mode
    /\ run.source = "scheduled" => PostingDue(run.at)

StartExpiry ==
    /\ legacy = NoRun
    /\ legacy' \in {run \in [source : Sources, at : {now}] : MayExpire(run)}
    /\ UNCHANGED <<now, posting, matching, proposals, mockFunding>>

\* Mutant: only the posting's status is read again.
AsItWasRead(run) == posting.status = "open"

StillExpirable(run) == MayExpire(run)

ExpireOpportunity ==
    /\ legacy # NoRun /\ legacy' = NoRun
    /\ posting' = IF StillExpirable(legacy)
                  THEN [posting EXCEPT !.status = "expired", !.expirySource = legacy.source]
                  ELSE posting
    /\ UNCHANGED <<now, matching, proposals, mockFunding>>

\* The facts give no reason, a read fails, or the process dies.
AbandonExpiry ==
    /\ legacy # NoRun /\ legacy' = NoRun
    /\ UNCHANGED <<now, posting, matching, proposals, mockFunding>>

-----------------------------------------------------------------------------

Members ==
    \E p \in Proposals, at \in Stamps :
       \/ \E amount \in Amounts : FundMockProposal(p, amount, at)
       \/ SelectMockProposal(p, at) \/ ConfirmMockProposal(p, at)
       \/ DeclineMockProposal(p, at) \/ CompleteMockEvaluation(p, at)
       \/ SubmitProposal(p, at)

Moderation ==
    \/ RemovePosting \/ RestorePosting
    \/ \E p \in Proposals : RemoveProposal(p) \/ RestoreProposal(p) \/ WithdrawProposal(p)

Expiry == StartExpiry \/ ExpireOpportunity \/ AbandonExpiry

MatchingNext ==
    \/ Tick \/ Sweep \/ Members \/ Moderation \/ Expiry \/ ForceExpireMockMatch
    \/ \E at \in Stamps : Settle(at) \/ ExtendExpiry(at) \/ CancelPosting(at)

MatchingSpec == MatchingInit /\ [][MatchingNext]_vars

=============================================================================
