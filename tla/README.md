# Verification of the QC DAO funding platform

The repository is a platform on which problem owners post quantum-computing
problems, researchers answer them with proposals, funders pool stablecoins in one
escrow per proposal, and an on-chain workflow pays the accepted proposal in
tranches or refunds everybody. The money and the award live in Solidity contracts
(`contracts/funding-escrow`, `contracts/audit-registry`); a Firebase back end
(`firebase/functions`) mirrors them, signs the platform's transactions and runs
moderation, expiry, matching and grants; a React front end (`frontend`) reads both.

This directory holds TLA+ models of the parts in which money or an award can go
wrong, TLC configurations that check them on small instances, and proofs, checked by
TLAPS, of the safety of both escrows, of the grants, of the signer and the cancellations that
use it, and of the attachments for every instance.

## 1. Inventory

### 1.1 The chain

| component | state | operations | talks to |
|---|---|---|---|
| `FundingEscrow` (one per proposal) | state, totals, contributions, interval ends in a Fenwick tree, deadline, approvals, evidence, votes, refund pool | deposit, depositReviewed, lockSelection, approveSelection, approveMilestone, submitMilestone, voteMilestone, releases, reject/invalidateSelection, cancel, voidEscrow, refundInvalidated, expire, claimRefund; depositorSummary | registry (isFundingActive, recordFundingEvent), token, factory's allow-list |
| `EscrowAuditRegistry` on `AuditRegistryExtensible` | posting: withdrawn, paused, revision, pending, accepted; proposal: revision, boundRevision, withdrawn, voided; its escrow | commit, update, withdraw, commitProposalWithEscrow, setPostingFundingPaused, fundingContextDigest, recordFundingEvent | factory, escrows |
| `FundingEscrowFactory` | allowed tokens, default plan, administrators | createEscrow, createOpenFundingPool, setTokenAllowed | escrow, registry |
| `OpenFundingPool` (one per grant posting) | balance, totals, reserved amount, one offer per proposal | deposit, selectProposal, acceptProposal, expireProposal, declineProposal, withdrawAvailable | escrow, registry |
| `IndependentFundingEscrow` (a researcher's own listing) | state, contributions, deadline, evidence, votes, refund pool | deposit, acceptFunding (pays half), declineFunding, submitEvidence, voteCompletion, releaseCompletion, adminCancel, expire, claimRefund; getState | token, registry |
| test tokens and faucet | balances, cooldown | mint, claim | - |

Contracts call each other inside one transaction, so a transaction is one step.
What is hard is the order of transactions: deadlines that compete with payments,
two proposals of one posting, edits between a review and a deposit, cancellations
and voids after partial refunds, and arithmetic that floors.

### 1.2 The back end

| component | state | operations | hard because |
|---|---|---|---|
| signer outbox (`escrowFunding.js`: submitPlatformAction, resumePlatformTransaction) | one document per signer: action, lease, stored signed bytes, last outcome | claim, simulate, sign, store, send, resume, clear | every call of a member and the minute sweep share it; instances die, leases run out, sends are lost, blocks are dropped |
| pause mirror (queuePostingFundingPause, reconcilePostingFundingPause, completePauseJob) | a job per posting: revision, status | trigger, reconcile, complete | triggers repeat; chain, document and outbox are read one after the other |
| event synchronisation (syncEscrowFunding) and settlement (startEscrowSettlement, settlementAction) | snapshot, block cursor, lease, selectionRequested | read a range of events, write receipts and snapshot, choose the next action | partial ranges, older snapshots, requests consumed by events |
| administrative cancellation (`escrowAdminCancellation.js`) | a job per escrow | start, drive, confirm, notify in pages | the job's status is written from values read before several awaits |
| moderation voids (`escrowModerationVoid.js`) | cursor and jobs | enumerate, void | pages while proposals arrive |
| grants, independent listings, approaches (`openFunding.js`, `independentFunding.js`, `fundingApproach.js`) | mirrors, release requests, approaches | prepare, record, follow, decide | mirrors of a chain that moves |
| mock matching (`matching.js`, the market without a chain) | matching map of a posting and its proposals, ledger of pledges | fund, select, confirm, decline, complete, expire; removal and restoration by moderators | the ledger and three documents repeat each other; two expiry jobs |
| opportunity expiry (`opportunityExpiryService.js`) | posting's status, checkpoint | expire, reopen, lapse | decides from a page read earlier |
| attachments (`attachmentSweeper.js`, `resourceQuotas.js`, `registryRetirement.js`) | reservations, objects, charges, publication proofs | reserve, upload, attest, remove, retire, delete, release | database and storage are not one transaction |
| matching notices, AI drafting, quotas | suggestions, counters, leases | reserve, release | - |
| audit recovery and trail | jobs, receipts | anchor, recover, verify | leases |
| moderation, comments, sessions, exports, dashboards, RPC policy | documents | single writes and reads | - |

### 1.3 The front end

Pages read the contracts and Firestore. What matters for the chain is that a page
reads a context (`frontend/src/lib/escrow.js`) or a revision and the wallet signs for
it later; in between anything may happen.

### 1.4 What makes each part correct

- escrow: no unit is lost, stranded or paid twice; tranches follow the plan and what
  was approved for the evidence on record; refunds are final and proportional;
  nobody but the funders themselves is needed to get money out.
- registry: one award per posting; the posting is locked exactly while an escrow is;
  text under money does not change.
- pool: it can meet every offer it made; an offer is for the text that was reviewed.
- outbox: one transaction outstanding, no payment signed twice, stored bytes are never
  dropped undecided, the signer is never wedged.
- pause mirror: a completed job means that the chain shows the document's state.
- cancellation: no payment beside one (which the code does not keep, section 5), a completed
  request is a full refund, a request comes to an end.
- synchronisation: the checkpoint counts every confirmed event once, a request to select
  stands until the chain answers, the mirror converges and an older summary does not stay.
- attachments: what a publication lists stays in the bucket, the charge is exact, the rest
  is reclaimed.
- mock matching: the ledger agrees with the documents, nobody's deadline is cut short, no
  pledge hangs.

## 2. Modules

| module | models | notes |
|---|---|---|
| `FundingEscrow` | one escrow as pure operators on a record: a guard `CanX(e, ..)` and a new record `X(e, ..)` per function of `FundingEscrow.sol` | no variables, shared by the workflow, the grants and the independent listings |
| `FundingRegistry` | the registry's records and its rules, in the same style | |
| `EscrowWorkflow` | the two composed: one action per transaction over postings, proposals, escrows and token balances; the client's review before a deposit | `Transact` is `_audit`: no action takes effect if the registry refuses its event |
| `EscrowProperties` | what it promises, and the refinements | |
| `AwardProtocol` | abstract: a posting selects, drops or awards one proposal, once | refined by `EscrowWorkflow` |
| `CustodyAccount` | abstract: collect up to a target, pay only when complete, then only give back | refined by `IndependentFunding` |
| `FenwickTree` | the arrays that hold the interval ends | refines the deposits of `FundingEscrow`, in which the ends are kept directly |
| `GrantPool`, `GrantProperties` | a grant posting: the pool, its offers, the proposals and their escrows | uses `FundingEscrow`, `FundingRegistry` |
| `IndependentFunding`, `IndependentProperties` | an independent listing's escrow and its view `getState` | uses `FundingEscrow` for what the contract repeats |
| `PlatformOutbox` | the signer's document, concurrent invocations step by step, the chain | a Firestore transaction is an action; each other read is one of its own; checked in its two compositions |
| `PostingPause` | the pause job composed with `PlatformOutbox` | names its own next-state relation `PauseNext`, so that one module can hold the proofs about both flows |
| `AdminCancellation`, `CancellationProperties` | the request to void an escrow, composed with `PlatformOutbox` | its properties are those of the signer too |
| `EscrowSync`, `SyncProperties` | the runs that carry confirmed events to Firestore, the owner's request for settlement, and the summary as the dashboards write it | the chain is the sequence of one escrow's events |
| `AttachmentStore`, `AttachmentProperties` | the files of one record: reservations, bucket, publication, removal, nightly sweep, retirement of the registry | an access to the bucket is an action of its own |
| `MockMatching`, `MatchingProperties` | one posting of the mock market: pledges, selection, confirmation, moderation, both expiry jobs | a Firestore transaction is an action |
| `MC...` | values for TLC | `MCEscrowMoney` also puts the tree of intervals, with wallets of its own, beside the escrow |
| `FundingEscrowProofs`, `EscrowTheorems` | finite sums and the proofs about one escrow's operations; the proofs about the main workflow | the first has no variables |
| `IndependentProofs` | the proofs about independent listings | uses `FundingEscrowProofs` for the operations both contracts share |
| `SignerProofs` | what the outbox keeps under any flow that uses it, and the cancellation and the pause mirror on top of it | the two flows share no lemma but the outbox's |
| `GrantProofs`, `AttachmentProofs`, `SyncProofs`, `MatchingProofs` | the proofs about grants, attachments, the synchroniser and mock matching | each beside its component, none uses another |

Correspondence: a field of an escrow record has the name of the contract's storage
variable; `expiresAt`, the plan, the windows, the fee and the two owners are CONSTANTs,
because the constructor fixes them. `currentTranche` 0 is the payment on selection.
A posting and a proposal are the registry's mappings seen from one entity. In the
outbox, a transaction hash stands for the signed bytes (action, nonce), `token` for
the lease token, `live` for `leaseUntil` in the future, `worker[w]` for the local
variables of an invocation between two awaits. `PROJECT.json` names the lines of each
definition.

What is abstracted:

- amounts are small integers, the whole token is 10 units and `BpsScale` is 100, so that
  plan and fee round in every run; overflow is out of the question for `uint256`
  totals that a target bounds;
- tokens are standard and transfers exact (the contract checks it and reverts);
- hashes are model values or revisions; identifiers and texts are left out;
- the outbox: a receipt that cannot be read is the same as none; a block holds at most
  one transaction of the signer; the simulation fails exactly when the call would be
  a second execution, or by a fault; past `MaxNonce` every preparation fails;
- the pause job: the posting's document exists and belongs to the present registry;
  the updates of other jobs in the transaction that records an outcome are left out;
- grants: every proposal asks for the same amount; `selectProposal` does not look at
  the escrow's state, and the model does not either;
- independent listings: `evidenceVersion` is dropped because a hash is used only once,
  `noWeight` because nothing but the display reads it;
- synchronisation: a page is a number of events and a span of blocks; a block holds any
  number of events, and a page may end between two of them, where the position in the chain
  stands both for the log index and for the offset in a receipt of several anchors; a
  single depositor has reached the target before the model starts; `startEscrowSettlement` reads
  the escrow at most one block before its transaction; a lagging node, a run that outlives
  its lease, a crash and a failed read are the faults; a reorganisation of confirmed
  blocks, which stops the synchronisation for good, is left out;
- attachments: a file is one unit of quota, and the quotas of owner, record and bucket
  are one counter; an id is uploaded once, as `uploadAttachment` mints one per transfer;
  pages of 250 are left out; an hour and a day may pass while a transfer is under way, and any
  id may be removed, also one that has nothing yet; the 540 seconds that a retirement waits are modelled by their purpose: no invocation that passed
  the maintenance check is still running;
- mock matching: `prepare`, which settles what is due before any other call does, commits
  on its own and is the action `Settle`; the owner approves by selecting; the
  time that a transaction uses may lag its commit by one instant; one run of the legacy
  expiry at a time, ended by its timeout within an instant; paging, the checkpoint,
  notices, currency and the limits on contributions are left out; sums of pledges are counted in units
  (`Sum`), because the prover's library knows cardinalities; a request id that was
  used before is answered without an effect; the reason a creator declines with may or may not begin
  like a moderator's, which is what a restoration looks at; an extension of the deadline alone
  asks nothing of the proposals, and the edits of the text that do are left out.

## 3. What the runs check

Each property is broken by at least one mutation of the mapped code (`mutants` in
`PROJECT.json`): a dropped guard, a missing reset, an off-by-one, a swapped order.

| run | instance | shows |
|---|---|---|
| `escrow_money` | 3 funders (symmetric), 3 tranches of 37/27/36 %, target 35, deposits of 11 and 12 and what remains, 15 % fee, 2 versions of the evidence, votes, time 0..2 with expiry at 2; beside it a tree of 8 wallets, deposits of 1 and 3 up to 12 | `CustodyMatchesBooks`, `RefundsAreExact`, `PaymentsFollowPlan`, `PaidAsDecided`, `OnlyPaymentsExtendDeadlines`, `RefundsAreFinal`; `ImplementsDeposit`: the tree's walks give the interval ends that `FundingEscrow` keeps directly |
| `escrow_posting` | 2 proposals (symmetric) of one posting, one edit of each text, withdrawals, pauses, an expiry | `PendingIffLocked`, `ExclusiveAward`, `FundedIsBound`, `FundedContentIsFrozen`, refinement of `AwardProtocol` |
| `escrow_liveness` | 2 funders who vote on the second tranche, one proposal, all actions including delisting | `FundsLeaveEscrow` |
| `grants` | 2 proposals, 2 tranches, a pool for one at first and two later, all deadlines, every action | `PoolMeetsItsOffers`, `AwardIsAsReviewed`, `GrantsAreIndependent`, `GrantMoneyMovesOn` |
| `independent` | 2 funders, odd target 35, 15 % fee, 2 versions of the evidence, votes, all deadlines | `ViewIsHonest`, `CompletionHasMajority`, `FundsLeave`, refinement of `CustodyAccount` |
| `cancellation` | the sweep and a member's call; a payment (once) and the void of the same escrow, which may revert; 2 nonces (0 and 1), 2 faults of any kind | `OneOutstanding`, `CompleteMeansFullRefund`, `NeverSignedAgain`, `OutboxDrains`, `RequestResolves` |
| `pause` | the sweep beside a member's payment; 2 decisions, 3 nonces, 1 fault | `CompletedPauseIsMirrored`, `PauseIsEventuallyMirrored` |
| `sync` | the sweep and a member's call, which synchronises, selects or reads a dashboard; 3 blocks, 4 events, pages of one event and two blocks, 1 fault | `CheckpointIsExact`, `RequestStandsUntilAnswered`, `MirrorConverges`, `OutcomeIsMirrored` |
| `attachments` | one new file and one from before the reservations, quota for one, a removal and the sweep, a retirement, 1 killed invocation, under `UsualTiming` | `PublishedBytesExist`, `UsageIsExact`, `StorageIsReclaimed` |
| `matching` | 2 proposals, 2 pledges of 1 or 2 towards a target of 2, one extension, moderation, time 0..3 | `LedgerFollowsMatch`, `ExpiryIsRightful`, `PledgesSettle` |
| `pause_race` | no fault at all | a violation, see section 5 |
| `cancellation_overtaken` | as `cancellation`, 1 fault (the administrator's authority ends) | `CancellationExcludesPayment` is violated, see section 5 |

`RefundsAreExact` is three things at once: shares are proportional, they add up to the
pool, and what a wallet is told it can claim is what it gets. `PaidAsDecided` is the
approvals of both owners and the funders' majority, for the evidence on record.

Why the bounds are enough. Three funders with amounts that do not divide the target
give top-ups between other wallets' deposits, a majority that no single wallet has and
floors that differ from the exact share. Three tranches have one that is neither first
nor last, so that approvals and votes of one could leak into the next; two versions of
the evidence are what a resubmission needs. Two proposals are what a rival needs.
Times up to the expiry reach a first payment before and after each deadline, refunds
that are announced for later (a cancellation opens claims after the posting's expiry)
and claims after it. Two faults give a crash after a lost send, and a reorganisation
after a replacement. Pages of one event and two blocks, over blocks that hold up
to four events, give a page that ends between two events of one block, one that ends at a block, and a
run that finishes after a newer one. A second fault in `sync` breaks `OutcomeIsMirrored`
(section 5); with four blocks the run has 1,207,118 states and no error. The two nonces of `cancellation` are one for the
payment or a transaction from outside and one for the void; the same run with three of them has 965,762
states and takes 8 minutes on the same machine, without an error. The tree's eight wallets give nodes of four levels. It shares the run of
the money, but not its states: one moves while the other rests in its initial state. A quota
of one file makes every charge that is released twice or never visible at once. Two pledges
are what it takes to fund one proposal by two members or two proposals by one.
What is symmetric is declared so only where no liveness is checked.

`CHECK_DEADLOCK FALSE` everywhere: each system really stops, when all is paid or
refunded and the bounded time, edits or nonces are used up.

Every run about the escrow checks states the code can reach from deployment. In the
money run the posting's owner and moderation do not act (the posting run has them), and
a context that a funder reviewed is used at once: nothing could make it stale there.

Some runs name a further bound as an action constraint of their `MC` module.
`DivisionOfLabour` (grants): the posting is edited once, before its pool opens; the first
proposal is the one that reaches a second tranche, the second the one that is edited; while
paused, a posting is not delisted or withdrawn; the token is delisted before the first grant is
funded or not at all (delisting then only stops further offers from being accepted). `UsefulCalls` (pause): a member's call starts
while its payment is not on the chain and never takes a lease that the sweep let lapse
(`CallsAreUseful`); nobody clears a pause or a restoration from the outbox while the sweep is about to
complete the job (`SweepIsNotOvertaken`; `pause_race` shows what happens otherwise) nor while it is
about to ask for the same one again, which the nonces of the run do not suffice for
(`NothingIsAskedTwice`). `SweepIsNotOvertaken` is defined in `PostingPause`, because the theorem about
`CompletedPauseIsMirrored` has it as its hypothesis; the other two are bounds of the run, and the
theorem does not have them. `UsualTiming` (attachments) is two assumptions about the world outside the
back end, defined in `AttachmentProperties` because the theorem about `PublishedBytesExist` has them as its
hypothesis. `PagesRemoveWhatExists`: a page asks for the removal of what it reserved, or of a file
older than reservations; `removeAttachment` does not ask. `SweepSeesThePublication`: no new proof
that drops a file the old one listed is written between two reads of the sweep about that file; the
client's `attestPublication` waits for a mined transaction in between, but nothing in the sweep waits for
it. Section 5 says what happens otherwise. The cancellation's run has no constraint.

### Fairness

- Escrow: blocks are produced (`Tick`), and a wallet that can claim eventually claims.
  `claimRefund` is permissionless and opens the refunds of an overdue escrow itself, so
  nothing is assumed of the platform, the owners or the administrators.
- Independent listings: the same.
- Grants: blocks are produced; anybody may call `expireProposal`; the owner takes back
  what is available and claims refunds. Nothing is assumed of researchers.
- Cancellation and the signer: a transaction the network has is mined when its nonce is
  next, blocks follow, leases run out after 120 s, an invocation goes on until it ends, and
  the minute sweep (`maxInstances: 1`, `concurrency: 1`) goes on running and takes the
  request up again (strong fairness, because it may be busy or find the lease taken
  whenever it looks). Nothing is assumed of callables; faults are finitely many (`MaxFaults`).
- Pause mirror: the same, and a trigger with `retry: true` is delivered.
- Synchronisation: blocks follow, the platform's transaction is mined (which `OutboxDrains`
  shows for the signer), the lease ends, the sweep claims a pending job again and again, a
  run ends, and short of a fault does so by its own steps: an invocation that is not idle always has
  one. So a call that has stored a request goes on to its claim (section 5 says why that matters).
- Attachments: transfers end, an hour and a day pass, the sweep runs every night, a removal
  goes on until it ends or is killed, a maintenance that began is finished. Nothing is assumed of
  the pages: a killed removal is not repeated.
- Mock matching: time passes and the sweep, scheduled every five minutes, settles what is
  due. Nothing is assumed of members or moderators.

## 4. What is proved

For every number of funders, postings, proposals, files, pledges, concurrent invocations and
actions, every plan, fee, target, quota, windows, page size, chain length and number of faults
that satisfy the assumptions:

| theorem | property |
|---|---|
| `EscrowTheorems.TypeCorrect` | `TypeOK` |
| `EscrowTheorems.BooksBalance` | `CustodyMatchesBooks` |
| `EscrowTheorems.LocksAgree` | `PendingIffLocked` |
| `EscrowTheorems.FundedStaysBound` | `FundedIsBound` |
| `EscrowTheorems.FundedTextStays` | `FundedContentIsFrozen` |
| `EscrowTheorems.AwardIsExclusive` | `ExclusiveAward` |
| `EscrowTheorems.AwardRefined` | `ImplementsAward`, the refinement of `AwardProtocol` |
| `EscrowTheorems.PlanIsFollowed` | `PaymentsFollowPlan` |
| `EscrowTheorems.SharesProportional` | `SharesAreProportional` |
| `EscrowTheorems.RefundsFinal` | `RefundsAreFinal` |
| `EscrowTheorems.DeadlinesKept` | `OnlyPaymentsExtendDeadlines` |
| `EscrowTheorems.RefundsExact` | `RefundsAreExact` |
| `EscrowTheorems.PaymentsDecided` | `PaidAsDecided` |
| `EscrowTheorems.TreeRefined` | `ImplementsDeposit`, the refinement of the escrow's interval arithmetic |
| `IndependentProofs.IndependentTypeCorrect` | `IndependentTypeOK` |
| `IndependentProofs.CustodyRefined` | `ImplementsCustody`, the refinement of `CustodyAccount` |
| `IndependentProofs.MajorityApproves` | `CompletionHasMajority` |
| `IndependentProofs.ViewAgreesWithGuards` | `ViewIsHonest` |
| `SignerProofs.CancellationTypeCorrect` | `CancellationTypeOK`, which contains `OutboxTypeOK` |
| `SignerProofs.NeverTwoOutstanding` | `OneOutstanding` |
| `SignerProofs.SignedOnceOnly` | `NeverSignedAgain` |
| `SignerProofs.CompletedRefundIsFull` | `CompleteMeansFullRefund` |
| `SignerProofs.PaymentsExcluded` | `CancellationExcludesPayment`, where `NobodyIsOvertaken`: a reconciliation blocks a request only while no other is under way |
| `SignerProofs.PauseMirrored` | `CompletedPauseIsMirrored`, where `SweepIsNotOvertaken` |
| `GrantProofs.OffersAreCovered` | `PoolMeetsItsOffers` |
| `GrantProofs.AwardsAreAsReviewed` | `AwardIsAsReviewed` |
| `GrantProofs.GrantsStayIndependent` | `GrantsAreIndependent` |
| `AttachmentProofs.PublishedStays` | `PublishedBytesExist`, where `UsualTiming` |
| `AttachmentProofs.ChargesAreExact` | `UsageIsExact` |
| `SyncProofs.SyncTypeCorrect` | `TypeOK` of `EscrowSync` |
| `SyncProofs.EveryEventCountedOnce` | `CheckpointIsExact` |
| `SyncProofs.RequestsStand` | `RequestStandsUntilAnswered` |
| `MatchingProofs.LedgerAgrees` | `LedgerFollowsMatch` |
| `MatchingProofs.ExpiryRightful` | `ExpiryIsRightful` |

Assumptions, each named in its module: the target is positive; the plan grows from 0
to the whole and no tranche is empty (`_buildPlan` reverts otherwise); the fee
is at most the whole; windows are positive; an escrow has finitely many funders; `None` is not a
proposal and not a file; the sweep is one of the invocations, a cancellation's transaction is
one of those executed once and not a payment, and `Outside` and `None` are not actions; grants have finitely many proposals and a record finitely many files; files from before the
reservations are files of the record; the sweep is not one of the callers of the synchroniser, its pages and spans
are not empty, and its chain has room for the deposit it starts with; request ids of pledges are finitely many and a
pledge is positive and within its proposal's target. TLC evaluates them in every run.

### The main workflow

None of the properties is inductive alone: that a locked escrow is the
posting's pending one needs that an award clears the lock, which needs that an award
is recorded exactly with the first payment; that a balance never goes negative needs that
refunds are whole shares of a pool that is the unpaid rest. `Inv` is `TypeOK` and, for
every proposal, `ProposalInv`, a relation of its escrow, its record, its posting and its
tokens: `EscrowInv` (books follow the plan, state agrees with plan and refunds, every
interval lies within the deposits, a wallet has claimed its whole share or nothing), the
balance equation, `pending = p` iff locked, `accepted = p` iff a tranche was paid, and
funded implies bound to the present revision. `FundingEscrowProofs` shows that each
operation of one escrow preserves `EscrowInv` under its guard, from lemmas about
floored quotients (`MulDiv...`). `EscrowTheorems` shows that a transaction preserves `Inv`
given that it does so for the one proposal it concerns (`OwnStep`, `TransactionStep`), because
an event of one changes nothing that matters to a rival (`RivalStep`); then there is one
step per action. The theorems follow by projecting `Inv` and, for the action
properties and the refinement, by going through the actions again: the registry's answer to
an event is the abstract step (`EventIsProtocolStep`), a posting that selects has awarded nothing
(`SelectionBeforeAward`), and a first payment is one to the pending proposal
(`FirstPaymentIsSelected`).

### Sums over funders

The library's `MapThenSumSet` chooses elements, so nothing about it follows by unfolding.
`FundingEscrowProofs` proves induction on finite sets first (`SubsetInduction`, from a minimal
counterexample under the well-founded order of proper subsets), and with it that every order
gives the same `Total` (`SumsAgree`), that changing one summand changes the total by the difference
(`TotalChange`) and that a part never exceeds the whole (`TotalOfPart`). `SumsInv` adds to
`EscrowInv` that the contributions tile the deposits, that what was refunded is the
total of the refunds, and that the tally is the weight of the approving wallets. That
the floored shares add up to the pool without a remainder is `TelescopingSum`: a share
is the difference of a monotone function at the two ends of an interval, and over intervals that
tile a range such differences add up to the function's whole growth, whatever the order of
the deposits. The share of the approving wallets for `PaidAsDecided` is `TotalOfPart`.

### The tree of intervals

`LowBit` and the two walks are recursive functions. That each recursion has a solution, which then is what
the definition chooses, follows by induction from solutions up to a bound (`LowBitIs`, `PrefixSumIs`); of
the walk up, the solution can be written down (`AncestorsCover`). Everything about bits is three facts
by halving the indices: where the ranges of two nodes meet, one contains the other (`RangesNest`), a parent
covers its child (`ParentCovers`), and nothing between the two does (`NoneBelowParent`). So a top-up
visits exactly the existing nodes whose range contains the wallet, of which every walk down from the wallet or a later
one meets one and every other walk none (`RaisedWalk`): the prefixes from the wallet on grow by the amount. That
is inductive with prefixes that grow strictly with the index and end at the deposits (`TreeInv`),
by which a later interval is recognised as one that ends later; it also shows that a new node is never
negative, so the contract's subtraction does not underflow. In the run an `ASSUME` compares `LowBit` with the
contract's `index & (~index + 1)`.

### Independent listings

`IndependentInv` relates the escrow to what it holds (`custody` is what came in
less what went out) and its tally to the ballots. `Kept` is what the contract's
functions keep of one record: the intervals tile the deposits, a release is nothing, the first
half or everything, refunds are nothing or whole shares, and refunds and releases exclude each
other in the states where they must. `CustodyRefined` then goes through the actions again. `ViewIsHonest` compares what the contract's view offers with the guards of the actions it
announces; the guards (`CanAccept`, `CanVoteCompletion`, `CanReleaseCompletion`,
`CanClaimRefund`) are operators of their own, of which the actions are made, so no `ENABLED` is
involved. It needs that an escrow whose refunds are closed holds all that it has not paid
(`UnpaidIsHeld`), and one whose refunds can be opened every share that it quotes (`ClaimIsShown`). The
proof of `DepositKept` needed the contract's `if (amount == 0) revert` (line 158), which the
model's guard had left to the values that the run enumerates; the guard is now there.

### The signer, the cancellation and the pause mirror

`OutboxNext` is every step that a flow can take on the outbox: the chain's, the
invocations', and `Decide`, a flow's own transaction. `OutboxInv` holds under all of them, so
a flow only shows that its steps are such steps (`TakesOutboxSteps`). `OneOutstanding` is not
inductive: an invocation may send what it read long ago, so the invariant says of every
invocation that the bytes it works on are the outbox's or that their nonce is used up
(`HoldsOutbox`); clearing the outbox needs the nonce to be used up in a block that stays, and that
is what `IsConfirmed` and `IsReplaced` ask for. `NeverSignedAgain` needs `PreparedIsFresh`:
whoever still holds the lease it prepared under finds its action not executed since, because only
what is outstanding can be executed (`ChainMoves`) and nothing is outstanding while a lease is
held (`LeaseMeansEmpty`). `CancellationInv` adds `VoidIsFinal` (the contract pays nothing
after a void), that every hash a request or an invocation remembers is a void's, and that
an invocation which is about to complete a request has read a void, and no payment, in
the confirmed chain (`RefundConfirmed`), which only grows (`SettledGrows`).

`PaymentsExcluded` is stated of the behaviours whose steps all satisfy `NobodyIsOvertaken`,
those in which a reconciliation blocks the request only while it is the only one under way, because without
that the property is false (section 5, and the run `cancellation_overtaken`). Under it `RequestHeld` is inductive: `adminCancellationStatus`
says what the request's status says, and whoever works on a request finds one that is filed and not
blocked, so none of its late writes can revive one. A request only becomes active where it is filed, in the
transaction that looks at the outbox (`Activates`); from then on no payment can be stored as signed, however
long ago it was found eligible (`NoPaymentEnters`: `Persist` asks once more), and what was sent before
is the outbox's or used up (`OneOutstanding`).

`PauseMirrored` is stated of the behaviours whose steps all satisfy `SweepIsNotOvertaken`: nobody
clears a pause or a restoration from the outbox between the sweep's reading of the chain and the transaction
that completes the job. Without that the property is false (section 5). The property says what a completed job shows; `PauseInv` says why it
stays true. Only the sweep ever asks for a pause, and only while it is inside the signer
(`SignsAlone`), so a completed job has nobody who could sign another. What is mined or dropped changes
the registry's flag only if it is the outbox's own transaction (`PauseIsOutstanding`): what the
newest block carries was sent (`TipWasSent`), and what was sent and is not settled is what the
outbox holds (`Outstanding`). Hence what the sweep read of the chain is still true when it completes
the job, or the outbox holds a transaction about it (`SweepCompares`), and that is what
`completePauseJob` refuses on. What it read of the document is still true as well, or the trigger
has given the job a new revision or is about to (`SweepKnows`). The other bounds of the run are not used.
`SignerProofs` extends both flows, so both `CancellationAssumption` and `PauseAssumption` are in force
there; no proof about the pause cites the first and none about the cancellation the second.

### Grants

`PoolInv` counts: the reserved amount is the target times the number of pending offers, the
allocated one the target times the accepted ones. It is inductive because an offer enters or leaves
a state together with one target of the books (`OfferEnters`, `OfferLeaves`, `OfferElsewhere`, from
the library's facts about `Cardinality`). `ReviewInv` adds to `AwardIsAsReviewed` that an offer is
only made for a submitted proposal, whose text the registry then refuses to change. Independence
follows from which escrow each action replaces.

### Attachments

`StorageInv` says that what a publication lists is in the bucket and sealed, or has no
reservation at all; that an upload that is done and not retired is there; and what
a removal and the sweep know of the file they hold between two of their steps (`RemovalInv`,
`SweepInv`): one that is about to be deleted is `Condemned`, retired and not sealed. One lemma
(`CondemningKeeps`) covers the three places that retire a reservation. `StorageInv` holds, and
`PublishedStays` is stated, of the behaviours that satisfy `UsualTiming`. It is needed in two places:
a removal that retired nothing is about to delete something nobody can reserve, upload and
publish before (`PagesRemoveWhatExists`), and the sweep that has decided to entomb a published file
without reservation finds it in the publication's proof (`SweepSeesThePublication`). `ChargesAreExact`
has no hypothesis; its `ChargeInv` adds that only
reservations are charged; a release takes exactly one element out of the charged ones.

### The synchroniser

A run works on a copy of the job that other runs have overtaken, so `CheckpointIsExact` is not
inductive: `SyncInv` says of the job and of every run's copy that what it has counted is the events
before its checkpoint, all of them recorded (`Counts`), and of a run between its reads and its last
transaction that it has recorded what it says (`Keeps`). Because blocks are ordered, the events up to a block
are the first `Upto` ones (`UptoShape`) and a page is an interval of positions after the checkpoint
(`PageShape`), whether the checkpoint is a block or a position inside one; counting then is arithmetic. A new
event only appends (`ChainKept`), in a block that is not confirmed, so every copy stays right (`CountsKept`, `KeepsKept`). That a request stands until it is
answered needs, besides, that an escrow that closed is never paid first afterwards
(`ClosedStaysUnpaid`): an escrow that a run read as closed and unpaid is so in the whole confirmed chain
that the run has not seen, and so is every answer on its page (`AnswerStands`).

### Mock matching

`Ledger` says that the posting's total is what is outstanding; that an open proposal's is what was pledged
to it, and an ended one has none; that a proposal is selected or matched exactly when the
posting says so; that the selected one is funded to its target; and what is locked. Every action but a pledge gives a
set of records back, the pledges of one proposal, of all, or of all but one; `Refunds` is that common shape and
`RefundKeeps` shows once that the totals follow it if each proposal is left alone or loses all its pledges
(`Follows`). Two invariants were needed that no run checks: a proposal that moderation closed has ended
(`ClosedIsEnded`), without which a restoration could reset a proposal that still has pledges, and at
most one proposal is selected (`SelectedOnce`), without which a removal could reopen the
posting beside another selection. Sums are counted in units (`Funds`), so they follow from the library's
facts about `Cardinality`. The legacy expiry needs that a posting whose match is not open has
one (`ExpiryInv`), so that no settlement gives an expired posting a mock match.

### Only model-checked

Liveness and `ENABLED` are outside what the prover can do. What TLC alone checks is therefore every
property under fairness: `FundsLeave`, `FundsLeaveEscrow`, `GrantMoneyMovesOn`, `OutboxDrains`,
`RequestResolves`, `PauseIsEventuallyMirrored`, `MirrorConverges`, `OutcomeIsMirrored`,
`PledgesSettle` and `StorageIsReclaimed`.

## 5. Findings

- `pause_race`: `reconcilePostingFundingPause` reads the chain at line 1103 and
  `completePauseJob` then reads the outbox. Another invocation that confirms the opposite
  transaction and clears the outbox in between makes the job complete while the registry shows
  the opposite of the posting's state, which the comment at lines 1075-1077 means to
  prevent.
- `cancellation_overtaken`: `docs/ESCROW_REGISTRY_INTEGRATION.md:329-331` says that a pending
  cancellation blocks platform payments. `updateJob` (`escrowAdminCancellation.js:165-176`) spares only
  a request that is `complete`. The sweep has authorised the void; the administrator loses the authority
  and a member's reconciliation blocks the request; a payment is claimed and stored as signed; the
  sweep finds the signer taken and writes `queued` over `blocked`. The request is pending again beside a
  payment in flight.

What the models showed or the reading found beside it, without a line of the
repository that one run could contradict:

- `PublishedBytesExist` fails without `UsualTiming`, in two ways that TLC found with the constraint
  taken out. (i) `removeAttachment` (`index.js:549-580`) is called for an id that has nothing yet: its
  transaction retires nothing, another page reserves the id, uploads and attests it, then the removal
  deletes the bytes. (ii) A file older than reservations is published and dropped again between the
  sweep's check and its tombstone: the sweep finds it in no proof, a publication lists it, the sweep
  finds no reservation, a second publication no longer lists it, and the sweep entombs and deletes
  what a published version had listed (`attachmentSweeper.js:216-250`). `UsageIsExact` and
  `StorageIsReclaimed` hold without the constraint too (935,000 states).
- `startEscrowSettlement` stores the request and then synchronises (`escrowFunding.js:866-871`). The
  escrow it read may have closed meanwhile, and the job may have been completed by another run; if
  the call then dies, the sweep does not take up a completed job, and the posting keeps
  `escrowSelection` for an escrow that ended. This takes a lagging read and a crash, two faults; the
  `sync` run has one.
- A creator who declines with a reason that begins with `moderation_` (`matching.js:148`) makes a later
  restoration reopen the proposal (`:530`), as if a moderator had closed it. The model leaves the
  beginning of the reason open, and `LedgerFollowsMatch` holds either way.
- A request whose transaction was replaced keeps its hash (`escrowFunding.js:556`); nobody
  asks for it again and it stays `pending`. `RequestResolves` states the exception.
- The receipt is looked up before head and nonce (`escrowFunding.js:540-546`): a
  transaction that is mined in between is recorded as replaced although it was executed, and
  its request may end `blocked` although the escrow is voided.
- A depositor's position is written from the event (`escrowFunding.js:754`) and from the
  summary (`:820`) without comparing their blocks, so an older run can put it back until
  the next one.
- `firebase/MOCK_MATCHING.md` says that contributions of a confirmed match stay when content is
  hidden or removed. `prepareModerationMatching` (`matching.js:510`) gives the locked ones
  back on a removal and reopens the posting; hiding is refused by `moderateContent`
  (`moderation.js:334`). The model does what the code does.

## 6. Not modelled, and what could follow

The order was: what moves money first, then what signs for it, then what mirrors it, then
what keeps its evidence. What is left, and why:

- moderation voids (`escrowModerationVoid.js`): a cursor over pages of proposals, each of
  which ends in the outbox that is modelled; what could go wrong is a proposal that arrives
  behind the cursor, and `firestore.rules:1094-1116` accept none for a removed posting;
- the back ends of grants, independent listings and approaches: mirrors that follow the
  same pattern as `EscrowSync` with one document per event, over contracts that are modelled;
- creation, AI and faucet quotas: counters in one transaction each;
- the audit trail's canonical hashing: a pure conversion whose interest is in byte strings,
  which is out of TLC's reach; recovery: one lease like that of the synchroniser;
- matching notices and AI assistance (scoring of text by a service), sessions (the state is with
  an external provider), chain access (retries of reads), dashboards, exports, queues and comments
  (reads and single writes), the front end's pages beyond what they read and sign;
- the first registry, the migrations (ran once), the payments sandbox and the test tokens.

The safety properties of the passing runs are all proved, two of them under the constraint that their
run has too (`CompletedPauseIsMirrored`, `PublishedBytesExist`). `CancellationExcludesPayment`, which the
code breaks, is proved under a hypothesis that excludes the break. What remains model-checked is
liveness. The next step would be the mirrors of grants and independent listings.
