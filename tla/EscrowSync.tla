------------------------------ MODULE EscrowSync ------------------------------
(***************************************************************************)
(* How the confirmed events of one proposal's escrow reach Firestore:         *)
(* syncEscrowFunding of escrowFunding.js, run by the scheduled sweep and by    *)
(* members' calls at once, page by page from a checkpoint, the owner's         *)
(* startEscrowSettlement, and the dashboards, which save the summary too.      *)
(*                                                                         *)
(* The chain is the sequence of the escrow's events, each with its block; the  *)
(* events of the newest block, however many, are not confirmed yet.  A         *)
(* Firestore transaction is one action, with the reads that follow it; a run   *)
(* works on the job as it was when it claimed the lease.  The target has been  *)
(* deposited when the model starts, by one depositor, and no run has been      *)
(* there yet.                                                                *)
(*                                                                         *)
(* Data abstractions.  A page is PageSize events (TX_PAGE receipts,            *)
(* ANCHOR_PAGE anchors) of at most Span blocks (BLOCK_SPAN), and may end       *)
(* between any two events of a block, of one receipt or of two; an event's     *)
(* position in the chain stands for its log index and for its offset in its    *)
(* receipt; a summary is the block it was read at; selection ids are numbered  *)
(* instead of random; the platform's outbox is the one action it holds.        *)
(* Depositors' positions, notices and refund reasons are left out, and so is a *)
(* reorganisation of confirmed blocks, which stops the synchronisation.        *)
(***************************************************************************)
EXTENDS Naturals, Sequences, FiniteSets

CONSTANTS
    Callers,        \* members' calls
    Sweeper,        \* the scheduled invocation
    None,
    PageSize,       \* events in a page
    Span,           \* blocks in a page
    MaxHeight,      \* bound: confirmed blocks
    MaxEvents,      \* bound: events of the escrow
    MaxSelections,  \* bound: selection ids
    MaxFaults       \* bound: crashes and failed reads

ASSUME SyncAssumption ==
    /\ Sweeper \notin Callers /\ None \notin Callers \cup {Sweeper}
    /\ PageSize \in Nat \ {0} /\ Span \in Nat \ {0}
    /\ MaxHeight \in Nat \ {0} /\ MaxEvents \in Nat \ {0} /\ MaxSelections \in Nat /\ MaxFaults \in Nat

VARIABLES
    chain,          \* events of the escrow, in order
    height,         \* the newest confirmed block
    platform,       \* the action in the platform signer's outbox
    recorded,       \* positions of the documents of escrowFundingEvents
    job,            \* the document escrowFundingJobs/{proposal}
    summary,        \* the block of the document escrowFundingSummaries/{proposal}
    posting,        \* escrowSelection and acceptedProposalId of the posting
    proposal,       \* the proposal's status
    run,            \* each invocation's local variables
    faults

chainVars == <<chain, height, platform>>
documents == <<recorded, job, summary, posting, proposal>>
vars == <<chainVars, documents, run, faults>>

Workers == Callers \cup {Sweeper}
Ids == 0..MaxSelections
NoId == 0

Kinds == {"Deposit", "Locked", "Declined", "Upfront", "Final", "Closed", "Claimed"}
Event == [kind : Kinds, id : Ids, block : 1..MaxHeight]

-----------------------------------------------------------------------------
(* The escrow as a reader sees it after its first n events *)

Has(n, kind) == \E i \in 1..n : chain[i].kind = kind
Unpaid(n) == ~Has(n, "Upfront")

State(n) ==
    IF Has(n, "Closed") \/ Has(n, "Declined")
    THEN IF Has(n, "Claimed") THEN "Refunded" ELSE "Cancelled"
    ELSE IF Has(n, "Final") THEN "Released"
    ELSE IF Has(n, "Upfront") THEN "Active"
    ELSE IF Has(n, "Locked") THEN "Locked" ELSE "Open"

UnpaidTerminal(n) == Unpaid(n) /\ State(n) \in {"Cancelled", "Refunded"}

Now == Len(chain)
Upto(block) == Cardinality({i \in 1..Now : chain[i].block <= block})

Actions == {<<"Locked", id>> : id \in Ids} \cup {<<"Upfront", NoId>>, <<"Final", NoId>>}

\* What the contract carries out of the platform
Allowed(kind) ==
    \/ kind = "Locked" /\ State(Now) = "Open" /\ Has(Now, "Deposit")
    \/ kind = "Upfront" /\ State(Now) = "Locked"
    \/ kind = "Final" /\ State(Now) = "Active"

\* In the newest block, which the next one will confirm.
Happens(kind, id) ==
    /\ Now < MaxEvents /\ height < MaxHeight
    /\ chain' = Append(chain, [kind |-> kind, id |-> id, block |-> height + 1])
    /\ UNCHANGED height

LockedId == IF \E i \in 1..Now : chain[i].kind = "Locked"
            THEN (CHOOSE e \in {chain[i] : i \in 1..Now} : e.kind = "Locked").id ELSE NoId

Decline ==
    /\ State(Now) = "Locked"
    /\ Happens("Declined", LockedId)
    /\ UNCHANGED <<platform, documents, run, faults>>

\* A cancellation, a moderator's void or an expiry
Close ==
    /\ State(Now) \in {"Open", "Locked", "Active"}
    /\ Happens("Closed", NoId)
    /\ UNCHANGED <<platform, documents, run, faults>>

Refund ==
    /\ State(Now) = "Cancelled"
    /\ Happens("Claimed", NoId)
    /\ UNCHANGED <<platform, documents, run, faults>>

\* The platform's transaction is mined, with or without effect.
Settle ==
    /\ platform # None
    /\ platform' = None
    /\ IF Allowed(platform[1]) THEN Happens(platform[1], platform[2])
       ELSE UNCHANGED <<chain, height>>
    /\ UNCHANGED <<documents, run, faults>>

\* The newest block is confirmed by the one that follows it.
ConfirmBlock ==
    /\ height < MaxHeight
    /\ height' = height + 1
    /\ UNCHANGED <<chain, platform, documents, run, faults>>

-----------------------------------------------------------------------------
(* Documents and local variables *)

\* block and index are cursorBlock (0: null) and cursorLogIndex (0: null);
\* invalid is reconciliationInvalidatedSelection.
Job ==
    [block : 0..MaxHeight, index : 0..MaxEvents, anchors : 0..MaxEvents,
     requested : BOOLEAN, id : Ids, invalid : Ids,
     token : Workers \cup {None}, live : BOOLEAN, complete : BOOLEAN]

NewJob ==
    [block |-> 0, index |-> 0, anchors |-> 0, requested |-> FALSE, id |-> NoId,
     invalid |-> NoId, token |-> None, live |-> FALSE, complete |-> FALSE]

Run ==
    [pc : {"idle", "claim", "save", "finish", "view"},
     job : Job, safe : 0..MaxHeight, saved : 0..MaxEvents]

Resting == [pc |-> "idle", job |-> NewJob, safe |-> 0, saved |-> 0]

TypeOK ==
    /\ chain \in Seq(Event) /\ Len(chain) <= MaxEvents
    /\ height \in 0..MaxHeight
    /\ platform \in Actions \cup {None}
    /\ recorded \subseteq 1..MaxEvents
    /\ job \in Job
    /\ summary \in 0..MaxHeight
    /\ posting \in [selection : Ids, accepted : BOOLEAN]
    /\ proposal \in {"submitted", "accepted", "rejected"}
    /\ run \in [Workers -> Run]
    /\ faults \in 0..MaxFaults

Init ==
    /\ chain = <<[kind |-> "Deposit", id |-> NoId, block |-> 1]>> /\ height = 1
    /\ platform = None
    /\ recorded = {}
    /\ job = NewJob
    /\ summary = 0
    /\ posting = [selection |-> NoId, accepted |-> FALSE]
    /\ proposal = "submitted"
    /\ run = [w \in Workers |-> Resting]
    /\ faults = 0

At(w, pc) == run[w].pc = pc
Goto(w, local) == run' = [run EXCEPT ![w] = local]
Rest(w) == Goto(w, Resting)
Fault == faults < MaxFaults /\ faults' = faults + 1

\* The newest confirmed block; a node that lags answers with the one before.
ReadHeight(b) ==
    \/ b = height /\ UNCHANGED faults
    \/ b + 1 = height /\ Fault

-----------------------------------------------------------------------------
(* The page of a run: a function of the job it claimed and the block it reads *)

Partial(j) == j.index # 0
FromBlock(j) == IF Partial(j) \/ j.block = 0 THEN (IF j.block = 0 THEN 1 ELSE j.block)
                ELSE j.block + 1
ToBlock(j, safe) == IF FromBlock(j) + Span - 1 < safe THEN FromBlock(j) + Span - 1 ELSE safe

Logs(j, safe) ==
    {i \in 1..Now : /\ FromBlock(j) <= chain[i].block /\ chain[i].block <= ToBlock(j, safe)
                    /\ Partial(j) => i > j.index}

Page(j, safe) == {i \in Logs(j, safe) : Cardinality({k \in Logs(j, safe) : k <= i}) <= PageSize}

Whole(j, safe) == Page(j, safe) = Logs(j, safe)
Complete(j, safe) == Whole(j, safe) /\ ToBlock(j, safe) = safe

LastOf(S) == CHOOSE i \in S : \A k \in S : k <= i

\* Mutant: a page that was cut short counts as read to its end.
NextCheckpointAtEnd(j, safe) == [block |-> ToBlock(j, safe), index |-> 0]

NextCheckpoint(j, safe) ==
    IF Whole(j, safe) THEN [block |-> ToBlock(j, safe), index |-> 0]
    ELSE [block |-> chain[LastOf(Page(j, safe))].block, index |-> LastOf(Page(j, safe))]

NextAnchors(j, safe) == j.anchors + Cardinality(Page(j, safe))

\* `indexed anchor count differs from the registry'
CountsAgree(j, safe) == Complete(j, safe) => NextAnchors(j, safe) = Upto(safe)

Consumed(j, safe) ==
    \E i \in Page(j, safe) :
        chain[i].kind \in {"Locked", "Declined"} /\ chain[i].id = j.id

\* Mutant: what an earlier page saw is not carried to the one that completes.
InvalidatedHere(j, safe) ==
    LET here == {i \in Page(j, safe) : chain[i].kind = "Declined"}
    IN IF here # {} THEN chain[LastOf(here)].id ELSE NoId

Invalidated(j, safe) ==
    LET here == {i \in Page(j, safe) : chain[i].kind = "Declined"}
    IN IF here # {} THEN chain[LastOf(here)].id ELSE j.invalid

-----------------------------------------------------------------------------
(* syncEscrowFunding *)

\* The lease; the sweep takes up pending jobs only.
Claim(w) ==
    /\ \/ At(w, "claim")
       \/ At(w, "idle") /\ (w = Sweeper => ~job.complete)
    /\ \/ job.live /\ Rest(w) /\ UNCHANGED <<job, faults>>
       \/ /\ ~job.live
          /\ job' = [job EXCEPT !.token = w, !.live = TRUE]
          /\ \E safe \in 0..height :
                /\ ReadHeight(safe)
                /\ Goto(w, [Resting EXCEPT !.pc = "save", !.safe = safe,
                                !.job = [job EXCEPT !.token = None, !.complete = FALSE]])
    /\ UNCHANGED <<chainVars, recorded, summary, posting, proposal>>

\* 180 seconds from the start of the sweep, which may itself take longer: that its
\* lease ends before a run does counts as a fault.
LeaseExpires ==
    /\ job.live
    /\ IF run[job.token].pc \in {"save", "finish"} THEN Fault ELSE UNCHANGED faults
    /\ job' = [job EXCEPT !.live = FALSE]
    /\ UNCHANGED <<chainVars, recorded, summary, posting, proposal, run>>

SaveEvent(w) ==
    LET page == Page(run[w].job, run[w].safe) IN
    /\ At(w, "save")
    /\ run[w].saved < Cardinality(page)
    /\ recorded' = recorded \cup
          {i \in page : Cardinality({k \in page : k <= i}) = run[w].saved + 1}
    /\ Goto(w, [run[w] EXCEPT !.saved = @ + 1])
    /\ UNCHANGED <<chainVars, job, summary, posting, proposal, faults>>

\* The catch block
Abort(w) ==
    /\ Rest(w)
    /\ job' = IF job.token = w THEN [job EXCEPT !.live = FALSE, !.complete = FALSE] ELSE job
    /\ UNCHANGED <<chainVars, recorded, summary, posting, proposal>>

PageSaved(w) == At(w, "save") /\ run[w].saved = Cardinality(Page(run[w].job, run[w].safe))

Mismatch(w) ==
    /\ PageSaved(w)
    /\ ~CountsAgree(run[w].job, run[w].safe)
    /\ Abort(w)
    /\ UNCHANGED faults

\* settlementAction: approvals and evidence are anybody's guess.
Decisions(j, safe) ==
    LET n == Upto(safe) IN
    IF ~Complete(j, safe) \/ proposal = "rejected" THEN {}
    ELSE IF State(n) = "Open"
         THEN IF j.requested /\ ~Consumed(j, safe) /\ Has(n, "Deposit") THEN {<<"Locked", j.id>>} ELSE {}
    ELSE IF State(n) = "Locked" THEN {<<"Upfront", NoId>>, None}
    ELSE IF State(n) = "Active" THEN {<<"Final", NoId>>, None} ELSE {}

\* The counts, and submitPlatformAction, which waits while the signer holds another
\* transaction
Compare(w) ==
    LET j == run[w].job
        safe == run[w].safe
        decisions == Decisions(j, safe)
    IN /\ PageSaved(w)
       /\ CountsAgree(j, safe)
       /\ IF platform # None \/ decisions = {} THEN UNCHANGED platform
          ELSE platform' \in decisions
       /\ Goto(w, [run[w] EXCEPT !.pc = "finish"])
       /\ UNCHANGED <<chain, height, documents, faults>>

MayFinish(w) == job.token = w

\* Mutant: a request ends with the first complete page that follows it.
KeepsRequestUntilSynced(j, safe) == job.requested /\ ~(Complete(j, safe) /\ j.requested)

KeepsRequest(j, safe) ==
    /\ job.requested
    /\ ~ /\ Consumed(j, safe) \/ (Complete(j, safe) /\ UnpaidTerminal(Upto(safe)))
         /\ job.id = j.id

\* Mutant: any state without a next payment ends the job.
JobEndsEarly(j, safe) ==
    Complete(j, safe) /\ State(Upto(safe)) \in {"Released", "Refunded", "Cancelled"}

JobEnds(j, safe) == Complete(j, safe) /\ State(Upto(safe)) \in {"Released", "Refunded"}

FinishJob(j, safe) ==
    job' = [job EXCEPT
        !.block = NextCheckpoint(j, safe).block, !.index = NextCheckpoint(j, safe).index,
        !.anchors = NextAnchors(j, safe),
        !.invalid = IF Complete(j, safe) THEN NoId ELSE Invalidated(j, safe),
        !.requested = KeepsRequest(j, safe), !.live = FALSE,
        !.complete = JobEnds(j, safe)]

\* Mutant: the summary is written like any other document.
MayReplaceSummaryAnyway(block) == TRUE

MayReplaceSummary(block) == summary <= block

FinishSummary(w, safe) ==
    summary' = IF Complete(run[w].job, safe) /\ MayReplaceSummary(safe)
               THEN safe ELSE summary

FinishWorkflow(j, safe) ==
    LET n == Upto(safe)
        complete == Complete(j, safe)
        invalid == Invalidated(j, safe)
        terminal == complete /\ UnpaidTerminal(n)
        paid == complete /\ ~Unpaid(n)
        declined == terminal /\ invalid # NoId
        ends == /\ ~posting.accepted /\ Unpaid(n) /\ posting.selection # NoId
                /\ posting.selection = invalid \/ (terminal /\ posting.selection = job.id)
    IN /\ proposal' = IF proposal # "submitted" THEN proposal
                      ELSE IF paid THEN "accepted"
                      ELSE IF declined THEN "rejected" ELSE proposal
       /\ posting' = [selection |-> IF ends THEN NoId ELSE posting.selection,
                      accepted |-> posting.accepted \/ paid]

\* The last transaction of a run
Finish(w) ==
    LET j == run[w].job
        safe == run[w].safe
    IN /\ At(w, "finish")
       /\ MayFinish(w)
       /\ FinishJob(j, safe)
       /\ FinishSummary(w, safe)
       /\ FinishWorkflow(j, safe)
       /\ Rest(w)
       /\ UNCHANGED <<chainVars, recorded, faults>>

LostLease(w) ==
    /\ At(w, "finish")
    /\ ~MayFinish(w)
    /\ Abort(w)
    /\ UNCHANGED faults

\* A read or a write fails, and is reported.
Fail(w) ==
    /\ run[w].pc \in {"save", "finish"}
    /\ Fault
    /\ Abort(w)

Crash(w) ==
    /\ ~At(w, "idle")
    /\ Fault
    /\ Rest(w)
    /\ UNCHANGED <<chainVars, documents>>

-----------------------------------------------------------------------------
(* startEscrowSettlement *)

\* The owner selects the proposal: the escrow is read, at most a block before the
\* transaction (bound), and the call goes on as a synchronisation.
StartSettlement(w) ==
    /\ At(w, "idle")
    /\ \E safe \in 0..height :
          ReadHeight(safe) /\ State(Upto(safe)) = "Open" /\ Has(Upto(safe), "Deposit")
    /\ proposal # "rejected"
    /\ job.requested \/ job.id < MaxSelections
    /\ job' = [job EXCEPT !.requested = TRUE,
                  !.id = IF job.requested THEN @ ELSE @ + 1]
    /\ posting' = [posting EXCEPT !.selection = job'.id]
    /\ Goto(w, [Resting EXCEPT !.pc = "claim"])
    /\ UNCHANGED <<chainVars, recorded, summary, proposal>>

-----------------------------------------------------------------------------
(* The summary as the dashboards save it: getPostingEscrowFundingSummary and    *)
(* refreshEscrowDashboardSnapshot read the escrow, then saveFundingSnapshot.    *)

ReadSnapshot(w) ==
    /\ At(w, "idle")
    /\ \E safe \in 0..height :
          ReadHeight(safe) /\ Goto(w, [Resting EXCEPT !.pc = "view", !.safe = safe])
    /\ UNCHANGED <<chainVars, documents>>

SaveFundingSnapshot(w) ==
    /\ At(w, "view")
    /\ summary' = IF MayReplaceSummary(run[w].safe) THEN run[w].safe ELSE summary
    /\ Rest(w)
    /\ UNCHANGED <<chainVars, recorded, job, posting, proposal, faults>>

-----------------------------------------------------------------------------

Escrow == Decline \/ Close \/ Refund \/ Settle

RunStep(w) ==
    \/ SaveEvent(w) \/ Compare(w) \/ Mismatch(w) \/ Finish(w) \/ LostLease(w)
    \/ SaveFundingSnapshot(w)

Next ==
    \/ Escrow \/ ConfirmBlock \/ LeaseExpires
    \/ \E w \in Workers : Claim(w) \/ RunStep(w) \/ Fail(w) \/ Crash(w)
    \/ \E w \in Callers : StartSettlement(w) \/ ReadSnapshot(w)

Spec == Init /\ [][Next]_vars
=============================================================================
