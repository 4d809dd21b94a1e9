---------------------------- MODULE PostingPause ----------------------------
(***************************************************************************)
(* Mirroring a posting's moderation onto the registry: a write of the        *)
(* document triggers queuePostingFundingPause, which files a job; the sweep's *)
(* reconcilePostingFundingPause compares the document with the chain and asks *)
(* the signer for setPostingFundingPaused, through PlatformOutbox, or         *)
(* completes the job.  One posting.                                         *)
(***************************************************************************)
EXTENDS PlatformOutbox

CONSTANTS
    Pause, Unpause,     \* setPostingFundingPaused(posting, true) and (.., false)
    MaxEdits            \* bound: moderation decisions about the posting

ASSUME PauseAssumption ==
    /\ {Pause, Unpause} \subseteq Actions \ (OneTime \cup Payments \cup MayRevert)
    /\ Pause # Unpause
    /\ MaxEdits \in Nat

VARIABLES
    desired,    \* desiredPostingPause of the document: moderated or withdrawn
    edits,      \* decisions taken so far
    triggers,   \* document writes whose trigger has not run
    job,        \* the document fundingPauseJobs/{posting}
    sweep       \* reconcilePostingFundingPause's local variables

pauseVars == <<desired, edits, triggers, job, sweep>>
mirrorVars == <<outboxVars, pauseVars>>

Job == [status : {"none", "pending", "complete"}, revision : Nat]

\* revision is randomUUID(): a fresh one for every run of the trigger
SweepState ==
    [pc : {"idle", "posting", "chain", "complete", "submit", "signing"},
     revision : Nat, desired : BOOLEAN]

SweepIdle == [pc |-> "idle", revision |-> 0, desired |-> FALSE]

PauseTypeOK ==
    /\ OutboxTypeOK
    /\ desired \in BOOLEAN
    /\ edits \in 0..MaxEdits /\ triggers \in 0..MaxEdits
    /\ job \in Job
    /\ sweep \in SweepState

PauseInit ==
    /\ OutboxInit
    /\ desired = FALSE
    /\ edits = 0 /\ triggers = 0
    /\ job = [status |-> "none", revision |-> 0]
    /\ sweep = SweepIdle

PauseAction(b) == IF b THEN Pause ELSE Unpause

\* postingFundingPaused after the given transactions
PausedBy(chain) ==
    \E i \in 1..Len(chain) :
        /\ chain[i].action = Pause
        /\ \A j \in (i + 1)..Len(chain) : chain[j].action # Unpause

-----------------------------------------------------------------------------

\* A write of the posting: moderation removes or restores it, or neither.
Moderate ==
    /\ edits < MaxEdits
    /\ desired' \in BOOLEAN
    /\ edits' = edits + 1 /\ triggers' = triggers + 1
    /\ UNCHANGED <<outboxVars, job, sweep>>

\* Mutant: a job that waits keeps the revision a sweep may have read.
SameRevision == [status |-> "pending", revision |-> job.revision]

NewRevision == [status |-> "pending", revision |-> job.revision + 1]

\* Triggers run at least once for each write (retry: true).
QueuePostingFundingPause ==
    /\ triggers > 0
    /\ \/ triggers' = triggers - 1 /\ UNCHANGED faults
       \/ Fault /\ UNCHANGED triggers
    /\ job' = NewRevision
    /\ UNCHANGED <<chainVars, broadcast, outbox, worker, cancelling, desired, edits, sweep>>

-----------------------------------------------------------------------------
(* reconcilePostingFundingPause *)

Sweep(local) == sweep' = local

SweepFree == sweep.pc \in {"idle", "signing"} /\ At(Sweeper, "idle")

PickJob ==
    /\ SweepFree
    /\ job.status = "pending"
    /\ Sweep([SweepIdle EXCEPT !.pc = "posting", !.revision = job.revision])
    /\ UNCHANGED <<outboxVars, desired, edits, triggers, job>>

ReadPosting ==
    /\ sweep.pc = "posting"
    /\ Sweep([sweep EXCEPT !.pc = "chain", !.desired = desired])
    /\ UNCHANGED <<outboxVars, desired, edits, triggers, job>>

\* readContract(postingFundingPaused) at the newest block
ReadChain ==
    /\ sweep.pc = "chain"
    /\ Sweep([sweep EXCEPT !.pc = IF PausedBy(Chain) = sweep.desired
                                  THEN "complete" ELSE "submit"])
    /\ UNCHANGED <<outboxVars, desired, edits, triggers, job>>

\* pending?.problemId === job.problemId
Concerns == outbox.action \in {Pause, Unpause}

\* Mutant: the job completes whatever is in flight.
InFlightIgnored == FALSE

InFlight == Concerns /\ (outbox.tx # NoTx \/ outbox.live)

\* completePauseJob's transaction; an abandoned preparer loses its lease
CompletePauseJob ==
    /\ sweep.pc = "complete"
    /\ Sweep(SweepIdle)
    /\ IF job.revision # sweep.revision \/ InFlight
       THEN UNCHANGED <<outbox, job>>
       ELSE /\ job' = [job EXCEPT !.status = "complete"]
            /\ outbox' = IF Concerns /\ outbox.token # None THEN Idle ELSE outbox
    /\ UNCHANGED <<chainVars, broadcast, worker, cancelling, faults,
                   desired, edits, triggers>>

\* The check inside the claim: the job and the document are still those read.
StillWanted ==
    /\ job.revision = sweep.revision /\ job.status = "pending"
    /\ desired = sweep.desired

\* submitPlatformAction: the first claim, or its refusal
SubmitPause ==
    LET a == PauseAction(sweep.desired)
    IN /\ sweep.pc = "submit"
       /\ \/ Claim(Sweeper, a, StillWanted) /\ Sweep([sweep EXCEPT !.pc = "signing"])
          \/ /\ outbox.tx = NoTx /\ ~CanAcquire(a, StillWanted)
             /\ Sweep(SweepIdle)
             /\ UNCHANGED outboxVars
       /\ UNCHANGED <<desired, edits, triggers, job>>

CrashSweep ==
    /\ sweep.pc \notin {"idle", "signing"}
    /\ Fault
    /\ Sweep(SweepIdle)
    /\ UNCHANGED <<chainVars, broadcast, outbox, worker, cancelling, desired, edits,
                   triggers, job>>

-----------------------------------------------------------------------------

MirrorStep == ReadPosting \/ ReadChain \/ CompletePauseJob \/ SubmitPause

SignerMoves(w, eligible) == SignStep(w, eligible) \/ ResumeStep(w)

\* The steps of the sweep inside submitPlatformAction and the resumption before it
SweeperStep ==
    /\ \/ SignerMoves(Sweeper, StillWanted)
       \/ SweepFree /\ StartResume(Sweeper)
    /\ UNCHANGED pauseVars

Environment ==
    \/ Moderate \/ QueuePostingFundingPause
    \/ (ChainNext \/ LeaseExpires \/ Crash(Sweeper)) /\ UNCHANGED pauseVars
    \/ CrashSweep

\* Members' calls use the signer for other actions.
OtherStep ==
    /\ \E w \in Workers \ {Sweeper} :
         \/ \E a \in Actions \ {Pause, Unpause} : Claim(w, a, TRUE)
         \/ SignerMoves(w, TRUE)
         \/ Crash(w)
    /\ UNCHANGED pauseVars

PauseNext == PickJob \/ MirrorStep \/ SweeperStep \/ Environment \/ OtherStep

PauseSpec == PauseInit /\ [][PauseNext]_mirrorVars

-----------------------------------------------------------------------------

\* A completed job means that the registry shows the posting's present state and
\* that it will stay so: "otherwise its later mining wins"
\* (completePauseJob).
CompletedPauseIsMirrored ==
    job.status = "complete" /\ triggers = 0 => PausedBy(Chain) = desired

\* Which holds while nobody clears the outbox of a pause or a restoration between the
\* sweep's reading of the chain and its completing the job: an action constraint of
\* the run and the hypothesis of the theorem.  PauseRace.cfg shows what happens when
\* a member's call does.
SweepIsNotOvertaken ==
    Concerns /\ outbox.tx # NoTx /\ outbox'.tx = NoTx => sweep.pc # "complete"

\* A pause or a restoration reaches the registry: once moderation rests, the chain
\* comes to show its last decision and keeps showing it.
PauseIsEventuallyMirrored == <>[](PausedBy(settled) = desired)

\* Blocks and triggers keep coming, leases run out, and every sweep takes up the
\* jobs that are due.
PauseFairness ==
    /\ WF_mirrorVars((\E t \in broadcast : Mine(t)) /\ UNCHANGED pauseVars)
    /\ WF_mirrorVars(EmptyBlock /\ UNCHANGED pauseVars)
    /\ WF_mirrorVars(LeaseExpires /\ UNCHANGED pauseVars)
    /\ WF_mirrorVars(QueuePostingFundingPause)
    /\ SF_mirrorVars(PickJob)
    /\ WF_mirrorVars(MirrorStep)
    /\ WF_mirrorVars(SweeperStep)

FairPauseSpec == PauseSpec /\ PauseFairness

=============================================================================
