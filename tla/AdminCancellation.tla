-------------------------- MODULE AdminCancellation --------------------------
(***************************************************************************)
(* An administrator's cancellation of one unpaid escrow                      *)
(* (escrowAdminCancellation.js): the request is filed, then reconciled by the *)
(* call that filed it and by every sweep, through the shared outbox of        *)
(* PlatformOutbox, until the escrow's Voided event is confirmed or the        *)
(* request is blocked.  Payments of the same escrow use the same signer.      *)
(*                                                                         *)
(* `cancelling' of PlatformOutbox is adminCancellationStatus of the funding   *)
(* job: queued or pending.  An escrow that somebody else closed blocks a      *)
(* request the way a payment does, and is left out.  Notices are left out.    *)
(***************************************************************************)
EXTENDS PlatformOutbox

CONSTANTS
    Void,           \* voidEscrow(reasonHash), the action of the one request
    Callers         \* members' calls that may file the request

ASSUME CancellationAssumption ==
    /\ Void \in Closers
    /\ Callers \subseteq Workers \ {Sweeper}

VARIABLES
    request,        \* the document escrowAdminCancellationJobs/{escrow}
    reconcile,      \* each invocation's local variables of this file
    authorised      \* the requesting administrator still is one

cancellationVars == <<request, reconcile, authorised>>
vars == <<outboxVars, cancellationVars>>

Causes == {"none", "replaced", "reverted", "released", "closed", "unauthorised"}

Request ==
    [status : {"none", "queued", "pending", "blocked", "complete"},
     hash : Tx \cup {NoTx}, cause : Causes]

NoRequest == [status |-> "none", hash |-> NoTx, cause |-> "none"]

Waiting == request.status \in {"queued", "pending"}
Closed == request.status \in {"blocked", "complete"}

Reconcile ==
    [pc : {"idle", "file", "job", "escrow", "outbox", "receipt", "confirm",
           "authorise", "submit", "signing", "update"},
     hash : Tx \cup {NoTx}, safe : 0..(MaxNonce + 1), changes : Request]

Inactive == [pc |-> "idle", hash |-> NoTx, safe |-> 0, changes |-> NoRequest]

CancellationTypeOK ==
    /\ OutboxTypeOK
    /\ request \in Request
    /\ reconcile \in [Workers -> Reconcile]
    /\ authorised \in BOOLEAN

CancellationInit ==
    /\ OutboxInit
    /\ request = NoRequest
    /\ reconcile = [w \in Workers |-> Inactive]
    /\ authorised = TRUE

In(w, pc) == reconcile[w].pc = pc
Proceed(w, local) == reconcile' = [reconcile EXCEPT ![w] = local]
To(w, pc) == Proceed(w, [reconcile[w] EXCEPT !.pc = pc])
Stop(w) == Proceed(w, Inactive)
Free(w) == In(w, "idle") /\ At(w, "idle")

\* The next step writes these changes; without a hash they leave it alone.
Report(w, status, cause, hash) ==
    Proceed(w, [Inactive EXCEPT !.pc = "update",
                  !.changes = [status |-> status, hash |-> hash, cause |-> cause]])

KeepsHash(changes) == changes.cause \in {"closed", "unauthorised"}

Paid(chain) == \E p \in Payments : Executed(p, chain)

\* Mutant: the escrow and the receipt are read at the head.
VerifiedAtHead(w) == Chain

\* What was confirmed when the escrow was read, one block below the head
Verified(w) == SubSeq(settled, 1, reconcile[w].safe)

-----------------------------------------------------------------------------
(* startEscrowAdminCancellation *)

ReviewEscrow(w) ==
    /\ Free(w)
    /\ request.status = "none"
    /\ ~Paid(settled) /\ ~Executed(Void, settled)
    /\ To(w, "file")
    /\ UNCHANGED <<outboxVars, request, authorised>>

\* The transaction, which looks at the outbox again.  The same request may have been
\* filed meanwhile by a call sent twice; another administrator's is refused.
FileRequest(w) ==
    /\ In(w, "file")
    /\ \/ /\ request.status = "none"
          /\ CanStartCancellation
          /\ request' = [NoRequest EXCEPT !.status = "queued"]
          /\ cancelling' = TRUE
          /\ To(w, "job")
       \/ request.status # "none" /\ To(w, "job") /\ UNCHANGED <<request, cancelling>>
       \/ /\ request.status # "none" \/ ~CanStartCancellation
          /\ Stop(w)
          /\ UNCHANGED <<request, cancelling>>
    /\ UNCHANGED <<chainVars, broadcast, outbox, worker, faults, authorised>>

-----------------------------------------------------------------------------
(* reconcileEscrowAdminCancellation *)

\* What is queued or pending is taken up, with the hash it has.
Begin(w) == Proceed(w, [Inactive EXCEPT !.pc = "escrow", !.hash = request.hash])

\* After filing
ReadRequest(w) ==
    /\ In(w, "job")
    /\ IF Waiting THEN Begin(w) ELSE Stop(w)
    /\ UNCHANGED <<outboxVars, request, authorised>>

\* Mutant: the sweep leaves a pending request to the outbox.
TakeUpQueued(w) ==
    /\ Free(w)
    /\ request.status = "queued"
    /\ Begin(w)
    /\ UNCHANGED <<outboxVars, request, authorised>>

TakeUp(w) ==
    /\ Free(w)
    /\ Waiting
    /\ Begin(w)
    /\ UNCHANGED <<outboxVars, request, authorised>>

ReadEscrow(w) ==
    /\ In(w, "escrow")
    /\ Proceed(w, [reconcile[w] EXCEPT !.pc = "outbox", !.safe = Len(settled)])
    /\ UNCHANGED <<outboxVars, request, authorised>>

KnownHash(w) ==
    IF reconcile[w].hash # NoTx THEN reconcile[w].hash
    ELSE IF outbox.tx.action = Void THEN outbox.tx
    ELSE IF outbox.lastTx.action = Void /\ outbox.lastOutcome = "success"
         THEN outbox.lastTx ELSE NoTx

ReadSigner(w) ==
    LET hash == KnownHash(w)
    IN /\ In(w, "outbox")
       /\ IF outbox.lastTx.action = Void /\ outbox.lastOutcome = "replaced"
          THEN Report(w, "blocked", "replaced", IF hash # NoTx THEN hash ELSE outbox.lastTx)
          ELSE Proceed(w, [reconcile[w] EXCEPT !.hash = hash,
                              !.pc = IF hash # NoTx THEN "receipt" ELSE "authorise"])
       /\ UNCHANGED <<outboxVars, request, authorised>>

\* reconcileFundingReceipt, and what follows from its answer
CheckReceipt(w) ==
    LET hash == reconcile[w].hash
        mined == IsMined(hash, Verified(w))
    IN /\ In(w, "receipt")
       /\ \/ /\ mined /\ Succeeded(hash, Verified(w))
             /\ IF ~Paid(Verified(w)) THEN To(w, "confirm")
                ELSE Report(w, "blocked", "released", hash)
             /\ UNCHANGED faults
          \/ /\ mined /\ ~Succeeded(hash, Verified(w))
             /\ Report(w, "blocked", "reverted", hash)
             /\ UNCHANGED faults
          \/ ~mined /\ Report(w, "pending", "none", hash) /\ UNCHANGED faults
          \/ mined /\ Fault /\ Report(w, "pending", "none", hash)
       /\ UNCHANGED <<chainVars, broadcast, outbox, worker, cancelling, request, authorised>>

\* confirmCancellation
ConfirmRequest(w) ==
    /\ In(w, "confirm")
    /\ Stop(w)
    /\ request' = [status |-> "complete", hash |-> reconcile[w].hash, cause |-> "none"]
    /\ cancelling' = FALSE
    /\ UNCHANGED <<chainVars, broadcast, outbox, worker, faults, authorised>>

\* Without a hash: the administrator and the escrow as it was read are asked once
\* more, then the signer.
Authorise(w) ==
    /\ In(w, "authorise")
    /\ IF ~authorised THEN Report(w, "blocked", "unauthorised", NoTx)
       ELSE IF Paid(Verified(w)) \/ Executed(Void, Verified(w))
       THEN Report(w, "blocked", "closed", NoTx)
       ELSE To(w, "submit")
    /\ UNCHANGED <<outboxVars, request, authorised>>

SubmitVoid(w) ==
    /\ In(w, "submit")
    /\ \/ Claim(w, Void, TRUE) /\ To(w, "signing")
       \/ /\ outbox.tx = NoTx /\ ~CanAcquire(Void, TRUE)
          /\ Report(w, "queued", "none", NoTx)
          /\ UNCHANGED outboxVars
    /\ UNCHANGED <<request, authorised>>

\* updateJob
UpdateRequest(w) ==
    LET changes == reconcile[w].changes IN
    /\ In(w, "update")
    /\ Stop(w)
    /\ IF request.status # "complete"
       THEN /\ request' = [changes EXCEPT !.hash =
                              IF KeepsHash(changes) THEN request.hash ELSE @]
            /\ cancelling' = (changes.status \in {"queued", "pending"})
       ELSE UNCHANGED <<request, cancelling>>
    /\ UNCHANGED <<chainVars, broadcast, outbox, worker, faults, authorised>>

-----------------------------------------------------------------------------
(* The shared signer *)

\* What resumePlatformTransaction writes into the request with the outbox
Recorded ==
    IF outbox.tx.action = Void /\ outbox'.tx # outbox.tx /\ ~Closed /\ request.status # "none"
    THEN [request EXCEPT !.hash = outbox.tx,
                         !.status = IF outbox'.lastOutcome = "replaced" THEN @ ELSE "pending"]
    ELSE request

Resuming(w) == worker[w].pc \in {"resume", "receipt", "conclude"}

\* The hash that submitPlatformAction returns when it ends with this step
Returned(w) ==
    IF worker[w].pc = "send" THEN worker[w].tx
    ELSE IF Resuming(w)
         THEN IF worker[w].previous.action = Void THEN worker[w].previous ELSE NoTx
    ELSE IF outbox.tx # NoTx
         THEN IF outbox.tx.action = Void THEN outbox.tx ELSE NoTx
    ELSE IF DoneMeanwhile(Void) THEN outbox.lastTx ELSE NoTx

\* A preparation that fails throws: the request is left as it is.
Throws(w) == worker[w].pc \in {"prepare", "persist"}

MaySign(w) == worker[w].action = Void => authorised

SignerStep(w) ==
    /\ SignStep(w, TRUE) \/ ResumeStep(w)
    /\ At(w, "prepare") /\ worker'[w].pc = "persist" => MaySign(w)
    /\ request' = Recorded
    /\ IF In(w, "signing") /\ worker'[w].pc = "idle"
       THEN IF Throws(w) THEN Stop(w)
            ELSE Report(w, IF Returned(w) = NoTx THEN "queued" ELSE "pending",
                        "none", Returned(w))
       ELSE UNCHANGED reconcile
    /\ UNCHANGED authorised

\* The guarded wallet asks for the administrator's authority once more.
RefuseToSign(w) ==
    /\ At(w, "prepare") /\ ~MaySign(w)
    /\ GiveUp(w) /\ Stop(w)
    /\ UNCHANGED <<faults, request, authorised>>

\* Every sweep resumes first.
StartSweep ==
    /\ Free(Sweeper)
    /\ StartResume(Sweeper)
    /\ UNCHANGED cancellationVars

\* A payment that a synchronisation asks for, the sweep's or a member's
PaymentCall(w) ==
    /\ Free(w)
    /\ \E p \in Payments : Claim(w, p, TRUE)
    /\ UNCHANGED cancellationVars

LoseAuthority ==
    /\ authorised /\ Fault
    /\ authorised' = FALSE
    /\ UNCHANGED <<chainVars, broadcast, outbox, worker, cancelling, request, reconcile>>

KillCall(w) ==
    /\ ~Free(w)
    /\ Fault
    /\ Rest(w) /\ Stop(w)
    /\ UNCHANGED <<chainVars, broadcast, outbox, cancelling, request, authorised>>

ReconcileStep(w) ==
    \/ FileRequest(w) \/ ReadRequest(w) \/ ReadEscrow(w) \/ ReadSigner(w)
    \/ CheckReceipt(w) \/ ConfirmRequest(w) \/ Authorise(w) \/ SubmitVoid(w)
    \/ UpdateRequest(w)

Chains == (ChainNext \/ LeaseExpires) /\ UNCHANGED cancellationVars

Next ==
    \/ Chains \/ LoseAuthority
    \/ StartSweep \/ TakeUp(Sweeper)
    \/ \E w \in Callers : ReviewEscrow(w)
    \/ \E w \in Workers :
          \/ PaymentCall(w) \/ ReconcileStep(w)
          \/ SignerStep(w) \/ RefuseToSign(w) \/ KillCall(w)

Spec == CancellationInit /\ [][Next]_vars
=============================================================================
