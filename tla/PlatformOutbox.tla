--------------------------- MODULE PlatformOutbox ---------------------------
(***************************************************************************)
(* The outbox of the platform's one signer: submitPlatformAction and         *)
(* resumePlatformTransaction of escrowFunding.js, run concurrently by the     *)
(* scheduled sweep and by the callables of members, over a chain whose        *)
(* newest block may still be dropped.                                        *)
(*                                                                         *)
(* The Firestore document is a record; a Firestore transaction is one        *)
(* action.  Every read of the chain and of the document outside a            *)
(* transaction is a step of its own.  A transaction hash stands for the       *)
(* signed bytes: the action and the nonce.                                   *)
(*                                                                         *)
(* Data abstractions.  A lease is `live' until LeaseExpires; what makes an    *)
(* action ineligible (moderation, an obsolete pause) is the parameter         *)
(* `eligible' of the two transactions that ask; a block holds at most one     *)
(* transaction of this signer, and a block with none is only told apart by    *)
(* what it confirms.                                                         *)
(***************************************************************************)
EXTENDS Naturals, Sequences, FiniteSets

CONSTANTS
    Workers,        \* concurrent invocations; its name stands for its lease token
    Sweeper,        \* the scheduled one (maxInstances 1)
    Actions,        \* action keys the platform may be asked for
    OneTime,        \* those the chain executes once at most (selection, payment)
    Payments,       \* the payments an administrator's cancellation excludes
    Closers,        \* the cancellation's own transaction: no payment succeeds after it
    MayRevert,      \* those that may fail on chain for reasons of their own
    Outside,        \* a transaction signed with the same key elsewhere
    None,           \* no action, no worker, no transaction
    MaxNonce,       \* bound: transactions of the signer
    MaxFaults       \* bound: reorganisations, crashes, lost sends, RPC errors ...

ASSUME OutboxAssumption ==
    /\ Sweeper \in Workers
    /\ OneTime \subseteq Actions /\ Payments \subseteq Actions /\ MayRevert \subseteq Actions
    /\ Closers \subseteq OneTime \ Payments
    /\ Outside \notin Actions /\ None \notin Actions \cup Workers \cup {Outside}
    /\ MaxNonce \in Nat /\ MaxFaults \in Nat

VARIABLES
    settled,        \* the signer's transactions under the newest block, by nonce
    tip,            \* its transaction in the newest block, if any
    broadcast,      \* transactions the network has received
    outbox,         \* the document escrowPlatformOutbox/{deployment}
    worker,         \* each invocation's local variables
    cancelling,     \* an administrator's cancellation of the payments is active
    faults

chainVars == <<settled, tip>>
outboxVars == <<settled, tip, broadcast, outbox, worker, cancelling, faults>>

Chain == settled \o tip

\* A signed transaction; on the chain, its nonce is its position.
Tx == [action : Actions \cup {Outside}, nonce : 0..MaxNonce]
NoTx == [action |-> None, nonce |-> 0]
Mined == [action : Actions \cup {Outside}, ok : BOOLEAN]

IsMined(t, chain) == t.nonce < Len(chain) /\ chain[t.nonce + 1].action = t.action
Succeeded(t, chain) == IsMined(t, chain) /\ chain[t.nonce + 1].ok
Executed(a, chain) == \E i \in 1..Len(chain) : chain[i] = [action |-> a, ok |-> TRUE]

Outcomes == {"none", "success", "reverted", "replaced"}

Outbox ==
    [tx : Tx \cup {NoTx}, action : Actions \cup {None}, token : Workers \cup {None},
     live : BOOLEAN, lastTx : Tx \cup {NoTx}, lastOutcome : Outcomes]

\* {status: "idle", leaseUntil: 0}: the last outcome is forgotten.
Idle == [tx |-> NoTx, action |-> None, token |-> None, live |-> FALSE,
         lastTx |-> NoTx, lastOutcome |-> "none"]

Steps == {"idle", "resume", "receipt", "conclude", "reclaim", "prepare", "persist", "send"}

Worker ==
    [pc : Steps, action : Actions \cup {None}, tx : Tx \cup {NoTx},
     previous : Tx \cup {NoTx}, receipt : {"none", "seen", "orphaned"}]

Resting == [pc |-> "idle", action |-> None, tx |-> NoTx, previous |-> NoTx,
            receipt |-> "none"]

OutboxTypeOK ==
    /\ settled \in Seq(Mined) /\ tip \in Seq(Mined) /\ Len(tip) <= 1
    /\ broadcast \subseteq Tx
    /\ outbox \in Outbox
    /\ worker \in [Workers -> Worker]
    /\ cancelling \in BOOLEAN
    /\ faults \in 0..MaxFaults

OutboxInit ==
    /\ settled = <<>> /\ tip = <<>>
    /\ broadcast = {}
    /\ outbox = Idle
    /\ worker = [w \in Workers |-> Resting]
    /\ cancelling = FALSE
    /\ faults = 0

At(w, pc) == worker[w].pc = pc
Goto(w, local) == worker' = [worker EXCEPT ![w] = local]
Rest(w) == Goto(w, Resting)
Fault == faults < MaxFaults /\ faults' = faults + 1

-----------------------------------------------------------------------------
(* The chain *)

NewBlock(transactions) == settled' = Chain /\ tip' = transactions

\* What the escrow's contract refuses: a second execution, a payment of a closed one
Refused(a) ==
    \/ a \in OneTime /\ Executed(a, Chain)
    \/ a \in Payments /\ \E c \in Closers : Executed(c, Chain)

Effects(a) ==
    IF Refused(a) THEN {FALSE}
    ELSE IF a \in MayRevert THEN BOOLEAN ELSE {TRUE}

Mine(t) ==
    /\ t.nonce = Len(Chain)
    /\ \E ok \in Effects(t.action) : NewBlock(<<[action |-> t.action, ok |-> ok]>>)
    /\ UNCHANGED <<broadcast, outbox, worker, cancelling, faults>>

EmptyBlock ==
    /\ tip # <<>>
    /\ NewBlock(<<>>)
    /\ UNCHANGED <<broadcast, outbox, worker, cancelling, faults>>

\* The newest block is dropped; receipts read from it name an unknown block.
Reorganise ==
    /\ tip # <<>>
    /\ Fault
    /\ tip' = <<>>
    /\ worker' = [w \in Workers |->
                    IF worker[w].receipt = "seen" /\ ~IsMined(worker[w].tx, settled)
                    THEN [worker[w] EXCEPT !.receipt = "orphaned"] ELSE worker[w]]
    /\ UNCHANGED <<settled, broadcast, outbox, cancelling>>

\* The operator uses the key elsewhere (to replace a stuck transaction).
SignOutside ==
    /\ Len(Chain) < MaxNonce
    /\ Fault
    /\ broadcast' = broadcast \cup {[action |-> Outside, nonce |-> Len(Chain)]}
    /\ UNCHANGED <<settled, tip, outbox, worker, cancelling>>

-----------------------------------------------------------------------------
(* submitPlatformAction: claiming the signer *)

MayPay(a) == a \in Payments => ~cancelling

CanAcquire(a, eligible) ==
    /\ outbox.tx = NoTx
    /\ eligible
    /\ MayPay(a)
    /\ ~outbox.live

Acquire(w, a) ==
    /\ outbox' = [outbox EXCEPT !.action = a, !.token = w, !.live = TRUE]
    /\ Goto(w, [Resting EXCEPT !.pc = "prepare", !.action = a])

\* The first claim.  Signed bytes are drained first, whoever signed them.
Claim(w, a, eligible) ==
    /\ At(w, "idle")
    /\ \/ /\ outbox.tx # NoTx
          /\ Goto(w, [Resting EXCEPT !.pc = "resume", !.action = a,
                                     !.previous = outbox.tx])
          /\ UNCHANGED outbox
       \/ CanAcquire(a, eligible) /\ Acquire(w, a)
    /\ UNCHANGED <<chainVars, broadcast, cancelling, faults>>

\* The one retry after the previous transaction was confirmed: an action that
\* another caller confirmed meanwhile is not signed again.
DoneMeanwhile(a) == outbox.lastTx.action = a /\ outbox.lastOutcome = "success"

Reclaim(w, eligible) ==
    LET a == worker[w].action
        acquires == CanAcquire(a, eligible) /\ ~DoneMeanwhile(a)
    IN /\ At(w, "reclaim")
       /\ \/ acquires /\ Acquire(w, a)
          \/ ~acquires /\ Rest(w) /\ UNCHANGED outbox
       /\ UNCHANGED <<chainVars, broadcast, cancelling, faults>>

LeaseExpires ==
    /\ outbox.live
    /\ outbox' = [outbox EXCEPT !.live = FALSE]
    /\ UNCHANGED <<chainVars, broadcast, worker, cancelling, faults>>

-----------------------------------------------------------------------------
(* submitPlatformAction: signing *)

\* getTransactionCount(pending), at a node that has seen some of what is sent
PendingNonces ==
    {n \in Len(Chain)..MaxNonce :
        \A m \in Len(Chain)..(n - 1) : \E t \in broadcast : t.nonce = m}

\* The wallet of a cancellation asks again whether a payment was released.
Unsignable(a) ==
    \/ Refused(a)
    \/ a \in Closers /\ \E p \in Payments : Executed(p, Chain)

\* simulateContract succeeded at the newest block; the bytes are signed.
Prepare(w) ==
    /\ At(w, "prepare")
    /\ ~Unsignable(worker[w].action)
    /\ \E n \in PendingNonces :
          Goto(w, [worker[w] EXCEPT !.pc = "persist",
                                    !.tx = [action |-> worker[w].action, nonce |-> n]])
    /\ UNCHANGED <<chainVars, broadcast, outbox, cancelling, faults>>

\* Mutant: the lease token is not checked again.
MayPersistAnyToken(w, eligible) ==
    /\ outbox.tx = NoTx
    /\ worker[w].action \in Payments => eligible /\ ~cancelling

MayPersist(w, eligible) ==
    /\ outbox.token = w /\ outbox.tx = NoTx
    /\ worker[w].action \in Payments => eligible /\ ~cancelling

Persist(w, eligible) ==
    /\ At(w, "persist")
    /\ MayPersist(w, eligible)
    /\ outbox' = [Idle EXCEPT !.tx = worker[w].tx, !.action = worker[w].action]
    /\ Goto(w, [worker[w] EXCEPT !.pc = "send"])
    /\ UNCHANGED <<chainVars, broadcast, cancelling, faults>>

\* The catch block: the lease is given up, unless someone else holds it.
GiveUp(w) ==
    /\ Rest(w)
    /\ outbox' = IF outbox.token = w /\ outbox.tx = NoTx THEN Idle ELSE outbox
    /\ UNCHANGED <<chainVars, broadcast, cancelling>>

\* The simulation reverts, or an RPC or the wallet fails.  (Bound: beyond the last
\* nonce every preparation fails.)
FailToPrepare(w) ==
    /\ At(w, "prepare")
    /\ \/ Unsignable(worker[w].action) /\ UNCHANGED faults
       \/ PendingNonces = {} /\ UNCHANGED faults
       \/ Fault
    /\ GiveUp(w)

FailToPersist(w, eligible) ==
    /\ At(w, "persist")
    /\ ~MayPersist(w, eligible)
    /\ GiveUp(w)
    /\ UNCHANGED faults

\* sendRawTransaction; an error is swallowed, whether or not the bytes arrived.
Send(w) ==
    /\ At(w, "send")
    /\ \/ broadcast' = broadcast \cup {worker[w].tx} /\ UNCHANGED faults
       \/ Fault /\ UNCHANGED broadcast
    /\ Rest(w)
    /\ UNCHANGED <<chainVars, outbox, cancelling>>

-----------------------------------------------------------------------------
(* resumePlatformTransaction *)

\* The sweep resumes before it does anything else.
StartResume(w) ==
    /\ At(w, "idle")
    /\ outbox.tx # NoTx
    /\ Goto(w, [Resting EXCEPT !.pc = "resume"])
    /\ UNCHANGED <<chainVars, broadcast, outbox, cancelling, faults>>

ReadOutbox(w) ==
    /\ At(w, "resume")
    /\ IF outbox.tx = NoTx THEN Rest(w)
       ELSE Goto(w, [worker[w] EXCEPT !.pc = "receipt", !.tx = outbox.tx])
    /\ UNCHANGED <<chainVars, broadcast, outbox, cancelling, faults>>

\* getTransactionReceipt; an error counts as `not mined'.
ReadReceipt(w) ==
    /\ At(w, "receipt")
    /\ \/ /\ Goto(w, [worker[w] EXCEPT !.pc = "conclude",
                         !.receipt = IF IsMined(worker[w].tx, Chain) THEN "seen" ELSE "none"])
          /\ UNCHANGED faults
       \/ Fault /\ Goto(w, [worker[w] EXCEPT !.pc = "conclude", !.receipt = "none"])
    /\ UNCHANGED <<chainVars, broadcast, outbox, cancelling>>

\* The transaction that clears the outbox, unless it holds other bytes by now.
Conclude(t, outcome) ==
    outbox' = IF outbox.tx = t
              THEN [Idle EXCEPT !.lastTx = t, !.lastOutcome = outcome] ELSE outbox

\* Mutant: a receipt in the newest block is believed.
IsConfirmedAtTip(w) == worker[w].receipt = "seen" /\ IsMined(worker[w].tx, Chain)

\* One block on top of the receipt's, whose hash is still canonical
IsConfirmed(w) == worker[w].receipt = "seen" /\ IsMined(worker[w].tx, settled)

\* No receipt, and the nonce is used up one block below the head
IsReplaced(w) == worker[w].receipt = "none" /\ Len(settled) > worker[w].tx.nonce

\* The caller goes on only if its predecessor, now confirmed, was another action.
AfterSuccess(w) ==
    IF worker[w].tx = worker[w].previous /\ worker[w].action \notin {None, worker[w].tx.action}
    THEN Goto(w, [Resting EXCEPT !.pc = "reclaim", !.action = worker[w].action])
    ELSE Rest(w)

Confirm(w) ==
    /\ At(w, "conclude")
    /\ IsConfirmed(w)
    /\ \/ Succeeded(worker[w].tx, Chain) /\ Conclude(worker[w].tx, "success") /\ AfterSuccess(w)
       \/ ~Succeeded(worker[w].tx, Chain) /\ Conclude(worker[w].tx, "reverted") /\ Rest(w)
    /\ UNCHANGED <<chainVars, broadcast, cancelling, faults>>

Replace(w) ==
    /\ At(w, "conclude")
    /\ IsReplaced(w)
    /\ Conclude(worker[w].tx, "replaced")
    /\ Rest(w)
    /\ UNCHANGED <<chainVars, broadcast, cancelling, faults>>

\* Mutant: a pending transaction is only waited for.
RebroadcastNothing(w) ==
    /\ At(w, "conclude")
    /\ ~IsConfirmed(w) /\ ~IsReplaced(w)
    /\ Rest(w)
    /\ UNCHANGED <<chainVars, broadcast, outbox, cancelling, faults>>

\* Still pending: the same bytes are sent again, and an error is swallowed.  With
\* a receipt of a dropped block, whether they are depends on the head's number.
Rebroadcast(w) ==
    /\ At(w, "conclude")
    /\ ~IsConfirmed(w) /\ ~IsReplaced(w)
    /\ \/ broadcast' = broadcast \cup {worker[w].tx} /\ UNCHANGED faults
       \/ UNCHANGED broadcast
          /\ IF worker[w].receipt = "orphaned" THEN UNCHANGED faults ELSE Fault
    /\ Rest(w)
    /\ UNCHANGED <<chainVars, outbox, cancelling>>

-----------------------------------------------------------------------------

\* The invocation is killed; its local variables are lost.
Crash(w) ==
    /\ ~At(w, "idle")
    /\ Fault
    /\ Rest(w)
    /\ UNCHANGED <<chainVars, broadcast, outbox, cancelling>>

CanStartCancellation ==
    /\ ~cancelling
    /\ outbox.action \notin Payments \/ (outbox.tx = NoTx /\ outbox.token = None)

ChainNext == EmptyBlock \/ Reorganise \/ SignOutside \/ \E t \in broadcast : Mine(t)

ResumeStep(w) ==
    \/ ReadOutbox(w) \/ ReadReceipt(w) \/ Confirm(w) \/ Replace(w) \/ Rebroadcast(w)

SignStep(w, eligible) ==
    \/ Reclaim(w, eligible)
    \/ Prepare(w) \/ FailToPrepare(w)
    \/ Persist(w, eligible) \/ FailToPersist(w, eligible)
    \/ Send(w)

=============================================================================
