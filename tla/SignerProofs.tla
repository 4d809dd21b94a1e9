---------------------------- MODULE SignerProofs ----------------------------
(***************************************************************************)
(* What the signer's outbox keeps, whoever uses it and for what, for any set  *)
(* of invocations and actions and however long the chain: stated of           *)
(* OutboxNext, every step that a flow built on the outbox takes on it.        *)
(*                                                                         *)
(* Then the two flows over the shared outbox, whatever fails.  Their steps    *)
(* are steps of the outbox, so the outbox's invariant holds.  What the        *)
(* cancellation adds is that a voided escrow pays nothing and that a request  *)
(* is completed only on a block that stays; what the pause mirror adds is     *)
(* that a job is completed only when the registry shows what it should and    *)
(* nothing in flight will change it.                                        *)
(***************************************************************************)
EXTENDS CancellationProperties, PostingPause, SequenceTheorems, TLAPS

\* An invocation that ends without anything else: killed, or refused.
Abort(w) ==
    /\ Rest(w)
    /\ outbox' \in {outbox, Idle} /\ outbox'.tx = outbox.tx
    /\ faults' \in 0..MaxFaults
    /\ UNCHANGED <<chainVars, broadcast, cancelling>>

\* A flow's own step: it starts or ends a cancellation, takes a lease away that
\* nobody signed under, or fails.
Decide ==
    /\ cancelling' \in BOOLEAN
    /\ outbox' \in {outbox, Idle} /\ outbox'.tx = outbox.tx
    /\ faults' \in 0..MaxFaults
    /\ UNCHANGED <<chainVars, broadcast, worker>>

OutboxNext ==
    \/ ChainNext \/ LeaseExpires \/ Decide
    \/ \E w \in Workers :
          \/ \E a \in Actions, eligible \in BOOLEAN : Claim(w, a, eligible)
          \/ \E eligible \in BOOLEAN : SignStep(w, eligible)
          \/ StartResume(w) \/ ResumeStep(w) \/ Abort(w)

-----------------------------------------------------------------------------

\* The bytes an invocation works on are the outbox's, unless their nonce is used up.
HoldsOutbox ==
    \A w \in Workers : worker[w].pc \in {"send", "receipt", "conclude"} =>
        /\ worker[w].tx # NoTx
        /\ worker[w].tx = outbox.tx \/ worker[w].tx.nonce < Len(settled)

\* An invocation signs what it was asked for.
SignsItsAction ==
    \A w \in Workers :
        /\ worker[w].pc \in {"reclaim", "prepare", "persist", "send"} =>
              worker[w].action \in Actions
        /\ worker[w].pc \in {"persist", "send"} => worker[w].tx.action = worker[w].action

\* A lease is held while nothing is outstanding.
LeaseMeansEmpty == outbox.token # None => outbox.tx = NoTx

OutboxActionMatches == outbox.tx # NoTx => outbox.action = outbox.tx.action

Outstanding ==
    \A t \in broadcast : t.action # Outside /\ t.nonce >= Len(settled) => outbox.tx = t

\* What was prepared under the lease that is still held was not executed since.
PreparedIsFresh ==
    \A w \in Workers :
        /\ worker[w].pc = "persist" /\ outbox.token = w
        /\ worker[w].action \in OneTime
        => ~Executed(worker[w].action, Chain)

OutboxInv ==
    /\ OutboxTypeOK
    /\ Len(Chain) <= MaxNonce + 1
    /\ HoldsOutbox /\ SignsItsAction /\ LeaseMeansEmpty /\ OutboxActionMatches
    /\ Outstanding
    /\ PreparedIsFresh

-----------------------------------------------------------------------------
(* The chain *)

\* `longer' repeats what `shorter' says.
Extends(longer, shorter) ==
    /\ Len(shorter) <= Len(longer)
    /\ \A i \in 1..Len(shorter) : longer[i] = shorter[i]

LEMMA ChainShape ==
    ASSUME OutboxTypeOK
    PROVE  /\ Chain \in Seq(Mined) /\ Len(Chain) \in Nat /\ Len(settled) \in Nat
           /\ Len(Chain) = Len(settled) + Len(tip) /\ Len(tip) \in {0, 1}
           /\ Extends(Chain, settled)
           /\ settled \in Seq(Mined) /\ tip \in Seq(Mined)
           /\ MaxNonce \in Nat /\ MaxFaults \in Nat
  <1>1. settled \in Seq(Mined) /\ tip \in Seq(Mined) /\ Len(tip) <= 1
    BY DEF OutboxTypeOK
  <1>2. Len(settled) \in Nat /\ Len(tip) \in Nat
    BY <1>1, LenProperties
  <1>3. /\ Chain \in Seq(Mined) /\ Len(Chain) = Len(settled) + Len(tip)
        /\ \A i \in 1..(Len(settled) + Len(tip)) :
              Chain[i] = IF i <= Len(settled) THEN settled[i] ELSE tip[i - Len(settled)]
    BY <1>1, ConcatProperties DEF Chain
  <1>4. Len(tip) \in {0, 1} /\ Len(Chain) \in Nat
    <2>1. \A m, n \in Nat : m <= 1 => m \in {0, 1} /\ n + m \in Nat
      OBVIOUS
    <2>2. Len(tip) <= 1 /\ Len(Chain) = Len(settled) + Len(tip)
      BY <1>1, <1>3
    <2> QED BY ONLY <2>1, <2>2, <1>2
  <1>5. Extends(Chain, settled)
    BY <1>2, <1>3, <1>4 DEF Extends
  <1>6. MaxNonce \in Nat /\ MaxFaults \in Nat
    BY OutboxAssumption
  <1> QED BY <1>1, <1>2, <1>3, <1>4, <1>5, <1>6

LEMMA ExtendsKeepsExecuted ==
    ASSUME NEW longer, NEW shorter, Extends(longer, shorter),
           Len(longer) \in Nat, Len(shorter) \in Nat, NEW a, Executed(a, shorter)
    PROVE  Executed(a, longer)
  BY DEF Extends, Executed

\* A block confirms the one before it and may carry one transaction.
LEMMA MineShape ==
    ASSUME OutboxTypeOK, NEW t \in Tx, Mine(t)
    PROVE  \E ok \in BOOLEAN :
              /\ settled' = Chain /\ tip' \in Seq(Mined) /\ Len(tip') = 1
              /\ Len(Chain') = Len(Chain) + 1 /\ Extends(Chain', Chain)
              /\ Chain'[Len(Chain) + 1] = [action |-> t.action, ok |-> ok]
              /\ Refused(t.action) => ~ok
              /\ t.nonce = Len(Chain)
  <1>1. PICK ok \in Effects(t.action) :
           settled' = Chain /\ tip' = <<[action |-> t.action, ok |-> ok]>>
    BY DEF Mine, NewBlock
  <1>2. ok \in BOOLEAN /\ (Refused(t.action) => ~ok)
    BY <1>1 DEF Effects
  <1>3. [action |-> t.action, ok |-> ok] \in Mined
    BY <1>2 DEF Tx, Mined
  <1>4. tip' \in Seq(Mined) /\ Len(tip') = 1 /\ tip'[1] = [action |-> t.action, ok |-> ok]
    BY <1>1, <1>3
  <1>5. Chain \in Seq(Mined) /\ Len(Chain) \in Nat
    BY ChainShape
  <1>6. Chain' = Chain \o tip'
    BY <1>1 DEF Chain
  <1>7. /\ Len(Chain') = Len(Chain) + 1
        /\ \A i \in 1..(Len(Chain) + 1) :
              Chain'[i] = IF i <= Len(Chain) THEN Chain[i] ELSE tip'[i - Len(Chain)]
    <2>1. /\ Len(Chain \o tip') = Len(Chain) + Len(tip')
          /\ \A i \in 1..(Len(Chain) + Len(tip')) :
                (Chain \o tip')[i] = IF i <= Len(Chain) THEN Chain[i] ELSE tip'[i - Len(Chain)]
      BY <1>4, <1>5, ConcatProperties
    <2> QED BY <2>1, <1>4, <1>6
  <1>8. Extends(Chain', Chain)
    BY <1>5, <1>7 DEF Extends
  <1>9. Chain'[Len(Chain) + 1] = [action |-> t.action, ok |-> ok]
    BY <1>4, <1>5, <1>7
  <1> QED BY <1>1, <1>2, <1>4, <1>7, <1>8, <1>9 DEF Mine

LEMMA EmptyBlockShape ==
    ASSUME OutboxTypeOK, EmptyBlock
    PROVE  settled' = Chain /\ tip' = <<>> /\ Chain' = Chain
  <1>1. settled' = Chain /\ tip' = <<>>
    BY DEF EmptyBlock, NewBlock
  <1>2. Chain' = Chain \o <<>>
    BY <1>1 DEF Chain
  <1> QED BY <1>1, <1>2, ChainShape, ConcatEmptySeq

LEMMA ReorganiseShape ==
    ASSUME OutboxTypeOK, Reorganise
    PROVE  settled' = settled /\ tip' = <<>> /\ Chain' = settled
  <1>1. settled' = settled /\ tip' = <<>>
    BY DEF Reorganise
  <1>2. Chain' = settled \o <<>>
    BY <1>1 DEF Chain
  <1> QED BY <1>1, <1>2, ChainShape, ConcatEmptySeq

-----------------------------------------------------------------------------
(* One invocation's step *)

\* What an invocation's step owes for its variables, l, and the document it leaves, d.
LocalOK(w, l, d) ==
    /\ l \in Worker /\ d \in Outbox
    /\ l.pc \in {"send", "receipt", "conclude"} =>
          /\ l.tx # NoTx
          /\ l.tx = d.tx \/ l.tx.nonce < Len(settled)
    /\ l.pc \in {"reclaim", "prepare", "persist", "send"} => l.action \in Actions
    /\ l.pc \in {"persist", "send"} => l.tx.action = l.action
    /\ l.pc = "persist" /\ d.token = w /\ l.action \in OneTime => ~Executed(l.action, Chain)

\* How the document may change: the lease is taken by w or given up, and what was
\* signed is forgotten only when its nonce is used up.
DocumentOK(w, d) ==
    /\ d.token \in {outbox.token, w, None}
    /\ d.token # None => d.tx = NoTx
    /\ d.tx # NoTx => d.action = d.tx.action
    /\ \/ d.tx = outbox.tx
       \/ outbox.tx = NoTx
       \/ d.tx = NoTx /\ outbox.tx.nonce < Len(settled)

\* What it sends is what it holds.
SendsHeld(w) ==
    \/ broadcast' = broadcast
    \/ /\ broadcast' = broadcast \cup {worker[w].tx}
       /\ worker[w].pc \in {"send", "conclude"}
       /\ outbox'.tx = outbox.tx

LEMMA TxTypes ==
    ASSUME OutboxTypeOK
    PROVE  /\ outbox.tx \in Tx \cup {NoTx} /\ outbox.token \in Workers \cup {None}
           /\ outbox.action \in Actions \cup {None} /\ outbox \in Outbox
           /\ \A w \in Workers : /\ worker[w] \in Worker
                                 /\ worker[w].tx \in Tx \cup {NoTx}
                                 /\ worker[w].action \in Actions \cup {None}
                                 /\ worker[w].previous \in Tx \cup {NoTx}
           /\ broadcast \subseteq Tx /\ NoTx \notin Tx
           /\ worker \in [Workers -> Worker]
  <1>1. outbox \in Outbox /\ worker \in [Workers -> Worker] /\ broadcast \subseteq Tx
    BY DEF OutboxTypeOK
  <1>2. NoTx \notin Tx
    BY OutboxAssumption DEF NoTx, Tx
  <1>3. /\ outbox.tx \in Tx \cup {NoTx} /\ outbox.token \in Workers \cup {None}
        /\ outbox.action \in Actions \cup {None}
    BY <1>1, Zenon DEF Outbox
  <1>4. \A w \in Workers : worker[w] \in Worker
    BY <1>1
  <1>5. ASSUME NEW l \in Worker
        PROVE  /\ l.tx \in Tx \cup {NoTx} /\ l.action \in Actions \cup {None}
               /\ l.previous \in Tx \cup {NoTx}
    BY Zenon DEF Worker
  <1> QED BY <1>1, <1>2, <1>3, <1>4, <1>5

LEMMA LocalStep ==
    ASSUME OutboxInv, NEW w \in Workers, NEW l, Goto(w, l),
           LocalOK(w, l, outbox'), DocumentOK(w, outbox'), SendsHeld(w),
           UNCHANGED <<chainVars, cancelling>>, faults' \in 0..MaxFaults
    PROVE  OutboxInv'
  <1>1. worker' = [worker EXCEPT ![w] = l] /\ settled' = settled /\ tip' = tip
    BY DEF Goto, chainVars
  <1>2. Chain' = Chain
    BY <1>1 DEF Chain
  <1>3. /\ OutboxTypeOK /\ HoldsOutbox /\ SignsItsAction /\ Outstanding /\ PreparedIsFresh
        /\ Len(Chain) <= MaxNonce + 1
    BY DEF OutboxInv
  <1>4. l \in Worker /\ outbox' \in Outbox
    BY DEF LocalOK
  <1>5. \A u \in Workers : worker'[u] = IF u = w THEN l ELSE worker[u]
    BY <1>1, <1>3, TxTypes
  <1>6. broadcast' \subseteq Tx
    BY <1>3, TxTypes DEF SendsHeld, HoldsOutbox
  <1>7. OutboxTypeOK'
    <2>1. worker' \in [Workers -> Worker]
      BY <1>1, <1>3, <1>4, TxTypes
    <2> QED BY <2>1, <1>1, <1>3, <1>4, <1>6 DEF OutboxTypeOK
  <1>8. HoldsOutbox'
    <2> SUFFICES ASSUME NEW u \in Workers, worker'[u].pc \in {"send", "receipt", "conclude"}
                 PROVE  /\ worker'[u].tx # NoTx
                        /\ worker'[u].tx = outbox'.tx \/ worker'[u].tx.nonce < Len(settled')
      BY DEF HoldsOutbox
    <2>1. CASE u = w
      BY <2>1, <1>1, <1>5 DEF LocalOK
    <2>2. CASE u # w
      BY <2>2, <1>1, <1>3, <1>5 DEF HoldsOutbox, DocumentOK
    <2> QED BY <2>1, <2>2
  <1>9. SignsItsAction'
    BY <1>3, <1>5 DEF SignsItsAction, LocalOK
  <1>10. LeaseMeansEmpty' /\ OutboxActionMatches'
    BY DEF DocumentOK, LeaseMeansEmpty, OutboxActionMatches
  <1>11. Outstanding'
    <2> SUFFICES ASSUME NEW t \in broadcast', t.action # Outside, t.nonce >= Len(settled)
                 PROVE  outbox'.tx = t
      BY <1>1 DEF Outstanding
    <2>1. t \in Tx /\ t.nonce \in Nat /\ Len(settled) \in Nat /\ NoTx \notin Tx
      BY <1>3, <1>6, TxTypes, ChainShape DEF Tx
    <2>2. outbox.tx = t
      BY <2>1, <1>3 DEF SendsHeld, Outstanding, HoldsOutbox
    <2> QED BY <2>1, <2>2 DEF DocumentOK
  <1>12. PreparedIsFresh'
    <2> SUFFICES ASSUME NEW u \in Workers, worker'[u].pc = "persist", outbox'.token = u,
                        worker'[u].action \in OneTime
                 PROVE  ~Executed(worker'[u].action, Chain)
      BY <1>2 DEF PreparedIsFresh
    <2>1. CASE u = w
      BY <2>1, <1>5 DEF LocalOK
    <2>2. CASE u # w
      BY <2>2, <1>3, <1>5, OutboxAssumption DEF PreparedIsFresh, DocumentOK
    <2> QED BY <2>1, <2>2
  <1> QED BY <1>2, <1>3, <1>7, <1>8, <1>9, <1>10, <1>11, <1>12 DEF OutboxInv

LEMMA RestingOK ==
    ASSUME NEW w, NEW d \in Outbox
    PROVE  LocalOK(w, Resting, d)
  <1>1. Resting \in Worker
    BY DEF Resting, Worker, Steps
  <1> QED BY <1>1 DEF LocalOK, Resting

LEMMA IdleTyped ==
    /\ Idle \in Outbox /\ Idle.tx = NoTx /\ Idle.token = None /\ Idle.action = None
  BY DEF Idle, Outbox, Outcomes

LEMMA SameDocument ==
    ASSUME OutboxInv, NEW w
    PROVE  DocumentOK(w, outbox)
  BY DEF OutboxInv, LeaseMeansEmpty, OutboxActionMatches, DocumentOK

\* The document is left alone or, with nothing signed in it, emptied.
Keeps(d) == d \in {outbox, Idle} /\ d.tx = outbox.tx

LEMMA KeptDocument ==
    ASSUME OutboxInv, NEW w, NEW d, Keeps(d)
    PROVE  DocumentOK(w, d) /\ d \in Outbox
  <1>1. CASE d = outbox
    BY <1>1, SameDocument, TxTypes DEF OutboxInv
  <1>2. CASE d = Idle
    BY <1>2, IdleTyped DEF Keeps, DocumentOK
  <1> QED BY <1>1, <1>2 DEF Keeps

\* An invocation that ends.
LEMMA EndStep ==
    ASSUME OutboxInv, NEW w \in Workers, Rest(w), Keeps(outbox'), SendsHeld(w),
           UNCHANGED <<chainVars, cancelling>>, faults' \in 0..MaxFaults
    PROVE  OutboxInv'
  <1>1. DocumentOK(w, outbox') /\ outbox' \in Outbox
    BY KeptDocument
  <1>2. LocalOK(w, Resting, outbox')
    BY <1>1, RestingOK
  <1> QED BY <1>1, <1>2, LocalStep DEF Rest

LEMMA Faults ==
    ASSUME OutboxInv, Fault \/ UNCHANGED faults
    PROVE  faults' \in 0..MaxFaults
  <1>1. faults \in 0..MaxFaults /\ MaxFaults \in Nat
    BY OutboxAssumption DEF OutboxInv, OutboxTypeOK
  <1> QED BY <1>1 DEF Fault

LEMMA AcquireStep ==
    ASSUME OutboxInv, NEW w \in Workers, NEW a \in Actions, outbox.tx = NoTx, Acquire(w, a),
           UNCHANGED <<chainVars, broadcast, cancelling, faults>>
    PROVE  OutboxInv'
  <1> DEFINE l == [Resting EXCEPT !.pc = "prepare", !.action = a]
             d == [outbox EXCEPT !.action = a, !.token = w, !.live = TRUE]
  <1>1. outbox' = d /\ Goto(w, l)
    BY DEF Acquire
  <1>2. OutboxTypeOK
    BY DEF OutboxInv
  <1>3. d \in Outbox /\ d.tx = NoTx /\ d.token = w
    BY <1>2, TxTypes, Zenon DEF Outbox
  <1>4. l \in Worker /\ l.pc = "prepare" /\ l.action = a
    BY DEF Resting, Worker, Steps
  <1> HIDE DEF l, d
  <1>5. LocalOK(w, l, d)
    BY <1>3, <1>4 DEF LocalOK
  <1>6. DocumentOK(w, d)
    BY <1>3 DEF DocumentOK
  <1>7. faults' \in 0..MaxFaults
    BY Faults
  <1> QED BY <1>1, <1>5, <1>6, <1>7, LocalStep DEF SendsHeld

\* An invocation's variables change and the document does not.
LEMMA LocalOnly ==
    ASSUME OutboxInv, NEW w \in Workers, NEW l, Goto(w, l), LocalOK(w, l, outbox),
           Fault \/ UNCHANGED faults,
           UNCHANGED <<chainVars, broadcast, outbox, cancelling>>
    PROVE  OutboxInv'
  <1>1. DocumentOK(w, outbox) /\ outbox' = outbox
    BY SameDocument
  <1>2. faults' \in 0..MaxFaults
    BY Faults
  <1> QED BY <1>1, <1>2, LocalStep DEF SendsHeld

LEMMA ClaimStep ==
    ASSUME OutboxInv, NEW w \in Workers, NEW a \in Actions, NEW eligible, Claim(w, a, eligible)
    PROVE  OutboxInv'
  <1> DEFINE l == [Resting EXCEPT !.pc = "resume", !.action = a, !.previous = outbox.tx]
  <1>1. CASE outbox.tx # NoTx /\ Goto(w, l) /\ outbox' = outbox
    <2>1. outbox.tx \in Tx \cup {NoTx} /\ outbox \in Outbox
      BY TxTypes DEF OutboxInv
    <2>2. l \in Worker /\ l.pc = "resume"
      BY <2>1, Zenon DEF Resting, Worker, Steps
    <2> HIDE DEF l
    <2>3. LocalOK(w, l, outbox)
      BY <2>1, <2>2 DEF LocalOK
    <2> QED BY <1>1, <2>3, LocalOnly DEF Claim
  <1>2. CASE CanAcquire(a, eligible) /\ Acquire(w, a)
    BY <1>2, AcquireStep DEF Claim, CanAcquire
  <1> QED BY <1>1, <1>2 DEF Claim

LEMMA ReclaimStep ==
    ASSUME OutboxInv, NEW w \in Workers, NEW eligible, Reclaim(w, eligible)
    PROVE  OutboxInv'
  <1>1. worker[w].action \in Actions
    BY DEF OutboxInv, SignsItsAction, Reclaim, At
  <1>2. CASE CanAcquire(worker[w].action, eligible) /\ Acquire(w, worker[w].action)
    BY <1>1, <1>2, AcquireStep DEF Reclaim, CanAcquire
  <1>3. CASE Rest(w) /\ UNCHANGED outbox
    <2>1. faults' \in 0..MaxFaults
      BY Faults DEF Reclaim
    <2> QED BY <1>3, <2>1, EndStep DEF Reclaim, Keeps, SendsHeld
  <1> QED BY <1>2, <1>3 DEF Reclaim

LEMMA PrepareStep ==
    ASSUME OutboxInv, NEW w \in Workers, Prepare(w)
    PROVE  OutboxInv'
  <1> DEFINE a == worker[w].action
  <1>1. PICK n \in PendingNonces :
           Goto(w, [worker[w] EXCEPT !.pc = "persist", !.tx = [action |-> a, nonce |-> n]])
    BY DEF Prepare
  <1> DEFINE t == [action |-> a, nonce |-> n]
             l == [worker[w] EXCEPT !.pc = "persist", !.tx = t]
  <1>2. a \in Actions /\ ~Unsignable(a)
    BY DEF OutboxInv, SignsItsAction, Prepare, At
  <1>3. t \in Tx
    <2>1. Len(Chain) \in Nat /\ MaxNonce \in Nat
      BY ChainShape DEF OutboxInv
    <2>2. n \in 0..MaxNonce
      BY <2>1 DEF PendingNonces
    <2> QED BY <1>2, <2>2 DEF Tx
  <1>4. worker[w] \in Worker /\ outbox \in Outbox
    BY TxTypes DEF OutboxInv
  <1> HIDE DEF a
  <1>5. l \in Worker /\ l.pc = "persist" /\ l.action = a /\ l.tx = t
    <2> HIDE DEF t
    <2>1. l \in Worker /\ l.pc = "persist" /\ l.action = worker[w].action /\ l.tx = t
      BY <1>3, <1>4, Zenon DEF Worker, Steps
    <2> QED BY <2>1 DEF a
  <1>6. t.action = a
    OBVIOUS
  <1> HIDE DEF l, t
  <1>7. LocalOK(w, l, outbox)
    BY <1>2, <1>4, <1>5, <1>6 DEF LocalOK, Unsignable, Refused
  <1> QED BY <1>1, <1>7, LocalOnly DEF Prepare, l, t, a

LEMMA PersistStep ==
    ASSUME OutboxInv, NEW w \in Workers, NEW eligible, Persist(w, eligible)
    PROVE  OutboxInv'
  <1> DEFINE t == worker[w].tx
             a == worker[w].action
             l == [worker[w] EXCEPT !.pc = "send"]
             d == [Idle EXCEPT !.tx = t, !.action = a]
  <1>1. outbox' = d /\ Goto(w, l) /\ outbox.tx = NoTx
    BY DEF Persist, MayPersist
  <1>2. a \in Actions /\ t.action = a
    BY DEF OutboxInv, SignsItsAction, Persist, At
  <1>3. t \in Tx
    <2>1. t \in Tx \cup {NoTx}
      BY TxTypes DEF OutboxInv
    <2>2. NoTx.action \notin Actions
      BY OutboxAssumption DEF NoTx
    <2> QED BY <1>2, <2>1, <2>2
  <1>4. d \in Outbox /\ d.tx = t /\ d.token = None /\ d.action = a
    BY <1>2, <1>3 DEF Idle, Outbox, Outcomes
  <1>5. l \in Worker /\ l.pc = "send" /\ l.action = a /\ l.tx = t
    <2>1. worker[w] \in Worker
      BY TxTypes DEF OutboxInv
    <2> QED BY <2>1, Zenon DEF Worker, Steps
  <1>6. NoTx \notin Tx
    BY TxTypes DEF OutboxInv
  <1> HIDE DEF t, a, l, d
  <1>7. LocalOK(w, l, d)
    BY <1>2, <1>3, <1>4, <1>5, <1>6 DEF LocalOK
  <1>8. DocumentOK(w, d)
    BY <1>1, <1>2, <1>4 DEF DocumentOK
  <1>9. faults' \in 0..MaxFaults
    BY Faults DEF Persist
  <1> QED BY <1>1, <1>7, <1>8, <1>9, LocalStep DEF Persist, SendsHeld

LEMMA GivesUp ==
    ASSUME NEW w, outbox' = IF outbox.token = w /\ outbox.tx = NoTx THEN Idle ELSE outbox
    PROVE  Keeps(outbox')
  BY IdleTyped DEF Keeps

LEMMA FailureStep ==
    ASSUME OutboxInv, NEW w \in Workers, NEW eligible,
           FailToPrepare(w) \/ FailToPersist(w, eligible)
    PROVE  OutboxInv'
  <1>1. GiveUp(w) /\ (Fault \/ UNCHANGED faults)
    BY DEF FailToPrepare, FailToPersist
  <1>2. Rest(w) /\ Keeps(outbox') /\ UNCHANGED <<chainVars, broadcast, cancelling>>
    BY <1>1, GivesUp DEF GiveUp
  <1>3. faults' \in 0..MaxFaults
    BY <1>1, Faults
  <1> QED BY <1>2, <1>3, EndStep DEF SendsHeld

LEMMA SendStep ==
    ASSUME OutboxInv, NEW w \in Workers, Send(w) \/ Rebroadcast(w)
    PROVE  OutboxInv'
  <1>1. Fault \/ UNCHANGED faults
    BY DEF Send, Rebroadcast
  <1>2. faults' \in 0..MaxFaults
    BY <1>1, Faults
  <1>3. Rest(w) /\ outbox' = outbox /\ UNCHANGED <<chainVars, cancelling>>
    BY DEF Send, Rebroadcast
  <1>4. SendsHeld(w)
    BY <1>3 DEF Send, Rebroadcast, SendsHeld, At
  <1> QED BY <1>2, <1>3, <1>4, EndStep DEF Keeps

LEMMA ResumptionStep ==
    ASSUME OutboxInv, NEW w \in Workers, StartResume(w) \/ ReadOutbox(w)
    PROVE  OutboxInv'
  <1>1. outbox \in Outbox /\ worker[w] \in Worker /\ outbox.tx \in Tx \cup {NoTx}
    BY TxTypes DEF OutboxInv
  <1>2. CASE StartResume(w)
    <2> DEFINE l == [Resting EXCEPT !.pc = "resume"]
    <2>1. l \in Worker /\ l.pc = "resume"
      BY DEF Resting, Worker, Steps
    <2> HIDE DEF l
    <2>2. LocalOK(w, l, outbox)
      BY <1>1, <2>1 DEF LocalOK
    <2> QED BY <1>2, <2>2, LocalOnly DEF StartResume, l
  <1>3. CASE ReadOutbox(w) /\ outbox.tx = NoTx
    <2>1. Rest(w) /\ UNCHANGED <<chainVars, broadcast, outbox, cancelling, faults>>
      BY <1>3 DEF ReadOutbox
    <2>2. faults' \in 0..MaxFaults
      BY <2>1, Faults
    <2> QED BY <2>1, <2>2, EndStep DEF Keeps, SendsHeld
  <1>4. CASE ReadOutbox(w) /\ outbox.tx # NoTx
    <2> DEFINE l == [worker[w] EXCEPT !.pc = "receipt", !.tx = outbox.tx]
    <2>1. l \in Worker /\ l.pc = "receipt" /\ l.tx = outbox.tx
      BY <1>1, Zenon DEF Worker, Steps
    <2> HIDE DEF l
    <2>2. LocalOK(w, l, outbox)
      BY <1>1, <1>4, <2>1 DEF LocalOK
    <2> QED BY <1>4, <2>2, LocalOnly DEF ReadOutbox, l
  <1> QED BY <1>2, <1>3, <1>4

LEMMA ReceiptStep ==
    ASSUME OutboxInv, NEW w \in Workers, ReadReceipt(w)
    PROVE  OutboxInv'
  <1>1. PICK r \in {"seen", "none"} :
           Goto(w, [worker[w] EXCEPT !.pc = "conclude", !.receipt = r])
    BY DEF ReadReceipt
  <1> DEFINE l == [worker[w] EXCEPT !.pc = "conclude", !.receipt = r]
  <1>2. outbox \in Outbox /\ worker[w] \in Worker
    BY TxTypes DEF OutboxInv
  <1>3. l \in Worker /\ l.pc = "conclude" /\ l.tx = worker[w].tx
    BY <1>2, Zenon DEF Worker, Steps
  <1>4. Fault \/ UNCHANGED faults
    BY DEF ReadReceipt
  <1> HIDE DEF l
  <1>5. LocalOK(w, l, outbox)
    BY <1>2, <1>3 DEF LocalOK, OutboxInv, HoldsOutbox, ReadReceipt, At
  <1> QED BY <1>1, <1>4, <1>5, LocalOnly DEF ReadReceipt, l

\* What is concluded has its nonce used up in the confirmed chain.
LEMMA ConcludeStep ==
    ASSUME OutboxInv, NEW w \in Workers, Confirm(w) \/ Replace(w)
    PROVE  OutboxInv'
  <1> DEFINE t == worker[w].tx
             a == worker[w].action
  <1>1. PICK outcome \in Outcomes : Conclude(t, outcome)
    BY DEF Confirm, Replace, Outcomes
  <1>2. t.nonce < Len(settled)
    <2>1. t \in Tx
      BY TxTypes DEF OutboxInv, HoldsOutbox, Confirm, Replace, At
    <2>2. t.nonce \in Nat /\ Len(settled) \in Nat
      BY <2>1, ChainShape DEF Tx, OutboxInv
    <2> QED BY <2>2 DEF Confirm, Replace, IsConfirmed, IsReplaced, IsMined
  <1>3. t \in Tx \cup {NoTx} /\ a \in Actions \cup {None} /\ outbox \in Outbox
    BY TxTypes DEF OutboxInv
  <1> HIDE DEF t
  <1>4. DocumentOK(w, outbox') /\ outbox' \in Outbox
    <2>1. CASE outbox.tx = t
      <3> DEFINE d == [Idle EXCEPT !.lastTx = t, !.lastOutcome = outcome]
      <3>1. d \in Outbox /\ d.tx = NoTx /\ d.token = None
        BY <1>3, Zenon DEF Idle, Outbox, Outcomes
      <3>2. outbox' = d
        BY <1>1, <2>1 DEF Conclude
      <3> HIDE DEF d
      <3> QED BY <1>2, <2>1, <3>1, <3>2 DEF DocumentOK
    <2>2. CASE outbox.tx # t
      <3>1. outbox' = outbox
        BY <1>1, <2>2 DEF Conclude
      <3> QED BY <3>1, <1>3, SameDocument
    <2> QED BY <2>1, <2>2
  <1>5. UNCHANGED <<chainVars, broadcast, cancelling, faults>>
    BY DEF Confirm, Replace
  <1>6. faults' \in 0..MaxFaults /\ SendsHeld(w)
    BY <1>5, Faults DEF SendsHeld
  <1>7. CASE Rest(w)
    BY <1>4, <1>5, <1>6, <1>7, RestingOK, LocalStep DEF Rest
  <1>8. CASE Goto(w, [Resting EXCEPT !.pc = "reclaim", !.action = a]) /\ a # None
    <2> DEFINE l == [Resting EXCEPT !.pc = "reclaim", !.action = a]
    <2>1. a \in Actions
      BY <1>3, <1>8
    <2> HIDE DEF a
    <2>2. l \in Worker /\ l.pc = "reclaim" /\ l.action = a
      BY <2>1 DEF Resting, Worker, Steps
    <2> HIDE DEF l
    <2>3. LocalOK(w, l, outbox')
      BY <1>4, <2>1, <2>2 DEF LocalOK
    <2> QED BY <1>4, <1>5, <1>6, <1>8, <2>3, LocalStep DEF l
  <1> QED BY <1>7, <1>8 DEF Confirm, Replace, AfterSuccess

-----------------------------------------------------------------------------
(* The chain's steps *)

\* What a step of the chain owes: while nothing is outstanding, it executes nothing
\* that the platform signed.
LEMMA ChainMoves ==
    ASSUME OutboxInv, OutboxTypeOK', Len(Chain') <= MaxNonce + 1,
           Len(settled) <= Len(settled'), outbox' = outbox,
           \A w \in Workers : /\ worker'[w].pc = worker[w].pc /\ worker'[w].tx = worker[w].tx
                             /\ worker'[w].action = worker[w].action,
           \A t \in broadcast' : t \in broadcast \/ t.action = Outside,
           \A a \in Actions : outbox.tx = NoTx /\ Executed(a, Chain') => Executed(a, Chain)
    PROVE  OutboxInv'
  <1>1. /\ OutboxTypeOK /\ HoldsOutbox /\ SignsItsAction /\ Outstanding /\ PreparedIsFresh
        /\ LeaseMeansEmpty /\ OutboxActionMatches
    BY DEF OutboxInv
  <1>2. Len(settled) \in Nat /\ Len(settled') \in Nat
    <2>1. settled \in Seq(Mined) /\ settled' \in Seq(Mined)
      BY <1>1 DEF OutboxTypeOK
    <2> QED BY <2>1, LenProperties
  <1>3. HoldsOutbox'
    <2> SUFFICES ASSUME NEW w \in Workers, worker[w].pc \in {"send", "receipt", "conclude"}
                 PROVE  /\ worker[w].tx # NoTx
                        /\ worker[w].tx = outbox.tx \/ worker[w].tx.nonce < Len(settled')
      BY DEF HoldsOutbox
    <2>1. worker[w].tx # NoTx /\ worker[w].tx \in Tx \cup {NoTx}
      BY <1>1, TxTypes DEF HoldsOutbox
    <2>2. worker[w].tx.nonce \in Nat
      BY <2>1, OutboxAssumption DEF Tx
    <2> QED BY <1>1, <1>2, <2>1, <2>2 DEF HoldsOutbox
  <1>4. SignsItsAction'
    BY <1>1 DEF SignsItsAction
  <1>5. LeaseMeansEmpty' /\ OutboxActionMatches'
    BY <1>1 DEF LeaseMeansEmpty, OutboxActionMatches
  <1>6. Outstanding'
    <2> SUFFICES ASSUME NEW t \in broadcast, t.action # Outside, t.nonce >= Len(settled')
                 PROVE  outbox.tx = t
      BY DEF Outstanding
    <2>1. t.nonce \in Nat
      BY <1>1, TxTypes, OutboxAssumption DEF Tx
    <2> QED BY <1>1, <1>2, <2>1 DEF Outstanding
  <1>7. PreparedIsFresh'
    <2> SUFFICES ASSUME NEW w \in Workers, worker[w].pc = "persist", outbox.token = w,
                        worker[w].action \in OneTime, Executed(worker[w].action, Chain')
                 PROVE  FALSE
      BY DEF PreparedIsFresh
    <2>1. worker[w].action \in Actions /\ outbox.tx = NoTx
      BY <1>1, OutboxAssumption DEF SignsItsAction, LeaseMeansEmpty
    <2> QED BY <1>1, <2>1 DEF PreparedIsFresh
  <1> QED BY <1>3, <1>4, <1>5, <1>6, <1>7 DEF OutboxInv

LEMMA MineStep ==
    ASSUME OutboxInv, NEW t \in broadcast, Mine(t)
    PROVE  OutboxInv'
  <1>1. OutboxTypeOK /\ Outstanding /\ Len(Chain) <= MaxNonce + 1
    BY DEF OutboxInv
  <1>2. t \in Tx
    BY <1>1, TxTypes
  <1>3. PICK ok \in BOOLEAN :
           /\ settled' = Chain /\ tip' \in Seq(Mined) /\ Len(tip') = 1
           /\ Len(Chain') = Len(Chain) + 1 /\ Extends(Chain', Chain)
           /\ Chain'[Len(Chain) + 1] = [action |-> t.action, ok |-> ok]
           /\ t.nonce = Len(Chain)
    BY <1>1, <1>2, MineShape
  <1>4. UNCHANGED <<broadcast, outbox, worker, cancelling, faults>>
    BY DEF Mine
  <1>5. /\ Chain \in Seq(Mined) /\ Len(Chain) \in Nat /\ Len(settled) \in Nat
        /\ Len(settled) <= Len(Chain) /\ MaxNonce \in Nat
    BY <1>1, ChainShape DEF Extends
  <1>6. OutboxTypeOK'
    BY <1>1, <1>3, <1>4, <1>5 DEF OutboxTypeOK
  <1>7. t.nonce \in 0..MaxNonce
    BY <1>2 DEF Tx
  <1>8. Len(Chain') <= MaxNonce + 1 /\ Len(settled) <= Len(settled')
    BY <1>3, <1>5, <1>7
  <1>9. ASSUME NEW a \in Actions, outbox.tx = NoTx, Executed(a, Chain')
        PROVE  Executed(a, Chain)
    <2>1. t.action = Outside
      BY <1>1, <1>2, <1>3, <1>5, <1>9, TxTypes DEF Outstanding
    <2>2. PICK i \in 1..Len(Chain') : Chain'[i] = [action |-> a, ok |-> TRUE]
      BY <1>9 DEF Executed
    <2>3. i # Len(Chain) + 1
      BY <1>3, <2>1, <2>2, OutboxAssumption
    <2>4. i \in 1..Len(Chain)
      BY <1>3, <1>5, <2>3
    <2> QED BY <1>3, <2>2, <2>4 DEF Extends, Executed
  <1> QED BY <1>4, <1>6, <1>8, <1>9, ChainMoves

LEMMA EmptyBlockStep ==
    ASSUME OutboxInv, EmptyBlock
    PROVE  OutboxInv'
  <1>1. OutboxTypeOK /\ Len(Chain) <= MaxNonce + 1
    BY DEF OutboxInv
  <1>2. settled' = Chain /\ tip' = <<>> /\ Chain' = Chain
    BY <1>1, EmptyBlockShape
  <1>3. UNCHANGED <<broadcast, outbox, worker, cancelling, faults>>
    BY DEF EmptyBlock
  <1>4. /\ Chain \in Seq(Mined) /\ Len(settled) <= Len(Chain)
    BY <1>1, ChainShape DEF Extends
  <1>5. tip' \in Seq(Mined) /\ Len(tip') <= 1
    BY <1>2, EmptySeq
  <1>6. OutboxTypeOK'
    BY <1>1, <1>2, <1>3, <1>4, <1>5 DEF OutboxTypeOK
  <1> QED BY <1>1, <1>2, <1>3, <1>4, <1>6, ChainMoves

LEMMA ReorganiseStep ==
    ASSUME OutboxInv, Reorganise
    PROVE  OutboxInv'
  <1>1. OutboxTypeOK /\ Len(Chain) <= MaxNonce + 1
    BY DEF OutboxInv
  <1>2. settled' = settled /\ tip' = <<>> /\ Chain' = settled
    BY <1>1, ReorganiseShape
  <1>3. UNCHANGED <<broadcast, outbox, cancelling>> /\ faults' \in 0..MaxFaults
    BY Faults DEF Reorganise
  <1>4. /\ Extends(Chain, settled) /\ Len(settled) <= Len(Chain)
        /\ Len(settled) \in Nat /\ Len(Chain) \in Nat /\ MaxNonce \in Nat
    BY <1>1, ChainShape DEF Extends
  <1>5. tip' \in Seq(Mined) /\ Len(tip') <= 1
    BY <1>2, EmptySeq
  <1>6. ASSUME NEW w \in Workers
        PROVE  /\ worker'[w] \in Worker /\ worker'[w].pc = worker[w].pc
               /\ worker'[w].tx = worker[w].tx /\ worker'[w].action = worker[w].action
    <2>1. worker[w] \in Worker
      BY <1>1, TxTypes
    <2>2. worker'[w] \in {worker[w], [worker[w] EXCEPT !.receipt = "orphaned"]}
      BY DEF Reorganise
    <2> QED BY <2>1, <2>2, Zenon DEF Worker
  <1>7. worker' \in [Workers -> Worker]
    <2>1. worker' = [w \in Workers |-> worker'[w]]
      BY DEF Reorganise
    <2> QED BY <1>6, <2>1
  <1>8. OutboxTypeOK'
    BY <1>1, <1>2, <1>3, <1>5, <1>7 DEF OutboxTypeOK
  <1>9. \A a \in Actions : Executed(a, Chain') => Executed(a, Chain)
    BY <1>2, <1>4, ExtendsKeepsExecuted
  <1>10. Len(Chain') <= MaxNonce + 1 /\ Len(settled) <= Len(settled')
    BY <1>1, <1>2, <1>4
  <1> QED BY <1>3, <1>6, <1>8, <1>9, <1>10, ChainMoves

LEMMA SignOutsideStep ==
    ASSUME OutboxInv, SignOutside
    PROVE  OutboxInv'
  <1>1. OutboxTypeOK /\ Len(Chain) <= MaxNonce + 1
    BY DEF OutboxInv
  <1>2. UNCHANGED <<settled, tip, outbox, worker, cancelling>> /\ faults' \in 0..MaxFaults
    BY Faults DEF SignOutside
  <1>3. Chain' = Chain /\ Len(settled) \in Nat
    BY <1>1, <1>2, ChainShape DEF Chain
  <1>4. /\ broadcast' = broadcast \cup {[action |-> Outside, nonce |-> Len(Chain)]}
        /\ Len(Chain) \in 0..MaxNonce
    BY <1>1, ChainShape DEF SignOutside
  <1>5. broadcast' \subseteq Tx
    BY <1>1, <1>4, TxTypes DEF Tx
  <1>6. OutboxTypeOK'
    BY <1>1, <1>2, <1>5 DEF OutboxTypeOK
  <1>7. \A t \in broadcast' : t \in broadcast \/ t.action = Outside
    BY <1>4
  <1> QED BY <1>1, <1>2, <1>3, <1>6, <1>7, ChainMoves

\* A lease that ends, and a flow's own transaction, leave what is signed alone.
LEMMA DocumentStep ==
    ASSUME OutboxInv, LeaseExpires \/ Decide
    PROVE  OutboxInv'
  <1>1. /\ OutboxTypeOK /\ HoldsOutbox /\ SignsItsAction /\ Outstanding /\ PreparedIsFresh
        /\ LeaseMeansEmpty /\ OutboxActionMatches /\ Len(Chain) <= MaxNonce + 1
    BY DEF OutboxInv
  <1>2. UNCHANGED <<chainVars, broadcast, worker>> /\ Chain' = Chain
    BY DEF LeaseExpires, Decide, chainVars, Chain
  <1>3. cancelling' \in BOOLEAN /\ faults' \in 0..MaxFaults
    BY <1>1 DEF LeaseExpires, Decide, OutboxTypeOK
  <1>4. /\ outbox' \in Outbox /\ outbox'.tx = outbox.tx
        /\ outbox'.token \in {outbox.token, None}
        /\ outbox'.tx # NoTx => outbox'.action = outbox.action
    <2>1. CASE LeaseExpires
      <3>1. outbox' = [outbox EXCEPT !.live = FALSE]
        BY <2>1 DEF LeaseExpires
      <3>2. outbox \in Outbox
        BY <1>1, TxTypes
      <3> QED BY <3>1, <3>2, Zenon DEF Outbox
    <2>2. CASE Decide
      BY <1>1, <2>2, IdleTyped, TxTypes DEF Decide
    <2> QED BY <2>1, <2>2
  <1>5. OutboxTypeOK'
    BY <1>1, <1>2, <1>3, <1>4 DEF OutboxTypeOK, chainVars
  <1>6. HoldsOutbox' /\ SignsItsAction'
    BY <1>1, <1>2, <1>4 DEF HoldsOutbox, SignsItsAction, chainVars
  <1>7. LeaseMeansEmpty' /\ OutboxActionMatches' /\ Outstanding'
    BY <1>1, <1>2, <1>4 DEF LeaseMeansEmpty, OutboxActionMatches, Outstanding, chainVars
  <1>8. PreparedIsFresh'
    <2> SUFFICES ASSUME NEW w \in Workers, worker[w].pc = "persist", outbox'.token = w,
                        worker[w].action \in OneTime
                 PROVE  ~Executed(worker[w].action, Chain)
      BY <1>2 DEF PreparedIsFresh
    <2>1. outbox.token = w
      BY <1>4, OutboxAssumption
    <2> QED BY <1>1, <2>1 DEF PreparedIsFresh
  <1> QED BY <1>1, <1>2, <1>5, <1>6, <1>7, <1>8 DEF OutboxInv

-----------------------------------------------------------------------------
(* The invariant *)

LEMMA OutboxStart == OutboxInit => OutboxInv
  <1> SUFFICES ASSUME OutboxInit
               PROVE  OutboxInv
    OBVIOUS
  <1>1. /\ settled = <<>> /\ tip = <<>> /\ broadcast = {} /\ outbox = Idle
        /\ worker = [w \in Workers |-> Resting] /\ cancelling = FALSE /\ faults = 0
    BY DEF OutboxInit
  <1>2. Resting \in Worker /\ Resting.pc = "idle"
    BY DEF Resting, Worker, Steps
  <1>3. OutboxTypeOK
    <2>1. settled \in Seq(Mined) /\ tip \in Seq(Mined) /\ Len(tip) <= 1
      BY <1>1, EmptySeq
    <2>2. faults \in 0..MaxFaults
      BY <1>1, OutboxAssumption
    <2> QED BY <1>1, <1>2, <2>1, <2>2, IdleTyped DEF OutboxTypeOK
  <1>4. Len(Chain) <= MaxNonce + 1
    BY <1>1, <1>3, ChainShape
  <1>5. \A w \in Workers : worker[w].pc = "idle"
    BY <1>1, <1>2
  <1> QED BY <1>1, <1>3, <1>4, <1>5, IdleTyped
          DEF OutboxInv, HoldsOutbox, SignsItsAction, LeaseMeansEmpty, OutboxActionMatches,
              Outstanding, PreparedIsFresh

LEMMA OutboxUnchanged ==
    ASSUME OutboxInv, UNCHANGED outboxVars
    PROVE  OutboxInv'
  <1>1. /\ settled' = settled /\ tip' = tip /\ broadcast' = broadcast /\ outbox' = outbox
        /\ worker' = worker /\ cancelling' = cancelling /\ faults' = faults
    BY DEF outboxVars
  <1> QED BY <1>1
          DEF OutboxInv, OutboxTypeOK, HoldsOutbox, SignsItsAction, LeaseMeansEmpty,
              OutboxActionMatches, Outstanding, PreparedIsFresh, Chain

LEMMA OutboxStep ==
    ASSUME OutboxInv, [OutboxNext]_outboxVars
    PROVE  OutboxInv'
  <1>1. CASE ChainNext
    BY <1>1, MineStep, EmptyBlockStep, ReorganiseStep, SignOutsideStep DEF ChainNext
  <1>2. CASE LeaseExpires \/ Decide
    BY <1>2, DocumentStep
  <1>3. ASSUME NEW w \in Workers, NEW a \in Actions, NEW eligible, Claim(w, a, eligible)
        PROVE  OutboxInv'
    BY <1>3, ClaimStep
  <1>4. ASSUME NEW w \in Workers, NEW eligible, SignStep(w, eligible)
        PROVE  OutboxInv'
    BY <1>4, ReclaimStep, PrepareStep, PersistStep, FailureStep, SendStep DEF SignStep
  <1>5. ASSUME NEW w \in Workers, StartResume(w) \/ ResumeStep(w)
        PROVE  OutboxInv'
    BY <1>5, ResumptionStep, ReceiptStep, ConcludeStep, SendStep DEF ResumeStep
  <1>6. ASSUME NEW w \in Workers, Abort(w)
        PROVE  OutboxInv'
    BY <1>6, EndStep DEF Abort, Keeps, SendsHeld
  <1>7. CASE UNCHANGED outboxVars
    BY <1>7, OutboxUnchanged
  <1> QED BY <1>1, <1>2, <1>3, <1>4, <1>5, <1>6, <1>7 DEF OutboxNext

-----------------------------------------------------------------------------
(* What a flow relies on *)

\* The confirmed chain only grows.
LEMMA SettledGrows ==
    ASSUME OutboxInv, [OutboxNext]_outboxVars
    PROVE  Extends(settled', settled) /\ Len(settled) \in Nat /\ Len(settled') \in Nat
  <1>1. OutboxTypeOK
    BY DEF OutboxInv
  <1>2. /\ Extends(Chain, settled) /\ Len(settled) \in Nat /\ Len(Chain) \in Nat
        /\ Extends(settled, settled)
    BY <1>1, ChainShape DEF Extends
  <1>3. settled' \in {settled, Chain}
    <2>1. CASE ChainNext
      BY <2>1 DEF ChainNext, EmptyBlock, Reorganise, SignOutside, Mine, NewBlock
    <2>2. CASE LeaseExpires \/ Decide \/ UNCHANGED outboxVars
      BY <2>2 DEF LeaseExpires, Decide, outboxVars, chainVars
    <2>3. ASSUME NEW w \in Workers, NEW a, NEW eligible,
                 \/ Claim(w, a, eligible) \/ SignStep(w, eligible)
                 \/ StartResume(w) \/ ResumeStep(w) \/ Abort(w)
          PROVE  settled' = settled
      BY <2>3 DEF Claim, StartResume, Abort, SignStep, Reclaim, Prepare, FailToPrepare,
         Persist, FailToPersist, Send, GiveUp, ResumeStep, ReadOutbox, ReadReceipt, Confirm,
         Replace, Rebroadcast, chainVars
    <2> QED BY <2>1, <2>2, <2>3 DEF OutboxNext
  <1> QED BY <1>2, <1>3

\* Signed bytes enter the outbox by Persist only.
LEMMA OnlyPersistSigns ==
    ASSUME OutboxInv, [OutboxNext]_outboxVars, outbox'.tx # NoTx, outbox'.tx # outbox.tx
    PROVE  \E w \in Workers, eligible \in BOOLEAN : Persist(w, eligible)
  <1>1. outbox \in Outbox /\ Idle.tx = NoTx
    BY TxTypes, IdleTyped DEF OutboxInv
  <1>2. ~ChainNext /\ ~LeaseExpires /\ ~Decide /\ ~UNCHANGED outboxVars
    <2>1. [outbox EXCEPT !.live = FALSE].tx = outbox.tx
      BY <1>1, Zenon DEF Outbox
    <2> QED BY <2>1 DEF ChainNext, EmptyBlock, Reorganise, SignOutside, Mine, LeaseExpires, Decide,
                outboxVars
  <1>3. \A w, a : ~Acquire(w, a)
    <2>1. \A w, a : [outbox EXCEPT !.action = a, !.token = w, !.live = TRUE].tx = outbox.tx
      BY <1>1, Zenon DEF Outbox
    <2> QED BY <2>1 DEF Acquire
  <1>4. ASSUME NEW t, NEW outcome, Conclude(t, outcome)
        PROVE  FALSE
    <2>1. [Idle EXCEPT !.lastTx = t, !.lastOutcome = outcome].tx = NoTx
      BY DEF Idle
    <2> QED BY <1>4, <2>1 DEF Conclude
  <1>5. ASSUME NEW w \in Workers, NEW a, NEW eligible,
               Claim(w, a, eligible) \/ StartResume(w) \/ ResumeStep(w) \/ Abort(w)
        PROVE  FALSE
    BY <1>3, <1>4, <1>5 DEF Claim, StartResume, Abort, ResumeStep, ReadOutbox, ReadReceipt,
       Confirm, Replace, Rebroadcast
  <1>6. ASSUME NEW w \in Workers, NEW eligible, SignStep(w, eligible)
        PROVE  Persist(w, eligible)
    BY <1>1, <1>3, <1>6 DEF SignStep, Reclaim, Prepare, FailToPrepare, FailToPersist, Send, GiveUp
  <1> QED BY <1>2, <1>5, <1>6 DEF OutboxNext

\* An invocation keeps its action until it ends, when it forgets it, and moves no
\* other.
LEMMA ActionKept ==
    ASSUME OutboxInv, NEW w \in Workers, NEW eligible, SignStep(w, eligible) \/ ResumeStep(w)
    PROVE  /\ worker'[w].pc = "idle" => worker'[w] = Resting
           /\ worker'[w].pc # "idle" => worker'[w].action = worker[w].action
           /\ \A u \in Workers \ {w} : worker'[u] = worker[u]
  <1>1. worker \in [Workers -> Worker] /\ worker[w] \in Worker
    BY TxTypes DEF OutboxInv
  <1>2. PICK l : Goto(w, l)
    BY DEF SignStep, ResumeStep, Reclaim, Acquire, Prepare, FailToPrepare, Persist, FailToPersist,
       Send, GiveUp, Rest, ReadOutbox, ReadReceipt, Confirm, Replace, Rebroadcast, AfterSuccess
  <1>3. /\ worker'[w] = l
        /\ \A u \in Workers \ {w} : worker'[u] = worker[u]
    BY <1>1, <1>2 DEF Goto
  <1>4. Resting.pc = "idle"
    BY DEF Resting
  <1>5. ASSUME NEW a, Acquire(w, a)
        PROVE  worker'[w].action = a /\ worker'[w].pc = "prepare"
    BY <1>1, <1>5 DEF Acquire, Goto, Resting
  <1>6. CASE Rest(w)
    BY <1>1, <1>3, <1>4, <1>6 DEF Rest, Goto
  <1>7. CASE Reclaim(w, eligible)
    BY <1>3, <1>5, <1>6, <1>7 DEF Reclaim
  <1>8. \A d : Goto(w, d) => worker'[w] = d
    BY <1>1 DEF Goto
  <1>9. CASE Prepare(w) \/ Persist(w, eligible) \/ ReadReceipt(w) \/ ReadOutbox(w)
    <2>1. CASE Prepare(w)
      <3>1. PICK t : Goto(w, [worker[w] EXCEPT !.pc = "persist", !.tx = t])
        BY <2>1 DEF Prepare
      <3>2. /\ [worker[w] EXCEPT !.pc = "persist", !.tx = t].action = worker[w].action
            /\ [worker[w] EXCEPT !.pc = "persist", !.tx = t].pc = "persist"
        BY <1>1, Zenon DEF Worker
      <3> QED BY <3>1, <3>2, <1>3, <1>8, Zenon
    <2>2. CASE Persist(w, eligible)
      <3>1. Goto(w, [worker[w] EXCEPT !.pc = "send"])
        BY <2>2 DEF Persist
      <3>2. /\ [worker[w] EXCEPT !.pc = "send"].action = worker[w].action
            /\ [worker[w] EXCEPT !.pc = "send"].pc = "send"
        BY <1>1, Zenon DEF Worker
      <3> QED BY <3>1, <3>2, <1>3, <1>8, Zenon
    <2>3. CASE ReadReceipt(w)
      <3>1. PICK r : Goto(w, [worker[w] EXCEPT !.pc = "conclude", !.receipt = r])
        BY <2>3 DEF ReadReceipt
      <3>2. /\ [worker[w] EXCEPT !.pc = "conclude", !.receipt = r].action = worker[w].action
            /\ [worker[w] EXCEPT !.pc = "conclude", !.receipt = r].pc = "conclude"
        BY <1>1, Zenon DEF Worker
      <3> QED BY <3>1, <3>2, <1>3, <1>8, Zenon
    <2>4. CASE ReadOutbox(w) /\ outbox.tx # NoTx
      <3>1. Goto(w, [worker[w] EXCEPT !.pc = "receipt", !.tx = outbox.tx])
        BY <2>4 DEF ReadOutbox
      <3>2. /\ [worker[w] EXCEPT !.pc = "receipt", !.tx = outbox.tx].action = worker[w].action
            /\ [worker[w] EXCEPT !.pc = "receipt", !.tx = outbox.tx].pc = "receipt"
        BY <1>1, Zenon DEF Worker
      <3> QED BY <3>1, <3>2, <1>3, <1>8, Zenon
    <2>5. CASE ReadOutbox(w) /\ outbox.tx = NoTx
      BY <2>5, <1>6 DEF ReadOutbox
    <2> QED BY <1>9, <2>1, <2>2, <2>3, <2>4, <2>5
  <1>10. CASE FailToPrepare(w) \/ FailToPersist(w, eligible) \/ Send(w) \/ Replace(w) \/ Rebroadcast(w)
    BY <1>3, <1>6, <1>10 DEF FailToPrepare, FailToPersist, Send, Replace, Rebroadcast, GiveUp
  <1>11. CASE Confirm(w)
    <2>1. /\ [Resting EXCEPT !.pc = "reclaim", !.action = worker[w].action].action = worker[w].action
          /\ [Resting EXCEPT !.pc = "reclaim", !.action = worker[w].action].pc = "reclaim"
      BY DEF Resting
    <2>2. CASE Goto(w, [Resting EXCEPT !.pc = "reclaim", !.action = worker[w].action])
      BY <1>1, <1>3, <2>1, <2>2 DEF Goto
    <2> QED BY <1>3, <1>6, <1>11, <2>2 DEF Confirm, AfterSuccess
  <1> QED BY <1>3, <1>7, <1>9, <1>10, <1>11 DEF SignStep, ResumeStep

\* What was signed before is not signed again once it was executed: the action that
\* enters the outbox was not executed when it was prepared, nor since.
LEMMA SignedIsFresh ==
    ASSUME OutboxInv, [OutboxNext]_outboxVars, outbox.tx = NoTx, outbox'.tx # NoTx,
           outbox'.action \in OneTime
    PROVE  ~Executed(outbox'.action, settled)
  <1>1. PICK w \in Workers, eligible \in BOOLEAN : Persist(w, eligible)
    BY OnlyPersistSigns
  <1>2. outbox'.action = worker[w].action
    BY <1>1 DEF Persist, Idle
  <1>3. worker[w].pc = "persist" /\ outbox.token = w
    BY <1>1 DEF Persist, MayPersist, At
  <1>4. ~Executed(worker[w].action, Chain)
    BY <1>2, <1>3 DEF OutboxInv, PreparedIsFresh
  <1>5. Extends(Chain, settled) /\ Len(Chain) \in Nat /\ Len(settled) \in Nat
    BY ChainShape DEF OutboxInv
  <1> QED BY <1>2, <1>4, <1>5, ExtendsKeepsExecuted

-----------------------------------------------------------------------------
(* The cancellation *)

Voided == [action |-> Void, ok |-> TRUE]
Pays(m) == m.action \in Payments /\ m.ok

\* The contract of a voided escrow refuses every payment.
VoidIsFinal ==
    \A i, j \in 1..Len(Chain) : i < j /\ Chain[i] = Voided => ~Pays(Chain[j])

\* Among its first n transactions the chain s voided the escrow, and paid nothing.
VoidedWithin(n, s) ==
    /\ n <= Len(s)
    /\ \E i \in 1..n : s[i] = Voided
    /\ \A i \in 1..n : ~Pays(s[i])

IsVoid(t) == t = NoTx \/ t.action = Void

\* What an invocation of the reconciliation remembers, of the confirmed chain s.
LocalAgrees(r, s) ==
    /\ IsVoid(r.hash) /\ IsVoid(r.changes.hash)
    /\ r.safe <= Len(s)
    /\ r.changes.status # "complete"
    /\ r.pc = "receipt" => r.hash # NoTx
    /\ r.pc = "confirm" => VoidedWithin(r.safe, s)

RequestAgrees(q, s) ==
    /\ IsVoid(q.hash)
    /\ q.status = "complete" => \E n \in Nat : VoidedWithin(n, s)

\* The signer works for the reconciliation that called it.
SignsVoid == \A w \in Workers : reconcile[w].pc = "signing" => worker[w].action = Void

CancellationInv ==
    /\ OutboxInv
    /\ CancellationTypeOK
    /\ VoidIsFinal
    /\ \A w \in Workers : LocalAgrees(reconcile[w], settled)
    /\ RequestAgrees(request, settled)
    /\ SignsVoid

-----------------------------------------------------------------------------
(* The cancellation takes the outbox's steps *)

LEMMA VoidIsAction == Void \in Actions /\ Void \in OneTime /\ Void \in Closers /\ Void # None
                      /\ Callers \subseteq Workers /\ Sweeper \in Workers
  BY OutboxAssumption, CancellationAssumption

LEMMA TakesOutboxSteps ==
    ASSUME OutboxInv, [Next]_vars
    PROVE  [OutboxNext]_outboxVars
  <1>1. faults \in 0..MaxFaults /\ MaxFaults \in Nat
    BY OutboxAssumption DEF OutboxInv, OutboxTypeOK
  <1>2. CASE Chains
    BY <1>2 DEF Chains, OutboxNext
  <1>3. CASE LoseAuthority
    <2>1. UNCHANGED <<chainVars, broadcast, outbox, worker, cancelling>> /\ Fault
      BY <1>3 DEF LoseAuthority
    <2>2. cancelling \in BOOLEAN
      BY DEF OutboxInv, OutboxTypeOK
    <2>3. Decide
      BY <1>1, <2>1, <2>2 DEF Decide, Fault
    <2> QED BY <2>3 DEF OutboxNext
  <1>4. CASE StartSweep \/ TakeUp(Sweeper)
    BY <1>4, VoidIsAction DEF StartSweep, TakeUp, OutboxNext
  <1>5. ASSUME NEW w \in Workers, ReviewEscrow(w) \/ PaymentCall(w)
        PROVE  [OutboxNext]_outboxVars
    <2>1. Payments \subseteq Actions
      BY OutboxAssumption
    <2> QED BY <1>5, <2>1 DEF ReviewEscrow, PaymentCall, OutboxNext
  <1>6. ASSUME NEW w \in Workers, ReconcileStep(w)
        PROVE  [OutboxNext]_outboxVars
    <2>1. CASE ReadRequest(w) \/ ReadEscrow(w) \/ ReadSigner(w) \/ Authorise(w)
      BY <2>1 DEF ReadRequest, ReadEscrow, ReadSigner, Authorise
    <2>2. CASE FileRequest(w) \/ CheckReceipt(w) \/ ConfirmRequest(w) \/ UpdateRequest(w)
      <3>1. UNCHANGED <<chainVars, broadcast, outbox, worker>>
        BY <2>2 DEF FileRequest, CheckReceipt, ConfirmRequest, UpdateRequest
      <3>2. faults' \in 0..MaxFaults
        BY <2>2, <1>1 DEF FileRequest, CheckReceipt, ConfirmRequest, UpdateRequest, Fault
      <3>3. cancelling' \in BOOLEAN
        <4>1. cancelling \in BOOLEAN
          BY DEF OutboxInv, OutboxTypeOK
        <4>2. CASE UpdateRequest(w)
          <5>1. \/ cancelling' = cancelling
                \/ cancelling' = (reconcile[w].changes.status \in {"queued", "pending"})
            BY <4>2 DEF UpdateRequest
          <5>2. (reconcile[w].changes.status \in {"queued", "pending"}) \in BOOLEAN
            OBVIOUS
          <5> QED BY ONLY <4>1, <5>1, <5>2
        <4> QED BY <2>2, <4>1, <4>2 DEF FileRequest, CheckReceipt, ConfirmRequest
      <3>4. Decide
        BY <3>1, <3>2, <3>3 DEF Decide
      <3> QED BY <3>4 DEF OutboxNext
    <2>3. CASE SubmitVoid(w)
      BY <2>3, VoidIsAction DEF SubmitVoid, OutboxNext
    <2> QED BY <1>6, <2>1, <2>2, <2>3 DEF ReconcileStep
  <1>7. ASSUME NEW w \in Workers, SignerStep(w)
        PROVE  [OutboxNext]_outboxVars
    BY <1>7 DEF SignerStep, OutboxNext
  <1>8. ASSUME NEW w \in Workers, RefuseToSign(w) \/ KillCall(w)
        PROVE  [OutboxNext]_outboxVars
    <2>1. CASE RefuseToSign(w)
      <3>1. GiveUp(w) /\ UNCHANGED faults
        BY <2>1 DEF RefuseToSign
      <3>2. Keeps(outbox')
        BY <3>1, GivesUp DEF GiveUp
      <3>3. Abort(w)
        BY <1>1, <3>1, <3>2 DEF GiveUp, Keeps, Abort
      <3> QED BY <3>3 DEF OutboxNext
    <2>2. CASE KillCall(w)
      <3>1. Rest(w) /\ Fault /\ UNCHANGED <<chainVars, broadcast, outbox, cancelling>>
        BY <2>2 DEF KillCall
      <3>2. Abort(w)
        BY <1>1, <3>1 DEF Abort, Fault
      <3> QED BY <3>2 DEF OutboxNext
    <2> QED BY <1>8, <2>1, <2>2
  <1>9. CASE UNCHANGED vars
    BY <1>9 DEF vars
  <1> QED BY <1>2, <1>3, <1>4, <1>5, <1>6, <1>7, <1>8, <1>9, VoidIsAction DEF Next

-----------------------------------------------------------------------------
(* The chain and what is remembered of it *)

LEMMA VoidStaysFinal ==
    ASSUME OutboxInv, VoidIsFinal, [OutboxNext]_outboxVars
    PROVE  VoidIsFinal'
  <1>1. /\ OutboxTypeOK /\ Len(Chain) \in Nat /\ Len(settled) \in Nat
        /\ Extends(Chain, settled) /\ Extends(Chain, Chain)
    BY ChainShape DEF OutboxInv, Extends
  <1>2. ASSUME Extends(Chain, Chain'), Len(Chain') \in Nat
        PROVE  VoidIsFinal'
    BY <1>1, <1>2 DEF VoidIsFinal, Extends
  <1>3. CASE Chain' = Chain
    BY <1>1, <1>2, <1>3
  <1>4. ASSUME NEW t \in broadcast, Mine(t)
        PROVE  VoidIsFinal'
    <2>1. t \in Tx
      BY <1>1, TxTypes
    <2>2. PICK ok \in BOOLEAN :
             /\ Len(Chain') = Len(Chain) + 1 /\ Extends(Chain', Chain)
             /\ Chain'[Len(Chain) + 1] = [action |-> t.action, ok |-> ok]
             /\ Refused(t.action) => ~ok
      BY <1>1, <1>4, <2>1, MineShape
    <2> SUFFICES ASSUME NEW i \in 1..Len(Chain'), NEW j \in 1..Len(Chain'), i < j,
                        Chain'[i] = Voided, Pays(Chain'[j])
                 PROVE  FALSE
      BY DEF VoidIsFinal
    <2>3. i \in 1..Len(Chain) /\ Chain[i] = Voided
      BY <1>1, <2>2 DEF Extends
    <2>4. CASE j \in 1..Len(Chain)
      BY <1>1, <2>2, <2>3, <2>4 DEF VoidIsFinal, Extends
    <2>5. CASE j = Len(Chain) + 1
      <3>1. Executed(Void, Chain)
        BY <2>3 DEF Executed, Voided
      <3>2. t.action \in Payments /\ ok
        BY <2>2, <2>5 DEF Pays
      <3>3. Refused(t.action)
        BY <3>1, <3>2, VoidIsAction DEF Refused
      <3> QED BY <2>2, <3>2, <3>3
    <2> QED BY <1>1, <2>2, <2>4, <2>5
  <1>5. CASE ChainNext
    <2>1. CASE EmptyBlock
      BY <1>1, <1>3, <2>1, EmptyBlockShape
    <2>2. CASE Reorganise
      BY <1>1, <1>2, <2>2, ReorganiseShape
    <2>3. CASE SignOutside
      BY <1>3, <2>3 DEF SignOutside, Chain
    <2> QED BY <1>4, <1>5, <2>1, <2>2, <2>3 DEF ChainNext
  <1>6. CASE LeaseExpires \/ Decide \/ UNCHANGED outboxVars
    BY <1>3, <1>6 DEF LeaseExpires, Decide, outboxVars, chainVars, Chain
  <1>7. ASSUME NEW w \in Workers, NEW a, NEW eligible,
               \/ Claim(w, a, eligible) \/ SignStep(w, eligible)
               \/ StartResume(w) \/ ResumeStep(w) \/ Abort(w)
        PROVE  Chain' = Chain
    <2>1. UNCHANGED chainVars
      BY <1>7 DEF Claim, StartResume, Abort, SignStep, Reclaim, Prepare, FailToPrepare,
         Persist, FailToPersist, Send, GiveUp, ResumeStep, ReadOutbox, ReadReceipt, Confirm,
         Replace, Rebroadcast
    <2> QED BY <2>1 DEF chainVars, Chain
  <1> QED BY <1>3, <1>5, <1>6, <1>7 DEF OutboxNext

LEMMA VoidedWithinStays ==
    ASSUME NEW n \in Nat, NEW s, NEW t, VoidedWithin(n, s), Extends(t, s),
           Len(s) \in Nat, Len(t) \in Nat
    PROVE  VoidedWithin(n, t)
  BY DEF VoidedWithin, Extends

LEMMA LocalStays ==
    ASSUME NEW r \in Reconcile, NEW s, NEW t, LocalAgrees(r, s), Extends(t, s),
           Len(s) \in Nat, Len(t) \in Nat
    PROVE  LocalAgrees(r, t)
  <1>1. r.safe \in Nat
    BY OutboxAssumption DEF Reconcile
  <1>2. r.safe <= Len(t)
    BY <1>1 DEF LocalAgrees, Extends
  <1>3. r.pc = "confirm" => VoidedWithin(r.safe, t)
    BY <1>1, VoidedWithinStays DEF LocalAgrees
  <1> QED BY <1>2, <1>3 DEF LocalAgrees

LEMMA RequestStays ==
    ASSUME NEW q, NEW s, NEW t, RequestAgrees(q, s), Extends(t, s),
           Len(s) \in Nat, Len(t) \in Nat
    PROVE  RequestAgrees(q, t)
  BY VoidedWithinStays DEF RequestAgrees

-----------------------------------------------------------------------------
(* A step of the cancellation *)

\* What every step owes: w's variables may become r, and the request what agrees with
\* the confirmed chain.
LEMMA FlowStep ==
    ASSUME CancellationInv, [OutboxNext]_outboxVars,
           NEW w \in Workers, NEW r \in Reconcile, LocalAgrees(r, settled),
           reconcile' \in {reconcile, [reconcile EXCEPT ![w] = r]},
           request' \in Request, RequestAgrees(request', settled),
           authorised' \in BOOLEAN, SignsVoid'
    PROVE  CancellationInv'
  <1>1. /\ OutboxInv /\ VoidIsFinal /\ reconcile \in [Workers -> Reconcile]
        /\ \A u \in Workers : LocalAgrees(reconcile[u], settled)
    BY DEF CancellationInv, CancellationTypeOK
  <1>2. OutboxInv' /\ VoidIsFinal'
    BY <1>1, OutboxStep, VoidStaysFinal
  <1>3. Extends(settled', settled) /\ Len(settled) \in Nat /\ Len(settled') \in Nat
    BY <1>1, SettledGrows
  <1>4. reconcile' \in [Workers -> Reconcile]
    BY <1>1
  <1>5. \A u \in Workers : LocalAgrees(reconcile'[u], settled')
    <2> SUFFICES ASSUME NEW u \in Workers
                 PROVE  LocalAgrees(reconcile'[u], settled')
      OBVIOUS
    <2>1. reconcile'[u] \in {reconcile[u], r} /\ reconcile[u] \in Reconcile
      BY <1>1
    <2> QED BY <1>1, <1>3, <2>1, LocalStays
  <1>6. RequestAgrees(request', settled')
    BY <1>3, RequestStays
  <1>7. OutboxTypeOK'
    BY <1>2 DEF OutboxInv
  <1> QED BY <1>2, <1>4, <1>5, <1>6, <1>7 DEF CancellationInv, CancellationTypeOK

\* The invariant's parts, as the steps use them.
LEMMA FlowShape ==
    ASSUME CancellationInv
    PROVE  /\ OutboxInv /\ OutboxTypeOK /\ reconcile \in [Workers -> Reconcile]
           /\ request \in Request /\ RequestAgrees(request, settled)
           /\ authorised \in BOOLEAN /\ SignsVoid
           /\ \A w \in Workers : /\ reconcile[w] \in Reconcile
                                 /\ LocalAgrees(reconcile[w], settled)
                                 /\ reconcile[w].hash \in Tx \cup {NoTx}
                                 /\ IsVoid(reconcile[w].hash)
                                 /\ reconcile[w].changes \in Request
                                 /\ IsVoid(reconcile[w].changes.hash)
                                 /\ reconcile[w].safe \in Nat
                                 /\ reconcile[w].safe <= Len(settled)
           /\ request.hash \in Tx \cup {NoTx} /\ IsVoid(request.hash)
  <1>1. /\ OutboxInv /\ OutboxTypeOK /\ reconcile \in [Workers -> Reconcile]
        /\ request \in Request /\ RequestAgrees(request, settled)
        /\ authorised \in BOOLEAN /\ SignsVoid
        /\ \A w \in Workers : LocalAgrees(reconcile[w], settled)
    BY DEF CancellationInv, CancellationTypeOK
  <1>2. ASSUME NEW r \in Reconcile
        PROVE  /\ r.hash \in Tx \cup {NoTx} /\ r.changes \in Request
               /\ r.safe \in 0..(MaxNonce + 1)
    BY Zenon DEF Reconcile
  <1>3. ASSUME NEW q \in Request
        PROVE  q.hash \in Tx \cup {NoTx}
    BY Zenon DEF Request
  <1>4. ASSUME NEW w \in Workers
        PROVE  /\ reconcile[w] \in Reconcile
               /\ reconcile[w].hash \in Tx \cup {NoTx}
               /\ reconcile[w].changes \in Request
               /\ reconcile[w].safe \in Nat
    <2>1. reconcile[w] \in Reconcile
      BY <1>1
    <2>2. reconcile[w].safe \in 0..(MaxNonce + 1)
      BY <1>2, <2>1
    <2>3. reconcile[w].safe \in Nat
      BY <2>2, OutboxAssumption
    <2> QED BY <1>2, <2>1, <2>3
  <1> QED BY <1>1, <1>3, <1>4 DEF LocalAgrees, RequestAgrees

LEMMA NoRequestAgrees ==
    /\ NoRequest \in Request /\ NoRequest.hash = NoTx /\ NoRequest.status = "none"
    /\ IsVoid(NoTx)
  BY DEF NoRequest, Request, Causes, IsVoid

\* An invocation that starts afresh
Fresh(pc, hash) == [Inactive EXCEPT !.pc = pc, !.hash = hash]

LEMMA FreshLocal ==
    ASSUME OutboxTypeOK, NEW hash \in Tx \cup {NoTx}, IsVoid(hash),
           NEW pc \in {"idle", "file", "escrow"}
    PROVE  /\ Fresh(pc, hash) \in Reconcile /\ LocalAgrees(Fresh(pc, hash), settled)
           /\ Fresh(pc, hash).pc = pc
  <1>1. Len(settled) \in Nat /\ MaxNonce \in Nat
    BY ChainShape
  <1>2. 0 \in 0..(MaxNonce + 1) /\ 0 <= Len(settled)
    BY <1>1
  <1>3. /\ Fresh(pc, hash).pc = pc /\ Fresh(pc, hash).hash = hash
        /\ Fresh(pc, hash).safe = 0 /\ Fresh(pc, hash).changes = NoRequest
    BY Zenon DEF Fresh, Inactive
  <1>4. Fresh(pc, hash) \in Reconcile
    BY <1>2, NoRequestAgrees, Zenon DEF Reconcile, Fresh, Inactive
  <1>5. LocalAgrees(Fresh(pc, hash), settled)
    <2> HIDE DEF Fresh
    <2> QED BY <1>2, <1>3, NoRequestAgrees DEF LocalAgrees
  <1> QED BY <1>3, <1>4, <1>5

LEMMA InactiveIsFresh ==
    /\ Inactive = Fresh("idle", NoTx)
    /\ \A pc : [Inactive EXCEPT !.pc = pc] = Fresh(pc, NoTx)
  <1>1. \A pc : [Inactive EXCEPT !.pc = pc] = Fresh(pc, NoTx)
    <2>1. \A pc : [Inactive EXCEPT !.pc = pc].hash = NoTx
      BY DEF Inactive
    <2> QED BY <2>1 DEF Fresh, Inactive
  <1>2. Inactive = [Inactive EXCEPT !.pc = "idle"]
    BY DEF Inactive
  <1> QED BY <1>1, <1>2

\* An invocation about to write its changes
LEMMA ReportLocal ==
    ASSUME OutboxTypeOK, NEW w, NEW status \in {"queued", "pending", "blocked"},
           NEW cause \in Causes, NEW hash \in Tx \cup {NoTx}, IsVoid(hash),
           Report(w, status, cause, hash)
    PROVE  \E r \in Reconcile : /\ LocalAgrees(r, settled) /\ r.pc = "update"
                                /\ Proceed(w, r)
  <1> DEFINE q == [status |-> status, hash |-> hash, cause |-> cause]
             r == [Inactive EXCEPT !.pc = "update", !.changes = q]
  <1>1. Len(settled) \in Nat /\ MaxNonce \in Nat
    BY ChainShape
  <1>2. 0 \in 0..(MaxNonce + 1) /\ 0 <= Len(settled)
    BY <1>1
  <1>3. q \in Request /\ q.hash = hash /\ q.status = status
    BY Zenon DEF Request
  <1>4. Proceed(w, r)
    BY DEF Report
  <1> HIDE DEF q
  <1>5. /\ r.pc = "update" /\ r.hash = NoTx /\ r.safe = 0 /\ r.changes = q
    BY Zenon DEF Inactive
  <1>6. r \in Reconcile
    BY <1>2, <1>3, NoRequestAgrees, Zenon DEF Reconcile, Inactive
  <1> HIDE DEF r
  <1>7. LocalAgrees(r, settled)
    BY <1>2, <1>3, <1>5, NoRequestAgrees DEF LocalAgrees
  <1> QED BY <1>4, <1>5, <1>6, <1>7

\* A step that moves no signer and leaves w outside it.
LEMMA QuietStep ==
    ASSUME CancellationInv, [OutboxNext]_outboxVars,
           NEW w \in Workers, NEW r \in Reconcile, LocalAgrees(r, settled),
           r.pc # "signing", Proceed(w, r), worker' = worker,
           request' \in Request, RequestAgrees(request', settled), authorised' = authorised
    PROVE  CancellationInv'
  <1>1. reconcile' = [reconcile EXCEPT ![w] = r] /\ reconcile \in [Workers -> Reconcile]
    BY FlowShape DEF Proceed
  <1>2. SignsVoid'
    BY <1>1, FlowShape DEF SignsVoid
  <1> QED BY <1>1, <1>2, FlowShape, FlowStep

LEMMA EndFlow ==
    ASSUME CancellationInv, [OutboxNext]_outboxVars, NEW w \in Workers, Stop(w),
           worker' = worker, request' \in Request, RequestAgrees(request', settled),
           authorised' = authorised
    PROVE  CancellationInv'
  <1>1. /\ Fresh("idle", NoTx) \in Reconcile /\ LocalAgrees(Fresh("idle", NoTx), settled)
        /\ Fresh("idle", NoTx).pc = "idle"
    BY FlowShape, FreshLocal, NoRequestAgrees
  <1>2. Proceed(w, Fresh("idle", NoTx))
    BY InactiveIsFresh DEF Stop
  <1> QED BY <1>1, <1>2, QuietStep

LEMMA ReportStep ==
    ASSUME CancellationInv, [OutboxNext]_outboxVars, NEW w \in Workers,
           NEW status \in {"queued", "pending", "blocked"}, NEW cause \in Causes,
           NEW hash \in Tx \cup {NoTx}, IsVoid(hash), Report(w, status, cause, hash),
           worker' = worker, UNCHANGED <<request, authorised>>
    PROVE  CancellationInv'
  <1>1. PICK r \in Reconcile : LocalAgrees(r, settled) /\ r.pc = "update" /\ Proceed(w, r)
    BY FlowShape, ReportLocal
  <1> QED BY <1>1, FlowShape, QuietStep

\* The reconciliation of w goes on at pc.
LEMMA ToLocal ==
    ASSUME CancellationInv, NEW w \in Workers, NEW pc \in {"file", "job"}, To(w, pc)
    PROVE  \E r \in Reconcile : LocalAgrees(r, settled) /\ r.pc = pc /\ Proceed(w, r)
  <1> DEFINE r == [reconcile[w] EXCEPT !.pc = pc]
  <1>1. /\ reconcile[w] \in Reconcile /\ LocalAgrees(reconcile[w], settled)
        /\ Proceed(w, r)
    BY FlowShape DEF To
  <1>2. /\ r \in Reconcile /\ r.pc = pc /\ r.hash = reconcile[w].hash
        /\ r.safe = reconcile[w].safe /\ r.changes = reconcile[w].changes
    BY <1>1, Zenon DEF Reconcile
  <1> HIDE DEF r
  <1>3. LocalAgrees(r, settled)
    BY <1>1, <1>2 DEF LocalAgrees
  <1> QED BY <1>1, <1>2, <1>3

LEMMA StartStep ==
    ASSUME CancellationInv, [OutboxNext]_outboxVars, NEW w \in Workers,
           ReviewEscrow(w) \/ TakeUp(w) \/ ReadRequest(w)
    PROVE  CancellationInv'
  <1>1. UNCHANGED <<outboxVars, request, authorised>>
    BY DEF ReviewEscrow, TakeUp, ReadRequest
  <1>2. worker' = worker
    BY <1>1 DEF outboxVars
  <1>3. CASE ReviewEscrow(w)
    <2>1. PICK r \in Reconcile : LocalAgrees(r, settled) /\ r.pc = "file" /\ Proceed(w, r)
      BY <1>3, ToLocal DEF ReviewEscrow
    <2> QED BY <1>1, <1>2, <2>1, FlowShape, QuietStep
  <1>4. CASE Begin(w)
    <2>1. Proceed(w, Fresh("escrow", request.hash))
      BY <1>4 DEF Begin, Fresh
    <2>2. /\ Fresh("escrow", request.hash) \in Reconcile
          /\ LocalAgrees(Fresh("escrow", request.hash), settled)
          /\ Fresh("escrow", request.hash).pc = "escrow"
      BY FlowShape, FreshLocal
    <2> QED BY <1>1, <1>2, <2>1, <2>2, FlowShape, QuietStep
  <1>5. CASE Stop(w)
    BY <1>1, <1>2, <1>5, FlowShape, EndFlow
  <1> QED BY <1>3, <1>4, <1>5 DEF TakeUp, ReadRequest

LEMMA FileStep ==
    ASSUME CancellationInv, [OutboxNext]_outboxVars, NEW w \in Workers, FileRequest(w)
    PROVE  CancellationInv'
  <1>1. worker' = worker /\ authorised' = authorised
    BY DEF FileRequest
  <1>2. CASE Stop(w) /\ UNCHANGED request
    BY <1>1, <1>2, FlowShape, EndFlow
  <1>3. CASE /\ request' \in {request, [NoRequest EXCEPT !.status = "queued"]}
             /\ To(w, "job")
    <2>1. PICK r \in Reconcile : LocalAgrees(r, settled) /\ r.pc = "job" /\ Proceed(w, r)
      BY <1>3, ToLocal
    <2>2. request' \in Request /\ RequestAgrees(request', settled)
      <3>1. CASE request' = request
        BY <3>1, FlowShape
      <3>2. CASE request' = [NoRequest EXCEPT !.status = "queued"]
        <4>1. /\ request' \in Request /\ request'.status = "queued" /\ request'.hash = NoTx
          BY <3>2, NoRequestAgrees, Zenon DEF Request
        <4> QED BY <4>1, NoRequestAgrees DEF RequestAgrees
      <3> QED BY <1>3, <3>1, <3>2
    <2> QED BY <1>1, <2>1, <2>2, QuietStep
  <1> QED BY <1>2, <1>3 DEF FileRequest

LEMMA ReadEscrowStep ==
    ASSUME CancellationInv, [OutboxNext]_outboxVars, NEW w \in Workers, ReadEscrow(w)
    PROVE  CancellationInv'
  <1> DEFINE r == [reconcile[w] EXCEPT !.pc = "outbox", !.safe = Len(settled)]
  <1>1. worker' = worker /\ UNCHANGED <<request, authorised>> /\ Proceed(w, r)
    BY DEF ReadEscrow, outboxVars
  <1>2. reconcile[w] \in Reconcile /\ LocalAgrees(reconcile[w], settled)
    BY FlowShape
  <1>3. Len(settled) \in 0..(MaxNonce + 1)
    <2>1. Len(Chain) <= MaxNonce + 1
      BY FlowShape DEF OutboxInv
    <2> QED BY <2>1, FlowShape, ChainShape DEF Extends
  <1>4. /\ r \in Reconcile /\ r.pc = "outbox" /\ r.hash = reconcile[w].hash
        /\ r.safe = Len(settled) /\ r.changes = reconcile[w].changes
    BY <1>2, <1>3, Zenon DEF Reconcile
  <1> HIDE DEF r
  <1>5. LocalAgrees(r, settled)
    BY <1>2, <1>3, <1>4 DEF LocalAgrees
  <1> QED BY <1>1, <1>4, <1>5, FlowShape, QuietStep

LEMMA KnownHashIsVoid ==
    ASSUME CancellationInv, NEW w \in Workers
    PROVE  /\ KnownHash(w) \in Tx \cup {NoTx} /\ IsVoid(KnownHash(w))
           /\ outbox.lastTx \in Tx \cup {NoTx}
  <1>1. /\ outbox \in Outbox /\ outbox.tx \in Tx \cup {NoTx}
        /\ reconcile[w].hash \in Tx \cup {NoTx} /\ IsVoid(reconcile[w].hash)
    BY FlowShape, TxTypes
  <1>2. outbox.lastTx \in Tx \cup {NoTx}
    BY <1>1, Zenon DEF Outbox
  <1> QED BY <1>1, <1>2 DEF KnownHash, IsVoid

LEMMA ReadSignerStep ==
    ASSUME CancellationInv, [OutboxNext]_outboxVars, NEW w \in Workers, ReadSigner(w)
    PROVE  CancellationInv'
  <1> DEFINE hash == KnownHash(w)
             pc == IF hash # NoTx THEN "receipt" ELSE "authorise"
             r == [reconcile[w] EXCEPT !.hash = hash, !.pc = pc]
             told == IF hash # NoTx THEN hash ELSE outbox.lastTx
  <1>1. worker' = worker /\ UNCHANGED <<request, authorised>>
    BY DEF ReadSigner, outboxVars
  <1>2. hash \in Tx \cup {NoTx} /\ IsVoid(hash) /\ outbox.lastTx \in Tx \cup {NoTx}
    BY KnownHashIsVoid
  <1>3. CASE /\ outbox.lastTx.action = Void
             /\ Report(w, "blocked", "replaced", told)
    <2>1. told \in Tx \cup {NoTx} /\ IsVoid(told)
      BY <1>2, <1>3 DEF IsVoid
    <2> QED BY <1>1, <1>3, <2>1, ReportStep DEF Causes
  <1>4. CASE Proceed(w, r)
    <2>1. reconcile[w] \in Reconcile /\ LocalAgrees(reconcile[w], settled)
      BY FlowShape
    <2>2. pc \in {"receipt", "authorise"} /\ (pc = "receipt" => hash # NoTx)
      OBVIOUS
    <2> HIDE DEF pc, hash
    <2>3. /\ r \in Reconcile /\ r.pc = pc /\ r.hash = hash
          /\ r.safe = reconcile[w].safe /\ r.changes = reconcile[w].changes
      BY <1>2, <2>1, <2>2, Zenon DEF Reconcile
    <2> HIDE DEF r
    <2>4. LocalAgrees(r, settled)
      BY <1>2, <2>1, <2>2, <2>3 DEF LocalAgrees
    <2>5. r.pc # "signing"
      BY <2>2, <2>3
    <2> QED BY <1>1, <1>4, <2>3, <2>4, <2>5, FlowShape, QuietStep
  <1> QED BY <1>3, <1>4 DEF ReadSigner

\* What was read of the escrow is a beginning of the confirmed chain.
LEMMA VerifiedShape ==
    ASSUME CancellationInv, NEW w \in Workers
    PROVE  /\ Len(Verified(w)) = reconcile[w].safe
           /\ \A i \in 1..reconcile[w].safe :
                 Verified(w)[i] = settled[i] /\ settled[i] \in Mined
           /\ reconcile[w].safe \in Nat /\ reconcile[w].safe <= Len(settled)
           /\ Len(settled) \in Nat
  <1> DEFINE n == reconcile[w].safe
  <1>1. n \in Nat /\ n <= Len(settled) /\ Len(settled) \in Nat /\ settled \in Seq(Mined)
    BY FlowShape, ChainShape
  <1>2. \A i \in 1..n : settled[i] \in Mined
    BY <1>1
  <1>3. /\ Len(SubSeq(settled, 1, n)) = IF 1 <= n THEN n - 1 + 1 ELSE 0
        /\ \A i \in 1..(n - 1 + 1) : SubSeq(settled, 1, n)[i] = settled[1 + i - 1]
    BY <1>1, <1>2, SubSeqProperties
  <1>4. Verified(w) = SubSeq(settled, 1, n)
    BY DEF Verified
  <1> HIDE DEF n
  <1>5. Len(Verified(w)) = n /\ \A i \in 1..n : Verified(w)[i] = settled[i]
    BY <1>1, <1>3, <1>4
  <1> QED BY <1>1, <1>2, <1>5 DEF n

\* The hash succeeded where the escrow was read, and nothing was paid there.
LEMMA RefundConfirmed ==
    ASSUME CancellationInv, NEW w \in Workers, reconcile[w].pc = "receipt",
           Succeeded(reconcile[w].hash, Verified(w)), ~Paid(Verified(w))
    PROVE  VoidedWithin(reconcile[w].safe, settled)
  <1> DEFINE n == reconcile[w].safe
             t == reconcile[w].hash
  <1>1. /\ n \in Nat /\ n <= Len(settled) /\ Len(Verified(w)) = n
        /\ \A i \in 1..n : Verified(w)[i] = settled[i] /\ settled[i] \in Mined
    BY VerifiedShape
  <1>2. t.action = Void /\ t \in Tx
    BY FlowShape DEF LocalAgrees, IsVoid
  <1>3. /\ t.nonce \in Nat /\ t.nonce < n
        /\ settled[t.nonce + 1].action = Void /\ settled[t.nonce + 1].ok
    <2>1. t.nonce \in Nat
      BY <1>2, OutboxAssumption DEF Tx
    <2>2. /\ t.nonce < n /\ Verified(w)[t.nonce + 1].action = Void
          /\ Verified(w)[t.nonce + 1].ok
      BY <1>1, <1>2 DEF Succeeded, IsMined
    <2>3. t.nonce + 1 \in 1..n
      BY <1>1, <2>1, <2>2
    <2>4. Verified(w)[t.nonce + 1] = settled[t.nonce + 1]
      BY <1>1, <2>3
    <2> QED BY <2>1, <2>2, <2>4, Zenon
  <1>4. t.nonce + 1 \in 1..n
    BY <1>1, <1>3
  <1>5. settled[t.nonce + 1] = Voided
    <2>1. settled[t.nonce + 1] \in Mined
      BY <1>1, <1>4
    <2>2. \A m \in Mined : m.action = Void /\ m.ok => m = Voided
      <3>1. ASSUME NEW m \in Mined
            PROVE  m = [action |-> m.action, ok |-> m.ok] /\ m.ok \in BOOLEAN
        <4>1. m = [action |-> m.action, ok |-> m.ok]
          BY Zenon DEF Mined
        <4>2. m.ok \in BOOLEAN
          BY Zenon DEF Mined
        <4> QED BY <4>1, <4>2
      <3>2. \A b \in BOOLEAN : b => b = TRUE
        OBVIOUS
      <3> QED BY <3>1, <3>2, Zenon DEF Voided
    <2> QED BY <1>3, <2>1, <2>2
  <1>6. ASSUME NEW i \in 1..n, Pays(settled[i])
        PROVE  FALSE
    <2>1. Verified(w)[i] = settled[i] /\ settled[i] \in Mined
      BY <1>1
    <2>2. settled[i] = [action |-> settled[i].action, ok |-> TRUE]
      <3>1. settled[i] = [action |-> settled[i].action, ok |-> settled[i].ok]
        BY <2>1, Zenon DEF Mined
      <3>2. settled[i].ok = TRUE
        <4>1. settled[i].ok \in BOOLEAN
          BY <2>1, Zenon DEF Mined
        <4> QED BY <1>6, <4>1 DEF Pays
      <3> QED BY <3>1, <3>2, Zenon
    <2>3. Executed(settled[i].action, Verified(w))
      BY <1>1, <2>1, <2>2 DEF Executed
    <2> QED BY <1>6, <2>3 DEF Pays, Paid
  <1> QED BY <1>1, <1>4, <1>5, <1>6 DEF VoidedWithin

LEMMA CheckReceiptStep ==
    ASSUME CancellationInv, [OutboxNext]_outboxVars, NEW w \in Workers, CheckReceipt(w)
    PROVE  CancellationInv'
  <1> DEFINE hash == reconcile[w].hash
             r == [reconcile[w] EXCEPT !.pc = "confirm"]
  <1>1. worker' = worker /\ UNCHANGED <<request, authorised>> /\ reconcile[w].pc = "receipt"
    BY DEF CheckReceipt, In
  <1>2. hash \in Tx \cup {NoTx} /\ IsVoid(hash)
    BY FlowShape
  <1>3. CASE \/ Report(w, "blocked", "released", hash) \/ Report(w, "blocked", "reverted", hash)
             \/ Report(w, "pending", "none", hash)
    BY <1>1, <1>2, <1>3, ReportStep DEF Causes
  <1>4. CASE /\ To(w, "confirm")
             /\ Succeeded(hash, Verified(w)) /\ ~Paid(Verified(w))
    <2>1. reconcile[w] \in Reconcile /\ LocalAgrees(reconcile[w], settled) /\ Proceed(w, r)
      BY <1>4, FlowShape DEF To
    <2>2. VoidedWithin(reconcile[w].safe, settled)
      BY <1>1, <1>4, RefundConfirmed
    <2>3. /\ r \in Reconcile /\ r.pc = "confirm" /\ r.hash = reconcile[w].hash
          /\ r.safe = reconcile[w].safe /\ r.changes = reconcile[w].changes
      BY <2>1, Zenon DEF Reconcile
    <2> HIDE DEF r
    <2>4. LocalAgrees(r, settled)
      BY <2>1, <2>2, <2>3 DEF LocalAgrees
    <2> QED BY <1>1, <2>1, <2>3, <2>4, FlowShape, QuietStep
  <1> QED BY <1>3, <1>4 DEF CheckReceipt

LEMMA ConfirmRequestStep ==
    ASSUME CancellationInv, [OutboxNext]_outboxVars, NEW w \in Workers, ConfirmRequest(w)
    PROVE  CancellationInv'
  <1>1. /\ Stop(w) /\ worker' = worker /\ authorised' = authorised
        /\ request' = [status |-> "complete", hash |-> reconcile[w].hash, cause |-> "none"]
        /\ reconcile[w].pc = "confirm"
    BY DEF ConfirmRequest, In
  <1>2. /\ LocalAgrees(reconcile[w], settled) /\ reconcile[w].hash \in Tx \cup {NoTx}
        /\ IsVoid(reconcile[w].hash) /\ reconcile[w].safe \in Nat
    BY FlowShape
  <1>3. request' \in Request
    BY <1>1, <1>2, Zenon DEF Request, Causes
  <1>4. RequestAgrees(request', settled)
    BY <1>1, <1>2 DEF LocalAgrees, RequestAgrees
  <1> QED BY <1>1, <1>3, <1>4, EndFlow

LEMMA AuthoriseStep ==
    ASSUME CancellationInv, [OutboxNext]_outboxVars, NEW w \in Workers, Authorise(w)
    PROVE  CancellationInv'
  <1> DEFINE r == [reconcile[w] EXCEPT !.pc = "submit"]
  <1>1. worker' = worker /\ UNCHANGED <<request, authorised>>
    BY DEF Authorise, outboxVars
  <1>2. CASE Report(w, "blocked", "unauthorised", NoTx) \/ Report(w, "blocked", "closed", NoTx)
    BY <1>1, <1>2, NoRequestAgrees, ReportStep DEF Causes
  <1>3. CASE To(w, "submit")
    <2>1. reconcile[w] \in Reconcile /\ LocalAgrees(reconcile[w], settled) /\ Proceed(w, r)
      BY <1>3, FlowShape DEF To
    <2>2. /\ r \in Reconcile /\ r.pc = "submit" /\ r.hash = reconcile[w].hash
          /\ r.safe = reconcile[w].safe /\ r.changes = reconcile[w].changes
      BY <2>1, Zenon DEF Reconcile
    <2> HIDE DEF r
    <2>3. LocalAgrees(r, settled)
      BY <2>1, <2>2 DEF LocalAgrees
    <2> QED BY <1>1, <2>1, <2>2, <2>3, FlowShape, QuietStep
  <1> QED BY <1>2, <1>3 DEF Authorise

LEMMA UpdateStep ==
    ASSUME CancellationInv, [OutboxNext]_outboxVars, NEW w \in Workers, UpdateRequest(w)
    PROVE  CancellationInv'
  <1> DEFINE changes == reconcile[w].changes
             hash == IF KeepsHash(changes) THEN request.hash ELSE changes.hash
             q == [changes EXCEPT !.hash = hash]
  <1>1. Stop(w) /\ worker' = worker /\ authorised' = authorised
    BY DEF UpdateRequest
  <1>2. request' \in {request, q}
    BY DEF UpdateRequest
  <1>3. /\ changes \in Request /\ LocalAgrees(reconcile[w], settled)
        /\ request.hash \in Tx \cup {NoTx} /\ IsVoid(request.hash)
        /\ request \in Request /\ RequestAgrees(request, settled)
    BY FlowShape
  <1>4. changes.hash \in Tx \cup {NoTx} /\ IsVoid(changes.hash) /\ changes.status # "complete"
    BY <1>3, Zenon DEF LocalAgrees, Request
  <1>5. hash \in Tx \cup {NoTx} /\ IsVoid(hash)
    BY <1>3, <1>4
  <1> HIDE DEF hash, changes
  <1>6. q \in Request /\ q.hash = hash /\ q.status = changes.status
    BY <1>3, <1>5, Zenon DEF Request
  <1> HIDE DEF q
  <1>7. RequestAgrees(q, settled)
    BY <1>4, <1>5, <1>6 DEF RequestAgrees
  <1> QED BY <1>1, <1>2, <1>3, <1>6, <1>7, EndFlow

-----------------------------------------------------------------------------
(* A step of the signer *)

\* One invocation of the signer moves, and none of the reconciliation.
LEMMA SignerOnly ==
    ASSUME CancellationInv, [OutboxNext]_outboxVars, NEW w \in Workers,
           \A u \in Workers \ {w} : worker'[u] = worker[u],
           reconcile[w].pc # "signing", UNCHANGED cancellationVars
    PROVE  CancellationInv'
  <1>1. request' = request /\ reconcile' = reconcile /\ authorised' = authorised
    BY DEF cancellationVars
  <1>2. SignsVoid'
    BY <1>1, FlowShape DEF SignsVoid
  <1> QED BY <1>1, <1>2, FlowShape, FlowStep

LEMMA OneMoves ==
    ASSUME OutboxTypeOK, NEW w \in Workers, NEW l, Goto(w, l)
    PROVE  worker'[w] = l /\ \A u \in Workers \ {w} : worker'[u] = worker[u]
  BY TxTypes DEF Goto

LEMMA ClaimMoves ==
    ASSUME OutboxTypeOK, NEW w \in Workers, NEW a, NEW eligible, Claim(w, a, eligible)
    PROVE  worker'[w].action = a /\ \A u \in Workers \ {w} : worker'[u] = worker[u]
  <1> DEFINE l == [Resting EXCEPT !.pc = "resume", !.action = a, !.previous = outbox.tx]
             m == [Resting EXCEPT !.pc = "prepare", !.action = a]
  <1>1. Goto(w, l) \/ Goto(w, m)
    BY DEF Claim, Acquire
  <1>2. l.action = a /\ m.action = a
    BY Zenon DEF Resting
  <1> HIDE DEF l, m
  <1> QED BY <1>1, <1>2, OneMoves

LEMMA CallStep ==
    ASSUME CancellationInv, [OutboxNext]_outboxVars, NEW w \in Workers,
           PaymentCall(w) \/ (StartSweep /\ w = Sweeper)
    PROVE  CancellationInv'
  <1>1. reconcile[w].pc # "signing" /\ UNCHANGED cancellationVars
    BY DEF PaymentCall, StartSweep, Free, In
  <1>2. \A u \in Workers \ {w} : worker'[u] = worker[u]
    <2>1. CASE PaymentCall(w)
      BY <2>1, FlowShape, ClaimMoves DEF PaymentCall
    <2>2. CASE StartSweep /\ w = Sweeper
      BY <2>2, FlowShape, OneMoves DEF StartSweep, StartResume
    <2> QED BY <2>1, <2>2
  <1> QED BY <1>1, <1>2, SignerOnly

LEMMA SubmitStep ==
    ASSUME CancellationInv, [OutboxNext]_outboxVars, NEW w \in Workers, SubmitVoid(w)
    PROVE  CancellationInv'
  <1> DEFINE r == [reconcile[w] EXCEPT !.pc = "signing"]
  <1>1. UNCHANGED <<request, authorised>>
    BY DEF SubmitVoid
  <1>2. CASE Claim(w, Void, TRUE) /\ To(w, "signing")
    <2>1. /\ reconcile[w] \in Reconcile /\ LocalAgrees(reconcile[w], settled) /\ Proceed(w, r)
          /\ reconcile \in [Workers -> Reconcile]
      BY <1>2, FlowShape DEF To
    <2>2. /\ r \in Reconcile /\ r.pc = "signing" /\ r.hash = reconcile[w].hash
          /\ r.safe = reconcile[w].safe /\ r.changes = reconcile[w].changes
      BY <2>1, Zenon DEF Reconcile
    <2> HIDE DEF r
    <2>3. LocalAgrees(r, settled)
      BY <2>1, <2>2 DEF LocalAgrees
    <2>4. worker'[w].action = Void /\ \A u \in Workers \ {w} : worker'[u] = worker[u]
      BY <1>2, FlowShape, ClaimMoves
    <2>5. SignsVoid'
      BY <2>1, <2>4, FlowShape DEF SignsVoid, Proceed
    <2> QED BY <1>1, <2>1, <2>2, <2>3, <2>5, FlowShape, FlowStep DEF Proceed
  <1>3. CASE Report(w, "queued", "none", NoTx) /\ UNCHANGED outboxVars
    <2>1. worker' = worker
      BY <1>3 DEF outboxVars
    <2> QED BY <1>1, <1>3, <2>1, NoRequestAgrees, ReportStep DEF Causes
  <1> QED BY <1>2, <1>3 DEF SubmitVoid

\* What the signer writes into the request names a void.
LEMMA RecordedAgrees ==
    ASSUME CancellationInv
    PROVE  Recorded \in Request /\ RequestAgrees(Recorded, settled)
  <1> DEFINE status == IF outbox'.lastOutcome = "replaced" THEN request.status ELSE "pending"
             q == [request EXCEPT !.hash = outbox.tx, !.status = status]
  <1>1. request \in Request /\ RequestAgrees(request, settled) /\ outbox.tx \in Tx \cup {NoTx}
    BY FlowShape, TxTypes
  <1>2. CASE outbox.tx.action = Void /\ ~Closed /\ Recorded = q
    <2>1. request.status \in {"none", "queued", "pending", "blocked", "complete"}
      BY <1>1, Zenon DEF Request
    <2>2. status \in {"none", "queued", "pending"}
      BY <1>2, <2>1 DEF Closed
    <2> HIDE DEF status
    <2>3. q \in Request /\ q.hash = outbox.tx /\ q.status = status
      BY <1>1, <2>2, Zenon DEF Request
    <2> HIDE DEF q
    <2>4. RequestAgrees(q, settled)
      BY <1>2, <2>2, <2>3 DEF RequestAgrees, IsVoid
    <2> QED BY <1>2, <2>3, <2>4
  <1> QED BY <1>1, <1>2 DEF Recorded

LEMMA ReturnedIsVoid ==
    ASSUME CancellationInv, NEW w \in Workers, reconcile[w].pc = "signing"
    PROVE  Returned(w) \in Tx \cup {NoTx} /\ IsVoid(Returned(w))
  <1>1. /\ outbox.tx \in Tx \cup {NoTx} /\ worker[w].tx \in Tx \cup {NoTx}
        /\ worker[w].previous \in Tx \cup {NoTx}
    BY FlowShape, TxTypes
  <1>2. outbox.lastTx \in Tx \cup {NoTx} /\ IsVoid(NoTx)
    BY KnownHashIsVoid, NoRequestAgrees
  <1>3. worker[w].pc = "send" => worker[w].tx.action = Void
    BY FlowShape DEF SignsVoid, OutboxInv, SignsItsAction
  <1>4. Returned(w) \in Tx \cup {NoTx}
    BY <1>1, <1>2 DEF Returned
  <1>5. IsVoid(Returned(w))
    BY <1>2, <1>3 DEF Returned, IsVoid, DoneMeanwhile
  <1> QED BY <1>4, <1>5

LEMMA SignerFlow ==
    ASSUME CancellationInv, [OutboxNext]_outboxVars, NEW w \in Workers, SignerStep(w)
    PROVE  CancellationInv'
  <1>1. /\ SignStep(w, TRUE) \/ ResumeStep(w)
        /\ request' = Recorded /\ authorised' = authorised
    BY DEF SignerStep
  <1>2. request' \in Request /\ RequestAgrees(request', settled)
    BY <1>1, RecordedAgrees
  <1>3. /\ worker'[w].pc # "idle" => worker'[w].action = worker[w].action
        /\ \A u \in Workers \ {w} : worker'[u] = worker[u]
    BY <1>1, FlowShape, ActionKept
  <1>4. reconcile \in [Workers -> Reconcile] /\ SignsVoid
    BY FlowShape
  <1>5. ASSUME NEW r \in Reconcile, LocalAgrees(r, settled), Proceed(w, r), r.pc # "signing"
        PROVE  CancellationInv'
    <2>1. reconcile' = [reconcile EXCEPT ![w] = r]
      BY <1>5 DEF Proceed
    <2>2. SignsVoid'
      BY <1>3, <1>4, <1>5, <2>1 DEF SignsVoid
    <2> QED BY <1>1, <1>2, <1>5, <2>1, <2>2, FlowShape, FlowStep
  <1>6. CASE reconcile[w].pc = "signing" /\ worker'[w].pc = "idle"
    <2>1. CASE Stop(w)
      <3>1. /\ Fresh("idle", NoTx) \in Reconcile /\ LocalAgrees(Fresh("idle", NoTx), settled)
            /\ Fresh("idle", NoTx).pc = "idle"
        BY FlowShape, FreshLocal, NoRequestAgrees
      <3> QED BY <1>5, <2>1, <3>1, InactiveIsFresh DEF Stop
    <2>2. ASSUME NEW status \in {"queued", "pending"},
                 Report(w, status, "none", Returned(w))
          PROVE  CancellationInv'
      <3>1. Returned(w) \in Tx \cup {NoTx} /\ IsVoid(Returned(w))
        BY <1>6, ReturnedIsVoid
      <3>2. PICK r \in Reconcile : LocalAgrees(r, settled) /\ r.pc = "update" /\ Proceed(w, r)
        BY <2>2, <3>1, FlowShape, ReportLocal DEF Causes
      <3> QED BY <1>5, <3>2
    <2>3. \/ Stop(w)
          \/ Report(w, IF Returned(w) = NoTx THEN "queued" ELSE "pending", "none", Returned(w))
      BY <1>6 DEF SignerStep, In
    <2> QED BY <2>1, <2>2, <2>3
  <1>7. CASE ~(reconcile[w].pc = "signing" /\ worker'[w].pc = "idle")
    <2>1. reconcile' = reconcile
      BY <1>7 DEF SignerStep, In
    <2>2. SignsVoid'
      BY <1>3, <1>4, <1>7, <2>1 DEF SignsVoid
    <2>3. reconcile[w] \in Reconcile /\ LocalAgrees(reconcile[w], settled)
      BY FlowShape
    <2> QED BY <1>1, <1>2, <2>1, <2>2, <2>3, FlowShape, FlowStep
  <1> QED BY <1>6, <1>7

\* An invocation that is refused, or killed.
LEMMA AbandonStep ==
    ASSUME CancellationInv, [OutboxNext]_outboxVars, NEW w \in Workers,
           RefuseToSign(w) \/ KillCall(w)
    PROVE  CancellationInv'
  <1>1. Rest(w) /\ Stop(w) /\ request' = request /\ authorised' = authorised
    BY DEF RefuseToSign, KillCall, GiveUp
  <1>2. /\ Fresh("idle", NoTx) \in Reconcile /\ LocalAgrees(Fresh("idle", NoTx), settled)
        /\ Fresh("idle", NoTx).pc = "idle"
    BY FlowShape, FreshLocal, NoRequestAgrees
  <1>3. reconcile' = [reconcile EXCEPT ![w] = Fresh("idle", NoTx)]
    BY <1>1, InactiveIsFresh DEF Stop, Proceed
  <1>4. \A u \in Workers \ {w} : worker'[u] = worker[u]
    BY <1>1, FlowShape, OneMoves DEF Rest
  <1>5. SignsVoid'
    BY <1>2, <1>3, <1>4, FlowShape DEF SignsVoid
  <1> QED BY <1>1, <1>2, <1>3, <1>5, FlowShape, FlowStep

\* The chain moves, a lease ends, the administrator loses authority.
LEMMA OutsideStep ==
    ASSUME CancellationInv, [OutboxNext]_outboxVars, Chains \/ LoseAuthority
    PROVE  CancellationInv'
  <1>1. UNCHANGED <<request, reconcile>> /\ authorised' \in BOOLEAN
    BY FlowShape DEF Chains, LoseAuthority, cancellationVars
  <1>2. \A u \in Workers : worker'[u].action = worker[u].action
    <2>1. CASE worker' = worker
      BY <2>1
    <2>2. CASE Reorganise
      <3> SUFFICES ASSUME NEW u \in Workers
                   PROVE  worker'[u].action = worker[u].action
        OBVIOUS
      <3>1. worker[u] \in Worker
        BY FlowShape, TxTypes
      <3>2. worker'[u] \in {worker[u], [worker[u] EXCEPT !.receipt = "orphaned"]}
        BY <2>2 DEF Reorganise
      <3> QED BY <3>1, <3>2, Zenon DEF Worker
    <2> QED BY <2>1, <2>2
            DEF Chains, LoseAuthority, ChainNext, EmptyBlock, SignOutside, Mine, LeaseExpires
  <1>3. SignsVoid'
    BY <1>1, <1>2, FlowShape DEF SignsVoid
  <1>4. reconcile[Sweeper] \in Reconcile /\ LocalAgrees(reconcile[Sweeper], settled)
    BY FlowShape, VoidIsAction
  <1> QED BY <1>1, <1>3, <1>4, FlowShape, FlowStep, VoidIsAction

-----------------------------------------------------------------------------
(* The invariant *)

LEMMA CancellationStart == CancellationInit => CancellationInv
  <1> SUFFICES ASSUME CancellationInit
               PROVE  CancellationInv
    OBVIOUS
  <1>1. OutboxInv /\ settled = <<>> /\ tip = <<>>
    BY OutboxStart DEF CancellationInit, OutboxInit
  <1>2. /\ OutboxTypeOK /\ request = NoRequest /\ authorised = TRUE
        /\ reconcile = [w \in Workers |-> Fresh("idle", NoTx)]
    BY <1>1, InactiveIsFresh DEF CancellationInit, OutboxInv
  <1>3. /\ Fresh("idle", NoTx) \in Reconcile /\ LocalAgrees(Fresh("idle", NoTx), settled)
        /\ Fresh("idle", NoTx).pc = "idle"
    BY <1>2, FreshLocal, NoRequestAgrees
  <1>4. CancellationTypeOK
    BY <1>2, <1>3, NoRequestAgrees DEF CancellationTypeOK
  <1>5. VoidIsFinal
    <2>1. Len(settled) = 0 /\ Len(tip) = 0
      BY <1>1, EmptySeq
    <2>2. Len(Chain) = 0
      BY <1>2, <2>1, ChainShape
    <2> QED BY <2>2 DEF VoidIsFinal
  <1>6. RequestAgrees(request, settled)
    BY <1>2, NoRequestAgrees DEF RequestAgrees
  <1>7. SignsVoid
    BY <1>2, <1>3 DEF SignsVoid
  <1> QED BY <1>1, <1>2, <1>3, <1>4, <1>5, <1>6, <1>7 DEF CancellationInv

LEMMA CancellationStep ==
    ASSUME CancellationInv, [Next]_vars
    PROVE  CancellationInv'
  <1>1. [OutboxNext]_outboxVars
    BY FlowShape, TakesOutboxSteps
  <1>2. CASE Chains \/ LoseAuthority
    BY <1>1, <1>2, OutsideStep
  <1>3. CASE StartSweep \/ TakeUp(Sweeper)
    BY <1>1, <1>3, CallStep, StartStep, VoidIsAction
  <1>4. ASSUME NEW w \in Workers, ReviewEscrow(w) \/ PaymentCall(w)
        PROVE  CancellationInv'
    BY <1>1, <1>4, CallStep, StartStep
  <1>5. ASSUME NEW w \in Workers, ReconcileStep(w)
        PROVE  CancellationInv'
    BY <1>1, <1>5, FileStep, StartStep, ReadEscrowStep, ReadSignerStep, CheckReceiptStep,
       ConfirmRequestStep, AuthoriseStep, SubmitStep, UpdateStep DEF ReconcileStep
  <1>6. ASSUME NEW w \in Workers, SignerStep(w) \/ RefuseToSign(w) \/ KillCall(w)
        PROVE  CancellationInv'
    BY <1>1, <1>6, SignerFlow, AbandonStep
  <1>7. CASE UNCHANGED vars
    <2>1. reconcile[Sweeper] \in Reconcile /\ LocalAgrees(reconcile[Sweeper], settled)
      BY FlowShape, VoidIsAction
    <2>2. UNCHANGED <<request, reconcile, authorised, worker>>
      BY <1>7 DEF vars, outboxVars, cancellationVars
    <2>3. SignsVoid'
      BY <2>2, FlowShape DEF SignsVoid
    <2> QED BY <1>1, <2>1, <2>2, <2>3, FlowShape, FlowStep, VoidIsAction
  <1> QED BY <1>2, <1>3, <1>4, <1>5, <1>6, <1>7, VoidIsAction DEF Next

LEMMA CancellationKept == Spec => []CancellationInv
  BY CancellationStart, CancellationStep, PTL DEF Spec

-----------------------------------------------------------------------------

\* Whatever the sweep and the members' calls do at the same time, the outbox, the
\* request and every invocation's variables keep to the values the code gives them.
THEOREM CancellationTypeCorrect == Spec => []CancellationTypeOK
  BY CancellationKept, PTL DEF CancellationInv

\* Exactly one signed transaction of the platform is outstanding: whatever the
\* network received and could still execute is what the outbox holds.
THEOREM NeverTwoOutstanding == Spec => []OneOutstanding
  <1>1. CancellationInv => OneOutstanding
    BY DEF CancellationInv, OutboxInv, Outstanding, OneOutstanding
  <1> QED BY <1>1, CancellationKept, PTL

\* A payment or a void that was executed is not signed again by an invocation that
\* prepared it earlier, however late it comes to persist what it signed.
THEOREM SignedOnceOnly == Spec => NeverSignedAgain
  <1>1. CancellationInv /\ [Next]_vars =>
            [outbox.tx = NoTx /\ outbox'.tx # NoTx /\ outbox'.action \in OneTime =>
                ~Executed(outbox'.action, settled)]_vars
    <2> SUFFICES ASSUME CancellationInv, [Next]_vars, outbox.tx = NoTx, outbox'.tx # NoTx,
                        outbox'.action \in OneTime
                 PROVE  ~Executed(outbox'.action, settled)
      OBVIOUS
    <2> QED BY FlowShape, TakesOutboxSteps, SignedIsFresh
  <1> QED BY <1>1, CancellationKept, PTL DEF Spec, NeverSignedAgain

\* A request that the code declares complete is a full refund: the escrow is voided
\* in a block that stays, and nothing was paid from it before or since.
THEOREM CompletedRefundIsFull == Spec => []CompleteMeansFullRefund
  <1>1. ASSUME CancellationInv
        PROVE  CompleteMeansFullRefund
    <2> SUFFICES ASSUME request.status = "complete"
                 PROVE  Executed(Void, settled) /\ ~Paid(Chain)
      BY DEF CompleteMeansFullRefund
    <2>1. PICK n \in Nat : VoidedWithin(n, settled)
      BY <1>1, FlowShape DEF RequestAgrees
    <2>2. PICK i \in 1..n : settled[i] = Voided
      BY <2>1 DEF VoidedWithin
    <2>3. /\ Extends(Chain, settled) /\ Len(settled) \in Nat /\ Len(Chain) \in Nat
          /\ n <= Len(settled)
      BY <1>1, <2>1, FlowShape, ChainShape DEF VoidedWithin
    <2>4. i \in 1..Len(settled) /\ i \in 1..Len(Chain) /\ Chain[i] = Voided
      BY <2>2, <2>3 DEF Extends
    <2>5. Executed(Void, settled)
      BY <2>2, <2>4 DEF Executed, Voided
    <2>6. ASSUME NEW j \in 1..Len(Chain), Pays(Chain[j])
          PROVE  FALSE
      <3>1. CASE i < j
        BY <1>1, <2>4, <2>6, <3>1 DEF CancellationInv, VoidIsFinal
      <3>2. CASE j <= i
        <4>1. j \in 1..n /\ j \in 1..Len(settled)
          BY <2>3, <3>2
        <4>2. Chain[j] = settled[j]
          BY <2>3, <4>1 DEF Extends
        <4> QED BY <2>1, <2>6, <4>1, <4>2 DEF VoidedWithin
      <3> QED BY <3>1, <3>2
    <2>7. ~Paid(Chain)
      <3> SUFFICES ASSUME NEW p \in Payments, Executed(p, Chain)
                   PROVE  FALSE
        BY DEF Paid
      <3>1. PICK j \in 1..Len(Chain) : Chain[j] = [action |-> p, ok |-> TRUE]
        BY DEF Executed
      <3>2. Pays(Chain[j])
        BY <3>1 DEF Pays
      <3> QED BY <2>6, <3>2
    <2> QED BY <2>5, <2>7
  <1> QED BY <1>1, CancellationKept, PTL

-----------------------------------------------------------------------------
(* Payments while a request is active                                        *)

\* Who works on a request finds one that is neither unfiled nor blocked.
Attended(r, q) ==
    /\ r.pc \notin {"idle", "file", "job"} => q.status \notin {"none", "blocked"}
    /\ r.pc = "update" => r.changes.status \in {"queued", "pending", "blocked"}

RequestHeld ==
    /\ cancelling <=> Waiting
    /\ \A w \in Workers : Attended(reconcile[w], request)

NoPaymentHeld == cancelling => outbox.tx.action \notin Payments

\* A payment is stored as signed only while nothing is being cancelled.
LEMMA NoPaymentEnters ==
    ASSUME OutboxInv, [OutboxNext]_outboxVars, cancelling, outbox.tx.action \notin Payments
    PROVE  outbox'.tx.action \notin Payments
  <1>1. NoTx.action \notin Payments
    BY OutboxAssumption DEF NoTx
  <1>2. CASE outbox'.tx # NoTx /\ outbox'.tx # outbox.tx
    <2>1. PICK w \in Workers, eligible \in BOOLEAN : Persist(w, eligible)
      BY <1>2, OnlyPersistSigns
    <2>2. outbox'.tx = worker[w].tx
      BY <2>1 DEF Persist, Idle
    <2>3. worker[w].pc = "persist" /\ worker[w].action \notin Payments
      BY <2>1 DEF Persist, MayPersist, At
    <2>4. worker[w].tx.action = worker[w].action
      BY <2>3 DEF OutboxInv, SignsItsAction
    <2> QED BY <2>2, <2>3, <2>4
  <1> QED BY <1>1, <1>2

\* The invocation w goes on with r, and the others find the request as it was, or
\* active or complete.
LEMMA HeldBy ==
    ASSUME CancellationInv, RequestHeld, NEW w \in Workers, NEW r,
           reconcile' = [reconcile EXCEPT ![w] = r], Attended(r, request'),
           request'.status \in {request.status, "queued", "pending", "complete"},
           cancelling' <=> Waiting'
    PROVE  RequestHeld'
  <1>1. \A u \in Workers : reconcile'[u] = IF u = w THEN r ELSE reconcile[u]
    BY FlowShape
  <1>2. \A u \in Workers : Attended(reconcile'[u], request')
    BY <1>1 DEF RequestHeld, Attended
  <1> QED BY <1>2 DEF RequestHeld

\* The request and its mark stay as they are.
LEMMA HeldLocally ==
    ASSUME CancellationInv, RequestHeld, NEW w \in Workers, NEW r, Proceed(w, r),
           Attended(r, request), request' = request, cancelling' = cancelling
    PROVE  RequestHeld'
  <1>1. cancelling' <=> Waiting'
    BY DEF RequestHeld, Waiting
  <1> QED BY <1>1, HeldBy DEF Proceed

LEMMA StopAttended ==
    ASSUME NEW q
    PROVE  Attended(Inactive, q)
  BY DEF Attended, Inactive

LEMMA ToAttended ==
    ASSUME NEW w \in Workers, reconcile[w] \in Reconcile, NEW q,
           NEW pc, pc # "update",
           pc \notin {"idle", "file", "job"} => q.status \notin {"none", "blocked"}
    PROVE  Attended([reconcile[w] EXCEPT !.pc = pc], q)
  <1>1. [reconcile[w] EXCEPT !.pc = pc].pc = pc
    BY Zenon DEF Reconcile
  <1> QED BY <1>1 DEF Attended

LEMMA FreshAttended ==
    ASSUME NEW hash, NEW pc, NEW q, pc # "update",
           pc \notin {"idle", "file", "job"} => q.status \notin {"none", "blocked"}
    PROVE  Attended(Fresh(pc, hash), q)
  <1>1. Fresh(pc, hash).pc = pc
    BY Zenon DEF Fresh, Inactive
  <1> QED BY <1>1 DEF Attended

LEMMA ReportHeld ==
    ASSUME CancellationInv, RequestHeld, NEW w \in Workers, Underway(w),
           NEW status \in {"queued", "pending", "blocked"}, NEW cause, NEW hash,
           Report(w, status, cause, hash),
           request'.status \in {request.status, "queued", "pending", "complete"},
           request.status \notin {"none", "blocked"} => request'.status \notin {"none", "blocked"},
           cancelling' <=> Waiting'
    PROVE  RequestHeld'
  <1> DEFINE q == [status |-> status, hash |-> hash, cause |-> cause]
             r == [Inactive EXCEPT !.pc = "update", !.changes = q]
  <1>1. reconcile' = [reconcile EXCEPT ![w] = r]
    BY DEF Report, Proceed
  <1>2. r.pc = "update" /\ r.changes.status = status
    BY DEF Inactive
  <1> HIDE DEF r
  <1>3. request.status \notin {"none", "blocked"}
    BY DEF RequestHeld, Attended, Underway
  <1>4. Attended(r, request')
    BY <1>2, <1>3 DEF Attended
  <1> QED BY <1>1, <1>4, HeldBy

\* Filing, and what follows from it without a change of the request.
LEMMA LocalHeld ==
    ASSUME CancellationInv, RequestHeld, NEW w \in Workers,
           \/ ReviewEscrow(w) \/ TakeUp(w) \/ ReadRequest(w) \/ ReadEscrow(w)
           \/ ReadSigner(w) \/ CheckReceipt(w) \/ Authorise(w) \/ SubmitVoid(w)
           \/ RefuseToSign(w) \/ KillCall(w)
    PROVE  RequestHeld' /\ cancelling' = cancelling
  <1>1. request' = request /\ cancelling' = cancelling
    BY DEF ReviewEscrow, TakeUp, ReadRequest, ReadEscrow, ReadSigner, CheckReceipt, Authorise,
       SubmitVoid, RefuseToSign, KillCall, Claim, GiveUp, outboxVars
  <1>2. /\ reconcile[w] \in Reconcile /\ Attended(reconcile[w], request)
        /\ cancelling' <=> Waiting'
    BY <1>1, FlowShape DEF RequestHeld, Waiting
  <1>3. ASSUME NEW status \in {"queued", "pending", "blocked"}, NEW cause, NEW hash,
               Report(w, status, cause, hash), Underway(w)
        PROVE  RequestHeld'
    BY <1>1, <1>2, <1>3, ReportHeld
  <1>4. ASSUME NEW pc, To(w, pc), pc # "update", pc = "file" \/ Underway(w)
        PROVE  RequestHeld'
    <2>1. Attended([reconcile[w] EXCEPT !.pc = pc], request)
      BY <1>2, <1>4, ToAttended DEF Attended, Underway
    <2> QED BY <1>1, <1>4, <2>1, HeldLocally DEF To
  <1>5. CASE ReviewEscrow(w)
    <2>1. To(w, "file")
      BY <1>5 DEF ReviewEscrow
    <2> QED BY <1>1, <1>4, <2>1
  <1>6. CASE TakeUp(w) \/ ReadRequest(w)
    <2>1. CASE Waiting /\ Begin(w)
      <3>1. Proceed(w, Fresh("escrow", request.hash))
        BY <2>1 DEF Begin, Fresh
      <3>2. request.status \notin {"none", "blocked"}
        BY <2>1 DEF Waiting
      <3> QED BY <1>1, <3>1, <3>2, FreshAttended, HeldLocally
    <2>2. CASE Stop(w)
      BY <1>1, <2>2, StopAttended, HeldLocally DEF Stop
    <2> QED BY <1>1, <1>6, <2>1, <2>2 DEF TakeUp, ReadRequest
  <1>7. CASE ReadEscrow(w)
    <2> DEFINE r == [reconcile[w] EXCEPT !.pc = "outbox", !.safe = Len(settled)]
    <2>1. r.pc = "outbox" /\ Proceed(w, r)
      BY <1>2, <1>7, Zenon DEF Reconcile, ReadEscrow
    <2>2. reconcile[w].pc = "escrow"
      BY <1>7 DEF ReadEscrow, In
    <2> HIDE DEF r
    <2>3. Attended(r, request)
      BY <1>2, <2>1, <2>2 DEF Attended
    <2> QED BY <1>1, <2>1, <2>3, HeldLocally
  <1>8. CASE ReadSigner(w)
    <2> DEFINE hash == KnownHash(w)
               pc == IF hash # NoTx THEN "receipt" ELSE "authorise"
               r == [reconcile[w] EXCEPT !.hash = hash, !.pc = pc]
    <2>1. reconcile[w].pc = "outbox" /\ Underway(w)
      BY <1>8 DEF ReadSigner, In, Underway
    <2>2. CASE Proceed(w, r)
      <3>1. r.pc = pc
        BY <1>2, Zenon DEF Reconcile
      <3>2. pc \in {"receipt", "authorise"}
        OBVIOUS
      <3> HIDE DEF r, pc, hash
      <3>3. Attended(r, request)
        BY <1>2, <2>1, <3>1, <3>2 DEF Attended
      <3> QED BY <1>1, <2>2, <3>3, HeldLocally
    <2>3. ASSUME NEW cause, NEW h, Report(w, "blocked", cause, h)  PROVE RequestHeld'
      BY <1>3, <2>1, <2>3
    <2>4. \/ Proceed(w, r)
          \/ Report(w, "blocked", "replaced", IF hash # NoTx THEN hash ELSE outbox.lastTx)
      BY <1>8 DEF ReadSigner
    <2> HIDE DEF r, hash
    <2> QED BY <1>1, <2>2, <2>3, <2>4
  <1>9. CASE CheckReceipt(w)
    <2>1. Underway(w)
      BY <1>9 DEF CheckReceipt, In, Underway
    <2> QED BY <1>3, <1>4, <1>9, <2>1 DEF CheckReceipt
  <1>10. CASE Authorise(w)
    <2>1. Underway(w)
      BY <1>10 DEF Authorise, In, Underway
    <2>2. ASSUME NEW cause, Report(w, "blocked", cause, NoTx)  PROVE RequestHeld'
      BY <1>3, <2>1, <2>2
    <2>3. ASSUME To(w, "submit")  PROVE RequestHeld'
      BY <1>4, <2>1, <2>3
    <2>4. \/ Report(w, "blocked", "unauthorised", NoTx)
          \/ Report(w, "blocked", "closed", NoTx)
          \/ To(w, "submit")
      BY <1>10 DEF Authorise
    <2> QED BY <1>1, <2>2, <2>3, <2>4
  <1>11. CASE SubmitVoid(w)
    <2>1. Underway(w)
      BY <1>11 DEF SubmitVoid, In, Underway
    <2>2. ASSUME Report(w, "queued", "none", NoTx)  PROVE RequestHeld'
      BY <1>3, <2>1, <2>2
    <2>3. ASSUME To(w, "signing")  PROVE RequestHeld'
      BY <1>4, <2>1, <2>3
    <2>4. Report(w, "queued", "none", NoTx) \/ To(w, "signing")
      BY <1>11 DEF SubmitVoid
    <2> QED BY <1>1, <2>2, <2>3, <2>4
  <1>12. CASE RefuseToSign(w) \/ KillCall(w)
    BY <1>1, <1>12, StopAttended, HeldLocally DEF RefuseToSign, KillCall, Stop
  <1> QED BY <1>1, <1>5, <1>6, <1>7, <1>8, <1>9, <1>10, <1>11, <1>12

\* A cancellation becomes active only when it is filed.
Activates == cancelling' => cancelling \/ (CanStartCancellation /\ outbox' = outbox)

LEMMA FileHeld ==
    ASSUME CancellationInv, RequestHeld, NEW w \in Workers, FileRequest(w)
    PROVE  RequestHeld' /\ Activates
  <1>1. CASE Stop(w) /\ UNCHANGED <<request, cancelling>>
    BY <1>1, StopAttended, HeldLocally DEF Stop, Activates
  <1>2. CASE To(w, "job")
    <2>1. PICK r \in Reconcile : r.pc = "job" /\ Proceed(w, r)
      BY <1>2, ToLocal
    <2>2. \A q : Attended(r, q)
      BY <2>1 DEF Attended
    <2>3. CASE UNCHANGED <<request, cancelling>>
      BY <2>1, <2>2, <2>3, HeldLocally DEF Activates
    <2>4. CASE /\ CanStartCancellation
               /\ request' = [NoRequest EXCEPT !.status = "queued"]
               /\ cancelling' = TRUE
      <3>1. request'.status = "queued"
        BY <2>4 DEF NoRequest
      <3>2. RequestHeld'
        BY <2>1, <2>2, <2>4, <3>1, HeldBy DEF Proceed, Waiting
      <3>3. outbox' = outbox
        BY DEF FileRequest
      <3> QED BY <2>4, <3>2, <3>3 DEF Activates
    <2>5. RequestHeld' /\ Activates
      <3>1. \/ UNCHANGED <<request, cancelling>>
            \/ /\ CanStartCancellation
               /\ request' = [NoRequest EXCEPT !.status = "queued"]
               /\ cancelling' = TRUE
        BY DEF FileRequest
      <3> QED BY <2>3, <2>4, <3>1
    <2> QED BY <2>5
  <1> QED BY <1>1, <1>2 DEF FileRequest

LEMMA ConfirmHeld ==
    ASSUME CancellationInv, RequestHeld, NEW w \in Workers, ConfirmRequest(w)
    PROVE  RequestHeld' /\ Activates
  <1>1. Stop(w) /\ request'.status = "complete" /\ cancelling' = FALSE
    BY DEF ConfirmRequest
  <1> QED BY <1>1, StopAttended, HeldBy DEF Stop, Proceed, Waiting, Activates

\* What a reconciliation writes at last: over an active request, or over a complete one
\* and then nothing.  If it blocks the request, nobody else is under way.
LEMMA UpdateHeld ==
    ASSUME CancellationInv, RequestHeld, NobodyIsOvertaken, NEW w \in Workers, UpdateRequest(w)
    PROVE  RequestHeld' /\ Activates
  <1> DEFINE changes == reconcile[w].changes
             hash == IF KeepsHash(changes) THEN request.hash ELSE changes.hash
             q == [changes EXCEPT !.hash = hash]
  <1>1. Stop(w) /\ reconcile[w].pc = "update" /\ Underway(w)
    BY DEF UpdateRequest, In, Underway
  <1>2. /\ request.status \notin {"none", "blocked"}
        /\ changes.status \in {"queued", "pending", "blocked"} /\ changes \in Request
        /\ cancelling <=> Waiting
        /\ request.status \in {"none", "queued", "pending", "blocked", "complete"}
    <2>1. request.status \in {"none", "queued", "pending", "blocked", "complete"}
      BY FlowShape, Zenon DEF Request
    <2> QED BY <1>1, <2>1, FlowShape DEF RequestHeld, Attended
  <1>3. CASE request.status = "complete"
    BY <1>1, <1>2, <1>3, StopAttended, HeldLocally DEF UpdateRequest, Stop, Activates
  <1>4. CASE request.status # "complete"
    <2>1. request' = q /\ cancelling' = (changes.status \in {"queued", "pending"})
      BY <1>4 DEF UpdateRequest
    <2>2. q.status = changes.status
      BY <1>2, Zenon DEF Request
    <2> HIDE DEF q, changes
    <2>3. cancelling' <=> Waiting'
      BY <2>1, <2>2 DEF Waiting
    <2>4. Activates
      BY <1>2, <1>4 DEF Waiting, Activates
    <2>5. CASE changes.status \in {"queued", "pending"}
      BY <1>1, <2>1, <2>2, <2>3, <2>4, <2>5, StopAttended, HeldBy DEF Stop, Proceed
    <2>6. CASE changes.status = "blocked"
      <3>1. \A u \in Workers : Underway(u) => u = w
        BY <1>1, <1>2, <2>1, <2>2, <2>6 DEF NobodyIsOvertaken
      <3>2. \A u \in Workers : reconcile'[u] = IF u = w THEN Inactive ELSE reconcile[u]
        BY <1>1, FlowShape DEF Stop, Proceed
      <3>3. \A u \in Workers : Attended(reconcile'[u], request')
        BY <3>1, <3>2, StopAttended DEF Attended, Underway
      <3> QED BY <2>3, <2>4, <3>3 DEF RequestHeld
    <2> QED BY <1>2, <2>5, <2>6
  <1> QED BY <1>3, <1>4

LEMMA SignerHeld ==
    ASSUME CancellationInv, RequestHeld, NEW w \in Workers, SignerStep(w)
    PROVE  RequestHeld' /\ cancelling' = cancelling
  <1>1. cancelling' = cancelling
    BY DEF SignerStep, SignStep, ResumeStep, Reclaim, Prepare, FailToPrepare, Persist,
       FailToPersist, Send, GiveUp, ReadOutbox, ReadReceipt, Confirm, Replace, Rebroadcast
  <1>2. /\ request'.status \in {request.status, "pending"}
        /\ request'.status = request.status \/ Waiting
    <2> DEFINE status == IF outbox'.lastOutcome = "replaced" THEN request.status ELSE "pending"
               q == [request EXCEPT !.hash = outbox.tx, !.status = status]
    <2>1. request' = request \/ (request' = q /\ ~Closed /\ request.status # "none")
      BY DEF SignerStep, Recorded
    <2>2. request.status \in {"none", "queued", "pending", "blocked", "complete"}
      BY FlowShape, Zenon DEF Request
    <2>3. status \in {request.status, "pending"}
      OBVIOUS
    <2> HIDE DEF status
    <2>4. q.status = status
      BY FlowShape, Zenon DEF Request
    <2> HIDE DEF q
    <2> QED BY <2>1, <2>2, <2>3, <2>4 DEF Closed, Waiting
  <1>3. cancelling' <=> Waiting'
    BY <1>1, <1>2 DEF RequestHeld, Waiting
  <1>4. Attended(reconcile[w], request) /\ reconcile \in [Workers -> Reconcile]
    BY FlowShape DEF RequestHeld
  <1>5. CASE reconcile' = reconcile
    <2>1. reconcile' = [reconcile EXCEPT ![w] = reconcile[w]]
      BY <1>4, <1>5
    <2>2. Attended(reconcile[w], request')
      BY <1>2, <1>4 DEF Attended
    <2> QED BY <1>1, <1>2, <1>3, <2>1, <2>2, HeldBy
  <1>6. CASE Stop(w)
    BY <1>1, <1>2, <1>3, <1>6, StopAttended, HeldBy DEF Stop, Proceed
  <1>7. ASSUME In(w, "signing"), NEW status \in {"queued", "pending"},
               Report(w, status, "none", Returned(w))
        PROVE  RequestHeld'
    <2>1. Underway(w)
      BY <1>7 DEF In, Underway
    <2>2. request.status \notin {"none", "blocked"} => request'.status \notin {"none", "blocked"}
      BY <1>2
    <2> HIDE DEF Report
    <2> QED BY <1>2, <1>3, <1>7, <2>1, <2>2, ReportHeld
  <1> QED BY <1>1, <1>5, <1>6, <1>7 DEF SignerStep

LEMMA RequestHeldStep ==
    ASSUME CancellationInv, RequestHeld, [Next]_vars, [NobodyIsOvertaken]_vars
    PROVE  RequestHeld' /\ Activates
  <1>1. CASE UNCHANGED cancellationVars /\ cancelling' = cancelling
    BY <1>1 DEF cancellationVars, RequestHeld, Waiting, Activates
  <1>2. CASE Chains \/ StartSweep
    BY <1>1, <1>2 DEF Chains, ChainNext, EmptyBlock, Reorganise, SignOutside, Mine, LeaseExpires,
       StartSweep, StartResume
  <1>3. CASE LoseAuthority
    BY <1>3 DEF LoseAuthority, RequestHeld, Waiting, Activates
  <1>4. CASE TakeUp(Sweeper)
    BY <1>4, LocalHeld, VoidIsAction DEF Activates
  <1>5. ASSUME NEW w \in Workers, ReviewEscrow(w) \/ PaymentCall(w)
        PROVE  RequestHeld' /\ Activates
    <2>1. CASE PaymentCall(w)
      BY <1>1, <2>1 DEF PaymentCall, Claim
    <2> QED BY <1>5, <2>1, LocalHeld DEF Activates
  <1>6. ASSUME NEW w \in Workers, ReconcileStep(w), NobodyIsOvertaken
        PROVE  RequestHeld' /\ Activates
    BY <1>6, LocalHeld, FileHeld, ConfirmHeld, UpdateHeld DEF ReconcileStep, Activates
  <1>7. ASSUME NEW w \in Workers, SignerStep(w) \/ RefuseToSign(w) \/ KillCall(w)
        PROVE  RequestHeld' /\ Activates
    BY <1>7, SignerHeld, LocalHeld DEF Activates
  <1>8. CASE UNCHANGED vars
    BY <1>1, <1>8 DEF vars, outboxVars
  <1> QED BY <1>2, <1>3, <1>4, <1>5, <1>6, <1>7, <1>8, VoidIsAction DEF Next

\* While a cancellation is active no payment of its escrow is stored as signed or can
\* still be executed, if no reconciliation blocks the request while another one is
\* under way (startEscrowAdminCancellation, updateJob and the claim of the signer).
THEOREM PaymentsExcluded ==
    Spec /\ [][NobodyIsOvertaken]_vars => []CancellationExcludesPayment
  <1> DEFINE Inv == CancellationInv /\ RequestHeld /\ NoPaymentHeld
  <1>1. CancellationInit => Inv
    <2> SUFFICES ASSUME CancellationInit
                 PROVE  RequestHeld /\ NoPaymentHeld
      BY CancellationStart
    <2>1. /\ cancelling = FALSE /\ request.status = "none"
          /\ \A w \in Workers : reconcile[w] = Inactive
      BY DEF CancellationInit, OutboxInit, NoRequest
    <2> QED BY <2>1, StopAttended DEF RequestHeld, NoPaymentHeld, Waiting
  <1>2. Inv /\ [Next]_vars /\ [NobodyIsOvertaken]_vars => Inv'
    <2> SUFFICES ASSUME Inv, [Next]_vars, [NobodyIsOvertaken]_vars
                 PROVE  Inv'
      OBVIOUS
    <2>1. CancellationInv' /\ RequestHeld' /\ Activates
      BY CancellationStep, RequestHeldStep
    <2>2. OutboxInv /\ [OutboxNext]_outboxVars
      BY FlowShape, TakesOutboxSteps
    <2>3. CASE cancelling
      BY <2>1, <2>2, <2>3, NoPaymentEnters DEF NoPaymentHeld
    <2>4. CASE ~cancelling /\ cancelling'
      <3>1. CanStartCancellation /\ outbox' = outbox
        BY <2>1, <2>4 DEF Activates
      <3>2. NoTx.action \notin Payments
        BY OutboxAssumption DEF NoTx
      <3>3. outbox.tx.action \notin Payments
        BY <2>2, <3>1, <3>2 DEF CanStartCancellation, OutboxInv, OutboxActionMatches
      <3> QED BY <2>1, <3>1, <3>3 DEF NoPaymentHeld
    <2> QED BY <2>1, <2>3, <2>4 DEF NoPaymentHeld
  <1>3. Inv => CancellationExcludesPayment
    <2> SUFFICES ASSUME Inv, cancelling
                 PROVE  /\ outbox.tx.action \notin Payments
                        /\ \A t \in broadcast : t.action \in Payments => t.nonce < Len(settled)
      BY DEF CancellationExcludesPayment
    <2>1. OutboxInv /\ OutboxTypeOK /\ outbox.tx.action \notin Payments
      BY FlowShape DEF NoPaymentHeld
    <2>2. ASSUME NEW t \in broadcast, t.action \in Payments
          PROVE  t.nonce < Len(settled)
      <3>1. t.nonce \in Nat /\ Len(settled) \in Nat /\ t.action # Outside
        BY <2>1, <2>2, TxTypes, ChainShape, OutboxAssumption DEF Tx
      <3>2. ~(t.nonce >= Len(settled))
        BY <2>1, <2>2, <3>1 DEF OutboxInv, Outstanding
      <3> QED BY <3>1, <3>2
    <2> QED BY <2>1, <2>2
  <1> HIDE DEF Inv
  <1> QED BY <1>1, <1>2, <1>3, PTL DEF Spec

-----------------------------------------------------------------------------
(* The pause mirror *)

Mirror == {Pause, Unpause}

\* Only the sweep asks for a pause or a restoration, and an invocation that ended
\* asks for nothing.
SignsAlone ==
    \A w \in Workers : worker[w].action \in Mirror =>
        w = Sweeper /\ sweep.pc = "signing" /\ worker[w].pc # "idle"

\* What the newest block carries was sent, with the nonce of its place.
TipWasSent ==
    tip # <<>> /\ tip[1].action # Outside =>
        [action |-> tip[1].action, nonce |-> Len(settled)] \in broadcast

\* What the sweep read of the posting is the present state, unless a trigger has run
\* or will run since.
SweepKnows ==
    /\ sweep.revision <= job.revision
    /\ sweep.pc \in {"chain", "complete", "submit"}
       /\ job.revision = sweep.revision /\ triggers = 0 => sweep.desired = desired

\* What it read of the chain is there still, unless the outbox changes it.
SweepCompares ==
    sweep.pc = "complete" =>
        PausedBy(Chain) = sweep.desired \/ outbox.tx.action \in Mirror

\* A completed job rests: nobody is about to change what it mirrors.
CompletedRests ==
    job.status = "complete" =>
        /\ sweep.pc = "idle" /\ outbox.tx.action \notin Mirror
        /\ triggers = 0 => PausedBy(Chain) = desired

\* A trigger that has not run was set off by an edit.
TriggersAreEdits == triggers <= edits

PauseInv ==
    /\ PauseTypeOK /\ OutboxInv /\ TriggersAreEdits
    /\ SignsAlone /\ TipWasSent /\ SweepKnows /\ SweepCompares /\ CompletedRests

-----------------------------------------------------------------------------

LEMMA MirrorIsApart ==
    /\ Mirror \subseteq Actions /\ Outside \notin Mirror /\ None \notin Mirror
    /\ NoTx.action \notin Mirror /\ Resting.action \notin Mirror /\ Resting.pc = "idle"
    /\ MaxEdits \in Nat /\ Sweeper \in Workers
    /\ \A b \in BOOLEAN : PauseAction(b) \in Mirror
  BY PauseAssumption, OutboxAssumption DEF Mirror, NoTx, Resting, PauseAction

\* A transaction that neither pauses nor restores changes nothing.
LEMMA OthersDoNotPause ==
    ASSUME NEW longer, NEW shorter, Extends(longer, shorter),
           Len(longer) \in Nat, Len(shorter) \in Nat, Len(longer) <= Len(shorter) + 1,
           Len(longer) > Len(shorter) => longer[Len(longer)].action \notin Mirror
    PROVE  PausedBy(longer) = PausedBy(shorter)
  <1>1. \A i \in 1..Len(shorter) : i \in 1..Len(longer) /\ longer[i] = shorter[i]
    BY DEF Extends
  <1>2. \A i \in 1..Len(longer) :
            longer[i].action \in Mirror => i \in 1..Len(shorter)
    BY <1>1
  <1>3. ASSUME PausedBy(shorter) PROVE PausedBy(longer)
    <2>1. PICK i \in 1..Len(shorter) :
             /\ shorter[i].action = Pause
             /\ \A j \in (i + 1)..Len(shorter) : shorter[j].action # Unpause
      BY <1>3 DEF PausedBy
    <2>2. \A j \in (i + 1)..Len(longer) : longer[j].action # Unpause
      <3> SUFFICES ASSUME NEW j \in (i + 1)..Len(longer), longer[j].action = Unpause
                   PROVE  FALSE
        OBVIOUS
      <3>1. j \in 1..Len(longer) /\ i \in Nat
        OBVIOUS
      <3>2. j \in 1..Len(shorter)
        BY <3>1, <1>2 DEF Mirror
      <3> QED BY <3>1, <3>2, <2>1, <1>1
    <2> QED BY <2>1, <2>2, <1>1 DEF PausedBy
  <1>4. ASSUME PausedBy(longer) PROVE PausedBy(shorter)
    <2>1. PICK i \in 1..Len(longer) :
             /\ longer[i].action = Pause
             /\ \A j \in (i + 1)..Len(longer) : longer[j].action # Unpause
      BY <1>4 DEF PausedBy
    <2>2. i \in 1..Len(shorter)
      BY <2>1, <1>2 DEF Mirror
    <2>3. \A j \in (i + 1)..Len(shorter) : shorter[j].action # Unpause
      BY <2>1, <2>2, <1>1
    <2> QED BY <2>1, <2>2, <2>3, <1>1 DEF PausedBy
  <1>5. PausedBy(longer) \in BOOLEAN /\ PausedBy(shorter) \in BOOLEAN
    BY DEF PausedBy
  <1> QED BY <1>3, <1>4, <1>5

\* While the outbox holds no pause or restoration, no step of the chain changes what
\* the registry shows.
LEMMA PauseIsOutstanding ==
    ASSUME OutboxInv, TipWasSent, [OutboxNext]_outboxVars, outbox.tx.action \notin Mirror
    PROVE  PausedBy(Chain') = PausedBy(Chain)
  <1>1. OutboxTypeOK /\ Outstanding
    BY DEF OutboxInv
  <1>2. /\ Extends(Chain, settled) /\ Len(settled) \in Nat /\ Len(Chain) \in Nat
        /\ Len(Chain) = Len(settled) + Len(tip) /\ Len(tip) \in {0, 1}
        /\ tip \in Seq(Mined) /\ settled \in Seq(Mined)
    BY <1>1, ChainShape
  <1>3. ASSUME NEW t \in broadcast, Mine(t)
        PROVE  PausedBy(Chain') = PausedBy(Chain)
    <2>1. t \in Tx
      BY <1>1, TxTypes
    <2>2. PICK ok \in BOOLEAN :
              /\ Len(Chain') = Len(Chain) + 1 /\ Extends(Chain', Chain)
              /\ Chain'[Len(Chain) + 1] = [action |-> t.action, ok |-> ok]
              /\ t.nonce = Len(Chain)
      BY <1>1, <1>3, <2>1, MineShape
    <2>3. t.nonce >= Len(settled)
      BY <1>2, <2>2
    <2>4. t.action \notin Mirror
      BY <1>1, <2>3, MirrorIsApart DEF Outstanding
    <2>5. Chain'[Len(Chain')].action \notin Mirror
      BY <2>2, <2>4
    <2>6. Len(Chain') \in Nat /\ Len(Chain') <= Len(Chain) + 1
      BY <1>2, <2>2
    <2> QED BY <1>2, <2>2, <2>5, <2>6, OthersDoNotPause
  <1>4. CASE EmptyBlock
    BY <1>1, <1>4, EmptyBlockShape
  <1>5. CASE Reorganise
    <2>1. Chain' = settled
      BY <1>1, <1>5, ReorganiseShape
    <2>2. Len(tip) = 1
      <3>1. tip # <<>>
        BY <1>5 DEF Reorganise
      <3> QED BY <3>1, <1>2, EmptySeq
    <2>3. Chain[Len(Chain)] = tip[1]
      BY <1>2, <2>2, ConcatProperties DEF Chain
    <2>4. tip[1].action \notin Mirror
      <3> SUFFICES ASSUME tip[1].action \in Mirror
                   PROVE  FALSE
        OBVIOUS
      <3> DEFINE t == [action |-> tip[1].action, nonce |-> Len(settled)]
      <3>1. t \in broadcast
        BY <1>5, MirrorIsApart DEF TipWasSent, Reorganise
      <3>2. t.action = tip[1].action /\ t.nonce = Len(settled)
        OBVIOUS
      <3> HIDE DEF t
      <3>3. t.action # Outside /\ t.nonce >= Len(settled)
        BY <3>2, <1>2, MirrorIsApart
      <3>4. outbox.tx = t
        BY <1>1, <3>1, <3>3 DEF Outstanding
      <3> QED BY <3>2, <3>4
    <2>5. Len(Chain) <= Len(settled) + 1
      BY <1>2, <2>2
    <2> QED BY <1>2, <2>1, <2>3, <2>4, <2>5, OthersDoNotPause
  <1>6. CASE UNCHANGED chainVars
    BY <1>6 DEF chainVars, Chain
  <1>7. CASE ChainNext
    BY <1>3, <1>4, <1>5, <1>6, <1>7 DEF ChainNext, SignOutside, chainVars
  <1>8. CASE LeaseExpires \/ Decide \/ UNCHANGED outboxVars
    BY <1>6, <1>8 DEF LeaseExpires, Decide, outboxVars, chainVars
  <1>9. ASSUME NEW w \in Workers, NEW a, NEW eligible,
               \/ Claim(w, a, eligible) \/ SignStep(w, eligible)
               \/ StartResume(w) \/ ResumeStep(w) \/ Abort(w)
        PROVE  UNCHANGED chainVars
    BY <1>9 DEF Claim, StartResume, Abort, SignStep, Reclaim, Prepare, FailToPrepare,
       Persist, FailToPersist, Send, GiveUp, ResumeStep, ReadOutbox, ReadReceipt, Confirm,
       Replace, Rebroadcast
  <1> QED BY <1>6, <1>7, <1>8, <1>9 DEF OutboxNext

LEMMA TipStaysSent ==
    ASSUME OutboxInv, TipWasSent, [OutboxNext]_outboxVars
    PROVE  TipWasSent'
  <1>1. OutboxTypeOK
    BY DEF OutboxInv
  <1>2. ASSUME NEW t \in broadcast, Mine(t)
        PROVE  TipWasSent'
    <2>1. PICK ok : settled' = Chain /\ tip' = <<[action |-> t.action, ok |-> ok]>>
      BY <1>2 DEF Mine, NewBlock
    <2>2. t.nonce = Len(settled') /\ broadcast' = broadcast
      BY <1>2, <2>1 DEF Mine
    <2>3. tip'[1].action = t.action
      BY <2>1
    <2>4. t = [action |-> t.action, nonce |-> t.nonce]
      BY <1>1, TxTypes DEF Tx
    <2> QED BY <2>2, <2>3, <2>4 DEF TipWasSent
  <1>3. CASE EmptyBlock \/ Reorganise
    <2>1. tip' = <<>>
      BY <1>1, <1>3, EmptyBlockShape, ReorganiseShape
    <2> QED BY <2>1 DEF TipWasSent
  <1>4. CASE UNCHANGED chainVars /\ broadcast \subseteq broadcast'
    BY <1>4 DEF chainVars, TipWasSent
  <1>5. CASE ChainNext
    BY <1>2, <1>3, <1>4, <1>5 DEF ChainNext, SignOutside, chainVars
  <1>6. CASE LeaseExpires \/ Decide \/ UNCHANGED outboxVars
    BY <1>4, <1>6 DEF LeaseExpires, Decide, outboxVars, chainVars
  <1>7. ASSUME NEW w \in Workers, NEW a, NEW eligible,
               \/ Claim(w, a, eligible) \/ SignStep(w, eligible)
               \/ StartResume(w) \/ ResumeStep(w) \/ Abort(w)
        PROVE  UNCHANGED chainVars /\ broadcast \subseteq broadcast'
    BY <1>7 DEF Claim, StartResume, Abort, SignStep, Reclaim, Prepare, FailToPrepare,
       Persist, FailToPersist, Send, GiveUp, ResumeStep, ReadOutbox, ReadReceipt, Confirm,
       Replace, Rebroadcast
  <1> QED BY <1>4, <1>5, <1>6, <1>7 DEF OutboxNext

-----------------------------------------------------------------------------
(* The mirror's steps *)

\* Every step of the mirror is one of the outbox.
LEMMA MirrorTakesOutboxSteps ==
    ASSUME OutboxInv, PauseTypeOK, [PauseNext]_mirrorVars
    PROVE  [OutboxNext]_outboxVars
  <1>1. faults \in 0..MaxFaults /\ MaxFaults \in Nat /\ cancelling \in BOOLEAN
    BY OutboxAssumption DEF OutboxInv, OutboxTypeOK
  <1>2. StillWanted \in BOOLEAN /\ TRUE \in BOOLEAN
    BY DEF StillWanted
  <1>3. ASSUME NEW w \in Workers, Crash(w)
        PROVE  Abort(w)
    BY <1>1, <1>3 DEF Crash, Abort, Fault
  <1>4. ASSUME NEW w \in Workers, NEW eligible \in BOOLEAN, SignerMoves(w, eligible)
        PROVE  OutboxNext
    BY <1>4 DEF SignerMoves, OutboxNext
  <1>5. CASE PickJob \/ ReadPosting \/ ReadChain \/ Moderate
    BY <1>5 DEF PickJob, ReadPosting, ReadChain, Moderate
  <1>6. CASE CompletePauseJob
    <2>1. outbox' = outbox \/ (outbox' = Idle /\ outbox.token # None)
      BY <1>6 DEF CompletePauseJob
    <2>2. outbox' \in {outbox, Idle} /\ outbox'.tx = outbox.tx
      BY <2>1, IdleTyped DEF OutboxInv, LeaseMeansEmpty
    <2>3. Decide
      BY <1>1, <1>6, <2>2 DEF CompletePauseJob, Decide
    <2> QED BY <2>3 DEF OutboxNext
  <1>7. CASE SubmitPause
    <2>1. CASE UNCHANGED outboxVars
      BY <2>1
    <2>2. CASE Claim(Sweeper, PauseAction(sweep.desired), StillWanted)
      <3>1. PauseAction(sweep.desired) \in Actions /\ Sweeper \in Workers
        BY MirrorIsApart, PauseAssumption DEF PauseAction
      <3> QED BY <1>2, <2>2, <3>1 DEF OutboxNext
    <2> QED BY <1>7, <2>1, <2>2 DEF SubmitPause
  <1>8. CASE SweeperStep
    BY <1>2, <1>4, <1>8, MirrorIsApart DEF SweeperStep, OutboxNext
  <1>9. CASE QueuePostingFundingPause \/ CrashSweep
    <2>1. UNCHANGED <<chainVars, broadcast, outbox, worker, cancelling>>
      BY <1>9 DEF QueuePostingFundingPause, CrashSweep
    <2>2. faults' \in 0..MaxFaults
      BY <1>1, <1>9 DEF QueuePostingFundingPause, CrashSweep, Fault
    <2>3. Decide
      BY <1>1, <2>1, <2>2 DEF Decide
    <2> QED BY <2>3 DEF OutboxNext
  <1>10. CASE ChainNext \/ LeaseExpires \/ Crash(Sweeper)
    BY <1>3, <1>10, MirrorIsApart DEF OutboxNext
  <1>11. CASE OtherStep
    BY <1>2, <1>3, <1>4, <1>11 DEF OtherStep, OutboxNext
  <1>12. CASE UNCHANGED mirrorVars
    BY <1>12 DEF mirrorVars
  <1> QED BY <1>5, <1>6, <1>7, <1>8, <1>9, <1>10, <1>11, <1>12
          DEF PauseNext, MirrorStep, Environment

\* The parts of the sweep's variables after an assignment.
LEMMA SweepFields ==
    ASSUME NEW s \in SweepState,
           NEW p \in {"idle", "posting", "chain", "complete", "submit", "signing"}
    PROVE  /\ [s EXCEPT !.pc = p] \in SweepState
           /\ [s EXCEPT !.pc = p].pc = p
           /\ [s EXCEPT !.pc = p].desired = s.desired
           /\ [s EXCEPT !.pc = p].revision = s.revision
  BY Zenon DEF SweepState

LEMMA ReadFields ==
    ASSUME NEW s \in SweepState, NEW b \in BOOLEAN
    PROVE  /\ [s EXCEPT !.pc = "chain", !.desired = b] \in SweepState
           /\ [s EXCEPT !.pc = "chain", !.desired = b].pc = "chain"
           /\ [s EXCEPT !.pc = "chain", !.desired = b].desired = b
           /\ [s EXCEPT !.pc = "chain", !.desired = b].revision = s.revision
  BY Zenon DEF SweepState

LEMMA PickedFields ==
    ASSUME NEW r \in Nat
    PROVE  /\ [SweepIdle EXCEPT !.pc = "posting", !.revision = r] \in SweepState
           /\ [SweepIdle EXCEPT !.pc = "posting", !.revision = r].pc = "posting"
           /\ [SweepIdle EXCEPT !.pc = "posting", !.revision = r].revision = r
           /\ SweepIdle \in SweepState /\ SweepIdle.pc = "idle" /\ SweepIdle.revision = 0
  <1>1. 0 \in Nat
    OBVIOUS
  <1> QED BY <1>1, Zenon DEF SweepState, SweepIdle

LEMMA PauseTypes ==
    ASSUME PauseInv
    PROVE  /\ sweep \in SweepState /\ sweep.revision \in Nat /\ sweep.desired \in BOOLEAN
           /\ job \in Job /\ job.revision \in Nat /\ desired \in BOOLEAN
           /\ edits \in 0..MaxEdits /\ triggers \in 0..MaxEdits /\ MaxEdits \in Nat
           /\ OutboxInv /\ OutboxTypeOK
  <1>1. PauseTypeOK /\ OutboxInv
    BY DEF PauseInv
  <1>2. sweep \in SweepState /\ job \in Job
    BY <1>1 DEF PauseTypeOK
  <1>3. sweep.revision \in Nat /\ sweep.desired \in BOOLEAN
    BY <1>2, Zenon DEF SweepState
  <1>4. job.revision \in Nat
    BY <1>2 DEF Job
  <1> QED BY <1>1, <1>2, <1>3, <1>4, MirrorIsApart DEF PauseTypeOK

\* The types of what is not the outbox's.
LEMMA PauseTypesKept ==
    ASSUME PauseInv, [PauseNext]_mirrorVars, OutboxInv'
    PROVE  PauseTypeOK' /\ TriggersAreEdits'
  <1>1. /\ sweep \in SweepState /\ sweep.revision \in Nat /\ sweep.desired \in BOOLEAN
        /\ job \in Job /\ job.revision \in Nat /\ desired \in BOOLEAN
        /\ edits \in 0..MaxEdits /\ triggers \in 0..MaxEdits /\ MaxEdits \in Nat
        /\ triggers <= edits
    BY PauseTypes DEF PauseInv, TriggersAreEdits
  <1>2. sweep' \in SweepState
    <2>1. CASE PickJob
      BY <1>1, <2>1, PickedFields DEF PickJob, Sweep
    <2>2. CASE ReadPosting
      BY <1>1, <2>2, ReadFields DEF ReadPosting, Sweep
    <2>3. CASE ReadChain
      BY <1>1, <2>3, SweepFields DEF ReadChain, Sweep
    <2>4. CASE CompletePauseJob \/ CrashSweep
      BY <1>1, <2>4, PickedFields DEF CompletePauseJob, CrashSweep, Sweep
    <2>5. CASE SubmitPause
      <3>1. sweep' = [sweep EXCEPT !.pc = "signing"] \/ sweep' = SweepIdle
        BY <2>5 DEF SubmitPause, Sweep
      <3>2. [sweep EXCEPT !.pc = "signing"] \in SweepState
        BY <1>1, SweepFields
      <3>3. SweepIdle \in SweepState
        BY <1>1, PickedFields
      <3> QED BY ONLY <3>1, <3>2, <3>3
    <2>6. CASE sweep' = sweep
      BY <1>1, <2>6
    <2> QED BY <2>1, <2>2, <2>3, <2>4, <2>5, <2>6
            DEF PauseNext, MirrorStep, Environment, SweeperStep, OtherStep, Moderate,
                QueuePostingFundingPause, pauseVars, mirrorVars
  <1>3. job' \in Job
    <2>1. CASE QueuePostingFundingPause
      BY <1>1, <2>1 DEF QueuePostingFundingPause, NewRevision, Job
    <2>2. CASE CompletePauseJob
      <3>1. job' = job \/ job' = [job EXCEPT !.status = "complete"]
        BY <2>2 DEF CompletePauseJob
      <3> QED BY <1>1, <3>1 DEF Job
    <2>3. CASE job' = job
      BY <1>1, <2>3
    <2> QED BY <2>1, <2>2, <2>3
            DEF PauseNext, MirrorStep, Environment, SweeperStep, OtherStep, Moderate, PickJob,
                ReadPosting, ReadChain, SubmitPause, CrashSweep, pauseVars, mirrorVars
  <1>4. /\ desired' \in BOOLEAN /\ edits' \in 0..MaxEdits
        /\ triggers' \in 0..MaxEdits /\ triggers' <= edits'
    <2>1. CASE Moderate
      <3>1. desired' \in BOOLEAN
        BY <2>1 DEF Moderate
      <3>2. edits' \in 0..MaxEdits /\ triggers' \in 0..MaxEdits /\ triggers' <= edits'
        BY <1>1, <2>1 DEF Moderate
      <3> QED BY <3>1, <3>2
    <2>2. CASE QueuePostingFundingPause
      <3>1. desired' = desired /\ edits' = edits
        BY <2>2 DEF QueuePostingFundingPause
      <3>2. triggers' \in 0..MaxEdits /\ triggers' <= edits
        BY <1>1, <2>2 DEF QueuePostingFundingPause
      <3> QED BY <1>1, <3>1, <3>2
    <2>3. CASE UNCHANGED <<desired, edits, triggers>>
      BY <1>1, <2>3
    <2> QED BY <2>1, <2>2, <2>3
            DEF PauseNext, MirrorStep, Environment, SweeperStep, OtherStep, PickJob,
                ReadPosting, ReadChain, CompletePauseJob, SubmitPause, CrashSweep, pauseVars,
                mirrorVars
  <1> QED BY <1>2, <1>3, <1>4 DEF PauseTypeOK, TriggersAreEdits, OutboxInv

\* One invocation moves, and asks for a pause only if it did.
LEMMA OneSigns ==
    ASSUME SignsAlone, sweep' = sweep, NEW w \in Workers,
           \A u \in Workers \ {w} : worker'[u] = worker[u],
           worker'[w].action \in Mirror =>
               worker[w].action \in Mirror /\ worker'[w].pc # "idle"
    PROVE  SignsAlone'
  BY DEF SignsAlone

LEMMA SignerSigns ==
    ASSUME PauseInv, sweep' = sweep, NEW w \in Workers, NEW eligible,
           SignerMoves(w, eligible) \/ Crash(w)
    PROVE  SignsAlone'
  <1>1. OutboxInv /\ OutboxTypeOK /\ SignsAlone
    BY PauseTypes DEF PauseInv
  <1>2. CASE SignerMoves(w, eligible)
    <2>1. /\ worker'[w].pc = "idle" => worker'[w] = Resting
          /\ worker'[w].pc # "idle" => worker'[w].action = worker[w].action
          /\ \A u \in Workers \ {w} : worker'[u] = worker[u]
      BY <1>1, <1>2, ActionKept DEF SignerMoves
    <2>2. worker'[w].action \in Mirror =>
              worker[w].action \in Mirror /\ worker'[w].pc # "idle"
      BY <2>1, MirrorIsApart
    <2> QED BY <1>1, <2>1, <2>2, OneSigns
  <1>3. CASE Crash(w)
    <2>1. worker'[w] = Resting /\ \A u \in Workers \ {w} : worker'[u] = worker[u]
      BY <1>1, <1>3, OneMoves DEF Crash, Rest
    <2> QED BY <1>1, <2>1, OneSigns, MirrorIsApart
  <1> QED BY <1>2, <1>3

LEMMA ClaimBegins ==
    ASSUME OutboxTypeOK, NEW w \in Workers, NEW a, NEW eligible, Claim(w, a, eligible)
    PROVE  worker'[w].pc # "idle"
  <1> DEFINE l == [Resting EXCEPT !.pc = "resume", !.action = a, !.previous = outbox.tx]
             m == [Resting EXCEPT !.pc = "prepare", !.action = a]
  <1>1. Goto(w, l) \/ Goto(w, m)
    BY DEF Claim, Acquire
  <1>2. l.pc = "resume" /\ m.pc = "prepare"
    BY Zenon DEF Resting
  <1> HIDE DEF l, m
  <1> QED BY <1>1, <1>2, OneMoves

LEMMA SignsAloneKept ==
    ASSUME PauseInv, [PauseNext]_mirrorVars
    PROVE  SignsAlone'
  <1>1. OutboxInv /\ OutboxTypeOK /\ SignsAlone /\ sweep \in SweepState
    BY PauseTypes DEF PauseInv
  <1>2. CASE worker' = worker /\ (sweep' = sweep \/ sweep.pc # "signing")
    BY <1>1, <1>2 DEF SignsAlone
  <1>3. CASE PickJob
    <2>1. worker' = worker /\ worker[Sweeper].pc = "idle"
      BY <1>3 DEF PickJob, SweepFree, At, outboxVars
    <2> QED BY <1>1, <2>1 DEF SignsAlone
  <1>4. CASE ReadPosting \/ ReadChain \/ CompletePauseJob \/ Moderate
             \/ QueuePostingFundingPause \/ CrashSweep \/ UNCHANGED mirrorVars
    BY <1>2, <1>4 DEF ReadPosting, ReadChain, CompletePauseJob, Moderate,
       QueuePostingFundingPause, CrashSweep, mirrorVars, outboxVars, pauseVars
  <1>5. CASE SubmitPause
    <2>1. sweep.pc = "submit"
      BY <1>5 DEF SubmitPause
    <2>2. CASE UNCHANGED outboxVars
      BY <1>2, <2>1, <2>2 DEF outboxVars
    <2>3. CASE /\ Claim(Sweeper, PauseAction(sweep.desired), StillWanted)
               /\ sweep' = [sweep EXCEPT !.pc = "signing"]
      <3>1. sweep'.pc = "signing"
        <4>1. [sweep EXCEPT !.pc = "signing"].pc = "signing"
          BY <1>1, Zenon DEF SweepState
        <4> QED BY <2>3, <4>1
      <3>2. worker'[Sweeper].pc # "idle"
        BY <1>1, <2>3, ClaimBegins, MirrorIsApart
      <3>3. \A u \in Workers \ {Sweeper} : worker'[u] = worker[u]
        BY <1>1, <2>3, ClaimMoves, MirrorIsApart
      <3> QED BY <1>1, <2>1, <3>1, <3>2, <3>3 DEF SignsAlone
    <2> QED BY <1>5, <2>2, <2>3 DEF SubmitPause, Sweep
  <1>6. CASE SweeperStep
    <2>1. sweep' = sweep /\ Sweeper \in Workers
      BY <1>6, MirrorIsApart DEF SweeperStep, pauseVars
    <2>2. CASE SignerMoves(Sweeper, StillWanted)
      BY <2>1, <2>2, SignerSigns
    <2>3. CASE StartResume(Sweeper)
      <3>1. worker'[Sweeper] = [Resting EXCEPT !.pc = "resume"]
            /\ \A u \in Workers \ {Sweeper} : worker'[u] = worker[u]
        BY <1>1, <2>1, <2>3, OneMoves DEF StartResume
      <3>2. worker'[Sweeper].action = None
        BY <3>1, Zenon DEF Resting
      <3> QED BY <1>1, <2>1, <3>1, <3>2, OneSigns, MirrorIsApart
    <2> QED BY <1>6, <2>2, <2>3 DEF SweeperStep
  <1>7. CASE (ChainNext \/ LeaseExpires \/ Crash(Sweeper)) /\ UNCHANGED pauseVars
    <2>1. sweep' = sweep /\ Sweeper \in Workers
      BY <1>7, MirrorIsApart DEF pauseVars
    <2>2. CASE Reorganise
      <3>1. \A w \in Workers : worker'[w].pc = worker[w].pc
                              /\ worker'[w].action = worker[w].action
        <4> SUFFICES ASSUME NEW w \in Workers
                     PROVE  worker'[w].pc = worker[w].pc
                            /\ worker'[w].action = worker[w].action
          OBVIOUS
        <4>1. worker'[w] \in {worker[w], [worker[w] EXCEPT !.receipt = "orphaned"]}
          BY <2>2 DEF Reorganise
        <4>2. worker[w] \in Worker
          BY <1>1, TxTypes
        <4>3. /\ [worker[w] EXCEPT !.receipt = "orphaned"].pc = worker[w].pc
              /\ [worker[w] EXCEPT !.receipt = "orphaned"].action = worker[w].action
          BY <4>2, Zenon DEF Worker
        <4> QED BY <4>1, <4>3
      <3> QED BY <1>1, <2>1, <3>1 DEF SignsAlone
    <2>3. CASE Crash(Sweeper)
      BY <2>1, <2>3, SignerSigns
    <2>4. CASE LeaseExpires \/ EmptyBlock \/ SignOutside \/ \E t \in broadcast : Mine(t)
      BY <1>2, <2>1, <2>4 DEF LeaseExpires, EmptyBlock, SignOutside, Mine
    <2> QED BY <1>7, <2>2, <2>3, <2>4 DEF ChainNext
  <1>8. CASE OtherStep
    <2>1. sweep' = sweep
      BY <1>8 DEF OtherStep, pauseVars
    <2>2. PICK w \in Workers \ {Sweeper} :
             \/ \E a \in Actions \ {Pause, Unpause} : Claim(w, a, TRUE)
             \/ SignerMoves(w, TRUE) \/ Crash(w)
      BY <1>8 DEF OtherStep
    <2>3. ASSUME NEW a \in Actions \ {Pause, Unpause}, Claim(w, a, TRUE)
          PROVE  SignsAlone'
      <3>1. worker'[w].action = a /\ \A u \in Workers \ {w} : worker'[u] = worker[u]
        BY <1>1, <2>3, ClaimMoves
      <3>2. worker'[w].action \notin Mirror
        BY <3>1 DEF Mirror
      <3> QED BY <1>1, <2>1, <3>1, <3>2, OneSigns
    <2> QED BY <2>1, <2>2, <2>3, SignerSigns
  <1> QED BY <1>3, <1>4, <1>5, <1>6, <1>7, <1>8 DEF PauseNext, MirrorStep, Environment

-----------------------------------------------------------------------------
(* What the sweep read *)

LEMMA SweepKnowsKept ==
    ASSUME PauseInv, [PauseNext]_mirrorVars
    PROVE  SweepKnows'
  <1>1. /\ sweep \in SweepState /\ sweep.revision \in Nat /\ sweep.desired \in BOOLEAN
        /\ job.revision \in Nat /\ desired \in BOOLEAN /\ job \in Job
        /\ triggers \in Nat /\ SweepKnows
    BY PauseTypes DEF PauseInv
  <1>2. CASE PickJob
    <2>1. sweep'.pc = "posting" /\ sweep'.revision = job.revision /\ job' = job
      BY <1>1, <1>2, PickedFields DEF PickJob, Sweep
    <2> QED BY <1>1, <2>1 DEF SweepKnows
  <1>3. CASE ReadPosting
    <2>1. sweep'.desired = desired /\ sweep'.revision = sweep.revision
      <3>1. sweep' = [sweep EXCEPT !.pc = "chain", !.desired = desired]
        BY <1>3 DEF ReadPosting, Sweep
      <3>2. /\ [sweep EXCEPT !.pc = "chain", !.desired = desired].desired = desired
            /\ [sweep EXCEPT !.pc = "chain", !.desired = desired].revision = sweep.revision
        BY ONLY <1>1, ReadFields, Zenon
      <3> QED BY ONLY <3>1, <3>2, Zenon
    <2>2. UNCHANGED <<desired, job>>
      BY <1>3 DEF ReadPosting
    <2> QED BY <1>1, <2>1, <2>2, Zenon DEF SweepKnows
  <1>4. CASE ReadChain
    <2>1. sweep.pc = "chain" /\ sweep'.desired = sweep.desired
          /\ sweep'.revision = sweep.revision
      <3>1. PICK p \in {"complete", "submit"} : sweep' = [sweep EXCEPT !.pc = p]
        BY <1>4 DEF ReadChain, Sweep
      <3>2. /\ [sweep EXCEPT !.pc = p].desired = sweep.desired
            /\ [sweep EXCEPT !.pc = p].revision = sweep.revision
        <4>1. p \in {"idle", "posting", "chain", "complete", "submit", "signing"}
          BY <3>1
        <4> QED BY ONLY <1>1, <4>1, SweepFields, Zenon
      <3>3. sweep.pc = "chain"
        BY <1>4 DEF ReadChain
      <3> QED BY ONLY <3>1, <3>2, <3>3, Zenon
    <2>2. UNCHANGED <<desired, triggers, job>>
      BY <1>4 DEF ReadChain
    <2> QED BY <1>1, <2>1, <2>2, Zenon DEF SweepKnows
  <1>5. CASE CompletePauseJob \/ CrashSweep
    <2>1. sweep'.pc = "idle" /\ sweep'.revision = 0
      BY <1>1, <1>5, PickedFields DEF CompletePauseJob, CrashSweep, Sweep
    <2>2. job'.revision = job.revision
      BY <1>1, <1>5 DEF CompletePauseJob, CrashSweep, Job
    <2> QED BY <1>1, <2>1, <2>2 DEF SweepKnows
  <1>6. CASE SubmitPause
    <2>1. job' = job
      BY <1>6 DEF SubmitPause
    <2>2. CASE sweep' = [sweep EXCEPT !.pc = "signing"]
      <3>1. sweep'.pc = "signing" /\ sweep'.revision = sweep.revision
        BY <1>1, <2>2, SweepFields
      <3> QED BY <1>1, <2>1, <3>1 DEF SweepKnows
    <2>3. CASE sweep' = SweepIdle
      <3>1. sweep'.pc = "idle" /\ sweep'.revision = 0
        BY <1>1, <2>3, PickedFields
      <3> QED BY <1>1, <2>1, <3>1 DEF SweepKnows
    <2> QED BY <1>6, <2>2, <2>3 DEF SubmitPause, Sweep
  <1>7. CASE Moderate
    <2>1. triggers' # 0 /\ sweep' = sweep /\ job' = job
      BY <1>1, <1>7 DEF Moderate
    <2> QED BY <1>1, <2>1 DEF SweepKnows
  <1>8. CASE QueuePostingFundingPause
    <2>1. job'.revision = job.revision + 1 /\ sweep' = sweep
      BY <1>8 DEF QueuePostingFundingPause, NewRevision
    <2> QED BY <1>1, <2>1 DEF SweepKnows
  <1>9. CASE UNCHANGED pauseVars
    BY <1>1, <1>9, Zenon DEF pauseVars, SweepKnows
  <1> QED BY <1>2, <1>3, <1>4, <1>5, <1>6, <1>7, <1>8, <1>9
          DEF PauseNext, MirrorStep, Environment, SweeperStep, OtherStep, mirrorVars

\* How the outbox comes to hold a pause or a restoration, and to hold none.
LEMMA MirrorEntersAndLeaves ==
    ASSUME PauseInv, [OutboxNext]_outboxVars, SweepIsNotOvertaken
    PROVE  /\ outbox.tx.action \notin Mirror /\ outbox'.tx.action \in Mirror =>
                  sweep.pc = "signing"
           /\ outbox.tx.action \in Mirror /\ outbox'.tx.action \notin Mirror =>
                  sweep.pc # "complete"
  <1>1. OutboxInv /\ SignsAlone /\ NoTx.action \notin Mirror
    BY PauseTypes, MirrorIsApart DEF PauseInv
  <1>2. ASSUME outbox'.tx # NoTx, outbox'.tx # outbox.tx
        PROVE  /\ outbox.tx = NoTx
               /\ \E w \in Workers : outbox'.tx.action = worker[w].action
    <2>1. PICK w \in Workers, eligible \in BOOLEAN : Persist(w, eligible)
      BY <1>1, <1>2, OnlyPersistSigns
    <2>2. outbox.tx = NoTx /\ worker[w].pc = "persist"
      BY <2>1 DEF Persist, MayPersist, At
    <2>3. outbox'.tx = worker[w].tx
      BY <2>1 DEF Persist, Idle
    <2> QED BY <1>1, <2>2, <2>3 DEF OutboxInv, SignsItsAction
  <1>3. ASSUME outbox.tx.action \notin Mirror, outbox'.tx.action \in Mirror
        PROVE  sweep.pc = "signing"
    BY <1>1, <1>2, <1>3 DEF SignsAlone
  <1>4. ASSUME outbox.tx.action \in Mirror, outbox'.tx.action \notin Mirror
        PROVE  sweep.pc # "complete"
    <2>1. outbox.tx # NoTx /\ outbox'.tx = NoTx
      BY <1>1, <1>2, <1>4
    <2>2. Concerns
      BY <1>1, <1>4, <2>1 DEF Concerns, Mirror, OutboxInv, OutboxActionMatches
    <2> QED BY <2>1, <2>2 DEF SweepIsNotOvertaken
  <1> QED BY <1>3, <1>4

LEMMA ReadChainCompares ==
    ASSUME PauseInv, ReadChain
    PROVE  sweep'.pc = "complete" => PausedBy(Chain') = sweep'.desired
  <1>1. sweep \in SweepState /\ Chain' = Chain
    BY PauseTypes DEF ReadChain, outboxVars, Chain
  <1>2. CASE PausedBy(Chain) = sweep.desired /\ sweep' = [sweep EXCEPT !.pc = "complete"]
    <2>1. [sweep EXCEPT !.pc = "complete"].desired = sweep.desired
      BY <1>1, SweepFields
    <2> QED BY ONLY <1>1, <1>2, <2>1, Zenon
  <1>3. CASE sweep' = [sweep EXCEPT !.pc = "submit"]
    <2>1. [sweep EXCEPT !.pc = "submit"].pc = "submit"
      BY <1>1, SweepFields
    <2> QED BY <1>3, <2>1
  <1> QED BY <1>2, <1>3 DEF ReadChain, Sweep

LEMMA SweepComparesKept ==
    ASSUME PauseInv, [PauseNext]_mirrorVars, [OutboxNext]_outboxVars, SweepIsNotOvertaken
    PROVE  SweepCompares'
  <1>1. /\ sweep \in SweepState /\ desired \in BOOLEAN /\ job.revision \in Nat /\ OutboxInv
        /\ TipWasSent /\ SweepCompares
    BY PauseTypes DEF PauseInv
  <1>2. CASE sweep' = sweep
    <2>1. SUFFICES ASSUME sweep.pc = "complete", outbox'.tx.action \notin Mirror
                   PROVE  PausedBy(Chain') = sweep'.desired
      BY <1>2 DEF SweepCompares
    <2>2. outbox.tx.action \notin Mirror
      BY <2>1, MirrorEntersAndLeaves
    <2>3. PausedBy(Chain') = PausedBy(Chain)
      BY <1>1, <2>2, PauseIsOutstanding
    <2>4. PausedBy(Chain) = sweep.desired
      BY <1>1, <2>1, <2>2 DEF SweepCompares
    <2> QED BY ONLY <1>2, <2>3, <2>4, Zenon
  <1>3. CASE ReadChain
    BY <1>3, ReadChainCompares DEF SweepCompares
  <1>4. CASE sweep'.pc # "complete"
    BY <1>4 DEF SweepCompares
  <1>5. CASE PickJob
    BY <1>1, <1>4, <1>5, PickedFields DEF PickJob, Sweep
  <1>6. CASE ReadPosting
    <2>1. sweep' = [sweep EXCEPT !.pc = "chain", !.desired = desired]
      BY <1>6 DEF ReadPosting, Sweep
    <2>2. [sweep EXCEPT !.pc = "chain", !.desired = desired].pc = "chain"
      BY ONLY <1>1, ReadFields, Zenon
    <2> QED BY <1>4, <2>1, <2>2
  <1>7. CASE CompletePauseJob \/ CrashSweep
    BY <1>1, <1>4, <1>7, PickedFields DEF CompletePauseJob, CrashSweep, Sweep
  <1>8. CASE SubmitPause
    <2>1. [sweep EXCEPT !.pc = "signing"].pc = "signing" /\ SweepIdle.pc = "idle"
      BY <1>1, SweepFields, PickedFields
    <2> QED BY <1>4, <1>8, <2>1 DEF SubmitPause, Sweep
  <1> QED BY <1>2, <1>3, <1>5, <1>6, <1>7, <1>8
          DEF PauseNext, MirrorStep, Environment, SweeperStep, OtherStep, Moderate,
              QueuePostingFundingPause, pauseVars, mirrorVars

\* The job is completed on what the chain shows, and nothing is in flight.
LEMMA CompletesTruly ==
    ASSUME PauseInv, CompletePauseJob, job' # job
    PROVE  CompletedRests'
  <1>1. /\ OutboxInv /\ SweepKnows /\ SweepCompares /\ NoTx.action \notin Mirror
        /\ SweepIdle.pc = "idle" /\ job.revision \in Nat
    BY PauseTypes, MirrorIsApart, PickedFields DEF PauseInv
  <1>2. /\ sweep.pc = "complete" /\ job.revision = sweep.revision /\ ~InFlight
        /\ outbox' \in {outbox, Idle} /\ sweep' = SweepIdle /\ Chain' = Chain
        /\ UNCHANGED <<desired, triggers>>
    BY DEF CompletePauseJob, Sweep, chainVars, Chain
  <1>3. outbox.tx.action \notin Mirror
    BY <1>1, <1>2 DEF InFlight, Concerns, Mirror, OutboxInv, OutboxActionMatches
  <1>4. outbox'.tx.action \notin Mirror
    BY <1>1, <1>2, <1>3, IdleTyped
  <1>5. PausedBy(Chain) = sweep.desired
    BY <1>1, <1>2, <1>3 DEF SweepCompares
  <1>6. triggers = 0 => sweep.desired = desired
    BY <1>1, <1>2 DEF SweepKnows
  <1>7. triggers' = 0 => PausedBy(Chain') = desired'
    BY ONLY <1>2, <1>5, <1>6, Zenon
  <1> QED BY <1>1, <1>2, <1>4, <1>7 DEF CompletedRests

LEMMA CompletedRestsKept ==
    ASSUME PauseInv, [PauseNext]_mirrorVars, [OutboxNext]_outboxVars, SweepIsNotOvertaken
    PROVE  CompletedRests'
  <1>1. OutboxInv /\ TipWasSent /\ CompletedRests /\ triggers \in Nat
    BY PauseTypes DEF PauseInv
  <1>2. ASSUME job.status = "complete"
        PROVE  /\ sweep.pc = "idle" /\ outbox'.tx.action \notin Mirror
               /\ triggers = 0 => PausedBy(Chain') = desired
    <2>1. /\ sweep.pc = "idle" /\ outbox.tx.action \notin Mirror
          /\ triggers = 0 => PausedBy(Chain) = desired
      BY <1>1, <1>2 DEF CompletedRests
    <2>2. outbox'.tx.action \notin Mirror
      BY <2>1, MirrorEntersAndLeaves
    <2>3. PausedBy(Chain') = PausedBy(Chain)
      BY <1>1, <2>1, PauseIsOutstanding
    <2> QED BY ONLY <2>1, <2>2, <2>3, Zenon
  <1>3. CASE CompletePauseJob
    <2>1. CASE job' # job
      BY <1>3, <2>1, CompletesTruly
    <2>2. CASE job' = job
      <3>1. sweep.pc = "complete"
        BY <1>3 DEF CompletePauseJob
      <3> QED BY <1>2, <2>2, <3>1 DEF CompletedRests
    <2> QED BY <2>1, <2>2
  <1>4. CASE PickJob \/ ReadPosting \/ ReadChain \/ SubmitPause \/ CrashSweep
    <2>1. job' = job
      BY <1>4 DEF PickJob, ReadPosting, ReadChain, SubmitPause, CrashSweep
    <2>2. job.status = "pending" \/ sweep.pc # "idle"
      BY <1>4 DEF PickJob, ReadPosting, ReadChain, SubmitPause, CrashSweep
    <2> QED BY <1>2, <2>1, <2>2 DEF CompletedRests
  <1>5. CASE Moderate
    <2>1. triggers' # 0 /\ job' = job /\ sweep' = sweep
      BY <1>1, <1>5 DEF Moderate
    <2> QED BY <1>2, <2>1 DEF CompletedRests
  <1>6. CASE QueuePostingFundingPause
    BY <1>6 DEF QueuePostingFundingPause, NewRevision, CompletedRests
  <1>7. CASE UNCHANGED pauseVars
    <2>1. /\ job' = job /\ sweep' = sweep /\ triggers' = triggers /\ desired' = desired
      BY <1>7 DEF pauseVars
    <2>2. SUFFICES ASSUME job.status = "complete"
                   PROVE  /\ sweep'.pc = "idle" /\ outbox'.tx.action \notin Mirror
                          /\ triggers' = 0 => PausedBy(Chain') = desired'
      BY <2>1 DEF CompletedRests
    <2> QED BY ONLY <1>2, <2>1, <2>2, Zenon
  <1> QED BY <1>3, <1>4, <1>5, <1>6, <1>7
          DEF PauseNext, MirrorStep, Environment, SweeperStep, OtherStep, mirrorVars

-----------------------------------------------------------------------------

LEMMA PauseStart == PauseInit => PauseInv
  <1> SUFFICES ASSUME PauseInit
               PROVE  PauseInv
    OBVIOUS
  <1>1. OutboxInv
    BY OutboxStart DEF PauseInit
  <1>2. SweepIdle \in SweepState /\ SweepIdle.pc = "idle" /\ SweepIdle.revision = 0
    <2>1. 0 \in Nat
      OBVIOUS
    <2> QED BY <2>1, PickedFields
  <1>3. /\ sweep = SweepIdle /\ job = [status |-> "none", revision |-> 0]
        /\ desired = FALSE /\ edits = 0 /\ triggers = 0
        /\ tip = <<>> /\ worker = [w \in Workers |-> Resting]
    BY DEF PauseInit, OutboxInit
  <1>4. PauseTypeOK /\ TriggersAreEdits
    <2>1. job \in Job
      BY <1>3 DEF Job
    <2>2. edits \in 0..MaxEdits /\ triggers \in 0..MaxEdits /\ triggers <= edits
      BY <1>3, MirrorIsApart
    <2>3. desired \in BOOLEAN /\ sweep \in SweepState
      BY <1>2, <1>3
    <2> QED BY <1>1, <2>1, <2>2, <2>3 DEF PauseTypeOK, TriggersAreEdits, OutboxInv
  <1>5. SignsAlone /\ TipWasSent
    BY <1>3, MirrorIsApart DEF SignsAlone, TipWasSent
  <1>6. SweepKnows /\ SweepCompares /\ CompletedRests
    BY <1>2, <1>3 DEF SweepKnows, SweepCompares, CompletedRests
  <1> QED BY <1>1, <1>4, <1>5, <1>6 DEF PauseInv

LEMMA PauseStep ==
    ASSUME PauseInv, [PauseNext /\ SweepIsNotOvertaken]_mirrorVars
    PROVE  PauseInv'
  <1>1. OutboxInv /\ TipWasSent /\ PauseTypeOK
    BY DEF PauseInv
  <1>2. [PauseNext]_mirrorVars
    OBVIOUS
  <1>3. SweepIsNotOvertaken
    BY DEF SweepIsNotOvertaken, mirrorVars, outboxVars
  <1>4. [OutboxNext]_outboxVars
    BY <1>1, <1>2, MirrorTakesOutboxSteps
  <1>5. OutboxInv'
    BY <1>1, <1>4, OutboxStep
  <1>6. PauseTypeOK' /\ TriggersAreEdits'
    BY <1>2, <1>5, PauseTypesKept
  <1>7. SignsAlone' /\ SweepKnows'
    BY <1>2, SignsAloneKept, SweepKnowsKept
  <1>8. TipWasSent'
    BY <1>1, <1>4, TipStaysSent
  <1>9. SweepCompares' /\ CompletedRests'
    BY <1>2, <1>3, <1>4, SweepComparesKept, CompletedRestsKept
  <1> QED BY <1>5, <1>6, <1>7, <1>8, <1>9 DEF PauseInv

\* A completed pause job means that the registry shows the posting's present state,
\* and that no transaction in flight will change it, whatever the order of triggers,
\* sweeps, members' calls, crashes and dropped blocks: provided that nobody clears a
\* pause or a restoration from the outbox between the sweep's reading of the chain and
\* its completing the job.
THEOREM PauseMirrored ==
    PauseSpec /\ [][SweepIsNotOvertaken]_mirrorVars => []CompletedPauseIsMirrored
  <1>1. PauseInv /\ [PauseNext]_mirrorVars /\ [SweepIsNotOvertaken]_mirrorVars => PauseInv'
    BY PauseStep
  <1>2. PauseInv => CompletedPauseIsMirrored
    BY DEF PauseInv, CompletedRests, CompletedPauseIsMirrored
  <1> QED BY PauseStart, <1>1, <1>2, PTL DEF PauseSpec

=============================================================================
