-------------------------- MODULE AttachmentProofs --------------------------
(***************************************************************************)
(* Published bytes stay and charges are exact, for any number of files, any  *)
(* quota and any number of killed invocations and maintenance periods: the    *)
(* first under the assumptions UsualTiming names, the second without.         *)
(*                                                                         *)
(* BaseInv (types, cursors) is inductive, and StorageInv is in the behaviours  *)
(* of UsualTiming.  The heart of it: only an object whose                      *)
(* reservation is `Condemned' is deleted; what a publication lists is sealed,  *)
(* or has no reservation at all; and nobody entombs a file of the latter kind  *)
(* that a publication lists, because the sweep looks at the proof again        *)
(* (mustRetainObject, the tombstone's transaction) and a removal only happens  *)
(* before anything was published.  ChargeInv counts the charges.              *)
(***************************************************************************)
EXTENDS AttachmentProperties, FiniteSetTheorems, TLAPS

Condemned(a) == reservation[a].state = "retired" /\ ~reservation[a].sealed

Reserved(a) == reservation[a].state # "none"

\* The steps of the sweep that hold an attachment
Holding == SweepSteps \ {"idle", "abandoned", "retired", "objects"}

Cursors ==
    /\ removal.pc # "idle" => removal.cur \in Attachments
    /\ sweep.pc \in Holding => sweep.cur \in Attachments

ListedInv ==
    /\ \A a \in Attachments :
          upload[a] = "done" /\ reservation[a].state # "retired" => object[a] # "absent"
    /\ \A a \in published \cup proof.files :
          object[a] # "absent" /\ (reservation[a].sealed \/ ~Reserved(a))
    /\ \A a \in Legacy : upload[a] = "done"
    /\ \A a \in Attachments : ~Reserved(a) => ~reservation[a].sealed
    /\ \A a \in Attachments \ Legacy :
          ~Reserved(a) => upload[a] = "none" /\ object[a] = "absent"
    /\ published # {} => parent.status = "published" \/ record = "retired"

RemovalInv ==
    /\ removal.pc = "retire" /\ ~removal.saw => Reserved(removal.cur)
    /\ removal.pc = "delete" => Condemned(removal.cur)

SweepInv ==
    /\ sweep.pc \in {"abandoned", "retireAbandoned", "releaseAbandoned"} =>
          \A a \in sweep.todo : Reserved(a)
    /\ sweep.pc = "retireAbandoned" => Reserved(sweep.cur)
    /\ sweep.pc = "retireObject" /\ sweep.known => Reserved(sweep.cur)
    /\ sweep.pc \in {"lookup", "retireObject"} /\ sweep.cur \in published
          /\ ~Reserved(sweep.cur) => sweep.cur \in proof.files
    /\ sweep.pc \in {"recheck", "delete"} => Condemned(sweep.cur)

Safety == ListedInv /\ RemovalInv /\ SweepInv

StorageInv == TypeOK /\ Cursors /\ Safety

-----------------------------------------------------------------------------
(* Records *)

Sweep == [pc : SweepSteps, todo : SUBSET Attachments,
          cur : Attachments \cup {None}, known : BOOLEAN]
Removal == [pc : RemovalSteps, cur : Attachments \cup {None}, saw : BOOLEAN]

LEMMA Reservations ==
    /\ NoReservation \in Reservation /\ Tombstone \in Reservation
    /\ Tombstone.state = "retired" /\ ~Tombstone.sealed
    /\ Tombstone.charged = FALSE
    /\ \A r \in Reservation :
          /\ Retire(r) \in Reservation /\ Retire(r).state = "retired"
          /\ Retire(r).sealed = r.sealed /\ Retire(r).charged = r.charged
          /\ [r EXCEPT !.charged = FALSE] \in Reservation
          /\ [r EXCEPT !.abandoned = TRUE] \in Reservation
          /\ [r EXCEPT !.sealed = TRUE] \in Reservation
          /\ [r EXCEPT !.state = "retired", !.sealed = TRUE] \in Reservation
  BY Zenon DEF Reservation, NoReservation, Tombstone, Retire

LEMMA OneReservation ==
    ASSUME TypeOK, NEW a \in Attachments, NEW r \in Reservation,
           reservation' = [reservation EXCEPT ![a] = r]
    PROVE  /\ reservation' \in [Attachments -> Reservation]
           /\ reservation'[a] = r
           /\ \A b \in Attachments : b # a => reservation'[b] = reservation[b]
  BY DEF TypeOK

\* A release changes charges only.
LEMMA ReleaseTypes ==
    ASSUME reservation \in [Attachments -> Reservation], usage \in 0..Quota,
           NEW a \in Attachments, ReleaseDeletedUpload(a)
    PROVE  /\ reservation' \in [Attachments -> Reservation]
           /\ usage' \in 0..Quota
           /\ \A b \in Attachments : /\ reservation'[b].state = reservation[b].state
                                     /\ reservation'[b].sealed = reservation[b].sealed
  <1>1. Quota \in Nat
    BY AttachmentAssumption
  <1>2. CASE MayRelease(reservation[a])
    <2>1. reservation' = [reservation EXCEPT ![a] = [@ EXCEPT !.charged = FALSE]]
      BY <1>2 DEF ReleaseDeletedUpload
    <2>2. \A r \in Reservation : /\ [r EXCEPT !.charged = FALSE].state = r.state
                                 /\ [r EXCEPT !.charged = FALSE].sealed = r.sealed
      BY DEF Reservation
    <2>3. /\ reservation' \in [Attachments -> Reservation]
          /\ \A b \in Attachments : /\ reservation'[b].state = reservation[b].state
                                    /\ reservation'[b].sealed = reservation[b].sealed
      BY <2>1, <2>2, Reservations
    <2>4. usage' \in 0..Quota
      <3>1. usage' = Max({0, usage - 1})
        BY <1>2 DEF ReleaseDeletedUpload
      <3>2. usage' = IF usage = 0 THEN 0 ELSE usage - 1
        <4>1. PICK m \in {0, usage - 1} : m >= 0 /\ m >= usage - 1
          BY <1>1
        <4>2. \A n \in {0, usage - 1} : n >= 0 /\ n >= usage - 1 => n = m
          BY <1>1, <4>1
        <4>3. Max({0, usage - 1}) = m
          BY <4>1, <4>2, <1>1 DEF Max
        <4> QED BY <3>1, <4>1, <4>3, <1>1
      <3> QED BY <3>2, <1>1
    <2> QED BY <2>3, <2>4
  <1>3. CASE ~MayRelease(reservation[a])
    BY <1>3 DEF ReleaseDeletedUpload
  <1> QED BY <1>2, <1>3

LEMMA SweepRests == NoSweep \in Sweep /\ NoSweep.pc = "idle"
  BY DEF NoSweep, Sweep, SweepSteps

LEMMA Passing ==
    ASSUME NEW pc \in SweepSteps, NEW todo \in SUBSET Attachments, Pass(pc, todo)
    PROVE  sweep' \in Sweep /\ sweep'.pc = pc /\ sweep'.todo = todo
  <1>1. None \in Attachments \cup {None} /\ FALSE \in BOOLEAN
    OBVIOUS
  <1> QED BY <1>1, Zenon DEF Pass, NoSweep, Sweep

LEMMA Taking ==
    ASSUME sweep \in Sweep, NEW a \in Attachments, NEW pc \in SweepSteps, Take(a, pc)
    PROVE  /\ sweep' \in Sweep /\ sweep'.pc = pc /\ sweep'.cur = a
           /\ sweep'.todo = sweep.todo \ {a}
  BY DEF Take, Sweep

LEMMA Skipping ==
    ASSUME sweep \in Sweep, NEW a \in Attachments, Skip(a)
    PROVE  /\ sweep' \in Sweep /\ sweep'.pc = sweep.pc /\ sweep'.cur = sweep.cur
           /\ sweep'.todo = sweep.todo \ {a} /\ sweep'.known = sweep.known
  BY DEF Skip, Sweep

LEMMA GoingOn ==
    ASSUME sweep \in Sweep, NEW pc \in SweepSteps, GoOn(pc)
    PROVE  /\ sweep' \in Sweep /\ sweep'.pc = pc /\ sweep'.cur = sweep.cur
           /\ sweep'.todo = sweep.todo /\ sweep'.known = sweep.known
  BY DEF GoOn, Sweep

-----------------------------------------------------------------------------
(* Types and cursors: whatever a page removes or republishes *)

BaseInv == TypeOK /\ Cursors

\* Nothing but these four changes, and each keeps its type; the cursors stand.
LEMMA BaseFrame ==
    ASSUME BaseInv, reservation' \in [Attachments -> Reservation], usage' \in 0..Quota,
           removal' \in Removal, sweep' \in Sweep, Cursors',
           UNCHANGED <<object, upload, parent, proof, record, maintenance, published, faults>>
    PROVE  BaseInv'
  BY DEF BaseInv, TypeOK, Removal, Sweep

LEMMA RetiringTypes ==
    ASSUME reservation \in [Attachments -> Reservation], NEW a \in Attachments,
           \/ reservation' = reservation
           \/ reservation' = [reservation EXCEPT ![a] = Retire(@)]
           \/ reservation' = [reservation EXCEPT ![a] = Tombstone]
    PROVE  reservation' \in [Attachments -> Reservation]
  <1>1. reservation[a] \in Reservation
    OBVIOUS
  <1>2. Retire(reservation[a]) \in Reservation /\ Tombstone \in Reservation
    BY <1>1, Reservations
  <1> QED BY <1>2

LEMMA BaseClient ==
    ASSUME BaseInv, Client
    PROVE  BaseInv'
  <1>1. ASSUME NEW a \in Attachments, ReserveAttachment(a) PROVE BaseInv'
    <2> DEFINE r == [NoReservation EXCEPT !.state = "reserved", !.charged = TRUE]
    <2>1. r \in Reservation
      BY Zenon DEF NoReservation, Reservation
    <2>2. reservation' = [reservation EXCEPT ![a] = r]
      BY <1>1 DEF ReserveAttachment
    <2> HIDE DEF r
    <2>3. reservation' \in [Attachments -> Reservation]
      BY <2>1, <2>2, OneReservation DEF BaseInv
    <2>4. usage' \in 0..Quota
      BY <1>1, AttachmentAssumption DEF ReserveAttachment, BaseInv, TypeOK
    <2> QED BY <1>1, <2>3, <2>4 DEF BaseInv, TypeOK, Cursors, ReserveAttachment
  <1>2. ASSUME NEW a \in Attachments, StartUpload(a) \/ FinishUpload(a) \/ LoseUpload(a)
        PROVE  BaseInv'
    BY <1>2 DEF BaseInv, TypeOK, Cursors, StartUpload, FinishUpload, LoseUpload, documents
  <1>3. ASSUME NEW a \in Attachments, RemoveAttachment(a) PROVE BaseInv'
    <2>1. removal' \in Removal /\ removal'.cur = a
      BY <1>3 DEF RemoveAttachment, Removal, RemovalSteps
    <2> QED BY <1>3, <2>1 DEF BaseInv, TypeOK, Cursors, Removal, RemoveAttachment, documents
  <1>4. CASE ReserveResource
    BY <1>4 DEF BaseInv, TypeOK, Cursors, ReserveResource
  <1>5. ASSUME NEW files \in SUBSET Selectable, SaveDraft(files) PROVE BaseInv'
    BY <1>5 DEF BaseInv, TypeOK, Cursors, SaveDraft, Selectable
  <1>6. ASSUME NEW files \in SUBSET Selectable, AttestPublication(files) PROVE BaseInv'
    <2>1. \A r \in Reservation : [r EXCEPT !.sealed = TRUE] \in Reservation
      BY Reservations
    <2>2. reservation' \in [Attachments -> Reservation]
      BY <1>6, <2>1 DEF AttestPublication, BaseInv, TypeOK
    <2> QED BY <1>6, <2>2 DEF BaseInv, TypeOK, Cursors, AttestPublication, Selectable
  <1>7. CASE DeleteDraft \/ CommitPublication
    BY <1>7 DEF BaseInv, TypeOK, Cursors, DeleteDraft, CommitPublication
  <1> QED BY <1>1, <1>2, <1>3, <1>4, <1>5, <1>6, <1>7 DEF Client

LEMMA BaseRemoval ==
    ASSUME BaseInv, RemovalStep
    PROVE  BaseInv'
  <1>1. /\ removal \in Removal /\ sweep \in Sweep /\ removal.cur \in Attachments
        /\ reservation \in [Attachments -> Reservation] /\ usage \in 0..Quota
        /\ NoRemoval \in Removal /\ NoRemoval.pc = "idle"
    BY DEF BaseInv, TypeOK, Cursors, Removal, Sweep, RemovalStep, RetireForRemoval,
           DeleteRemoved, ReleaseRemoved, NoRemoval, RemovalSteps
  <1>2. \A pc \in RemovalSteps :
           /\ [removal EXCEPT !.pc = pc] \in Removal
           /\ [removal EXCEPT !.pc = pc].cur = removal.cur
    BY <1>1 DEF Removal
  <1>3. CASE RetireForRemoval
    <2>1. /\ removal' \in Removal
          /\ removal'.pc # "idle" => removal'.cur \in Attachments
      BY <1>1, <1>2, <1>3 DEF RetireForRemoval, RemovalSteps
    <2>2. reservation' \in [Attachments -> Reservation]
      BY <1>1, <1>3, RetiringTypes DEF RetireForRemoval
    <2>3. Cursors'
      BY <1>3, <2>1 DEF Cursors, BaseInv, RetireForRemoval
    <2> QED BY <1>1, <1>3, <2>1, <2>2, <2>3, BaseFrame DEF RetireForRemoval
  <1>4. CASE DeleteRemoved
    <2>1. removal' \in Removal /\ removal'.cur \in Attachments
      BY <1>1, <1>2, <1>4 DEF DeleteRemoved, RemovalSteps
    <2> QED BY <1>4, <2>1 DEF BaseInv, TypeOK, Cursors, Removal, DeleteRemoved, documents
  <1>5. CASE ReleaseRemoved
    <2>1. reservation' \in [Attachments -> Reservation] /\ usage' \in 0..Quota
      BY <1>1, <1>5, ReleaseTypes DEF ReleaseRemoved
    <2>2. Cursors'
      BY <1>1, <1>5 DEF Cursors, BaseInv, ReleaseRemoved
    <2> QED BY <1>1, <1>5, <2>1, <2>2, BaseFrame DEF ReleaseRemoved
  <1> QED BY <1>3, <1>4, <1>5 DEF RemovalStep

LEMMA BaseSweep ==
    ASSUME BaseInv, StartSweep \/ SweepStep
    PROVE  BaseInv'
  <1>1. /\ removal \in Removal /\ sweep \in Sweep
        /\ reservation \in [Attachments -> Reservation] /\ usage \in 0..Quota
    BY DEF BaseInv, TypeOK, Removal, Sweep
  <1>2. ASSUME NEW a \in Attachments, LookForObject(a) \/ CheckObject(a)
        PROVE  sweep' \in Sweep /\ (sweep'.pc \in Holding => sweep'.cur \in Attachments)
    <2>1. CASE Skip(a) /\ sweep.pc \notin Holding
      BY <1>1, <2>1, Skipping
    <2>2. ASSUME NEW pc \in SweepSteps, Take(a, pc)
          PROVE  sweep' \in Sweep /\ sweep'.cur \in Attachments
      BY <1>1, <2>2, Taking
    <2> QED BY <1>2, <2>1, <2>2 DEF LookForObject, CheckObject, SweepSteps, Holding
  <1>3. CASE StartSweep \/ NextPass
    <2>1. ASSUME NEW pc \in SweepSteps, NEW todo \in SUBSET Attachments, Pass(pc, todo)
          PROVE  sweep' \in Sweep /\ sweep'.pc = pc
      BY <2>1, Passing
    <2>2. sweep' \in Sweep /\ sweep'.pc \notin Holding
      BY <1>3, <2>1, SweepRests DEF StartSweep, NextPass, AwaitingRelease, SweepSteps, Holding
    <2> QED BY <1>3, <2>2
            DEF StartSweep, NextPass, SweepOnly, documents, BaseInv, TypeOK, Cursors, Sweep
  <1>4. ASSUME sweep.pc \in Holding, NEW pc \in SweepSteps, GoOn(pc)
        PROVE  sweep' \in Sweep /\ sweep'.cur \in Attachments
    BY <1>1, <1>4, GoingOn DEF BaseInv, Cursors
  <1>5. ASSUME NEW a \in Attachments, LookForObject(a) \/ CheckObject(a) PROVE BaseInv'
    BY <1>2, <1>5
       DEF LookForObject, CheckObject, SweepOnly, documents, BaseInv, TypeOK, Cursors, Sweep
  <1>6. CASE LookUpReservation \/ RecheckObject
    <2>1. sweep' \in Sweep /\ sweep'.cur \in Attachments
      <3>1. CASE LookUpReservation
        BY <1>1, <3>1
           DEF LookUpReservation, Sweep, SweepSteps, BaseInv, Cursors, Holding
      <3>2. CASE RecheckObject
        BY <1>4, <3>2 DEF RecheckObject, SweepSteps, Holding
      <3> QED BY <1>6, <3>1, <3>2
    <2> QED BY <1>6, <2>1 DEF LookUpReservation, RecheckObject, SweepOnly, documents,
                              BaseInv, TypeOK, Cursors, Sweep
  <1>7. CASE RetireAbandoned \/ RetireObject
    <2>1. sweep.cur \in Attachments
      BY <1>7 DEF RetireAbandoned, RetireObject, BaseInv, Cursors, Holding, SweepSteps
    <2>2. reservation' \in [Attachments -> Reservation]
      BY <1>1, <1>7, <2>1, RetiringTypes DEF RetireAbandoned, RetireObject
    <2>3. sweep' \in Sweep /\ (sweep'.pc \in Holding => sweep'.cur \in Attachments)
      <3>1. CASE sweep' = NoSweep
        BY <3>1, SweepRests DEF Holding
      <3>2. CASE \E pc \in SweepSteps : GoOn(pc)
        BY <1>4, <1>7, <3>2 DEF RetireAbandoned, RetireObject, Holding, SweepSteps
      <3> QED BY <1>7, <3>1, <3>2 DEF RetireAbandoned, RetireObject, SweepSteps
    <2>4. Cursors'
      BY <1>7, <2>3 DEF RetireAbandoned, RetireObject, BaseInv, Cursors
    <2> QED BY <1>1, <1>7, <2>2, <2>3, <2>4, BaseFrame DEF RetireAbandoned, RetireObject
  <1>8. CASE ReleaseSwept
    <2>1. /\ sweep.cur \in Attachments
          /\ sweep.pc \in Holding /\ \E pc \in SweepSteps : GoOn(pc)
      BY <1>8 DEF ReleaseSwept, BaseInv, Cursors, Holding, SweepSteps
    <2>2. reservation' \in [Attachments -> Reservation] /\ usage' \in 0..Quota
      BY <1>1, <1>8, <2>1, ReleaseTypes DEF ReleaseSwept
    <2>3. sweep' \in Sweep /\ sweep'.cur \in Attachments
      BY <1>4, <2>1
    <2>4. Cursors'
      BY <1>8, <2>3 DEF ReleaseSwept, BaseInv, Cursors
    <2> QED BY <1>1, <1>8, <2>2, <2>3, <2>4, BaseFrame DEF ReleaseSwept
  <1>9. CASE DeleteObject
    <2>1. sweep' \in Sweep /\ sweep'.cur \in Attachments
      BY <1>4, <1>9 DEF DeleteObject, SweepSteps, Holding
    <2> QED BY <1>9, <2>1 DEF DeleteObject, documents, BaseInv, TypeOK, Cursors, Sweep
  <1> QED BY <1>3, <1>5, <1>6, <1>7, <1>8, <1>9 DEF SweepStep

LEMMA BaseRest ==
    ASSUME BaseInv, Kill \/ Ageing \/ BeginMaintenance \/ Retirement
    PROVE  BaseInv'
  <1>1. /\ NoRemoval \in Removal /\ NoRemoval.pc = "idle"
        /\ NoSweep \in Sweep /\ NoSweep.pc \notin Holding
    BY SweepRests DEF NoRemoval, Removal, RemovalSteps, Holding
  <1>2. faults \in 0..MaxFaults /\ MaxFaults \in Nat
    BY AttachmentAssumption DEF BaseInv, TypeOK
  <1>3. CASE Kill
    <2>1. /\ faults' \in 0..MaxFaults /\ UNCHANGED <<documents, object, upload>>
          /\ \/ removal' = NoRemoval /\ sweep' = sweep
             \/ sweep' = NoSweep /\ removal' = removal
      BY <1>2, <1>3 DEF Kill
    <2> QED BY <1>1, <2>1 DEF documents, BaseInv, TypeOK, Cursors, Removal, Sweep
  <1>4. CASE BeginMaintenance
    <2>1. faults' \in 0..MaxFaults
      BY <1>2, <1>4 DEF BeginMaintenance
    <2> QED BY <1>4, <2>1 DEF BeginMaintenance, BaseInv, TypeOK, Cursors
  <1>5. ASSUME NEW a \in Attachments, Abandon(a) \/ RetireReservation(a) PROVE BaseInv'
    <2>1. reservation' \in [Attachments -> Reservation]
      <3>1. reservation[a] \in Reservation
        BY DEF BaseInv, TypeOK
      <3>2. PICK r \in Reservation : reservation' = [reservation EXCEPT ![a] = r]
        <4>1. CASE Abandon(a)
          BY <3>1, <4>1, Reservations DEF Abandon
        <4>2. CASE RetireReservation(a)
          <5>1. reservation' = [reservation EXCEPT
                    ![a] = [reservation[a] EXCEPT !.state = "retired", !.sealed = TRUE]]
            BY <4>2, Zenon DEF RetireReservation
          <5> QED BY <3>1, <5>1, Reservations
        <4> QED BY <1>5, <4>1, <4>2
      <3> QED BY <3>2, OneReservation DEF BaseInv
    <2> QED BY <1>5, <2>1 DEF Abandon, RetireReservation, BaseInv, TypeOK, Cursors
  <1>6. ASSUME NEW a \in Attachments, GrowOld(a) PROVE BaseInv'
    BY <1>6 DEF GrowOld, documents, BaseInv, TypeOK, Cursors
  <1>7. CASE RetireRecord \/ EndMaintenance
    BY <1>7 DEF RetireRecord, EndMaintenance, BaseInv, TypeOK, Cursors
  <1>8. CASE RetireParent
    BY <1>8 DEF RetireParent, BaseInv, TypeOK, Cursors
  <1>9. CASE RetireProof
    BY <1>9 DEF RetireProof, BaseInv, TypeOK, Cursors
  <1> QED BY <1>3, <1>4, <1>5, <1>6, <1>7, <1>8, <1>9 DEF Ageing, Retirement

LEMMA BaseNext == BaseInv /\ [Next]_vars => BaseInv'
  <1>1. ASSUME BaseInv, UNCHANGED vars PROVE BaseInv'
    BY <1>1 DEF vars, documents, BaseInv, TypeOK, Cursors
  <1> QED BY <1>1, BaseClient, BaseRemoval, BaseSweep, BaseRest DEF Next

-----------------------------------------------------------------------------
(* What is listed, and what a removal and a sweep know *)

\* The sweep moves and nothing else does.
LEMMA SweepMoves ==
    ASSUME StorageInv, SweepOnly, sweep' \in Sweep
    PROVE  ListedInv' /\ RemovalInv'
  BY DEF StorageInv, Safety, SweepOnly, documents, ListedInv, RemovalInv, Reserved, Condemned

\* A reservation that is not sealed is retired, or a file without one that no
\* publication lists gets its tombstone.
Condemns(a) ==
    /\ ~reservation[a].sealed
    /\ \/ reservation' = [reservation EXCEPT ![a] = Retire(@)] /\ Reserved(a)
       \/ /\ reservation' = [reservation EXCEPT ![a] = Tombstone]
          /\ Reserved(a) \/ a \notin published \cup proof.files

LEMMA CondemningKeeps ==
    ASSUME StorageInv, NEW a \in Attachments, Condemns(a),
           UNCHANGED <<object, upload, parent, proof, record, published>>
    PROVE  /\ reservation' \in [Attachments -> Reservation]
           /\ Condemned(a)'
           /\ \A b \in Attachments : b # a => reservation'[b] = reservation[b]
           /\ ListedInv'
  <1>1. reservation \in [Attachments -> Reservation]
    BY DEF StorageInv, TypeOK
  <1>2. PICK r \in Reservation : /\ reservation' = [reservation EXCEPT ![a] = r]
                                 /\ r.state = "retired" /\ ~r.sealed
    <2>1. CASE reservation' = [reservation EXCEPT ![a] = Tombstone]
      BY <2>1, Reservations
    <2>2. CASE reservation' = [reservation EXCEPT ![a] = Retire(@)]
      <3>1. reservation[a] \in Reservation
        BY <1>1
      <3> QED BY <3>1, <2>2, Reservations DEF Condemns
    <2> QED BY <2>1, <2>2 DEF Condemns
  <1>3. /\ reservation' \in [Attachments -> Reservation]
        /\ reservation'[a].state = "retired" /\ ~reservation'[a].sealed
        /\ \A b \in Attachments : b # a => reservation'[b] = reservation[b]
    BY <1>1, <1>2, OneReservation DEF StorageInv
  <1>4. a \notin published \cup proof.files
    BY DEF StorageInv, Safety, ListedInv, Condemns
  <1>5. ListedInv'
    BY <1>3, <1>4, AttachmentAssumption DEF StorageInv, Safety, ListedInv, TypeOK, Reserved
  <1> QED BY <1>3, <1>5 DEF Condemned

LEMMA ReleaseKeeps ==
    ASSUME StorageInv, NEW a \in Attachments, ReleaseDeletedUpload(a),
           UNCHANGED <<object, upload, parent, proof, record, published>>
    PROVE  /\ reservation' \in [Attachments -> Reservation]
           /\ \A b \in Attachments : /\ reservation'[b].state = reservation[b].state
                                     /\ reservation'[b].sealed = reservation[b].sealed
           /\ ListedInv'
  <1>1. reservation \in [Attachments -> Reservation] /\ usage \in 0..Quota
    BY DEF StorageInv, TypeOK
  <1>2. /\ reservation' \in [Attachments -> Reservation]
        /\ \A b \in Attachments : /\ reservation'[b].state = reservation[b].state
                                  /\ reservation'[b].sealed = reservation[b].sealed
    BY <1>1, ReleaseTypes
  <1> QED BY <1>2 DEF StorageInv, Safety, TypeOK, ListedInv, Reserved

-----------------------------------------------------------------------------
(* The client *)

LEMMA ReserveKeeps ==
    ASSUME StorageInv, NEW a \in Attachments, ReserveAttachment(a)
    PROVE  Safety'
  <1>1. PICK r \in Reservation : /\ reservation' = [reservation EXCEPT ![a] = r]
                                 /\ r.state = "reserved" /\ ~r.sealed
    <2> DEFINE r == [NoReservation EXCEPT !.state = "reserved", !.charged = TRUE]
    <2>1. r \in Reservation
      BY Zenon DEF NoReservation, Reservation
    <2>2. r.state = "reserved" /\ ~r.sealed
      BY DEF NoReservation
    <2>3. reservation' = [reservation EXCEPT ![a] = r]
      BY DEF ReserveAttachment
    <2> QED BY <2>1, <2>2, <2>3
  <1>2. /\ reservation' \in [Attachments -> Reservation]
        /\ reservation'[a].state = "reserved" /\ ~reservation'[a].sealed
        /\ \A b \in Attachments : b # a => reservation'[b] = reservation[b]
    BY <1>1, OneReservation DEF StorageInv
  <1>4. ListedInv'
    <2>1. a \notin published \cup proof.files
      BY DEF StorageInv, Safety, ListedInv, Reserved, ReserveAttachment
    <2> QED BY <1>2, <2>1 DEF StorageInv, Safety, TypeOK, ListedInv, Reserved, ReserveAttachment, Open
  <1>5. RemovalInv' /\ SweepInv'
    BY <1>2 DEF StorageInv, Safety, TypeOK, Cursors, Holding, SweepSteps, RemovalInv, SweepInv,
                Reserved, Condemned, ReserveAttachment
  <1> QED BY <1>4, <1>5 DEF Safety

LEMMA TransferKeeps ==
    ASSUME StorageInv, NEW a \in Attachments,
           StartUpload(a) \/ FinishUpload(a) \/ LoseUpload(a) \/ GrowOld(a)
    PROVE  Safety'
  <1>1. CASE StartUpload(a)
    BY <1>1, AttachmentAssumption
       DEF StartUpload, MayUpload, documents, StorageInv, Safety, TypeOK, Cursors, ListedInv,
           RemovalInv, SweepInv, Condemned, Reserved
  <1>2. CASE FinishUpload(a)
    BY <1>2, AttachmentAssumption
       DEF FinishUpload, documents, StorageInv, Safety, TypeOK, Cursors, ListedInv,
           RemovalInv, SweepInv, Condemned, Reserved
  <1>3. CASE LoseUpload(a)
    BY <1>3, AttachmentAssumption
       DEF LoseUpload, documents, StorageInv, Safety, TypeOK, Cursors, ListedInv, RemovalInv,
           SweepInv, Condemned, Reserved
  <1>4. CASE GrowOld(a)
    BY <1>4, AttachmentAssumption
       DEF GrowOld, documents, StorageInv, Safety, TypeOK, Cursors, ListedInv, RemovalInv,
           SweepInv, Condemned, Reserved
  <1> QED BY <1>1, <1>2, <1>3, <1>4

LEMMA RecordKeeps ==
    ASSUME StorageInv,
           (\E files \in SUBSET Selectable : SaveDraft(files))
              \/ ReserveResource \/ DeleteDraft \/ CommitPublication
    PROVE  Safety'
  <1>1. ASSUME NEW files \in SUBSET Selectable, SaveDraft(files)
        PROVE  Safety'
    BY <1>1
       DEF SaveDraft, Selectable, StorageInv, Safety, TypeOK, Cursors, ListedInv, RemovalInv,
           SweepInv, Condemned, Reserved
  <1>2. CASE DeleteDraft
    BY <1>2
       DEF DeleteDraft, StorageInv, Safety, TypeOK, Cursors, ListedInv, RemovalInv, SweepInv,
           Condemned, Reserved
  <1>3. CASE CommitPublication
    BY <1>3
       DEF CommitPublication, StorageInv, Safety, TypeOK, Cursors, ListedInv, RemovalInv,
           SweepInv, Condemned, Reserved
  <1>4. CASE ReserveResource
    BY <1>4
       DEF ReserveResource, Open, StorageInv, Safety, TypeOK, Cursors, ListedInv, RemovalInv,
           SweepInv, Condemned, Reserved
  <1> QED BY <1>1, <1>2, <1>3, <1>4

LEMMA AttestKeeps ==
    ASSUME StorageInv, NEW files \in SUBSET Selectable, AttestPublication(files),
           SweepSeesThePublication
    PROVE  Safety'
  <1> DEFINE seals(b) == b \in files /\ reservation[b].state # "none"
  <1>1. reservation \in [Attachments -> Reservation]
    BY DEF StorageInv, TypeOK
  <1>2. \A b \in Attachments :
           reservation'[b] = IF seals(b) THEN [reservation[b] EXCEPT !.sealed = TRUE]
                             ELSE reservation[b]
    BY DEF AttestPublication
  <1>3. /\ reservation' \in [Attachments -> Reservation]
        /\ \A b \in Attachments :
              /\ reservation'[b].state = reservation[b].state
              /\ seals(b) => reservation'[b].sealed
              /\ ~seals(b) => reservation'[b] = reservation[b]
    <2>1. \A r \in Reservation :
             LET new == [r EXCEPT !.sealed = TRUE]
             IN  new \in Reservation /\ new.state = r.state /\ new.sealed
      BY DEF Reservation
    <2>2. ASSUME NEW b \in Attachments
          PROVE  /\ reservation'[b] \in Reservation
                 /\ reservation'[b].state = reservation[b].state
                 /\ seals(b) => reservation'[b].sealed
                 /\ ~seals(b) => reservation'[b] = reservation[b]
      <3>1. reservation[b] \in Reservation
        BY <1>1
      <3> QED BY <3>1, <1>2, <2>1
    <2>3. reservation' = [b \in Attachments |-> reservation'[b]]
      BY DEF AttestPublication
    <2> QED BY <2>2, <2>3
  <1>4. \A b \in files : /\ b \in Attachments /\ upload[b] = "done"
                         /\ reservation[b].state # "retired"
    BY DEF AttestPublication, MayAttest, Selectable
  <1> HIDE DEF seals
  <1>6. ListedInv'
    <2>1. \A b \in files : object[b] # "absent" /\ (seals(b) \/ ~Reserved(b))
      BY <1>4 DEF StorageInv, Safety, ListedInv, seals, Reserved
    <2>2. record' = "reserved" /\ record # "retired"
      BY DEF AttestPublication, Open
    <2> QED BY <1>3, <1>4, <2>1, <2>2, AttachmentAssumption
            DEF StorageInv, Safety, TypeOK, ListedInv, Reserved, AttestPublication
  <1>7. \A b \in files : ~Condemned(b)
    BY <1>4 DEF Condemned
  <1>8. \A b \in Attachments : /\ Reserved(b)' <=> Reserved(b)
                               /\ Condemned(b) => Condemned(b)'
    BY <1>3, <1>7 DEF Reserved, Condemned, seals
  <1>9. RemovalInv'
    BY <1>8 DEF StorageInv, Safety, Cursors, RemovalInv, AttestPublication
  <1>10. SweepInv'
    <2>1. sweep.pc \in {"lookup", "retireObject"} /\ sweep.cur \in proof.files
            => sweep.cur \in files
      BY DEF AttestPublication, SweepSeesThePublication
    <2>2. sweep' = sweep /\ published' = published /\ proof'.files = files
      BY DEF AttestPublication
    <2> QED BY <1>8, <2>1, <2>2 DEF StorageInv, Safety, TypeOK, Cursors, Holding, SweepSteps, SweepInv
  <1> QED BY <1>6, <1>9, <1>10 DEF Safety

-----------------------------------------------------------------------------
(* A removal *)

LEMMA RemoveKeeps ==
    ASSUME StorageInv, NEW a \in Attachments, RemoveAttachment(a), PagesRemoveWhatExists
    PROVE  Safety'
  <1>1. removal' \in Removal /\ removal'.pc = "retire" /\ removal'.cur = a
    BY DEF RemoveAttachment, Removal, RemovalSteps
  <1>2. /\ UNCHANGED <<reservation, usage, object, upload, parent, proof, record,
                       maintenance, sweep, published, faults>>
        /\ removal'.saw <=> object[a] # "absent"
    BY DEF RemoveAttachment, documents
  <1>3. a \in Legacy \/ Reserved(a)
    BY <1>1 DEF RemoveAttachment, PagesRemoveWhatExists, Reserved
  <1>5. ListedInv' /\ SweepInv'
    BY <1>2 DEF StorageInv, Safety, ListedInv, SweepInv, Reserved, Condemned
  <1>6. RemovalInv'
    BY <1>1, <1>2, <1>3 DEF StorageInv, Safety, ListedInv, RemovalInv, Reserved
  <1> QED BY <1>5, <1>6 DEF Safety

\* A condemned reservation leaves what the removal and the sweep rely on.
LEMMA CondemningSpares ==
    ASSUME StorageInv, NEW a \in Attachments, Condemned(a)',
           \A b \in Attachments : b # a => reservation'[b] = reservation[b]
    PROVE  \A b \in Attachments : /\ Condemned(b) => Condemned(b)'
                                  /\ Reserved(b) => Reserved(b)'
  <1> TAKE b \in Attachments
  <1>1. CASE b = a
    BY <1>1 DEF Condemned, Reserved
  <1>2. CASE b # a
    BY <1>2 DEF Condemned, Reserved
  <1> QED BY <1>1, <1>2

LEMMA RetireForRemovalKeeps ==
    ASSUME StorageInv, RetireForRemoval
    PROVE  Safety'
  <1>0. PICK a \in Attachments : a = removal.cur
    BY DEF RetireForRemoval, StorageInv, Cursors
  <1>1. /\ removal.pc = "retire" /\ removal \in Removal
        /\ UNCHANGED <<usage, object, upload, parent, proof, record, maintenance,
                       sweep, published, faults>>
    BY DEF RetireForRemoval, StorageInv, TypeOK, Cursors, Removal
  <1>2. CASE ~MayRemove(a)
    <2>1. removal' = NoRemoval /\ reservation' = reservation
      BY <1>0, <1>2 DEF RetireForRemoval
    <2>2. NoRemoval \in Removal /\ NoRemoval.pc = "idle"
      BY DEF NoRemoval, Removal, RemovalSteps
    <2>4. ListedInv' /\ RemovalInv' /\ SweepInv'
      BY <1>1, <2>1, <2>2
         DEF StorageInv, Safety, ListedInv, RemovalInv, SweepInv, Reserved, Condemned
    <2> QED BY <2>4 DEF Safety
  <1>3. CASE MayRemove(a)
    <2>1. removal' = [removal EXCEPT !.pc = "delete"]
      BY <1>0, <1>3 DEF RetireForRemoval
    <2>2. removal' \in Removal /\ removal'.pc = "delete" /\ removal'.cur = a
      BY <1>0, <1>1, <2>1 DEF Removal, RemovalSteps
    <2>3. a \notin published \cup proof.files
      BY <1>3 DEF MayRemove, Open, StorageInv, Safety, ListedInv
    <2>4. Condemns(a)
      <3>1. Reserved(a) \/ removal.saw
        BY <1>0, <1>1 DEF StorageInv, Safety, RemovalInv
      <3> QED BY <1>0, <1>3, <2>3, <3>1 DEF RetireForRemoval, MayRemove, Condemns, Reserved
    <2>5. /\ reservation' \in [Attachments -> Reservation]
          /\ Condemned(a)'
          /\ \A b \in Attachments : b # a => reservation'[b] = reservation[b]
          /\ ListedInv'
      BY <1>1, <2>4, CondemningKeeps
    <2>7. \A b \in Attachments : /\ Condemned(b) => Condemned(b)'
                                 /\ Reserved(b) => Reserved(b)'
      BY <1>1, <2>5, CondemningSpares
    <2>8. RemovalInv'
      BY <1>0, <2>2, <2>5 DEF RemovalInv, Condemned
    <2>9. SweepInv'
      BY <1>1, <2>7 DEF StorageInv, Safety, TypeOK, Cursors, Holding, SweepSteps, SweepInv
    <2> QED BY <2>5, <2>8, <2>9 DEF Safety
  <1> QED BY <1>2, <1>3

LEMMA DeleteRemovedKeeps ==
    ASSUME StorageInv, DeleteRemoved
    PROVE  Safety'
  BY DEF DeleteRemoved, documents, StorageInv, Safety, TypeOK, Cursors, ListedInv, RemovalInv,
         SweepInv, Condemned, Reserved, RemovalSteps

LEMMA ReleaseSpares ==
    ASSUME \A b \in Attachments : /\ reservation'[b].state = reservation[b].state
                                  /\ reservation'[b].sealed = reservation[b].sealed
    PROVE  \A b \in Attachments : /\ Condemned(b)' <=> Condemned(b)
                                  /\ Reserved(b)' <=> Reserved(b)
  BY DEF Condemned, Reserved

LEMMA ReleaseRemovedKeeps ==
    ASSUME StorageInv, ReleaseRemoved
    PROVE  Safety'
  <1>0. PICK a \in Attachments : a = removal.cur
    BY DEF ReleaseRemoved, StorageInv, Cursors
  <1>1. /\ ReleaseDeletedUpload(a)
        /\ removal' = NoRemoval
        /\ UNCHANGED <<object, upload, parent, proof, record, maintenance, sweep,
                       published, faults>>
    BY <1>0 DEF ReleaseRemoved
  <1>2. /\ reservation' \in [Attachments -> Reservation]
        /\ \A b \in Attachments : /\ reservation'[b].state = reservation[b].state
                                  /\ reservation'[b].sealed = reservation[b].sealed
        /\ ListedInv'
    BY <1>1, ReleaseKeeps
  <1>3. NoRemoval \in Removal /\ NoRemoval.pc = "idle"
    BY DEF NoRemoval, Removal, RemovalSteps
  <1>5. RemovalInv'
    BY <1>1, <1>3 DEF RemovalInv
  <1>6. SweepInv'
    BY <1>1, <1>2, ReleaseSpares
       DEF StorageInv, Safety, TypeOK, Cursors, Holding, SweepSteps, SweepInv
  <1> QED BY <1>2, <1>5, <1>6 DEF Safety

-----------------------------------------------------------------------------
(* The sweep *)

LEMMA StartSweepKeeps ==
    ASSUME StorageInv, StartSweep
    PROVE  Safety'
  <1>1. PICK todo \in SUBSET Attachments : Pass("abandoned", todo)
                                           /\ \A a \in todo : Reserved(a)
    BY DEF StartSweep, Reserved
  <1>2. sweep' \in Sweep /\ sweep'.pc = "abandoned" /\ sweep'.todo = todo
    BY <1>1, Passing DEF SweepSteps
  <1>3. SweepOnly
    BY DEF StartSweep
  <1>4. ListedInv' /\ RemovalInv'
    BY <1>2, <1>3, SweepMoves
  <1>5. SweepInv'
    BY <1>1, <1>2, <1>3
       DEF StorageInv, Safety, Cursors, Holding, SweepInv, SweepOnly, documents, Reserved
  <1> QED BY <1>4, <1>5 DEF Safety

LEMMA NextPassKeeps ==
    ASSUME StorageInv, NextPass
    PROVE  Safety'
  <1>1. sweep' \in Sweep /\ sweep'.pc \in {"retired", "objects", "idle"}
    <2>1. CASE Pass("retired", AwaitingRelease)
      BY <2>1, Passing DEF SweepSteps, AwaitingRelease
    <2>2. CASE Pass("objects", {a \in Attachments : object[a] = "old"})
      BY <2>2, Passing DEF SweepSteps
    <2>3. CASE sweep' = NoSweep
      BY <2>3, SweepRests
    <2> QED BY <2>1, <2>2, <2>3 DEF NextPass
  <1>2. SweepOnly
    BY DEF NextPass
  <1>3. ListedInv' /\ RemovalInv'
    BY <1>1, <1>2, SweepMoves
  <1>4. SweepInv'
    BY <1>1, <1>2 DEF StorageInv, Safety, Cursors, Holding, SweepInv, SweepOnly, documents
  <1> QED BY <1>3, <1>4 DEF Safety

LEMMA LookForObjectKeeps ==
    ASSUME StorageInv, NEW a \in Attachments, LookForObject(a)
    PROVE  Safety'
  <1>1. sweep \in Sweep /\ SweepOnly
    BY DEF StorageInv, TypeOK, Sweep, LookForObject
  <1>2. /\ sweep' \in Sweep
        /\ \/ /\ sweep.pc \in {"abandoned", "retired"} /\ sweep'.pc = sweep.pc
              /\ sweep'.todo = sweep.todo \ {a}
           \/ /\ sweep.pc = "abandoned" /\ sweep'.pc = "retireAbandoned"
              /\ a \in sweep.todo /\ sweep'.cur = a /\ sweep'.todo = sweep.todo \ {a}
           \/ sweep'.pc = "releaseRetired" /\ sweep'.cur = a
    <2>1. CASE sweep.pc \in {"abandoned", "retired"} /\ Skip(a)
      BY <2>1, <1>1, Skipping
    <2>2. CASE sweep.pc = "abandoned" /\ a \in sweep.todo /\ Take(a, "retireAbandoned")
      BY <2>2, <1>1, Taking DEF SweepSteps
    <2>3. CASE Take(a, "releaseRetired")
      BY <2>3, <1>1, Taking DEF SweepSteps
    <2> QED BY <2>1, <2>2, <2>3 DEF LookForObject
  <1>3. ListedInv' /\ RemovalInv'
    BY <1>1, <1>2, SweepMoves
  <1>4. SweepInv'
    BY <1>1, <1>2 DEF StorageInv, Safety, Cursors, Holding, SweepInv, SweepOnly, documents, Reserved
  <1> QED BY <1>3, <1>4 DEF Safety

LEMMA CheckObjectKeeps ==
    ASSUME StorageInv, NEW a \in Attachments, CheckObject(a)
    PROVE  Safety'
  <1>1. sweep \in Sweep /\ SweepOnly /\ sweep.pc = "objects"
    BY DEF StorageInv, TypeOK, Sweep, CheckObject
  <1>2. /\ sweep' \in Sweep
        /\ \/ sweep'.pc = "objects"
           \/ sweep'.pc = "lookup" /\ sweep'.cur = a /\ ~MustRetain(a)
    <2>1. CASE Skip(a)
      BY <2>1, <1>1, Skipping
    <2>2. CASE ~MustRetain(a) /\ Take(a, "lookup")
      BY <2>2, <1>1, Taking DEF SweepSteps
    <2> QED BY <2>1, <2>2 DEF CheckObject
  <1>3. ListedInv' /\ RemovalInv'
    BY <1>1, <1>2, SweepMoves
  <1>4. Cursors'
    BY <1>1, <1>2 DEF StorageInv, Cursors, Holding, SweepOnly
  <1>5. SweepInv'
    <2>1. CASE sweep'.pc = "objects"
      BY <2>1 DEF SweepInv
    <2>2. CASE sweep'.pc = "lookup" /\ sweep'.cur = a /\ ~MustRetain(a)
      \* published without reservation: the record would still be published
      <3>1. Reserved(a) \/ a \notin published
        BY <2>2 DEF StorageInv, Safety, ListedInv, MustRetain, Reserved
      <3> QED BY <1>1, <2>2, <3>1 DEF SweepInv, SweepOnly, documents, Reserved
    <2> QED BY <1>2, <2>1, <2>2
  <1> QED BY <1>3, <1>4, <1>5 DEF Safety

LEMMA LookUpReservationKeeps ==
    ASSUME StorageInv, LookUpReservation
    PROVE  Safety'
  <1>1. sweep \in Sweep /\ SweepOnly /\ sweep.pc = "lookup" /\ sweep.cur \in Attachments
    BY DEF StorageInv, TypeOK, Sweep, LookUpReservation, Cursors, Holding, SweepSteps
  <1>2. /\ sweep' \in Sweep /\ sweep'.pc = "retireObject" /\ sweep'.cur = sweep.cur
        /\ sweep'.known <=> Reserved(sweep.cur)
    BY <1>1 DEF LookUpReservation, Sweep, SweepSteps, Reserved
  <1>3. ListedInv' /\ RemovalInv'
    BY <1>1, <1>2, SweepMoves
  <1>4. SweepInv'
    BY <1>1, <1>2 DEF StorageInv, Safety, Cursors, Holding, SweepInv, SweepOnly, documents, Reserved
  <1> QED BY <1>3, <1>4 DEF Safety

LEMMA RetireAbandonedKeeps ==
    ASSUME StorageInv, RetireAbandoned
    PROVE  Safety'
  <1>0. PICK a \in Attachments : a = sweep.cur
    BY DEF RetireAbandoned, StorageInv, Cursors, Holding, SweepSteps
  <1>1. /\ sweep \in Sweep /\ sweep.pc = "retireAbandoned" /\ removal \in Removal
        /\ UNCHANGED <<usage, object, upload, parent, proof, record, maintenance,
                       removal, published, faults>>
    BY DEF RetireAbandoned, StorageInv, TypeOK, Sweep, Removal
  <1>2. CASE reservation[a].sealed
    <2>1. sweep' = NoSweep /\ SweepOnly
      BY <1>0, <1>1, <1>2 DEF RetireAbandoned, SweepOnly, documents
    <2>2. ListedInv' /\ RemovalInv'
      BY <2>1, SweepRests, SweepMoves
    <2>3. SweepInv'
      BY <2>1, SweepRests DEF StorageInv, Safety, Cursors, Holding, SweepInv, SweepOnly
    <2> QED BY <2>2, <2>3 DEF Safety
  <1>3. CASE ~reservation[a].sealed
    <2>1. GoOn("releaseAbandoned") /\ reservation' = [reservation EXCEPT ![a] = Retire(@)]
      BY <1>0, <1>3 DEF RetireAbandoned
    <2>2. /\ sweep' \in Sweep /\ sweep'.pc = "releaseAbandoned" /\ sweep'.cur = a
          /\ sweep'.todo = sweep.todo
      BY <1>0, <1>1, <2>1, GoingOn DEF SweepSteps
    <2>3. Condemns(a)
      BY <1>0, <1>1, <1>3, <2>1 DEF Condemns, StorageInv, Safety, SweepInv
    <2>4. /\ reservation' \in [Attachments -> Reservation]
          /\ Condemned(a)'
          /\ \A b \in Attachments : b # a => reservation'[b] = reservation[b]
          /\ ListedInv'
      BY <1>1, <2>3, CondemningKeeps
    <2>5. \A b \in Attachments : /\ Condemned(b) => Condemned(b)'
                                 /\ Reserved(b) => Reserved(b)'
      BY <2>4, CondemningSpares
    <2>7. RemovalInv'
      BY <1>1, <2>5 DEF StorageInv, Safety, Cursors, RemovalInv
    <2>8. SweepInv'
      BY <1>1, <2>2, <2>5 DEF StorageInv, Safety, TypeOK, SweepInv
    <2> QED BY <2>4, <2>7, <2>8 DEF Safety
  <1> QED BY <1>2, <1>3

LEMMA RetireObjectKeeps ==
    ASSUME StorageInv, RetireObject
    PROVE  Safety'
  <1>0. PICK a \in Attachments : a = sweep.cur
    BY DEF RetireObject, StorageInv, Cursors, Holding, SweepSteps
  <1> DEFINE retires == sweep.known /\ ~reservation[a].sealed
             entombs == ~sweep.known /\ MayEntomb(a)
  <1>1. /\ sweep \in Sweep /\ sweep.pc = "retireObject" /\ removal \in Removal
        /\ UNCHANGED <<usage, object, upload, parent, proof, record, maintenance,
                       removal, published, faults>>
        /\ GoOn(IF retires \/ entombs THEN "recheck" ELSE "objects")
        /\ reservation' = IF retires THEN [reservation EXCEPT ![a] = Retire(@)]
                          ELSE IF entombs THEN [reservation EXCEPT ![a] = Tombstone]
                          ELSE reservation
    BY <1>0 DEF RetireObject, StorageInv, TypeOK, Sweep, Removal
  <1>2. CASE ~(retires \/ entombs)
    <2>1. GoOn("objects") /\ SweepOnly
      BY <1>1, <1>2 DEF SweepOnly, documents
    <2>2. sweep' \in Sweep /\ sweep'.pc = "objects"
      BY <1>1, <2>1, GoingOn DEF SweepSteps
    <2>3. ListedInv' /\ RemovalInv'
      BY <2>1, <2>2, SweepMoves
    <2>4. SweepInv'
      BY <2>1, <2>2 DEF StorageInv, Safety, Cursors, Holding, SweepInv, SweepOnly
    <2> QED BY <2>3, <2>4 DEF Safety
  <1>3. CASE retires \/ entombs
    <2>1. GoOn("recheck")
      BY <1>1, <1>3
    <2>2. sweep' \in Sweep /\ sweep'.pc = "recheck" /\ sweep'.cur = a
      BY <1>0, <1>1, <2>1, GoingOn DEF SweepSteps
    <2>3. Condemns(a)
      <3>1. CASE retires
        BY <1>0, <1>1, <3>1 DEF Condemns, StorageInv, Safety, SweepInv
      <3>2. CASE ~retires /\ entombs
        <4>1. ~Reserved(a) /\ a \notin proof.files
          BY <3>2 DEF MayEntomb, Reserved
        <4>2. a \notin published
          BY <1>0, <1>1, <4>1 DEF StorageInv, Safety, SweepInv
        <4>3. ~reservation[a].sealed
          BY <4>1 DEF StorageInv, Safety, ListedInv
        <4> QED BY <1>1, <3>2, <4>1, <4>2, <4>3 DEF Condemns
      <3> QED BY <1>3, <3>1, <3>2
    <2>4. /\ reservation' \in [Attachments -> Reservation]
          /\ Condemned(a)'
          /\ \A b \in Attachments : b # a => reservation'[b] = reservation[b]
          /\ ListedInv'
      BY <1>1, <2>3, CondemningKeeps
    <2>5. \A b \in Attachments : /\ Condemned(b) => Condemned(b)'
                                 /\ Reserved(b) => Reserved(b)'
      BY <2>4, CondemningSpares
    <2>7. RemovalInv'
      BY <1>1, <2>5 DEF StorageInv, Safety, Cursors, RemovalInv
    <2>8. SweepInv'
      BY <2>2, <2>4 DEF SweepInv, Condemned
    <2> QED BY <2>4, <2>7, <2>8 DEF Safety
  <1> QED BY <1>2, <1>3

LEMMA RecheckObjectKeeps ==
    ASSUME StorageInv, RecheckObject
    PROVE  Safety'
  <1>1. sweep \in Sweep /\ SweepOnly /\ sweep.pc = "recheck"
    BY DEF StorageInv, TypeOK, Sweep, RecheckObject
  <1>2. sweep' \in Sweep /\ sweep'.pc \in {"objects", "delete"} /\ sweep'.cur = sweep.cur
    <2>1. GoOn("objects") \/ GoOn("delete")
      BY DEF RecheckObject
    <2> QED BY <1>1, <2>1, GoingOn DEF SweepSteps
  <1>3. ListedInv' /\ RemovalInv'
    BY <1>1, <1>2, SweepMoves
  <1>4. SweepInv'
    BY <1>1, <1>2 DEF StorageInv, Safety, Cursors, Holding, SweepSteps, SweepInv, SweepOnly,
                      documents, Condemned
  <1> QED BY <1>3, <1>4 DEF Safety

\* The object that goes belongs to a condemned reservation.
LEMMA DeleteObjectKeeps ==
    ASSUME StorageInv, DeleteObject
    PROVE  Safety'
  <1>1. sweep \in Sweep /\ sweep.cur \in Attachments /\ Condemned(sweep.cur)
    BY DEF StorageInv, Safety, TypeOK, Sweep, Cursors, Holding, SweepSteps, SweepInv, DeleteObject
  <1>2. sweep' \in Sweep /\ sweep'.pc = "releaseObject" /\ sweep'.cur = sweep.cur
    BY <1>1, GoingOn DEF DeleteObject, SweepSteps
  <1>3. /\ object' = [object EXCEPT ![sweep.cur] = "absent"]
        /\ UNCHANGED <<documents, upload, removal, faults>>
    BY DEF DeleteObject
  <1>5. ListedInv'
    BY <1>1, <1>3 DEF StorageInv, Safety, TypeOK, ListedInv, Condemned, Reserved, documents
  <1>6. RemovalInv' /\ SweepInv'
    BY <1>2, <1>3 DEF StorageInv, Safety, RemovalInv, SweepInv, Condemned, Reserved, documents
  <1> QED BY <1>5, <1>6 DEF Safety

LEMMA ReleaseSweptKeeps ==
    ASSUME StorageInv, ReleaseSwept
    PROVE  Safety'
  <1>0. PICK a \in Attachments : a = sweep.cur
    BY DEF ReleaseSwept, StorageInv, Cursors, Holding, SweepSteps
  <1>1. /\ sweep \in Sweep /\ removal \in Removal
        /\ ReleaseDeletedUpload(a)
        /\ UNCHANGED <<object, upload, parent, proof, record, maintenance, removal,
                       published, faults>>
    BY <1>0 DEF ReleaseSwept, StorageInv, TypeOK, Sweep, Removal
  <1>2. /\ sweep' \in Sweep /\ sweep'.pc \in {"abandoned", "retired", "objects"}
        /\ sweep'.pc = "abandoned" => sweep.pc = "releaseAbandoned"
        /\ sweep'.todo = sweep.todo
    <2>1. CASE sweep.pc = "releaseAbandoned" /\ GoOn("abandoned")
      BY <1>1, <2>1, GoingOn DEF SweepSteps
    <2>2. CASE GoOn("retired")
      BY <1>1, <2>2, GoingOn DEF SweepSteps
    <2>3. CASE GoOn("objects")
      BY <1>1, <2>3, GoingOn DEF SweepSteps
    <2> QED BY <2>1, <2>2, <2>3 DEF ReleaseSwept
  <1>3. /\ reservation' \in [Attachments -> Reservation]
        /\ \A b \in Attachments : /\ reservation'[b].state = reservation[b].state
                                  /\ reservation'[b].sealed = reservation[b].sealed
        /\ ListedInv'
    BY <1>1, ReleaseKeeps
  <1>4. \A b \in Attachments : /\ Condemned(b)' <=> Condemned(b)
                               /\ Reserved(b)' <=> Reserved(b)
    BY <1>3, ReleaseSpares
  <1>6. RemovalInv'
    BY <1>1, <1>4 DEF StorageInv, Safety, Cursors, RemovalInv
  <1>7. SweepInv'
    BY <1>1, <1>2, <1>4 DEF StorageInv, Safety, TypeOK, SweepInv, Sweep
  <1> QED BY <1>3, <1>6, <1>7 DEF Safety

-----------------------------------------------------------------------------
(* Time, kills and the retirement of the registry *)

LEMMA AbandonKeeps ==
    ASSUME StorageInv, NEW a \in Attachments, Abandon(a)
    PROVE  Safety'
  <1>1. reservation' = [reservation EXCEPT ![a] = [@ EXCEPT !.abandoned = TRUE]]
    BY DEF Abandon
  <1>2. \A r \in Reservation :
           LET new == [r EXCEPT !.abandoned = TRUE]
           IN  new \in Reservation /\ new.state = r.state /\ new.sealed = r.sealed
    BY DEF Reservation
  <1>3. /\ reservation' \in [Attachments -> Reservation]
        /\ \A b \in Attachments : /\ reservation'[b].state = reservation[b].state
                                  /\ reservation'[b].sealed = reservation[b].sealed
    BY <1>1, <1>2 DEF StorageInv, TypeOK
  <1>4. \A b \in Attachments : /\ Condemned(b)' <=> Condemned(b)
                               /\ Reserved(b)' <=> Reserved(b)
    BY <1>3, ReleaseSpares
  <1>6. ListedInv'
    BY <1>3, <1>4, AttachmentAssumption DEF StorageInv, Safety, TypeOK, ListedInv, Abandon
  <1>7. RemovalInv' /\ SweepInv'
    BY <1>4
       DEF StorageInv, Safety, TypeOK, Cursors, Holding, SweepSteps, RemovalInv, SweepInv,
           Abandon
  <1> QED BY <1>6, <1>7 DEF Safety

LEMMA KillKeeps ==
    ASSUME StorageInv, Kill
    PROVE  Safety'
  <1>1. /\ removal \in Removal /\ sweep \in Sweep
        /\ \/ removal' = NoRemoval /\ sweep' = sweep
           \/ sweep' = NoSweep /\ removal' = removal
        /\ UNCHANGED <<documents, object, upload>> /\ faults' \in 0..MaxFaults
    BY AttachmentAssumption DEF Kill, StorageInv, TypeOK, Removal, Sweep
  <1>2. NoRemoval \in Removal /\ NoRemoval.pc = "idle"
    BY DEF NoRemoval, Removal, RemovalSteps
  <1>3. TypeOK'
    BY <1>1, <1>2, SweepRests DEF StorageInv, TypeOK, Removal, Sweep, documents
  <1>4. ListedInv' /\ RemovalInv' /\ SweepInv'
    BY <1>1, <1>2, SweepRests DEF StorageInv, Safety, Cursors, ListedInv, RemovalInv, SweepInv,
                                  Holding, Condemned, Reserved, documents
  <1> QED BY <1>3, <1>4 DEF Safety

LEMMA MaintenanceKeeps ==
    ASSUME StorageInv, BeginMaintenance \/ EndMaintenance
    PROVE  Safety'
  <1>1. /\ maintenance' \in BOOLEAN /\ faults' \in 0..MaxFaults
        /\ UNCHANGED <<reservation, usage, object, upload, parent, proof, record,
                       removal, sweep, published>>
    <2>1. CASE BeginMaintenance
      <3>1. faults \in 0..MaxFaults /\ faults < MaxFaults /\ MaxFaults \in Nat
        BY <2>1, AttachmentAssumption DEF BeginMaintenance, StorageInv, TypeOK
      <3> QED BY <2>1, <3>1 DEF BeginMaintenance
    <2>2. CASE EndMaintenance
      BY <2>2 DEF EndMaintenance, StorageInv, TypeOK
    <2> QED BY <2>1, <2>2
  <1>3. ListedInv' /\ RemovalInv' /\ SweepInv'
    BY <1>1 DEF StorageInv, Safety, ListedInv, RemovalInv, SweepInv, Condemned, Reserved
  <1> QED BY <1>3 DEF Safety

LEMMA ArchiveKeeps ==
    ASSUME StorageInv, RetireRecord \/ RetireParent \/ RetireProof
    PROVE  Safety'
  <1>1. CASE RetireRecord
    BY <1>1 DEF RetireRecord, StorageInv, Safety, TypeOK, Cursors, ListedInv, RemovalInv, SweepInv,
                Condemned, Reserved
  <1>2. CASE RetireParent
    BY <1>2 DEF RetireParent, StorageInv, Safety, TypeOK, Cursors, ListedInv, RemovalInv, SweepInv,
                Condemned, Reserved
  <1>3. CASE RetireProof
    BY <1>3 DEF RetireProof, Retiring, NoSweep, StorageInv, Safety, TypeOK, Cursors, ListedInv,
                RemovalInv, SweepInv, Condemned, Reserved
  <1> QED BY <1>1, <1>2, <1>3

\* No removal is past its transaction and no sweep runs while this happens.
LEMMA RetireReservationKeeps ==
    ASSUME StorageInv, NEW a \in Attachments, RetireReservation(a)
    PROVE  Safety'
  <1>1. /\ removal.pc \in {"idle", "retire"} /\ sweep.pc = "idle" /\ Reserved(a)
        /\ UNCHANGED <<usage, object, upload, parent, proof, record, maintenance,
                       removal, sweep, published, faults>>
    BY SweepRests DEF RetireReservation, Retiring, Reserved
  <1>2. PICK r \in Reservation : /\ reservation' = [reservation EXCEPT ![a] = r]
                                 /\ r.state = "retired" /\ r.sealed
    <2> DEFINE r == [reservation[a] EXCEPT !.state = "retired", !.sealed = TRUE]
    <2>1. reservation[a] \in Reservation
      BY DEF StorageInv, TypeOK
    <2>2. r \in Reservation
      BY <2>1, Reservations
    <2>3. r.state = "retired" /\ r.sealed
      BY <2>1 DEF Reservation
    <2>4. reservation' = [reservation EXCEPT ![a] = r]
      BY Zenon DEF RetireReservation
    <2> QED BY <2>2, <2>3, <2>4
  <1>3. /\ reservation' \in [Attachments -> Reservation]
        /\ reservation'[a].state = "retired" /\ reservation'[a].sealed
        /\ \A b \in Attachments : b # a => reservation'[b] = reservation[b]
    BY <1>2, OneReservation DEF StorageInv
  <1>4. \A b \in Attachments : Reserved(b)' <=> Reserved(b)
    BY <1>1, <1>3 DEF Reserved
  <1>6. ListedInv'
    BY <1>1, <1>3, <1>4, AttachmentAssumption DEF StorageInv, Safety, TypeOK, ListedInv
  <1>7. RemovalInv' /\ SweepInv'
    BY <1>1, <1>4 DEF StorageInv, Safety, Cursors, RemovalInv, SweepInv
  <1> QED BY <1>6, <1>7 DEF Safety

-----------------------------------------------------------------------------
(* The invariant *)

LEMMA StorageInvInit == Init => StorageInv
  <1> SUFFICES ASSUME Init PROVE StorageInv
    OBVIOUS
  <1>1. /\ NoReservation \in Reservation /\ NoReservation.state = "none"
        /\ ~NoReservation.sealed
    BY DEF NoReservation, Reservation
  <1>2. removal \in Removal /\ removal.pc = "idle"
    BY DEF Init, NoRemoval, Removal, RemovalSteps
  <1>3. sweep \in Sweep /\ sweep.pc = "idle"
    BY SweepRests DEF Init
  <1>4. PICK status \in {"absent", "draft", "published"}, files \in SUBSET Legacy :
           /\ parent = [status |-> status, files |-> files]
           /\ published = IF status = "published" THEN files ELSE {}
    BY DEF Init
  <1>5. TypeOK
    <2>1. /\ reservation \in [Attachments -> Reservation]
          /\ object \in [Attachments -> {"absent", "new", "old"}]
          /\ upload \in [Attachments -> {"none", "sending", "done", "lost"}]
      <3>1. reservation \in [Attachments -> Reservation]
        BY <1>1 DEF Init
      <3>2. object \in [Attachments -> {"absent", "new", "old"}]
        <4>1. object = [a \in Attachments |-> IF a \in Legacy THEN "old" ELSE "absent"]
          BY DEF Init
        <4> QED BY <4>1
      <3>3. upload \in [Attachments -> {"none", "sending", "done", "lost"}]
        <4>1. upload = [a \in Attachments |-> IF a \in Legacy THEN "done" ELSE "none"]
          BY DEF Init
        <4> QED BY <4>1
      <3> QED BY <3>1, <3>2, <3>3
    <2>2. usage \in 0..Quota /\ faults \in 0..MaxFaults /\ maintenance \in BOOLEAN
      <3>1. usage = 0 /\ faults = 0 /\ Quota \in Nat /\ MaxFaults \in Nat
        BY AttachmentAssumption DEF Init
      <3>2. maintenance \in BOOLEAN
        BY Zenon DEF Init
      <3>3. usage \in 0..Quota /\ faults \in 0..MaxFaults
        BY <3>1
      <3> QED BY <3>2, <3>3
    <2>3. files \in SUBSET Attachments
      BY AttachmentAssumption
    <2>4. /\ parent \in [status : {"absent", "draft", "published"}, files : SUBSET Attachments]
          /\ published \subseteq Attachments
      BY <1>4, <2>3
    <2>5. proof \in [exists : BOOLEAN, files : SUBSET Attachments] /\ record = "none"
      BY DEF Init
    <2> QED BY <1>2, <1>3, <2>1, <2>2, <2>4, <2>5 DEF TypeOK, Removal, Sweep
  <1>6. ListedInv
    BY <1>1, <1>4, AttachmentAssumption DEF Init, ListedInv, Reserved
  <1>7. Cursors /\ RemovalInv /\ SweepInv
    BY <1>2, <1>3 DEF Cursors, RemovalInv, SweepInv, Holding
  <1> QED BY <1>5, <1>6, <1>7 DEF StorageInv, Safety

LEMMA SafetyNext == StorageInv /\ [Next]_vars /\ [UsualTiming]_vars => Safety'
  <1> SUFFICES ASSUME StorageInv, [Next]_vars, [UsualTiming]_vars PROVE Safety'
    OBVIOUS
  <1>1. CASE UNCHANGED vars
    BY <1>1 DEF vars, documents, StorageInv, Safety, TypeOK, Cursors, ListedInv, RemovalInv,
                SweepInv, Condemned, Reserved
  <1>2. CASE Client /\ UsualTiming
    BY <1>2, ReserveKeeps, TransferKeeps, RecordKeeps, AttestKeeps, RemoveKeeps
       DEF Client, UsualTiming
  <1>3. CASE RemovalStep
    BY <1>3, RetireForRemovalKeeps, DeleteRemovedKeeps, ReleaseRemovedKeeps DEF RemovalStep
  <1>4. CASE StartSweep \/ SweepStep
    BY <1>4, StartSweepKeeps, NextPassKeeps, RetireAbandonedKeeps, ReleaseSweptKeeps,
       LookUpReservationKeeps, RetireObjectKeeps, RecheckObjectKeeps, DeleteObjectKeeps,
       LookForObjectKeeps, CheckObjectKeeps DEF SweepStep
  <1>5. CASE Kill \/ BeginMaintenance \/ Ageing
    BY <1>5, KillKeeps, MaintenanceKeeps, AbandonKeeps, TransferKeeps DEF Ageing
  <1>6. CASE Retirement
    BY <1>6, ArchiveKeeps, MaintenanceKeeps, RetireReservationKeeps DEF Retirement
  <1> QED BY <1>1, <1>2, <1>3, <1>4, <1>5, <1>6 DEF Next

LEMMA StorageInvNext == StorageInv /\ [Next]_vars /\ [UsualTiming]_vars => StorageInv'
  BY BaseNext, SafetyNext DEF StorageInv, BaseInv

\* In the behaviours of the assumptions StorageInv holds in every state: types,
\* cursors, listed bytes, and what a removal and a sweep know of the file they hold.
THEOREM StorageIsInvariant == Spec /\ [][UsualTiming]_vars => []StorageInv
  BY StorageInvInit, StorageInvNext, PTL DEF Spec

\* As long as pages remove what exists, and a sweep sees the publications that list
\* the file it holds, what a publication lists, or ever listed once it was
\* published, is in the bucket.
THEOREM PublishedStays == Spec /\ [][UsualTiming]_vars => []PublishedBytesExist
  <1>1. StorageInv => PublishedBytesExist
    BY DEF StorageInv, Safety, ListedInv, PublishedBytesExist
  <1> QED BY <1>1, StorageIsInvariant, PTL

-----------------------------------------------------------------------------
(* The charges *)

ChargedIn(r) == {a \in Attachments : r[a].charged}

ChargeInv ==
    /\ usage = Cardinality(ChargedIn(reservation))
    /\ \A a \in Attachments : ~Reserved(a) => ~reservation[a].charged

LEMMA ChargedFinite ==
    ASSUME NEW r
    PROVE  /\ IsFiniteSet(ChargedIn(r))
           /\ Cardinality(ChargedIn(r)) \in Nat
  BY AttachmentAssumption, FS_Subset, FS_CardinalityType DEF ChargedIn

LEMMA ChargesUntouched ==
    ASSUME ChargeInv, usage' = usage,
           \A a \in Attachments : /\ reservation'[a].charged = reservation[a].charged
                                  /\ Reserved(a) => Reserved(a)'
    PROVE  ChargeInv'
  <1>1. ChargedIn(reservation)' = ChargedIn(reservation)
    BY DEF ChargedIn
  <1> QED BY <1>1 DEF ChargeInv

\* A reservation that changed in one place without a new charge, or a tombstone
\* where there was none
LEMMA ChargesOfCondemned ==
    ASSUME BaseInv, ChargeInv, NEW a \in Attachments, usage' = usage,
           \/ reservation' = [reservation EXCEPT ![a] = Retire(@)]
           \/ /\ reservation' = [reservation EXCEPT ![a] = Tombstone]
              /\ ~Reserved(a)
    PROVE  ChargeInv'
  <1>1. reservation \in [Attachments -> Reservation]
    BY DEF BaseInv, TypeOK
  <1>2. ~Reserved(a) => ~reservation[a].charged
    BY DEF ChargeInv
  <1>3. /\ reservation'[a].state = "retired"
        /\ reservation'[a].charged = reservation[a].charged
        /\ \A b \in Attachments : b # a => reservation'[b] = reservation[b]
    <2>1. CASE reservation' = [reservation EXCEPT ![a] = Retire(@)]
      <3>1. reservation[a] \in Reservation
        BY <1>1
      <3> QED BY <3>1, <1>1, <2>1, Reservations
    <2>2. CASE reservation' = [reservation EXCEPT ![a] = Tombstone] /\ ~Reserved(a)
      <3>1. reservation[a] \in Reservation
        BY <1>1
      <3>2. reservation[a].charged = FALSE
        BY <3>1, <1>2, <2>2 DEF Reservation
      <3> QED BY <3>2, <1>1, <2>2, Reservations
    <2> QED BY <2>1, <2>2
  <1> QED BY <1>3, ChargesUntouched DEF Reserved

LEMMA ChargesOfRelease ==
    ASSUME BaseInv, ChargeInv, NEW a \in Attachments, ReleaseDeletedUpload(a)
    PROVE  ChargeInv'
  <1>1. reservation \in [Attachments -> Reservation] /\ usage \in Nat
    BY AttachmentAssumption DEF BaseInv, TypeOK
  <1>2. CASE ~MayRelease(reservation[a])
    BY <1>2, ChargesUntouched DEF ReleaseDeletedUpload, Reserved
  <1>3. CASE MayRelease(reservation[a])
    <2>1. /\ reservation' = [reservation EXCEPT ![a] = [@ EXCEPT !.charged = FALSE]]
          /\ usage' = Max({0, usage - 1})
      BY <1>3 DEF ReleaseDeletedUpload
    <2>2. \A r \in Reservation : /\ [r EXCEPT !.charged = FALSE].state = r.state
                                 /\ ~[r EXCEPT !.charged = FALSE].charged
      BY DEF Reservation
    <2>3. /\ ~reservation'[a].charged
          /\ \A b \in Attachments : /\ reservation'[b].state = reservation[b].state
                                    /\ b # a => reservation'[b] = reservation[b]
      BY <1>1, <2>1, <2>2
    <2>4. ChargedIn(reservation)' = ChargedIn(reservation) \ {a} /\ a \in ChargedIn(reservation)
      BY <1>3, <2>3 DEF ChargedIn, MayRelease
    <2>5. Cardinality(ChargedIn(reservation)') = usage - 1
      BY <2>4, ChargedFinite, FS_RemoveElement DEF ChargeInv
    <2>6. usage' = usage - 1
      <3>1. usage - 1 \in Nat
        BY <2>5, ChargedFinite
      <3>2. \A m \in {0, usage - 1} : m >= 0 /\ m >= usage - 1 => m = usage - 1
        BY <1>1, <3>1
      <3>3. usage - 1 \in {0, usage - 1} /\ \A n \in {0, usage - 1} : usage - 1 >= n
        BY <1>1, <3>1
      <3>4. Max({0, usage - 1}) = usage - 1
        BY <3>2, <3>3 DEF Max
      <3> QED BY <2>1, <3>4
    <2> QED BY <2>3, <2>5, <2>6 DEF ChargeInv, Reserved
  <1> QED BY <1>2, <1>3

LEMMA ChargeOfReservation ==
    ASSUME BaseInv, ChargeInv, NEW a \in Attachments, ReserveAttachment(a)
    PROVE  ChargeInv'
  <1> DEFINE r == [NoReservation EXCEPT !.state = "reserved", !.charged = TRUE]
  <1>1. r.state = "reserved" /\ r.charged
    BY DEF NoReservation
  <1>2. /\ reservation \in [Attachments -> Reservation]
        /\ reservation' = [reservation EXCEPT ![a] = r] /\ usage' = usage + 1
        /\ ~Reserved(a)
    BY DEF BaseInv, TypeOK, ReserveAttachment, Reserved
  <1> HIDE DEF r
  <1>3. /\ reservation'[a].state = "reserved" /\ reservation'[a].charged
        /\ \A b \in Attachments : b # a => reservation'[b] = reservation[b]
    BY <1>1, <1>2
  <1>4. a \notin ChargedIn(reservation)
    BY <1>2 DEF ChargeInv, ChargedIn
  <1>5. ChargedIn(reservation)' = ChargedIn(reservation) \cup {a}
    BY <1>3 DEF ChargedIn
  <1>6. Cardinality(ChargedIn(reservation)') = usage + 1
    BY <1>4, <1>5, ChargedFinite, FS_AddElement DEF ChargeInv
  <1> QED BY <1>2, <1>3, <1>6 DEF ChargeInv, Reserved

LEMMA ChargeInvInit == Init => ChargeInv
  <1> SUFFICES ASSUME Init PROVE ChargeInv
    OBVIOUS
  <1>1. usage = 0 /\ \A a \in Attachments : ~reservation[a].charged
    BY DEF Init, NoReservation
  <1>2. ChargedIn(reservation) = {}
    BY <1>1 DEF ChargedIn
  <1> QED BY <1>1, <1>2, FS_EmptySet DEF ChargeInv

LEMMA ChargeInvNext == BaseInv /\ ChargeInv /\ [Next]_vars => ChargeInv'
  <1> SUFFICES ASSUME BaseInv, ChargeInv, [Next]_vars PROVE ChargeInv'
    OBVIOUS
  <1>1. ASSUME UNCHANGED <<reservation, usage>> PROVE ChargeInv'
    BY <1>1, ChargesUntouched DEF Reserved
  <1>2. CASE Client
    <2>1. ASSUME NEW files \in SUBSET Selectable, AttestPublication(files)
          PROVE  ChargeInv'
      <3>1. \A b \in Attachments :
               reservation'[b] = IF b \in files /\ reservation[b].state # "none"
                                 THEN [reservation[b] EXCEPT !.sealed = TRUE]
                                 ELSE reservation[b]
        BY <2>1 DEF AttestPublication
      <3>2. \A s \in Reservation : LET new == [s EXCEPT !.sealed = TRUE]
                                   IN  new.state = s.state /\ new.charged = s.charged
        BY DEF Reservation
      <3>3. \A b \in Attachments : /\ reservation'[b].state = reservation[b].state
                                   /\ reservation'[b].charged = reservation[b].charged
        BY <3>1, <3>2 DEF BaseInv, TypeOK
      <3> QED BY <2>1, <3>3, ChargesUntouched DEF Reserved, AttestPublication
    <2>2. ASSUME NEW a \in Attachments,
                 StartUpload(a) \/ FinishUpload(a) \/ LoseUpload(a) \/ RemoveAttachment(a)
          PROVE  ChargeInv'
      BY <2>2, <1>1 DEF StartUpload, FinishUpload, LoseUpload, RemoveAttachment, documents
    <2>3. ASSUME (\E files \in SUBSET Selectable : SaveDraft(files)) \/ DeleteDraft
                    \/ CommitPublication \/ ReserveResource
          PROVE  ChargeInv'
      BY <2>3, <1>1 DEF SaveDraft, DeleteDraft, CommitPublication, ReserveResource
    <2> QED BY <1>2, <2>1, <2>2, <2>3, ChargeOfReservation DEF Client
  <1>3. CASE RemovalStep
    <2>1. CASE RetireForRemoval
      <3>1. PICK a \in Attachments : a = removal.cur
        BY <2>1 DEF RetireForRemoval, BaseInv, Cursors
      <3> QED BY <2>1, <3>1, <1>1, ChargesOfCondemned DEF RetireForRemoval, Reserved
    <2>2. CASE DeleteRemoved
      BY <2>2, <1>1 DEF DeleteRemoved, documents
    <2>3. CASE ReleaseRemoved
      <3>1. PICK a \in Attachments : a = removal.cur
        BY <2>3 DEF ReleaseRemoved, BaseInv, Cursors
      <3> QED BY <2>3, <3>1, ChargesOfRelease DEF ReleaseRemoved
    <2> QED BY <1>3, <2>1, <2>2, <2>3 DEF RemovalStep
  <1>4. CASE SweepStep
    <2>1. CASE SweepOnly
      BY <2>1, <1>1 DEF SweepOnly, documents
    <2>2. CASE RetireAbandoned
      <3>1. PICK a \in Attachments : a = sweep.cur
        BY <2>2 DEF RetireAbandoned, BaseInv, Cursors, Holding, SweepSteps
      <3> QED BY <2>2, <3>1, <1>1, ChargesOfCondemned DEF RetireAbandoned
    <2>3. CASE RetireObject
      <3>1. PICK a \in Attachments : a = sweep.cur
        BY <2>3 DEF RetireObject, BaseInv, Cursors, Holding, SweepSteps
      <3> QED BY <2>3, <3>1, <1>1, ChargesOfCondemned DEF RetireObject, MayEntomb, Reserved
    <2>4. CASE ReleaseSwept
      <3>1. PICK a \in Attachments : a = sweep.cur
        BY <2>4 DEF ReleaseSwept, BaseInv, Cursors, Holding, SweepSteps
      <3> QED BY <2>4, <3>1, ChargesOfRelease DEF ReleaseSwept
    <2>5. CASE DeleteObject
      BY <2>5, <1>1 DEF DeleteObject, documents
    <2> QED BY <1>4, <2>1, <2>2, <2>3, <2>4, <2>5
            DEF SweepStep, NextPass, LookUpReservation, RecheckObject, LookForObject, CheckObject
  <1>5. CASE StartSweep \/ Kill \/ BeginMaintenance
    BY <1>5, <1>1 DEF StartSweep, SweepOnly, Kill, BeginMaintenance, documents
  <1>6. CASE Ageing
    <2>1. ASSUME NEW a \in Attachments, Abandon(a) PROVE ChargeInv'
      <3>1. \A r \in Reservation : LET new == [r EXCEPT !.abandoned = TRUE]
                                   IN  new.state = r.state /\ new.charged = r.charged
        BY DEF Reservation
      <3>2. reservation' = [reservation EXCEPT ![a] = [@ EXCEPT !.abandoned = TRUE]]
        BY <2>1 DEF Abandon
      <3>3. \A b \in Attachments : /\ reservation'[b].state = reservation[b].state
                                   /\ reservation'[b].charged = reservation[b].charged
        BY <3>1, <3>2 DEF BaseInv, TypeOK
      <3> QED BY <2>1, <3>3, ChargesUntouched DEF Reserved, Abandon
    <2>2. ASSUME NEW a \in Attachments, GrowOld(a) PROVE ChargeInv'
      BY <2>2, <1>1 DEF GrowOld, documents
    <2> QED BY <1>6, <2>1, <2>2 DEF Ageing
  <1>7. CASE Retirement
    <2>1. CASE RetireRecord \/ RetireParent \/ RetireProof \/ EndMaintenance
      BY <2>1, <1>1 DEF RetireRecord, RetireParent, RetireProof, EndMaintenance
    <2>2. ASSUME NEW a \in Attachments, RetireReservation(a) PROVE ChargeInv'
      <3> DEFINE r == [reservation[a] EXCEPT !.state = "retired", !.sealed = TRUE]
      <3>1. reservation[a] \in Reservation /\ reservation \in [Attachments -> Reservation]
        BY DEF BaseInv, TypeOK
      <3>2. r.state = "retired" /\ r.charged = reservation[a].charged
        BY <3>1 DEF Reservation
      <3>3. reservation' = [reservation EXCEPT ![a] = r]
        BY <2>2, Zenon DEF RetireReservation
      <3> HIDE DEF r
      <3>4. \A b \in Attachments : /\ reservation'[b].charged = reservation[b].charged
                                   /\ Reserved(b) => Reserved(b)'
        BY <3>1, <3>2, <3>3 DEF Reserved
      <3> QED BY <2>2, <3>4, ChargesUntouched DEF RetireReservation
    <2> QED BY <1>7, <2>1, <2>2 DEF Retirement
  <1>8. CASE UNCHANGED vars
    BY <1>8, <1>1 DEF vars, documents
  <1> QED BY <1>2, <1>3, <1>4, <1>5, <1>6, <1>7, <1>8 DEF Next

\* The quota's books agree with the reservations in every behaviour: every charge
\* was booked once and is released once.
THEOREM ChargesAreExact == Spec => []UsageIsExact
  <1>1. ChargeInv => UsageIsExact
    BY DEF ChargeInv, ChargedIn, UsageIsExact
  <1>2. Init => BaseInv
    BY StorageInvInit DEF StorageInv, BaseInv
  <1> QED BY <1>1, <1>2, BaseNext, ChargeInvInit, ChargeInvNext, PTL DEF Spec
=============================================================================
