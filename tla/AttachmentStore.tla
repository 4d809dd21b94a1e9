-------------------------- MODULE AttachmentStore --------------------------
(***************************************************************************)
(* The PDF files of one record (a posting or a proposal): reservation,        *)
(* upload, publication, removal, the nightly sweep and the retirement of a    *)
(* registry (resourceQuotas.js, attachmentSweeper.js, removeAttachment and    *)
(* attestPublication of index.js, registryRetirement.js, storage.rules).      *)
(*                                                                         *)
(* A Firestore transaction is one action; Cloud Storage is not part of it,    *)
(* so every access to the bucket is an action of its own.  The rules of the   *)
(* bucket are evaluated when an upload begins, and its bytes arrive later.    *)
(*                                                                         *)
(* Data abstractions.  A file counts one unit of quota, and the quotas of     *)
(* the owner, the record and the whole bucket move together in one counter.   *)
(* `abandoned' is an expiry older than the grace period of a day; an object   *)
(* is `old' after the same time.  A record that left draft is `published'.    *)
(* uploadAttachment mints a fresh id per transfer, so a path sees one upload. *)
(* Pages of 250 and the sweep's page tokens are left out: a pass sees all.    *)
(***************************************************************************)
EXTENDS Naturals, FiniteSets, FiniteSetsExt

CONSTANTS
    Attachments,            \* the record's attachment ids
    Legacy,                 \* those whose objects are older than reservations
    Quota,                  \* files the quotas allow
    FrozenOnceSubmitted,    \* TRUE for a proposal, FALSE for a posting
    None,                   \* no attachment
    MaxFaults               \* bound: killed invocations and maintenance periods

ASSUME AttachmentAssumption ==
    /\ Legacy \subseteq Attachments /\ IsFiniteSet(Attachments)
    /\ None \notin Attachments
    /\ Quota \in Nat /\ MaxFaults \in Nat
    /\ FrozenOnceSubmitted \in BOOLEAN

VARIABLES
    reservation,    \* uploadReservations/{scope}.{record}.{attachment}
    usage,          \* uploadQuotas
    object,         \* the bucket, by attachment
    upload,         \* the client's transfers
    parent,         \* the record's document
    proof,          \* publicationProofs/{scope}_{record}
    record,         \* recordReservations/{scope}_{record}
    maintenance,    \* maintenanceState/registryCutover
    removal,        \* a call of removeAttachment
    sweep,          \* the nightly run
    published,      \* history: attachments a published record ever listed
    faults

documents == <<reservation, usage, parent, proof, record, maintenance, published>>
vars == <<documents, object, upload, removal, sweep, faults>>

Reservation ==
    [state : {"none", "reserved", "retired"}, sealed : BOOLEAN,
     charged : BOOLEAN,         \* a size, and no quotaReleasedAt
     abandoned : BOOLEAN]

NoReservation ==
    [state |-> "none", sealed |-> FALSE, charged |-> FALSE, abandoned |-> FALSE]

RemovalSteps == {"idle", "retire", "delete", "release"}
SweepSteps ==
    {"idle", "abandoned", "retireAbandoned", "releaseAbandoned", "retired",
     "releaseRetired", "objects", "lookup", "retireObject", "recheck", "delete",
     "releaseObject"}

NoRemoval == [pc |-> "idle", cur |-> None, saw |-> FALSE]
NoSweep == [pc |-> "idle", todo |-> {}, cur |-> None, known |-> FALSE]

TypeOK ==
    /\ reservation \in [Attachments -> Reservation]
    /\ usage \in 0..Quota
    /\ object \in [Attachments -> {"absent", "new", "old"}]
    /\ upload \in [Attachments -> {"none", "sending", "done", "lost"}]
    /\ parent \in [status : {"absent", "draft", "published"}, files : SUBSET Attachments]
    /\ proof \in [exists : BOOLEAN, files : SUBSET Attachments]
    /\ record \in {"none", "reserved", "retired"}
    /\ maintenance \in BOOLEAN
    /\ removal \in [pc : RemovalSteps, cur : Attachments \cup {None}, saw : BOOLEAN]
    /\ sweep \in [pc : SweepSteps, todo : SUBSET Attachments,
                  cur : Attachments \cup {None}, known : BOOLEAN]
    /\ published \subseteq Attachments
    /\ faults \in 0..MaxFaults

\* A record from before the reservations may exist, in any status.
Init ==
    /\ reservation = [a \in Attachments |-> NoReservation]
    /\ usage = 0
    /\ object = [a \in Attachments |-> IF a \in Legacy THEN "old" ELSE "absent"]
    /\ upload = [a \in Attachments |-> IF a \in Legacy THEN "done" ELSE "none"]
    /\ \E status \in {"absent", "draft", "published"}, files \in SUBSET Legacy :
          /\ status = "absent" => files = {}
          /\ parent = [status |-> status, files |-> files]
          /\ published = IF status = "published" THEN files ELSE {}
    /\ proof = [exists |-> FALSE, files |-> {}]
    /\ record = "none"
    /\ maintenance = FALSE
    /\ removal = NoRemoval
    /\ sweep = NoSweep
    /\ faults = 0

-----------------------------------------------------------------------------
(* The quotas *)

Retire(r) == [r EXCEPT !.state = "retired"]
Tombstone == Retire(NoReservation)

\* Mutant: the release may be repeated.
MayReleaseAgain(r) == r.state = "retired"

MayRelease(r) == r.state = "retired" /\ r.charged

\* releaseDeletedUpload: the charge of a retired upload ends, once.
ReleaseDeletedUpload(a) ==
    IF MayRelease(reservation[a])
    THEN /\ reservation' = [reservation EXCEPT ![a].charged = FALSE]
         /\ usage' = Max({0, usage - 1})
    ELSE UNCHANGED <<reservation, usage>>

Open == ~maintenance /\ record # "retired"

-----------------------------------------------------------------------------
(* The client *)

\* reserveResource: a page that saves a draft for the first time reserves its id.
ReserveResource ==
    /\ Open
    /\ record = "none"
    /\ record' = "reserved"
    /\ UNCHANGED <<reservation, usage, object, upload, parent, proof, maintenance,
                   removal, sweep, published, faults>>

\* reserveAttachment: reserveRecord and reserveUpload
ReserveAttachment(a) ==
    /\ Open
    /\ a \notin Legacy /\ reservation[a].state = "none"
    /\ ~(FrozenOnceSubmitted /\ parent.status = "published")
    /\ a \notin parent.files
    /\ usage < Quota
    /\ reservation' = [reservation EXCEPT ![a] =
                          [NoReservation EXCEPT !.state = "reserved", !.charged = TRUE]]
    /\ usage' = usage + 1
    /\ record' = "reserved"
    /\ UNCHANGED <<object, upload, parent, proof, maintenance, removal, sweep, published, faults>>

\* What storage.rules ask before a transfer begins
MayUpload(a) ==
    /\ ~maintenance
    /\ object[a] = "absent"
    /\ LET r == reservation[a] IN r.state = "reserved" /\ ~r.sealed /\ ~r.abandoned

StartUpload(a) ==
    /\ upload[a] = "none"
    /\ MayUpload(a)
    /\ upload' = [upload EXCEPT ![a] = "sending"]
    /\ UNCHANGED <<documents, object, removal, sweep, faults>>

FinishUpload(a) ==
    /\ upload[a] = "sending"
    /\ upload' = [upload EXCEPT ![a] = "done"]
    /\ object' = [object EXCEPT ![a] = "new"]
    /\ UNCHANGED <<documents, removal, sweep, faults>>

LoseUpload(a) ==
    /\ upload[a] = "sending"
    /\ upload' = [upload EXCEPT ![a] = "lost"]
    /\ UNCHANGED <<documents, object, removal, sweep, faults>>

\* A page lists what it has uploaded; it does not see what another page removed.
Selectable == {a \in Attachments : upload[a] = "done"}

\* A new document needs the reservation of its id, a saved draft only its owner.
SaveDraft(files) ==
    /\ ~maintenance
    /\ \/ parent.status = "absent" /\ record = "reserved"
       \/ parent.status = "draft"
    /\ parent' = [status |-> "draft", files |-> files]
    /\ parent' # parent
    /\ UNCHANGED <<reservation, usage, object, upload, proof, record, maintenance,
                   removal, sweep, published, faults>>

DeleteDraft ==
    /\ ~maintenance
    /\ parent.status = "draft"
    /\ parent' = [status |-> "absent", files |-> {}]
    /\ UNCHANGED <<reservation, usage, object, upload, proof, record, maintenance,
                   removal, sweep, published, faults>>

\* Mutant: the state of the reservation is not looked at.
MayAttestRetired(a) == TRUE

\* An object older than reservations has none; a reservation must not be retired.
MayAttest(a) == reservation[a].state # "retired"

\* attestPublication: the reservations are sealed and the proof is written.
AttestPublication(files) ==
    /\ Open
    /\ \A a \in files : MayAttest(a)
    /\ reservation' = [a \in Attachments |->
            IF a \in files /\ reservation[a].state # "none"
            THEN [reservation[a] EXCEPT !.sealed = TRUE] ELSE reservation[a]]
    /\ proof' = [exists |-> TRUE, files |-> files]
    /\ record' = "reserved"
    /\ UNCHANGED <<usage, object, upload, parent, maintenance, removal, sweep, published, faults>>

\* The client's own write, which the rules compare with the proof: a first
\* publication, or an edit of a published record
CommitPublication ==
    /\ ~maintenance
    /\ proof.exists
    /\ parent' = [status |-> "published", files |-> proof.files]
    /\ parent' # parent
    /\ published' = published \cup proof.files
    /\ UNCHANGED <<reservation, usage, object, upload, proof, record, maintenance,
                   removal, sweep, faults>>

\* An hour and a day pass, also while a resumable transfer is under way.
Abandon(a) ==
    /\ reservation[a].state = "reserved" /\ ~reservation[a].abandoned
    /\ reservation' = [reservation EXCEPT ![a].abandoned = TRUE]
    /\ UNCHANGED <<usage, object, upload, parent, proof, record, maintenance,
                   removal, sweep, published, faults>>

GrowOld(a) ==
    /\ object[a] = "new"
    /\ object' = [object EXCEPT ![a] = "old"]
    /\ UNCHANGED <<documents, upload, removal, sweep, faults>>

-----------------------------------------------------------------------------
(* removeAttachment: of any id, also of one that has nothing yet.             *)

RemoveAttachment(a) ==
    /\ removal.pc = "idle"
    /\ removal' = [pc |-> "retire", cur |-> a, saw |-> object[a] # "absent"]
    /\ UNCHANGED <<documents, object, upload, sweep, faults>>

MayRemove(a) ==
    /\ Open
    /\ parent.status # "published"
    /\ ~reservation[a].sealed
    /\ a \notin proof.files

RetireForRemoval ==
    LET a == removal.cur IN
    /\ removal.pc = "retire"
    /\ IF MayRemove(a)
       THEN /\ removal' = [removal EXCEPT !.pc = "delete"]
            /\ IF reservation[a].state = "none"
               THEN reservation' = IF removal.saw
                                   THEN [reservation EXCEPT ![a] = Tombstone] ELSE reservation
               ELSE reservation' = [reservation EXCEPT ![a] = Retire(@)]
       ELSE removal' = NoRemoval /\ UNCHANGED reservation
    /\ UNCHANGED <<usage, object, upload, parent, proof, record, maintenance,
                   sweep, published, faults>>

DeleteRemoved ==
    /\ removal.pc = "delete"
    /\ object' = [object EXCEPT ![removal.cur] = "absent"]
    /\ removal' = [removal EXCEPT !.pc = "release"]
    /\ UNCHANGED <<documents, upload, sweep, faults>>

ReleaseRemoved ==
    /\ removal.pc = "release"
    /\ ReleaseDeletedUpload(removal.cur)
    /\ removal' = NoRemoval
    /\ UNCHANGED <<object, upload, parent, proof, record, maintenance, sweep, published, faults>>

-----------------------------------------------------------------------------
(* sweepOrphanedAttachments: three passes over what a query or a listing      *)
(* returned when the pass began.                                             *)

GoOn(pc) == sweep' = [sweep EXCEPT !.pc = pc]
Take(a, pc) == sweep' = [sweep EXCEPT !.pc = pc, !.cur = a, !.todo = @ \ {a}]
Skip(a) == sweep' = [sweep EXCEPT !.todo = @ \ {a}]
Pass(pc, todo) == sweep' = [NoSweep EXCEPT !.pc = pc, !.todo = todo]
SweepOnly == UNCHANGED <<documents, object, upload, removal, faults>>

\* Mutant: only those still reserved are looked up a second time.
AwaitingNothing ==
    {a \in Attachments : reservation[a].state = "reserved" /\ reservation[a].sealed}

AwaitingRelease ==
    {a \in Attachments : reservation[a].state = "retired" /\ reservation[a].charged}

StartSweep ==
    /\ sweep.pc = "idle"
    /\ ~maintenance
    /\ Pass("abandoned", {a \in Attachments : reservation[a].state = "reserved"
                              /\ reservation[a].abandoned /\ ~reservation[a].sealed})
    /\ SweepOnly

NextPass ==
    /\ sweep.todo = {}
    /\ \/ sweep.pc = "abandoned" /\ Pass("retired", AwaitingRelease)
       \/ sweep.pc = "retired"
          /\ Pass("objects", {a \in Attachments : object[a] = "old"})
       \/ sweep.pc = "objects" /\ sweep' = NoSweep
    /\ SweepOnly

\* Does the object of this reservation exist?
LookForObject(a) ==
    /\ a \in sweep.todo
    /\ \/ sweep.pc = "abandoned"
          /\ IF object[a] = "absent" THEN Take(a, "retireAbandoned") ELSE Skip(a)
       \/ sweep.pc = "retired"
          /\ IF object[a] = "absent" THEN Take(a, "releaseRetired") ELSE Skip(a)
    /\ SweepOnly

\* retireUpload throws for a sealed reservation, and nothing catches it here:
\* the whole run ends.
RetireAbandoned ==
    /\ sweep.pc = "retireAbandoned"
    /\ IF reservation[sweep.cur].sealed
       THEN sweep' = NoSweep /\ UNCHANGED reservation
       ELSE /\ GoOn("releaseAbandoned")
            /\ reservation' = [reservation EXCEPT ![sweep.cur] = Retire(@)]
    /\ UNCHANGED <<usage, object, upload, parent, proof, record, maintenance,
                   removal, published, faults>>

ReleaseSwept ==
    /\ \/ sweep.pc = "releaseAbandoned" /\ GoOn("abandoned")
       \/ sweep.pc = "releaseRetired" /\ GoOn("retired")
       \/ sweep.pc = "releaseObject" /\ GoOn("objects")
    /\ ReleaseDeletedUpload(sweep.cur)
    /\ UNCHANGED <<object, upload, parent, proof, record, maintenance, removal, published, faults>>

\* mustRetainObject
MustRetain(a) ==
    \/ reservation[a].sealed
    \/ record = "retired"
    \/ a \in parent.files \cup proof.files
    \/ reservation[a].state = "none" /\ parent.status = "published"

CheckObject(a) ==
    /\ sweep.pc = "objects" /\ a \in sweep.todo
    /\ IF MustRetain(a) THEN Skip(a) ELSE Take(a, "lookup")
    /\ SweepOnly

LookUpReservation ==
    /\ sweep.pc = "lookup"
    /\ sweep' = [sweep EXCEPT !.pc = "retireObject",
                              !.known = reservation[sweep.cur].state # "none"]
    /\ SweepOnly

MayEntomb(a) == reservation[a].state = "none" /\ a \notin proof.files

\* retireUpload, or the tombstone of an object without reservation; what either
\* throws is caught and the object is kept.
RetireObject ==
    LET a == sweep.cur
        retires == sweep.known /\ ~reservation[a].sealed
        entombs == ~sweep.known /\ MayEntomb(a)
    IN /\ sweep.pc = "retireObject"
       /\ GoOn(IF retires \/ entombs THEN "recheck" ELSE "objects")
       /\ reservation' = IF retires THEN [reservation EXCEPT ![a] = Retire(@)]
                         ELSE IF entombs THEN [reservation EXCEPT ![a] = Tombstone]
                         ELSE reservation
       /\ UNCHANGED <<usage, object, upload, parent, proof, record, maintenance,
                      removal, published, faults>>

RecheckObject ==
    /\ sweep.pc = "recheck"
    /\ GoOn(IF MustRetain(sweep.cur) \/ maintenance THEN "objects" ELSE "delete")
    /\ SweepOnly

DeleteObject ==
    /\ sweep.pc = "delete"
    /\ object' = [object EXCEPT ![sweep.cur] = "absent"]
    /\ GoOn("releaseObject")
    /\ UNCHANGED <<documents, upload, removal, faults>>

SweepStep ==
    \/ NextPass \/ RetireAbandoned \/ ReleaseSwept
    \/ LookUpReservation \/ RetireObject \/ RecheckObject \/ DeleteObject
    \/ \E a \in Attachments : LookForObject(a) \/ CheckObject(a)

-----------------------------------------------------------------------------
(* An invocation is killed; a registry is retired.                           *)

Kill ==
    /\ faults < MaxFaults
    /\ faults' = faults + 1
    /\ \/ removal # NoRemoval /\ removal' = NoRemoval /\ UNCHANGED sweep
       \/ sweep # NoSweep /\ sweep' = NoSweep /\ UNCHANGED removal
    /\ UNCHANGED <<documents, object, upload>>

BeginMaintenance ==
    /\ Open
    /\ faults < MaxFaults /\ faults' = faults + 1
    /\ maintenance' = TRUE
    /\ UNCHANGED <<reservation, usage, object, upload, parent, proof, record,
                   removal, sweep, published>>

\* "Wait at least 540 seconds for in-flight Functions": none runs longer, so what
\* went past its check of the maintenance flag has ended.
Retiring == maintenance /\ removal.pc \in {"idle", "retire"} /\ sweep = NoSweep

Retired(a) == reservation[a].state = "retired" /\ reservation[a].sealed

\* The collections are archived one after the other, in this order.
RetireRecord ==
    /\ Retiring
    /\ record = "reserved"
    /\ record' = "retired"
    /\ UNCHANGED <<reservation, usage, object, upload, parent, proof, maintenance,
                   removal, sweep, published, faults>>

RetireReservation(a) ==
    /\ Retiring /\ record # "reserved"
    /\ reservation[a].state # "none" /\ ~Retired(a)
    /\ reservation' = [reservation EXCEPT ![a].state = "retired", ![a].sealed = TRUE]
    /\ UNCHANGED <<usage, object, upload, parent, proof, record, maintenance,
                   removal, sweep, published, faults>>

ReservationsRetired == \A a \in Attachments : reservation[a].state = "none" \/ Retired(a)

RetireParent ==
    /\ Retiring /\ record # "reserved" /\ ReservationsRetired
    /\ parent.status # "absent"
    /\ parent' = [status |-> "absent", files |-> {}]
    /\ record' = "retired"
    /\ UNCHANGED <<reservation, usage, object, upload, proof, maintenance,
                   removal, sweep, published, faults>>

RetireProof ==
    /\ Retiring /\ record # "reserved" /\ ReservationsRetired
    /\ parent.status = "absent" /\ proof.exists
    /\ proof' = [exists |-> FALSE, files |-> {}]
    /\ UNCHANGED <<reservation, usage, object, upload, parent, record, maintenance,
                   removal, sweep, published, faults>>

EndMaintenance ==
    /\ Retiring /\ record # "reserved" /\ ReservationsRetired
    /\ parent.status = "absent" /\ ~proof.exists
    /\ maintenance' = FALSE
    /\ UNCHANGED <<reservation, usage, object, upload, parent, proof, record,
                   removal, sweep, published, faults>>

-----------------------------------------------------------------------------

Client ==
    \/ \E a \in Attachments :
          \/ ReserveAttachment(a) \/ StartUpload(a) \/ FinishUpload(a) \/ LoseUpload(a)
          \/ RemoveAttachment(a)
    \/ ReserveResource
    \/ \E files \in SUBSET Selectable : SaveDraft(files) \/ AttestPublication(files)
    \/ DeleteDraft \/ CommitPublication

RemovalStep == RetireForRemoval \/ DeleteRemoved \/ ReleaseRemoved

Ageing == \E a \in Attachments : Abandon(a) \/ GrowOld(a)

Retirement ==
    \/ RetireRecord \/ RetireParent \/ RetireProof \/ EndMaintenance
    \/ \E a \in Attachments : RetireReservation(a)

Next ==
    \/ Client \/ RemovalStep \/ StartSweep \/ SweepStep \/ Kill
    \/ Ageing \/ BeginMaintenance \/ Retirement

Spec == Init /\ [][Next]_vars
=============================================================================
