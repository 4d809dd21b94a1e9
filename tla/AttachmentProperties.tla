------------------------ MODULE AttachmentProperties ------------------------
(***************************************************************************)
(* What the owner of a record, its readers and the operator of the bucket     *)
(* rely on.                                                                  *)
(***************************************************************************)
EXTENDS AttachmentStore

\* "Published evidence is sealed before publication and permanently retained":
\* whatever a publication lists, attested or written, is in the bucket, and so is
\* what any published version of the record ever listed.  Removals, sweeps and the
\* retirement of the registry may run at any time, under the two assumptions below.
PublishedBytesExist ==
    \A a \in published \cup proof.files : object[a] # "absent"

\* A page asks for the removal of what it has reserved, also when the upload failed,
\* and of files older than reservations (attachments.js), never of an id that it has
\* still to reserve.  removeAttachment itself does not ask: it deletes the object also
\* when its transaction found nothing to retire.
PagesRemoveWhatExists ==
    removal.pc = "idle" /\ removal'.pc = "retire" =>
        removal'.cur \in Legacy \/ reservation[removal'.cur].state # "none"

\* A publication waits for a mined transaction, so one that drops a file which the
\* one before it listed does not fit between two reads of the sweep.
SweepSeesThePublication ==
    /\ sweep.pc \in {"lookup", "retireObject", "recheck", "delete"}
    /\ proof'.exists /\ sweep.cur \in proof.files
    => sweep.cur \in proof'.files

\* An action constraint of the run and the hypothesis of the theorem; the behaviours
\* without it are in the README.
UsualTiming == PagesRemoveWhatExists /\ SweepSeesThePublication

\* The quota counts exactly the reservations whose charge was not released: no
\* retry, crash or overlap of a removal with a sweep releases one twice.
UsageIsExact == usage = Cardinality({a \in Attachments : reservation[a].charged})

-----------------------------------------------------------------------------
(* Time passes, transfers end, the sweep runs every night, and a maintenance  *)
(* that began comes to its end.                                              *)

Fairness ==
    /\ WF_vars(\E a \in Attachments : FinishUpload(a) \/ LoseUpload(a))
    /\ WF_vars(Ageing)
    /\ WF_vars(RemovalStep)
    /\ WF_vars(StartSweep)
    /\ WF_vars(SweepStep)
    /\ WF_vars(Retirement)

FairSpec == Spec /\ Fairness

\* No charge and no bytes outlive their use: what no record lists is sooner or
\* later deleted and no longer charged, however uploads, removals and sweeps
\* overtake each other or are killed.  It stays if it is listed again, if it was
\* published, or if the registry was retired with it.
Kept(a) ==
    \/ reservation[a].sealed \/ record = "retired"
    \/ a \in parent.files \cup proof.files \cup published
    \/ reservation[a].state = "none" /\ parent.status = "published"

StorageIsReclaimed ==
    \A a \in Attachments :
        reservation[a].charged \/ object[a] # "absent" ~>
            (~reservation[a].charged /\ object[a] = "absent") \/ Kept(a)
=============================================================================
