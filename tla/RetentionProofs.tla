---------------------------- MODULE RetentionProofs ---------------------------
(***************************************************************************)
(* Theorems about what retention keeps and what it deletes.                *)
(*                                                                         *)
(* The cloud storage (CloudStore), for any number of runs, any retention   *)
(* count and any number of parallel uploads: the inductive invariant says  *)
(* what the run at work has on the remote (Uploaded), that later runs have *)
(* nothing there (Unborn), and that a newer counted backup exists for each *)
(* that retention has still to delete (Superseded).  The last part is kept *)
(* because retention deletes from the newest down: what supersedes the     *)
(* first it deletes supersedes them all.                                   *)
(*                                                                         *)
(* The tiers (GFSRetention), for all tiers, calendars and horizons: the    *)
(* last backup of a period stays in the daily tier as long as nothing      *)
(* newer pushes it out; what pushes it out belongs to a later period, so   *)
(* by then its own period is past and it is the newest candidate of it;    *)
(* and fewer than `limit' periods lie between it and the current one.      *)
(* Hence it is kept by the first tier that still lacks it.                 *)
(*                                                                         *)
(* The registry of workspaces (TempRegistry), for any number of runs: only *)
(* the holder of the lock is between load and save, what it loaded is      *)
(* still what is on file, and a workspace that its run has marked is in    *)
(* the registry, or in what the sweep has still to save.                   *)
(*                                                                         *)
(* The run of MCHistory, in which each of these and BoundedIO is at work.  *)
(***************************************************************************)
EXTENDS MCHistory, BoundedIOProofs

-----------------------------------------------------------------------------
(* The cloud storage.                                                       *)

\* What CloudTypeOK says, without the limit on parallel uploads.
CloudShape ==
  /\ upload \in 0 .. MaxUploads
  /\ bundles \in BOOLEAN /\ uploadErr \in BOOLEAN /\ halted \in BOOLEAN
  /\ claimed \in BOOLEAN
  /\ cloudStep \in {"idle", "copy", "verify", "sidecars", "list", "delete"}
  /\ objects \in [Uploads -> SUBSET ({"bundle", "archive"} \cup Sidecars)]
  /\ wanted \subseteq Sidecars /\ queued \subseteq wanted
  /\ inFlight \subseteq wanted \ queued
  /\ expired \subseteq Uploads

WithinSlots == Cardinality(inFlight) <= Jobs

Begun == cloudStep # "idle" => upload \in Uploads

Unborn == \A r \in Uploads : r > upload => objects[r] = {}

Superseded == \A r \in expired : \E s \in Uploads : s > r /\ Counted(s)

Uploaded ==
  /\ cloudStep \in {"copy", "verify"} => queued = wanted /\ inFlight = {}
  /\ cloudStep \in {"verify", "sidecars"} => Primary \in objects[upload]
  /\ cloudStep = "sidecars" /\ ~uploadErr /\ ~halted
       => wanted \subseteq queued \cup inFlight \cup objects[upload]
  /\ ClaimedIsUploaded

CloudInv == CloudShape /\ Begun /\ Unborn /\ Superseded /\ Uploaded

-----------------------------------------------------------------------------
(* What an upload and a deletion change.                                   *)

\* Files of the run are put on the remote.
Adds(fs) == objects' = [objects EXCEPT ![upload] = @ \cup fs]

Kinds == {"bundle", "archive"} \cup Sidecars

LEMMA AddsObjects ==
  ASSUME CloudShape, upload \in Uploads, NEW fs \in SUBSET Kinds, Adds(fs)
  PROVE  /\ objects' \in [Uploads -> SUBSET Kinds]
         /\ objects'[upload] = objects[upload] \cup fs
         /\ \A r \in Uploads \ {upload} : objects'[r] = objects[r]
  BY DEF CloudShape, Adds, Kinds

LEMMA PutsAdds ==
  ASSUME NEW f, Puts(f)
  PROVE  Adds({f})
  BY DEF Puts, Adds

LEMMA DeletesObjects ==
  ASSUME CloudShape, NEW r \in Uploads, NEW gone,
         objects' = [objects EXCEPT ![r] = @ \ gone]
  PROVE  /\ objects' \in [Uploads -> SUBSET Kinds]
         /\ objects'[r] = objects[r] \ gone
         /\ \A s \in Uploads \ {r} : objects'[s] = objects[s]
  BY DEF CloudShape, Kinds

LEMMA UploadsAreNumbers == Uploads \subseteq Int
  BY CloudStoreAssumption DEF Uploads

LEMMA PrimaryIsKind == Primary \in Kinds
  BY DEF Primary, Kinds

\* Nothing a later run would have made is counted, so the run's own backup is
\* never one that retention has still to delete.
LEMMA CountedIsBorn ==
  ASSUME Unborn, upload \in Int, NEW s \in Uploads, Counted(s)
  PROVE  s <= upload
  BY UploadsAreNumbers DEF Unborn, Counted

LEMMA OwnIsSpared ==
  ASSUME CloudShape, Unborn, Superseded
  PROVE  upload \notin expired
<1> SUFFICES ASSUME upload \in expired PROVE FALSE
  OBVIOUS
<1>1. PICK s \in Uploads : s > upload /\ Counted(s) BY DEF Superseded
<1>2. upload \in Int BY CloudStoreAssumption DEF CloudShape
<1> QED BY <1>1, <1>2, CountedIsBorn, UploadsAreNumbers

\* What is put on the remote takes nothing away.
LEMMA AddsKeeps ==
  ASSUME CloudShape, upload \in Uploads, Unborn, Superseded,
         NEW fs \in SUBSET Kinds, Adds(fs), UNCHANGED <<upload, expired>>
  PROVE  Unborn' /\ Superseded'
<1>1. \A r \in Uploads : objects[r] \subseteq objects'[r]
  BY AddsObjects
<1>2. \A r \in Uploads : Counted(r) => Counted(r)'
  BY <1>1 DEF Counted
<1>3. Superseded' BY <1>2 DEF Superseded
<1>4. Unborn' BY AddsObjects, UploadsAreNumbers DEF Unborn
<1> QED BY <1>3, <1>4

LEMMA SameKeeps ==
  ASSUME Unborn, Superseded, UNCHANGED <<upload, objects, expired>>
  PROVE  Unborn' /\ Superseded'
  BY DEF Unborn, Superseded, Counted

-----------------------------------------------------------------------------
(* The invariant is inductive.                                             *)

LEMMA CloudInvInit == CloudInit => CloudInv
<1> SUFFICES ASSUME CloudInit PROVE CloudInv
  OBVIOUS
<1>1. CloudShape
  <2>1. objects \in [Uploads -> SUBSET ({"bundle", "archive"} \cup Sidecars)]
    BY DEF CloudInit
  <2>2. upload \in 0 .. MaxUploads BY CloudStoreAssumption DEF CloudInit
  <2> QED BY <2>1, <2>2 DEF CloudInit, CloudShape
<1>2. Unborn BY DEF CloudInit, Unborn
<1> QED BY <1>1, <1>2 DEF CloudInit, CloudInv, Begun, Superseded, Uploaded, ClaimedIsUploaded

LEMMA BeginKeepsInv == CloudInv /\ BeginStore => CloudInv'
<1> SUFFICES ASSUME CloudInv, BeginStore PROVE CloudInv'
  OBVIOUS
<1>1. upload' = upload + 1 /\ upload' \in Uploads /\ upload \in Int
  BY CloudStoreAssumption DEF BeginStore, CloudInv, CloudShape, Uploads
<1>2. CloudShape'
  <2>1. wanted' \subseteq Sidecars /\ queued' = wanted' /\ inFlight' = {}
    BY DEF BeginStore
  <2>2. bundles' \in BOOLEAN /\ upload' \in 0 .. MaxUploads
    BY <1>1 DEF BeginStore, Uploads
  <2> QED BY <2>1, <2>2 DEF BeginStore, CloudInv, CloudShape
<1>3. Begun' BY <1>1 DEF Begun
<1>4. Unborn'
  <2>1. objects' = objects BY DEF BeginStore
  <2> QED BY <1>1, <2>1, UploadsAreNumbers DEF CloudInv, Unborn
<1>5. Superseded' BY DEF BeginStore, Superseded
<1>6. Uploaded' BY DEF BeginStore, Uploaded, ClaimedIsUploaded
<1> QED BY <1>2, <1>3, <1>4, <1>5, <1>6 DEF CloudInv

LEMMA PrimaryKeepsInv == CloudInv /\ (CopyPrimary \/ VerifyPrimary) => CloudInv'
<1> SUFFICES ASSUME CloudInv, CopyPrimary \/ VerifyPrimary PROVE CloudInv'
  OBVIOUS
<1>0. upload \in Uploads /\ CloudShape /\ Unborn /\ Superseded
  BY DEF CopyPrimary, VerifyPrimary, CloudInv, Begun
<1>1. CASE CopyPrimary
  <2>0. /\ cloudStep = "copy" /\ queued = wanted /\ inFlight = {}
        /\ UNCHANGED <<upload, bundles, wanted, queued, inFlight, uploadErr, halted, expired>>
    BY <1>1 DEF CopyPrimary, CloudInv, Uploaded
  <2>1. Adds({Primary}) \/ UNCHANGED objects
    BY <1>1, PutsAdds DEF CopyPrimary, MayPut
  <2>2. Unborn' /\ Superseded'
    BY <1>0, <2>0, <2>1, AddsKeeps, SameKeeps, PrimaryIsKind
  <2>3. objects' \in [Uploads -> SUBSET Kinds]
    BY <1>0, <2>1, AddsObjects, PrimaryIsKind DEF CloudShape, Kinds
  <2>4. \/ ~halted /\ Adds({Primary}) /\ cloudStep' = "verify" /\ UNCHANGED claimed
        \/ claimed' = FALSE /\ cloudStep' = "list"
    BY <1>1, PutsAdds DEF CopyPrimary, StoreReturns
  <2>5. CloudShape' BY <1>0, <2>0, <2>3, <2>4 DEF CloudShape, Kinds
  <2>6. Primary' = Primary BY <2>0 DEF Primary
  <2>7. Uploaded'
    <3>1. CASE cloudStep' = "verify"
      <4>1. Adds({Primary}) BY <2>4, <3>1
      <4>2. Primary' \in objects'[upload] BY <1>0, <2>6, <4>1, AddsObjects, PrimaryIsKind
      <4> QED BY <2>0, <3>1, <4>2 DEF Uploaded, ClaimedIsUploaded
    <3>2. CASE claimed' = FALSE /\ cloudStep' = "list"
      BY <3>2 DEF Uploaded, ClaimedIsUploaded
    <3> QED BY <2>4, <3>1, <3>2
  <2>8. Begun' BY <1>0, <2>0 DEF Begun
  <2> QED BY <2>2, <2>5, <2>7, <2>8 DEF CloudInv
<1>2. CASE VerifyPrimary
  <2>1. /\ cloudStep = "verify" /\ queued = wanted /\ inFlight = {}
        /\ Primary \in objects[upload]
        /\ UNCHANGED <<upload, bundles, objects, wanted, queued, inFlight,
                       uploadErr, halted, expired>>
    BY <1>2 DEF VerifyPrimary, CloudInv, Uploaded
  <2>2. \/ wanted = {} /\ claimed' = TRUE /\ cloudStep' = "list"
        \/ cloudStep' = "sidecars" /\ UNCHANGED claimed
        \/ claimed' = FALSE /\ cloudStep' = "list"
    BY <1>2, <2>1 DEF VerifyPrimary, StoreReturns
  <2>3. CloudShape' BY <1>0, <2>1, <2>2 DEF CloudShape
  <2>4. Primary' = Primary BY <2>1 DEF Primary
  <2>5. Uploaded' BY <2>1, <2>2, <2>4 DEF Uploaded, ClaimedIsUploaded
  <2> QED BY <1>0, <2>1, <2>3, <2>5, SameKeeps DEF CloudInv, Begun
<1> QED BY <1>1, <1>2

LEMMA SidecarsKeepInv == CloudInv /\ UploadSidecars => CloudInv'
<1> SUFFICES ASSUME CloudInv, UploadSidecars PROVE CloudInv'
  OBVIOUS
<1>0. /\ cloudStep = "sidecars" /\ UNCHANGED <<upload, bundles, wanted, halted, expired>>
      /\ Primary \in objects[upload]
  BY DEF UploadSidecars, StartSidecar, SkipSidecar, EndSidecar, JoinSidecars,
     StoreReturns, CloudInv, Uploaded
<1>1. upload \in Uploads /\ CloudShape /\ Unborn /\ Superseded /\ Begun'
  BY <1>0 DEF CloudInv, Begun
<1>2. ~uploadErr /\ ~halted => wanted \subseteq queued \cup inFlight \cup objects[upload]
  BY <1>0 DEF CloudInv, Uploaded
<1>3. Primary' = Primary BY <1>0 DEF Primary
<1>4. ASSUME NEW f \in Sidecars, StartSidecar(f) \/ SkipSidecar(f) PROVE CloudInv'
  <2>1. /\ cloudStep' = "sidecars" /\ UNCHANGED <<objects, claimed>>
        /\ queued' = queued \ {f} /\ f \in queued
        /\ \/ inFlight' = inFlight \cup {f} /\ UNCHANGED uploadErr
           \/ uploadErr' = TRUE /\ UNCHANGED inFlight
           \/ (uploadErr \/ halted) /\ UNCHANGED <<uploadErr, inFlight>>
    BY <1>0, <1>4 DEF StartSidecar, SkipSidecar
  <2>2. uploadErr' \in BOOLEAN /\ inFlight' \in {inFlight, inFlight \cup {f}}
    BY <1>1, <1>4 DEF StartSidecar, SkipSidecar, CloudShape
  <2>3. CloudShape' BY <1>0, <1>1, <2>1, <2>2 DEF CloudShape
  <2>4. uploadErr => uploadErr'
    BY <1>4 DEF StartSidecar, SkipSidecar
  <2>5. Uploaded' BY <1>0, <1>2, <1>3, <2>1, <2>4 DEF Uploaded, ClaimedIsUploaded
  <2> QED BY <1>0, <1>1, <2>1, <2>3, <2>5, SameKeeps DEF CloudInv
<1>5. ASSUME NEW f \in Sidecars, EndSidecar(f) PROVE CloudInv'
  <2>1. /\ cloudStep' = "sidecars" /\ UNCHANGED <<queued, claimed>>
        /\ inFlight' = inFlight \ {f}
        /\ \/ Puts(f) /\ UNCHANGED uploadErr
           \/ (Puts(f) \/ UNCHANGED objects) /\ uploadErr' = TRUE
    BY <1>0, <1>5 DEF EndSidecar, MayPut
  <2>2. {f} \subseteq Kinds BY DEF Kinds
  <2>3. Adds({f}) \/ UNCHANGED objects BY <2>1, PutsAdds
  <2>4. objects' \in [Uploads -> SUBSET Kinds]
    BY <1>1, <2>2, <2>3, AddsObjects DEF CloudShape, Kinds
  <2>5. CloudShape' BY <1>0, <1>1, <2>1, <2>4 DEF CloudShape, Kinds
  <2>6. Unborn' /\ Superseded'
    BY <1>0, <1>1, <2>2, <2>3, AddsKeeps, SameKeeps
  <2>7. Primary' \in objects'[upload]
    BY <1>0, <1>1, <1>3, <2>2, <2>3, AddsObjects
  <2>8. ~uploadErr' /\ ~halted => wanted \subseteq queued \cup inFlight' \cup objects'[upload]
    <3> SUFFICES ASSUME ~uploadErr', ~halted
                 PROVE  wanted \subseteq queued \cup inFlight' \cup objects'[upload]
      OBVIOUS
    <3>1. Adds({f}) /\ ~uploadErr BY <2>1, PutsAdds
    <3>2. objects'[upload] = objects[upload] \cup {f} BY <1>1, <2>2, <3>1, AddsObjects
    <3> QED BY <1>2, <2>1, <3>1, <3>2
  <2>9. Uploaded' BY <1>0, <2>1, <2>7, <2>8 DEF Uploaded, ClaimedIsUploaded
  <2> QED BY <1>1, <2>5, <2>6, <2>9 DEF CloudInv
<1>6. CASE JoinSidecars
  <2>1. /\ queued = {} /\ inFlight = {} /\ cloudStep' = "list" /\ claimed' = ~uploadErr
        /\ UNCHANGED <<objects, queued, inFlight, uploadErr>>
    BY <1>6 DEF JoinSidecars, StoreReturns
  <2>2. CloudShape' BY <1>0, <1>1, <2>1 DEF CloudShape
  <2>3. Uploaded' BY <1>0, <1>2, <1>3, <2>1 DEF Uploaded, ClaimedIsUploaded
  <2> QED BY <1>0, <1>1, <2>1, <2>2, <2>3, SameKeeps DEF CloudInv
<1> QED BY <1>4, <1>5, <1>6 DEF UploadSidecars

LEMMA OldestAreSuperseded ==
  ASSUME NEW n \in Nat \ {0}, NEW r \in Oldest(n)
  PROVE  r \in Uploads /\ \E s \in Uploads : s > r /\ Counted(s)
<1> DEFINE newer == {s \in Uploads : s > r /\ Counted(s)}
<1>1. r \in Uploads /\ Cardinality(newer) >= n BY DEF Oldest
<1>2. newer # {} BY <1>1, FS_EmptySet
<1> QED BY <1>1, <1>2

LEMMA RetentionKeepsInv ==
  CloudInv /\ (ListRemote \/ DeleteRemote \/ LeaveCloud) => CloudInv'
<1> SUFFICES ASSUME CloudInv, ListRemote \/ DeleteRemote \/ LeaveCloud PROVE CloudInv'
  OBVIOUS
<1>1. /\ cloudStep \in {"list", "delete"} /\ cloudStep' \in {"delete", "idle"}
      /\ UNCHANGED <<upload, bundles, wanted, queued, inFlight, uploadErr, halted, claimed>>
  BY DEF ListRemote, DeleteRemote, LeaveCloud
<1>2. upload \in Uploads /\ CloudShape /\ Unborn /\ Superseded /\ Begun' /\ Primary' = Primary
  BY <1>1 DEF CloudInv, Begun, Primary
<1>3. CASE ListRemote
  <2>1. KeepCloud \in Nat \ {0} /\ expired' = Oldest(KeepCloud) /\ UNCHANGED objects
    BY <1>3, CloudStoreAssumption DEF ListRemote
  <2>2. Superseded' BY <2>1, OldestAreSuperseded DEF Superseded, Counted
  <2>3. expired' \subseteq Uploads BY <2>1, OldestAreSuperseded
  <2>4. CloudShape' BY <1>1, <1>2, <2>1, <2>3 DEF CloudShape
  <2>5. Uploaded' BY <1>1, <1>2, <2>1 DEF CloudInv, Uploaded, ClaimedIsUploaded
  <2>6. Unborn' BY <1>1, <1>2, <2>1 DEF Unborn
  <2> QED BY <1>2, <2>2, <2>4, <2>5, <2>6 DEF CloudInv
<1>4. CASE DeleteRemote
  <2>1. PICK r \in expired, gone \in SUBSET Kinds :
          /\ \A s \in expired : s <= r
          /\ expired' = expired \ {r}
          /\ objects' = [objects EXCEPT ![r] = @ \ gone]
    BY <1>2, <1>4 DEF DeleteRemote, CloudShape, Kinds
  <2>2. r \in Uploads /\ r # upload
    BY <1>2, OwnIsSpared DEF CloudShape
  <2>3. /\ objects' \in [Uploads -> SUBSET Kinds]
        /\ \A s \in Uploads \ {r} : objects'[s] = objects[s]
        /\ objects'[r] \subseteq objects[r]
    BY <1>2, <2>1, <2>2, DeletesObjects
  <2>4. PICK q \in Uploads : q > r /\ Counted(q) BY <1>2, <2>1 DEF Superseded
  <2>5. Counted(q)'
    BY <2>2, <2>3, <2>4, UploadsAreNumbers DEF Counted
  <2>6. \A s \in expired : s \in Uploads /\ q > s
    BY <1>2, <2>1, <2>2, <2>4, UploadsAreNumbers DEF CloudShape
  <2>7. Superseded' BY <2>1, <2>4, <2>5, <2>6 DEF Superseded
  <2>8. Unborn' BY <1>1, <1>2, <2>2, <2>3 DEF Unborn
  <2>9. CloudShape' BY <1>1, <1>2, <2>1, <2>3 DEF CloudShape, Kinds
  <2>10. objects'[upload] = objects[upload] BY <1>2, <2>2, <2>3
  <2>11. Uploaded'
    BY <1>1, <1>2, <2>10 DEF CloudInv, Uploaded, ClaimedIsUploaded
  <2> QED BY <1>2, <2>7, <2>8, <2>9, <2>11 DEF CloudInv
<1>5. CASE LeaveCloud
  <2>1. cloudStep' = "idle" /\ UNCHANGED <<objects, expired>> BY <1>5 DEF LeaveCloud
  <2>2. CloudShape' BY <1>1, <1>2, <2>1 DEF CloudShape
  <2>3. Uploaded' BY <2>1 DEF Uploaded, ClaimedIsUploaded
  <2> QED BY <1>1, <1>2, <2>1, <2>2, <2>3, SameKeeps DEF CloudInv
<1> QED BY <1>3, <1>4, <1>5

LEMMA StopsKeepInv == CloudInv /\ (Halt \/ CloudDeath) => CloudInv'
<1> SUFFICES ASSUME CloudInv, Halt \/ CloudDeath PROVE CloudInv'
  OBVIOUS
<1>0. upload \in Uploads /\ CloudShape /\ Unborn /\ Superseded
  BY DEF Halt, CloudDeath, CloudInv, Begun
<1>1. CASE Halt
  <2>1. /\ halted' = TRUE
        /\ UNCHANGED <<upload, bundles, cloudStep, objects, wanted, queued, inFlight,
                       uploadErr, claimed, expired>>
    BY <1>1 DEF Halt
  <2>2. CloudShape' BY <1>0, <2>1 DEF CloudShape
  <2>3. Uploaded' BY <2>1 DEF CloudInv, Uploaded, ClaimedIsUploaded, Primary
  <2> QED BY <1>0, <2>1, <2>2, <2>3, SameKeeps DEF CloudInv, Begun
<1>2. CASE CloudDeath
  <2>1. PICK fs \in SUBSET Kinds : Adds(fs)
    BY <1>0, <1>2, PrimaryIsKind DEF CloudDeath, Adds, CloudShape, Kinds
  <2>2. /\ cloudStep' = "idle" /\ claimed' = FALSE
        /\ UNCHANGED <<upload, bundles, wanted, queued, inFlight, uploadErr, halted, expired>>
    BY <1>2 DEF CloudDeath
  <2>3. CloudShape' BY <1>0, <2>1, <2>2, AddsObjects DEF CloudShape, Kinds
  <2>4. Unborn' /\ Superseded' BY <1>0, <2>1, <2>2, AddsKeeps
  <2>5. Uploaded' BY <2>2 DEF Uploaded, ClaimedIsUploaded
  <2> QED BY <2>2, <2>3, <2>4, <2>5 DEF CloudInv, Begun
<1> QED BY <1>1, <1>2

LEMMA CloudInvInductive == CloudSpec => []CloudInv
<1>1. CloudInv /\ UNCHANGED cloudVars => CloudInv'
  BY DEF cloudVars, CloudInv, CloudShape, Begun, Unborn, Superseded, Uploaded,
     ClaimedIsUploaded, Primary, Counted
<1>2. CloudInv /\ [CloudNext]_cloudVars => CloudInv'
  BY <1>1, BeginKeepsInv, PrimaryKeepsInv, SidecarsKeepInv, RetentionKeepsInv,
     StopsKeepInv DEF CloudNext
<1> QED BY <1>2, CloudInvInit, PTL DEF CloudSpec

\* No more sidecars are under way than there are slots (the semaphore of
\* uploadAssociatedParallel).
LEMMA SlotsAreKept == CloudInv /\ WithinSlots /\ [CloudNext]_cloudVars => WithinSlots'
<1> SUFFICES ASSUME CloudInv, WithinSlots, [CloudNext]_cloudVars PROVE WithinSlots'
  OBVIOUS
<1>1. IsFiniteSet(inFlight) /\ Cardinality(inFlight) \in Nat
  <2>1. Sidecars = ({"sha256"} \cup {"manifest"}) \cup {"metadata"} BY DEF Sidecars
  <2>2. IsFiniteSet({"sha256"}) BY FS_Singleton
  <2>3. IsFiniteSet({"sha256"} \cup {"manifest"}) BY <2>2, FS_AddElement
  <2>4. IsFiniteSet(Sidecars) BY <2>1, <2>3, FS_AddElement
  <2>5. inFlight \subseteq Sidecars BY DEF CloudInv, CloudShape
  <2>6. IsFiniteSet(inFlight) BY <2>4, <2>5, FS_Subset
  <2> QED BY <2>6, FS_CardinalityType
<1>2. ASSUME NEW f, StartSidecar(f) PROVE WithinSlots'
  <2>1. Cardinality(inFlight) < Jobs /\ inFlight' \in {inFlight, inFlight \cup {f}}
    BY <1>2 DEF StartSidecar
  <2>2. Cardinality(inFlight \cup {f}) <= Cardinality(inFlight) + 1
    BY <1>1, FS_AddElement
  <2>3. Cardinality(inFlight \cup {f}) \in Nat
    BY <1>1, FS_AddElement, FS_CardinalityType
  <2> QED BY <1>1, <2>1, <2>2, <2>3, CloudStoreAssumption DEF WithinSlots
<1>3. ASSUME NEW f, EndSidecar(f) PROVE WithinSlots'
  <2>1. inFlight' = inFlight \ {f} BY <1>3 DEF EndSidecar
  <2>2. Cardinality(inFlight \ {f}) <= Cardinality(inFlight)
        /\ Cardinality(inFlight \ {f}) \in Nat
    BY <1>1, FS_Subset, FS_CardinalityType
  <2> QED BY <1>1, <2>1, <2>2, CloudStoreAssumption DEF WithinSlots
<1>4. CASE BeginStore
  BY <1>4, FS_EmptySet, CloudStoreAssumption DEF BeginStore, WithinSlots
<1>5. UNCHANGED inFlight => WithinSlots' BY DEF WithinSlots
<1> QED BY <1>2, <1>3, <1>4, <1>5 DEF CloudNext, cloudVars, CopyPrimary, VerifyPrimary,
       UploadSidecars, SkipSidecar, JoinSidecars, ListRemote, DeleteRemote, LeaveCloud,
       Halt, CloudDeath

-----------------------------------------------------------------------------
(* The theorems.                                                           *)

\* Every variable keeps to its type, and uploads to their slots
\* (uploadAssociatedParallel).
THEOREM CloudTypeCorrect == CloudSpec => []CloudTypeOK
<1>1. CloudInit => WithinSlots
  BY FS_EmptySet, CloudStoreAssumption DEF CloudInit, WithinSlots
<1>2. CloudInv /\ WithinSlots => CloudTypeOK
  BY DEF CloudInv, CloudShape, WithinSlots, CloudTypeOK
<1> QED BY <1>1, <1>2, SlotsAreKept, CloudInvInductive, PTL DEF CloudSpec

\* Store reports success only of a backup whose files are all on the remote,
\* however its parallel uploads ran and failed, unless it was told to stop.
THEOREM ClaimsAreTrue == CloudSpec => []ClaimedIsUploaded
<1>1. CloudInv => ClaimedIsUploaded BY DEF CloudInv, Uploaded
<1> QED BY <1>1, CloudInvInductive, PTL

\* What retention counts on the remote.
CountedRuns == {r \in Uploads : Counted(r)}

LEMMA AddsAdvance ==
  ASSUME CloudInv, NEW u \in Uploads, u = upload, NEW fs \in SUBSET Kinds, Adds(fs)
  PROVE  [CloudPromise!Next]_CountedRuns
<1>1. \A r \in Uploads : Counted(r) => Counted(r)'
  BY AddsObjects DEF Counted, CloudInv
<1>2. \A r \in Uploads \ {u} : Counted(r) <=> Counted(r)'
  BY AddsObjects DEF Counted, CloudInv
<1>3. CASE Counted(u) \/ ~Counted(u)'
  BY <1>1, <1>2, <1>3 DEF CountedRuns
<1>4. CASE ~Counted(u) /\ Counted(u)'
  <2>1. CountedRuns' = CountedRuns \cup {u}
    <3>1. \A r \in Uploads : Counted(r)' <=> Counted(r) \/ r = u BY <1>2, <1>4
    <3>2. CountedRuns' = {r \in Uploads : Counted(r)'} BY DEF CountedRuns
    <3> QED BY <3>1, <3>2, Zenon DEF CountedRuns
  <2>2. \A c \in CountedRuns : c < u
    BY <1>4, CountedIsBorn, UploadsAreNumbers DEF CountedRuns, CloudInv
  <2> QED BY <2>1, <2>2 DEF CloudPromise!Next, CloudPromise!Add, CountedRuns
<1> QED BY <1>3, <1>4

LEMMA CountedAdvance ==
  CloudInv /\ [CloudNext]_cloudVars => [CloudPromise!Next]_CountedRuns
<1> SUFFICES ASSUME CloudInv, [CloudNext]_cloudVars
             PROVE  [CloudPromise!Next]_CountedRuns
  OBVIOUS
<1>1. UNCHANGED objects => UNCHANGED CountedRuns BY DEF CountedRuns, Counted
<1>2. CASE CopyPrimary \/ UploadSidecars \/ CloudDeath
  <2>1. upload \in Uploads
    BY <1>2 DEF CopyPrimary, UploadSidecars, StartSidecar, SkipSidecar, EndSidecar,
       JoinSidecars, CloudDeath, CloudInv, Begun
  <2>2. UNCHANGED objects \/ \E fs \in SUBSET Kinds : Adds(fs)
    <3>1. CASE CopyPrimary
      BY <3>1, PutsAdds, PrimaryIsKind DEF CopyPrimary, MayPut
    <3>2. ASSUME NEW f \in Sidecars, EndSidecar(f)
          PROVE  UNCHANGED objects \/ \E fs \in SUBSET Kinds : Adds(fs)
      BY <3>2, PutsAdds DEF EndSidecar, MayPut, Kinds
    <3>3. CASE CloudDeath
      BY <3>3, PrimaryIsKind DEF CloudDeath, Adds, CloudInv, CloudShape, Kinds
    <3> QED BY <1>2, <3>1, <3>2, <3>3
          DEF UploadSidecars, StartSidecar, SkipSidecar, JoinSidecars
  <2> QED BY <1>1, <2>1, <2>2, AddsAdvance
<1>3. CASE DeleteRemote
  <2>1. PICK r \in expired, gone \in SUBSET Kinds :
          objects' = [objects EXCEPT ![r] = @ \ gone]
    BY <1>3 DEF DeleteRemote, CloudInv, CloudShape, Kinds
  <2>2. PICK q \in Uploads : q > r /\ Counted(q)
    BY DEF CloudInv, Superseded
  <2>3. r \in Uploads BY DEF CloudInv, CloudShape
  <2>4. /\ \A s \in Uploads \ {r} : objects'[s] = objects[s]
        /\ objects'[r] \subseteq objects[r]
    BY <2>1, <2>3, DeletesObjects DEF CloudInv
  <2>5. CountedRuns' = CountedRuns \/ CountedRuns' = CountedRuns \ {r}
    BY <2>3, <2>4 DEF CountedRuns, Counted
  <2> QED BY <2>2, <2>3, <2>5 DEF CloudPromise!Next, CloudPromise!Drop, CountedRuns
<1> QED BY <1>1, <1>2, <1>3 DEF CloudNext, cloudVars, BeginStore, VerifyPrimary,
       ListRemote, LeaveCloud, Halt

\* The cloud location implements the catalogue: through failed and partial
\* uploads, failed deletions and deaths, retention gives up a backup it counts
\* only while it counts a newer one (deleteBackupInternal, ApplyRetention).
THEOREM CloudImplementsCatalog == CloudSpec => CloudKeepsNewest
<1>1. CloudInit => CloudPromise!Init
  BY DEF CloudInit, CloudPromise!Init, Counted
<1>2. CloudInv /\ [CloudNext]_cloudVars => [CloudPromise!Next]_CountedRuns
  BY CountedAdvance
<1> QED BY <1>1, <1>2, CloudInvInductive, PTL
        DEF CloudSpec, CloudKeepsNewest, CloudPromise!Spec, CountedRuns

-----------------------------------------------------------------------------
(* The tiers.                                                               *)

\* The sets the classification counts are finite, with natural cardinality.
LEMMA FiniteTimes ==
  ASSUME NEW S \in SUBSET Times
  PROVE  IsFiniteSet(S) /\ Cardinality(S) \in Nat
<1>1. IsFiniteSet(Times) BY FS_Interval, HorizonIsNat DEF Times
<1> QED BY <1>1, FS_Subset, FS_CardinalityType

LEMMA EffectiveDailyPositive == EffectiveDaily \in Int /\ EffectiveDaily >= 1
BY TiersAreInts DEF EffectiveDaily

\* The newest backup is in the daily tier (ClassifyBackupsGFS, step 1).
LEMMA NewestIsDaily ==
  ASSUME NEW S \in SUBSET Times, NEW m \in S, \A c \in S : c <= m
  PROVE  m \in DailyTier(S)
<1>1. m \in Int /\ \A c \in S : c \in Int BY HorizonIsNat DEF Times
<1>2. \A c \in S : ~(c > m) BY <1>1
<1>3. Newer(S, m) = {} BY <1>2 DEF Newer
<1>4. Cardinality(Newer(S, m)) = 0 BY <1>3, FS_EmptySet
<1> QED BY <1>4, EffectiveDailyPositive DEF DailyTier

\* What has left the daily tier is older than something.
LEMMA OldHasNewer ==
  ASSUME NEW S \in SUBSET Times, NEW m \in S, m \notin DailyTier(S)
  PROVE  \E c \in S : c > m
<1>1. SUFFICES ASSUME \A c \in S : c <= m PROVE FALSE
  BY DEF Times
<1> QED BY <1>1, NewestIsDaily

\* A larger set has no fewer newer backups.
LEMMA NewerMonotone ==
  ASSUME NEW T \in SUBSET Times, NEW S \in SUBSET T, NEW m \in Times
  PROVE  Cardinality(Newer(S, m)) <= Cardinality(Newer(T, m))
<1>1. Newer(T, m) \in SUBSET Times /\ Newer(S, m) \in SUBSET Newer(T, m)
  BY DEF Newer
<1> QED BY <1>1, FiniteTimes, FS_Subset

(* The last backup of a past period, at most `limit' periods ago, is kept  *)
(* by a tier of that many periods (ClassifyBackupsGFS, steps 2 to 4).      *)
LEMMA TierKeepsLast ==
  ASSUME NEW S \in SUBSET Times, NEW period, Calendar(period),
         NEW t \in Times, NEW m \in S, period[m] < period[t],
         \A c \in S : period[c] = period[m] => c <= m,
         NEW limit \in Int, period[t] - period[m] <= limit
  PROVE  m \in Tier(Past(S, period, t), period, limit)
<1> DEFINE P == Past(S, period, t)
           between == (period[m] + 1) .. (period[t] - 1)
           seen == {period[c] : c \in Newer(P, m)}
<1>1. m \in P /\ P \subseteq S BY DEF Past
<1>2. period[m] \in Nat /\ period[t] \in Nat BY DEF Calendar
<1>3. seen \subseteq between
  <2>1. SUFFICES ASSUME NEW c \in Newer(P, m) PROVE period[c] \in between
    OBVIOUS
  <2>2. c \in S /\ c > m /\ period[c] < period[t] BY DEF Newer, Past
  <2>3. period[c] \in Nat /\ period[m] <= period[c]
    BY <2>2 DEF Calendar, Times
  <2>4. period[c] # period[m] BY <2>2 DEF Times
  <2> QED BY <2>2, <2>3, <2>4, <1>2
<1>4. IsFiniteSet(between) /\ Cardinality(between) = period[t] - period[m] - 1
  <2> DEFINE a == period[m] + 1
             b == period[t] - 1
  <2>1. a \in Int /\ b \in Int /\ a <= b + 1 /\ b - a + 1 = period[t] - period[m] - 1
    BY <1>2
  <2>2. IsFiniteSet(a .. b) /\ Cardinality(a .. b) = IF a > b THEN 0 ELSE b - a + 1
    <3> HIDE DEF a, b
    <3> QED BY <2>1, FS_Interval
  <2>3. (IF a > b THEN 0 ELSE b - a + 1) = b - a + 1
    <3> HIDE DEF a, b
    <3> QED BY <2>1
  <2> QED BY <2>1, <2>2, <2>3
<1>5. Cardinality(seen) <= Cardinality(between) /\ Cardinality(seen) \in Nat
  BY <1>3, <1>4, FS_Subset, FS_CardinalityType
<1>6. Cardinality(seen) < limit BY <1>2, <1>4, <1>5
<1>7. \A c \in P : period[c] = period[m] => c <= m BY <1>1
<1> QED BY <1>1, <1>6, <1>7 DEF Tier

(* With as many periods as backups, the last backup of every past period   *)
(* is kept (RETENTION_YEARLY = 0).                                         *)
LEMMA UnlimitedTierKeepsLast ==
  ASSUME NEW S \in SUBSET Times, NEW period, Calendar(period),
         NEW t \in Times, NEW m \in S, period[m] < period[t],
         \A c \in S : period[c] = period[m] => c <= m,
         NEW limit \in Int, Cardinality(S) < limit
  PROVE  m \in Tier(Past(S, period, t), period, limit)
<1> DEFINE P == Past(S, period, t)
           N == Newer(P, m)
           seen == {period[c] : c \in N}
           f == [c \in N |-> period[c]]
<1>1. m \in P /\ P \subseteq S /\ N \in SUBSET S BY DEF Past, Newer
<1>2. IsFiniteSet(N) /\ Cardinality(N) <= Cardinality(S)
  BY <1>1, FiniteTimes, FS_Subset
<1>3. f \in Surjection(N, seen) BY DEF Surjection
<1>4. IsFiniteSet(seen) /\ Cardinality(seen) <= Cardinality(N)
  BY <1>2, <1>3, FS_Surjection
<1>5. Cardinality(seen) < limit
  BY <1>2, <1>4, FS_CardinalityType, FiniteTimes
<1>6. \A c \in P : period[c] = period[m] => c <= m BY <1>1
<1> QED BY <1>1, <1>5, <1>6 DEF Tier

\* The last backup of its period that has left the daily tier is past.
LEMMA LastIsPast ==
  ASSUME NEW S \in SUBSET Times, NEW period, Calendar(period),
         NEW t \in Times, \A c \in S : c <= t,
         NEW m \in S, m \notin DailyTier(S),
         \A c \in S : period[c] = period[m] => c <= m
  PROVE  period[m] < period[t]
<1>1. PICK c \in S : c > m BY OldHasNewer
<1>2. period[m] <= period[c] /\ period[c] <= period[t]
  BY <1>1 DEF Calendar, Times
<1>3. period[m] # period[c] BY <1>1 DEF Times
<1>4. period[m] \in Nat /\ period[c] \in Nat /\ period[t] \in Nat
  BY DEF Calendar
<1> QED BY <1>2, <1>3, <1>4

(* One call of ClassifyBackupsGFS keeps the last backup of every recent    *)
(* week, month and year.                                                   *)
LEMMA KeptCovers ==
  ASSUME NEW S \in SUBSET Times, NEW t \in Times, \A c \in S : c <= t,
         NEW m \in S,
         \/ /\ \A c \in S : WeekOf[c] = WeekOf[m] => c <= m
            /\ WeekOf[t] - WeekOf[m] <= Weekly
         \/ /\ \A c \in S : MonthOf[c] = MonthOf[m] => c <= m
            /\ MonthOf[t] - MonthOf[m] <= Monthly
         \/ /\ \A c \in S : YearOf[c] = YearOf[m] => c <= m
            /\ Yearly = 0 \/ YearOf[t] - YearOf[m] <= Yearly
  PROVE  m \in Kept(S, t)
<1> DEFINE D == DailyTier(S)
           W == WeeklyTier(S, t)
           M == MonthlyTier(S, t)
           Y == YearlyTier(S, t)
<1>1. SUFFICES ASSUME m \notin D, m \notin W, m \notin M PROVE m \in Y
  BY DEF Kept
<1>2. CASE /\ \A c \in S : WeekOf[c] = WeekOf[m] => c <= m
           /\ WeekOf[t] - WeekOf[m] <= Weekly
  <2>1. WeekOf[m] < WeekOf[t] BY <1>1, <1>2, LastIsPast, Calendars
  <2>2. m \in W
    BY <1>1, <1>2, <2>1, TierKeepsLast, Calendars, TiersAreInts DEF WeeklyTier
  <2> QED BY <2>2, <1>1
<1>3. CASE /\ \A c \in S : MonthOf[c] = MonthOf[m] => c <= m
           /\ MonthOf[t] - MonthOf[m] <= Monthly
  <2>1. MonthOf[m] < MonthOf[t] BY <1>1, <1>3, LastIsPast, Calendars
  <2> DEFINE R == S \ (D \cup W)
  <2>2. R \in SUBSET Times /\ m \in R BY <1>1
  <2>3. \A c \in R : MonthOf[c] = MonthOf[m] => c <= m BY <1>3
  <2>4. m \in Tier(Past(R, MonthOf, t), MonthOf, Monthly)
    <3> HIDE DEF R
    <3> QED BY <1>3, <2>1, <2>2, <2>3, TierKeepsLast, Calendars, TiersAreInts
  <2> QED BY <2>4, <1>1 DEF MonthlyTier
<1>4. CASE /\ \A c \in S : YearOf[c] = YearOf[m] => c <= m
           /\ Yearly = 0 \/ YearOf[t] - YearOf[m] <= Yearly
  <2>1. YearOf[m] < YearOf[t] BY <1>1, <1>4, LastIsPast, Calendars
  <2> DEFINE R == S \ (D \cup W \cup M)
  <2>2. R \in SUBSET Times /\ R \in SUBSET S /\ m \in R BY <1>1
  <2>3. \A c \in R : YearOf[c] = YearOf[m] => c <= m BY <1>4
  <2>4. m \in Tier(Past(R, YearOf, t), YearOf, YearlyLimit(S))
    <3> HIDE DEF R
    <3>1. CASE Yearly = 0
      <4>1. YearlyLimit(S) \in Int /\ Cardinality(S) < YearlyLimit(S)
        BY <3>1, FiniteTimes DEF YearlyLimit
      <4>2. Cardinality(R) <= Cardinality(S) /\ Cardinality(R) \in Nat
        BY <2>2, FiniteTimes, FS_Subset
      <4>3. Cardinality(R) < YearlyLimit(S) BY <4>1, <4>2, FiniteTimes
      <4> QED
        BY <4>1, <4>3, <2>1, <2>2, <2>3, UnlimitedTierKeepsLast, Calendars
    <3>2. CASE Yearly # 0
      <4>1. YearlyLimit(S) = Yearly /\ YearOf[t] - YearOf[m] <= Yearly
        BY <3>2, <1>4 DEF YearlyLimit
      <4> QED
        BY <4>1, <2>1, <2>2, <2>3, TierKeepsLast, Calendars, TiersAreInts
    <3> QED BY <3>1, <3>2
  <2> QED BY <2>4 DEF YearlyTier
<1> QED BY <1>2, <1>3, <1>4

-----------------------------------------------------------------------------
(* Only backups made in the past are stored (List, ApplyRetention).        *)
THEOREM GFSTypeCorrect == GFSSpec => []GFSTypeOK
<1>1. GFSInit => GFSTypeOK BY HorizonIsNat DEF GFSInit, GFSTypeOK, Times
<1>2. GFSTypeOK /\ [GFSNext]_gfsVars => GFSTypeOK'
  <2> SUFFICES ASSUME GFSTypeOK, [GFSNext]_gfsVars PROVE GFSTypeOK' OBVIOUS
  <2> USE HorizonIsNat DEF GFSTypeOK, Times
  <2>1. CASE Tick BY <2>1 DEF Tick
  <2>2. CASE SyncStored
    <3>1. store' \subseteq store \cup {now}
      BY <2>2, Zenon DEF SyncStored, ApplyRetention, Doomed
    <3>2. made' = made \cup {now} /\ now' = now BY <2>2 DEF SyncStored
    <3> QED BY <3>1, <3>2
  <2>3. CASE SyncFailed
    <3>1. store' \subseteq store BY <2>3, Zenon DEF SyncFailed, ApplyRetention
    <3>2. made' = made /\ now' = now BY <2>3 DEF SyncFailed
    <3> QED BY <3>1, <3>2
  <2>4. CASE UNCHANGED gfsVars BY <2>4 DEF gfsVars
  <2> QED BY <2>1, <2>2, <2>3, <2>4 DEF GFSNext
<1> QED BY <1>1, <1>2, PTL DEF GFSSpec

Inv == GFSTypeOK /\ RecentKept /\ PeriodsCovered

(* Whatever the retention of the backups S keeps of the recent ones and of *)
(* the last ones of their periods is still there after it, also when only  *)
(* part of the doomed backups is removed.                                  *)
LEMMA RetentionKeeps ==
  ASSUME GFSTypeOK, GFSTypeOK', now' = now, NEW S \in SUBSET made', ApplyRetention(S),
         NEW m \in S
  PROVE  /\ Cardinality(Newer(made', m)) < EffectiveDaily => m \in store'
         /\ LastOf(m, WeekOf)' /\ WeekOf[now] - WeekOf[m] <= Weekly => m \in store'
         /\ LastOf(m, MonthOf)' /\ MonthOf[now] - MonthOf[m] <= Monthly => m \in store'
         /\ /\ LastOf(m, YearOf)'
            /\ Yearly = 0 \/ YearOf[now] - YearOf[m] <= Yearly
            => m \in store'
<1>1. now \in Times /\ made' \subseteq 0 .. now /\ made' \in SUBSET Times
  BY HorizonIsNat DEF GFSTypeOK, Times
<1>2. S \in SUBSET Times /\ \A c \in S : c <= now BY <1>1
<1>3. m \in Kept(S, now) => m \in store' BY DEF ApplyRetention, Doomed
<1>4. Cardinality(Newer(made', m)) < EffectiveDaily => m \in Kept(S, now)
  <2>1. Cardinality(Newer(S, m)) <= Cardinality(Newer(made', m))
    BY <1>1, <1>2, NewerMonotone
  <2>2. Newer(S, m) \in SUBSET Times /\ Newer(made', m) \in SUBSET Times
    BY <1>1, <1>2 DEF Newer
  <2>3. Cardinality(Newer(S, m)) \in Nat /\ Cardinality(Newer(made', m)) \in Nat
    BY <2>2, FiniteTimes
  <2> QED BY <2>1, <2>3, EffectiveDailyPositive DEF Kept, DailyTier
<1>5. \A period : LastOf(m, period)' =>
        \A c \in S : period[c] = period[m] => c <= m
  BY DEF LastOf
<1>6. LastOf(m, WeekOf)' => \A c \in S : WeekOf[c] = WeekOf[m] => c <= m
  BY DEF LastOf
<1>7. LastOf(m, MonthOf)' => \A c \in S : MonthOf[c] = MonthOf[m] => c <= m
  BY DEF LastOf
<1>8. LastOf(m, YearOf)' => \A c \in S : YearOf[c] = YearOf[m] => c <= m
  BY DEF LastOf
<1> QED BY <1>1, <1>2, <1>3, <1>4, <1>6, <1>7, <1>8, KeptCovers

LEMMA Inductive == Inv /\ GFSTypeOK' /\ [GFSNext]_gfsVars => Inv'
<1> SUFFICES ASSUME Inv, GFSTypeOK', [GFSNext]_gfsVars PROVE RecentKept' /\ PeriodsCovered'
  BY DEF Inv
<1> USE DEF Inv
<1>1. CASE Tick
  <2>1. now \in Times /\ now + 1 \in Times /\ made \in SUBSET Times
    BY <1>1, HorizonIsNat DEF Tick, GFSTypeOK, Times
  <2>2. RecentKept' BY <1>1 DEF Tick, RecentKept, Newer
  <2>3. \A period, m : Calendar(period) /\ m \in made =>
          /\ period[now] \in Nat /\ period[now'] \in Nat /\ period[m] \in Nat
          /\ period[now] <= period[now']
    BY <1>1, <2>1 DEF Tick, Calendar, Times
  <2>4. \A m \in made : WeekOf[now'] - WeekOf[m] <= Weekly
                          => WeekOf[now] - WeekOf[m] <= Weekly
    BY <2>3, Calendars, TiersAreInts
  <2>5. \A m \in made : MonthOf[now'] - MonthOf[m] <= Monthly
                          => MonthOf[now] - MonthOf[m] <= Monthly
    BY <2>3, Calendars, TiersAreInts
  <2>6. \A m \in made : YearOf[now'] - YearOf[m] <= Yearly
                          => YearOf[now] - YearOf[m] <= Yearly
    BY <2>3, Calendars, TiersAreInts
  <2>7. made' = made /\ store' = store BY <1>1 DEF Tick
  <2>8. WeeksCovered' BY <2>4, <2>7 DEF PeriodsCovered, WeeksCovered, Covered, LastOf
  <2>9. MonthsCovered' BY <2>5, <2>7 DEF PeriodsCovered, MonthsCovered, Covered, LastOf
  <2>10. YearsCovered' BY <2>6, <2>7 DEF PeriodsCovered, YearsCovered, LastOf
  <2> QED BY <2>2, <2>8, <2>9, <2>10 DEF PeriodsCovered
<1>2. ASSUME NEW S \in SUBSET made', ApplyRetention(S), now' = now,
             made \subseteq made',
             \A m \in made' : m \in S \/ (m \in made /\ m \notin store)
      PROVE  RecentKept' /\ PeriodsCovered'
  <2>1. SUFFICES ASSUME NEW m \in made'
        PROVE /\ Cardinality(Newer(made', m)) < EffectiveDaily => m \in store'
              /\ LastOf(m, WeekOf)' /\ WeekOf[now] - WeekOf[m] <= Weekly => m \in store'
              /\ LastOf(m, MonthOf)' /\ MonthOf[now] - MonthOf[m] <= Monthly => m \in store'
              /\ /\ LastOf(m, YearOf)'
                 /\ Yearly = 0 \/ YearOf[now] - YearOf[m] <= Yearly
                 => m \in store'
    BY <1>2 DEF RecentKept, PeriodsCovered, WeeksCovered, MonthsCovered,
               YearsCovered, Covered, LastOf
  <2>2. CASE m \in S BY <1>2, <2>2, RetentionKeeps
  <2>3. CASE m \in made /\ m \notin store
    <3>1. now \in Times /\ made' \in SUBSET Times
      BY <1>2, HorizonIsNat DEF GFSTypeOK, Times
    <3>2. m \in Times /\ Cardinality(Newer(made, m)) <= Cardinality(Newer(made', m))
      BY <1>2, <3>1, NewerMonotone
    <3>3. Newer(made, m) \in SUBSET Times /\ Newer(made', m) \in SUBSET Times
      BY <1>2, <3>1 DEF Newer
    <3>4. Cardinality(Newer(made, m)) \in Nat /\ Cardinality(Newer(made', m)) \in Nat
      BY <3>3, FiniteTimes
    <3>5. ~(Cardinality(Newer(made', m)) < EffectiveDaily)
      BY <2>3, <3>2, <3>4, EffectiveDailyPositive DEF RecentKept
    <3>6. \A period : LastOf(m, period)' => LastOf(m, period)
      BY <1>2 DEF LastOf
    <3>7. ~(LastOf(m, WeekOf)' /\ WeekOf[now] - WeekOf[m] <= Weekly)
      BY <2>3, <1>2 DEF LastOf, PeriodsCovered, WeeksCovered, Covered
    <3>8. ~(LastOf(m, MonthOf)' /\ MonthOf[now] - MonthOf[m] <= Monthly)
      BY <2>3, <1>2 DEF LastOf, PeriodsCovered, MonthsCovered, Covered
    <3>9. ~(/\ LastOf(m, YearOf)'
            /\ Yearly = 0 \/ YearOf[now] - YearOf[m] <= Yearly)
      BY <2>3, <1>2 DEF LastOf, PeriodsCovered, YearsCovered
    <3> QED BY <3>5, <3>7, <3>8, <3>9
  <2> QED BY <1>2, <2>2, <2>3
<1>3. CASE SyncStored
  <2>1. made' = made \cup {now} /\ now' = now /\ ApplyRetention(store \cup {now})
    BY <1>3 DEF SyncStored
  <2>2. store \cup {now} \in SUBSET made' BY <2>1 DEF GFSTypeOK
  <2> QED BY <2>1, <2>2, <1>2
<1>4. CASE SyncFailed
  <2>1. made' = made /\ now' = now /\ ApplyRetention(store)
    BY <1>4 DEF SyncFailed
  <2>2. store \in SUBSET made' BY <2>1 DEF GFSTypeOK
  <2> QED BY <2>1, <2>2, <1>2
<1>5. CASE UNCHANGED gfsVars
  BY <1>5 DEF gfsVars, RecentKept, PeriodsCovered, WeeksCovered, MonthsCovered,
              YearsCovered, Covered, LastOf, Newer
<1> QED BY <1>1, <1>3, <1>4, <1>5 DEF GFSNext

LEMMA InvHolds == GFSSpec => []Inv
<1>1. GFSInit => Inv
  BY HorizonIsNat DEF GFSInit, Inv, GFSTypeOK, Times, RecentKept, PeriodsCovered,
                      WeeksCovered, MonthsCovered, YearsCovered, Covered
<1> QED BY <1>1, Inductive, GFSTypeCorrect, PTL DEF GFSSpec

(* The newest EffectiveDaily backups ever stored are never removed, by any *)
(* sequence of runs, failed copies and partly failed retentions.           *)
THEOREM RecentBackupsAreKept == GFSSpec => []RecentKept
BY InvHolds, PTL DEF Inv

(* Every recent week, month and year with a backup stays represented.      *)
THEOREM TiersAreCovered == GFSSpec => []PeriodsCovered
BY InvHolds, PTL DEF Inv

(* So whatever runs, failures and deletions in part came before, no tier   *)
(* gives up a backup it is there to keep.                                  *)
THEOREM TiersAlwaysKeep == GFSSpec => []TiersKeep
BY RecentBackupsAreKept, TiersAreCovered, PTL DEF TiersKeep

-----------------------------------------------------------------------------
(* The registry of workspaces.                                             *)

\* The steps of a run before its workspace can have an entry.
Early == {"idle", "sweeping", "create", "mark", "register", "registering"}

RegistryLocked ==
  /\ \A r \in TempRuns : wstep[r] \in UnderFlock => flock = r
  /\ flock = NoRunner => entries = {} /\ todo = {}

\* What the holder of the lock is about to save still has every entry of a whole
\* workspace.
EntriesKept ==
  flock # NoRunner =>
    \A r \in registry : workspace[r] = "marked" => r \in entries

\* A run has no entry before it registers, and no data before it has a marker.
EarlyRuns ==
  \A r \in TempRuns :
    /\ wstep[r] \in Early => r \notin registry \cup entries
    /\ wstep[r] \in {"idle", "sweeping", "create", "mark", "deregister", "deregistering"}
         => workspace[r] # "marked"

\* LeftoversAreTracked, of the runs that are still at work as well.
Tracked ==
  \A r \in TempRuns :
    wstep[r] \notin Early /\ workspace[r] = "marked" => r \in registry \cup untracked

TempInv == TempTypeOK /\ RegistryLocked /\ EntriesKept /\ EarlyRuns /\ Tracked

LEMMA TempInvInit == TempInit => TempInv
<1> SUFFICES ASSUME TempInit PROVE TempInv
  OBVIOUS
<1>1. TempTypeOK BY DEF TempInit, TempTypeOK, Live, Over
<1> QED BY <1>1 DEF TempInit, TempInv, RegistryLocked, EntriesKept, EarlyRuns, Tracked,
       UnderFlock, Early

\* A step of a run that neither loads nor saves the registry.
LEMMA OwnStep ==
  ASSUME TempInv, NEW r \in TempRuns,
         \/ CreateWorkspace(r) \/ MarkWorkspace(r) \/ CollectEnds(r) \/ RemoveWorkspace(r)
  PROVE  TempInv'
<1>0. UNCHANGED <<registry, aged, flock, entries, todo, untracked>>
  BY DEF CreateWorkspace, MarkWorkspace, CollectEnds, RemoveWorkspace
<1>1. PICK s \in Live \cup Over, w \in {"none", "bare", "marked", "rest"} :
        /\ wstep' = [wstep EXCEPT ![r] = s]
        /\ workspace' = [workspace EXCEPT ![r] = w]
        /\ s \notin UnderFlock
        /\ wstep[r] \in Early => s \in {"mark", "register", "remove"}
        /\ s \in Early => wstep[r] \in Early
        /\ s \in {"mark", "deregister"} => w # "marked"
        /\ s # "register" /\ w = "marked" => workspace[r] = "marked" /\ wstep[r] \notin Early
        /\ s \in {"register", "remove", "ended", "mark", "deregister"}
  <2>1. workspace = [workspace EXCEPT ![r] = workspace[r]]
        /\ workspace[r] \in {"none", "bare", "marked", "rest"}
    BY DEF TempInv, TempTypeOK
  <2>2. CASE CreateWorkspace(r)
    BY <2>2 DEF CreateWorkspace, WGoto, Live, UnderFlock, Early
  <2>3. CASE MarkWorkspace(r)
    <3>1. wstep[r] = "mark" /\ workspace[r] # "marked"
      BY <2>3 DEF MarkWorkspace, WGoto, TempInv, EarlyRuns
    <3> QED BY <2>1, <2>3, <3>1 DEF MarkWorkspace, WGoto, Live, UnderFlock, Early
  <2>4. CASE CollectEnds(r)
    BY <2>1, <2>4 DEF CollectEnds, WGoto, Live, UnderFlock, Early
  <2>5. CASE RemoveWorkspace(r)
    <3>1. PICK left \in Removal(r) :
            /\ workspace' = [workspace EXCEPT ![r] = left]
            /\ WGoto(r, "remove", IF left = "none" THEN "deregister" ELSE "ended")
      BY <2>5 DEF RemoveWorkspace
    <3>2. left \in {"none", "rest", workspace[r]} BY DEF Removal
    <3>3. CASE left = "none"
      BY <3>1, <3>3 DEF WGoto, Live, UnderFlock, Early
    <3>4. CASE left # "none"
      BY <2>1, <3>1, <3>2, <3>4 DEF WGoto, Live, Over, UnderFlock, Early
    <3> QED BY <3>3, <3>4
  <2> QED BY <2>2, <2>3, <2>4, <2>5
<1>2. TempTypeOK' BY <1>0, <1>1 DEF TempInv, TempTypeOK
<1>3. /\ wstep'[r] = s /\ \A q \in TempRuns \ {r} : wstep'[q] = wstep[q]
      /\ workspace'[r] = w /\ \A q \in TempRuns \ {r} : workspace'[q] = workspace[q]
  BY <1>1 DEF TempInv, TempTypeOK
<1>4. RegistryLocked' BY <1>0, <1>1, <1>3 DEF TempInv, RegistryLocked
<1>5. EarlyRuns' BY <1>0, <1>1, <1>3 DEF TempInv, EarlyRuns
<1>6. r \in registry => s # "register"
  BY <1>1 DEF TempInv, EarlyRuns, Early
<1>7. EntriesKept' BY <1>0, <1>1, <1>3, <1>6 DEF TempInv, EntriesKept, TempTypeOK
<1>8. Tracked'
  <2>1. s = "register" => s \in Early BY DEF Early
  <2> QED BY <1>0, <1>1, <1>3, <2>1 DEF TempInv, Tracked
<1> QED BY <1>2, <1>4, <1>5, <1>7, <1>8 DEF TempInv

\* The lock is taken and the registry loaded.
LEMMA LoadStep ==
  ASSUME TempInv, NEW r \in TempRuns,
         BeginSweep(r) \/ BeginRegister(r) \/ BeginDeregister(r)
  PROVE  TempInv'
<1>0. /\ flock = NoRunner /\ flock' = r /\ entries' = registry
      /\ UNCHANGED <<workspace, registry, aged, untracked>>
      /\ todo' \in {registry, todo} /\ (BeginSweep(r) => todo' = registry)
  BY DEF BeginSweep, BeginRegister, BeginDeregister, LoadEntries, FlockFree
<1>1. PICK s \in UnderFlock :
        /\ wstep' = [wstep EXCEPT ![r] = s]
        /\ wstep[r] \in Early <=> s \in Early
        /\ s \in {"sweeping", "deregistering"} => wstep[r] \in {"idle", "deregister"}
  BY DEF BeginSweep, BeginRegister, BeginDeregister, WGoto, UnderFlock, Early
<1>2. \A q \in TempRuns : wstep[q] \notin UnderFlock
  BY <1>0, TempRunsAssumption DEF TempInv, RegistryLocked
<1>3. /\ wstep'[r] = s /\ \A q \in TempRuns \ {r} : wstep'[q] = wstep[q]
      /\ wstep' \in [TempRuns -> Live \cup Over \cup {"idle"}]
  BY <1>1 DEF TempInv, TempTypeOK, UnderFlock, Live
<1>4. TempTypeOK' /\ RegistryLocked' /\ EntriesKept'
  <2>1. todo = {} BY <1>0 DEF TempInv, RegistryLocked
  <2>2. TempTypeOK' BY <1>0, <1>3, <2>1 DEF TempInv, TempTypeOK
  <2>3. RegistryLocked'
    BY <1>0, <1>2, <1>3, TempRunsAssumption DEF RegistryLocked
  <2>4. EntriesKept' BY <1>0 DEF EntriesKept
  <2> QED BY <2>2, <2>3, <2>4
<1>5. EarlyRuns'
  <2>1. s \in {"idle", "sweeping", "create", "mark", "deregister", "deregistering"}
          => workspace[r] # "marked"
    BY <1>1 DEF UnderFlock, TempInv, EarlyRuns
  <2> QED BY <1>0, <1>1, <1>3, <2>1 DEF TempInv, EarlyRuns
<1>6. Tracked' BY <1>0, <1>1, <1>3 DEF TempInv, Tracked
<1> QED BY <1>4, <1>5, <1>6 DEF TempInv

\* The registry is replaced, or not, and the lock released.
LEMMA SaveStep ==
  ASSUME TempInv, NEW r \in TempRuns,
         EndSweep(r) \/ Register(r) \/ Deregister(r)
  PROVE  TempInv'
<1>0. flock = r /\ flock # NoRunner
  BY TempRunsAssumption DEF EndSweep, Register, Deregister, WGoto, TempInv, RegistryLocked,
     UnderFlock
<1>1. PICK new \in SUBSET TempRuns, s \in {"create", "collect", "ended"} :
        /\ registry' \in {new, registry} /\ aged' = aged \cap registry'
        /\ flock' = NoRunner /\ entries' = {} /\ todo' = {}
        /\ UNCHANGED workspace
        /\ untracked' = untracked
           \/ untracked' = IF r \in registry' THEN untracked ELSE untracked \cup {r}
        /\ wstep' = [wstep EXCEPT ![r] = s]
        /\ new \subseteq entries \cup {r}
        /\ \A q \in entries : workspace[q] = "marked" => q \in new
        /\ s = "create" => wstep[r] = "sweeping" /\ new = entries
        /\ s = "collect" => r \in registry' \cup untracked'
        /\ s = "ended" => workspace[r] # "marked"
  <2>1. entries \subseteq TempRuns BY DEF TempInv, TempTypeOK
  <2>2. CASE EndSweep(r)
    BY <2>1, <2>2 DEF EndSweep, SaveEntries, WGoto
  <2>3. CASE Register(r)
    BY <2>1, <2>3 DEF Register, SaveEntries, WGoto
  <2>4. CASE Deregister(r)
    <3>1. workspace[r] # "marked"
      BY <2>4 DEF Deregister, WGoto, TempInv, EarlyRuns
    <3> QED BY <2>1, <2>4, <3>1 DEF Deregister, SaveEntries, WGoto
  <2> QED BY <2>2, <2>3, <2>4
<1>2. /\ wstep'[r] = s /\ \A q \in TempRuns \ {r} : wstep'[q] = wstep[q]
      /\ wstep' \in [TempRuns -> Live \cup Over \cup {"idle"}]
  BY <1>1 DEF TempInv, TempTypeOK, Live, Over
<1>3. TempTypeOK' BY <1>1, <1>2 DEF TempInv, TempTypeOK
<1>4. RegistryLocked'
  <2>1. \A q \in TempRuns \ {r} : wstep[q] \notin UnderFlock
    BY <1>0 DEF TempInv, RegistryLocked
  <2>2. s \notin UnderFlock BY <1>1 DEF UnderFlock
  <2> QED BY <1>1, <1>2, <2>1, <2>2 DEF RegistryLocked
<1>5. EntriesKept' BY <1>1 DEF EntriesKept
<1>6. \A q \in registry : workspace[q] = "marked" => q \in registry'
  BY <1>0, <1>1 DEF TempInv, EntriesKept
<1>7. EarlyRuns'
  <2>1. \A q \in TempRuns \ {r} : wstep[q] \in Early => q \notin registry'
    BY <1>1 DEF TempInv, EarlyRuns
  <2>2. s \in Early => r \notin registry' /\ workspace[r] # "marked"
    BY <1>1 DEF TempInv, EarlyRuns, Early
  <2>3. s \notin {"idle", "sweeping", "mark", "deregister", "deregistering"}
    BY <1>1
  <2>4. s = "create" => s \in Early BY DEF Early
  <2> QED BY <1>1, <1>2, <2>1, <2>2, <2>3, <2>4 DEF TempInv, EarlyRuns
<1>8. Tracked'
  <2>1. untracked \subseteq untracked' BY <1>1
  <2>2. s \in Early \/ workspace[r] # "marked" \/ r \in registry' \cup untracked'
    BY <1>1 DEF Early
  <2> QED BY <1>1, <1>2, <1>6, <2>1, <2>2 DEF TempInv, Tracked, TempTypeOK
<1> QED BY <1>3, <1>4, <1>5, <1>7, <1>8 DEF TempInv

LEMMA SweepStep ==
  ASSUME TempInv, NEW r \in TempRuns, NEW e \in TempRuns, SweepEntry(r, e)
  PROVE  TempInv'
<1>0. /\ flock = r /\ e \in todo /\ todo' = todo \ {e}
      /\ UNCHANGED <<wstep, registry, aged, flock, untracked>>
  BY DEF SweepEntry
<1>1. PICK w \in {"none", "bare", "marked", "rest"} :
        /\ workspace' = [workspace EXCEPT ![e] = w]
        /\ w = "marked" => workspace[e] = "marked" /\ entries' = entries
        /\ entries' \in {entries, entries \ {e}}
  <2>1. workspace = [workspace EXCEPT ![e] = workspace[e]]
        /\ workspace[e] \in {"none", "bare", "marked", "rest"}
    BY DEF TempInv, TempTypeOK
  <2>2. CASE UNCHANGED <<workspace, entries>> BY <2>1, <2>2
  <2>3. CASE workspace[e] # "marked" /\ entries' = entries \ {e} /\ UNCHANGED workspace
    BY <2>1, <2>3
  <2>4. CASE /\ workspace[e] = "marked"
             /\ \E left \in Removal(e) :
                  /\ workspace' = [workspace EXCEPT ![e] = left]
                  /\ entries' = IF left = "none" THEN entries \ {e} ELSE entries
    <3>1. Removal(e) = {"none", "marked", "rest"} BY <2>4 DEF Removal
    <3> QED BY <2>4, <3>1
  <2> QED BY <2>2, <2>3, <2>4 DEF SweepEntry
<1>2. workspace'[e] = w /\ \A q \in TempRuns \ {e} : workspace'[q] = workspace[q]
  BY <1>1 DEF TempInv, TempTypeOK
<1>3. TempTypeOK' BY <1>0, <1>1 DEF TempInv, TempTypeOK
<1>4. flock # NoRunner BY <1>0, TempRunsAssumption
<1>5. RegistryLocked' BY <1>0, <1>4 DEF TempInv, RegistryLocked
<1>6. EntriesKept' BY <1>0, <1>1, <1>2, <1>4 DEF TempInv, EntriesKept, TempTypeOK
<1>7. EarlyRuns' BY <1>0, <1>1, <1>2 DEF TempInv, EarlyRuns
<1>8. Tracked' BY <1>0, <1>1, <1>2 DEF TempInv, Tracked
<1> QED BY <1>3, <1>5, <1>6, <1>7, <1>8 DEF TempInv

LEMMA DeathStep ==
  ASSUME TempInv, NEW r \in TempRuns, RunDies(r)
  PROVE  TempInv'
<1>0. /\ wstep[r] \in Live /\ wstep' = [wstep EXCEPT ![r] = "dead"]
      /\ untracked' = untracked \cup NotYetTracked({r})
      /\ IF flock = r
         THEN flock' = NoRunner /\ entries' = {} /\ todo' = {}
         ELSE UNCHANGED <<flock, entries, todo>>
      /\ UNCHANGED <<registry, aged>>
  BY DEF RunDies
<1>1. PICK w \in {"none", "bare", "marked", "rest"} :
        /\ workspace' = [workspace EXCEPT ![r] = w]
        /\ w = "marked" => workspace[r] = "marked"
  <2>1. workspace[r] \in {"none", "bare", "marked", "rest"}
    BY DEF TempInv, TempTypeOK
  <2>2. PICK w \in DeadWorkspace({r})[r] : workspace' = [workspace EXCEPT ![r] = w]
    BY DEF RunDies
  <2>3. DeadWorkspace({r})[r] \in {Removal(r), {workspace[r]}} BY DEF DeadWorkspace
  <2>4. w \in {"none", "rest", workspace[r]} BY <2>2, <2>3 DEF Removal
  <2> QED BY <2>1, <2>2, <2>4
<1>2. /\ wstep'[r] = "dead" /\ \A q \in TempRuns \ {r} : wstep'[q] = wstep[q]
      /\ workspace'[r] = w /\ \A q \in TempRuns \ {r} : workspace'[q] = workspace[q]
  BY <1>0, <1>1 DEF TempInv, TempTypeOK
<1>3. untracked \subseteq untracked' /\ untracked' \subseteq TempRuns
  BY <1>0 DEF NotYetTracked, TempInv, TempTypeOK
<1>4. TempTypeOK' BY <1>0, <1>1, <1>3 DEF TempInv, TempTypeOK, Over
<1>5. RegistryLocked'
  BY <1>0, <1>2 DEF TempInv, RegistryLocked, UnderFlock
<1>6. EntriesKept' BY <1>0, <1>1, <1>2 DEF TempInv, EntriesKept, TempTypeOK
<1>7. EarlyRuns'
  <2>1. entries' \subseteq entries BY <1>0
  <2>2. "dead" \notin Early BY DEF Early
  <2> QED BY <1>0, <1>2, <2>1, <2>2 DEF TempInv, EarlyRuns
<1>8. Tracked'
  <2>1. w = "marked" => r \in registry \cup untracked'
    <3>1. CASE wstep[r] \in {"mark", "register", "registering"}
      BY <1>0, <3>1 DEF NotYetTracked
    <3>2. CASE wstep[r] \in {"idle", "sweeping", "create"}
      BY <1>1, <3>2 DEF TempInv, EarlyRuns
    <3>3. CASE wstep[r] \notin Early
      BY <1>1, <1>3, <3>3 DEF TempInv, Tracked
    <3> QED BY <3>1, <3>2, <3>3 DEF Early
  <2> QED BY <1>0, <1>2, <1>3, <2>1 DEF TempInv, Tracked
<1> QED BY <1>4, <1>5, <1>6, <1>7, <1>8 DEF TempInv

LEMMA RebootStep ==
  ASSUME TempInv, HostReboots
  PROVE  TempInv'
<1>0. /\ wstep' = [r \in TempRuns |-> IF wstep[r] \in Live THEN "dead" ELSE wstep[r]]
      /\ registry' = {} /\ aged' = {}
      /\ flock' = NoRunner /\ entries' = {} /\ todo' = {}
      /\ untracked' = {r \in TempRuns : workspace[r] # "none"}
      /\ UNCHANGED workspace
  BY DEF HostReboots
<1>1. \A r \in TempRuns : wstep'[r] \in Over \cup {"idle"}
                          /\ (wstep'[r] = "idle" => wstep[r] = "idle")
  BY <1>0 DEF TempInv, TempTypeOK, Over
<1>2. wstep' \in [TempRuns -> Live \cup Over \cup {"idle"}] BY <1>0, <1>1
<1>3. TempTypeOK' BY <1>0, <1>2 DEF TempInv, TempTypeOK
<1>4. RegistryLocked' BY <1>0, <1>1 DEF RegistryLocked, UnderFlock, Over
<1>5. EarlyRuns' BY <1>0, <1>1 DEF TempInv, EarlyRuns, Over
<1> QED BY <1>0, <1>3, <1>4, <1>5 DEF TempInv, EntriesKept, Tracked

LEMMA TempInvInductive == TempSpec => []TempInv
<1>1. TempInv /\ (DayPasses \/ UNCHANGED tempVars) => TempInv'
  BY DEF DayPasses, tempVars, TempInv, TempTypeOK, RegistryLocked, EntriesKept,
     EarlyRuns, Tracked
<1>2. TempInv /\ [TempNext]_tempVars => TempInv'
  BY <1>1, OwnStep, LoadStep, SaveStep, SweepStep, DeathStep, RebootStep DEF TempNext
<1> QED BY <1>2, TempInvInit, PTL DEF TempSpec

\* Type correctness of the registry and its lock.
THEOREM TempTypeCorrect == TempSpec => []TempTypeOK
  BY TempInvInductive, PTL DEF TempInv

\* For any number of overlapping runs: whatever a run that is over left whole is
\* in the registry, unless it could not be entered there or a reboot emptied it
\* (CleanupOrphaned, Register, Deregister).
THEOREM LeftoversAreFound == TempSpec => []LeftoversAreTracked
<1>1. TempInv => LeftoversAreTracked
  BY DEF TempInv, Tracked, LeftoversAreTracked, Over, Early
<1> QED BY <1>1, TempInvInductive, PTL

-----------------------------------------------------------------------------
(* The run of MCHistory.                                                    *)

\* Every behaviour of the run is one of each module, but for the fairness of the
\* copy, which it has only while the copy is the subject: what is proved of a
\* module holds of the run.
THEOREM HistoryRunIsEachModule ==
  MCSpec => CloudSpec /\ GFSSpec /\ TempSpec /\ (IOInit /\ [][IONext]_ioVars)
  <1>1. PackInit => CloudInit /\ GFSInit /\ TempInit /\ IOInit
    BY DEF PackInit
  <1>2. [PackNext]_<<subject, cloudVars, gfsVars, tempVars, ioVars>> =>
          /\ [CloudNext]_cloudVars /\ [GFSNext]_gfsVars
          /\ [TempNext]_tempVars /\ [IONext]_ioVars
    BY DEF PackNext, CloudStep, GFSStep, TempStep, IOStep
  <1> QED
    BY <1>1, <1>2, PTL DEF MCSpec, CloudSpec, GFSSpec, TempSpec

\* Every variable of the run keeps to its type.
THEOREM HistoryRunTypeCorrect == MCSpec => []HistoryTypeOK
  <1>1. IOInv => IOTypeOK
    BY DEF IOInv
  <1> QED
    BY <1>1, HistoryRunIsEachModule, CloudTypeCorrect, GFSTypeCorrect, TempTypeCorrect,
       IOInvAlways, PTL DEF HistoryTypeOK
=============================================================================
