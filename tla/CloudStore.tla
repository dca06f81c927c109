------------------------------ MODULE CloudStore ------------------------------
(***************************************************************************)
(* The cloud location (internal/storage/cloud.go): a run uploads its        *)
(* primary file, a bundle or the archive, and then the sidecars, one by one *)
(* or as goroutines that cancel one another at the first error; after that, *)
(* whatever came of it, retention lists the remote and deletes object by    *)
(* object.                                                                  *)
(*                                                                         *)
(* The retries of one rclone command are one step, of which an object may   *)
(* be left even when the step fails.  The remote keeps the modification     *)
(* time of what is uploaded, so a later run's backup is the newer one.      *)
(***************************************************************************)
EXTENDS Integers, FiniteSets

CONSTANTS
  MaxUploads,  (* bound: runs in one behaviour                             *)
  KeepCloud,   (* MAX_CLOUD_BACKUPS; 0 disables retention                  *)
  Jobs         (* CLOUD_PARALLEL_MAX_JOBS; 1: one upload after the other   *)

ASSUME CloudStoreAssumption ==
  /\ MaxUploads \in Nat \ {0}
  /\ KeepCloud \in Nat
  /\ Jobs \in Nat \ {0}

VARIABLES
  upload,    (* the current or last run                                    *)
  bundles,   (* its BUNDLE_ASSOCIATED_FILES                                *)
  cloudStep, (* the next step of the run                                   *)
  objects,   (* run |-> its objects on the remote                          *)
  wanted,    (* the sidecars the run set out to upload                     *)
  queued,    (* those that wait for a slot                                 *)
  inFlight,  (* those being uploaded                                       *)
  uploadErr, (* an upload reported an error                                *)
  halted,    (* the context of the run is cancelled                        *)
  claimed,   (* history: Store returned without an error                   *)
  expired    (* the listed backups retention has still to delete           *)

cloudVars == <<upload, bundles, cloudStep, objects, wanted, queued, inFlight,
               uploadErr, halted, claimed, expired>>

Uploads  == 1 .. MaxUploads
Sidecars == {"sha256", "manifest", "metadata"}
Primary  == IF bundles THEN "bundle" ELSE "archive"

CloudTypeOK ==
  /\ upload \in 0 .. MaxUploads
  /\ bundles \in BOOLEAN /\ uploadErr \in BOOLEAN /\ halted \in BOOLEAN
  /\ claimed \in BOOLEAN
  /\ cloudStep \in {"idle", "copy", "verify", "sidecars", "list", "delete"}
  /\ objects \in [Uploads -> SUBSET ({"bundle", "archive"} \cup Sidecars)]
  /\ wanted \subseteq Sidecars /\ queued \subseteq wanted
  /\ inFlight \subseteq wanted \ queued
  /\ Cardinality(inFlight) <= Jobs
  /\ expired \subseteq Uploads

CloudInit ==
  /\ upload = 0 /\ bundles = FALSE /\ cloudStep = "idle"
  /\ objects = [r \in Uploads |-> {}]
  /\ wanted = {} /\ queued = {} /\ inFlight = {}
  /\ uploadErr = FALSE /\ halted = FALSE /\ claimed = FALSE /\ expired = {}

\* The object is there, or, when the step failed, may be.
Puts(f)  == objects' = [objects EXCEPT ![upload] = @ \cup {f}]
MayPut(f) == Puts(f) \/ UNCHANGED objects

-----------------------------------------------------------------------------
(* Store                                                                   *)

\* Only sidecars that can be stat'ed in time are uploaded, and none with a bundle.
BeginStore ==
  /\ cloudStep = "idle" /\ upload < MaxUploads
  /\ upload' = upload + 1
  /\ bundles' \in BOOLEAN
  /\ wanted' \in IF bundles' THEN {{}} ELSE SUBSET Sidecars
  /\ queued' = wanted' /\ inFlight' = {} /\ expired' = {}
  /\ uploadErr' = FALSE /\ halted' = FALSE /\ claimed' = FALSE
  /\ cloudStep' = "copy"
  /\ UNCHANGED objects

\* Store returns, and retention follows even when it failed.
StoreReturns(ok) ==
  /\ claimed' = ok
  /\ cloudStep' = "list"

\* runUploadTask of the primary file: the copy ...
CopyPrimary ==
  /\ cloudStep = "copy"
  /\ \/ ~halted /\ Puts(Primary) /\ cloudStep' = "verify" /\ UNCHANGED claimed
     \/ MayPut(Primary) /\ StoreReturns(FALSE)
  /\ UNCHANGED <<upload, bundles, wanted, queued, inFlight, uploadErr, halted, expired>>

\* ... and its verification, always.  An object that fails it stays.
VerifyPrimary ==
  /\ cloudStep = "verify"
  /\ \/ /\ ~halted
        /\ IF queued = {} THEN StoreReturns(TRUE)
                          ELSE cloudStep' = "sidecars" /\ UNCHANGED claimed
     \/ StoreReturns(FALSE)
  /\ UNCHANGED <<upload, bundles, objects, wanted, queued, inFlight, uploadErr,
                 halted, expired>>

\* A sidecar gets its slot; under a cancelled context its upload fails at once.
StartSidecar(f) ==
  /\ cloudStep = "sidecars" /\ f \in queued
  /\ Cardinality(inFlight) < Jobs
  /\ queued' = queued \ {f}
  /\ IF halted \/ uploadErr
     THEN uploadErr' = TRUE /\ UNCHANGED inFlight
     ELSE inFlight' = inFlight \cup {f} /\ UNCHANGED uploadErr
  /\ UNCHANGED <<upload, bundles, cloudStep, objects, wanted, halted, claimed, expired>>

\* Variant: a goroutine gives up whenever no slot is free
SkipSidecar_Busy(f) ==
  /\ cloudStep = "sidecars" /\ f \in queued
  /\ uploadErr \/ Cardinality(inFlight) = Jobs
  /\ queued' = queued \ {f}
  /\ UNCHANGED <<upload, bundles, cloudStep, objects, wanted, inFlight, uploadErr,
                 halted, claimed, expired>>

\* A goroutine that waits for a slot when the context is cancelled returns
\* without an error.  The sequential loop stops at the first error only.
SkipSidecar(f) ==
  /\ cloudStep = "sidecars" /\ f \in queued
  /\ uploadErr \/ (halted /\ Jobs > 1)
  /\ queued' = queued \ {f}
  /\ UNCHANGED <<upload, bundles, cloudStep, objects, wanted, inFlight, uploadErr,
                 halted, claimed, expired>>

\* The upload, and its verification if configured, succeeds or fails; the first
\* error cancels the other uploads, which may have come through by then.
EndSidecar(f) ==
  /\ cloudStep = "sidecars" /\ f \in inFlight
  /\ inFlight' = inFlight \ {f}
  /\ \/ Puts(f) /\ UNCHANGED uploadErr
     \/ MayPut(f) /\ uploadErr' = TRUE
  /\ UNCHANGED <<upload, bundles, cloudStep, wanted, queued, halted, claimed, expired>>

JoinSidecars ==
  /\ cloudStep = "sidecars" /\ queued = {} /\ inFlight = {}
  /\ StoreReturns(~uploadErr)
  /\ UNCHANGED <<upload, bundles, objects, wanted, queued, inFlight, uploadErr,
                 halted, expired>>

-----------------------------------------------------------------------------
(* ApplyRetention                                                          *)

\* remoteBackupHasCompletionSidecar: an archive with one, or any bundle.
Counted(r) == \/ "bundle" \in objects[r]
              \/ "archive" \in objects[r] /\ objects[r] \cap {"sha256", "manifest"} # {}

\* Variant: what was uploaded in part takes the place of a backup
Oldest_AnyArchive(n) ==
  {r \in Uploads : Counted(r) /\ Cardinality({s \in Uploads : s > r /\ objects[s] # {}}) >= n}

\* Of the counted backups, those beyond the newest n.
Oldest(n) ==
  {r \in Uploads : Counted(r) /\ Cardinality({s \in Uploads : s > r /\ Counted(s)}) >= n}

ListRemote ==
  /\ cloudStep = "list"
  /\ ~halted /\ KeepCloud > 0
  /\ expired' = Oldest(KeepCloud)
  /\ cloudStep' = "delete"
  /\ UNCHANGED <<upload, bundles, objects, wanted, queued, inFlight, uploadErr,
                 halted, claimed>>

\* deleteBackupInternal, newest first: all objects of the backup are tried, in
\* both layouts; any deletion may fail, or not be tried as the context ends.
DeleteRemote ==
  /\ cloudStep = "delete" /\ expired # {} /\ ~halted
  /\ \E r \in expired :
       /\ \A s \in expired : s <= r
       /\ expired' = expired \ {r}
       /\ \E gone \in SUBSET objects[r] : objects' = [objects EXCEPT ![r] = @ \ gone]
  /\ UNCHANGED <<upload, bundles, cloudStep, wanted, queued, inFlight, uploadErr,
                 halted, claimed>>

\* The run is over with the location: retention is done, off, or failed.
LeaveCloud ==
  /\ cloudStep \in {"list", "delete"}
  /\ cloudStep' = "idle"
  /\ UNCHANGED <<upload, bundles, objects, wanted, queued, inFlight, uploadErr,
                 halted, claimed, expired>>

-----------------------------------------------------------------------------

\* The run is told to stop.
Halt ==
  /\ cloudStep # "idle" /\ ~halted
  /\ halted' = TRUE
  /\ UNCHANGED <<upload, bundles, cloudStep, objects, wanted, queued, inFlight,
                 uploadErr, claimed, expired>>

\* The process dies; what it was uploading may get there all the same.
CloudDeath ==
  /\ cloudStep # "idle"
  /\ cloudStep' = "idle"
  /\ \E f \in SUBSET (inFlight \cup (IF cloudStep = "copy" THEN {Primary} ELSE {})) :
       objects' = [objects EXCEPT ![upload] = @ \cup f]
  /\ claimed' = FALSE
  /\ UNCHANGED <<upload, bundles, wanted, queued, inFlight, uploadErr, halted, expired>>

UploadSidecars ==
  \/ \E f \in Sidecars : StartSidecar(f) \/ SkipSidecar(f) \/ EndSidecar(f)
  \/ JoinSidecars

CloudNext ==
  \/ BeginStore \/ CopyPrimary \/ VerifyPrimary \/ UploadSidecars
  \/ ListRemote \/ DeleteRemote \/ LeaveCloud
  \/ Halt \/ CloudDeath

CloudSpec == CloudInit /\ [][CloudNext]_cloudVars

-----------------------------------------------------------------------------
(* Properties *)

\* When Store says so, the primary file and every sidecar it set out with are on
\* the remote, in whatever order the goroutines ran and failed.  Only when the
\* run was told to stop while some waited for a slot may that be wrong.
ClaimedIsUploaded ==
  cloudStep \in {"list", "delete"} /\ claimed /\ ~halted =>
    {Primary} \cup wanted \subseteq objects[upload]

CloudPromise ==
  INSTANCE BackupCatalog WITH Runs <- Uploads, catalog <- {r \in Uploads : Counted(r)}

\* The location keeps the promise of BackupCatalog: a backup retention counts is
\* given up only while a newer one is counted, whatever uploads and deletions
\* failed and wherever runs died.
CloudKeepsNewest == CloudPromise!Spec
=============================================================================
