----------------------------- MODULE BackupStore -----------------------------
(***************************************************************************)
(* The files of the backups, from the archive being written to retention.  *)
(*                                                                         *)
(* RunGoBackup (internal/orchestrator) writes the archive under a partial  *)
(* name, verifies and promotes it, writes its sidecars, bundles them, and  *)
(* dispatches the result to the local and the secondary location, each of  *)
(* which then applies retention to the backups it lists.  A run can fail   *)
(* or be killed between any two of these file system operations; what it   *)
(* leaves behind is judged by the retention of later runs, by file names   *)
(* only, and by the restore's discovery, which opens the manifests.        *)
(*                                                                         *)
(* Runs are serialised by the backup lock (module BackupLock) and numbered *)
(* in the order of their start times, which their archives carry.  The     *)
(* count-based policy is modelled here; module GFSRetention has the other. *)
(***************************************************************************)
EXTENDS Integers, FiniteSets

CONSTANTS
  MaxRuns,       \* runs 1..MaxRuns are considered
  Keep,          \* location |-> MAX_LOCAL_BACKUPS, MAX_SECONDARY_BACKUPS
  Layouts        \* the values BUNDLE_ASSOCIATED_FILES may have

Places == {"local", "secondary"}

ASSUME MaxRunsIsNat == MaxRuns \in Nat
ASSUME KeepIsNat == Keep \in [Places -> Nat]
ASSUME LayoutsAreBooleans == Layouts \subseteq BOOLEAN

Runs == 1 .. MaxRuns

(* The files of a run, next to each other in a location.  "sidecar" stands *)
(* for <archive>.sha256, <archive>.manifest.json or both; "metadata" and   *)
(* "torn" are a complete and an incomplete <archive>.metadata; "bundle"    *)
(* and "badbundle" are <archive>.bundle.tar around the one or the other.   *)
Kinds == {"partial", "archive", "sidecar", "metadata", "torn",
          "tmpbundle", "bundle", "badbundle"}

Alias == {"metadata", "torn"}
Bundle == {"bundle", "badbundle"}

Steps == {"idle", "collect", "write", "promote", "sha256", "manifest", "alias",
          "copy", "bundle", "rename", "raw", "store", "storesum", "storealias",
          "list", "delete"}

VARIABLES
  run,        \* the current or last run
  bundling,   \* its BUNDLE_ASSOCIATED_FILES
  pc,         \* the next step of the run
  place,      \* the location being synchronised
  files,      \* location |-> run |-> the files there
  doomed,     \* the listed backups retention has still to delete
  warned,     \* the runs that warned of a .metadata file they could not write
  succeeded   \* the runs that completed successfully

vars == <<run, bundling, pc, place, files, doomed, warned, succeeded>>

-----------------------------------------------------------------------------
(* What restore and retention see.                                         *)

\* discoverBackupCandidates and inspectBundleManifest accept it
Restorable(fs) == "bundle" \in fs \/ {"archive", "metadata"} \subseteq fs

Catalog(p) == {r \in Runs : Restorable(files[p][r])}

\* Variant: an archive without a completion sidecar counts as a backup
Forms_AnyArchive(fs) ==
  (IF fs \cap Bundle # {} THEN {"bundle"} ELSE {})
    \cup (IF "archive" \in fs THEN {"raw"} ELSE {})

(* The listed backups of a run that take part in retention.  A standalone  *)
(* archive is not listed next to its bundle when bundling is on; what is   *)
(* listed without a completion sidecar, a temporary bundle too, is inert.  *)
Forms(fs) ==
  (IF fs \cap Bundle # {} THEN {"bundle"} ELSE {})
    \cup (IF /\ "archive" \in fs
             /\ "sidecar" \in fs
             /\ ~(bundling /\ fs \cap Bundle # {}) THEN {"raw"} ELSE {})

Eligible(p) ==
  {e \in Runs \X {"bundle", "raw"} : e[2] \in Forms(files[p][e[1]])}

(* The entries beyond the Keep newest.  The order of two entries with the  *)
(* same time, the bundle and the archive of one run, is not determined.    *)
Surplus(S, keep) ==
  IF keep = 0 \/ Cardinality(S) <= keep THEN {{}}
  ELSE {D \in SUBSET S :
          /\ Cardinality(D) = Cardinality(S) - keep
          /\ \A d \in D, e \in S \ D : d[1] <= e[1]}

\* buildBackupCandidatePaths
CandidatePaths == {"archive", "sidecar", "metadata", "torn", "bundle", "badbundle"}

-----------------------------------------------------------------------------
Mine == files["local"][run]

SetMine(fs) == files' = [files EXCEPT !["local"][run] = fs]

Goto(step) == pc' = step /\ UNCHANGED <<run, bundling, place, doomed, warned, succeeded>>

Ends(success) ==
  /\ pc' = "idle"
  /\ place' = "local"
  /\ doomed' = {}
  /\ succeeded' = (IF success THEN succeeded \cup {run} ELSE succeeded)
  /\ UNCHANGED <<run, bundling, warned>>

Init ==
  /\ run = 0
  /\ bundling \in Layouts
  /\ pc = "idle"
  /\ place = "local"
  /\ files = [p \in Places |-> [r \in Runs |-> {}]]
  /\ doomed = {}
  /\ warned = {}
  /\ succeeded = {}

\* The configuration may have been edited since the last run.
Begin ==
  /\ pc = "idle"
  /\ run < MaxRuns
  /\ run' = run + 1
  /\ bundling' \in Layouts
  /\ pc' = "collect"
  /\ UNCHANGED <<place, files, doomed, warned, succeeded>>

CollectFails == pc = "collect" /\ Ends(FALSE) /\ UNCHANGED files

OpenPartial == pc = "collect" /\ SetMine({"partial"}) /\ Goto("write")

\* the archive is complete, verified and its checksum is known
VerifyArchive == pc = "write" /\ Goto("promote") /\ UNCHANGED files

\* creation, verification, checksum or rename failed; the removal may, too
DiscardPartial ==
  /\ pc \in {"write", "promote"}
  /\ \E left \in {{}, {"partial"}} : SetMine(left)
  /\ Ends(FALSE)

Promote ==
  /\ pc = "promote"
  /\ SetMine((Mine \ {"partial"}) \cup {"archive"})
  /\ Goto("sha256")

WriteSidecar ==
  \/ pc = "sha256" /\ SetMine(Mine \cup {"sidecar"}) /\ Goto("manifest")
  \/ pc = "manifest" /\ Goto("alias") /\ UNCHANGED files

\* a failed write may leave the file behind
SidecarFails ==
  /\ pc \in {"sha256", "manifest"}
  /\ \E left \in {{}, {"sidecar"}} : SetMine(Mine \cup left)
  /\ Ends(FALSE)

\* copyFile creates the destination, then copies the manifest into it
OpenAlias ==
  /\ pc = "alias"
  /\ SetMine(Mine \cup {"torn"})
  /\ Goto("copy")

CopyAlias ==
  /\ pc = "copy"
  /\ SetMine((Mine \ {"torn"}) \cup {"metadata"})
  /\ Goto("bundle")

\* only a warning: the run goes on
AliasFails ==
  /\ pc \in {"alias", "copy"}
  /\ pc' = "bundle"
  /\ warned' = warned \cup {run}
  /\ UNCHANGED <<run, bundling, place, files, doomed, succeeded>>

SkipBundle == pc = "bundle" /\ ~bundling /\ Goto("store") /\ UNCHANGED files

\* Variant: the raw files are removed before the bundle is renamed into place
CreateBundle_RemovesRaw ==
  /\ pc = "bundle"
  /\ bundling
  /\ {"archive", "sidecar"} \subseteq Mine
  /\ Mine \cap Alias # {}
  /\ SetMine({"tmpbundle"} \cup (Mine \cap Alias))
  /\ Goto("rename")

CreateBundle ==
  /\ pc = "bundle"
  /\ bundling
  /\ {"archive", "sidecar"} \subseteq Mine
  /\ Mine \cap Alias # {}
  /\ SetMine(Mine \cup {"tmpbundle"})
  /\ Goto("rename")

\* the bundle contains whatever the .metadata file contains
Bundled == IF "metadata" \in Mine THEN {"bundle"} ELSE {"badbundle"}

RenameBundle ==
  /\ pc = "rename"
  /\ SetMine((Mine \ {"tmpbundle"}) \cup Bundled)
  /\ Goto("raw")

\* Variant: the run goes on without the bundle
BundleFails_Tolerated ==
  /\ \/ pc = "bundle" /\ bundling /\ UNCHANGED files
     \/ pc = "rename" /\ SetMine(Mine \ {"tmpbundle"})
  /\ Goto("raw")

(* An associated file is missing, or writing, renaming or syncing the      *)
(* bundle failed; removing what was written is best effort.                *)
BundleFails ==
  /\ \/ pc = "bundle" /\ bundling /\ UNCHANGED files
     \/ /\ pc = "rename"
        /\ \E left \in {{}, {"tmpbundle"}, Bundled} :
             SetMine((Mine \ {"tmpbundle"}) \cup left)
  /\ Ends(FALSE)

(* removeAssociatedFiles stops at the first file it cannot remove; of the  *)
(* sidecars it removes the checksum second and the manifest last.          *)
RemoveRaw ==
  /\ pc = "raw"
  /\ \E gone \in {{}, {"archive"}, {"archive"} \cup Alias,
                  {"archive", "sidecar"} \cup Alias} :
       SetMine(Mine \ gone)
  /\ Goto("store")

-----------------------------------------------------------------------------
(* StorageAdapter.Sync of the local, then of the secondary location.       *)

StoreLocal == pc = "store" /\ place = "local" /\ Goto("list") /\ UNCHANGED files

\* a critical location that fails ends the run
SyncLocalFails ==
  /\ pc \in {"store", "list"}
  /\ place = "local"
  /\ Ends(FALSE)
  /\ UNCHANGED files

CopyOver(fs) ==
  files' = [files EXCEPT !["secondary"][run] = @ \cup (fs \cap Mine)]

\* every copy is renamed into place once it is complete
StoreSecondary ==
  /\ pc = "store"
  /\ place = "secondary"
  /\ IF bundling
       THEN CopyOver(Bundle) /\ Goto("list")
       ELSE CopyOver({"archive"}) /\ Goto("storesum")

\* a sidecar that cannot be copied is only a warning
StoreChecksum ==
  /\ pc = "storesum"
  /\ CopyOver({"sidecar"}) \/ UNCHANGED files
  /\ Goto("storealias")

StoreAlias ==
  /\ pc = "storealias"
  /\ CopyOver(Alias) \/ UNCHANGED files
  /\ Goto("list")

\* the copy failed: retention is applied all the same
StoreSecondaryFails ==
  /\ pc = "store"
  /\ place = "secondary"
  /\ Goto("list")
  /\ UNCHANGED files

ListForRetention ==
  /\ pc = "list"
  /\ doomed' \in Surplus(Eligible(place), Keep[place])
  /\ pc' = "delete"
  /\ UNCHANGED <<run, bundling, place, files, warned, succeeded>>

(* deleteBackupInternal, oldest backup first: every file of the backup, in *)
(* both layouts, is tried; any of the removals may fail.                   *)
DeleteBackup ==
  /\ pc = "delete"
  /\ \E e \in doomed :
       /\ \A d \in doomed : e[1] <= d[1]
       /\ doomed' = doomed \ {e}
       /\ \E gone \in SUBSET (files[place][e[1]] \cap CandidatePaths) :
            files' = [files EXCEPT ![place][e[1]] = @ \ gone]
  /\ UNCHANGED <<run, bundling, pc, place, warned, succeeded>>

NextPlace ==
  /\ pc = "delete"
  /\ doomed = {}
  /\ place = "local"
  /\ place' = "secondary"
  /\ pc' = "store"
  /\ UNCHANGED <<run, bundling, files, doomed, warned, succeeded>>

\* cancelled while deleting: an error of the local location is critical
RetentionCancelled ==
  /\ pc = "delete"
  /\ doomed # {}
  /\ place = "local"
  /\ Ends(FALSE)
  /\ UNCHANGED files

\* those of the secondary location are not: the run completes
Complete ==
  /\ pc \in {"store", "list", "delete"}
  /\ place = "secondary"
  /\ Ends(TRUE)
  /\ UNCHANGED files

\* The process is killed; nothing is cleaned up in the locations.
Crash == pc # "idle" /\ Ends(FALSE) /\ UNCHANGED files

MakeArchive == CollectFails \/ OpenPartial \/ VerifyArchive \/ DiscardPartial \/ Promote
MakeSidecars == WriteSidecar \/ SidecarFails \/ OpenAlias \/ CopyAlias \/ AliasFails
MakeBundle == SkipBundle \/ CreateBundle \/ RenameBundle \/ BundleFails \/ RemoveRaw
Sync == \/ StoreLocal \/ SyncLocalFails
        \/ StoreSecondary \/ StoreChecksum \/ StoreAlias \/ StoreSecondaryFails
        \/ ListForRetention \/ DeleteBackup \/ NextPlace \/ RetentionCancelled
        \/ Complete

Next == Begin \/ MakeArchive \/ MakeSidecars \/ MakeBundle \/ Sync \/ Crash

Spec == Init /\ [][Next]_vars

-----------------------------------------------------------------------------
(* Type invariant. *)
TypeOK ==
  /\ run \in 0 .. MaxRuns
  /\ bundling \in BOOLEAN
  /\ pc \in Steps
  /\ pc # "idle" => run \in Runs
  /\ place \in Places
  /\ files \in [Places -> [Runs -> SUBSET Kinds]]
  /\ doomed \subseteq Runs \X {"bundle", "raw"}
  /\ warned \subseteq Runs
  /\ succeeded \subseteq Runs

(* The runs with a backup that retention takes for a completed one.        *)
Completed(fs) == fs \cap Bundle # {} \/ {"archive", "sidecar"} \subseteq fs

Verified(p) == {r \in Runs : Completed(files[p][r])}

LocalPromise == INSTANCE BackupCatalog WITH catalog <- Verified("local")
SecondaryPromise == INSTANCE BackupCatalog WITH catalog <- Verified("secondary")

(* Whatever fails and wherever a run is killed, a completed backup leaves  *)
(* a location only while a newer completed one is there: bundling replaces *)
(* an archive only once the bundle exists, and retention counts nothing    *)
(* incomplete among the backups it keeps.                                  *)
LocalKeepsNewest == LocalPromise!Spec
SecondaryKeepsNewest == SecondaryPromise!Spec

Survives(r) == \E q \in Runs : q >= r /\ q \in Catalog("local")

(* After a successful run, a backup at least as new can be restored from   *)
(* the local location, until a run warns that it could not write the       *)
(* .metadata file that the restore looks for.                              *)
SuccessIsRestorable ==
  \A r \in succeeded : Survives(r) \/ \E q \in warned : q >= r

(* internal/storage/retention.go:47 takes a bundle as verified because it  *)
(* is only produced after the sidecars: restore can open the bundle that a *)
(* successful run has left.                                                *)
BundleIsComplete ==
  \A r \in succeeded :
    files["local"][r] \cap Bundle # {} => Restorable(files["local"][r])
=============================================================================
