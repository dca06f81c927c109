----------------------------- MODULE MountGuard -----------------------------
(***************************************************************************)
(* Guards on the mountpoints of storage that is offline: a restore binds a *)
(* read-only directory over a mountpoint that has nothing mounted, and the *)
(* clean-up takes away the guards and the immutable flags of older         *)
(* versions (internal/orchestrator: mount_guard.go, mount_guard_apply.go,  *)
(* pve_staged_apply.go, guards_cleanup.go, mount_guard_chattr_index.go).   *)
(*                                                                         *)
(* Mounts stack, both commands look before they act, and the storage comes *)
(* and goes meanwhile.  The kernel gives a new mount the lowest free ID,   *)
(* so that a later mount may well have the smaller one.                    *)
(***************************************************************************)
EXTENDS Sequences, SequencesExt, FiniteSets

CONSTANTS
  Mountpoints,
  Legacy       (* those an older version may have made immutable           *)

ASSUME MountGuardAssumption == Legacy \subseteq Mountpoints

VARIABLES
  mounts,    (* what is mounted on each mountpoint, the topmost last       *)
  reused,    (* mountpoints whose topmost mount has a smaller ID than the
                mount below it                                             *)
  plainRoot, (* the root that the mount table shows of a guard begins with
                the path of the guard directory: it does not if /var is a
                filesystem of its own, or / a subvolume                    *)
  flagged,   (* mountpoints whose directory, below any mount, is immutable *)
  index,     (* mountpoints the index in the guard directory lists         *)
  guardDir,  (* the guard directory exists                                 *)
  gStep,     (* the restore: "idle", "mount", "check", "bind", "remount"   *)
  cStep,     (* "idle", "flags", "read", "unmount", "verify", "remove"     *)
  toClean,   (* mountpoints the clean-up has still to deal with            *)
  unflag,    (* those of toClean it found without a mount                  *)
  pending,   (* immutable flags it left                                    *)
  misread,   (* it could not read the index, and took it for empty         *)
  late,      (* history: mounts changed by others since the command looked
                or acted there                                             *)
  raced,     (* history: mountpoints so changed before a flag was cleared,
                or the guard directory removed                             *)
  unread     (* history: mountpoints of an index removed without being read *)

tableVars   == <<mounts, reused, plainRoot>>
diskVars    == <<tableVars, flagged, index, guardDir>>
cleanupVars == <<cStep, toClean, unflag, pending, misread>>
lossVars    == <<raced, unread>>
mountVars   == <<diskVars, gStep, cleanupVars, late, lossVars>>

MountTypeOK ==
  /\ mounts \in [Mountpoints -> {<<>>, <<"real">>, <<"guard">>,
                                <<"guard", "real">>, <<"real", "guard">>}]
  /\ reused \subseteq {m \in Mountpoints : Len(mounts[m]) = 2}
  /\ plainRoot \in BOOLEAN
  /\ flagged \subseteq Mountpoints /\ index \subseteq Mountpoints
  /\ guardDir \in BOOLEAN
  /\ gStep \in [Mountpoints -> {"idle", "mount", "check", "bind", "remount"}]
  /\ cStep \in {"idle", "flags", "read", "unmount", "verify", "remove"}
  /\ toClean \subseteq Mountpoints /\ unflag \subseteq toClean
  /\ pending \in BOOLEAN /\ misread \in BOOLEAN
  /\ late \in [{"restore", "cleanup"} -> SUBSET Mountpoints]
  /\ raced \subseteq Mountpoints /\ unread \subseteq Mountpoints

\* An older version left its flags and their index.
MountInit ==
  /\ mounts = [m \in Mountpoints |-> <<>>] /\ reused = {} /\ plainRoot \in BOOLEAN
  /\ flagged \in SUBSET Legacy /\ index = flagged /\ guardDir = (flagged # {})
  /\ gStep = [m \in Mountpoints |-> "idle"]
  /\ cStep = "idle" /\ toClean = {} /\ unflag = {} /\ pending = FALSE
  /\ misread = FALSE
  /\ late = [who \in {"restore", "cleanup"} |-> {}] /\ raced = {} /\ unread = {}

Has(m, what) == \E i \in 1 .. Len(mounts[m]) : mounts[m][i] = what

\* A command has looked at a mountpoint and is about to act on what it saw.
AtWork(who, m) ==
  IF who = "restore" THEN gStep[m] = "remount"
  ELSE m \in unflag \/ (cStep = "unmount" /\ m \in toClean) \/ cStep = "remove"
Top(m) == IF mounts[m] = <<>> THEN "nothing" ELSE Last(mounts[m])
Change(by, m, stack) ==
  /\ mounts' = [mounts EXCEPT ![m] = stack]
  /\ reused' \in {reused \ {m}} \cup (IF Len(stack) = 2 THEN {reused \cup {m}} ELSE {})
  /\ UNCHANGED plainRoot
  /\ late' = [who \in {"restore", "cleanup"} |->
                IF who = by \/ ~AtWork(who, m) THEN late[who] \ {m} ELSE late[who] \cup {m}]
Push(by, m, what) == Change(by, m, Append(mounts[m], what))
Pop(by, m)        == Change(by, m, Front(mounts[m]))
Look(who, seen) == late' = [late EXCEPT ![who] = @ \ seen]

-----------------------------------------------------------------------------
(* The restore                                                             *)

\* Of the mountpoints of its configuration a restore takes one after the other.
GuardIdle == \A m \in Mountpoints : gStep[m] = "idle"
GuardGoto(m, s) == gStep' = [gStep EXCEPT ![m] = s]

\* One that is mounted is left alone.  When the mounts cannot be read PBS leaves it
\* alone and PVE goes on, over a guard, too, which is on the root filesystem.
GuardProbe(m) ==
  /\ GuardIdle
  /\ Top(m) \in {"nothing", "guard"}
  /\ GuardGoto(m, "mount")
  /\ UNCHANGED <<diskVars, cleanupVars, late, lossVars>>

\* The mount of fstab is tried first; it may come after its time was over.
TryMount(m) ==
  /\ gStep[m] = "mount"
  /\ \E s \in {"idle", "check"} : GuardGoto(m, s)
  /\ \/ ~Has(m, "real") /\ Push("restore", m, "real")
     \/ (gStep'[m] = "idle" => mounts[m] # <<>>) /\ UNCHANGED <<tableVars, late>>
  /\ UNCHANGED <<flagged, index, guardDir, cleanupVars, lossVars>>

\* guardMountPoint looks again, and makes the directories.
GuardCheck(m) ==
  /\ gStep[m] = "check"
  /\ \/ GuardGoto(m, "idle") /\ guardDir' \in {guardDir, TRUE}
     \/ mounts[m] = <<>> /\ GuardGoto(m, "bind") /\ guardDir' = TRUE
  /\ UNCHANGED <<tableVars, flagged, index, cleanupVars, late, lossVars>>

GuardBind(m) ==
  /\ gStep[m] = "bind"
  /\ \/ guardDir /\ Push("restore", m, "guard") /\ GuardGoto(m, "remount")
     \/ GuardGoto(m, "idle") /\ UNCHANGED <<tableVars, late>>
  /\ UNCHANGED <<flagged, index, guardDir, cleanupVars, lossVars>>

\* A guard that cannot be made read-only is unmounted: the topmost mount is.
GuardRemount(m) ==
  /\ gStep[m] = "remount" /\ GuardGoto(m, "idle")
  /\ \/ mounts[m] # <<>> /\ Pop("restore", m)
     \/ Look("restore", {m}) /\ UNCHANGED tableVars
  /\ UNCHANGED <<flagged, index, guardDir, cleanupVars, lossVars>>

GuardApply ==
  \E m \in Mountpoints :
    GuardProbe(m) \/ TryMount(m) \/ GuardCheck(m) \/ GuardBind(m) \/ GuardRemount(m)

-----------------------------------------------------------------------------
(* The clean-up                                                            *)

CleanGoto(s) ==
  /\ cStep' = s
  /\ IF s = "idle" THEN pending' = FALSE /\ misread' = FALSE
     ELSE UNCHANGED <<pending, misread>>
  /\ Look("cleanup", Mountpoints)

\* An index that cannot be read is taken for an empty one.
CleanStart ==
  /\ cStep = "idle" /\ guardDir
  /\ cStep' = "flags" /\ misread' \in BOOLEAN
  /\ toClean' = IF misread' THEN {} ELSE index
  /\ UNCHANGED <<diskVars, gStep, unflag, pending, late, lossVars>>

\* One that is mounted, or cannot be told, keeps its flag.
ProbeFlag(m) ==
  /\ cStep = "flags" /\ m \in toClean \ unflag
  /\ \/ mounts[m] = <<>> /\ unflag' = unflag \cup {m} /\ UNCHANGED <<toClean, pending>>
     \/ toClean' = toClean \ {m} /\ pending' = TRUE /\ UNCHANGED unflag
  /\ UNCHANGED <<diskVars, gStep, cStep, misread, late, lossVars>>

\* chattr acts on what is visible at the path, and counts as done.
ClearFlag(m) ==
  /\ cStep = "flags" /\ m \in unflag
  /\ toClean' = toClean \ {m} /\ unflag' = unflag \ {m}
  /\ \/ /\ flagged' = IF mounts[m] = <<>> THEN flagged \ {m} ELSE flagged
        /\ raced' = IF m \in late["cleanup"] THEN raced \cup {m} ELSE raced
        /\ UNCHANGED pending
     \/ pending' = TRUE /\ UNCHANGED <<flagged, raced>>
  /\ Look("cleanup", {m})
  /\ UNCHANGED <<tableVars, index, guardDir, gStep, cStep, misread, unread>>

\* guardMountpointsFromMountinfo: a guard is known by its root, and visible if its
\* mount ID is the largest of the mountpoint.
Known(m)   == plainRoot /\ Has(m, "guard")
Visible(m) == Known(m) /\ (IF m \in reused THEN Head(mounts[m]) ELSE Top(m)) = "guard"

\* Variant: a guard is unmounted wherever it is in the stack.
ReadMounts_AnyGuard ==
  /\ cStep = "flags" /\ toClean = {}
  /\ IF \E m \in Mountpoints : Known(m)
     THEN CleanGoto("unmount") /\ toClean' = {m \in Mountpoints : Known(m)}
     ELSE CleanGoto(IF pending THEN "idle" ELSE "remove") /\ UNCHANGED toClean
  /\ UNCHANGED <<diskVars, gStep, unflag, lossVars>>

\* Of the guards, the visible ones are unmounted.
ReadMounts ==
  /\ cStep = "flags" /\ toClean = {}
  /\ \/ IF \E m \in Mountpoints : Known(m)
        THEN CleanGoto("unmount") /\ toClean' = {m \in Mountpoints : Visible(m)}
        ELSE CleanGoto(IF pending THEN "idle" ELSE "remove") /\ UNCHANGED toClean
     \/ CleanGoto("idle") /\ UNCHANGED toClean
  /\ UNCHANGED <<diskVars, gStep, unflag, lossVars>>

\* By the path: what is topmost now.
UnmountGuard(m) ==
  /\ cStep = "unmount" /\ m \in toClean
  /\ toClean' = toClean \ {m}
  /\ \/ mounts[m] # <<>> /\ Pop("cleanup", m)
     \/ Look("cleanup", {m}) /\ UNCHANGED tableVars
  /\ UNCHANGED <<flagged, index, guardDir, gStep, cStep, unflag, pending, misread, lossVars>>

\* Variant: the directory goes once no guard is left.
VerifyGone_FlagsForgotten ==
  /\ cStep = "unmount" /\ toClean = {}
  /\ CleanGoto(IF \E m \in Mountpoints : Known(m) THEN "idle" ELSE "remove")
  /\ UNCHANGED <<diskVars, gStep, toClean, unflag, lossVars>>

\* The mounts are read once more; if that fails the directory stays.
VerifyGone ==
  /\ cStep = "unmount" /\ toClean = {}
  /\ \/ CleanGoto("idle")
     \/ ~pending /\ (\A m \in Mountpoints : ~Known(m)) /\ CleanGoto("remove")
  /\ UNCHANGED <<diskVars, gStep, toClean, unflag, lossVars>>

\* os.RemoveAll, which may stop half way.
RemoveGuardDir ==
  /\ cStep = "remove" /\ CleanGoto("idle")
  /\ \/ guardDir' = FALSE /\ index' = {}
     \/ index' \in {index, {}} /\ UNCHANGED guardDir
  /\ raced' = raced \cup late["cleanup"]
  /\ unread' = IF misread /\ index' = {} THEN unread \cup index ELSE unread
  /\ UNCHANGED <<tableVars, flagged, gStep, toClean, unflag>>

CleanupGuards ==
  \/ CleanStart \/ ReadMounts \/ VerifyGone \/ RemoveGuardDir
  \/ \E m \in Mountpoints : ProbeFlag(m) \/ ClearFlag(m) \/ UnmountGuard(m)

-----------------------------------------------------------------------------
(* The storage and the host                                                *)

StorageMounts(m) ==
  /\ ~Has(m, "real")
  /\ Push("storage", m, "real")
  /\ UNCHANGED <<flagged, index, guardDir, gStep, cleanupVars, lossVars>>

StorageUnmounts(m) ==
  /\ Top(m) = "real"
  /\ Pop("storage", m)
  /\ UNCHANGED <<flagged, index, guardDir, gStep, cleanupVars, lossVars>>

Reboot ==
  /\ mounts' = [m \in Mountpoints |-> <<>>] /\ reused' = {}
  /\ gStep' = [m \in Mountpoints |-> "idle"]
  /\ cStep' = "idle" /\ toClean' = {} /\ unflag' = {} /\ pending' = FALSE
  /\ misread' = FALSE
  /\ late' = [who \in {"restore", "cleanup"} |-> {}]
  /\ UNCHANGED <<plainRoot, flagged, index, guardDir, lossVars>>

MountNext ==
  \/ GuardApply \/ CleanupGuards \/ Reboot
  \/ \E m \in Mountpoints : StorageMounts(m) \/ StorageUnmounts(m)

MountSpec == MountInit /\ [][MountNext]_mountVars

-----------------------------------------------------------------------------
(* Properties *)

\* Neither command unmounts the storage, however the mounts are stacked, but for
\* two reasons: it was mounted after the command last looked, or over a guard with
\* a smaller, reused mount ID.  The second is a gap in what the code says of itself,
\* "only unmount guard bind mounts when they are the currently-visible mount".
SparesStorage ==
  [][\A m \in Mountpoints :
       Has(m, "real") /\ ~Has(m, "real")' =>
         \/ StorageUnmounts(m) \/ Reboot
         \/ GuardRemount(m) /\ m \in late["restore"]
         \/ UnmountGuard(m) /\ m \in late["cleanup"] \cup reused]_mountVars

\* A guard or an immutable flag, which blocks every write below it, can be found
\* by a later clean-up: the directory and its index are kept until the last is
\* gone, over reboots and the failure of any step.  What the code does lose: the
\* flags of an index that it cannot read and then removes; a block on a mountpoint
\* whose mounts change after its look; and every guard that the mount table does
\* not show under the path of the guard directory.
BlocksAreFindable ==
  \A m \in Mountpoints \ raced :
    /\ m \in flagged \ unread => guardDir /\ m \in index
    /\ Has(m, "guard") /\ plainRoot => guardDir
=============================================================================
