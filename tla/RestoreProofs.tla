----------------------------- MODULE RestoreProofs ----------------------------
(***************************************************************************)
(* Theorems about a restore: the account files (AccountsApply), for every  *)
(* set of users, groups, hosts and backups; the whole of a restore with    *)
(* the services it stops (RestoreRun), for any sequence of steps and any   *)
(* lists of services; the mount guards (MountGuard), for any set of        *)
(* mountpoints; and the run of MCRestore, in which these and the confirmed *)
(* applies (ConfirmedApplyProofs) are at work.                             *)
(***************************************************************************)
EXTENDS MCRestore, ConfirmedApplyProofs, SequenceTheorems

-----------------------------------------------------------------------------
(* The account files.                                                       *)

\* The first n of the four account files.
Placed(n) == {Batches[1][i] : i \in 1 .. n}

\* The batches, spelled out.
LEMMA BatchFacts ==
  /\ Batches[1][1] = "passwd" /\ Batches[1][2] = "shadow"
  /\ Batches[1][3] = "group" /\ Batches[1][4] = "gshadow"
  /\ Batches[2][1] = "sudoers"
BY DEF Batches

\* The number of files of the current batch.
BatchSize == IF batch = 1 THEN 4 ELSE 1

LEMMA LenIsLast == batch \in {1, 2} => Len(Batches[batch]) = BatchSize
<1>1. batch = 1 => Len(Batches[batch]) = 4
  BY DEF Batches
<1>2. batch = 2 => Len(Batches[batch]) = 1
  BY DEF Batches
<1> QED BY <1>1, <1>2 DEF BatchSize

\* The account files are distinct, and placed one after the other.
LEMMA PlacedFacts ==
  /\ Placed(0) = {}
  /\ Placed(4) = {"passwd", "shadow", "group", "gshadow"}
  /\ \A n \in 1 .. 4 : /\ Placed(n) = Placed(n - 1) \cup {Batches[1][n]}
                       /\ Placed(n - 1) = Placed(n) \ {Batches[1][n]}
  /\ \A n \in 0 .. 4 : Placed(n) \subseteq AccountFiles \ {"sudoers"}
<1>1. Placed(0) = {}
  BY DEF Placed
<1>2. Placed(1) = {"passwd"}
  BY BatchFacts DEF Placed
<1>3. Placed(2) = {"passwd", "shadow"}
  <2>1. 1 .. 2 = {1, 2}
    OBVIOUS
  <2> QED BY <2>1, BatchFacts DEF Placed
<1>4. Placed(3) = {"passwd", "shadow", "group"}
  <2>1. 1 .. 3 = {1, 2, 3}
    OBVIOUS
  <2> QED BY <2>1, BatchFacts DEF Placed
<1>5. Placed(4) = {"passwd", "shadow", "group", "gshadow"}
  <2>1. 1 .. 4 = {1, 2, 3, 4}
    OBVIOUS
  <2> QED BY <2>1, BatchFacts DEF Placed
<1>6. ASSUME NEW n \in 1 .. 4
      PROVE  /\ Placed(n) = Placed(n - 1) \cup {Batches[1][n]}
             /\ Placed(n - 1) = Placed(n) \ {Batches[1][n]}
  <2>1. CASE n = 1
    BY <2>1, <1>1, <1>2, BatchFacts
  <2>2. CASE n = 2
    BY <2>2, <1>2, <1>3, BatchFacts
  <2>3. CASE n = 3
    BY <2>3, <1>3, <1>4, BatchFacts
  <2>4. CASE n = 4
    BY <2>4, <1>4, <1>5, BatchFacts
  <2> QED BY <2>1, <2>2, <2>3, <2>4
<1>7. ASSUME NEW n \in 0 .. 4
      PROVE  Placed(n) \subseteq AccountFiles \ {"sudoers"}
  <2>1. n = 0 \/ n = 1 \/ n = 2 \/ n = 3 \/ n = 4
    OBVIOUS
  <2> QED BY <2>1, <1>1, <1>2, <1>3, <1>4, <1>5 DEF AccountFiles
<1> QED BY <1>1, <1>5, <1>6, <1>7

-----------------------------------------------------------------------------
(* Every variable keeps to its type, and a batch ends where its files do.  *)

NextInBatch ==
  /\ next <= BatchSize + 1 /\ undo <= BatchSize
  /\ state \in {"read", "commit"} => undo = 0

LEMMA TypeInit == AccountsInit => AccountsTypeOK /\ NextInBatch
<1> SUFFICES ASSUME AccountsInit PROVE AccountsTypeOK /\ NextInBatch
  OBVIOUS
<1>1. batch = 1 /\ next = 1 /\ undo = 0
  BY DEF AccountsInit
<1>2. NextInBatch
  BY <1>1 DEF NextInBatch, BatchSize
<1>3. host \in Accounts /\ stagedDB \in Accounts
  BY AccountsApplyAssumption DEF AccountsInit
<1>4. written \subseteq AccountFiles
  BY DEF AccountsInit
<1>5. torn \in BOOLEAN
  BY Zenon DEF AccountsInit
<1> QED BY <1>1, <1>2, <1>3, <1>4, <1>5 DEF AccountsInit, AccountsTypeOK

LEMMA TypeInductive ==
  AccountsTypeOK /\ NextInBatch /\ [AccountsNext]_accountVars
    => AccountsTypeOK' /\ NextInBatch'
<1> SUFFICES ASSUME AccountsTypeOK, NextInBatch, [AccountsNext]_accountVars
             PROVE  AccountsTypeOK' /\ NextInBatch'
  OBVIOUS
<1>0. /\ Batches[batch][next] \in AccountFiles \/ next > BatchSize
      /\ Len(Batches[batch]) = BatchSize
  BY BatchFacts, LenIsLast DEF AccountsTypeOK, AccountFiles, BatchSize
<1>9. torn' \in BOOLEAN
  BY Zenon DEF AccountsTypeOK, AccountsNext, accountVars, Prepare, Rename,
               RenameFails, Undo, Undone, NextBatch, AccountsCrash
<1> USE <1>0, <1>9 DEF AccountsTypeOK, NextInBatch, BatchSize
<1>1. CASE Prepare
  BY <1>1 DEF Prepare
<1>2. CASE Rename
  BY <1>2 DEF Rename, File
<1>3. CASE RenameFails
  BY <1>3 DEF RenameFails, File
<1>4. CASE Undo
  <2>1. undo' = undo - 1 /\ UNCHANGED <<host, stagedDB, batch, next, state>>
    BY <1>4 DEF Undo
  <2>2. written' \subseteq written /\ undo > 0
    BY <1>4 DEF Undo
  <2>3. undo' \in 0 .. 4 /\ undo' <= BatchSize
    BY <2>1, <2>2
  <2> QED BY <2>1, <2>2, <2>3
<1>5. CASE Undone
  BY <1>5 DEF Undone
<1>6. CASE NextBatch
  <2>1. batch' \in {1, 2} /\ (batch' = 2 /\ batch = 1 => next' = 1)
    BY <1>6 DEF NextBatch
  <2>2. UNCHANGED <<host, stagedDB, written, undo>>
    BY <1>6 DEF NextBatch
  <2>3. next' = 1 \/ (next' = next /\ batch' = batch)
    BY <1>6 DEF NextBatch
  <2>4. state' \in {"commit", "ok", "failed"}
    BY <1>6 DEF NextBatch
  <2>5. state = "commit"
    BY <1>6 DEF NextBatch
  <2>6. next' <= BatchSize' + 1 /\ undo' = 0
    BY <2>1, <2>2, <2>3, <2>5
  <2>7. NextInBatch'
    BY <2>6
  <2>8. AccountsTypeOK'
    BY <2>1, <2>2, <2>3, <2>4
  <2> QED BY <2>7, <2>8
<1>7. CASE AccountsCrash
  BY <1>7 DEF AccountsCrash
<1>8. CASE UNCHANGED accountVars
  BY <1>8 DEF accountVars
<1> QED BY <1>1, <1>2, <1>3, <1>4, <1>5, <1>6, <1>7, <1>8 DEF AccountsNext

\* Every variable keeps to its type (the batch and its undo of
\* restore_accounts.go and fs_atomic.go).
THEOREM AccountsTypeCorrect == AccountsSpec => [](AccountsTypeOK /\ NextInBatch)
<1>1. AccountsInit => AccountsTypeOK /\ NextInBatch
  BY TypeInit
<1> QED BY <1>1, TypeInductive, PTL DEF AccountsSpec

-----------------------------------------------------------------------------
(* HostAccountsSurvive holds of every mixture of old and merged files.     *)

LEMMA MixtureIsSafe == AccountsTypeOK => HostAccountsSurvive
<1> SUFFICES ASSUME AccountsTypeOK PROVE HostAccountsSurvive
  OBVIOUS
<1>1. ASSUME NEW u \in Users, u \notin Imported
      PROVE  LivePasswd[u] = host.passwd[u] /\ LiveShadow[u] = host.shadow[u]
  BY <1>1 DEF LivePasswd, LiveShadow, MergedPasswd, MergedShadow
<1>2. \A u \in HostSystemUsers \cup {"root"} : u \in Users /\ u \notin Imported
  BY AccountsApplyAssumption DEF HostSystemUsers, Imported
<1>3. ASSUME NEW g \in HostGroups
      PROVE  /\ LiveGroup[g].gid = host.group[g].gid
             /\ host.group[g].members \subseteq LiveGroup[g].members
  <2>1. g \in Groups /\ g \notin NewGroups
    BY DEF HostGroups, NewGroups
  <2>2. MergedGroup[g] =
          IF g \in SameGroups
          THEN [gid |-> host.group[g].gid,
                members |-> host.group[g].members
                              \cup (stagedDB.group[g].members \cap Imported)]
          ELSE host.group[g]
    BY <2>1 DEF MergedGroup
  <2> QED BY <2>2 DEF LiveGroup
<1>4. ASSUME NEW u \in Users, LivePasswd[u] # host.passwd[u]
      PROVE  LivePasswd[u].gid \notin HostGIDs
  <2>1. u \in Imported /\ LivePasswd[u] = stagedDB.passwd[u]
    BY <1>1, <1>4 DEF LivePasswd, MergedPasswd
  <2> QED BY <2>1 DEF Imported
<1> QED BY <1>1, <1>2, <1>3, <1>4 DEF HostAccountsSurvive

\* For every host and every backup, whatever mixture of old and merged files a
\* failure or a crash leaves, the host's own accounts and groups are as they
\* were (mergePasswd to mergeGshadow under writeFilesAtomic).
THEOREM HostAccountsAreSafe == AccountsSpec => []HostAccountsSurvive
BY AccountsTypeCorrect, MixtureIsSafe, PTL

-----------------------------------------------------------------------------
(* BatchIsWhole: which files are written at each point of a batch.         *)

Committing ==
  state = "commit" => /\ ~torn
                      /\ batch = 1 => written = Placed(next - 1)
                      /\ batch = 2 => written = IF next = 1 THEN Placed(4)
                                                ELSE Placed(4) \cup {"sudoers"}

Undoing ==
  state = "undo" /\ ~torn =>
    /\ batch = 1 => written = Placed(undo)
    /\ batch = 2 => written = IF undo = 0 THEN Placed(4)
                              ELSE Placed(4) \cup {"sudoers"}

Settled ==
  /\ state = "read" => batch = 1 /\ next = 1 /\ ~torn
  /\ state \in {"read", "skipped"} => written = {}
  /\ state = "failed" => written \in {{}, Placed(4)}
  /\ state = "ok" => written \in {Placed(4), Placed(4) \cup {"sudoers"}}

SudoersIsValid == batch = 2 => stagedDB.sudoers = "backup"
OnlySecondHasSudoers == "sudoers" \in written => batch = 2

BatchInv == /\ AccountsTypeOK /\ NextInBatch
            /\ Committing /\ Undoing /\ Settled
            /\ SudoersIsValid /\ OnlySecondHasSudoers

LEMMA BatchInvInit == AccountsInit => BatchInv
<1> SUFFICES ASSUME AccountsInit PROVE BatchInv
  OBVIOUS
<1>1. AccountsTypeOK /\ NextInBatch
  BY TypeInit
<1> QED
  BY <1>1 DEF AccountsInit, BatchInv, Committing, Undoing, Settled,
              SudoersIsValid, OnlySecondHasSudoers

LEMMA BatchInvInductive == BatchInv /\ [AccountsNext]_accountVars => BatchInv'
<1> SUFFICES ASSUME BatchInv, [AccountsNext]_accountVars PROVE BatchInv'
  OBVIOUS
<1>0. AccountsTypeOK' /\ NextInBatch'
  BY TypeInductive DEF BatchInv
<1>a. Len(Batches[batch]) = BatchSize
  BY LenIsLast DEF BatchInv, AccountsTypeOK
<1> USE <1>a, BatchFacts DEF BatchInv, AccountsTypeOK, NextInBatch, BatchSize
<1> USE DEF Committing, Undoing, Settled, SudoersIsValid, OnlySecondHasSudoers
<1>1. CASE Prepare
  BY <1>0, <1>1, PlacedFacts DEF Prepare
<1>2. CASE Rename
  <2>1. CASE batch = 1
    <3>1. next \in 1 .. 4 /\ File = Batches[1][next]
      BY <1>2, <2>1 DEF Rename, File
    <3>2. written' = Placed(next) /\ next' - 1 = next
      BY <1>2, <2>1, <3>1, PlacedFacts DEF Rename
    <3>3. "sudoers" \notin written'
      BY <3>1, <3>2, PlacedFacts
    <3> QED BY <1>0, <1>2, <2>1, <3>2, <3>3 DEF Rename
  <2>2. CASE batch = 2
    <3>1. next = 1 /\ File = "sudoers"
      BY <1>2, <2>2 DEF Rename, File
    <3> QED BY <1>0, <1>2, <2>2, <3>1 DEF Rename
  <2> QED BY <2>1, <2>2
<1>3. CASE RenameFails
  <2>1. CASE batch = 1
    <3>1. next \in 1 .. 4 /\ File = Batches[1][next]
      BY <1>3, <2>1 DEF RenameFails, File
    <3>2. written' = Placed(undo') /\ undo' \in 0 .. 4
      <4>1. written = Placed(next - 1)
        BY <1>3, <2>1 DEF RenameFails
      <4>2. \/ written' = written \cup {Batches[1][next]} /\ undo' = next
            \/ written' = written /\ undo' = next - 1
        <5>1. PICK committed \in BOOLEAN :
                /\ written' = IF committed THEN written \cup {File} ELSE written
                /\ undo' = IF committed THEN next ELSE next - 1
          BY <1>3 DEF RenameFails
        <5>2. CASE committed = TRUE
          BY <3>1, <5>1, <5>2
        <5>3. CASE committed = FALSE
          BY <3>1, <5>1, <5>3
        <5> QED BY <5>2, <5>3
      <4>3. Placed(next) = Placed(next - 1) \cup {Batches[1][next]}
        BY <3>1, PlacedFacts
      <4>4. undo' \in 0 .. 4
        BY <3>1, <4>2
      <4> QED BY <4>1, <4>2, <4>3, <4>4
    <3>3. "sudoers" \notin written'
      BY <3>2, PlacedFacts
    <3> QED BY <1>0, <1>3, <2>1, <3>2, <3>3 DEF RenameFails
  <2>2. CASE batch = 2
    <3>1. next = 1 /\ File = "sudoers"
      BY <1>3, <2>2 DEF RenameFails, File
    <3> QED BY <1>0, <1>3, <2>2, <3>1 DEF RenameFails
  <2> QED BY <2>1, <2>2
<1>4. CASE Undo
  <2>1. CASE batch = 1
    <3>1. undo \in 1 .. 4 /\ undo' = undo - 1
      BY <1>4 DEF Undo
    <3>2. ~torn' => ~torn /\ written' = written \ {Batches[1][undo]}
      BY <1>4, <2>1 DEF Undo
    <3>3. ~torn' => written' = Placed(undo')
      BY <1>4, <2>1, <3>1, <3>2, PlacedFacts DEF Undo
    <3>4. "sudoers" \notin written'
      BY <1>4, <2>1 DEF Undo
    <3> QED BY <1>0, <1>4, <2>1, <3>3, <3>4 DEF Undo
  <2>2. CASE batch = 2
    <3>1. undo = 1 /\ undo' = 0
      BY <1>4, <2>2 DEF Undo
    <3>2. ~torn' => ~torn /\ written' = written \ {"sudoers"}
      BY <1>4, <2>2, <3>1 DEF Undo
    <3>3. ~torn' => written' = Placed(4)
      BY <1>4, <2>2, <3>1, <3>2, PlacedFacts DEF Undo
    <3> QED BY <1>0, <1>4, <2>2, <3>1, <3>3 DEF Undo
  <2> QED BY <2>1, <2>2
<1>5. CASE Undone
  BY <1>0, <1>5, PlacedFacts DEF Undone
<1>6. CASE NextBatch
  <2>1. batch = 1 => written = Placed(4)
    BY <1>6 DEF NextBatch
  <2>2. batch = 2 => written = Placed(4) \cup {"sudoers"}
    BY <1>6 DEF NextBatch
  <2> QED BY <1>0, <1>6, <2>1, <2>2, PlacedFacts DEF NextBatch
<1>7. CASE AccountsCrash
  BY <1>0, <1>7 DEF AccountsCrash
<1>8. CASE UNCHANGED accountVars
  BY <1>0, <1>8 DEF accountVars
<1> QED BY <1>1, <1>2, <1>3, <1>4, <1>5, <1>6, <1>7, <1>8 DEF AccountsNext

LEMMA BatchInvImplies == BatchInv => BatchIsWhole
<1> SUFFICES ASSUME BatchInv PROVE BatchIsWhole
  OBVIOUS
<1>1. AccountFiles \ {"sudoers"} = Placed(4) /\ "sudoers" \notin Placed(4)
      /\ "passwd" \in Placed(4)
  BY PlacedFacts DEF AccountFiles
<1> QED BY <1>1 DEF BatchInv, Settled, SudoersIsValid, OnlySecondHasSudoers, BatchIsWhole

\* For every host and backup: a batch that reports neither a crash nor files
\* that could not be put back is written as a whole or not at all
\* (writeFilesAtomic).
THEOREM BatchesAreWhole == AccountsSpec => []BatchIsWhole
BY BatchInvInit, BatchInvInductive, BatchInvImplies, PTL DEF AccountsSpec

-----------------------------------------------------------------------------
(* The whole of a restore.                                                  *)

RestorePlaceOK ==
  /\ phase \in {"plan", "pve", "pbs", "steps", "cleanup", "end"}
  /\ at \in Nat \ {0} /\ (phase = "steps" => at <= Len(Steps) + 1)
  /\ busy \in BOOLEAN /\ (busy => phase = "steps" /\ at <= Len(Steps))
  /\ cleanups \subseteq needs
  /\ needs \subseteq {"pve", "pbs"}

\* A group that is not up as a whole had a stop or a start that failed, or its
\* restart is registered, or it is being stopped right now.
Restorable ==
  /\ \A g \in {"pve", "pbs"} :
       \/ AllOf(g) \subseteq up
       \/ g \in unstopped \/ g \in unstarted \/ g \in cleanups
       \/ phase = g /\ g \in needs
  /\ phase = "end" => cleanups = {}

\* Of the group that is being started, the services before "at" run, or one of
\* them failed to start.
StartedSoFar ==
  phase = "cleanup" /\ cleanups # {} =>
    \/ Restarting \in unstarted
    \/ \A i \in 1 .. Len(ServicesOf(Restarting)) :
         i < at => ServicesOf(Restarting)[i] \in up

RestoreInv == RestorePlaceOK /\ Restorable /\ StartedSoFar

LEMMA ServicesTyped ==
  /\ Len(PVEServices) \in Nat /\ Len(PBSServices) \in Nat
  /\ \A i \in 1 .. Len(PVEServices) : PVEServices[i] \in AllOf("pve") \ AllOf("pbs")
  /\ \A i \in 1 .. Len(PBSServices) : PBSServices[i] \in AllOf("pbs") \ AllOf("pve")
  <1>1. ServicesOf("pve") = PVEServices /\ ServicesOf("pbs") = PBSServices
    BY DEF ServicesOf
  <1>2. /\ AllOf("pve") = {PVEServices[i] : i \in 1 .. Len(PVEServices)}
        /\ AllOf("pbs") = {PBSServices[i] : i \in 1 .. Len(PBSServices)}
    BY <1>1 DEF AllOf
  <1>3. Len(PVEServices) \in Nat /\ Len(PBSServices) \in Nat
    BY RestoreRunAssumption
  <1>4. AllOf("pve") \cap AllOf("pbs") = {}
    BY RestoreRunAssumption
  <1>5. ASSUME NEW i \in 1 .. Len(PVEServices)
        PROVE  PVEServices[i] \in AllOf("pve") \ AllOf("pbs")
    BY <1>2, <1>4
  <1>6. ASSUME NEW i \in 1 .. Len(PBSServices)
        PROVE  PBSServices[i] \in AllOf("pbs") \ AllOf("pve")
    BY <1>2, <1>4
  <1> QED
    BY <1>3, <1>5, <1>6

LEMMA StepsCounted == Len(Steps) \in Nat
  BY DEF Steps, Payload, Staged, Post

\* Steps that stop no service and start none for good.
LEMMA PayloadSteps ==
  ASSUME RestoreInv,
         Plan \/ Begin \/ Finish \/ FinishAccounts \/ FinishNormal \/ FinishStage
           \/ WriteNetwork \/ ValidateNetwork \/ Complete \/ Cancel
           \/ UNCHANGED restoreVars
  PROVE  RestoreInv'
  <1> USE StepsCounted
      DEF RestoreInv, RestorePlaceOK, Restarting, Enter, Return, Advance,
              restorePlan, restorePlace, restoreHosts, restoreData
  <1>1. /\ cleanups' = cleanups /\ unstopped' = unstopped /\ unstarted' = unstarted
        /\ up \subseteq up' /\ needs' = needs
    BY DEF Plan, Begin, Finish, FinishAccounts, FinishNormal, FinishStage,
           WriteNetwork, ValidateNetwork, Complete, Cancel, StartsPBS, restoreVars
  <1>2. /\ phase' \in {"plan", "pve", "pbs", "steps", "cleanup", "end"}
        /\ busy' \in BOOLEAN /\ (busy' => phase' = "steps" /\ at' <= Len(Steps))
        /\ phase' = phase \/ (phase = "plan" /\ phase' = "pve")
             \/ (phase \in {"plan", "steps"} /\ phase' = "cleanup")
    <2>1. CASE Plan \/ Complete
      BY <2>1 DEF Plan, Complete
    <2>5. CASE Cancel \/ UNCHANGED restoreVars
      <3>1. UNCHANGED <<phase, at, busy>>
        BY <2>5 DEF Cancel, restoreVars
      <3> QED
        BY <3>1
    <2>2. CASE Begin
      BY <2>2 DEF Begin
    <2>3. CASE Finish \/ FinishAccounts \/ FinishNormal
      BY <2>3 DEF Finish, FinishAccounts, FinishNormal
    <2>4. CASE FinishStage \/ WriteNetwork \/ ValidateNetwork
      BY <2>4 DEF FinishStage, WriteNetwork, ValidateNetwork
    <2> QED
      BY <2>1, <2>2, <2>3, <2>4, <2>5
  <1>6. /\ at' \in {at, at + 1, 1} /\ (phase' = "steps" => at' <= Len(Steps) + 1)
        /\ phase = "cleanup" => at' = at
        /\ phase' = "cleanup" /\ phase # "cleanup" => at' = 1
    <2>1. CASE Plan \/ Complete
      BY <2>1 DEF Plan, Complete
    <2>5. CASE Cancel \/ UNCHANGED restoreVars
      <3>1. UNCHANGED <<phase, at, busy>>
        BY <2>5 DEF Cancel, restoreVars
      <3> QED
        BY <3>1
    <2>2. CASE Begin
      BY <2>2 DEF Begin
    <2>3. CASE Finish \/ FinishAccounts \/ FinishNormal
      BY <2>3 DEF Finish, FinishAccounts, FinishNormal
    <2>4. CASE FinishStage \/ WriteNetwork \/ ValidateNetwork
      BY <2>4 DEF FinishStage, WriteNetwork, ValidateNetwork
    <2> QED
      BY <2>1, <2>2, <2>3, <2>4, <2>5
  <1>7. RestorePlaceOK'
    BY <1>1, <1>2, <1>6
  <1>4. Restorable'
    BY <1>1, <1>2 DEF Restorable
  <1>5. StartedSoFar'
    BY <1>1, <1>2, <1>6 DEF StartedSoFar
  <1> QED
    BY <1>7, <1>4, <1>5

LEMMA StopSteps ==
  ASSUME RestoreInv, StopPVE \/ StopPBS
  PROVE  RestoreInv'
  <1> USE StepsCounted
      DEF RestoreInv, RestorePlaceOK, Restarting, Enter, Return, Advance, Stops,
          restorePlan, restorePlace, restoreHosts, restoreData
  <1>1. RestorePlaceOK' /\ phase' # "end"
    <2>1. /\ phase' \in {"pve", "pbs", "steps", "cleanup"} /\ busy' = FALSE
          /\ at' \in {at, at + 1, 1} /\ (phase' = "steps" => at' = 1)
      BY DEF StopPVE, StopPBS
    <2>2. cleanups' \subseteq needs' /\ needs' = needs
      BY DEF StopPVE, StopPBS
    <2>3. at' \in Nat \ {0} /\ (phase' = "steps" => at' <= Len(Steps) + 1)
      BY <2>1
    <2>4. busy' \in BOOLEAN /\ ~busy'
      BY <2>1
    <2>5. phase' \in {"plan", "pve", "pbs", "steps", "cleanup", "end"} /\ phase' # "end"
      BY <2>1
    <2>6. needs' \subseteq {"pve", "pbs"}
      BY <2>2
    <2> QED
      BY <2>2, <2>3, <2>4, <2>5, <2>6
  <1>3. ASSUME NEW g \in {"pve", "pbs"}, phase # g
        PROVE  AllOf(g) \subseteq up => AllOf(g) \subseteq up'
    BY <1>3, ServicesTyped DEF StopPVE, StopPBS
  <1>4. Restorable'
    <2>1. /\ unstopped \subseteq unstopped' /\ unstarted \subseteq unstarted'
          /\ cleanups \subseteq cleanups' /\ needs' = needs
      BY DEF StopPVE, StopPBS
    <2>2. ASSUME NEW g \in {"pve", "pbs"}, phase # g
          PROVE  AllOf(g) \subseteq up' \/ g \in unstopped' \/ g \in unstarted'
                   \/ g \in cleanups'
      BY <1>3, <2>1, <2>2 DEF Restorable
    <2>3. CASE StopPVE
      <3>1. phase = "pve"
        BY <2>3 DEF StopPVE
      <3>2. \/ AllOf("pve") \subseteq up' \/ "pve" \in unstopped' \/ "pve" \in cleanups'
            \/ "pve" \in unstarted'
            \/ phase' = "pve" /\ "pve" \in needs'
        BY <2>1, <2>3, ServicesTyped DEF StopPVE, Restorable
      <3> QED
        BY <1>1, <2>2, <3>1, <3>2 DEF Restorable
    <2>4. CASE StopPBS
      <3>1. phase = "pbs"
        BY <2>4 DEF StopPBS
      <3>2. \/ AllOf("pbs") \subseteq up' \/ "pbs" \in unstopped' \/ "pbs" \in cleanups'
            \/ "pbs" \in unstarted'
            \/ phase' = "pbs" /\ "pbs" \in needs'
        BY <2>1, <2>4, ServicesTyped DEF StopPBS, Restorable
      <3> QED
        BY <1>1, <2>2, <3>1, <3>2 DEF Restorable
    <2> QED
      BY <2>3, <2>4
  <1>5. StartedSoFar'
    BY DEF StartedSoFar, StopPVE, StopPBS
  <1> QED
    BY <1>1, <1>4, <1>5

LEMMA RestartSteps ==
  ASSUME RestoreInv, Restart \/ Restarted \/ Leave
  PROVE  RestoreInv'
  <1> USE ServicesTyped DEF RestoreInv, RestorePlaceOK, restorePlan, restoreHosts, restoreData
  <1>1. RestorePlaceOK'
    <2>1. /\ phase = "cleanup" /\ phase' \in {"cleanup", "end"} /\ busy' = busy
          /\ at' \in {at, at + 1, 1}
      BY DEF Restart, Restarted, Leave, restorePlace, restoreData
    <2>2. cleanups' \subseteq cleanups /\ needs' = needs
      BY DEF Restart, Restarted, Leave
    <2> QED
      BY <2>1, <2>2
  <1>2. CASE Restart
    <2>1. /\ Restarting \in {"pve", "pbs"} /\ Restarting \in cleanups
          /\ phase = "cleanup" /\ phase' = phase
          /\ unstopped' = unstopped /\ needs' = needs
      BY <1>2 DEF Restart, Restarting
    <2>2. CASE up' = up \cup {ServicesOf(Restarting)[at]} /\ at' = at + 1
                 /\ UNCHANGED <<unstarted, cleanups>>
      <3>1. Restorable'
        BY <2>1, <2>2 DEF Restorable
      <3>2. StartedSoFar'
        BY <2>1, <2>2 DEF StartedSoFar, Restarting
      <3> QED
        BY <1>1, <3>1, <3>2
    <2>3. CASE /\ unstarted' = unstarted \cup {Restarting} /\ up' = up
               /\ IF Restarting = "pve"
                  THEN cleanups' = cleanups \ {"pve"} /\ at' = 1
                  ELSE at' = at + 1 /\ UNCHANGED cleanups
      <3>1. Restorable'
        BY <2>1, <2>3 DEF Restorable
      <3>2. StartedSoFar'
        BY <2>1, <2>3 DEF StartedSoFar, Restarting
      <3> QED
        BY <1>1, <3>1, <3>2
    <2> QED
      BY <1>2, <2>2, <2>3 DEF Restart
  <1>3. CASE Restarted
    <2>1. /\ Restarting \in {"pve", "pbs"} /\ Restarting \in cleanups
          /\ phase = "cleanup" /\ phase' = phase /\ at > Len(ServicesOf(Restarting))
          /\ cleanups' = cleanups \ {Restarting} /\ at' = 1
          /\ UNCHANGED <<unstopped, unstarted, up, needs>>
      BY <1>3 DEF Restarted, Restarting
    <2>2. Restarting \in unstarted \/ AllOf(Restarting) \subseteq up
      BY <2>1 DEF StartedSoFar, AllOf, ServicesOf
    <2>3. Restorable'
      BY <2>1, <2>2 DEF Restorable
    <2>4. StartedSoFar'
      BY <2>1 DEF StartedSoFar
    <2> QED
      BY <1>1, <2>3, <2>4
  <1>4. CASE Leave
    BY <1>1, <1>4 DEF Leave, Restorable, StartedSoFar
  <1> QED
    BY <1>2, <1>3, <1>4

LEMMA RestoreInvAlways == RestoreSpec => []RestoreInv
  <1>1. RestoreInit => RestoreInv
    <2> SUFFICES ASSUME RestoreInit
                 PROVE  RestoreInv
      OBVIOUS
    <2>1. RestorePlaceOK
      <3>1. /\ phase = "plan" /\ at = 1 /\ ~busy /\ busy \in BOOLEAN
            /\ cleanups = {} /\ needs \subseteq {"pve", "pbs"}
        BY DEF RestoreInit
      <3> QED
        BY <3>1 DEF RestorePlaceOK
    <2>2. Restorable
      BY DEF RestoreInit, Restorable
    <2>3. StartedSoFar
      BY DEF RestoreInit, StartedSoFar
    <2> QED
      BY <2>1, <2>2, <2>3 DEF RestoreInv
  <1>2. RestoreInv /\ [RestoreNext]_restoreVars => RestoreInv'
    BY PayloadSteps, StopSteps, RestartSteps DEF RestoreNext
  <1> QED
    BY <1>1, <1>2, PTL DEF RestoreSpec

\* What the places above leave out.
RestoreDataOK ==
  /\ staging \in BOOLEAN
  /\ up \subseteq AllOf("pve") \cup AllOf("pbs")
  /\ downed \subseteq AllOf("pve") \cup AllOf("pbs")
  /\ unstopped \subseteq needs /\ unstarted \subseteq needs
  /\ stage \in {"none", "partial", "complete"}
  /\ net \in {"old", "unvalidated", "kept"}
  /\ cancelled \in BOOLEAN /\ unrolled \in BOOLEAN
  /\ result \in {"running", "ok", "aborted", "failed", "inconsistent"}
  /\ accounts \in {"old", "new", "mixed"} /\ fromPartial \in BOOLEAN

LEMMA RestoreDataSteps ==
  ASSUME RestoreInv, RestoreDataOK, [RestoreNext]_restoreVars
  PROVE  RestoreDataOK'
  <1> USE DEF RestoreDataOK, Enter, Return, Advance, restorePlan, restorePlace,
              restoreHosts, restoreData
  <1>1. CASE Plan \/ Complete \/ Cancel \/ Leave \/ UNCHANGED restoreVars
    <2>1. UNCHANGED <<needs, staging, up, unstopped, downed, unstarted, stage, net, accounts,
                      fromPartial, unrolled>>
      BY <1>1 DEF Plan, Complete, Cancel, Leave, restoreVars
    <2>2. /\ cancelled' \in {cancelled, TRUE}
          /\ result' \in {"running", "ok", "aborted", "failed", "inconsistent"}
      BY <1>1 DEF Plan, Complete, Cancel, Leave, restoreVars
    <2> QED
      BY <2>1, <2>2
  <1>0. ASSUME NEW g \in needs, NEW s \in AllOf("pve") \cup AllOf("pbs"), Stops(g, s)
        PROVE  /\ up' \subseteq AllOf("pve") \cup AllOf("pbs")
               /\ downed' \subseteq AllOf("pve") \cup AllOf("pbs")
               /\ unstopped' \subseteq needs
    BY <1>0 DEF Stops
  <1>2. CASE StopPVE
    <2>1. /\ UNCHANGED <<needs, staging, unstarted, stage, net, accounts, fromPartial,
                         unrolled, cancelled>>
          /\ result' \in {result, "failed"}
      BY <1>2 DEF StopPVE
    <2>2. CASE UNCHANGED <<up, unstopped, downed>>
      BY <2>1, <2>2
    <2>3. CASE ~UNCHANGED <<up, unstopped, downed>>
      <3>1. "pve" \in needs /\ ~(at > Len(PVEServices)) /\ Stops("pve", PVEServices[at])
        BY <1>2, <2>3 DEF StopPVE
      <3>2. at \in 1 .. Len(PVEServices)
        BY <3>1, ServicesTyped DEF RestoreInv, RestorePlaceOK
      <3>3. PVEServices[at] \in AllOf("pve")
        BY <3>2, ServicesTyped
      <3> QED
        BY <2>1, <3>1, <3>3, <1>0
    <2> QED
      BY <2>2, <2>3
  <1>3. CASE StopPBS
    <2>1. /\ UNCHANGED <<needs, staging, unstarted, stage, net, accounts, fromPartial,
                         unrolled, cancelled>>
          /\ result' \in {result, "aborted"}
      BY <1>3 DEF StopPBS
    <2>2. CASE UNCHANGED <<up, unstopped, downed>>
      BY <2>1, <2>2
    <2>3. CASE ~UNCHANGED <<up, unstopped, downed>>
      <3> DEFINE k == Len(PBSServices) + 1 - at
      <3>1. "pbs" \in needs /\ ~(at > Len(PBSServices)) /\ Stops("pbs", PBSServices[k])
        BY <1>3, <2>3 DEF StopPBS
      <3>2. k \in 1 .. Len(PBSServices)
        BY <3>1, ServicesTyped DEF RestoreInv, RestorePlaceOK
      <3>3. PBSServices[k] \in AllOf("pbs")
        BY <3>2, ServicesTyped
      <3> QED
        BY <2>1, <3>1, <3>3, <1>0
    <2> QED
      BY <2>2, <2>3
  <1>4. CASE Begin
    BY <1>4 DEF Begin
  <1>5. CASE Finish
    <2>1. UNCHANGED <<needs, staging, unstopped, downed, unstarted, stage, net, accounts,
                      fromPartial, unrolled, cancelled>>
      BY <1>5 DEF Finish
    <2>2. up' \subseteq AllOf("pve") \cup AllOf("pbs")
      BY <1>5 DEF Finish, StartsPBS
    <2>3. result' \in {"running", "ok", "aborted", "failed", "inconsistent"}
      BY <1>5 DEF Finish
    <2> QED
      BY <2>1, <2>2, <2>3
  <1>6. CASE FinishAccounts \/ FinishNormal \/ FinishStage
    BY <1>6 DEF FinishAccounts, FinishNormal, FinishStage
  <1>7. CASE WriteNetwork \/ ValidateNetwork
    BY <1>7 DEF WriteNetwork, ValidateNetwork
  <1>8. CASE Restart \/ Restarted
    <2>1. UNCHANGED <<needs, staging, unstopped, downed, stage, net, accounts, result,
                      fromPartial, unrolled, cancelled>>
      BY <1>8 DEF Restart, Restarted
    <2>2. Restarting \in cleanups /\ cleanups \subseteq needs
      BY <1>8 DEF Restart, Restarted, Restarting, RestoreInv, RestorePlaceOK
    <2>3. unstarted' \subseteq needs
      BY <1>8, <2>2 DEF Restart, Restarted
    <2>4. up' \subseteq AllOf("pve") \cup AllOf("pbs")
      <3>1. ASSUME Restart
            PROVE  ServicesOf(Restarting)[at] \in AllOf("pve") \cup AllOf("pbs")
        <4>1. at \in 1 .. Len(ServicesOf(Restarting))
          BY <3>1, ServicesTyped DEF Restart, RestoreInv, RestorePlaceOK, ServicesOf
        <4> QED
          BY <4>1 DEF AllOf, ServicesOf, Restarting
      <3> QED
        BY <1>8, <3>1 DEF Restart, Restarted
    <2> QED
      BY <2>1, <2>3, <2>4
  <1> QED
    BY <1>1, <1>2, <1>3, <1>4, <1>5, <1>6, <1>7, <1>8 DEF RestoreNext

\* Every state of a restore is well formed, for any lists of services.
THEOREM RestoreTypeCorrect == RestoreSpec => []RestoreTypeOK
  <1>1. RestoreInit => RestoreDataOK
    BY DEF RestoreInit, RestoreDataOK
  <1>2. RestoreInv /\ RestoreDataOK /\ [RestoreNext]_restoreVars => RestoreDataOK'
    BY RestoreDataSteps
  <1>3. RestoreInv /\ RestoreDataOK => RestoreTypeOK
    BY DEF RestoreInv, RestorePlaceOK, RestoreDataOK, RestoreTypeOK
  <1> QED
    BY <1>1, <1>2, <1>3, RestoreInvAlways, PTL DEF RestoreSpec

\* For any lists of services: however a restore ends, with any step failing or
\* cancelled, a group none of whose stops failed or was cancelled runs again, unless
\* a service of it cannot be started.  (Of a group of which a stop failed, what was
\* stopped before stays down: the run StoppedRunAgain is about that.)
THEOREM StoppedServicesRunAgain == RestoreSpec => []ServicesRestored
  <1>1. RestoreInv => ServicesRestored
    BY DEF RestoreInv, Restorable, ServicesRestored
  <1> QED
    BY <1>1, RestoreInvAlways, PTL

-----------------------------------------------------------------------------
(* The mount guards.                                                        *)

Stacks == {<<>>, <<"real">>, <<"guard">>, <<"guard", "real">>, <<"real", "guard">>}

\* What may be mounted on a mountpoint, spelled out.
LEMMA StackFacts ==
  ASSUME NEW s \in Stacks
  PROVE  /\ (\E i \in 1 .. Len(s) : s[i] = "real")
              <=> s \in {<<"real">>, <<"guard", "real">>, <<"real", "guard">>}
         /\ (\E i \in 1 .. Len(s) : s[i] = "guard")
              <=> s \in {<<"guard">>, <<"guard", "real">>, <<"real", "guard">>}
         /\ s # <<>> => /\ Last(s) \in {"real", "guard"}
                        /\ Last(s) = "real" => s \in {<<"real">>, <<"guard", "real">>}
                        /\ Last(s) = "guard" => s \in {<<"guard">>, <<"real", "guard">>}
  <1>1. CASE s = <<>>
    BY <1>1
  <1>2. CASE s = <<"real">>
    BY <1>2 DEF Last
  <1>3. CASE s = <<"guard">>
    BY <1>3 DEF Last
  <1>4. CASE s = <<"guard", "real">>
    BY <1>4 DEF Last
  <1>5. CASE s = <<"real", "guard">>
    BY <1>5 DEF Last
  <1> QED
    BY <1>1, <1>2, <1>3, <1>4, <1>5 DEF Stacks

LEMMA StacksDiffer ==
  /\ <<"real">> # <<"guard">> /\ <<"real">> # <<"guard", "real">>
  /\ <<"real">> # <<"real", "guard">> /\ <<"guard">> # <<"guard", "real">>
  /\ <<"guard">> # <<"real", "guard">> /\ <<"guard", "real">> # <<"real", "guard">>
  /\ <<>> # <<"real">> /\ <<>> # <<"guard">>
  /\ <<>> # <<"guard", "real">> /\ <<>> # <<"real", "guard">>
  OBVIOUS

LEMMA ShortSequences ==
  ASSUME NEW S, NEW s \in Seq(S)
  PROVE  /\ Len(s) = 1 => s = <<s[1]>>
         /\ Len(s) = 2 => s = <<s[1], s[2]>>
  <1>1. ASSUME Len(s) = 1
        PROVE  s = <<s[1]>>
    <2>1. s[1] \in S
      BY <1>1
    <2>2. <<s[1]>> \in Seq(S) /\ Len(<<s[1]>>) = 1
      BY <2>1
    <2>3. \A i \in 1 .. Len(s) : s[i] = <<s[1]>>[i]
      BY <1>1
    <2> QED
      BY <1>1, <2>2, <2>3, SeqEqual
  <1>2. ASSUME Len(s) = 2
        PROVE  s = <<s[1], s[2]>>
    <2>1. s[1] \in S /\ s[2] \in S
      BY <1>2, ElementOfSeq
    <2>2. <<s[1], s[2]>> \in Seq(S) /\ Len(<<s[1], s[2]>>) = 2
      BY <2>1
    <2>3. \A i \in 1 .. Len(s) : s[i] = <<s[1], s[2]>>[i]
      BY <1>2
    <2> QED
      BY <1>2, <2>2, <2>3, SeqEqual
  <1> QED
    BY <1>1, <1>2

LEMMA FrontFacts ==
  /\ Front(<<"real">>) = <<>> /\ Front(<<"guard">>) = <<>>
  /\ Front(<<"guard", "real">>) = <<"guard">>
  /\ Front(<<"real", "guard">>) = <<"real">>
  <1>1. ASSUME NEW a
        PROVE  Front(<<a>>) = <<>>
    BY DEF Front
  <1>2. ASSUME NEW a, NEW b
        PROVE  Front(<<a, b>>) = <<a>>
    <2> DEFINE s == SubSeq(<<a, b>>, 1, 1)
    <2>1. <<a, b>> \in Seq({a, b}) /\ Len(<<a, b>>) = 2
      OBVIOUS
    <2>2. s \in Seq({a, b}) /\ Len(s) = 1 /\ s[1] = a
      BY <2>1
    <2>3. s = <<a>>
      BY <2>2, ShortSequences
    <2> QED
      BY <2>1, <2>3 DEF Front
  <1> QED
    BY <1>1, <1>2

LEMMA AppendFacts ==
  /\ Append(<<>>, "real") = <<"real">> /\ Append(<<>>, "guard") = <<"guard">>
  /\ Append(<<"guard">>, "real") = <<"guard", "real">>
  /\ Append(<<"real">>, "guard") = <<"real", "guard">>
  <1>1. ASSUME NEW b
        PROVE  Append(<<>>, b) = <<b>>
    BY <1>1
  <1>2. ASSUME NEW a, NEW b
        PROVE  Append(<<a>>, b) = <<a, b>>
    <2> DEFINE s == Append(<<a>>, b)
    <2>1. <<a>> \in Seq({a, b}) /\ Len(<<a>>) = 1
      OBVIOUS
    <2>2. s \in Seq({a, b}) /\ Len(s) = 2 /\ s[1] = a /\ s[2] = b
      BY <2>1
    <2> QED
      BY <2>2, ShortSequences
  <1> QED
    BY <1>1, <1>2

\* A step of "by" that may change what is mounted on m, and nothing else is.  Who
\* is at work on m and did not do it has it in late.
Touches(by, m) ==
  /\ mounts' \in [Mountpoints -> Stacks]
  /\ \A q \in Mountpoints \ {m} : mounts'[q] = mounts[q] /\ (q \in reused' <=> q \in reused)
  /\ reused' \subseteq {q \in Mountpoints : Len(mounts'[q]) = 2}
  /\ plainRoot' = plainRoot
  /\ late' \in [{"restore", "cleanup"} -> SUBSET Mountpoints]
  /\ \A who \in {"restore", "cleanup"} :
       /\ \A q \in Mountpoints \ {m} : q \in late'[who] <=> q \in late[who]
       /\ who # by /\ AtWork(who, m) =>
            \/ m \in late'[who]
            \/ mounts'[m] = mounts[m] /\ reused' = reused /\ m \notin late[who]

LEMMA ChangeEffect ==
  ASSUME MountTypeOK, NEW m \in Mountpoints, NEW stack \in Stacks, NEW by,
         Change(by, m, stack)
  PROVE  Touches(by, m) /\ mounts'[m] = stack
  <1>1. mounts' = [mounts EXCEPT ![m] = stack] /\ mounts \in [Mountpoints -> Stacks]
    BY DEF Change, MountTypeOK, Stacks
  <1>2. /\ mounts' \in [Mountpoints -> Stacks] /\ mounts'[m] = stack
        /\ \A q \in Mountpoints \ {m} : mounts'[q] = mounts[q]
    BY <1>1
  <1>3. /\ late' = [who \in {"restore", "cleanup"} |->
                     IF who = by \/ ~AtWork(who, m) THEN late[who] \ {m}
                     ELSE late[who] \cup {m}]
        /\ late \in [{"restore", "cleanup"} -> SUBSET Mountpoints]
    BY DEF Change, MountTypeOK
  <1>4. /\ late' \in [{"restore", "cleanup"} -> SUBSET Mountpoints]
        /\ \A who \in {"restore", "cleanup"} :
             /\ \A q \in Mountpoints \ {m} : q \in late'[who] <=> q \in late[who]
             /\ who # by /\ AtWork(who, m) => m \in late'[who]
    BY <1>3
  <1>5. /\ reused' = reused \ {m} \/ (Len(stack) = 2 /\ reused' = reused \cup {m})
        /\ plainRoot' = plainRoot
    BY DEF Change
  <1>6. /\ reused' \subseteq {q \in Mountpoints : Len(mounts'[q]) = 2}
        /\ \A q \in Mountpoints \ {m} : q \in reused' <=> q \in reused
    <2>1. reused \subseteq {q \in Mountpoints : Len(mounts[q]) = 2}
      BY DEF MountTypeOK
    <2> QED
      BY <2>1, <1>2, <1>5
  <1> QED
    BY <1>2, <1>4, <1>5, <1>6 DEF Touches

\* Unmounting takes the topmost mount away.
LEMMA PopEffect ==
  ASSUME MountTypeOK, NEW m \in Mountpoints, NEW by, mounts[m] # <<>>, Pop(by, m)
  PROVE  /\ Touches(by, m)
         /\ mounts'[m] \in {<<>>, <<"real">>, <<"guard">>}
         /\ mounts'[m] = <<"real">> => mounts[m] = <<"real", "guard">>
         /\ mounts'[m] = <<"guard">> => mounts[m] = <<"guard", "real">>
         /\ mounts'[m] = <<>> => mounts[m] \in {<<"real">>, <<"guard">>}
  <1>1. mounts[m] \in Stacks
    BY DEF MountTypeOK, Stacks
  <1>2. /\ Front(mounts[m]) \in {<<>>, <<"real">>, <<"guard">>}
        /\ Front(mounts[m]) = <<"real">> => mounts[m] = <<"real", "guard">>
        /\ Front(mounts[m]) = <<"guard">> => mounts[m] = <<"guard", "real">>
        /\ Front(mounts[m]) = <<>> => mounts[m] \in {<<"real">>, <<"guard">>}
    BY <1>1, FrontFacts DEF Stacks
  <1>3. Front(mounts[m]) \in Stacks
    BY <1>2 DEF Stacks
  <1>4. Touches(by, m) /\ mounts'[m] = Front(mounts[m])
    BY <1>3, ChangeEffect DEF Pop
  <1> QED
    BY <1>2, <1>4

LEMMA PushRealEffect ==
  ASSUME MountTypeOK, NEW m \in Mountpoints, NEW by, ~Has(m, "real"), Push(by, m, "real")
  PROVE  /\ Touches(by, m)
         /\ mounts'[m] \in {<<"real">>, <<"guard", "real">>}
         /\ mounts'[m] = <<"guard", "real">> => mounts[m] = <<"guard">>
  <1>1. mounts[m] \in Stacks
    BY DEF MountTypeOK, Stacks
  <1>2. mounts[m] \in {<<>>, <<"guard">>}
    BY <1>1, StackFacts DEF Has, Stacks
  <1>3. /\ Append(mounts[m], "real") \in {<<"real">>, <<"guard", "real">>}
        /\ Append(mounts[m], "real") = <<"guard", "real">> => mounts[m] = <<"guard">>
    <2>1. CASE mounts[m] = <<>>
      <3>1. Append(mounts[m], "real") = <<"real">>
        BY <2>1, AppendFacts
      <3>2. <<"real">> # <<"guard", "real">>
        OBVIOUS
      <3> QED
        BY <3>1, <3>2
    <2>2. CASE mounts[m] = <<"guard">>
      BY <2>2, AppendFacts
    <2> QED
      BY <1>2, <2>1, <2>2
  <1>4. Append(mounts[m], "real") \in Stacks
    BY <1>3 DEF Stacks
  <1>5. Touches(by, m) /\ mounts'[m] = Append(mounts[m], "real")
    BY <1>4, ChangeEffect DEF Push
  <1> QED
    BY <1>3, <1>5

LEMMA PushGuardEffect ==
  ASSUME MountTypeOK, NEW m \in Mountpoints, NEW by, mounts[m] \in {<<>>, <<"real">>},
         Push(by, m, "guard")
  PROVE  /\ Touches(by, m)
         /\ mounts[m] = <<>> => mounts'[m] = <<"guard">>
         /\ mounts[m] = <<"real">> => mounts'[m] = <<"real", "guard">>
  <1>1. /\ mounts[m] = <<>> => Append(mounts[m], "guard") = <<"guard">>
        /\ mounts[m] = <<"real">> => Append(mounts[m], "guard") = <<"real", "guard">>
    BY AppendFacts
  <1>2. Append(mounts[m], "guard") \in Stacks
    BY <1>1 DEF Stacks
  <1>3. Touches(by, m) /\ mounts'[m] = Append(mounts[m], "guard")
    BY <1>2, ChangeEffect DEF Push
  <1> QED
    BY <1>1, <1>3

LEMMA StackOf ==
  ASSUME mounts \in [Mountpoints -> Stacks], NEW m \in Mountpoints
  PROVE  /\ mounts[m] \in Stacks
         /\ Has(m, "real")
              <=> mounts[m] \in {<<"real">>, <<"guard", "real">>, <<"real", "guard">>}
         /\ Has(m, "guard")
              <=> mounts[m] \in {<<"guard">>, <<"guard", "real">>, <<"real", "guard">>}
         /\ mounts[m] # <<>> /\ Last(mounts[m]) = "guard"
              => mounts[m] \in {<<"guard">>, <<"real", "guard">>}
         /\ mounts[m] # <<>> /\ Last(mounts[m]) = "real"
              => mounts[m] \in {<<"real">>, <<"guard", "real">>}
  <1>1. mounts[m] \in Stacks
    OBVIOUS
  <1> QED
    BY <1>1, StackFacts DEF Has

\* A guard is bound over what holds no guard yet.
BindsOverNone ==
  \A m \in Mountpoints : gStep[m] = "bind" => mounts[m] \in {<<>>, <<"real">>}

\* What the restore knows of a mountpoint that nobody else changed since it looked:
\* the topmost mount is the guard it bound.
RestoreKnows ==
  \A m \in Mountpoints \ late["restore"] :
    gStep[m] = "remount" => mounts[m] \in {<<"guard">>, <<"real", "guard">>}

\* What the clean-up knows.
CleanupKnows ==
  \A m \in Mountpoints \ late["cleanup"] :
    /\ m \in unflag => mounts[m] = <<>>
    /\ cStep = "unmount" /\ m \in toClean => Visible(m)
    /\ cStep = "remove" => ~Known(m)

\* The flags it has come by.
FlagsAccounted ==
  /\ cStep # "flags" => unflag = {}
  /\ cStep = "flags" => flagged \subseteq toClean \cup raced \cup unread \/ pending \/ misread
  /\ cStep \in {"unmount", "remove"} => flagged \subseteq raced \cup unread \/ pending \/ misread
  /\ cStep = "remove" => ~pending

MountInv ==
  /\ MountTypeOK /\ BindsOverNone /\ RestoreKnows /\ CleanupKnows /\ FlagsAccounted
  /\ BlocksAreFindable

-----------------------------------------------------------------------------
\* The steps that leave what is mounted alone, and those that may change it.
Still ==
  \/ CleanStart \/ ReadMounts \/ VerifyGone \/ RemoveGuardDir
  \/ \E m \in Mountpoints : GuardProbe(m) \/ GuardCheck(m) \/ ProbeFlag(m) \/ ClearFlag(m)
  \/ UNCHANGED mountVars

Moving(m) ==
  \/ TryMount(m) \/ GuardBind(m) \/ GuardRemount(m) \/ UnmountGuard(m)
  \/ StorageMounts(m) \/ StorageUnmounts(m)

LEMMA MountSteps ==
  [MountNext]_mountVars <=> Still \/ Reboot \/ \E m \in Mountpoints : Moving(m)
  BY DEF MountNext, GuardApply, CleanupGuards, Still, Moving

\* A step that looks at what is mounted changes nothing of it.
LEMMA StillEffect ==
  ASSUME MountTypeOK, Still
  PROVE  /\ UNCHANGED tableVars
         /\ late' \in [{"restore", "cleanup"} -> SUBSET Mountpoints]
         /\ late'["restore"] = late["restore"]
  <1> USE DEF MountTypeOK, diskVars, cleanupVars, Look
  <1>1. UNCHANGED tableVars
    <2>1. CASE CleanStart \/ ReadMounts \/ VerifyGone \/ RemoveGuardDir \/ UNCHANGED mountVars
      BY <2>1 DEF CleanStart, ReadMounts, VerifyGone, RemoveGuardDir, mountVars
    <2>2. CASE \E m \in Mountpoints : GuardProbe(m) \/ GuardCheck(m) \/ ProbeFlag(m)
                                        \/ ClearFlag(m)
      BY <2>2 DEF GuardProbe, GuardCheck, ProbeFlag, ClearFlag
    <2> QED
      BY <2>1, <2>2 DEF Still
  <1>2. late' = late \/ \E seen \in SUBSET Mountpoints :
                            late' = [late EXCEPT !["cleanup"] = @ \ seen]
    <2>1. CASE CleanStart \/ UNCHANGED mountVars
      BY <2>1 DEF CleanStart, mountVars
    <2>2. CASE ReadMounts \/ VerifyGone \/ RemoveGuardDir
      <3>1. Look("cleanup", Mountpoints)
        BY <2>2 DEF ReadMounts, VerifyGone, RemoveGuardDir, CleanGoto
      <3>2. Mountpoints \in SUBSET Mountpoints
        OBVIOUS
      <3> QED
        BY <3>1, <3>2
    <2>3. CASE \E m \in Mountpoints : GuardProbe(m) \/ GuardCheck(m) \/ ProbeFlag(m)
                                        \/ ClearFlag(m)
      <3>1. PICK m \in Mountpoints : GuardProbe(m) \/ GuardCheck(m) \/ ProbeFlag(m)
                                       \/ ClearFlag(m)
        BY <2>3
      <3>2. {m} \in SUBSET Mountpoints
        OBVIOUS
      <3> QED
        BY <3>1, <3>2 DEF GuardProbe, GuardCheck, ProbeFlag, ClearFlag
    <2> QED
      BY <2>1, <2>2, <2>3 DEF Still
  <1> QED
    BY <1>1, <1>2

\* What can become of what is mounted on m.
Same(m)  == mounts'[m] = mounts[m]
Grows(m) ==
  /\ mounts'[m] \in {<<"real">>, <<"guard", "real">>}
  /\ mounts'[m] = <<"guard", "real">> => mounts[m] = <<"guard">>
Binds(m) ==
  /\ \/ mounts[m] = <<>> /\ mounts'[m] = <<"guard">>
     \/ mounts[m] = <<"real">> /\ mounts'[m] = <<"real", "guard">>
  /\ guardDir
Shrinks(m) ==
  /\ mounts'[m] \in {<<>>, <<"real">>, <<"guard">>}
  /\ mounts'[m] = <<"real">> => mounts[m] = <<"real", "guard">>
  /\ mounts'[m] = <<"guard">> => mounts[m] = <<"guard", "real">>
  /\ mounts'[m] = <<>> => mounts[m] \in {<<"real">>, <<"guard">>}

\* Who changes what is mounted, and how.
LEMMA MovingEffect ==
  ASSUME MountTypeOK, BindsOverNone, NEW m \in Mountpoints
  PROVE  /\ TryMount(m) => Touches("restore", m) /\ (Same(m) \/ Grows(m))
         /\ GuardBind(m) => Touches("restore", m) /\ (Same(m) \/ Binds(m))
         /\ GuardRemount(m) => Touches("restore", m) /\ (Same(m) \/ Shrinks(m))
         /\ UnmountGuard(m) => Touches("cleanup", m) /\ (Same(m) \/ Shrinks(m))
         /\ StorageMounts(m) => Touches("storage", m) /\ Grows(m)
         /\ StorageUnmounts(m) => Touches("storage", m) /\ Shrinks(m)
  <1>1. ASSUME NEW by, UNCHANGED <<tableVars, late>> \/ (UNCHANGED tableVars /\ Look(by, {m}))
        PROVE  Touches(by, m) /\ Same(m)
    <2>1. /\ UNCHANGED tableVars /\ mounts \in [Mountpoints -> Stacks]
          /\ reused \subseteq {q \in Mountpoints : Len(mounts[q]) = 2}
          /\ late \in [{"restore", "cleanup"} -> SUBSET Mountpoints]
      BY <1>1 DEF MountTypeOK, Stacks
    <2>2. /\ late' \in [{"restore", "cleanup"} -> SUBSET Mountpoints]
          /\ \A who \in {"restore", "cleanup"} :
               /\ \A q \in Mountpoints \ {m} : q \in late'[who] <=> q \in late[who]
               /\ who # by => late'[who] = late[who]
      BY <1>1, <2>1 DEF Look
    <2> QED
      BY <2>1, <2>2 DEF Touches, Same, tableVars
  <1>2. ASSUME TryMount(m)
        PROVE  Touches("restore", m) /\ (Same(m) \/ Grows(m))
    BY <1>1, <1>2, PushRealEffect DEF TryMount, Grows
  <1>3. ASSUME GuardBind(m)
        PROVE  Touches("restore", m) /\ (Same(m) \/ Binds(m))
    <2>1. /\ gStep[m] = "bind"
          /\ \/ guardDir /\ Push("restore", m, "guard")
             \/ UNCHANGED <<tableVars, late>>
      BY <1>3 DEF GuardBind
    <2>2. mounts[m] \in {<<>>, <<"real">>}
      BY <2>1 DEF BindsOverNone
    <2>3. ASSUME guardDir, Push("restore", m, "guard")
          PROVE  Touches("restore", m) /\ Binds(m)
      <3>1. /\ Touches("restore", m)
            /\ mounts[m] = <<>> => mounts'[m] = <<"guard">>
            /\ mounts[m] = <<"real">> => mounts'[m] = <<"real", "guard">>
        BY <2>2, <2>3, PushGuardEffect
      <3> QED
        BY <2>2, <2>3, <3>1 DEF Binds
    <2> QED
      BY <1>1, <1>3, <2>1, <2>3
  <1>4. ASSUME GuardRemount(m)
        PROVE  Touches("restore", m) /\ (Same(m) \/ Shrinks(m))
    BY <1>1, <1>4, PopEffect DEF Shrinks, GuardRemount
  <1>5. ASSUME UnmountGuard(m)
        PROVE  Touches("cleanup", m) /\ (Same(m) \/ Shrinks(m))
    BY <1>1, <1>5, PopEffect DEF Shrinks, UnmountGuard
  <1>6. ASSUME StorageMounts(m)
        PROVE  Touches("storage", m) /\ Grows(m)
    BY <1>6, PushRealEffect DEF StorageMounts, Grows
  <1>7. ASSUME StorageUnmounts(m)
        PROVE  Touches("storage", m) /\ Shrinks(m)
    <2>1. mounts[m] # <<>> /\ Pop("storage", m)
      BY <1>7 DEF StorageUnmounts, Top
    <2> QED
      BY <2>1, PopEffect DEF Shrinks
  <1> QED
    BY <1>2, <1>3, <1>4, <1>5, <1>6, <1>7

LEMMA SomebodyMoves ==
  ASSUME MountTypeOK, BindsOverNone, NEW m \in Mountpoints, Moving(m)
  PROVE  \E by \in {"restore", "cleanup", "storage"} :
           Touches(by, m) /\ (Same(m) \/ Grows(m) \/ Binds(m) \/ Shrinks(m))
  BY MovingEffect DEF Moving


LEMMA MountTypeStep ==
  ASSUME MountTypeOK, BindsOverNone, FlagsAccounted, [MountNext]_mountVars
  PROVE  MountTypeOK'
  <1> USE DEF MountTypeOK, diskVars, tableVars, lossVars, cleanupVars, GuardGoto, Stacks
  <1>1. CASE Still
    <2>1. /\ UNCHANGED tableVars
          /\ late' \in [{"restore", "cleanup"} -> SUBSET Mountpoints]
      BY <1>1, StillEffect
    <2>2. /\ flagged' \subseteq Mountpoints /\ index' \subseteq Mountpoints
          /\ guardDir' \in BOOLEAN
          /\ gStep' \in [Mountpoints -> {"idle", "mount", "check", "bind", "remount"}]
          /\ cStep' \in {"idle", "flags", "read", "unmount", "verify", "remove"}
          /\ toClean' \subseteq Mountpoints /\ unflag' \subseteq toClean'
          /\ pending' \in BOOLEAN /\ misread' \in BOOLEAN
          /\ raced' \subseteq Mountpoints /\ unread' \subseteq Mountpoints
      <3>1. CASE \E m \in Mountpoints : GuardProbe(m) \/ GuardCheck(m)
        <4>1. PICK m \in Mountpoints : GuardProbe(m) \/ GuardCheck(m)
          BY <3>1
        <4>2. /\ UNCHANGED <<flagged, index, cStep, toClean, unflag, pending, misread>>
              /\ UNCHANGED <<raced, unread>> /\ guardDir' \in {guardDir, TRUE}
          BY <4>1 DEF GuardProbe, GuardCheck
        <4>3. \E s \in {"idle", "mount", "bind"} : gStep' = [gStep EXCEPT ![m] = s]
          BY <4>1 DEF GuardProbe, GuardCheck
        <4> QED
          BY <4>2, <4>3
      <3>2. CASE CleanStart
        <4>1. UNCHANGED <<diskVars, gStep, unflag, pending, late, lossVars>>
              /\ cStep' = "flags" /\ misread' \in BOOLEAN
          BY <3>2 DEF CleanStart
        <4>2. cStep # "flags"
          BY <3>2 DEF CleanStart
        <4>3. toClean' \subseteq Mountpoints /\ unflag = {}
          BY <3>2, <4>2 DEF CleanStart, FlagsAccounted
        <4> QED
          BY <4>1, <4>3
      <3>3. CASE \E m \in Mountpoints : ProbeFlag(m)
        BY <3>3 DEF ProbeFlag
      <3>4. CASE \E m \in Mountpoints : ClearFlag(m)
        BY <3>4 DEF ClearFlag
      <3>5. CASE ReadMounts
        BY <3>5 DEF ReadMounts, CleanGoto
      <3>6. CASE VerifyGone
        BY <3>6 DEF VerifyGone, CleanGoto
      <3>7. CASE RemoveGuardDir
        BY <3>7 DEF RemoveGuardDir, CleanGoto
      <3>8. CASE UNCHANGED mountVars
        BY <3>8 DEF mountVars
      <3> QED
        BY <1>1, <3>1, <3>2, <3>3, <3>4, <3>5, <3>6, <3>7, <3>8 DEF Still
    <2> QED
      BY <2>1, <2>2
  <1>2. CASE Reboot
    BY <1>2 DEF Reboot
  <1>3. CASE \E m \in Mountpoints : Moving(m)
    <2>1. PICK m \in Mountpoints : Moving(m)
      BY <1>3
    <2>2. /\ mounts' \in [Mountpoints -> Stacks]
          /\ reused' \subseteq {q \in Mountpoints : Len(mounts'[q]) = 2}
          /\ plainRoot' = plainRoot
          /\ late' \in [{"restore", "cleanup"} -> SUBSET Mountpoints]
      BY <2>1, SomebodyMoves DEF Touches
    <2>3. UNCHANGED <<flagged, index, guardDir, cStep, unflag, pending, misread, lossVars>>
      BY <2>1 DEF Moving, TryMount, GuardBind, GuardRemount, UnmountGuard, StorageMounts,
             StorageUnmounts
    <2>4. gStep' \in [Mountpoints -> {"idle", "mount", "check", "bind", "remount"}]
      BY <2>1 DEF Moving, TryMount, GuardBind, GuardRemount, UnmountGuard, StorageMounts,
             StorageUnmounts
    <2>5. toClean' \subseteq Mountpoints /\ unflag' \subseteq toClean'
      BY <2>1 DEF Moving, TryMount, GuardBind, GuardRemount, UnmountGuard, StorageMounts,
             StorageUnmounts, FlagsAccounted
    <2> QED
      BY <2>2, <2>3, <2>4, <2>5
  <1> QED
    BY <1>1, <1>2, <1>3, MountSteps

LEMMA GotoEffect ==
  ASSUME MountTypeOK, NEW m \in Mountpoints, NEW to, GuardGoto(m, to)
  PROVE  gStep'[m] = to /\ \A q \in Mountpoints \ {m} : gStep'[q] = gStep[q]
  <1>1. gStep \in [Mountpoints -> {"idle", "mount", "check", "bind", "remount"}]
    BY DEF MountTypeOK
  <1> QED
    BY <1>1 DEF GuardGoto

\* What the restore knows stays true: it binds where it saw no guard, and what
\* others do after that is remembered in late.
LEMMA RestoreKnowsStep ==
  ASSUME MountInv, [MountNext]_mountVars
  PROVE  BindsOverNone' /\ RestoreKnows'
  <1> USE DEF MountInv, BindsOverNone, RestoreKnows
  <1>0. /\ mounts \in [Mountpoints -> Stacks]
        /\ gStep \in [Mountpoints -> {"idle", "mount", "check", "bind", "remount"}]
        /\ late \in [{"restore", "cleanup"} -> SUBSET Mountpoints]
    BY DEF MountTypeOK, Stacks
  <1>1. CASE Still
    <2>1. mounts' = mounts /\ late'["restore"] = late["restore"]
      BY <1>1, StillEffect DEF tableVars
    <2>2. CASE \E m \in Mountpoints : GuardCheck(m)
      <3>1. PICK m \in Mountpoints : GuardCheck(m)
        BY <2>2
      <3>2. /\ gStep'[m] = "idle" \/ (gStep'[m] = "bind" /\ mounts[m] = <<>>)
            /\ \A q \in Mountpoints \ {m} : gStep'[q] = gStep[q]
        <4>1. GuardGoto(m, "idle") \/ (mounts[m] = <<>> /\ GuardGoto(m, "bind"))
          BY <3>1 DEF GuardCheck
        <4> QED
          BY <4>1, GotoEffect
      <3> QED
        BY <2>1, <3>2
    <2>3. CASE \E m \in Mountpoints : GuardProbe(m)
      <3>1. PICK m \in Mountpoints : GuardProbe(m)
        BY <2>3
      <3>2. gStep'[m] = "mount" /\ \A q \in Mountpoints \ {m} : gStep'[q] = gStep[q]
        BY <3>1, GotoEffect DEF GuardProbe
      <3> QED
        BY <2>1, <3>2
    <2>4. CASE \/ CleanStart \/ ReadMounts \/ VerifyGone \/ RemoveGuardDir
               \/ \E m \in Mountpoints : ProbeFlag(m) \/ ClearFlag(m)
               \/ UNCHANGED mountVars
      <3>1. gStep' = gStep
        BY <2>4 DEF CleanStart, ReadMounts, VerifyGone, RemoveGuardDir,
               ProbeFlag, ClearFlag, mountVars
      <3> QED
        BY <2>1, <3>1
    <2> QED
      BY <1>1, <2>2, <2>3, <2>4 DEF Still
  <1>2. CASE Reboot
    BY <1>2 DEF Reboot
  <1>3. CASE \E m \in Mountpoints : Moving(m)
    <2>1. PICK m \in Mountpoints : Moving(m)
      BY <1>3
    <2>2. \A q \in Mountpoints \ {m} :
            /\ mounts'[q] = mounts[q]
            /\ q \in late'["restore"] <=> q \in late["restore"]
      BY <2>1, SomebodyMoves DEF Touches
    <2>3. \A q \in Mountpoints \ {m} : gStep'[q] = gStep[q]
      BY <2>1, GotoEffect DEF Moving, TryMount, GuardBind, GuardRemount, UnmountGuard,
             StorageMounts, StorageUnmounts
    <2>4. ASSUME gStep'[m] \in {"bind", "remount"}
          PROVE  /\ gStep'[m] = "bind" => mounts'[m] \in {<<>>, <<"real">>}
                 /\ m \notin late'["restore"] /\ gStep'[m] = "remount" =>
                      mounts'[m] \in {<<"guard">>, <<"real", "guard">>}
      <3>1. CASE TryMount(m) \/ GuardRemount(m)
        BY <2>4, <3>1, GotoEffect DEF TryMount, GuardRemount
      <3>2. CASE GuardBind(m)
        <4>1. gStep[m] = "bind" /\ gStep'[m] = "remount" /\ Push("restore", m, "guard")
          BY <2>4, <3>2, GotoEffect DEF GuardBind
        <4>2. mounts[m] \in {<<>>, <<"real">>}
          BY <4>1
        <4>4. /\ mounts[m] = <<>> => mounts'[m] = <<"guard">>
              /\ mounts[m] = <<"real">> => mounts'[m] = <<"real", "guard">>
          BY <4>1, <4>2, PushGuardEffect
        <4>3. mounts'[m] \in {<<"guard">>, <<"real", "guard">>}
          BY <4>2, <4>4
        <4> QED
          BY <4>1, <4>3
      <3>3. CASE UnmountGuard(m) \/ StorageMounts(m) \/ StorageUnmounts(m)
        <4>1. gStep' = gStep
          BY <3>3 DEF UnmountGuard, StorageMounts, StorageUnmounts
        <4>2. \E by \in {"cleanup", "storage"} : Touches(by, m) /\ (Same(m) \/ Grows(m) \/ Shrinks(m))
          BY <3>3, MovingEffect
        <4>3. gStep[m] = "bind" => mounts'[m] \in {<<>>, <<"real">>}
          BY <4>2 DEF Same, Grows, Shrinks
        <4>4. gStep[m] = "remount" => m \in late'["restore"] \/ mounts'[m] = mounts[m]
          BY <4>2 DEF Touches, AtWork
        <4>5. gStep[m] = "remount" /\ m \notin late'["restore"] => m \notin late["restore"]
          BY <4>2, <1>0 DEF Touches, AtWork
        <4> QED
          BY <4>1, <4>3, <4>4, <4>5
      <3> QED
        BY <2>1, <3>1, <3>2, <3>3 DEF Moving
    <2> QED
      BY <2>2, <2>3, <2>4
  <1> QED
    BY <1>1, <1>2, <1>3, MountSteps

\* So does what the clean-up knows.
LEMMA CleanupKnowsStep ==
  ASSUME MountInv, [MountNext]_mountVars
  PROVE  CleanupKnows'
  <1> USE DEF MountInv, CleanupKnows, Visible, Known, Top, Has
  <1>0. /\ mounts \in [Mountpoints -> Stacks]
        /\ late \in [{"restore", "cleanup"} -> SUBSET Mountpoints]
        /\ unflag \subseteq toClean /\ toClean \subseteq Mountpoints
    BY DEF MountTypeOK, Stacks
  <1>1. CASE Still
    <2>1. mounts' = mounts /\ reused' = reused /\ plainRoot' = plainRoot
      BY <1>1, StillEffect DEF tableVars
    <2>2. CASE (\E m \in Mountpoints : GuardProbe(m) \/ GuardCheck(m)) \/ UNCHANGED mountVars
      <3>1. UNCHANGED <<cStep, toClean, unflag>>
        BY <2>2 DEF GuardProbe, GuardCheck, mountVars, cleanupVars
      <3>2. late' = late
        BY <2>2 DEF GuardProbe, GuardCheck, mountVars
      <3> QED
        BY <2>1, <3>1, <3>2
    <2>3. CASE CleanStart
      <3>1. unflag = {}
        BY <2>3 DEF CleanStart, FlagsAccounted
      <3> QED
        BY <2>1, <2>3, <3>1 DEF CleanStart
    <2>4. CASE \E m \in Mountpoints : ProbeFlag(m)
      <3>1. PICK m \in Mountpoints : ProbeFlag(m)
        BY <2>4
      <3>2. /\ cStep = "flags" /\ cStep' = "flags" /\ late' = late
            /\ unflag' \subseteq unflag \cup {m}
            /\ m \in unflag' => mounts[m] = <<>>
        BY <3>1 DEF ProbeFlag
      <3> QED
        BY <2>1, <3>2
    <2>5. CASE \E m \in Mountpoints : ClearFlag(m)
      <3>1. PICK m \in Mountpoints : ClearFlag(m)
        BY <2>5
      <3>2. /\ cStep = "flags" /\ cStep' = "flags" /\ unflag' = unflag \ {m}
            /\ late'["cleanup"] = late["cleanup"] \ {m}
        BY <1>0, <3>1 DEF ClearFlag, Look
      <3> QED
        BY <2>1, <3>2
    <2>6. CASE ReadMounts
      <3>1. unflag' = {} /\ cStep' \in {"unmount", "idle", "remove"}
        BY <1>0, <2>6 DEF ReadMounts, CleanGoto
      <3>2. cStep' = "unmount" => toClean' = {m \in Mountpoints : Visible(m)}
        BY <2>6 DEF ReadMounts, CleanGoto
      <3>3. cStep' = "remove" => \A m \in Mountpoints : ~Known(m)
        BY <2>6 DEF ReadMounts, CleanGoto
      <3> QED
        BY <2>1, <3>1, <3>2, <3>3
    <2>7. CASE VerifyGone
      <3>1. /\ unflag' = {} /\ cStep' \in {"idle", "remove"}
            /\ cStep' = "remove" => \A m \in Mountpoints : ~Known(m)
        BY <2>7 DEF VerifyGone, FlagsAccounted, CleanGoto
      <3> QED
        BY <2>1, <3>1
    <2>8. CASE RemoveGuardDir
      <3>1. cStep' = "idle" /\ unflag' = {}
        BY <2>8 DEF RemoveGuardDir, FlagsAccounted, CleanGoto
      <3> QED
        BY <3>1
    <2> QED
      BY <1>1, <2>2, <2>3, <2>4, <2>5, <2>6, <2>7, <2>8 DEF Still
  <1>2. CASE Reboot
    BY <1>2 DEF Reboot
  <1>3. CASE \E m \in Mountpoints : Moving(m)
    <2>1. PICK m \in Mountpoints : Moving(m)
      BY <1>3
    <2>2. /\ plainRoot' = plainRoot
          /\ \A q \in Mountpoints \ {m} :
               /\ mounts'[q] = mounts[q] /\ (q \in reused' <=> q \in reused)
               /\ q \in late'["cleanup"] <=> q \in late["cleanup"]
      BY <2>1, SomebodyMoves DEF Touches
    <2>3. cStep' = cStep /\ unflag' = unflag /\ toClean' \subseteq toClean
      BY <2>1 DEF Moving, TryMount, GuardBind, GuardRemount, UnmountGuard,
             StorageMounts, StorageUnmounts, cleanupVars
    <2>4. ASSUME NEW q \in Mountpoints \ {m}
          PROVE  Visible(q)' = Visible(q) /\ Known(q)' = Known(q)
      BY <2>2
    <2>5. CASE UnmountGuard(m)
      <3>1. cStep = "unmount" /\ m \notin toClean' /\ unflag = {}
        BY <2>5 DEF UnmountGuard, FlagsAccounted
      <3> QED
        BY <2>2, <2>3, <2>4, <3>1
    <2>6. CASE ~UnmountGuard(m)
      <3>1. \E by \in {"restore", "storage"} : Touches(by, m)
        BY <2>1, <2>6, MovingEffect DEF Moving
      <3>2. AtWork("cleanup", m) =>
              \/ m \in late'["cleanup"]
              \/ mounts'[m] = mounts[m] /\ reused' = reused /\ m \notin late["cleanup"]
        BY <3>1 DEF Touches
      <3>3. \/ m \in unflag
            \/ cStep = "unmount" /\ m \in toClean
            \/ cStep = "remove"
            <=> AtWork("cleanup", m)
        BY DEF AtWork
      <3>4. mounts'[m] = mounts[m] /\ reused' = reused
              => Visible(m)' = Visible(m) /\ Known(m)' = Known(m)
        BY <2>2
      <3> QED
        BY <2>2, <2>3, <2>4, <3>2, <3>3, <3>4
    <2> QED
      BY <2>5, <2>6
  <1> QED
    BY <1>1, <1>2, <1>3, MountSteps

\* And the flags are accounted for.
LEMMA FlagsStep ==
  ASSUME MountInv, [MountNext]_mountVars
  PROVE  FlagsAccounted'
  <1> USE DEF MountInv, FlagsAccounted, lossVars
  <1>0. /\ mounts \in [Mountpoints -> Stacks]
        /\ unflag \subseteq toClean /\ toClean \subseteq Mountpoints
        /\ flagged \subseteq Mountpoints
    BY DEF MountTypeOK, Stacks
  <1>1. CASE Still
    <2>2. CASE (\E m \in Mountpoints : GuardProbe(m) \/ GuardCheck(m)) \/ UNCHANGED mountVars
      <3>1. UNCHANGED <<cStep, toClean, unflag, flagged, lossVars, pending, misread>>
        BY <2>2 DEF GuardProbe, GuardCheck, mountVars, cleanupVars, diskVars
      <3> QED
        BY <3>1
    <2>3. CASE CleanStart
      <3>1. flagged \subseteq index \cup raced \cup unread
        BY <1>0 DEF BlocksAreFindable
      <3>2. UNCHANGED <<flagged, raced, unread>> /\ cStep' = "flags"
        BY <2>3 DEF CleanStart, diskVars
      <3>3. misread' \/ toClean' = index
        BY <2>3 DEF CleanStart
      <3> QED
        BY <3>1, <3>2, <3>3
    <2>4. CASE \E m \in Mountpoints : ProbeFlag(m)
      BY <2>4 DEF ProbeFlag, diskVars
    <2>5. CASE \E m \in Mountpoints : ClearFlag(m)
      <3>1. PICK m \in Mountpoints : ClearFlag(m)
        BY <2>5
      <3>2. /\ cStep = "flags" /\ cStep' = "flags" /\ toClean' = toClean \ {m}
            /\ flagged' \subseteq flagged /\ raced \subseteq raced' /\ unread' = unread
            /\ pending => pending'
            /\ misread' = misread
            /\ pending' \/ m \notin flagged' \/ m \in raced'
        BY <3>1 DEF ClearFlag, CleanupKnows
      <3> QED
        BY <3>2
    <2>6. CASE ReadMounts
      <3>1. /\ cStep = "flags" /\ toClean = {} /\ unflag' = unflag
            /\ UNCHANGED <<flagged, raced, unread>>
        BY <2>6 DEF ReadMounts, diskVars
      <3>2. unflag = {} /\ (flagged \subseteq raced \cup unread \/ pending \/ misread)
        BY <1>0, <3>1
      <3>3. /\ cStep' \in {"unmount", "idle", "remove"}
            /\ cStep' = "remove" => ~pending
            /\ cStep' # "idle" => pending' = pending /\ misread' = misread
        BY <2>6 DEF ReadMounts, CleanGoto
      <3> QED
        BY <3>1, <3>2, <3>3
    <2>7. CASE VerifyGone
      <3>1. /\ cStep = "unmount" /\ unflag' = {} /\ UNCHANGED <<flagged, raced, unread>>
            /\ cStep' \in {"idle", "remove"}
            /\ cStep' = "remove" => ~pending /\ pending' = pending /\ misread' = misread
        BY <2>7 DEF VerifyGone, diskVars, CleanGoto
      <3> QED
        BY <3>1
    <2>8. CASE RemoveGuardDir
      <3>1. cStep' = "idle" /\ unflag' = {}
        BY <2>8 DEF RemoveGuardDir, CleanGoto
      <3> QED
        BY <3>1
    <2> QED
      BY <1>1, <2>2, <2>3, <2>4, <2>5, <2>6, <2>7, <2>8 DEF Still
  <1>2. CASE Reboot
    BY <1>2 DEF Reboot
  <1>3. CASE \E m \in Mountpoints : Moving(m)
    <2>1. PICK m \in Mountpoints : Moving(m)
      BY <1>3
    <2>2. /\ UNCHANGED <<cStep, unflag, flagged, raced, unread, pending, misread>>
          /\ toClean' = toClean \/ cStep = "unmount"
      BY <2>1 DEF Moving, TryMount, GuardBind, GuardRemount, UnmountGuard,
             StorageMounts, StorageUnmounts, cleanupVars
    <2> QED
      BY <2>2
  <1> QED
    BY <1>1, <1>2, <1>3, MountSteps

\* The guard directory goes only when nothing is left that it is needed for.
LEMMA FindableStep ==
  ASSUME MountInv, [MountNext]_mountVars
  PROVE  BlocksAreFindable'
  <1> USE DEF MountInv, BlocksAreFindable, lossVars
  <1>0. /\ mounts \in [Mountpoints -> Stacks] /\ flagged \subseteq Mountpoints
    BY DEF MountTypeOK, Stacks
  <1>1. CASE Still
    <2>1. mounts' = mounts /\ plainRoot' = plainRoot
      BY <1>1, StillEffect DEF tableVars
    <2>2. CASE RemoveGuardDir
      <3>1. /\ cStep = "remove" /\ flagged' = flagged
            /\ raced' = raced \cup late["cleanup"]
            /\ unread' = IF misread /\ index' = {} THEN unread \cup index ELSE unread
            /\ \/ guardDir' = FALSE /\ index' = {}
               \/ guardDir' = guardDir /\ index' \in {index, {}}
        BY <2>2 DEF RemoveGuardDir
      <3>2. flagged \subseteq raced \cup unread \/ misread
        BY <3>1 DEF FlagsAccounted
      <3>3. \A m \in Mountpoints \ raced' : plainRoot => ~Has(m, "guard")
        BY <3>1 DEF CleanupKnows, Known
      <3>4. ASSUME NEW m \in Mountpoints \ raced', m \in flagged' \ unread'
            PROVE  guardDir' /\ m \in index'
        <4>1. m \notin raced /\ m \in flagged /\ m \notin unread
          BY <3>1, <3>4
        <4>2. guardDir /\ m \in index
          BY <4>1
        <4>3. misread
          BY <3>2, <4>1
        <4>4. index' # {}
          BY <3>1, <3>4, <4>2, <4>3
        <4> QED
          BY <3>1, <4>2, <4>4
      <3> QED
        BY <2>1, <3>3, <3>4 DEF Has
    <2>3. CASE ~RemoveGuardDir
      <3>1. /\ flagged' \subseteq flagged /\ index' = index
            /\ raced \subseteq raced' /\ unread' = unread
            /\ guardDir => guardDir'
        <4>1. CASE CleanStart \/ ReadMounts \/ VerifyGone
          BY <4>1 DEF CleanStart, ReadMounts, VerifyGone, diskVars
        <4>2. CASE \E m \in Mountpoints : GuardProbe(m) \/ ProbeFlag(m)
          BY <4>2 DEF GuardProbe, ProbeFlag, diskVars
        <4>3. CASE \E m \in Mountpoints : GuardCheck(m)
          <5>1. /\ UNCHANGED <<flagged, index, raced, unread>>
                /\ guardDir' \in {guardDir, TRUE}
            BY <4>3 DEF GuardCheck
          <5>2. guardDir = TRUE => guardDir' = TRUE
            BY <5>1
          <5>3. guardDir \in BOOLEAN
            BY DEF MountTypeOK
          <5> QED
            BY <5>1, <5>2, <5>3
        <4>4. CASE \E m \in Mountpoints : ClearFlag(m)
          BY <4>4 DEF ClearFlag
        <4>5. CASE UNCHANGED mountVars
          BY <4>5 DEF mountVars, diskVars
        <4> QED
          BY <1>1, <2>3, <4>1, <4>2, <4>3, <4>4, <4>5 DEF Still
      <3> QED
        BY <2>1, <3>1 DEF Has
    <2> QED
      BY <2>2, <2>3
  <1>2. CASE Reboot
    <2>1. /\ UNCHANGED <<flagged, index, guardDir, raced, unread>>
          /\ \A m \in Mountpoints : mounts'[m] = <<>>
      BY <1>2 DEF Reboot
    <2> QED
      BY <2>1 DEF Has
  <1>3. CASE \E m \in Mountpoints : Moving(m)
    <2>1. PICK m \in Mountpoints : Moving(m)
      BY <1>3
    <2>2. UNCHANGED <<flagged, index, guardDir, raced, unread>>
      BY <2>1 DEF Moving, TryMount, GuardBind, GuardRemount, UnmountGuard,
             StorageMounts, StorageUnmounts
    <2>3. /\ \A q \in Mountpoints \ {m} : mounts'[q] = mounts[q]
          /\ mounts' \in [Mountpoints -> Stacks] /\ plainRoot' = plainRoot
          /\ Same(m) \/ Grows(m) \/ Binds(m) \/ Shrinks(m)
      BY <2>1, SomebodyMoves DEF Touches
    <2>4. Has(m, "guard")' => Has(m, "guard") \/ guardDir
      <3>1. Has(m, "guard")'
              <=> mounts'[m] \in {<<"guard">>, <<"guard", "real">>, <<"real", "guard">>}
        BY <2>3, StackFacts DEF Has
      <3>2. CASE Same(m)
        BY <3>2 DEF Same, Has
      <3>3. CASE Binds(m)
        BY <3>3 DEF Binds
      <3>4. CASE Grows(m)
        BY <1>0, <3>1, <3>4, StackOf, StacksDiffer DEF Grows
      <3>5. CASE Shrinks(m)
        BY <1>0, <3>1, <3>5, StackOf, StacksDiffer DEF Shrinks
      <3> QED
        BY <2>3, <3>2, <3>3, <3>4, <3>5
    <2> QED
      BY <2>2, <2>3, <2>4 DEF Has
  <1> QED
    BY <1>1, <1>2, <1>3, MountSteps

LEMMA MountInvAlways == MountSpec => []MountInv
  <1>1. MountInit => MountInv
    <2> SUFFICES ASSUME MountInit
                 PROVE  MountInv
      OBVIOUS
    <2> USE DEF MountInit
    <2>1. MountTypeOK
      BY MountGuardAssumption DEF MountTypeOK
    <2>2. BindsOverNone /\ RestoreKnows /\ CleanupKnows /\ FlagsAccounted
      BY DEF BindsOverNone, RestoreKnows, CleanupKnows, FlagsAccounted
    <2>3. BlocksAreFindable
      <3>1. /\ flagged # {} => guardDir
            /\ index = flagged /\ \A m \in Mountpoints : mounts[m] = <<>>
        OBVIOUS
      <3> QED
        BY <3>1 DEF BlocksAreFindable, Has
    <2> QED
      BY <2>1, <2>2, <2>3 DEF MountInv
  <1>2. MountInv /\ [MountNext]_mountVars => MountInv'
    BY MountTypeStep, RestoreKnowsStep, CleanupKnowsStep, FlagsStep, FindableStep
       DEF MountInv
  <1> QED
    BY <1>1, <1>2, PTL DEF MountSpec

\* Every state of the mounts is well formed: a mountpoint never carries two guards,
\* or the storage twice, however the commands and the storage overlap.
THEOREM MountTypeCorrect == MountSpec => []MountTypeOK
  BY MountInvAlways, PTL DEF MountInv

\* For every set of mountpoints: a guard that the mount table shows under the path of
\* the guard directory, and an immutable flag whose index was not removed without
\* being read, can be found by a later clean-up, unless the mounts of the mountpoint
\* changed between the look and the act of an earlier one.
THEOREM BlocksStayFindable == MountSpec => []BlocksAreFindable
  BY MountInvAlways, PTL DEF MountInv

\* Neither command unmounts storage, unless it was mounted after the command looked
\* or, for the clean-up, over a guard with a smaller, reused mount ID.
THEOREM StorageIsSpared == MountSpec => SparesStorage
  <1> DEFINE Spares(m) ==
        Has(m, "real") /\ ~Has(m, "real")' =>
          \/ StorageUnmounts(m) \/ Reboot
          \/ GuardRemount(m) /\ m \in late["restore"]
          \/ UnmountGuard(m) /\ m \in late["cleanup"] \cup reused
  <1>1. MountInv /\ [MountNext]_mountVars => [\A m \in Mountpoints : Spares(m)]_mountVars
    <2> SUFFICES ASSUME MountInv, [MountNext]_mountVars, NEW m \in Mountpoints,
                        Has(m, "real"), ~Has(m, "real")', ~Reboot
                 PROVE  \/ StorageUnmounts(m)
                        \/ GuardRemount(m) /\ m \in late["restore"]
                        \/ UnmountGuard(m) /\ m \in late["cleanup"] \cup reused
      OBVIOUS
    <2> USE DEF MountInv
    <2>1. /\ mounts \in [Mountpoints -> Stacks]
          /\ mounts[m] \in {<<"real">>, <<"guard", "real">>, <<"real", "guard">>}
      BY StackOf DEF MountTypeOK, Stacks
    <2>2. ~Still
      BY StillEffect DEF Has, tableVars
    <2>3. PICK q \in Mountpoints : Moving(q)
      BY <2>2, MountSteps
    <2>4. q = m
      BY <2>3, SomebodyMoves DEF Touches, Has
    <2>5. mounts' \in [Mountpoints -> Stacks]
      BY <2>3, SomebodyMoves DEF Touches
    <2>6. mounts'[m] \notin {<<"real">>, <<"guard", "real">>, <<"real", "guard">>}
      BY <2>5, StackFacts DEF Has
    <2>7. ~Same(m) /\ ~Grows(m) /\ ~Binds(m)
      BY <2>1, <2>6, StacksDiffer DEF Same, Grows, Binds
    <2>8. Shrinks(m) => mounts[m] \in {<<"real">>, <<"guard", "real">>}
      BY <2>1, <2>6 DEF Shrinks
    <2>9. Shrinks(m)
      BY <2>3, <2>4, <2>7, SomebodyMoves
    <2>10. CASE GuardRemount(m)
      <3>1. mounts[m] \notin {<<"guard">>, <<"real", "guard">>}
        BY <2>8, <2>9, StacksDiffer
      <3>2. gStep[m] = "remount"
        BY <2>10 DEF GuardRemount
      <3> QED
        BY <2>10, <3>1, <3>2 DEF RestoreKnows
    <2>11. CASE UnmountGuard(m)
      <3>1. cStep = "unmount" /\ m \in toClean
        BY <2>11 DEF UnmountGuard
      <3>2. ASSUME m \notin late["cleanup"], m \notin reused
            PROVE  FALSE
        <4>1. Has(m, "guard") /\ Top(m) = "guard"
          BY <3>1, <3>2 DEF CleanupKnows, Visible, Known
        <4>2. mounts[m] \in {<<"guard">>, <<"real", "guard">>}
          BY <2>1, <4>1, StackOf DEF Top
        <4> QED
          BY <2>8, <2>9, <4>2, StacksDiffer
      <3> QED
        BY <2>11, <3>2
    <2> QED
      BY <2>3, <2>4, <2>7, <2>9, <2>10, <2>11, MovingEffect DEF Moving
  <1> QED
    BY <1>1, MountInvAlways, PTL DEF MountSpec, SparesStorage

-----------------------------------------------------------------------------
(* The run of MCRestore.                                                    *)

\* Every behaviour of the run is one of each part of the restore: what is proved
\* of a part holds of the run.
THEOREM RestorePackIsEachPart ==
  MCSpec => ApplySpec /\ RestoreSpec /\ AccountsSpec /\ MountSpec
  <1>1. PackInit => ApplyInit /\ RestoreInit /\ AccountsInit /\ MountInit
    BY DEF PackInit
  <1>2. [PackNext]_<<subject, applyVars, restoreVars, accountVars, mountVars>> =>
          /\ [ApplyNext]_applyVars /\ [RestoreNext]_restoreVars
          /\ [AccountsNext]_accountVars /\ [MountNext]_mountVars
    BY DEF PackNext, ApplyStep, RunStep, AccountsStep, MountStep
  <1> QED
    BY <1>1, <1>2, PTL DEF MCSpec, ApplySpec, RestoreSpec, AccountsSpec, MountSpec

\* Every variable of the run keeps to its type.
THEOREM RestorePackTypeCorrect == MCSpec => []RestorePartsTypeOK
  BY RestorePackIsEachPart, ApplyTypeCorrect, RestoreTypeCorrect, AccountsTypeCorrect,
     MountTypeCorrect, PTL DEF RestorePartsTypeOK
=============================================================================
