---------------------------- MODULE RestartGuard ----------------------------
(***************************************************************************)
(* The restart of the resident daemon beside the backup lock:              *)
(* restartAndVerifyDaemon and waitForBackupIdle                            *)
(* (cmd/proxsave/daemon_restart_verify.go), which probe the lock with      *)
(* BackupInProgress (internal/checks/backup_probe.go) and never touch it.  *)
(* The upgrade, the install and the dashboard's restart button run it; the *)
(* switch back to cron waits the same way before it removes the unit.      *)
(*                                                                         *)
(* The runs of Supervised are children of the daemon: systemctl stops      *)
(* them with it.  The probe is a stat, a read and a signal 0 with runs of  *)
(* BackupLock stepping between them.                                       *)
(***************************************************************************)
EXTENDS BackupLock

CONSTANTS
  GuardHost,   (* the host the daemon and the restart run on               *)
  Supervised   (* the runs that are children of the daemon                 *)

ASSUME RestartGuardAssumption ==
  /\ Supervised \subseteq Procs
  /\ \A p \in Supervised : HostOf[p] = GuardHost

VARIABLES
  guard,       (* the next step of the restart                             *)
  probe,       (* what its current probe learnt                            *)
  deadline,    (* the wait's budget is spent: the current probe is final   *)
  watched      (* history: holders since before the current probe's stat   *)

gvars == <<guard, probe, deadline, watched>>

GuardInit ==
  /\ Init
  /\ guard = "stat"
  /\ probe = Unseen
  /\ deadline = FALSE
  /\ watched = {}

\* Runs of this host that hold the lock now.
HoldersHere == {p \in Procs : Holder(p) /\ HostOf[p] = GuardHost}

\* A lock that cannot be examined is taken for a backup in progress.
ProbeStat ==
  /\ guard = "stat"
  /\ \/ lock = NoLock /\ guard' = "restart" /\ probe' = Unseen
     \/ lock # NoLock /\ guard' = "read" /\ probe' = AgeOnly(lock.aged)
     \/ IOFaults /\ guard' = "busy" /\ UNCHANGED probe
  /\ watched' = HoldersHere
  /\ UNCHANGED <<deadline, vars>>

\* An unreadable or vanished file leaves the owner unknown: only its age counts.
ProbeRead ==
  /\ guard = "read"
  /\ \/ /\ HasMetadata
        /\ probe' = [probe EXCEPT !.owner = lock.by, !.st = lock.st]
     \/ /\ ~HasMetadata \/ IOFaults
        /\ UNCHANGED probe
  /\ guard' = "judge"
  /\ UNCHANGED <<deadline, watched, vars>>

ProbeJudge ==
  /\ guard = "judge"
  /\ \/ StaleOn(GuardHost, probe) /\ guard' = "restart"
     \/ TakenOn(GuardHost, probe, NoProc) /\ guard' = "busy"
  /\ UNCHANGED <<probe, deadline, watched, vars>>

WaitTick_Forced ==
  /\ guard = "busy"
  /\ IF deadline
     THEN guard' = "restart" /\ UNCHANGED deadline
     ELSE guard' = "stat" /\ deadline' \in BOOLEAN
  /\ UNCHANGED <<probe, watched, vars>>

\* The next tick of the poll, or the final check when the budget is spent; a
\* backup still in progress then defers the restart.
WaitTick ==
  /\ guard = "busy"
  /\ IF deadline
     THEN guard' = "deferred" /\ UNCHANGED deadline
     ELSE guard' = "stat" /\ deadline' \in BOOLEAN
  /\ UNCHANGED <<probe, watched, vars>>

\* systemctl restart stops the daemon and the children it supervises.
RestartDaemon ==
  /\ guard = "restart"
  /\ pc' = [p \in Procs |-> IF p \in Supervised /\ Alive(p) THEN "gone" ELSE pc[p]]
  /\ guard' = "verify"
  /\ UNCHANGED <<lock, dry, seen, reaped, probe, deadline, watched>>

\* Every step of a run, which may also end its watch.
RunStep ==
  /\ Next
  /\ watched' = {p \in watched : Holder(p)'}
  /\ UNCHANGED <<guard, probe, deadline>>

GuardNext ==
  \/ RunStep
  \/ ProbeStat \/ ProbeRead \/ ProbeJudge \/ WaitTick \/ RestartDaemon

GuardSpec == GuardInit /\ [][GuardNext]_<<vars, gvars>>

-----------------------------------------------------------------------------
(* Properties *)

\* A run of this host that held the lock all the while the deciding probe
\* looked is never killed by the restart ("deferring the restart, never killing
\* the backup"), unless another run reaped its lock, or its lock outlived
\* MaxLockAge and could not be read or its pid probed.  A run that acquires the
\* lock after the probe may be killed: nothing holds the lock for the restart.
RestartSparesWatched ==
  [][RestartDaemon => \/ watched \subseteq reaped
                      \/ IOFaults /\ probe.aged]_<<vars, gvars>>
=============================================================================
