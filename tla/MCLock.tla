-------------------------------- MODULE MCLock --------------------------------
(***************************************************************************)
(* The backup lock and the restart guard in one run.  The subject of a       *)
(* behaviour is chosen at the start: "faults", three runs on two hosts, as   *)
(* the constants say; "serial", on one host without faults, where checks do  *)
(* not overlap; or "restart", the guard with a supervised run p1 and a       *)
(* standalone one p2 on one host.                                            *)
(***************************************************************************)
EXTENDS RestartGuard

CONSTANTS p1, p2, p3

VARIABLE subject

MCProcs == {p1, p2, p3}

\* p1 and p3 may follow one another under the same pid.
MCPidOf == [p \in MCProcs |-> IF p = p2 THEN 2 ELSE 1]

MCSupervised == {p1}

OneHost == [p \in Procs |-> "hostA"]
TwoHosts == [p \in MCProcs |-> IF p = p2 THEN "hostB" ELSE "hostA"]

Serial  == INSTANCE BackupLock WITH HostOf <- OneHost, IOFaults <- FALSE
Restart == INSTANCE RestartGuard WITH HostOf <- OneHost

LockInit ==
  /\ subject \in {"faults", "serial", "restart"} /\ GuardInit
  /\ subject = "restart" => lock = NoLock \/ lock.by # p3

FaultsStep == subject = "faults" /\ Next /\ UNCHANGED <<subject, gvars>>
SerialStep ==
  subject = "serial" /\ Serial!Next /\ Serial!OneChecker' /\ UNCHANGED <<subject, gvars>>
RestartStep ==
  subject = "restart" /\ Restart!GuardNext /\ pc'[p3] = pc[p3] /\ UNCHANGED subject

MCSpec ==
  LockInit /\ [][FaultsStep \/ SerialStep \/ RestartStep]_<<subject, vars, gvars>>

\* MutualExclusion, of runs whose checks do not overlap.
SerialRunsExclude == subject = "serial" => MutualExclusion

\* LeftoverNeverBlocks, of the same.
SerialNeverBlocked == [][subject = "serial" => Serial!BlockedByTheLiving]_vars
=============================================================================
