----------------------------- MODULE RestoreRun -----------------------------
(***************************************************************************)
(* A selective restore from its confirmation to its end: the services it   *)
(* stops and starts again, the extraction, the staged configuration and    *)
(* its apply (restore_workflow_ui_*.go, restore_services.go,               *)
(* network_staged_install.go of internal/orchestrator).  What an apply     *)
(* under a rollback timer does is ConfirmedApply's; here it is one step.   *)
(*                                                                         *)
(* Each step begins and ends, and the operator can cancel in between: the  *)
(* context is cancelled, which some steps report and others only warn of.  *)
(***************************************************************************)
EXTENDS Naturals, Sequences, FiniteSets

CONSTANTS
  PVEServices,  (* the services, in the order they are stopped and started *)
  PBSServices   (* the services, in the order they are started, which is   *)
                (* the reverse of the order they are stopped               *)

ServicesOf(g) == IF g = "pve" THEN PVEServices ELSE PBSServices
AllOf(g) == {ServicesOf(g)[i] : i \in 1 .. Len(ServicesOf(g))}

ASSUME RestoreRunAssumption ==
  /\ PVEServices \in Seq(STRING) /\ PBSServices \in Seq(STRING)
  /\ AllOf("pve") \cap AllOf("pbs") = {}

\* The steps after the services are stopped, in their order.
Payload == <<"normal", "fstab", "export", "safe", "stage">>
Staged  == <<"guards", "pbs", "pve", "sdn", "access", "accounts", "notify">>
Post    == <<"verify", "install", "recreate", "dns", "network", "firewall", "ha">>
Steps   == Payload \o Staged \o Post
In(s, q) == \E i \in 1 .. Len(q) : q[i] = s

VARIABLES
  needs,       (* the groups whose services the plan has to stop           *)
  staging,     (* the plan has staged categories                           *)
  phase,       (* "plan", "pve", "pbs", "steps", "cleanup", "end"          *)
  at,          (* index of the service or step                             *)
  busy,        (* the step has begun                                       *)
  up,          (* the services that run                                    *)
  cleanups,    (* groups whose restart is registered                       *)
  stage,       (* the staging directory: "none", "partial", "complete"     *)
  net,         (* network files: "old", "unvalidated", "kept"              *)
  cancelled,   (* the context of the run is cancelled                      *)
  result,      (* "running", "ok", "aborted", "failed", "inconsistent"     *)
  accounts,    (* the account files: "old", "new", "mixed"                 *)
  fromPartial, (* history: a step used an incomplete staging directory     *)
  unstopped,   (* groups of which a stop failed                            *)
  downed,      (* history: the services whose stop succeeded               *)
  unstarted,   (* history: groups of which a start failed at the end       *)
  unrolled     (* history: the rollback of the network files failed        *)

restorePlan  == <<needs, staging>>
restorePlace == <<phase, at, busy, result>>
restoreHosts == <<up, cleanups, unstopped, downed, unstarted>>
restoreData  == <<stage, net, accounts, fromPartial, unrolled>>
restoreVars  == <<restorePlan, restorePlace, restoreHosts, restoreData, cancelled>>

RestoreTypeOK ==
  /\ needs \subseteq {"pve", "pbs"} /\ staging \in BOOLEAN
  /\ phase \in {"plan", "pve", "pbs", "steps", "cleanup", "end"}
  /\ at \in Nat \ {0} /\ (phase = "steps" => at <= Len(Steps) + 1)
  /\ busy \in BOOLEAN /\ (busy => phase = "steps" /\ at <= Len(Steps))
  /\ up \subseteq AllOf("pve") \cup AllOf("pbs")
  /\ downed \subseteq AllOf("pve") \cup AllOf("pbs")
  /\ cleanups \subseteq needs /\ unstopped \subseteq needs /\ unstarted \subseteq needs
  /\ stage \in {"none", "partial", "complete"}
  /\ net \in {"old", "unvalidated", "kept"}
  /\ cancelled \in BOOLEAN /\ unrolled \in BOOLEAN
  /\ result \in {"running", "ok", "aborted", "failed", "inconsistent"}
  /\ accounts \in {"old", "new", "mixed"} /\ fromPartial \in BOOLEAN

RestoreInit ==
  /\ needs \in SUBSET {"pve", "pbs"} /\ staging \in BOOLEAN
  /\ phase = "plan" /\ at = 1 /\ busy = FALSE /\ result = "running"
  /\ up = AllOf("pve") \cup AllOf("pbs")
  /\ cleanups = {} /\ unstopped = {} /\ downed = {} /\ unstarted = {}
  /\ stage = "none" /\ net = "old" /\ cancelled = FALSE
  /\ accounts = "old" /\ fromPartial = FALSE /\ unrolled = FALSE

Enter(p) == phase' = p /\ at' = 1 /\ busy' = FALSE /\ UNCHANGED result

\* Returning runs the deferred restarts that were registered.
Return(r) == phase' = "cleanup" /\ at' = 1 /\ busy' = FALSE /\ result' = r

Advance == at' = at + 1 /\ busy' = FALSE /\ UNCHANGED <<phase, result>>

-----------------------------------------------------------------------------
(* Before anything is restored                                             *)

\* The plan is confirmed, and a missing safety backup accepted, or not.
Plan ==
  /\ phase = "plan"
  /\ \/ ~cancelled /\ Enter("pve")
     \/ Return("aborted")
  /\ UNCHANGED <<restorePlan, restoreHosts, restoreData, cancelled>>

\* The stop of a service of group g.  One that fails, is cancelled or takes too
\* long may all the same have stopped it.
Stops(g, s) ==
  \/ ~cancelled /\ up' = up \ {s} /\ downed' = downed \cup {s} /\ UNCHANGED unstopped
  \/ up' \in {up, up \ {s}} /\ unstopped' = unstopped \cup {g} /\ UNCHANGED downed

\* The first service that does not stop ends the restore: nothing is registered
\* for those that did.
StopPVE ==
  /\ phase = "pve"
  /\ IF "pve" \notin needs
     THEN Enter("pbs") /\ UNCHANGED restoreHosts
     ELSE IF at > Len(PVEServices)
     THEN /\ cleanups' = cleanups \cup {"pve"}
          /\ Enter("pbs")
          /\ UNCHANGED <<up, unstopped, downed, unstarted>>
     ELSE /\ Stops("pve", PVEServices[at])
          /\ IF "pve" \in unstopped' THEN Return("failed") ELSE Advance
          /\ UNCHANGED <<cleanups, unstarted>>
  /\ UNCHANGED <<restorePlan, restoreData, cancelled>>

\* Variant: declining returns without the restarts registered so far.
StopPBS_NoCleanups ==
  /\ phase = "pbs"
  /\ IF "pbs" \notin needs
     THEN Enter("steps") /\ UNCHANGED restoreHosts
     ELSE IF at > Len(PBSServices)
     THEN \/ /\ "pbs" \notin unstopped
             /\ cleanups' = cleanups \cup {"pbs"}
             /\ Enter("steps")
             /\ UNCHANGED <<up, unstopped, downed, unstarted>>
          \/ /\ "pbs" \in unstopped
             /\ \/ ~cancelled /\ Enter("steps")
                \/ phase' = "end" /\ result' = "aborted" /\ UNCHANGED <<at, busy>>
             /\ UNCHANGED restoreHosts
     ELSE /\ Stops("pbs", PBSServices[Len(PBSServices) + 1 - at])
          /\ Advance
          /\ UNCHANGED <<cleanups, unstarted>>
  /\ UNCHANGED <<restorePlan, restoreData, cancelled>>

\* All are tried; if one did not stop, the operator may go on with what runs, and
\* then nothing is registered for those that stopped.
StopPBS ==
  /\ phase = "pbs"
  /\ IF "pbs" \notin needs
     THEN Enter("steps") /\ UNCHANGED restoreHosts
     ELSE IF at > Len(PBSServices)
     THEN \/ /\ "pbs" \notin unstopped
             /\ cleanups' = cleanups \cup {"pbs"}
             /\ Enter("steps")
             /\ UNCHANGED <<up, unstopped, downed, unstarted>>
          \/ /\ "pbs" \in unstopped
             /\ \/ ~cancelled /\ Enter("steps")
                \/ Return("aborted")
             /\ UNCHANGED restoreHosts
     ELSE /\ Stops("pbs", PBSServices[Len(PBSServices) + 1 - at])
          /\ Advance
          /\ UNCHANGED <<cleanups, unstarted>>
  /\ UNCHANGED <<restorePlan, restoreData, cancelled>>

-----------------------------------------------------------------------------
(* The steps                                                               *)

\* The extractions and every staged apply look at the context before they begin.
\* (The mount guards look at it for each datastore.)
ChecksContext(s) == s \in {"normal", "fstab", "export", "stage"} \/ In(s, Tail(Staged))

\* Without staged categories there is no staging directory and nothing of it to
\* apply, and the staged applies need the extraction to have succeeded; all others
\* look only at whether there is a directory.
Skipped(s) ==
  \/ s = "stage" /\ ~staging
  \/ In(s, Staged) /\ stage # "complete"
  \/ s \in {"install", "network", "firewall", "ha"} /\ stage = "none"

UsesStage(s) == In(s, Staged) \/ s \in {"install", "network", "firewall", "ha"}

\* The category a step is for may also not be in the plan.
Begin ==
  /\ phase = "steps" /\ ~busy /\ at <= Len(Steps)
  /\ IF Skipped(Steps[at])
     THEN Advance /\ UNCHANGED restoreData
     ELSE \/ /\ ChecksContext(Steps[at]) /\ cancelled
             /\ Return("aborted")
             /\ UNCHANGED restoreData
          \/ /\ ~(ChecksContext(Steps[at]) /\ cancelled)
             /\ busy' = TRUE
             /\ fromPartial' = (fromPartial \/ (UsesStage(Steps[at]) /\ stage = "partial"))
             /\ UNCHANGED <<phase, at, result, stage, net, accounts, unrolled>>
          \/ /\ Steps[at] # "stage" /\ ~(cancelled /\ In(Steps[at], Tail(Staged)))
             /\ Advance
             /\ UNCHANGED restoreData
  /\ UNCHANGED <<restorePlan, restoreHosts, cancelled>>

\* The last check, after the staged applies, is the one before "verify".
LeavesStaged(s) == s = "notify" /\ cancelled

\* An apply by way of the PBS services starts them first.
StartsPBS(s) ==
  IF s \in {"pbs", "notify"}
  THEN up' \in {up \cup S : S \in SUBSET AllOf("pbs")}
  ELSE UNCHANGED up

\* What a step does that can be warned of and is none of the steps below.
Finish ==
  /\ phase = "steps" /\ busy /\ Steps[at] \notin {"normal", "stage", "install", "accounts"}
  /\ StartsPBS(Steps[at])
  /\ \/ ~LeavesStaged(Steps[at]) /\ Advance
     \/ /\ cancelled \/ Steps[at] \in {"fstab", "safe", "access", "network", "firewall", "ha"}
        /\ Steps[at] \notin {"verify", "recreate"}
        /\ Return("aborted")
     \/ Steps[at] = "export" /\ Return("failed")
  /\ UNCHANGED <<restorePlan, cleanups, unstopped, downed, unstarted, restoreData, cancelled>>

\* The account files are replaced together or put back, but for a rollback that
\* fails as well; what was written in part halts the restore.
FinishAccounts ==
  /\ phase = "steps" /\ busy /\ Steps[at] = "accounts"
  /\ \/ accounts' \in {"old", "new"} /\ (Advance \/ (cancelled /\ Return("aborted")))
     \/ accounts' = "mixed" /\ Return("inconsistent")
  /\ UNCHANGED <<restorePlan, restoreHosts, stage, net, fromPartial, unrolled, cancelled>>

\* Extraction to the system is not undone, and its error is the restore's.
FinishNormal ==
  /\ phase = "steps" /\ busy /\ Steps[at] = "normal"
  /\ \/ ~cancelled /\ Advance
     \/ Return("failed")
  /\ UNCHANGED <<restorePlan, restoreHosts, restoreData, cancelled>>

\* The path is set before anything is extracted to it, and stays.
FinishStage ==
  /\ phase = "steps" /\ busy /\ Steps[at] = "stage"
  /\ \/ stage' = "complete" /\ Advance
     \/ stage' = "partial" /\ Advance
     \/ stage' = "partial" /\ cancelled /\ Return("aborted")
     \/ stage' = "partial" /\ Return("failed")
  /\ UNCHANGED <<restorePlan, restoreHosts, net, accounts, fromPartial, unrolled, cancelled>>

\* The files are written, then validated; what does not validate is put back by a
\* script that runs in the same context.  Without a validator they are kept.
WriteNetwork ==
  /\ phase = "steps" /\ busy /\ Steps[at] = "install" /\ net = "old"
  /\ \/ net' = "unvalidated" /\ UNCHANGED restorePlace
     \/ UNCHANGED net /\ Advance
  /\ UNCHANGED <<restorePlan, restoreHosts, stage, accounts, fromPartial, unrolled, cancelled>>

ValidateNetwork ==
  /\ phase = "steps" /\ busy /\ Steps[at] = "install" /\ net = "unvalidated"
  /\ \/ ~cancelled /\ net' = "kept" /\ Advance /\ UNCHANGED unrolled
     \/ ~cancelled /\ net' = "old" /\ Advance /\ UNCHANGED unrolled
     \/ ~cancelled /\ unrolled' = TRUE /\ Advance /\ UNCHANGED net
     \/ cancelled /\ net' = "kept" /\ Advance /\ UNCHANGED unrolled
     \/ cancelled /\ Return("aborted") /\ UNCHANGED <<net, unrolled>>
  /\ UNCHANGED <<restorePlan, restoreHosts, stage, accounts, fromPartial, cancelled>>

Complete ==
  /\ phase = "steps" /\ at > Len(Steps)
  /\ Return("ok")
  /\ UNCHANGED <<restorePlan, restoreHosts, restoreData, cancelled>>

\* Signal or closed prompt.
Cancel ==
  /\ ~cancelled /\ phase \notin {"cleanup", "end"}
  /\ cancelled' = TRUE
  /\ UNCHANGED <<restorePlan, restorePlace, restoreHosts, restoreData>>

-----------------------------------------------------------------------------
(* The deferred restarts, the last registered first                        *)

Restarting == IF "pbs" \in cleanups THEN "pbs" ELSE "pve"

\* In a context of its own.  PVE stops at the first service that does not start.
Restart ==
  /\ phase = "cleanup" /\ cleanups # {} /\ at <= Len(ServicesOf(Restarting))
  /\ \/ /\ up' = up \cup {ServicesOf(Restarting)[at]}
        /\ at' = at + 1
        /\ UNCHANGED <<unstarted, cleanups>>
     \/ /\ unstarted' = unstarted \cup {Restarting}
        /\ IF Restarting = "pve"
           THEN cleanups' = cleanups \ {"pve"} /\ at' = 1
           ELSE at' = at + 1 /\ UNCHANGED cleanups
        /\ UNCHANGED up
  /\ UNCHANGED <<restorePlan, phase, busy, result, unstopped, downed, restoreData, cancelled>>

Restarted ==
  /\ phase = "cleanup" /\ cleanups # {} /\ at > Len(ServicesOf(Restarting))
  /\ cleanups' = cleanups \ {Restarting}
  /\ at' = 1
  /\ UNCHANGED <<restorePlan, phase, busy, result, up, unstopped, downed, unstarted,
                 restoreData, cancelled>>

Leave ==
  /\ phase = "cleanup" /\ cleanups = {}
  /\ phase' = "end"
  /\ UNCHANGED <<restorePlan, at, busy, result, restoreHosts, restoreData, cancelled>>

RestoreNext ==
  \/ Plan \/ StopPVE \/ StopPBS
  \/ Begin \/ Finish \/ FinishAccounts \/ FinishNormal \/ FinishStage
  \/ WriteNetwork \/ ValidateNetwork \/ Complete \/ Cancel
  \/ Restart \/ Restarted \/ Leave

RestoreSpec == RestoreInit /\ [][RestoreNext]_restoreVars

-----------------------------------------------------------------------------
(* Properties *)

\* Once all services of a group are stopped they run again at the end of the
\* restore, unless one cannot be started, whether it is aborted, cancelled at any
\* moment or failed at any step, in the other group's stops too: the restarts hang
\* on defer and on a list of clean-ups (prepareRestoreServices).  A group of which
\* a stop failed or was cancelled has no clean-up; see StoppedRunAgain.
ServicesRestored ==
  phase = "end" =>
    \A g \in {"pve", "pbs"} : g \in unstopped \/ g \in unstarted \/ AllOf(g) \subseteq up

\* docs/RESTORE_GUIDE.md, "Deferred Service Restart": "Go defer pattern ensures
\* services restart even if restore fails" and prevents "System left with services
\* stopped after failed restore".
StoppedRunAgain ==
  phase = "end" =>
    \A g \in {"pve", "pbs"} : g \in unstarted \/ downed \cap AllOf(g) \subseteq up

\* restore_workflow_ui_extract.go: "a staged extraction with any failed entry must
\* NOT be applied to the live system".
PartialStageNeverApplied == ~fromPartial
=============================================================================
