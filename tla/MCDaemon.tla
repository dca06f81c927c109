------------------------------- MODULE MCDaemon -------------------------------
(***************************************************************************)
(* The daemon's protocols in one run: the handoff, with disruptions and     *)
(* undisturbed ("lone"), the supervised run, the status file, the relay     *)
(* secret and the switch between daemon and cron.  They share no state, so   *)
(* a behaviour is one of a single subject, chosen at the start, and the      *)
(* others stay as they are.                                                  *)
(***************************************************************************)
EXTENDS ManualHandoff, SupervisedRun, StatusFile, RelaySecret,
        SchedulerSwitch

CONSTANTS s1, s2, email, gotify

VARIABLE subject

MCRuns     == {s1, s2}
MCChannels == {email, gotify}

\* What a child may hand over: of one channel, of the other, of both, of none.
MCOutcomes ==
  {[c \in MCChannels |-> "off"], [c \in MCChannels |-> "ok"],
   [c \in MCChannels |-> IF c = email THEN "error" ELSE "off"],
   [c \in MCChannels |-> IF c = email THEN "off" ELSE "error"]}

\* Every life of the daemon has a pid of its own.
FreshPids == [b \in 0 .. MaxBoots |-> b]

Lone == INSTANCE ManualHandoff WITH MaxBoots <- 1, Disruptions <- FALSE

DaemonInit ==
  /\ subject \in {"handoff", "lone", "supervise", "status", "relay",
                 "scheduler"}
  /\ HandoffInit /\ SuperviseInit /\ StatusInit /\ RelayInit
  /\ SchedulerInit
  /\ subject # "supervise" => backupEnabled
  /\ subject # "scheduler" => mode = "cron" /\ optOut

\* The state of the modules that are not the subject stays as it is.
HandoffStep ==
  /\ \/ subject = "handoff" /\ HandoffNext
     \/ subject = "lone" /\ Lone!HandoffNext /\ Lone!OneHandoff'
  /\ UNCHANGED <<subject, superviseVars, statusVars, relayVars, schedulerVars>>

SuperviseStep ==
  /\ subject = "supervise" /\ SuperviseNext
  /\ UNCHANGED <<subject, handoffVars, statusVars, relayVars, schedulerVars>>

StatusStep ==
  /\ subject = "status" /\ StatusNext
  /\ UNCHANGED <<subject, handoffVars, superviseVars, relayVars, schedulerVars>>

\* A host whose handshake overlapped is exempt from what is asked of it here, and
\* not followed any further; relay_removal does.
RelayStep ==
  /\ subject = "relay" /\ ~overlapped /\ RelayNext
  /\ UNCHANGED <<subject, handoffVars, superviseVars, statusVars, schedulerVars>>

SchedulerStep ==
  /\ subject = "scheduler" /\ SchedulerNext
  /\ UNCHANGED <<subject, handoffVars, superviseVars, statusVars, relayVars>>

DaemonNext ==
  HandoffStep \/ SuperviseStep \/ StatusStep \/ RelayStep \/ SchedulerStep

daemonState ==
  <<subject, handoffVars, superviseVars, statusVars, relayVars, schedulerVars>>

\* Each module's own fairness, while it is the subject.
DaemonFairness ==
  /\ WF_handoffVars(subject = "lone" /\ Lone!Startup)
  /\ WF_handoffVars(subject = "lone" /\ Lone!Waker)
  /\ \A s \in Runs :
       WF_handoffVars(subject = "lone" /\ Lone!Handoff(s) /\ Lone!OneHandoff')
  /\ WF_superviseVars(subject = "supervise" /\ Supervise)
  /\ WF_superviseVars(subject = "supervise" /\ Expire)
  /\ WF_superviseVars(subject = "supervise" /\ Killed)
  /\ \A p \in Loops \cup Setups : WF_relayVars(subject = "relay" /\ Provisions(p))
  /\ WF_relayVars(subject = "relay" /\ FloorPasses)

MCSpec == DaemonInit /\ [][DaemonNext]_daemonState /\ DaemonFairness

\* Every variable keeps to its type.
DaemonTypeOK ==
  HandoffTypeOK /\ SuperviseTypeOK /\ StatusTypeOK /\ RelayTypeOK /\ SchedulerTypeOK

\* LoneHandoffIsPinged, of the behaviours it is about.
UndisturbedIsPinged == subject = "lone" => LoneHandoffIsPinged

\* UrlsGetResolved, of the behaviours it is about.
SecretHeals == <>[](subject = "relay" => AllResolved)
=============================================================================
