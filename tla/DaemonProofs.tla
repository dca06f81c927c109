---------------------------- MODULE DaemonProofs ----------------------------
(***************************************************************************)
(* Proofs about the daemon's protocols: the handoff of outcomes, for any   *)
(* number of runs and of daemon lives; the supervised run, for any number  *)
(* of runs and channels; the switch between the daemon and cron, for any   *)
(* sequence of commands; the status file, for any number of loops; the     *)
(* relay secret, for any number of loops and setup commands; and the run    *)
(* of MCDaemon, in which each of them is at work.                           *)
(*                                                                         *)
(* Of the two files that several actors update by load, change and replace *)
(* under a lock, the status file and the relay secret, the invariants say  *)
(* that only the holder of the lock is between load and replace, and that  *)
(* what it loaded is still what is on file; of the relay secret, this holds *)
(* until a handshake, which does without the lock, overlaps another party. *)
(***************************************************************************)
EXTENDS MCDaemon, TLAPS

-----------------------------------------------------------------------------
(* The handoff.  Where the lives have pids of their own (DistinctPids), a  *)
(* signal reaches only the life whose pidfile its sender read.             *)

DistinctPids ==
  \A a, b \in 0 .. MaxBoots : PidOf[a] = PidOf[b] => a = b

\* What the pidfile, and whoever read it, can name.
PidInv ==
  /\ pidfile <= boot
  /\ phase \in {"boot", "armed"} => pidfile < boot
  /\ phase \in {"unpublished", "disarmed"} => pidfile = 0
  /\ phase # "down" => boot > 0
  /\ \A s \in Runs : target[s] <= boot
  /\ phase \in {"boot", "armed"} => \A s \in Runs : target[s] < boot

\* A run that has not written its outcome is nowhere to be found.
Unwritten(s) == pings[s] = 0 /\ outcome # s /\ loaded # s

\* No signal that could have the waker load the file is on its way.
Quiet ==
  /\ ~usr1 /\ waker = "idle"
  /\ \A r \in Runs : rpc[r] = "kill" => target[r] # boot

PingInv ==
  /\ \A s \in Runs : rpc[s] \in {"backup", "probe", "write"} => Unwritten(s) /\ tmp # s
  /\ \A s \in Runs : tmp = s => rpc[s] = "rename" /\ Unwritten(s)
  /\ waker = "ping" => loaded \in Runs /\ pings[loaded] <= kept[loaded]
  /\ waker = "remove" => loaded \in Runs
  /\ \A s \in Runs : pings[s] > kept[s] /\ outcome = s =>
       \/ phase = "down"
       \/ waker = "remove" /\ loaded = s
       \/ Quiet
  /\ \A s \in Runs : pings[s] <= 1 + kept[s]

-----------------------------------------------------------------------------

LEMMA HandoffTypeInit == HandoffInit => HandoffTypeOK
<1> SUFFICES ASSUME HandoffInit PROVE HandoffTypeOK
  OBVIOUS
<1> USE ManualHandoffAssumption DEF HandoffInit
<1>1. FlagsOK
  BY Zenon DEF FlagsOK
<1> QED
  BY <1>1 DEF HandoffTypeOK, Phases, Armed

LEMMA FlagsStep == FlagsOK /\ [HandoffNext]_handoffVars => FlagsOK'
<1> SUFFICES ASSUME FlagsOK, [HandoffNext]_handoffVars PROVE FlagsOK'
  OBVIOUS
<1> USE DEF FlagsOK, outcomeVars, senderVars, daemonVars
<1>1. CASE Startup
  BY <1>1, Zenon DEF Startup, Boot, InstallHandler, PublishPid, StartLoops
<1>2. CASE Shutdown
  BY <1>2, Zenon DEF Shutdown, CancelContext, JoinLoops, RemovePid, StopNotify, End
<1>3. CASE Waker
  BY <1>3, Zenon DEF Waker, Wake, LoadOutcome, PingOutcome, RemoveOutcome
<1>4. CASE AgeOutcome
  BY <1>4, Zenon DEF AgeOutcome
<1>5. ASSUME NEW s \in Runs, Handoff(s) PROVE FlagsOK'
  BY <1>5, Zenon DEF Handoff, ReadPid, ProbeDaemon, WriteTmp, RenameTmp, RemoveTmp, Kill
<1>6. CASE UNCHANGED handoffVars
  BY <1>6, Zenon DEF handoffVars
<1> QED
  BY <1>1, <1>2, <1>3, <1>4, <1>5, <1>6 DEF HandoffNext

LEMMA HandoffTypeStep == HandoffTypeOK /\ [HandoffNext]_handoffVars => HandoffTypeOK'
<1> SUFFICES ASSUME HandoffTypeOK, [HandoffNext]_handoffVars PROVE HandoffTypeOK'
  OBVIOUS
<1>0. FlagsOK'
  BY FlagsStep DEF HandoffTypeOK
<1> USE <1>0, ManualHandoffAssumption DEF HandoffTypeOK, outcomeVars, senderVars, Phases, Armed
<1>1. CASE Boot
  BY <1>1 DEF Boot
<1>2. CASE InstallHandler \/ PublishPid \/ StartLoops
  BY <1>2 DEF InstallHandler, PublishPid, StartLoops
<1>3. CASE Shutdown
  BY <1>3 DEF Shutdown, CancelContext, JoinLoops, RemovePid, StopNotify, End
<1>4. CASE Wake \/ LoadOutcome
  BY <1>4 DEF Wake, LoadOutcome
<1>13. CASE RemoveOutcome
  <2>1. kept' \in [Runs -> Nat]
    BY <1>13 DEF RemoveOutcome
  <2> QED
    BY <1>13, <2>1 DEF RemoveOutcome
<1>5. CASE PingOutcome
  <2>1. \/ pings' = pings
        \/ pings' = [pings EXCEPT ![loaded] = @ + 1]
    BY <1>5 DEF PingOutcome
  <2>2. pings' \in [Runs -> Nat]
    BY <2>1
  <2> QED
    BY <1>5, <2>2 DEF PingOutcome
<1>6. CASE AgeOutcome
  BY <1>6 DEF AgeOutcome, daemonVars
<1>7. ASSUME NEW s \in Runs, ReadPid(s) PROVE HandoffTypeOK'
  BY <1>7 DEF ReadPid, daemonVars
<1>8. ASSUME NEW s \in Runs, ProbeDaemon(s) PROVE HandoffTypeOK'
  BY <1>8 DEF ProbeDaemon, daemonVars
<1>9. ASSUME NEW s \in Runs, WriteTmp(s) \/ RemoveTmp(s) PROVE HandoffTypeOK'
  BY <1>9 DEF WriteTmp, RemoveTmp, daemonVars
<1>10. ASSUME NEW s \in Runs, RenameTmp(s) PROVE HandoffTypeOK'
  BY <1>10 DEF RenameTmp, daemonVars
<1>11. ASSUME NEW s \in Runs, Kill(s) PROVE HandoffTypeOK'
  BY <1>11 DEF Kill
<1>12. CASE UNCHANGED handoffVars
  BY <1>12 DEF handoffVars, daemonVars
<1> QED
  BY <1>1, <1>2, <1>3, <1>4, <1>5, <1>6, <1>7, <1>8, <1>9, <1>10, <1>11, <1>12, <1>13
     DEF HandoffNext, Startup, Waker, Handoff

\* Every variable keeps to its type.
THEOREM HandoffTypeCorrect == HandoffSpec => []HandoffTypeOK
<1> QED
  BY HandoffTypeInit, HandoffTypeStep, PTL DEF HandoffSpec

-----------------------------------------------------------------------------

LEMMA PidInit == HandoffInit => PidInv
  BY DEF HandoffInit, PidInv

LEMMA PidStep == HandoffTypeOK /\ PidInv /\ [HandoffNext]_handoffVars => PidInv'
<1> SUFFICES ASSUME HandoffTypeOK, PidInv, [HandoffNext]_handoffVars PROVE PidInv'
  OBVIOUS
<1> USE ManualHandoffAssumption DEF HandoffTypeOK, PidInv, outcomeVars, senderVars
<1>1. CASE Boot
  BY <1>1 DEF Boot
<1>2. CASE InstallHandler \/ PublishPid \/ StartLoops
  BY <1>2 DEF InstallHandler, PublishPid, StartLoops
<1>3. CASE Shutdown
  <2>1. CASE RemovePid
    <3>1. boot > 0
      BY <2>1 DEF RemovePid
    <3> QED
      BY <2>1, <3>1 DEF RemovePid
  <2> QED
    BY <1>3, <2>1 DEF Shutdown, CancelContext, JoinLoops, StopNotify, End
<1>4. CASE Waker
  BY <1>4 DEF Waker, Wake, LoadOutcome, PingOutcome, RemoveOutcome
<1>5. CASE AgeOutcome
  BY <1>5 DEF AgeOutcome, daemonVars
<1>6. ASSUME NEW s \in Runs, ReadPid(s) PROVE PidInv'
  BY <1>6 DEF ReadPid, daemonVars
<1>7. ASSUME NEW s \in Runs,
             ProbeDaemon(s) \/ WriteTmp(s) \/ RenameTmp(s) \/ RemoveTmp(s)
      PROVE  PidInv'
  BY <1>7 DEF ProbeDaemon, WriteTmp, RenameTmp, RemoveTmp, daemonVars
<1>8. ASSUME NEW s \in Runs, Kill(s) PROVE PidInv'
  BY <1>8 DEF Kill
<1>9. CASE UNCHANGED handoffVars
  BY <1>9 DEF handoffVars, daemonVars
<1> QED
  BY <1>1, <1>2, <1>3, <1>4, <1>5, <1>6, <1>7, <1>8, <1>9
     DEF HandoffNext, Startup, Handoff

LEMMA PidInvariant == HandoffSpec => [](HandoffTypeOK /\ PidInv)
<1> QED
  BY HandoffTypeInit, HandoffTypeStep, PidInit, PidStep, PTL DEF HandoffSpec

\* At the boot the handler is installed before the pid can be found, and at the
\* exit it outlives the pidfile.
THEOREM PublishedCatches == HandoffSpec => []PublishedIsCatching
<1>1. HandoffTypeOK /\ PidInv => PublishedIsCatching
  BY ManualHandoffAssumption
     DEF HandoffTypeOK, PidInv, PublishedIsCatching, Running, Phases
<1> QED
  BY <1>1, PidInvariant, PTL

\* A signal reaches the live daemon only from a run that read the live pid.
LEMMA AliveIsCurrent ==
  ASSUME HandoffTypeOK, PidInv, DistinctPids, NEW s \in Runs, TargetAlive(s)
  PROVE  target[s] = boot
  BY DEF HandoffTypeOK, TargetAlive, DistinctPids

-----------------------------------------------------------------------------

LEMMA PingInit == HandoffInit => PingInv
  BY ManualHandoffAssumption DEF HandoffInit, PingInv, Unwritten

\* The daemon's own steps.
LEMMA PingStepDaemon ==
  ASSUME HandoffTypeOK, PidInv, PingInv, Startup \/ Shutdown \/ Waker
  PROVE  PingInv'
<1> USE ManualHandoffAssumption DEF HandoffTypeOK, PingInv, Unwritten, outcomeVars, senderVars
<1>1. CASE Boot
  <2>1. \A r \in Runs : target'[r] # boot'
    BY <1>1 DEF Boot, PidInv
  <2>2. Quiet'
    BY <1>1, <2>1, Zenon DEF Boot, Quiet
  <2> QED
    BY <1>1, <2>2 DEF Boot
<1>2. CASE InstallHandler \/ PublishPid \/ StartLoops
  <2>1. Quiet => Quiet'
    BY <1>2, Zenon DEF InstallHandler, PublishPid, StartLoops, Quiet
  <2> QED
    BY <1>2, <2>1 DEF InstallHandler, PublishPid, StartLoops
<1>3. CASE Shutdown
  <2>1. Quiet => Quiet'
    BY <1>3, Zenon DEF Shutdown, CancelContext, JoinLoops, RemovePid, StopNotify, End, Quiet
  <2> QED
    BY <1>3, <2>1 DEF Shutdown, CancelContext, JoinLoops, RemovePid, StopNotify, End
<1>4. CASE Wake
  <2>1. ~Quiet
    BY <1>4, Zenon DEF Wake, Quiet
  <2> QED
    BY <1>4, <2>1 DEF Wake
<1>5. CASE LoadOutcome
  <2>1. ~Quiet
    BY <1>5 DEF LoadOutcome, Quiet
  <2>2. \A s \in Runs : outcome = s => pings[s] <= kept[s]
    BY <1>5, <2>1 DEF LoadOutcome
  <2>3. waker' \in {"ping", "remove"} => outcome \in Runs
    BY <1>5 DEF LoadOutcome
  <2> QED
    BY <1>5, <2>2, <2>3 DEF LoadOutcome
<1>6. CASE PingOutcome
  <2>1. ~Quiet
    BY <1>6 DEF PingOutcome, Quiet
  <2>2. \A s \in Runs : outcome = s => pings[s] <= kept[s]
    BY <1>6, <2>1 DEF PingOutcome
  <2>3. \A s \in Runs : pings'[s] = pings[s] \/ (s = loaded /\ pings'[s] = pings[s] + 1)
    BY <1>6 DEF PingOutcome
  <2> QED
    BY <1>6, <2>2, <2>3 DEF PingOutcome
<1>7. CASE RemoveOutcome
  <2>1. ~Quiet
    BY <1>7 DEF RemoveOutcome, Quiet
  <2>2. \A s \in Runs : pings[s] > kept[s] /\ outcome = s => loaded = s
    BY <1>7, <2>1 DEF RemoveOutcome
  <2>3. \A s \in Runs : kept'[s] >= kept[s]
    BY <1>7 DEF RemoveOutcome
  <2>4. \A s \in Runs : outcome' = s => pings[s] <= kept'[s]
    \* What a failed removal leaves in the file was counted, or not pinged.
    BY <1>7, <2>2 DEF RemoveOutcome
  <2> QED
    BY <1>7, <2>3, <2>4 DEF RemoveOutcome
<1> QED
  BY <1>1, <1>2, <1>3, <1>4, <1>5, <1>6, <1>7 DEF Startup, Waker

\* The steps of a standalone run.
LEMMA PingStepRun ==
  ASSUME HandoffTypeOK, PidInv, PingInv, DistinctPids, NEW s \in Runs, Handoff(s)
  PROVE  PingInv'
<1> USE ManualHandoffAssumption DEF HandoffTypeOK, PingInv, Unwritten, daemonVars, outcomeVars,
        senderVars
<1>1. CASE ReadPid(s) \/ ProbeDaemon(s) \/ WriteTmp(s) \/ RemoveTmp(s)
  <2>1. Quiet => Quiet'
    BY <1>1 DEF ReadPid, ProbeDaemon, WriteTmp, RemoveTmp, Quiet
  <2>2. CASE ReadPid(s) \/ ProbeDaemon(s)
    BY <2>1, <2>2 DEF ReadPid, ProbeDaemon
  <2>3. CASE WriteTmp(s) \/ RemoveTmp(s)
    BY <2>1, <2>3 DEF WriteTmp, RemoveTmp
  <2> QED
    BY <1>1, <2>2, <2>3
<1>2. CASE RenameTmp(s)
  <2>1. CASE tmp = NoRun
    <3>1. Quiet => Quiet'
      BY <1>2, <2>1 DEF RenameTmp, Quiet
    <3> QED
      BY <1>2, <2>1, <3>1 DEF RenameTmp
  <2>2. CASE tmp # NoRun
    \* The outcome the file holds from now on has never been pinged.
    BY <1>2, <2>2 DEF RenameTmp
  <2> QED
    BY <2>1, <2>2
<1>3. CASE Kill(s)
  <2>1. CASE TargetAlive(s)
    <3>1. rpc[s] = "kill" /\ target[s] = boot
      BY <1>3, <2>1, AliveIsCurrent DEF Kill
    <3>2. ~Quiet
      BY <3>1 DEF Quiet
    <3> QED
      BY <1>3, <3>2 DEF Kill
  <2>2. CASE ~TargetAlive(s)
    <3>1. Quiet => Quiet'
      BY <1>3, <2>2 DEF Kill, Quiet
    <3> QED
      BY <1>3, <2>2, <3>1 DEF Kill
  <2> QED
    BY <2>1, <2>2
<1> QED
  BY <1>1, <1>2, <1>3 DEF Handoff

LEMMA PingStep ==
  ASSUME DistinctPids
  PROVE  HandoffTypeOK /\ PidInv /\ PingInv /\ [HandoffNext]_handoffVars => PingInv'
<1> SUFFICES ASSUME HandoffTypeOK, PidInv, PingInv, [HandoffNext]_handoffVars PROVE PingInv'
  OBVIOUS
<1>1. CASE AgeOutcome
  <2>1. Quiet => Quiet'
    BY <1>1, Zenon DEF AgeOutcome, Quiet, daemonVars, senderVars
  <2> QED
    BY <1>1, <2>1 DEF AgeOutcome, PingInv, Unwritten, daemonVars, senderVars
<1>2. CASE UNCHANGED handoffVars
  <2>1. Quiet => Quiet'
    BY <1>2, Zenon DEF handoffVars, Quiet, daemonVars, senderVars
  <2> QED
    BY <1>2, <2>1 DEF handoffVars, PingInv, Unwritten, daemonVars, outcomeVars,
        senderVars
<1> QED
  BY <1>1, <1>2, PingStepDaemon, PingStepRun DEF HandoffNext

\* The monitor gets each outcome at most once, and once more for each failed
\* removal of it, whatever signals merge or overtake each other, wherever the
\* daemon crashes and however often it is started again, as long as no two of
\* its lives share a pid.
THEOREM OutcomePingedAtMostOnce ==
  ASSUME DistinctPids
  PROVE  HandoffSpec => []PingedAtMostOnce
<1>1. PingInv => PingedAtMostOnce
  BY DEF PingInv, PingedAtMostOnce
<1> QED
  BY <1>1, PidInvariant, PingInit, PingStep, PTL DEF HandoffSpec

-----------------------------------------------------------------------------
(* The supervised run                                                      *)

SeverityMap == [Channels -> Severities]

TypeInv ==
  /\ rid \in 0 .. MaxRuns
  /\ dpc \in {"idle", "launch", "wait", "returned", "notify", "record", "stopped"}
  /\ child \in {"none", "checking", "working", "notifying", "exiting", "ended"}
  /\ rid = 0 => dpc \in {"idle", "stopped"} /\ child = "none"
  /\ code \in {0, Warned, Failed, Skipped}
  /\ results.rid \in 0 .. MaxRuns
  /\ verdict \in [RunIds -> {"none", "success", "failure", "hang"}]
  /\ sent \in [RunIds -> SeverityMap]
  /\ completed \subseteq RunIds /\ terminated \subseteq RunIds

Supervising == dpc \in {"launch", "wait", "returned"}

\* Where the run under supervision stands.
RunInv ==
  /\ child \in {"none", "ended"} \/ dpc \in {"wait", "stopped"}
  /\ dpc \in {"returned", "notify", "record"} => child = "ended"
  /\ dpc = "launch" => child = "none"
  /\ child = "ended" /\ code = 0 /\ dpc \in {"wait", "returned"} => rid \in completed

\* The runs that have a verdict are those whose supervision is over.
VerdictInv ==
  /\ \A r \in RunIds : r > rid => verdict[r] = "none" /\ r \notin terminated
  /\ Supervising => verdict[rid] = "none"
  /\ NoFalseGreen

\* The daemon signals a child only when the budget or the daemon is at an end.
SignalInv ==
  /\ Supervising /\ rid \in terminated => deadline \/ shutdown
  /\ SignalledIsHangOrSilent

\* A results file that carries a run's id carries what its child recorded, and
\* none carries the id of a run whose child has not recorded yet.
ResultsInv ==
  /\ \A r \in RunIds : results.rid = r => results.sev = sent[r]
  /\ results.rid <= rid
  /\ dpc = "launch" \/ child \in {"checking", "working", "notifying"}
       => results.rid < rid

-----------------------------------------------------------------------------
LEMMA SuperviseTypeInit == SuperviseInit => TypeInv
  BY SupervisedRunAssumption
     DEF SuperviseInit, TypeInv, RunIds, SeverityMap, Severities, NothingSent, Warned, Failed,
         Skipped

LEMMA SuperviseTypeStep == TypeInv /\ [SuperviseNext]_superviseVars => TypeInv'
<1> SUFFICES ASSUME TypeInv, [SuperviseNext]_superviseVars PROVE TypeInv'
  OBVIOUS
<1> USE SupervisedRunAssumption
    DEF TypeInv, RunIds, Warned, Failed, Skipped, superVars, childVars, superHist, SignalChild,
        ChildEnds
<1>0. rid # 0 => rid \in RunIds
  OBVIOUS
<1>1. CASE ScheduleRun
  <2>1. rid' \in 0 .. MaxRuns /\ rid' # 0
    BY <1>1 DEF ScheduleRun
  <2> QED
    BY <1>1, <2>1 DEF ScheduleRun
<1>8. CASE Launch \/ Wait \/ ReturnStopped
  BY <1>8 DEF Launch, Wait, ReturnStopped
<1>7. CASE ReturnSkipped \/ LoadResults \/ PruneRows \/ Exit \/ Restart
  BY <1>7 DEF ReturnSkipped, LoadResults, PruneRows, Exit, Restart
<1>9. ASSUME NEW c \in Channels, RecordRow(c) PROVE TypeInv'
  BY <1>9 DEF RecordRow
<1>2. CASE ReturnHang \/ ReturnFinished
  BY <1>2 DEF ReturnHang, ReturnFinished, Report
<1>3. CASE Expire \/ Stop \/ SupervisorDies
  <2>1. terminated' \subseteq RunIds
    BY <1>0, <1>3 DEF Expire, Stop, SupervisorDies
  <2> QED
    BY <1>3, <2>1 DEF Expire, Stop, SupervisorDies
<1>4. CASE ChildSkips \/ ChildWorks \/ ChildNotifies \/ ChildExits \/ ChildDies
  <2>1. completed' \subseteq RunIds
    BY <1>0, <1>4 DEF ChildSkips, ChildWorks, ChildNotifies, ChildExits, ChildDies
  <2> QED
    BY <1>4, <2>1 DEF ChildSkips, ChildWorks, ChildNotifies, ChildExits, ChildDies
<1>5. CASE ChildRecords
  <2>1. PICK sev \in SeverityMap :
          \/ /\ sent' = [sent EXCEPT ![rid] = sev]
             /\ results' = [rid |-> rid, sev |-> sev]
          \/ results' = results /\ sent' = sent
    BY <1>5 DEF ChildRecords, SeverityMap
  <2> QED
    BY <1>5, <2>1 DEF ChildRecords
<1>6. CASE UNCHANGED superviseVars
  BY <1>6 DEF superviseVars
<1> QED
  BY <1>1, <1>2, <1>3, <1>4, <1>5, <1>6, <1>7, <1>8, <1>9 DEF SuperviseNext, Supervise, Child

\* Every variable the properties depend on keeps to its type.
LEMMA TypeInvariant == SuperviseSpec => []TypeInv
<1> QED
  BY SuperviseTypeInit, SuperviseTypeStep, PTL DEF SuperviseSpec

\* What TypeInv leaves out, as no property depends on it.
RestOfTypes ==
  /\ backupEnabled \in BOOLEAN /\ shutdown \in BOOLEAN /\ deadline \in BOOLEAN
  /\ results \in [rid : 0 .. MaxRuns, sev : SeverityMap]
  /\ rows \in [Channels -> {"none", "up", "down"}]
  /\ todo \subseteq Channels /\ unwritten \subseteq Channels
  /\ panelRun \in 0 .. MaxRuns

LEMMA RestOfTypesStep ==
  TypeInv /\ RestOfTypes /\ [SuperviseNext]_superviseVars => RestOfTypes'
<1> SUFFICES ASSUME TypeInv, RestOfTypes, [SuperviseNext]_superviseVars PROVE RestOfTypes'
  OBVIOUS
<1> USE SupervisedRunAssumption
    DEF RestOfTypes, superVars, panelVars, childVars, superHist, ChildEnds
<1>0. \A sev : Row(sev) \in {"none", "up", "down"}
  BY DEF Row
<1>1. CASE LoadResults
  BY <1>1 DEF LoadResults, Reported, TypeInv
<1>8. CASE PruneRows
  BY <1>8 DEF PruneRows
<1>9. ASSUME NEW c \in Channels, RecordRow(c) PROVE RestOfTypes'
  <2>1. rows' \in [Channels -> {"none", "up", "down"}]
    BY <1>0, <1>9 DEF RecordRow
  <2> QED
    BY <1>9, <2>1 DEF RecordRow
<1>2. CASE ChildRecords
  <2>1. PICK sev \in SeverityMap : results' = [rid |-> rid, sev |-> sev] \/ results' = results
    BY <1>2 DEF ChildRecords, SeverityMap
  <2>2. results' \in [rid : 0 .. MaxRuns, sev : SeverityMap]
    BY <2>1 DEF TypeInv
  <2> QED
    BY <1>2, <2>2 DEF ChildRecords
<1>3. CASE ScheduleRun \/ Launch \/ Wait \/ ReturnStopped \/ ReturnSkipped \/ Exit \/ Restart
  BY <1>3 DEF ScheduleRun, Launch, Wait, ReturnStopped, ReturnSkipped, Exit, Restart
<1>4. CASE ReturnHang \/ ReturnFinished
  BY <1>4 DEF ReturnHang, ReturnFinished, Report
<1>5. CASE Expire \/ Stop \/ SupervisorDies
  BY <1>5 DEF Expire, Stop, SupervisorDies
<1>6. CASE ChildSkips \/ ChildWorks \/ ChildNotifies \/ ChildExits \/ ChildDies
  BY <1>6 DEF ChildSkips, ChildWorks, ChildNotifies, ChildExits, ChildDies
<1>7. CASE UNCHANGED superviseVars
  BY <1>7 DEF superviseVars
<1> QED
  BY <1>1, <1>2, <1>3, <1>4, <1>5, <1>6, <1>7, <1>8, <1>9 DEF SuperviseNext, Supervise, Child

LEMMA RestInit == SuperviseInit => RestOfTypes
<1>1. NothingSent \in SeverityMap /\ 0 \in 0 .. MaxRuns
  BY SupervisedRunAssumption DEF SeverityMap, NothingSent, Severities
<1>2. [rid |-> 0, sev |-> NothingSent] \in [rid : 0 .. MaxRuns, sev : SeverityMap]
  BY <1>1
<1> QED
  BY <1>1, <1>2 DEF SuperviseInit, RestOfTypes

\* Type correctness of the supervised run: no run gets a number past the last,
\* and no child leaves a status the daemon does not know.
THEOREM SuperviseTypeCorrect == SuperviseSpec => []SuperviseTypeOK
<1>1. TypeInv /\ RestOfTypes => SuperviseTypeOK
  BY DEF TypeInv, RestOfTypes, SuperviseTypeOK, SeverityMap
<1> QED
  BY RestInit, <1>1, TypeInvariant, RestOfTypesStep, PTL DEF SuperviseSpec

-----------------------------------------------------------------------------
LEMMA RunInvInit == SuperviseInit => RunInv
  BY DEF SuperviseInit, RunInv

LEMMA RunInvStep == TypeInv /\ RunInv /\ [SuperviseNext]_superviseVars => RunInv'
<1> SUFFICES ASSUME TypeInv, RunInv, [SuperviseNext]_superviseVars PROVE RunInv'
  OBVIOUS
<1> USE SupervisedRunAssumption
    DEF TypeInv, RunInv, RunIds, Warned, Failed, Skipped, superVars, childVars, superHist,
        ChildEnds
<1>1. CASE Supervise
  BY <1>1 DEF Supervise, ScheduleRun, Launch, Wait, ReturnStopped, ReturnSkipped,
              LoadResults, RecordRow, PruneRows, Exit, Restart, ReturnHang,
              ReturnFinished, Report
<1>2. CASE Expire \/ Stop \/ SupervisorDies
  BY <1>2 DEF Expire, Stop, SupervisorDies
<1>3. CASE ChildSkips \/ ChildWorks \/ ChildNotifies \/ ChildExits \/ ChildDies
  BY <1>3 DEF ChildSkips, ChildWorks, ChildNotifies, ChildExits, ChildDies
<1>4. CASE ChildRecords
  BY <1>4 DEF ChildRecords
<1>5. CASE UNCHANGED superviseVars
  BY <1>5 DEF superviseVars
<1> QED
  BY <1>1, <1>2, <1>3, <1>4, <1>5 DEF SuperviseNext, Child

LEMMA VerdictInit == SuperviseInit => VerdictInv
  BY DEF SuperviseInit, VerdictInv, NoFalseGreen, Supervising

LEMMA VerdictStep == TypeInv /\ RunInv /\ VerdictInv /\ [SuperviseNext]_superviseVars => VerdictInv'
<1> SUFFICES ASSUME TypeInv, RunInv, VerdictInv, [SuperviseNext]_superviseVars PROVE VerdictInv'
  OBVIOUS
<1> USE SupervisedRunAssumption
    DEF TypeInv, RunInv, VerdictInv, NoFalseGreen, Supervising, RunIds,
        Warned, Failed, Skipped, superVars, childVars, superHist, ChildEnds
<1>1. CASE ScheduleRun \/ Launch \/ Wait \/ ReturnStopped \/ ReturnSkipped
           \/ LoadResults \/ PruneRows \/ Exit \/ Restart
           \/ \E c \in Channels : RecordRow(c)
  BY <1>1 DEF ScheduleRun, Launch, Wait, ReturnStopped, ReturnSkipped, LoadResults,
              PruneRows, Exit, Restart, RecordRow
<1>2. CASE ReturnHang
  BY <1>2 DEF ReturnHang, Report
<1>3. CASE ReturnFinished
  BY <1>3 DEF ReturnFinished, Report
<1>4. CASE Expire \/ Stop \/ SupervisorDies
  BY <1>4 DEF Expire, Stop, SupervisorDies, SignalChild
<1>5. CASE ChildSkips \/ ChildWorks \/ ChildNotifies \/ ChildExits \/ ChildDies
  BY <1>5 DEF ChildSkips, ChildWorks, ChildNotifies, ChildExits, ChildDies
<1>6. CASE ChildRecords
  BY <1>6 DEF ChildRecords
<1>7. CASE UNCHANGED superviseVars
  BY <1>7 DEF superviseVars
<1> QED
  BY <1>1, <1>2, <1>3, <1>4, <1>5, <1>6, <1>7 DEF SuperviseNext, Supervise, Child

LEMMA VerdictInvariant == SuperviseSpec => [](TypeInv /\ RunInv /\ VerdictInv)
<1> QED
  BY SuperviseTypeInit, SuperviseTypeStep, RunInvInit, RunInvStep, VerdictInit, VerdictStep, PTL
     DEF SuperviseSpec

\* The check goes green for a run only if its child made a backup and exited
\* with 0, over any number of runs, kills, skips, crashes and restarts.
THEOREM GreenIsABackup == SuperviseSpec => []NoFalseGreen
<1>1. VerdictInv => NoFalseGreen
  BY DEF VerdictInv
<1> QED
  BY <1>1, VerdictInvariant, PTL

\* No verdict is revised, and only the run under supervision gets one.
THEOREM VerdictsAreFinal == SuperviseSpec => VerdictIsFinal
<1>1. TypeInv /\ RunInv /\ VerdictInv /\ [SuperviseNext]_superviseVars
        => [\A r \in RunIds : verdict[r] # "none" => verdict'[r] = verdict[r]]_superviseVars
  <2> SUFFICES ASSUME TypeInv, RunInv, VerdictInv, SuperviseNext,
                      NEW r \in RunIds, verdict[r] # "none"
               PROVE  verdict'[r] = verdict[r]
    BY DEF superviseVars
  <2> USE DEF superVars, childVars, superHist, ChildEnds
  <2>1. CASE ReturnHang \/ ReturnFinished
    <3>1. r # rid
      BY <2>1 DEF ReturnHang, ReturnFinished, VerdictInv, Supervising
    <3> QED
      BY <2>1, <3>1 DEF ReturnHang, ReturnFinished, Report, TypeInv
  <2>2. CASE Expire \/ Stop \/ SupervisorDies
    BY <2>2 DEF Expire, Stop, SupervisorDies
  <2>3. CASE Child
    BY <2>3 DEF Child, ChildSkips, ChildWorks, ChildNotifies, ChildRecords,
                ChildExits, ChildDies
  <2> QED
    BY <2>1, <2>2, <2>3 DEF SuperviseNext, Supervise, ScheduleRun, Launch, Wait,
       ReturnStopped, ReturnSkipped, LoadResults, PruneRows, RecordRow, Exit, Restart
<1> QED
  BY <1>1, VerdictInvariant, PTL DEF SuperviseSpec, VerdictIsFinal

-----------------------------------------------------------------------------
LEMMA SignalInit == SuperviseInit => SignalInv
  BY DEF SuperviseInit, SignalInv, SignalledIsHangOrSilent, Supervising

LEMMA SignalStep ==
  TypeInv /\ RunInv /\ VerdictInv /\ SignalInv /\ [SuperviseNext]_superviseVars => SignalInv'
<1> SUFFICES ASSUME TypeInv, RunInv, VerdictInv, SignalInv, [SuperviseNext]_superviseVars
             PROVE  SignalInv'
  OBVIOUS
<1> USE SupervisedRunAssumption
    DEF TypeInv, RunInv, VerdictInv, SignalInv, SignalledIsHangOrSilent, Supervising,
        RunIds, superVars, childVars, superHist, ChildEnds
<1>1. CASE ScheduleRun
  BY <1>1 DEF ScheduleRun
<1>2. CASE Launch \/ Wait \/ ReturnStopped \/ ReturnSkipped \/ LoadResults
           \/ PruneRows \/ Exit \/ Restart \/ \E c \in Channels : RecordRow(c)
  BY <1>2 DEF Launch, Wait, ReturnStopped, ReturnSkipped, LoadResults, PruneRows, Exit,
              Restart, RecordRow
<1>3. CASE ReturnHang
  BY <1>3 DEF ReturnHang, Report
<1>4. CASE ReturnFinished
  <2>1. rid \notin terminated
    BY <1>4 DEF ReturnFinished
  <2> QED
    BY <1>4, <2>1 DEF ReturnFinished, Report
<1>5. CASE Expire \/ Stop \/ SupervisorDies
  <2>1. \A r \in terminated' : r \in terminated \/ (r = rid /\ dpc \in {"wait", "stopped"})
    BY <1>5 DEF Expire, Stop, SupervisorDies, SignalChild
  <2>2. deadline' \/ shutdown'
    BY <1>5, Zenon DEF Expire, Stop, SupervisorDies
  <2> QED
    BY <1>5, <2>1, <2>2 DEF Expire, Stop, SupervisorDies
<1>6. CASE ChildSkips \/ ChildWorks \/ ChildNotifies \/ ChildRecords \/ ChildExits
           \/ ChildDies
  BY <1>6 DEF ChildSkips, ChildWorks, ChildNotifies, ChildRecords, ChildExits, ChildDies
<1>7. CASE UNCHANGED superviseVars
  BY <1>7 DEF superviseVars
<1> QED
  BY <1>1, <1>2, <1>3, <1>4, <1>5, <1>6, <1>7 DEF SuperviseNext, Supervise, Child

\* What the daemon put to an end itself it reports as a hang or not at all.
THEOREM KilledIsHangOrSilent == SuperviseSpec => []SignalledIsHangOrSilent
<1>1. SignalInv => SignalledIsHangOrSilent
  BY DEF SignalInv
<1> QED
  BY <1>1, VerdictInvariant, SignalInit, SignalStep, PTL DEF SuperviseSpec

-----------------------------------------------------------------------------
LEMMA ResultsInit == SuperviseInit => ResultsInv
  BY DEF SuperviseInit, ResultsInv, RunIds

LEMMA ResultsStep == TypeInv /\ RunInv /\ ResultsInv /\ [SuperviseNext]_superviseVars => ResultsInv'
<1> SUFFICES ASSUME TypeInv, RunInv, ResultsInv, [SuperviseNext]_superviseVars PROVE ResultsInv'
  OBVIOUS
<1> USE SupervisedRunAssumption
    DEF TypeInv, RunInv, ResultsInv, RunIds, superVars, childVars, superHist, ChildEnds
<1>1. CASE ChildRecords
  <2>1. PICK sev \in SeverityMap :
          \/ /\ sent' = [sent EXCEPT ![rid] = sev]
             /\ results' = [rid |-> rid, sev |-> sev]
          \/ results' = results /\ sent' = sent
    BY <1>1, SupervisedRunAssumption DEF ChildRecords, SeverityMap
  <2>2. /\ rid' = rid /\ dpc' = dpc /\ child' = "exiting"
        /\ rid \in RunIds /\ results.rid < rid
        /\ dpc # "launch"
    BY <1>1 DEF ChildRecords
  <2>3. CASE results' = [rid |-> rid, sev |-> sev]
    BY <2>1, <2>2, <2>3
  <2>4. CASE results' = results
    BY <2>1, <2>2, <2>4
  <2> QED
    BY <2>1, <2>3, <2>4
<1>2. CASE ScheduleRun \/ Launch
  BY <1>2 DEF ScheduleRun, Launch
<1>3. CASE Wait \/ ReturnStopped \/ ReturnSkipped \/ LoadResults \/ PruneRows \/ Exit
           \/ Restart \/ \E c \in Channels : RecordRow(c)
  BY <1>3 DEF Wait, ReturnStopped, ReturnSkipped, LoadResults, PruneRows, Exit, Restart,
              RecordRow
<1>4. CASE ReturnHang \/ ReturnFinished
  BY <1>4 DEF ReturnHang, ReturnFinished, Report
<1>5. CASE Expire \/ Stop \/ SupervisorDies
  BY <1>5 DEF Expire, Stop, SupervisorDies
<1>6. CASE ChildSkips \/ ChildWorks \/ ChildNotifies \/ ChildExits \/ ChildDies
  BY <1>6 DEF ChildSkips, ChildWorks, ChildNotifies, ChildExits, ChildDies
<1>7. CASE UNCHANGED superviseVars
  BY <1>7 DEF superviseVars
<1> QED
  BY <1>1, <1>2, <1>3, <1>4, <1>5, <1>6, <1>7 DEF SuperviseNext, Supervise, Child

LEMMA ResultsInvariant == SuperviseSpec => [](TypeInv /\ RunInv /\ ResultsInv)
<1> QED
  BY SuperviseTypeInit, SuperviseTypeStep, RunInvInit, RunInvStep, ResultsInit, ResultsStep, PTL
     DEF SuperviseSpec

\* The daemon records the rows of the run under supervision, whose child is at
\* an end; no child records for a run whose results were accepted before.
PanelInv ==
  /\ panelRun <= rid
  /\ panelRun = rid /\ rid > 0 => child = "ended" /\ dpc # "launch"
  /\ dpc = "record" => panelRun = rid /\ results.rid = rid /\ todo \subseteq Reported
  /\ PanelIsOfOneRun

LEMMA PanelInit == SuperviseInit => PanelInv
<1> QED
  BY SupervisedRunAssumption DEF SuperviseInit, PanelInv, PanelIsOfOneRun

\* What is recorded in the rows is what the child of the run recorded.
LEMMA RecordedIsSent ==
  TypeInv /\ RunInv /\ ResultsInv /\ PanelInv /\ dpc = "record"
    => rid \in RunIds /\ panelRun = rid /\ results.sev = sent[rid]
  BY SupervisedRunAssumption DEF TypeInv, RunInv, ResultsInv, PanelInv, RunIds

LEMMA PanelStep ==
  TypeInv /\ RestOfTypes /\ RunInv /\ ResultsInv /\ PanelInv /\ [SuperviseNext]_superviseVars
    => PanelInv'
<1> SUFFICES ASSUME TypeInv, RestOfTypes, RunInv, ResultsInv, PanelInv,
                    [SuperviseNext]_superviseVars
             PROVE  PanelInv'
  OBVIOUS
<1>0. rid \in Nat /\ panelRun \in Nat /\ MaxRuns \in Nat
  BY SupervisedRunAssumption DEF TypeInv, RestOfTypes
<1> USE DEF superVars, panelVars, childVars, superHist, ChildEnds
<1>1. CASE LoadResults
  <2>1. dpc' = "record" => todo' = Reported' /\ results'.rid = rid'
    BY <1>1 DEF LoadResults, Rejected, Reported
  <2>2. child = "ended" /\ dpc' # "launch" /\ child' = child /\ rid' = rid
    BY <1>1 DEF LoadResults, RunInv
  <2>3. CASE dpc' = "idle" /\ UNCHANGED <<todo, panelRun, unwritten>>
    BY <1>1, <2>2, <2>3 DEF LoadResults, PanelInv, PanelIsOfOneRun
  <2>4. CASE dpc' = "record" /\ panelRun' = rid /\ unwritten' = Channels
    BY <1>0, <2>1, <2>2, <2>4 DEF PanelInv, PanelIsOfOneRun
  <2> QED
    BY <1>1, <2>3, <2>4 DEF LoadResults
<1>2. ASSUME NEW c \in Channels, RecordRow(c) PROVE PanelInv'
  <2>1. /\ todo' \subseteq Reported' /\ dpc' = dpc /\ rid' = rid /\ panelRun' = panelRun
        /\ results' = results /\ child' = child /\ sent' = sent
    BY <1>2 DEF RecordRow, PanelInv, Reported
  <2>2. \A d \in Channels \ unwritten' : d # c => rows'[d] = rows[d] /\ d \notin unwritten
    BY <1>2 DEF RecordRow, RestOfTypes
  <2>3. c \notin unwritten' =>
          \/ rows'[c] = Row(sent[panelRun][c])
          \/ rows'[c] = rows[c] /\ c \notin unwritten
    BY <1>2, RecordedIsSent DEF RecordRow, RestOfTypes
  <2>4. panelRun # 0
    BY <1>2, RecordedIsSent DEF RecordRow, RunIds
  <2> QED
    BY <2>1, <2>2, <2>3, <2>4 DEF PanelInv, PanelIsOfOneRun
<1>3. CASE PruneRows
  <2>1. /\ dpc' = "idle" /\ rid' = rid /\ panelRun' = panelRun
        /\ results' = results /\ child' = child /\ sent' = sent
    BY <1>3 DEF PruneRows
  <2>2. panelRun # 0 /\ \A c \in Channels : results.sev[c] = sent[panelRun][c]
    BY <1>3, RecordedIsSent DEF PruneRows, RunIds
  <2>3. ASSUME NEW c \in Channels \ unwritten'
        PROVE  rows'[c] = Row(sent[panelRun][c])
    <3>1. CASE c \in Reported
      <4>1. rows'[c] = rows[c] /\ c \notin unwritten
        BY <1>3, <2>3, <3>1 DEF PruneRows
      <4> QED
        BY <2>2, <4>1 DEF PanelInv, PanelIsOfOneRun
    <3>2. CASE c \notin Reported
      <4>1. Row(sent[panelRun][c]) = "none"
        BY <2>2, <2>3, <3>2 DEF Reported
      <4> QED
        BY <1>3, <2>2, <2>3, <3>2, <4>1 DEF PruneRows, PanelInv, PanelIsOfOneRun
    <3> QED
      BY <3>1, <3>2
  <2> QED
    BY <2>1, <2>2, <2>3 DEF PanelInv, PanelIsOfOneRun
<1>4. CASE ScheduleRun
  BY <1>0, <1>4 DEF ScheduleRun, PanelInv, PanelIsOfOneRun
<1>5. CASE Launch
  <2>1. panelRun # rid \/ rid = 0
    BY <1>0, <1>5 DEF Launch, PanelInv
  <2> QED
    BY <1>0, <1>5, <2>1 DEF Launch, PanelInv, PanelIsOfOneRun, TypeInv
<1>6. CASE Wait \/ ReturnStopped \/ ReturnSkipped \/ ReturnHang \/ ReturnFinished \/ Exit
           \/ Restart
  BY <1>6 DEF Wait, ReturnStopped, ReturnSkipped, ReturnHang, ReturnFinished, Report, Exit,
              Restart, PanelInv, PanelIsOfOneRun
<1>7. CASE Expire \/ Stop \/ SupervisorDies
  BY <1>7 DEF Expire, Stop, SupervisorDies, PanelInv, PanelIsOfOneRun, Reported
<1>8. CASE ChildRecords
  <2>1. panelRun # rid /\ dpc # "record" /\ rid \in RunIds
    BY <1>0, <1>8 DEF ChildRecords, PanelInv, RunInv, TypeInv, RunIds
  <2>2. panelRun # 0 => sent'[panelRun] = sent[panelRun]
    <3>1. panelRun # 0 => panelRun \in RunIds
      BY <1>0 DEF RunIds, RestOfTypes
    <3> QED
      BY <1>8, <2>1, <3>1 DEF ChildRecords, TypeInv
  <2>3. UNCHANGED superVars
    BY <1>8 DEF ChildRecords
  <2> QED
    BY <2>1, <2>2, <2>3 DEF PanelInv, PanelIsOfOneRun
<1>9. CASE ChildSkips \/ ChildWorks \/ ChildNotifies \/ ChildExits \/ ChildDies
  <2>1. UNCHANGED <<superVars, results, sent>>
    BY <1>9 DEF ChildSkips, ChildWorks, ChildNotifies, ChildExits, ChildDies
  <2>2. child # "ended"
    BY <1>9 DEF ChildSkips, ChildWorks, ChildNotifies, ChildExits, ChildDies
  <2> QED
    BY <2>1, <2>2 DEF PanelInv, PanelIsOfOneRun, Reported, RunInv
<1>10. CASE UNCHANGED superviseVars
  BY <1>10 DEF superviseVars, PanelInv, PanelIsOfOneRun, Reported
<1> QED
  BY <1>1, <1>2, <1>3, <1>4, <1>5, <1>6, <1>7, <1>8, <1>9, <1>10
     DEF SuperviseNext, Supervise, Child

LEMMA PanelInvariant == SuperviseSpec => [](TypeInv /\ RunInv /\ ResultsInv /\ RestOfTypes /\ PanelInv)
<1> QED
  BY ResultsInvariant, RestInit, RestOfTypesStep, PanelInit, PanelStep, PTL DEF SuperviseSpec

\* A notify row changes only to what the child of the run under supervision
\* recorded for its channel, whichever rows were written, were not, or were
\* left unwritten by the daemon's death before.
THEOREM RowsAreTheRuns == SuperviseSpec => RowsAreOfThisRun
<1>1. TypeInv /\ RunInv /\ ResultsInv /\ RestOfTypes /\ PanelInv /\ [SuperviseNext]_superviseVars
        => [\A c \in Channels : rows'[c] # rows[c] => rows'[c] = Row(sent[rid][c])]_superviseVars
  <2> SUFFICES ASSUME TypeInv, RunInv, ResultsInv, RestOfTypes, PanelInv, SuperviseNext,
                      NEW c \in Channels, rows'[c] # rows[c]
               PROVE  rows'[c] = Row(sent[rid][c])
    BY DEF superviseVars
  <2> USE DEF superVars, panelVars, childVars, superHist, ChildEnds
  <2>1. ASSUME NEW d \in Channels, RecordRow(d) PROVE rows'[c] = Row(sent[rid][c])
    BY <2>1, RecordedIsSent DEF RecordRow, RestOfTypes
  <2>2. CASE PruneRows
    <3>1. c \notin Reported /\ rows'[c] = "none"
      BY <2>2 DEF PruneRows
    <3>2. Row(results.sev[c]) = "none"
      BY <3>1 DEF Reported
    <3> QED
      BY <2>2, <3>1, <3>2, RecordedIsSent DEF PruneRows
  <2>3. CASE Expire \/ Stop \/ SupervisorDies \/ Child
    BY <2>3 DEF Expire, Stop, SupervisorDies, Child, ChildSkips, ChildWorks, ChildNotifies,
                ChildRecords, ChildExits, ChildDies
  <2> QED
    BY <2>1, <2>2, <2>3 DEF SuperviseNext, Supervise, ScheduleRun, Launch, Wait,
       ReturnStopped, ReturnSkipped, LoadResults, Exit, Restart, ReturnHang, ReturnFinished,
       Report
<1> QED
  BY <1>1, PanelInvariant, PTL DEF SuperviseSpec, RowsAreOfThisRun

\* The rows that are written are those of one run, for any number of channels,
\* any order of their writes and any of them failing, with the daemon dying at
\* any point and the next child recording its results meanwhile.
THEOREM PanelShowsOneRun == SuperviseSpec => []PanelIsOfOneRun
<1>1. PanelInv => PanelIsOfOneRun
  BY DEF PanelInv
<1> QED
  BY <1>1, PanelInvariant, PTL

\* What the monitor is told of a run is what became of it.
THEOREM VerdictsAreTrue == SuperviseSpec => []VerdictIsTrue
BY GreenIsABackup, KilledIsHangOrSilent, PTL DEF VerdictIsTrue

-----------------------------------------------------------------------------
(* Which engine starts the next backup                                     *)

\* Nothing is stopped or deleted before the line was written, and the line is
\* dropped only for an enabled unit.
ScheduledAt ==
  /\ cmdStep \in {"recordCron", "disable", "deleteUnit"} => cron \/ cronFailed
  /\ cmdStep \in {"enable", "dropCron"} => unit
  /\ cmdStep = "dropCron" => enabled

\* The steps a command has, and the engine it switches to.
StepOfCommand ==
  /\ cmdStep # "idle" => engine # "none"
  /\ cmdStep \in {"wait", "recordCron"} => command = "remove"
  /\ cmdStep = "wizard" => command = "install"
  /\ cmdStep = "recordDaemon" => command \in {"setup", "upgrade"}
  /\ cmdStep = "addCron" => command \in {"remove", "install"}
  /\ cmdStep \in {"disable", "deleteUnit", "reload"} =>
       command \in {"remove", "install"} /\ engine = "cron"
  /\ cmdStep \in {"writeUnit", "enable", "dropCron", "recordDaemon", "restart"} =>
       command # "remove" /\ engine = "daemon"
  /\ command = "remove" => engine = "cron"
  /\ command \in {"setup", "upgrade"} => engine # "cron"

\* What a command that met no trouble has brought about so far.
DoneSoFar ==
  ~troubled =>
    /\ cmdStep \in {"recordCron", "disable", "deleteUnit", "reload"} => cron
    /\ cmdStep = "reload" => ~unit
    /\ cmdStep \in {"disable", "deleteUnit", "reload"} =>
         mode = "cron" /\ (command = "remove" => optOut)
    /\ command = "install" /\ cmdStep \notin {"wizard", "idle"} => mode = engine
    /\ cmdStep \in {"recordDaemon", "restart"} => unit /\ enabled /\ ~cron
    /\ cmdStep = "restart" => mode = "daemon"

\* A daemon without a unit was orphaned by the deletion of its unit.
OrphansKnown == resident => unit \/ orphaned

\* Once the operator opted out, only another --daemon-remove is ever at work.
OptedOutAt ==
  optedOut => /\ optOut
              /\ cmdStep \notin {"wizard", "writeUnit", "enable", "dropCron",
                                 "recordDaemon", "restart"}
              /\ cmdStep # "idle" => command = "remove"

\* EngineSettled, as far as it is not OrphansKnown.
CommandsSettled ==
  cmdStep = "idle" /\ ~troubled /\ engine # "none" =>
    /\ mode = engine
    /\ cron <=> engine = "cron"
    /\ unit <=> engine = "daemon"
    /\ unit => enabled

SchedulerInv ==
  /\ SchedulerTypeOK /\ ScheduledAt /\ NeverUnscheduled
  /\ StepOfCommand /\ DoneSoFar /\ CommandsSettled
  /\ OrphansKnown /\ OptedOutAt /\ OptOutIsFinal

\* The cron line and the unit are never both out of the way.
LEMMA PlanStep ==
  SchedulerTypeOK /\ ScheduledAt /\ NeverUnscheduled /\ StepOfCommand
    /\ [SchedulerNext]_schedulerVars
      => (SchedulerTypeOK /\ ScheduledAt /\ NeverUnscheduled /\ StepOfCommand)'
  <1> SUFFICES ASSUME SchedulerTypeOK, ScheduledAt, NeverUnscheduled, StepOfCommand,
                      [SchedulerNext]_schedulerVars
               PROVE  (SchedulerTypeOK /\ ScheduledAt /\ NeverUnscheduled /\ StepOfCommand)'
    OBVIOUS
  <1> USE DEF ScheduledAt, NeverUnscheduled, StepOfCommand, SchedulerTypeOK,
              Engines, Commands, hostVars, confVars, CmdGoto, Smoothly, Botched
  <1>1. CASE Setup \/ Remove \/ Upgrade \/ InstallBegins
    BY <1>1 DEF Setup, Remove, Upgrade, InstallBegins, Invoke
  <1>2. CASE AwaitIdle \/ Wizard
    BY <1>2 DEF AwaitIdle, Wizard
  <1>3. CASE AddCron
    BY <1>3 DEF AddCron, AfterCron, Reconciled
  <1>4. CASE RecordCron
    BY <1>4 DEF RecordCron
  <1>5. CASE Disable
    BY <1>5 DEF Disable
  <1>6. CASE DeleteUnit
    BY <1>6 DEF DeleteUnit
  <1>7. CASE ReloadSystemd
    BY <1>7 DEF ReloadSystemd
  <1>8. CASE WriteUnit
    BY <1>8 DEF WriteUnit
  <1>9. CASE EnableNow
    BY <1>9 DEF EnableNow
  <1>10. CASE DropCron
    BY <1>10 DEF DropCron
  <1>11. CASE RecordDaemon \/ RestartResident
    BY <1>11 DEF RecordDaemon, RestartResident
  <1>12. CASE CommandDies \/ HostBoots
    BY <1>12 DEF CommandDies, HostBoots
  <1>13. CASE UNCHANGED schedulerVars
    BY <1>13 DEF schedulerVars, commandVars, schedHist
  <1> QED
    BY <1>1, <1>2, <1>3, <1>4, <1>5, <1>6, <1>7, <1>8, <1>9, <1>10, <1>11,
       <1>12, <1>13 DEF SchedulerNext

\* A step that meets no trouble does what it is there for.
LEMMA DoneStep ==
  SchedulerTypeOK /\ ScheduledAt /\ StepOfCommand /\ DoneSoFar
    /\ [SchedulerNext]_schedulerVars => DoneSoFar'
  <1> SUFFICES ASSUME SchedulerTypeOK, ScheduledAt, StepOfCommand, DoneSoFar,
                      [SchedulerNext]_schedulerVars
               PROVE  DoneSoFar'
    OBVIOUS
  <1> USE DEF ScheduledAt, StepOfCommand, DoneSoFar, SchedulerTypeOK,
              Engines, Commands, hostVars, confVars, CmdGoto, Smoothly, Botched
  <1>1. CASE Setup \/ Remove \/ Upgrade \/ InstallBegins
    BY <1>1 DEF Setup, Remove, Upgrade, InstallBegins, Invoke
  <1>2. CASE AwaitIdle \/ Wizard
    BY <1>2 DEF AwaitIdle, Wizard
  <1>3. CASE AddCron
    BY <1>3 DEF AddCron, AfterCron, Reconciled
  <1>4. CASE RecordCron
    BY <1>4 DEF RecordCron
  <1>5. CASE Disable
    BY <1>5 DEF Disable
  <1>6. CASE DeleteUnit
    BY <1>6 DEF DeleteUnit
  <1>7. CASE ReloadSystemd
    BY <1>7 DEF ReloadSystemd
  <1>8. CASE WriteUnit
    BY <1>8 DEF WriteUnit
  <1>9. CASE EnableNow
    BY <1>9 DEF EnableNow
  <1>10. CASE DropCron
    BY <1>10 DEF DropCron
  <1>11. CASE RecordDaemon \/ RestartResident
    BY <1>11 DEF RecordDaemon, RestartResident
  <1>12. CASE CommandDies \/ HostBoots
    BY <1>12 DEF CommandDies, HostBoots
  <1>13. CASE UNCHANGED schedulerVars
    BY <1>13 DEF schedulerVars, commandVars, schedHist
  <1> QED
    BY <1>1, <1>2, <1>3, <1>4, <1>5, <1>6, <1>7, <1>8, <1>9, <1>10, <1>11,
       <1>12, <1>13 DEF SchedulerNext

\* Whatever ends a command has failed, or was its last step.
LEMMA SettledStep ==
  SchedulerTypeOK /\ StepOfCommand /\ DoneSoFar /\ CommandsSettled
    /\ [SchedulerNext]_schedulerVars => CommandsSettled'
  <1> SUFFICES ASSUME SchedulerTypeOK, StepOfCommand, DoneSoFar, CommandsSettled,
                      [SchedulerNext]_schedulerVars
               PROVE  CommandsSettled'
    OBVIOUS
  <1> USE DEF CommandsSettled, StepOfCommand, DoneSoFar, SchedulerTypeOK,
              Engines, Commands, hostVars, confVars, CmdGoto, Smoothly, Botched
  <1>1. CASE Setup \/ Remove \/ Upgrade \/ InstallBegins
    BY <1>1 DEF Setup, Remove, Upgrade, InstallBegins, Invoke
  <1>2. CASE AwaitIdle \/ Wizard
    BY <1>2 DEF AwaitIdle, Wizard
  <1>3. CASE AddCron
    BY <1>3 DEF AddCron, AfterCron, Reconciled
  <1>4. CASE RecordCron
    BY <1>4 DEF RecordCron
  <1>5. CASE Disable
    BY <1>5 DEF Disable
  <1>6. CASE DeleteUnit
    BY <1>6 DEF DeleteUnit
  <1>7. CASE ReloadSystemd
    BY <1>7 DEF ReloadSystemd
  <1>8. CASE WriteUnit
    BY <1>8 DEF WriteUnit
  <1>9. CASE EnableNow
    BY <1>9 DEF EnableNow
  <1>10. CASE DropCron
    BY <1>10 DEF DropCron
  <1>11. CASE RecordDaemon \/ RestartResident
    BY <1>11 DEF RecordDaemon, RestartResident
  <1>12. CASE CommandDies \/ HostBoots
    BY <1>12 DEF CommandDies, HostBoots
  <1>13. CASE UNCHANGED schedulerVars
    BY <1>13 DEF schedulerVars, commandVars, schedHist
  <1> QED
    BY <1>1, <1>2, <1>3, <1>4, <1>5, <1>6, <1>7, <1>8, <1>9, <1>10, <1>11,
       <1>12, <1>13 DEF SchedulerNext

\* A resident daemon is accounted for, and an opted-out host is left alone.
LEMMA OptedOutStep ==
  SchedulerTypeOK /\ ScheduledAt /\ StepOfCommand /\ DoneSoFar
    /\ OrphansKnown /\ OptedOutAt /\ OptOutIsFinal
    /\ [SchedulerNext]_schedulerVars
      => (OrphansKnown /\ OptedOutAt /\ OptOutIsFinal)'
  <1> SUFFICES ASSUME SchedulerTypeOK, ScheduledAt, StepOfCommand, DoneSoFar,
                      OrphansKnown, OptedOutAt, OptOutIsFinal,
                      [SchedulerNext]_schedulerVars
               PROVE  (OrphansKnown /\ OptedOutAt /\ OptOutIsFinal)'
    OBVIOUS
  <1> USE DEF ScheduledAt, OrphansKnown, OptedOutAt, OptOutIsFinal,
              StepOfCommand, DoneSoFar, SchedulerTypeOK,
              Engines, Commands, hostVars, confVars, CmdGoto, Smoothly, Botched
  <1>1. CASE Setup \/ Remove \/ Upgrade \/ InstallBegins
    BY <1>1 DEF Setup, Remove, Upgrade, InstallBegins, Invoke
  <1>2. CASE AwaitIdle \/ Wizard
    <2>1. OrphansKnown'
      BY <1>2 DEF AwaitIdle, Wizard
    <2>2. OptedOutAt'
      BY <1>2 DEF AwaitIdle, Wizard
    <2>3. OptOutIsFinal'
      BY <1>2 DEF AwaitIdle, Wizard
    <2> QED
      BY <2>1, <2>2, <2>3
  <1>3. CASE AddCron
    BY <1>3 DEF AddCron, AfterCron, Reconciled
  <1>4. CASE RecordCron
    BY <1>4 DEF RecordCron
  <1>5. CASE Disable
    <2>1. OrphansKnown'
      BY <1>5 DEF Disable
    <2>2. OptedOutAt'
      BY <1>5 DEF Disable
    <2>3. OptOutIsFinal'
      BY <1>5 DEF Disable
    <2> QED
      BY <2>1, <2>2, <2>3
  <1>6. CASE DeleteUnit
    BY <1>6 DEF DeleteUnit
  <1>7. CASE ReloadSystemd
    BY <1>7 DEF ReloadSystemd
  <1>8. CASE WriteUnit
    BY <1>8 DEF WriteUnit
  <1>9. CASE EnableNow
    <2>1. OrphansKnown'
      BY <1>9 DEF EnableNow
    <2>2. OptedOutAt'
      BY <1>9 DEF EnableNow
    <2>3. OptOutIsFinal'
      BY <1>9 DEF EnableNow
    <2> QED
      BY <2>1, <2>2, <2>3
  <1>10. CASE DropCron
    BY <1>10 DEF DropCron
  <1>11. CASE RecordDaemon \/ RestartResident
    BY <1>11 DEF RecordDaemon, RestartResident
  <1>12. CASE CommandDies \/ HostBoots
    BY <1>12 DEF CommandDies, HostBoots
  <1>13. CASE UNCHANGED schedulerVars
    BY <1>13 DEF schedulerVars, commandVars, schedHist
  <1> QED
    BY <1>1, <1>2, <1>3, <1>4, <1>5, <1>6, <1>7, <1>8, <1>9, <1>10, <1>11,
       <1>12, <1>13 DEF SchedulerNext

\* The three together are inductive.
LEMMA SchedulerInvAlways == SchedulerSpec => []SchedulerInv
  <1>1. SchedulerInit => SchedulerInv
    BY DEF SchedulerInit, SchedulerInv, SchedulerTypeOK, ScheduledAt, NeverUnscheduled,
           StepOfCommand, DoneSoFar, CommandsSettled, OrphansKnown, OptedOutAt, OptOutIsFinal,
           Engines, Commands
  <1>2. SchedulerInv
    /\ [SchedulerNext]_schedulerVars => SchedulerInv'
    BY PlanStep, DoneStep, SettledStep, OptedOutStep DEF SchedulerInv
  <1> QED
    BY <1>1, <1>2, PTL DEF SchedulerSpec

\* Type correctness of the switch between cron and the daemon.
THEOREM SchedulerTypeCorrect == SchedulerSpec => []SchedulerTypeOK
  BY SchedulerInvAlways, PTL DEF SchedulerInv

\* No sequence of setups, removals, upgrades and installs, whichever of their
\* steps fail or are the last, leaves the host without a cron line or an enabled
\* unit, unless the line could not be written.
THEOREM NeverLeftUnscheduled == SchedulerSpec => []NeverUnscheduled
  BY SchedulerInvAlways, PTL DEF SchedulerInv

\* A command that meets no trouble leaves crontab, systemd and configuration
\* agreed on one engine, from whatever those before it left behind, and after an
\* opt-out that met none nothing brings the daemon back.
THEOREM SwitchesSettle == SchedulerSpec => []CleanCommandSettles
  <1>1. SchedulerInv => CleanCommandSettles
    BY DEF SchedulerInv, SchedulerTypeOK, CommandsSettled, OrphansKnown, CleanCommandSettles,
           EngineSettled
  <1> QED
    BY <1>1, SchedulerInvAlways, PTL
-----------------------------------------------------------------------------
(* The status file.                                                        *)

\* Only the holder of statusMu has loaded the file, which is still the same.
Loaded ==
  \A r \in Recorders :
    /\ tick[r] \in {"load", "store"} => statusMu = r
    /\ tick[r] = "store" => fetched[r] = file
    /\ tick[r] = "ping" => r = UpdateLoop

\* A corrupt file is one of which no record counts.
NothingOnCorrupt == file = Corrupt => recorded = Empty

\* The verdict of the last conclusive check is on file between ticks, and at
\* hand during one.
VerdictKept ==
  missed \/ (IF tick[UpdateLoop] = "idle" THEN OnFile ELSE answer)[UpdateLoop] = checked

StatusInv ==
  StatusTypeOK /\ Loaded /\ NothingOnCorrupt /\ NoRecordLost /\ VerdictKept

LEMMA RecordFacts ==
  /\ Empty \in Records
  /\ Corrupt \notin Records
<1>1. Empty \in Records BY DEF Empty, Records
<1>2. Corrupt[UpdateLoop] = "corrupt" BY StatusAssumption DEF Corrupt
<1>3. \A f \in Records : f[UpdateLoop] # "corrupt"
  BY StatusAssumption DEF Records, Answers
<1> QED BY <1>1, <1>2, <1>3

LEMMA OnFileFacts ==
  ASSUME StatusInv
  PROVE  OnFile \in Records /\ OnFile = recorded
  BY RecordFacts DEF StatusInv, StatusTypeOK, OnFile, NoRecordLost, NothingOnCorrupt

LEMMA StatusInvInit == StatusInit => StatusInv
<1> SUFFICES ASSUME StatusInit PROVE StatusInv
  OBVIOUS
<1>1. StatusTypeOK BY RecordFacts DEF StatusInit, StatusTypeOK
<1>2. Empty[UpdateLoop] = "none" /\ Empty # Corrupt
  BY StatusAssumption, RecordFacts DEF Empty
<1>3. VerdictKept BY <1>2, StatusAssumption DEF StatusInit, VerdictKept, OnFile
<1> QED BY <1>1, <1>2, <1>3
       DEF StatusInit, StatusInv, Loaded, NothingOnCorrupt, NoRecordLost

\* A tick before it takes the mutex.
LEMMA TickBegins ==
  ASSUME StatusInv, NEW r \in Recorders,
         Ping(r) \/ CheckUpdate(r) \/ Reaffirm(r) \/ PingUpdate(r) \/ LockStatus(r)
  PROVE  StatusInv'
<1>0. /\ UNCHANGED <<file, fetched, recorded>>
      /\ tick' \in [Recorders -> {"idle", "ping", "lock", "load", "store"}]
      /\ \A s \in Recorders \ {r} : tick'[s] = tick[s] /\ answer'[s] = answer[s]
      /\ tick'[r] \in {"ping", "lock", "load"}
      /\ tick'[r] = "load" <=> LockStatus(r)
      /\ tick'[r] = "ping" => r = UpdateLoop
  BY DEF Ping, CheckUpdate, Reaffirm, PingUpdate, LockStatus, TickGoto, StatusInv, StatusTypeOK,
         Records
<1>1. StatusTypeOK'
  <2>1. answer' \in Records
    BY OnFileFacts DEF Ping, CheckUpdate, Reaffirm, PingUpdate, LockStatus, StatusInv,
       StatusTypeOK, Records, Answers
  <2>2. statusMu' \in Recorders \cup {NoLoop} /\ affirming' \in BOOLEAN /\ missed' \in BOOLEAN
    BY DEF Ping, CheckUpdate, Reaffirm, PingUpdate, LockStatus, StatusInv, StatusTypeOK
  <2>3. checked' \in Answers \cup {"none"}
    BY DEF Ping, CheckUpdate, Reaffirm, PingUpdate, LockStatus, StatusInv, StatusTypeOK
  <2>4. shown' \in Answers \cup {"none"}
    BY DEF Ping, CheckUpdate, Reaffirm, PingUpdate, LockStatus, StatusInv, StatusTypeOK,
       Records
  <2> QED BY <1>0, <2>1, <2>2, <2>3, <2>4 DEF StatusInv, StatusTypeOK
<1>2. Loaded'
  <2>1. CASE LockStatus(r)
    <3>1. statusMu = NoLoop /\ statusMu' = r BY <2>1 DEF LockStatus, Unheld
    <3>2. \A s \in Recorders : tick[s] \notin {"load", "store"}
      BY <3>1, StatusAssumption DEF StatusInv, Loaded
    <3> QED BY <1>0, <2>1, <3>1, <3>2 DEF StatusInv, Loaded
  <2>2. CASE ~LockStatus(r)
    <3>1. statusMu' = statusMu BY <2>2 DEF Ping, CheckUpdate, Reaffirm, PingUpdate
    <3> QED BY <1>0, <2>2, <3>1 DEF StatusInv, Loaded
  <2> QED BY <2>1, <2>2
<1>3. VerdictKept'
  <2>1. CASE r # UpdateLoop
    <3>1. UNCHANGED <<missed, checked>>
      BY <2>1 DEF Ping, CheckUpdate, Reaffirm, PingUpdate, LockStatus
    <3> QED BY <1>0, <2>1, <3>1, StatusAssumption DEF StatusInv, VerdictKept, OnFile
  <2>2. CASE r = UpdateLoop
    <3>1. tick'[UpdateLoop] # "idle" BY <1>0, <2>2
    <3>2. CASE CheckUpdate(r)
      <4>1. answer'[UpdateLoop] = checked'
        BY <2>2, <3>2 DEF CheckUpdate, StatusInv, StatusTypeOK,
         Records
      <4> QED BY <3>1, <4>1 DEF VerdictKept
    <3>3. CASE Reaffirm(r)
      <4>1. answer'[UpdateLoop] = OnFile[UpdateLoop] /\ tick[UpdateLoop] = "idle"
            /\ UNCHANGED <<missed, checked>>
        BY <2>2, <3>3 DEF Reaffirm, TickGoto, StatusInv, StatusTypeOK,
         Records
      <4> QED BY <3>1, <4>1 DEF StatusInv, VerdictKept
    <3>4. CASE PingUpdate(r) \/ LockStatus(r)
      <4>1. UNCHANGED <<answer, missed, checked>> /\ tick[UpdateLoop] # "idle"
        BY <2>2, <3>4 DEF PingUpdate, LockStatus, TickGoto
      <4> QED BY <3>1, <4>1 DEF StatusInv, VerdictKept
    <3>5. ~Ping(r) BY <2>2 DEF Ping
    <3> QED BY <3>2, <3>3, <3>4, <3>5
  <2> QED BY <2>1, <2>2
<1> QED BY <1>0, <1>1, <1>2, <1>3 DEF StatusInv, NothingOnCorrupt, NoRecordLost

LEMMA LoadKeepsInv ==
  ASSUME StatusInv, NEW r \in Recorders, LoadStatus(r)
  PROVE  StatusInv'
<1>0. /\ fetched' = [fetched EXCEPT ![r] = OnFile] /\ file' = OnFile
      /\ UNCHANGED <<statusMu, answer, affirming, recorded, checked, missed, shown>>
      /\ tick[r] = "load" /\ tick' = [tick EXCEPT ![r] = "store"]
  BY DEF LoadStatus, TickGoto
<1>1. OnFile \in Records /\ OnFile = recorded /\ file' \in Records
  BY <1>0, OnFileFacts
<1>2. StatusTypeOK' BY <1>0, <1>1 DEF StatusInv, StatusTypeOK
<1>3. statusMu = r /\ \A s \in Recorders \ {r} : tick[s] \notin {"load", "store"}
  BY <1>0 DEF StatusInv, Loaded
<1>4. Loaded' BY <1>0, <1>3 DEF StatusInv, StatusTypeOK, Loaded
<1>5. OnFile' = OnFile BY <1>0, <1>1, RecordFacts DEF OnFile
<1>6. VerdictKept'
  <2>1. tick'[UpdateLoop] = "idle" <=> tick[UpdateLoop] = "idle"
    BY <1>0, StatusAssumption DEF StatusInv, StatusTypeOK
  <2> QED BY <1>0, <1>5, <2>1 DEF StatusInv, VerdictKept
<1> QED BY <1>0, <1>1, <1>2, <1>4, <1>6, RecordFacts
       DEF StatusInv, NothingOnCorrupt, NoRecordLost

LEMMA WriteKeepsInv ==
  ASSUME StatusInv, NEW r \in Recorders, WriteStatus(r) \/ WriteFails(r)
  PROVE  StatusInv'
<1>0. /\ tick[r] = "store" /\ tick' = [tick EXCEPT ![r] = "idle"]
      /\ statusMu' = NoLoop
      /\ answer' = [answer EXCEPT ![r] = "none"]
      /\ fetched' = [fetched EXCEPT ![r] = Empty]
      /\ UNCHANGED <<affirming, checked, shown>>
  BY DEF WriteStatus, WriteFails, Settled, TickGoto
<1>1. /\ fetched[r] = file /\ file \in Records /\ file = recorded /\ OnFile = file
      /\ \A s \in Recorders \ {r} : tick[s] \notin {"load", "store"}
  <2>1. fetched[r] = file /\ \A s \in Recorders \ {r} : tick[s] \notin {"load", "store"}
    BY <1>0 DEF StatusInv, Loaded
  <2> QED BY <2>1, RecordFacts, OnFileFacts DEF StatusInv, StatusTypeOK, OnFile
<1>2. answer[r] \in Answers \cup {"none"}
  BY DEF StatusInv, StatusTypeOK,
         Records
<1>3. /\ file' \in Records /\ recorded' = file' /\ OnFile' = file'
      /\ \A s \in Recorders \ {r} : file'[s] = file[s]
      /\ \/ file'[r] = answer[r] /\ missed' = missed
         \/ file' = file /\ missed' = (missed \/ r = UpdateLoop)
  <2>1. CASE WriteStatus(r)
    <3>1. file' = [file EXCEPT ![r] = answer[r]] /\ recorded' = file' /\ missed' = missed
      BY <1>1, <2>1 DEF WriteStatus
    <3>2. file' \in Records /\ file'[r] = answer[r]
          /\ \A s \in Recorders \ {r} : file'[s] = file[s]
      BY <1>1, <1>2, <3>1 DEF Records
    <3> QED BY <2>1, <3>1, <3>2, <1>1, RecordFacts DEF OnFile
  <2>2. CASE WriteFails(r)
    BY <1>1, <2>2, RecordFacts DEF WriteFails, OnFile
  <2> QED BY <2>1, <2>2
<1>4. StatusTypeOK'
  <2>1. answer' \in Records BY <1>0 DEF StatusInv, StatusTypeOK,
         Records
  <2>2. missed' \in BOOLEAN
    BY DEF StatusInv, StatusTypeOK, WriteStatus, WriteFails
  <2> QED BY <1>0, <1>3, <2>1, <2>2, RecordFacts DEF StatusInv, StatusTypeOK
<1>5. Loaded' BY <1>0, <1>1 DEF StatusInv, StatusTypeOK, Loaded
<1>6. VerdictKept'
  <2>1. CASE r = UpdateLoop
    <3>1. tick'[UpdateLoop] = "idle" /\ tick[UpdateLoop] # "idle"
      BY <1>0, <2>1 DEF StatusInv, StatusTypeOK
    <3>2. missed \/ answer[UpdateLoop] = checked BY <3>1 DEF StatusInv, VerdictKept
    <3>3. missed' \/ file'[UpdateLoop] = checked
      <4>1. CASE file'[r] = answer[r] /\ missed' = missed BY <2>1, <3>2, <4>1
      <4>2. CASE missed' = (missed \/ r = UpdateLoop) BY <2>1, <4>2
      <4> QED BY <1>3, <4>1, <4>2
    <3> QED BY <1>0, <1>3, <3>1, <3>3 DEF VerdictKept
  <2>2. CASE r # UpdateLoop
    <3>1. tick'[UpdateLoop] = tick[UpdateLoop] /\ answer'[UpdateLoop] = answer[UpdateLoop]
          /\ file'[UpdateLoop] = file[UpdateLoop]
      BY <1>0, <1>3, <2>2, StatusAssumption DEF StatusInv, StatusTypeOK,
         Records
    <3>2. missed => missed' BY DEF WriteStatus, WriteFails
    <3> QED BY <1>0, <1>1, <1>3, <3>1, <3>2 DEF StatusInv, VerdictKept
  <2> QED BY <2>1, <2>2
<1> QED BY <1>3, <1>4, <1>5, <1>6, RecordFacts DEF StatusInv, NothingOnCorrupt, NoRecordLost

LEMMA DeathKeepsInv ==
  ASSUME StatusInv, DaemonDies
  PROVE  StatusInv'
<1>0. /\ tick' = [r \in Recorders |-> "idle"] /\ statusMu' = NoLoop
      /\ answer' = Empty /\ fetched' = [r \in Recorders |-> Empty]
      /\ \/ UNCHANGED <<file, recorded>>
         \/ file' \in {Empty, Corrupt} /\ recorded' = Empty
      /\ missed' = (missed \/ tick[UpdateLoop] # "idle" \/ file' # file)
      /\ UNCHANGED <<affirming, checked, shown>>
  BY DEF DaemonDies
<1>1. StatusTypeOK'
  <2>1. file' \in Records \cup {Corrupt} /\ recorded' \in Records
    BY <1>0, RecordFacts DEF StatusInv, StatusTypeOK
  <2> QED BY <1>0, <2>1, RecordFacts DEF StatusInv, StatusTypeOK
<1>2. Loaded' BY <1>0 DEF Loaded
<1>3. NothingOnCorrupt' /\ NoRecordLost'
  BY <1>0 DEF StatusInv, NothingOnCorrupt, NoRecordLost
<1>4. VerdictKept'
  <2>1. CASE missed' BY <2>1 DEF VerdictKept
  <2>2. CASE ~missed'
    <3>1. ~missed /\ tick[UpdateLoop] = "idle" /\ file' = file BY <1>0, <2>2
    <3>2. OnFile[UpdateLoop] = checked BY <3>1 DEF StatusInv, VerdictKept
    <3> QED BY <1>0, <3>1, <3>2, StatusAssumption DEF VerdictKept, OnFile
  <2> QED BY <2>1, <2>2
<1> QED BY <1>1, <1>2, <1>3, <1>4 DEF StatusInv

LEMMA StatusInvInductive == StatusSpec => []StatusInv
<1>1. StatusInv /\ UNCHANGED statusVars => StatusInv'
  BY DEF statusVars, StatusInv, StatusTypeOK, Loaded, NothingOnCorrupt, NoRecordLost,
     VerdictKept, OnFile
<1>2. StatusInv /\ [StatusNext]_statusVars => StatusInv'
  BY <1>1, TickBegins, LoadKeepsInv, WriteKeepsInv, DeathKeepsInv
     DEF StatusNext, RecorderStep
<1> QED BY <1>2, StatusInvInit, PTL DEF StatusSpec

\* Type correctness of the status file.
THEOREM StatusTypeCorrect == StatusSpec => []StatusTypeOK
  BY StatusInvInductive, PTL DEF StatusInv

\* No write of one loop undoes the record of another, through crashes, power
\* losses, failed writes and quarantines (loadStatusForWrite, writeStatus).
THEOREM RecordsAreKept == StatusSpec => []NoRecordLost
<1>1. StatusInv => NoRecordLost BY DEF StatusInv
<1> QED BY <1>1, StatusInvInductive, PTL

\* What an inconclusive check shows the monitor is the answer of the last
\* conclusive one, if that got on file (updateTick).
THEOREM ReaffirmationIsTrue == StatusSpec => TransientErrorNeverFlips
<1>1. StatusInv /\ [StatusNext]_statusVars
        => [shown' # shown /\ affirming => shown' = checked \/ missed]_statusVars
  <2> SUFFICES ASSUME StatusInv, StatusNext, shown' # shown
               PROVE  shown' = checked \/ missed
    OBVIOUS
  <2>1. PICK r \in Recorders : PingUpdate(r)
    BY DEF StatusNext, DaemonDies, RecorderStep, Ping, CheckUpdate, Reaffirm,
       LockStatus, LoadStatus, WriteStatus, WriteFails
  <2>2. tick[r] = "ping" /\ shown' = answer[r] BY <2>1 DEF PingUpdate, TickGoto
  <2> QED BY <2>2 DEF StatusInv, Loaded, VerdictKept
<1> QED BY <1>1, StatusInvInductive, PTL DEF StatusSpec, TransientErrorNeverFlips

-----------------------------------------------------------------------------
(* The relay secret.                                                       *)

\* A handshake only persists and confirms.
TelegramSteps == \A t \in Telegrams : rstep[t] \in {"idle", "persist", "confirm"}

RelayTypeInv == RelayTypeOK /\ TelegramSteps

LEMMA RelayTypeStep == RelayTypeInv /\ [RelayNext]_relayVars => RelayTypeInv'
  <1> SUFFICES ASSUME RelayTypeInv, [RelayNext]_relayVars PROVE RelayTypeInv'
    OBVIOUS
  <1> USE RelayAssumption
      DEF RelayTypeInv, RelayTypeOK, TelegramSteps, RelaySteps, Locked, Secrets, Parties,
          StepWith, Step, Smooth, History
  <1>0. Mint => /\ row' \in [hash : Secrets, confirmed : BOOLEAN]
                /\ issued + 1 \in Secrets /\ issued' \in Secrets
    BY DEF Mint
  <1>1. ASSUME NEW p \in Parties, LoadSecret(p) PROVE RelayTypeInv'
    <2>1. CASE disk # 0 /\ StepWith(p, "idle", "fetch", disk) /\ UNCHANGED floor
      BY <1>1, <2>1 DEF LoadSecret
    <2>2. CASE disk = 0 /\ Step(p, "idle", "lock") /\ floor' = TRUE
      BY <1>1, <2>2 DEF LoadSecret
    <2> QED
      BY <1>1, <2>1, <2>2 DEF LoadSecret
  <1>2. ASSUME NEW p \in Parties, TakeLock(p) PROVE RelayTypeInv'
    BY <1>2 DEF TakeLock, Free
  <1>3. ASSUME NEW p \in Parties, Recheck(p) PROVE RelayTypeInv'
    BY <1>3 DEF Recheck, AfterProvision, Unlock
  <1>4. ASSUME NEW p \in Parties, Issue(p) PROVE RelayTypeInv'
    <2>1. CASE Mint /\ StepWith(p, "issue", "persist", issued + 1)
                 /\ UNCHANGED <<late, mutex, troubles>>
      BY <1>0, <1>4, <2>1 DEF Issue
    <2>2. CASE Step(p, "issue", AfterProvision(p)) /\ Unlock(p)
                 /\ UNCHANGED <<row, issued, late, troubles>>
      BY <1>4, <2>2 DEF Issue, AfterProvision, Unlock
    <2>3. CASE /\ Trouble /\ Step(p, "issue", "idle") /\ Unlock(p)
               /\ late' \in {late, TRUE} /\ UNCHANGED <<row, issued>>
      <3>1. late' \in BOOLEAN
        BY <2>3
      <3>2. UNCHANGED <<row, issued>> /\ Trouble
        BY <2>3
      <3> QED
        BY <1>4, <2>3, <3>1, <3>2 DEF Issue, Unlock, Trouble
    <2>4. CASE /\ Trouble /\ Step(p, "issue", "idle") /\ Unlock(p)
               /\ Mint /\ UNCHANGED late
      BY <1>0, <1>4, <2>4 DEF Issue, Unlock, Trouble
    <2> QED
      BY <1>4, <2>1, <2>2, <2>3, <2>4 DEF Issue
  <1>5. ASSUME NEW p \in Parties, Persist(p) PROVE RelayTypeInv'
    BY <1>5 DEF Persist, Unlock, Trouble
  <1>6. ASSUME NEW p \in Parties, Confirm(p) PROVE RelayTypeInv'
    <2>1. row' \in [hash : Secrets, confirmed : BOOLEAN]
      BY <1>6 DEF Confirm
    <2> QED
      BY <1>6, <2>1 DEF Confirm, AfterProvision, Unlock, Trouble
  <1>7. ASSUME NEW p \in Parties, Reload(p) \/ Fetch(p) PROVE RelayTypeInv'
    <2>1. CASE Reload(p)
      BY <2>1 DEF Reload
    <2>2. CASE Fetch(p)
      <3>1. unresolved' \subseteq Loops /\ troubles' \in 0 .. MaxTroubles
        BY <2>2 DEF Fetch, Trouble
      <3>2. Step(p, "fetch", "idle") \/ Step(p, "fetch", "reject")
        BY <2>2 DEF Fetch
      <3>3. UNCHANGED <<disk, row, issued, late, mutex, floor, overlapped>>
        BY <2>2 DEF Fetch
      <3> QED
        BY <3>1, <3>2, <3>3
    <2> QED
      BY <1>7, <2>1, <2>2
  <1>8. ASSUME NEW p \in Parties, Compare(p) \/ Unlink(p) PROVE RelayTypeInv'
    <2>1. CASE Compare(p)
      BY <2>1 DEF Compare, Unlock
    <2>2. CASE Unlink(p)
      BY <2>2 DEF Unlink, Unlock, Trouble
    <2> QED
      BY <1>8, <2>1, <2>2
  <1>9. ASSUME NEW p \in Setups, SetupBegins(p) PROVE RelayTypeInv'
    BY <1>9 DEF SetupBegins
  <1>10. ASSUME NEW t \in Telegrams, Handshake(t) PROVE RelayTypeInv'
    BY <1>0, <1>10 DEF Handshake
  <1>11. CASE LateIssue \/ FloorPasses \/ ServerForgets
    <2>1. NoRow \in [hash : Secrets, confirmed : BOOLEAN]
      BY DEF NoRow
    <2>2. CASE LateIssue
      BY <1>0, <2>2 DEF LateIssue
    <2>3. CASE FloorPasses
      BY <2>3 DEF FloorPasses
    <2>4. CASE ServerForgets
      BY <2>1, <2>4 DEF ServerForgets, Trouble
    <2> QED
      BY <1>11, <2>2, <2>3, <2>4
  <1>12. ASSUME NEW dead, dead = Loops \/ \E p \in Setups \cup Telegrams : dead = {p},
                RelayDeath(dead)
         PROVE  RelayTypeInv'
    BY <1>12 DEF RelayDeath, Trouble
  <1>13. CASE UNCHANGED relayVars
    BY <1>13 DEF relayVars
  <1> QED
    BY <1>1, <1>2, <1>3, <1>4, <1>5, <1>6, <1>7, <1>8, <1>9, <1>10, <1>11, <1>12, <1>13
       DEF RelayNext, Provisions

\* Whoever has a secret in its hands has one the server issued, and whoever is
\* to remove one knows that the server does not accept it: secrets are issued in
\* ascending order, so that a rejected one is rejected for good.
SecretsKnown ==
  /\ row.hash <= issued /\ disk <= issued
  /\ \A p \in Parties :
       /\ held[p] <= issued
       /\ rstep[p] \in {"fetch", "reject", "compare", "unlink"} => held[p] # 0
       /\ rstep[p] \in {"reject", "compare", "unlink"} => held[p] # row.hash

\* Without an overlap a handshake is alone: nobody holds the lock meanwhile.
HandshakeAlone ==
  ~overlapped =>
    \A t \in Telegrams : Busy(t) =>
      mutex = Nobody /\ \A u \in Telegrams : Busy(u) => u = t

\* Without an overlap, what a party is about to confirm or to remove is what is
\* on disk, and what it is about to write is not there before it is confirmed.
DiskFollows ==
  ~overlapped =>
    /\ \A p \in Parties :
         /\ rstep[p] = "persist" => ~row.confirmed
         /\ rstep[p] \in {"confirm", "unlink"} => disk = held[p]
    /\ ~Stranded

RelayInv == RelayTypeInv /\ SecretsKnown /\ HandshakeAlone /\ DiskFollows

\* Without an overlap one party at a time writes, confirms and removes.
LEMMA OneProvisioner ==
  ASSUME RelayTypeInv, HandshakeAlone, ~overlapped,
         NEW p \in Parties, NEW q \in Parties, rstep[p] \in Locked, rstep[q] \in Locked
  PROVE  p = q
  BY RelayAssumption
     DEF RelayTypeInv, RelayTypeOK, TelegramSteps, HandshakeAlone, Busy, Locked, Parties

\* What an issue request does, answered or not.
LEMMA IssueEffect ==
  ASSUME RelayTypeInv, NEW p \in Parties, Issue(p)
  PROVE  /\ rstep[p] = "issue"
         /\ rstep' = [rstep EXCEPT ![p] = rstep'[p]]
         /\ held' = [held EXCEPT ![p] = held'[p]]
         /\ \/ Mint /\ rstep'[p] = "persist" /\ held'[p] = issued + 1
            \/ rstep'[p] \in {"reload", "idle"} /\ held'[p] = 0
         /\ Mint \/ UNCHANGED <<row, issued>>
         /\ disk' = disk /\ overlapped' = overlapped /\ mutex' \in {mutex, Nobody}
  <1> USE DEF RelayTypeInv, RelayTypeOK, StepWith, Step, History
  <1>1. disk' = disk /\ overlapped' = overlapped /\ rstep[p] = "issue"
    BY DEF Issue
  <1>2. CASE Mint /\ StepWith(p, "issue", "persist", issued + 1) /\ UNCHANGED mutex
    BY <1>1, <1>2
  <1>3. CASE /\ Step(p, "issue", AfterProvision(p)) /\ Unlock(p)
             /\ UNCHANGED <<row, issued>>
    BY <1>1, <1>3 DEF AfterProvision, Unlock
  <1>4. CASE /\ Step(p, "issue", "idle") /\ Unlock(p)
             /\ Mint \/ UNCHANGED <<row, issued>>
    BY <1>1, <1>4 DEF Unlock
  <1> QED
    BY <1>2, <1>3, <1>4 DEF Issue

LEMMA SecretsStep ==
  RelayTypeInv /\ SecretsKnown /\ [RelayNext]_relayVars => SecretsKnown'
  <1> SUFFICES ASSUME RelayTypeInv, SecretsKnown, [RelayNext]_relayVars
               PROVE  SecretsKnown'
    OBVIOUS
  <1> USE RelayAssumption
      DEF RelayTypeInv, RelayTypeOK, SecretsKnown, Secrets, StepWith, Step, Smooth
  <1>0. Mint => /\ row'.hash = issued + 1 /\ issued' = issued + 1
                /\ issued \in Nat /\ issued' \in Nat
    BY DEF Mint
  <1>1. ASSUME NEW p \in Parties,
               LoadSecret(p) \/ TakeLock(p) \/ Recheck(p) \/ Persist(p) \/ Reload(p)
                 \/ Compare(p) \/ Unlink(p)
        PROVE  SecretsKnown'
    BY <1>1 DEF LoadSecret, TakeLock, Recheck, AfterProvision, Persist, Reload, Compare,
                Unlink
  <1>2. ASSUME NEW p \in Parties, Issue(p) PROVE SecretsKnown'
    <2>1. /\ Mint \/ UNCHANGED <<row, issued>>
          /\ disk' = disk
          /\ held' = [held EXCEPT ![p] = held'[p]]
          /\ rstep' = [rstep EXCEPT ![p] = rstep'[p]]
          /\ rstep'[p] \in {"persist", "reload", "idle"}
          /\ held'[p] = 0 \/ (Mint /\ held'[p] = issued + 1)
      BY <1>2, IssueEffect
    <2> QED
      BY <1>0, <2>1
  <1>3. ASSUME NEW p \in Parties, Confirm(p) PROVE SecretsKnown'
    <2>1. row'.hash = row.hash
      BY <1>3 DEF Confirm
    <2> QED
      BY <1>3, <2>1 DEF Confirm, AfterProvision
  <1>4. ASSUME NEW p \in Parties, Fetch(p) PROVE SecretsKnown'
    BY <1>4 DEF Fetch, SecretRejected
  <1>5. ASSUME NEW p \in Setups, SetupBegins(p) PROVE SecretsKnown'
    BY <1>5 DEF SetupBegins, Parties
  <1>6. ASSUME NEW t \in Telegrams, Handshake(t) PROVE SecretsKnown'
    BY <1>0, <1>6 DEF Handshake, Parties
  <1>7. CASE LateIssue
    BY <1>0, <1>7 DEF LateIssue
  <1>8. CASE FloorPasses \/ ServerForgets
    BY <1>8 DEF FloorPasses, ServerForgets, NoRow
  <1>9. ASSUME NEW dead, RelayDeath(dead) PROVE SecretsKnown'
    BY <1>9 DEF RelayDeath
  <1>10. CASE UNCHANGED relayVars
    BY <1>10 DEF relayVars
  <1> QED
    BY <1>1, <1>2, <1>3, <1>4, <1>5, <1>6, <1>7, <1>8, <1>9, <1>10
       DEF RelayNext, Provisions

LEMMA AloneStep ==
  RelayTypeInv /\ HandshakeAlone /\ [RelayNext]_relayVars => HandshakeAlone'
  <1> SUFFICES ASSUME RelayTypeInv, HandshakeAlone, [RelayNext]_relayVars
               PROVE  HandshakeAlone'
    OBVIOUS
  <1> USE RelayAssumption
      DEF RelayTypeInv, RelayTypeOK, TelegramSteps, HandshakeAlone, Busy, Parties, Smooth,
          History
  \* Steps that begin no handshake and take no lock.
  <1>1. ASSUME NEW p \in Parties,
               LoadSecret(p) \/ Recheck(p) \/ Issue(p) \/ Persist(p) \/ Confirm(p)
                 \/ Reload(p) \/ Fetch(p) \/ Compare(p) \/ Unlink(p)
        PROVE  HandshakeAlone'
    <2>1. /\ overlapped' = overlapped
          /\ mutex' \in {mutex, Nobody}
          /\ rstep[p] # "idle" \/ p \in Loops
          /\ \A q \in Parties \ {p} : rstep'[q] = rstep[q]
      <3>1. CASE LoadSecret(p) \/ Recheck(p) \/ Reload(p) \/ Fetch(p)
        BY <3>1 DEF LoadSecret, Recheck, Reload, Fetch, Unlock, StepWith, Step
      <3>2. CASE Issue(p)
        BY <3>2, IssueEffect
      <3>3. CASE Persist(p) \/ Confirm(p) \/ Compare(p) \/ Unlink(p)
        BY <3>3 DEF Persist, Confirm, Compare, Unlink, Unlock, StepWith, Step
      <3> QED
        BY <1>1, <3>1, <3>2, <3>3
    <2> QED
      BY <2>1
  <1>2. ASSUME NEW p \in Parties, TakeLock(p) PROVE HandshakeAlone'
    <2>1. /\ rstep[p] \in {"lock", "reject"} /\ p \notin Telegrams
          /\ \A q \in Parties \ {p} : rstep'[q] = rstep[q]
          /\ ~overlapped' => \A t \in Telegrams : rstep[t] = "idle"
      BY <1>2 DEF TakeLock, StepWith, Step
    <2> QED
      BY <2>1
  <1>3. ASSUME NEW p \in Setups, SetupBegins(p) PROVE HandshakeAlone'
    BY <1>3 DEF SetupBegins, StepWith, Step
  <1>4. ASSUME NEW t \in Telegrams, Handshake(t) PROVE HandshakeAlone'
    BY <1>4 DEF Handshake, StepWith
  <1>5. CASE LateIssue \/ FloorPasses \/ ServerForgets
    BY <1>5 DEF LateIssue, FloorPasses, ServerForgets
  <1>6. ASSUME NEW dead, RelayDeath(dead) PROVE HandshakeAlone'
    BY <1>6 DEF RelayDeath
  <1>7. CASE UNCHANGED relayVars
    BY <1>7 DEF relayVars
  <1> QED
    BY <1>1, <1>2, <1>3, <1>4, <1>5, <1>6, <1>7 DEF RelayNext, Provisions

LEMMA DiskStep == RelayInv /\ [RelayNext]_relayVars => DiskFollows'
  <1> SUFFICES ASSUME RelayInv, [RelayNext]_relayVars, ~overlapped'
               PROVE  DiskFollows'
    BY DEF DiskFollows
  <1> USE RelayAssumption DEF RelayInv, DiskFollows, Stranded, Smooth, History, Locked
  <1>0. /\ RelayTypeOK
        /\ \A t \in Telegrams : rstep[t] \in {"idle", "persist", "confirm"}
    BY DEF RelayTypeInv, TelegramSteps
  <1>a. Mint => row'.confirmed = FALSE /\ ~row.confirmed
    BY DEF Mint
  \* Steps that leave disk and row alone, and bring nobody to a write.
  <1>1. ASSUME NEW p \in Parties,
               LoadSecret(p) \/ TakeLock(p) \/ Recheck(p) \/ Reload(p) \/ Fetch(p)
        PROVE  DiskFollows'
    BY <1>0, <1>1 DEF LoadSecret, TakeLock, Recheck, AfterProvision, Reload, Fetch,
                      StepWith, Step, RelayTypeOK
  <1>2. ASSUME NEW p \in Parties, Issue(p) PROVE DiskFollows'
    <2>1. /\ overlapped' = overlapped /\ disk' = disk
          /\ \A q \in Parties \ {p} : rstep'[q] = rstep[q] /\ held'[q] = held[q]
          /\ rstep'[p] \in {"persist", "reload", "idle"}
          /\ rstep'[p] = "persist" => Mint
          /\ Mint \/ row' = row
      BY <1>0, <1>2, IssueEffect DEF RelayTypeOK
    <2> QED
      BY <1>0, <1>a, <2>1 DEF RelayTypeOK
  <1>3. ASSUME NEW p \in Parties, Persist(p) PROVE DiskFollows'
    <2>1. overlapped' = overlapped /\ row' = row /\ rstep[p] = "persist"
      BY <1>3 DEF Persist, StepWith, Step
    <2>2. \A q \in Parties \ {p} : rstep[q] \notin Locked
      BY <2>1, OneProvisioner
    <2> QED
      BY <1>0, <1>3, <2>1, <2>2 DEF Persist, StepWith, Step, RelayTypeOK
  <1>4. ASSUME NEW p \in Parties, Confirm(p) PROVE DiskFollows'
    <2>1. overlapped' = overlapped /\ disk' = disk /\ rstep[p] = "confirm"
      BY <1>4 DEF Confirm, StepWith, Step
    <2>2. \A q \in Parties \ {p} : rstep[q] \notin Locked
      BY <2>1, OneProvisioner
    <2>3. row'.hash = row.hash
            /\ (row'.confirmed => row.confirmed \/ row.hash = held[p])
      BY <1>0, <1>4 DEF Confirm, RelayTypeOK
    <2> QED
      BY <1>0, <1>4, <2>1, <2>2, <2>3 DEF Confirm, AfterProvision, StepWith, Step,
                                            RelayTypeOK
  <1>5. ASSUME NEW p \in Parties, Compare(p) PROVE DiskFollows'
    BY <1>0, <1>5 DEF Compare, StepWith, Step, RelayTypeOK
  \* What is removed is on disk and not what the server has: nothing is confirmed.
  <1>6. ASSUME NEW p \in Parties, Unlink(p) PROVE DiskFollows'
    <2>1. overlapped' = overlapped /\ row' = row /\ rstep[p] = "unlink"
      BY <1>6 DEF Unlink, StepWith, Step
    <2>2. \A q \in Parties \ {p} : rstep[q] \notin Locked
      BY <2>1, OneProvisioner
    <2>3. ~row.confirmed
      BY <2>1 DEF SecretsKnown
    <2> QED
      BY <1>0, <1>6, <2>1, <2>2, <2>3 DEF Unlink, StepWith, Step, RelayTypeOK
  <1>7. ASSUME NEW p \in Setups, SetupBegins(p) PROVE DiskFollows'
    BY <1>0, <1>7 DEF SetupBegins, StepWith, Step, RelayTypeOK, Parties
  <1>8. ASSUME NEW t \in Telegrams, Handshake(t) PROVE DiskFollows'
    BY <1>0, <1>a, <1>8 DEF Handshake, StepWith, RelayTypeOK, Parties
  <1>9. CASE LateIssue \/ FloorPasses \/ ServerForgets
    BY <1>0, <1>a, <1>9 DEF LateIssue, FloorPasses, ServerForgets, NoRow, RelayTypeOK
  <1>10. ASSUME NEW dead, RelayDeath(dead) PROVE DiskFollows'
    BY <1>0, <1>10 DEF RelayDeath, RelayTypeOK
  <1>11. CASE UNCHANGED relayVars
    BY <1>11 DEF relayVars
  <1> QED
    BY <1>1, <1>2, <1>3, <1>4, <1>5, <1>6, <1>7, <1>8, <1>9, <1>10, <1>11
       DEF RelayNext, Provisions

LEMMA RelayInvAlways == RelaySpec => []RelayInv
  <1>1. RelayInit => RelayInv
    <2> SUFFICES ASSUME RelayInit PROVE RelayInv
      OBVIOUS
    <2> USE RelayAssumption DEF RelayInit, NoRow
    <2>1. RelayTypeInv
      <3>1. row \in [hash : Secrets, confirmed : BOOLEAN]
        BY DEF Secrets
      <3>2. \A p \in Parties : rstep[p] = "idle" /\ mutex # p
        OBVIOUS
      <3>3. rstep \in [Parties -> RelaySteps] /\ held \in [Parties -> Secrets]
        BY DEF RelaySteps, Secrets
      <3>4. /\ TelegramSteps
            /\ \A p \in Loops \cup Setups : rstep[p] \notin Locked /\ mutex # p
        BY <3>2 DEF TelegramSteps, Locked, Parties
      <3>5. disk \in Secrets /\ issued \in Secrets /\ troubles \in 0 .. MaxTroubles
        BY DEF Secrets
      <3> QED
        BY <3>1, <3>3, <3>4, <3>5 DEF RelayTypeInv, RelayTypeOK
    <2>2. SecretsKnown
      BY DEF SecretsKnown
    <2>3. HandshakeAlone
      BY DEF HandshakeAlone, Busy, Parties
    <2>4. DiskFollows
      BY DEF DiskFollows, Stranded
    <2> QED
      BY <2>1, <2>2, <2>3, <2>4 DEF RelayInv
  <1>2. RelayInv /\ [RelayNext]_relayVars => RelayInv'
    BY RelayTypeStep, SecretsStep, AloneStep, DiskStep DEF RelayInv
  <1> QED
    BY <1>1, <1>2, PTL DEF RelaySpec

\* Type correctness of the relay secret: whoever works on it holds the lock.
THEOREM RelayTypeCorrect == RelaySpec => []RelayTypeOK
  BY RelayInvAlways, PTL DEF RelayInv, RelayTypeInv

\* For any number of loops and setup commands, whatever answers are lost, writes
\* fail and processes die: as long as no handshake overlaps another party, the
\* server confirms no secret but the one on disk.
THEOREM OnlyOverlapStrands == RelaySpec => []StrandedByOverlap
  <1>1. RelayInv => StrandedByOverlap
    BY DEF RelayInv, DiskFollows, StrandedByOverlap
  <1> QED
    BY <1>1, RelayInvAlways, PTL

-----------------------------------------------------------------------------
(* The run of MCDaemon.                                                     *)

\* The undisturbed handoff is the handoff of a single life, and so one of many.
LEMMA LoneStepsAreSteps == HandoffTypeOK /\ Lone!HandoffNext => HandoffNext
  <1> SUFFICES ASSUME HandoffTypeOK, Lone!HandoffNext PROVE HandoffNext
    OBVIOUS
  <1>1. Lone!Boot => Boot
    <2>1. boot < 1 => boot < MaxBoots
      BY ManualHandoffAssumption DEF HandoffTypeOK
    <2> QED
      BY <2>1, Zenon DEF Lone!Boot, Boot, Lone!outcomeVars, outcomeVars, Lone!senderVars,
                 senderVars
  <1>2. Lone!Startup => Startup
    BY <1>1, Zenon
       DEF Lone!Startup, Startup, Lone!InstallHandler, InstallHandler, Lone!PublishPid,
           PublishPid, Lone!StartLoops, StartLoops, Lone!outcomeVars, outcomeVars,
           Lone!senderVars, senderVars
  <1>3. Lone!Shutdown => Shutdown
    BY Zenon
       DEF Lone!Shutdown, Shutdown, Lone!CancelContext, Lone!JoinLoops, JoinLoops,
           Lone!RemovePid, RemovePid, Lone!StopNotify, StopNotify, Lone!End, End,
           Lone!Running, Running, Lone!outcomeVars, outcomeVars, Lone!senderVars,
           senderVars
  <1>4. Lone!Waker => Waker
    BY Zenon
       DEF Lone!Waker, Waker, Lone!Wake, Wake, Lone!LoadOutcome, LoadOutcome,
           Lone!PingOutcome, PingOutcome, Lone!RemoveOutcome, RemoveOutcome,
           Lone!outcomeVars, outcomeVars, Lone!senderVars, senderVars
  <1>5. ~Lone!AgeOutcome
    BY DEF Lone!AgeOutcome
  <1>6. ASSUME NEW s \in Runs, Lone!Handoff(s) PROVE Handoff(s)
    BY <1>6, Zenon
       DEF Lone!Handoff, Handoff, Lone!ReadPid, ReadPid, Lone!ProbeDaemon, ProbeDaemon,
           Lone!WriteTmp, WriteTmp, Lone!RenameTmp, RenameTmp, Lone!RemoveTmp, RemoveTmp,
           Lone!Kill, Kill, Lone!TargetAlive, TargetAlive, Lone!Running, Running,
           Lone!Armed, Armed, Lone!daemonVars, daemonVars, Lone!outcomeVars, outcomeVars
  <1> QED
    BY <1>2, <1>3, <1>4, <1>5, <1>6 DEF Lone!HandoffNext, HandoffNext

LEMMA HandoffSubjectTyped == MCSpec => []HandoffTypeOK
  <1>1. DaemonInit => HandoffTypeOK
    BY HandoffTypeInit DEF DaemonInit
  <1>2. HandoffTypeOK /\ [DaemonNext]_daemonState => HandoffTypeOK'
    <2>1. HandoffTypeOK /\ HandoffStep => HandoffNext
      BY LoneStepsAreSteps DEF HandoffStep
    <2>2. [DaemonNext]_daemonState => HandoffStep \/ UNCHANGED handoffVars
      BY DEF DaemonNext, daemonState, SuperviseStep, StatusStep, RelayStep, SchedulerStep
    <2> QED
      BY <2>1, <2>2, HandoffTypeStep
  <1> QED
    BY <1>1, <1>2, PTL DEF MCSpec

\* Every behaviour of the run is one of each module: what is proved of a module
\* holds of the run.
THEOREM DaemonRunIsEachProtocol ==
  MCSpec => HandoffSpec /\ SuperviseSpec /\ StatusSpec /\ RelaySpec /\ SchedulerSpec
  <1>1. DaemonInit => HandoffInit /\ SuperviseInit /\ StatusInit /\ RelayInit
                        /\ SchedulerInit
    BY DEF DaemonInit
  <1>2. HandoffTypeOK /\ [DaemonNext]_daemonState =>
          /\ [HandoffNext]_handoffVars /\ [SuperviseNext]_superviseVars
          /\ [StatusNext]_statusVars /\ [RelayNext]_relayVars
          /\ [SchedulerNext]_schedulerVars
    BY LoneStepsAreSteps
       DEF DaemonNext, daemonState, HandoffStep, SuperviseStep, StatusStep, RelayStep,
           SchedulerStep
  <1> QED
    BY <1>1, <1>2, HandoffSubjectTyped, PTL
       DEF MCSpec, HandoffSpec, SuperviseSpec, StatusSpec, RelaySpec, SchedulerSpec

\* Every variable of the run keeps to its type.
THEOREM DaemonRunTypeCorrect == MCSpec => []DaemonTypeOK
  BY DaemonRunIsEachProtocol, HandoffTypeCorrect, SuperviseTypeCorrect,
     StatusTypeCorrect, RelayTypeCorrect, SchedulerTypeCorrect, PTL DEF DaemonTypeOK
=============================================================================
