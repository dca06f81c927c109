---------------------------- MODULE SupervisedRun ----------------------------
(***************************************************************************)
(* The daemon's supervision of its scheduled backups: scheduleLoop,        *)
(* runOnce and reportNotifyOutcomes (cmd/proxsave/daemon.go), with the     *)
(* backup child as the process it launches, bounds in time, kills, and     *)
(* whose exit status it turns into a ping of the proxsave-backup check.    *)
(*                                                                         *)
(* Runs are numbered in the order of their schedule; the number stands for *)
(* the run id (rid) that tags the child's notify-results file.  Of the     *)
(* child only what the daemon can tell apart is kept: whether it reached   *)
(* the backup, which channels it notified, and how it ended.  Sending a    *)
(* ping and recording it in the status file is one step: only the          *)
(* supervising goroutine writes these records.                             *)
(***************************************************************************)
EXTENDS Naturals

CONSTANTS
  MaxRuns,    (* bound: scheduled runs in one behaviour                    *)
  Channels,   (* notification channels                                     *)
  Outcomes,   (* the severities per channel that a child may hand over     *)
  LossyPings  (* TRUE: a ping may not reach the monitor                    *)

Severities == {"ok", "error", "off"}   \* "off": not enabled, or "disabled"

ASSUME SupervisedRunAssumption ==
  /\ MaxRuns \in Nat \ {0}
  /\ Outcomes \subseteq [Channels -> Severities]
  /\ LossyPings \in BOOLEAN

VARIABLES
  backupEnabled, (* BACKUP_ENABLED as the daemon read it at its start      *)
  rid,           (* the current or last scheduled run; 0: none yet         *)
  dpc,           (* the next step of the supervising goroutine             *)
  shutdown,      (* the daemon's context is cancelled                      *)
  deadline,      (* the run context has exceeded MAX_RUN_DURATION          *)
  child,         (* what the child is doing                                *)
  code,          (* its exit status, once it has ended                     *)
  results,       (* .notify_results.json: the rid and a channel's severity *)
  rows,          (* the notify-<channel> records of the status file        *)
  todo,          (* the reported channels the daemon has yet to record     *)
  panelRun,      (* history: the run whose results were last accepted     *)
  unwritten,     (* history: channels whose row of that run is not written *)
  verdict,       (* history: the verdict the monitor has of each run       *)
  completed,     (* history: the runs whose child made a backup, exit 0    *)
  terminated,    (* history: the runs whose child was sent SIGTERM         *)
  sent           (* history: the severities the child of the run put there *)

panelVars == <<rows, todo, panelRun, unwritten>>
superVars == <<backupEnabled, rid, dpc, shutdown, deadline, panelVars>>
childVars == <<child, code, results>>
superHist  == <<verdict, completed, terminated, sent>>
superviseVars  == <<superVars, childVars, superHist>>

RunIds     == 1 .. MaxRuns
Skipped    == 16      \* types.ExitBackupSkipped
Warned     == 1       \* types.ExitGenericError: done, with warnings
Failed     == 4       \* any other status
NothingSent == [c \in Channels |-> "off"]

SuperviseTypeOK ==
  /\ backupEnabled \in BOOLEAN /\ shutdown \in BOOLEAN /\ deadline \in BOOLEAN
  /\ rid \in 0 .. MaxRuns
  /\ dpc \in {"idle", "launch", "wait", "returned", "notify", "record", "stopped"}
  /\ child \in {"none", "checking", "working", "notifying", "exiting", "ended"}
  /\ code \in {0, Warned, Failed, Skipped}
  /\ results \in [rid : 0 .. MaxRuns, sev : [Channels -> Severities]]
  /\ rows \in [Channels -> {"none", "up", "down"}]
  /\ todo \subseteq Channels
  /\ panelRun \in 0 .. MaxRuns
  /\ unwritten \subseteq Channels
  /\ completed \subseteq RunIds
  /\ terminated \subseteq RunIds
  /\ verdict \in [RunIds -> {"none", "success", "failure", "hang"}]
  /\ sent \in [RunIds -> [Channels -> Severities]]

SuperviseInit ==
  /\ backupEnabled \in BOOLEAN
  /\ rid = 0 /\ dpc = "idle" /\ shutdown = FALSE /\ deadline = FALSE
  /\ child = "none" /\ code = 0
  /\ results = [rid |-> 0, sev |-> NothingSent]
  /\ rows = [c \in Channels |-> "none"]
  /\ todo = {} /\ panelRun = 0 /\ unwritten = {}
  /\ completed = {} /\ terminated = {}
  /\ verdict = [r \in RunIds |-> "none"]
  /\ sent = [r \in RunIds |-> NothingSent]

-----------------------------------------------------------------------------
(* The supervising goroutine                                               *)

\* The timer fires.  With BACKUP_ENABLED=false there is no child and no ping;
\* otherwise /start is sent, which nothing below depends on.
ScheduleRun ==
  /\ dpc = "idle"
  /\ ~shutdown
  /\ rid < MaxRuns
  /\ rid' = rid + 1
  /\ dpc' = IF backupEnabled THEN "launch" ELSE "idle"
  /\ deadline' = FALSE
  /\ child' = "none" /\ code' = 0
  /\ UNCHANGED <<backupEnabled, shutdown, panelVars, results, superHist>>

\* cmd.Run: the child starts, or cannot be started, which counts as exit 1;
\* under a cancelled context it is not started.
Launch ==
  /\ dpc = "launch"
  /\ \/ ~shutdown /\ dpc' = "wait" /\ child' = "checking" /\ UNCHANGED code
     \/ dpc' = "returned" /\ child' = "ended" /\ code' = Warned
  /\ UNCHANGED <<backupEnabled, rid, shutdown, deadline, panelVars, results, superHist>>

\* The run context expires, or the daemon is told to stop: the child, while it
\* lives, gets SIGTERM.  A context can still expire when the child has ended.
SignalChild == terminated' = IF child \notin {"none", "ended"}
                             THEN terminated \cup {rid} ELSE terminated

Expire ==
  /\ dpc \in {"wait", "returned"}
  /\ ~deadline
  /\ ~shutdown
  /\ deadline' = TRUE
  /\ SignalChild
  /\ UNCHANGED <<backupEnabled, rid, dpc, shutdown, panelVars, childVars,
                 verdict, completed, sent>>

Stop ==
  /\ dpc # "stopped"
  /\ ~shutdown
  /\ shutdown' = TRUE
  /\ SignalChild
  /\ UNCHANGED <<backupEnabled, rid, dpc, deadline, panelVars, childVars,
                 verdict, completed, sent>>

Wait ==
  /\ dpc = "wait"
  /\ child = "ended"
  /\ dpc' = "returned"
  /\ UNCHANGED <<backupEnabled, rid, shutdown, deadline, panelVars, childVars, superHist>>

Report(v) ==
  /\ \/ verdict' = [verdict EXCEPT ![rid] = v]
     \/ LossyPings /\ UNCHANGED verdict
  /\ UNCHANGED <<backupEnabled, rid, shutdown, deadline, panelVars, childVars,
                 completed, terminated, sent>>

\* Interrupted by the shutdown: silent.
ReturnStopped ==
  /\ dpc = "returned"
  /\ shutdown
  /\ dpc' = "idle"
  /\ UNCHANGED <<backupEnabled, rid, shutdown, deadline, panelVars, childVars, superHist>>

ReturnHang ==
  /\ dpc = "returned"
  /\ ~shutdown
  /\ deadline
  /\ dpc' = "idle"
  /\ Report("hang")

\* No backup was performed: no outcome.
ReturnSkipped ==
  /\ dpc = "returned"
  /\ ~shutdown
  /\ ~deadline
  /\ code = Skipped
  /\ dpc' = "idle"
  /\ UNCHANGED <<backupEnabled, rid, shutdown, deadline, panelVars, childVars, superHist>>

ReturnFinished_SkipIsSuccess ==
  /\ dpc = "returned"
  /\ ~shutdown
  /\ ~deadline
  /\ dpc' = "notify"
  /\ Report(IF code \in {0, Skipped} THEN "success" ELSE "failure")

ReturnFinished_Retried ==
  /\ dpc = "returned"
  /\ ~shutdown
  /\ ~deadline
  /\ code # Skipped
  /\ dpc' \in {"returned", "notify"}
  /\ Report(IF code = 0 THEN "success" ELSE "failure")

ReturnFinished ==
  /\ dpc = "returned"
  /\ ~shutdown
  /\ ~deadline
  /\ code # Skipped
  /\ dpc' = "notify"
  /\ Report(IF code = 0 THEN "success" ELSE "failure")

\* severityToSuffix: anything imperfect is down, a channel not used is skipped.
Row(severity) == CASE severity = "ok" -> "up"
                   [] severity = "error" -> "down"
                   [] OTHER -> "none"

\* A results file of another run is rejected.
Rejected_AnyRun == results.rid = 0
Rejected == results.rid # rid

\* The channels that get a row.
Reported == {c \in Channels : Row(results.sev[c]) # "none"}

LoadResults ==
  /\ dpc = "notify"
  /\ \/ /\ ~Rejected
        /\ dpc' = "record"
        /\ todo' = Reported
        /\ panelRun' = rid
        /\ unwritten' = Channels
     \/ /\ dpc' = "idle"      \* rejected, without an entry, or unreadable
        /\ UNCHANGED <<todo, panelRun, unwritten>>
  /\ UNCHANGED <<backupEnabled, rid, shutdown, deadline, rows, childVars, superHist>>

\* recordNotifyPing, one channel after the other; a failed write is logged.
RecordRow(c) ==
  /\ dpc = "record"
  /\ c \in todo
  /\ todo' = todo \ {c}
  /\ \/ /\ rows' = [rows EXCEPT ![c] = Row(results.sev[c])]
        /\ unwritten' = unwritten \ {c}
     \/ UNCHANGED <<rows, unwritten>>
  /\ UNCHANGED <<backupEnabled, rid, dpc, shutdown, deadline, panelRun, childVars, superHist>>

PruneRows_EmptiesAll ==
  /\ dpc = "record"
  /\ todo = {}
  /\ dpc' = "idle"
  /\ \/ /\ rows' = [c \in Channels |-> "none"]
        /\ unwritten' = unwritten \cap Reported
     \/ UNCHANGED <<rows, unwritten>>
  /\ UNCHANGED <<backupEnabled, rid, shutdown, deadline, todo, panelRun, childVars, superHist>>

\* pruneNotifyRecords, last: the rows of the channels the run did not report.
PruneRows ==
  /\ dpc = "record"
  /\ todo = {}
  /\ dpc' = "idle"
  /\ \/ /\ rows' = [c \in Channels |-> IF c \in Reported THEN rows[c] ELSE "none"]
        /\ unwritten' = unwritten \cap Reported
     \/ UNCHANGED <<rows, unwritten>>
  /\ UNCHANGED <<backupEnabled, rid, shutdown, deadline, todo, panelRun, childVars, superHist>>

Exit ==
  /\ dpc = "idle"
  /\ shutdown
  /\ dpc' = "stopped"
  /\ UNCHANGED <<backupEnabled, rid, shutdown, deadline, panelVars, childVars, superHist>>

\* The daemon dies at any point.  systemd then ends what is left of its control
\* group, SIGTERM first.
SupervisorDies ==
  /\ dpc # "stopped"
  /\ dpc' = "stopped"
  /\ shutdown' = TRUE
  /\ todo' = {}
  /\ SignalChild
  /\ UNCHANGED <<backupEnabled, rid, deadline, rows, panelRun, unwritten, childVars,
                 verdict, completed, sent>>

\* systemd starts the daemon again, which reads its configuration anew, once
\* the control group is empty.
Restart ==
  /\ dpc = "stopped"
  /\ child \in {"none", "ended"}
  /\ dpc' = "idle"
  /\ shutdown' = FALSE
  /\ deadline' = FALSE
  /\ backupEnabled' \in BOOLEAN
  /\ UNCHANGED <<rid, panelVars, childVars, superHist>>

-----------------------------------------------------------------------------
(* The backup child                                                        *)

ChildEnds(c) ==
  /\ child' = "ended"
  /\ code' = c
  /\ UNCHANGED <<results, superVars, verdict, terminated, sent>>

\* Another backup holds the lock, or BACKUP_ENABLED now reads false.
ChildSkips ==
  /\ child = "checking"
  /\ ChildEnds(Skipped)
  /\ UNCHANGED completed

ChildWorks ==
  /\ child = "checking"
  /\ child' = "working"
  /\ UNCHANGED <<code, results, superVars, superHist>>

\* The backup succeeds, with or without warnings, or it or the checks before
\* it fail; then the channels are notified.  What the exit status will be is
\* settled first.
ChildNotifies ==
  /\ child \in {"checking", "working"}
  /\ code' \in IF child = "working" THEN {0, Warned, Failed} ELSE {Failed}
  /\ child' = "notifying"
  /\ UNCHANGED <<results, superVars, superHist>>

\* dispatchNotifications over the channels enabled for this run, and
\* persistNotifyResults, whose write may fail.
ChildRecords ==
  /\ child = "notifying"
  /\ \E sev \in Outcomes :
       \/ /\ results' = [rid |-> rid, sev |-> sev]
          /\ sent' = [sent EXCEPT ![rid] = sev]
       \/ UNCHANGED <<results, sent>>
  /\ child' = "exiting"
  /\ UNCHANGED <<code, superVars, verdict, completed, terminated>>

ChildExits ==
  /\ child = "exiting"
  /\ ChildEnds(code)
  /\ completed' = IF code = 0 THEN completed \cup {rid} ELSE completed

\* A crash, or the death SIGTERM, and SIGKILL after the grace, bring about.
ChildDies ==
  /\ child \in {"checking", "working", "notifying", "exiting"}
  /\ ChildEnds(Failed)
  /\ UNCHANGED completed


\* SIGKILL, childShutdownGrace after the SIGTERM.
Killed == (deadline \/ shutdown) /\ ChildDies

Supervise ==
  \/ ScheduleRun \/ Launch \/ Wait \/ ReturnStopped \/ ReturnHang
  \/ ReturnSkipped \/ ReturnFinished \/ LoadResults \/ PruneRows \/ Exit \/ Restart
  \/ \E c \in Channels : RecordRow(c)
Child ==
  \/ ChildSkips \/ ChildWorks \/ ChildNotifies \/ ChildRecords \/ ChildExits
  \/ ChildDies

SuperviseNext == Supervise \/ Expire \/ Stop \/ SupervisorDies \/ Child

SuperviseSpec == SuperviseInit /\ [][SuperviseNext]_superviseVars

\* The goroutine runs, time passes, and the kernel delivers a SIGKILL.  The
\* child owes nothing: it may hang.
SuperviseFairSpec == SuperviseSpec /\ WF_superviseVars(Supervise) /\ WF_superviseVars(Expire) /\ WF_superviseVars(Killed)

-----------------------------------------------------------------------------
(* Properties *)

\* The check goes green for a run only if its child made a backup and exited
\* with 0: not for a skip, a kill, a failed start or another run's backup.
NoFalseGreen == \A r \in RunIds : verdict[r] = "success" => r \in completed

\* What the daemon put to an end itself is reported as a hang, or not at all
\* when it was for the shutdown: never as a success or as the child's failure.
SignalledIsHangOrSilent ==
  \A r \in terminated : verdict[r] \in {"none", "hang"}

\* What the monitor is told of a run is what became of it, however the end of
\* the child, its time budget and a shutdown fall together.
VerdictIsTrue == NoFalseGreen /\ SignalledIsHangOrSilent

\* Only the run under supervision gets a verdict, and no verdict is revised.
VerdictIsFinal ==
  [][\A r \in RunIds : verdict[r] # "none" => verdict'[r] = verdict[r]]_superviseVars

\* A notify row that changes becomes what the child of the run under
\* supervision recorded for its channel: never a result of another run, of one
\* that hung or of one that was skipped.
RowsAreOfThisRun ==
  [][\A c \in Channels : rows'[c] # rows[c] => rows'[c] = Row(sent[rid][c])]_superviseVars

\* The rows are those of one run, the last whose results were accepted, also
\* while the next child is at work: the only exceptions are the rows that are
\* not written yet, whose write or pruning failed, or before which the daemon
\* died.  A file without a single entry is not accepted: the rows stay.
PanelIsOfOneRun ==
  \A c \in Channels \ unwritten :
    rows[c] = IF panelRun = 0 THEN "none" ELSE Row(sent[panelRun][c])

=============================================================================
