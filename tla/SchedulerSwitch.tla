--------------------------- MODULE SchedulerSwitch ---------------------------
(***************************************************************************)
(* Who starts the daily backup: a line in root's crontab or the resident   *)
(* daemon under systemd (cmd/proxsave: daemon_setup.go, daemon_service.go, *)
(* and what upgrade.go and install.go call of them).  Four commands switch *)
(* between the two, each a sequence of crontab, systemctl and file         *)
(* operations of which any may fail, most with a mere warning, and after   *)
(* any of which the command may die.  What one leaves behind is what the   *)
(* next starts from.                                                       *)
(***************************************************************************)

VARIABLES
  cron,       (* the crontab has a line for proxsave                       *)
  unit,       (* proxsave-daemon.service is on disk                        *)
  enabled,    (* systemd starts it at boot, if it is there                 *)
  resident,   (* the daemon runs                                           *)
  mode,       (* SCHEDULER_MODE of backup.env                              *)
  optOut,     (* DAEMON_OPT_OUT of backup.env                              *)
  command,    (* the command at work, or the last one                      *)
  cmdStep,    (* its next step, "idle" when it is over                     *)
  engine,     (* the engine it switches to, "none" if it turned out not to *)
  troubled,   (* history: one of its steps failed, or it died              *)
  cronFailed, (* history: the line could not be written, and nothing has
                 scheduled backups anew since                              *)
  orphaned,   (* history: the unit was deleted under a running daemon      *)
  optedOut    (* history: --daemon-remove was the last word on the engine  *)

hostVars      == <<cron, unit, enabled, resident>>
confVars      == <<mode, optOut>>
commandVars   == <<command, cmdStep, engine>>
schedHist     == <<troubled, cronFailed, orphaned, optedOut>>
schedulerVars == <<hostVars, confVars, commandVars, schedHist>>

Engines  == {"cron", "daemon"}
Commands == {"setup", "remove", "upgrade", "install"}

SchedulerTypeOK ==
  /\ {cron, unit, enabled, resident, optOut} \subseteq BOOLEAN
  /\ {troubled, cronFailed, orphaned, optedOut} \subseteq BOOLEAN
  /\ mode \in Engines /\ engine \in Engines \cup {"none"}
  /\ command \in Commands
  /\ cmdStep \in {"idle", "wait", "wizard", "addCron", "recordCron", "disable",
                  "deleteUnit", "reload", "writeUnit", "enable", "dropCron",
                  "recordDaemon", "restart"}

\* A host in order, on either engine.
SchedulerInit ==
  /\ mode \in Engines /\ optOut \in BOOLEAN /\ (mode = "daemon" => ~optOut)
  /\ cron = (mode = "cron")
  /\ unit = ~cron /\ enabled = ~cron /\ resident = ~cron
  /\ command = "install" /\ cmdStep = "idle" /\ engine = mode
  /\ troubled = FALSE /\ cronFailed = FALSE /\ orphaned = FALSE /\ optedOut = FALSE

-----------------------------------------------------------------------------

Invoke(c, step, e) ==
  /\ cmdStep = "idle"
  /\ command' = c /\ cmdStep' = step /\ engine' = e
  /\ troubled' = FALSE
  /\ UNCHANGED <<hostVars, confVars, cronFailed, orphaned>>

\* --daemon-setup, the dashboard's install.
Setup == Invoke("setup", "writeUnit", "daemon") /\ optedOut' = FALSE

\* --daemon-remove, the dashboard's disable.
Remove == Invoke("remove", "wait", "cron") /\ UNCHANGED optedOut

\* maybeAutoMigrateDaemon; a configuration that cannot be loaded is left alone.
Upgrade ==
  /\ \/ mode = "cron" /\ ~optOut /\ Invoke("upgrade", "writeUnit", "daemon")
     \/ Invoke("upgrade", "idle", "none")
  /\ UNCHANGED optedOut

\* The install wizard, with a choice or with the configuration as it is.
InstallBegins == \E e \in Engines : Invoke("install", "wizard", e) /\ optedOut' = FALSE

CmdGoto(from, to) ==
  /\ cmdStep = from /\ cmdStep' = to
  /\ UNCHANGED command

Smoothly == UNCHANGED troubled
Botched  == troubled' = TRUE

-----------------------------------------------------------------------------
(* applyCronMode and the cron half of an install                           *)

\* A backup in progress, or a configuration without a lock path, defers it.
AwaitIdle ==
  /\ \/ CmdGoto("wait", "addCron") /\ Smoothly
     \/ CmdGoto("wait", "idle") /\ Botched
  /\ UNCHANGED <<hostVars, confVars, engine, cronFailed, orphaned, optedOut>>

\* The configuration is written first: with the opt-out it had, or without when
\* it is made from the template.  Prompts follow, at which the operator may leave.
Wizard ==
  /\ \/ CmdGoto("wizard", "addCron") /\ Smoothly
     \/ CmdGoto("wizard", "idle") /\ Botched
  /\ \/ mode' = engine /\ optOut' \in {optOut, FALSE} /\ UNCHANGED engine
     \/ UNCHANGED confVars /\ engine' = mode
  /\ UNCHANGED <<hostVars, cronFailed, orphaned, optedOut>>

\* Where an install goes once the line is written: reconcileSchedulerAfterInstall.
Reconciled == IF engine = "daemon" THEN "writeUnit" ELSE IF unit THEN "disable" ELSE "idle"

AfterCron == IF command = "remove" THEN "recordCron" ELSE Reconciled

\* migrateLegacyCronEntries logs its errors and returns nothing.
AddCron ==
  /\ CmdGoto("addCron", AfterCron)
  /\ \/ cron' = TRUE /\ cronFailed' = FALSE /\ Smoothly
     \/ UNCHANGED cron /\ cronFailed' = TRUE /\ Botched
  /\ UNCHANGED <<unit, enabled, resident, confVars, engine, orphaned, optedOut>>

\* Variant: the tombstone is not written.
RecordCron_NoTombstone ==
  /\ CmdGoto("recordCron", "disable")
  /\ \/ mode' = "cron" /\ Smoothly
     \/ UNCHANGED mode /\ Botched
  /\ UNCHANGED <<hostVars, optOut, engine, cronFailed, orphaned, optedOut>>

RecordCron ==
  /\ CmdGoto("recordCron", "disable")
  /\ \/ mode' = "cron" /\ optOut' = TRUE /\ Smoothly
     \/ UNCHANGED confVars /\ Botched
  /\ UNCHANGED <<hostVars, engine, cronFailed, orphaned, optedOut>>

\* removeDaemonService: "ignore failure so a partial/never-installed unit still
\* gets cleaned up".  Without a unit file systemctl disables and stops nothing.
Disable ==
  /\ CmdGoto("disable", "deleteUnit")
  /\ \/ unit /\ enabled' = FALSE /\ resident' = FALSE /\ Smoothly
     \/ ~unit /\ UNCHANGED <<enabled, resident>> /\ Smoothly
     \/ unit /\ Botched /\ enabled' \in {enabled, FALSE} /\ resident' \in {resident, FALSE}
  /\ UNCHANGED <<cron, unit, confVars, engine, cronFailed, orphaned, optedOut>>

DeleteUnit ==
  /\ \/ /\ CmdGoto("deleteUnit", "reload") /\ Smoothly
        /\ unit' = FALSE
        /\ orphaned' = resident
     \/ CmdGoto("deleteUnit", "idle") /\ Botched /\ UNCHANGED <<unit, orphaned>>
  /\ UNCHANGED <<cron, enabled, resident, confVars, engine, cronFailed, optedOut>>

ReloadSystemd ==
  /\ CmdGoto("reload", "idle")
  /\ \/ Smoothly /\ optedOut' = (command = "remove" /\ ~troubled)
     \/ Botched /\ UNCHANGED optedOut
  /\ UNCHANGED <<hostVars, confVars, engine, cronFailed, orphaned>>

-----------------------------------------------------------------------------
(* applyDaemonMode and the daemon half of an install                       *)

\* An error here ends the command: the host stays on cron.
WriteUnit ==
  /\ \/ CmdGoto("writeUnit", "enable") /\ unit' = TRUE /\ Smoothly
     \/ CmdGoto("writeUnit", "idle") /\ UNCHANGED unit /\ Botched
  /\ UNCHANGED <<cron, enabled, resident, confVars, engine, cronFailed, orphaned, optedOut>>

\* Variant: a daemon that could not be enabled replaces the cron line all the same.
EnableNow_Unchecked ==
  /\ \/ /\ CmdGoto("enable", "dropCron") /\ Smoothly
        /\ enabled' = TRUE /\ resident' = TRUE
        /\ cronFailed' = FALSE /\ orphaned' = FALSE
     \/ /\ CmdGoto("enable", "dropCron") /\ Botched
        /\ UNCHANGED <<enabled, resident, cronFailed, orphaned>>
  /\ UNCHANGED <<cron, unit, confVars, engine, optedOut>>

\* daemon-reload and enable --now.
EnableNow ==
  /\ \/ /\ CmdGoto("enable", "dropCron") /\ Smoothly
        /\ enabled' = TRUE /\ resident' = TRUE
        /\ cronFailed' = FALSE /\ orphaned' = FALSE
     \/ /\ CmdGoto("enable", "idle") /\ Botched
        /\ enabled' \in {enabled, TRUE} /\ resident' \in {resident, TRUE}
        /\ UNCHANGED <<cronFailed, orphaned>>
  /\ UNCHANGED <<cron, unit, confVars, engine, optedOut>>

DropCron ==
  /\ CmdGoto("dropCron", IF command = "install" THEN "restart" ELSE "recordDaemon")
  /\ \/ cron' = FALSE /\ Smoothly
     \/ UNCHANGED cron /\ Botched
  /\ UNCHANGED <<unit, enabled, resident, confVars, engine, cronFailed, orphaned, optedOut>>

\* "Config-write-first ordering is avoided"; the daemon runs by now.
RecordDaemon ==
  /\ \/ CmdGoto("recordDaemon", "restart") /\ mode' = "daemon" /\ optOut' = FALSE /\ Smoothly
     \/ CmdGoto("recordDaemon", "idle") /\ UNCHANGED confVars /\ Botched
  /\ UNCHANGED <<hostVars, engine, cronFailed, orphaned, optedOut>>

\* try-restart, or restart after an install, whose failure is logged only.
RestartResident ==
  /\ CmdGoto("restart", "idle")
  /\ Smoothly \/ Botched
  /\ UNCHANGED <<hostVars, confVars, engine, cronFailed, orphaned, optedOut>>

-----------------------------------------------------------------------------

CommandDies ==
  /\ cmdStep # "idle" /\ CmdGoto(cmdStep, "idle")
  /\ Botched
  /\ UNCHANGED <<hostVars, confVars, engine, cronFailed, orphaned, optedOut>>

\* The host boots; the daemon comes back if it is there and enabled.
HostBoots ==
  /\ cmdStep' = "idle"
  /\ troubled' = (troubled \/ cmdStep # "idle")
  /\ resident' = (unit /\ enabled)
  /\ orphaned' = FALSE
  /\ UNCHANGED <<cron, unit, enabled, confVars, command, engine, cronFailed, optedOut>>

SchedulerNext ==
  \/ Setup \/ Remove \/ Upgrade \/ InstallBegins
  \/ AwaitIdle \/ Wizard \/ AddCron \/ RecordCron \/ Disable \/ DeleteUnit \/ ReloadSystemd
  \/ WriteUnit \/ EnableNow \/ DropCron \/ RecordDaemon \/ RestartResident
  \/ CommandDies \/ HostBoots

SchedulerSpec == SchedulerInit /\ [][SchedulerNext]_schedulerVars

-----------------------------------------------------------------------------
(* Properties *)

\* "never leaves the host unscheduled": at every moment of every history of
\* commands, with any step failing or the last to be taken, a cron line or an
\* enabled unit will start the next backup, unless the line could not be written.
NeverUnscheduled == cron \/ (unit /\ enabled) \/ cronFailed

\* "makes the scheduler engine a MUTUALLY EXCLUSIVE choice": a command that switches
\* and meets no trouble leaves crontab, systemd and configuration agreed on one
\* engine, whatever failed commands before it left behind; only a daemon that could
\* not be stopped before its unit was deleted may still run next to the cron line.
EngineSettled ==
  cmdStep = "idle" /\ ~troubled /\ engine # "none" =>
    /\ mode = engine
    /\ cron = (engine = "cron")
    /\ unit = (engine = "daemon")
    /\ unit => enabled
    /\ resident => unit \/ orphaned

\* "Future upgrades will NOT reinstall it": after a --daemon-remove that met no
\* trouble no upgrade, and no failure or death of one, brings the daemon back.
OptOutIsFinal == optedOut => ~unit

\* A command that meets no trouble settles the engine, for good where it was
\* --daemon-remove.
CleanCommandSettles == EngineSettled /\ OptOutIsFinal
=============================================================================
