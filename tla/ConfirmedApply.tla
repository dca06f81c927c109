--------------------------- MODULE ConfirmedApply ---------------------------
(***************************************************************************)
(* The apply of restored configuration under a rollback timer, as the      *)
(* restore does it for the network, the firewall and the HA configuration  *)
(* and for access control, one category after another: network_apply.go,   *)
(* network_apply_workflow_ui_*.go, network_staged_install.go,              *)
(* restore_firewall.go, restore_ha.go, restore_access_control_ui.go        *)
(* (internal/orchestrator).                                                *)
(*                                                                         *)
(* The flow arms a timer, applies, and asks for a confirmation; the timer  *)
(* starts a shell script, a process of its own, that reverts unless the    *)
(* marker file is gone.  Removing the marker and stopping the timer is     *)
(* all the flow can do about it.  A category of Network also has files     *)
(* that are written and validated before anything is armed, signals that   *)
(* its script reverts, and checks for that when the operator confirms.     *)
(***************************************************************************)
EXTENDS Naturals, Sequences

CONSTANTS
  Order,    (* the categories, in the order the workflow applies them      *)
  Network   (* those that are applied the way of network_apply.go          *)

Categories == {Order[i] : i \in 1 .. Len(Order)}

ASSUME ConfirmedApplyAssumption ==
  /\ Order \in Seq(STRING)
  /\ \A i, j \in 1 .. Len(Order) : Order[i] = Order[j] => i = j
  /\ Network \subseteq Categories

VARIABLES
  turn,      (* index of the category being applied                        *)
  step,      (* the next step of its flow                                  *)
  backup,    (* the archive to fall back on: of its own, the full one, none *)
  disk,      (* the configuration in the files                             *)
  live,      (* the configuration in effect                                *)
  marker,    (* the pending marker exists                                  *)
  running,   (* the ".running" sentinel exists                             *)
  unit,      (* the timer is a systemd unit, else a background sleep       *)
  timer,     (* "unset", "set", "stopped", "fired"                         *)
  expired,   (* the time the operator has to confirm is over               *)
  script,    (* the next step of the rollback script                       *)
  outcome,   (* what the flow reported                                     *)
  stuck,     (* history: categories whose marker could not be removed, or was
                not seen to be gone, or whose sentinel was not seen        *)
  testedIn,  (* history: how far the flow was when the script found the marker *)
  spoilt     (* history: categories whose own script failed to revert      *)

flowVars   == <<turn, step, backup, outcome>>
timerVars  == <<marker, unit, timer, expired>>
scriptVars == <<running, script, testedIn, spoilt, stuck>>
applyVars  == <<flowVars, timerVars, scriptVars, disk, live>>

ApplySteps    == {"install", "offer", "validate", "arm", "timer", "apply", "prompt",
             "check", "recheck", "disarm", "stop"}
Outcomes == {"none", "skipped", "failed", "unchanged", "unguarded",
             "uncommitted", "committed"}

ApplyTypeOK ==
  /\ turn \in 1 .. Len(Order) + 1
  /\ step \in ApplySteps
  /\ backup \in [Categories -> {"unknown", "own", "full", "none"}]
  /\ disk \in [Categories -> {"old", "new"}]
  /\ live \in [Categories -> {"old", "new"}]
  /\ marker \in [Categories -> BOOLEAN]
  /\ running \in [Categories -> BOOLEAN]
  /\ unit \in [Categories -> BOOLEAN]
  /\ timer \in [Categories -> {"unset", "set", "stopped", "fired"}]
  /\ expired \in [Categories -> BOOLEAN]
  /\ script \in [Categories -> {"off", "test", "signal", "revert", "finish", "done"}]
  /\ outcome \in [Categories -> Outcomes]
  /\ testedIn \in [Categories -> {"never", "applying", "answered", "other"}]
  /\ spoilt \subseteq Categories /\ stuck \subseteq Categories

ApplyInit ==
  /\ turn = 1 /\ step = "install"
  /\ backup = [c \in Categories |-> "unknown"]
  /\ disk = [c \in Categories |-> "old"] /\ live = disk
  /\ marker = [c \in Categories |-> FALSE] /\ running = marker /\ unit = marker
  /\ expired = marker
  /\ timer = [c \in Categories |-> "unset"]
  /\ script = [c \in Categories |-> "off"]
  /\ outcome = [c \in Categories |-> "none"]
  /\ testedIn = [c \in Categories |-> "never"]
  /\ spoilt = {} /\ stuck = {}

At(c, s) == turn <= Len(Order) /\ Order[turn] = c /\ step = s

Goto(s) == step' = s /\ UNCHANGED <<turn, outcome>>

\* The flow of c ends; errors are warned of and the workflow goes on.
Ends(c, o) ==
  /\ outcome' = [outcome EXCEPT ![c] = o]
  /\ turn' = turn + 1
  /\ step' = "install"

\* The operator cancels: no further category is applied.
Abort == turn' = Len(Order) + 1 /\ UNCHANGED <<step, outcome>>

-----------------------------------------------------------------------------
(* The flow of one category                                                *)

\* Files are written, then validated; what fails is rolled back at once when
\* there is an archive of the network files alone, and that may fail too.
WriteFiles(c, ok) ==
  disk' \in IF ok THEN {[disk EXCEPT ![c] = "new"]}
            ELSE {[disk EXCEPT ![c] = d] : d \in IF backup[c] = "own" THEN {"old", "new"}
                                               ELSE {"new"}}

\* The category's own rollback backup, the safety backup of everything, or, when
\* neither was made, nothing; the safety backup is there for all or for none.
\* With a backup of its own the network files are installed before the offer.
Install(c) ==
  /\ At(c, "install")
  /\ \E b \in {"own", "full", "none"} :
       /\ \A d \in Categories : {b, backup[d]} # {"full", "none"}
       /\ backup' = [backup EXCEPT ![c] = b]
       /\ IF c \in Network /\ b = "own"
          THEN disk' \in {[disk EXCEPT ![c] = d] : d \in {"old", "new"}}
          ELSE UNCHANGED disk
  /\ Goto("offer")
  /\ UNCHANGED <<live, timerVars, scriptVars>>

\* Without any backup the network is not applied, and the others only if the
\* operator accepts that.
Offer(c) ==
  /\ At(c, "offer")
  /\ \/ /\ backup[c] # "none" \/ c \notin Network
        /\ Goto(IF c \in Network THEN "validate"
                ELSE IF backup[c] = "none" THEN "apply" ELSE "arm")
     \/ Ends(c, "skipped")
     \/ Abort
  /\ UNCHANGED <<backup, disk, live, timerVars, scriptVars>>

\* Staged files, NIC repair and preflight; an operator may also keep the files
\* that failed, and cancelling ends the restore.
Validate(c) ==
  /\ At(c, "validate")
  /\ \/ WriteFiles(c, TRUE) /\ Goto("arm")
     \/ WriteFiles(c, FALSE) /\ (Ends(c, "failed") \/ Abort)
  /\ UNCHANGED <<backup, live, timerVars, scriptVars>>

\* The time of the confirmation starts; the marker is written, then the script.
Arm(c) ==
  /\ At(c, "arm")
  /\ expired' = [expired EXCEPT ![c] = FALSE]
  /\ \/ marker' = [marker EXCEPT ![c] = TRUE] /\ Goto("timer")
     \/ marker' \in {[marker EXCEPT ![c] = b] : b \in BOOLEAN} /\ Ends(c, "failed")
  /\ UNCHANGED <<backup, disk, live, unit, timer, scriptVars>>

\* Variant: the timer is left to be started when the apply is over.
StartTimer_AfterApply(c) ==
  /\ At(c, "timer")
  /\ \/ Goto("apply")
     \/ Ends(c, "failed")
  /\ UNCHANGED <<backup, disk, live, timerVars, scriptVars>>

\* systemd-run, else a background sleep.
StartTimer(c) ==
  /\ At(c, "timer")
  /\ \/ /\ timer' = [timer EXCEPT ![c] = "set"]
        /\ unit' \in {[unit EXCEPT ![c] = b] : b \in BOOLEAN}
        /\ Goto("apply")
     \/ Ends(c, "failed") /\ UNCHANGED <<timer, unit>>
  /\ UNCHANGED <<backup, disk, live, marker, expired, scriptVars>>

\* The files are copied, or, for the network, what is in effect is reloaded
\* from them.  A failure may have done part of it, and leaves the timer armed.
Applied(c) == IF c \in Network THEN disk[c] ELSE "new"

Apply(c) ==
  /\ At(c, "apply")
  /\ \/ /\ live' = [live EXCEPT ![c] = Applied(c)]
        /\ disk' = [disk EXCEPT ![c] = Applied(c)]
        /\ IF backup[c] = "none" THEN Ends(c, "unguarded") ELSE Goto("prompt")
     \/ /\ live' \in {[live EXCEPT ![c] = d] : d \in {live[c], Applied(c)}}
        /\ disk' = [disk EXCEPT ![c] = IF c \in Network THEN @ ELSE live'[c]]
        /\ Ends(c, IF backup[c] = "none" THEN "unguarded"
                   ELSE IF c \in Network THEN "uncommitted" ELSE "failed")
     \/ /\ c \notin Network
        /\ outcome' = [outcome EXCEPT ![c] = "unchanged"]
        /\ IF backup[c] = "none" THEN turn' = turn + 1 /\ step' = "install"
                                 ELSE step' = "disarm" /\ UNCHANGED turn
        /\ UNCHANGED <<disk, live>>
  /\ UNCHANGED <<backup, timerVars, scriptVars>>

\* Variant: the prompt waits for an answer without a limit.
Prompt_NoTimeout(c) ==
  /\ At(c, "prompt")
  /\ \/ Goto(IF c \in Network THEN "check" ELSE "disarm")
     \/ Ends(c, "uncommitted")
     \/ c \notin Network /\ Abort
  /\ UNCHANGED <<backup, disk, live, timerVars, scriptVars>>

\* The prompt lasts as long as the time that is left.
Prompt(c) ==
  /\ At(c, "prompt")
  /\ \/ ~expired[c] /\ Goto(IF c \in Network THEN "check" ELSE "disarm")
     \/ Ends(c, "uncommitted")
     \/ c \notin Network /\ Abort
  /\ UNCHANGED <<backup, disk, live, timerVars, scriptVars>>

\* rollbackAlreadyRunning: the sentinel, else the unit, whose query may fail.  A
\* sentinel that cannot be read is taken for absent.
CheckRunning(c) ==
  /\ At(c, "check")
  /\ \/ running[c] /\ Ends(c, "uncommitted") /\ UNCHANGED stuck
     \/ unit[c] /\ script[c] \notin {"off", "done"} /\ Ends(c, "uncommitted")
        /\ UNCHANGED stuck
     \/ Goto("recheck") /\ stuck' = IF running[c] THEN stuck \cup {c} ELSE stuck
  /\ UNCHANGED <<backup, disk, live, timerVars, running, script, testedIn, spoilt>>

\* rollbackAlreadyExecuted: the marker is gone.  One that cannot be read is taken
\* for present.
CheckExecuted(c) ==
  /\ At(c, "recheck")
  /\ \/ ~marker[c] /\ Ends(c, "uncommitted") /\ UNCHANGED stuck
     \/ Goto("disarm") /\ stuck' = IF marker[c] THEN stuck ELSE stuck \cup {c}
  /\ UNCHANGED <<backup, disk, live, timerVars, running, script, testedIn, spoilt>>

\* The marker goes first; a failure is warned of.
RemoveMarker(c) ==
  /\ At(c, "disarm")
  /\ \/ marker' = [marker EXCEPT ![c] = FALSE] /\ UNCHANGED stuck
     \/ stuck' = stuck \cup {c} /\ UNCHANGED marker
  /\ outcome' = [outcome EXCEPT ![c] = IF @ = "unchanged" THEN @ ELSE "committed"]
  /\ step' = "stop"
  /\ UNCHANGED <<turn, backup, disk, live, unit, timer, expired,
                 running, script, testedIn, spoilt>>

\* Only the timer is stopped, never a script that started; a sleep runs on.
StopTimer(c) ==
  /\ At(c, "stop")
  /\ \/ unit[c] /\ timer[c] = "set" /\ timer' = [timer EXCEPT ![c] = "stopped"]
     \/ UNCHANGED timer
  /\ Ends(c, outcome[c])
  /\ UNCHANGED <<backup, disk, live, marker, unit, expired, scriptVars>>

Flow ==
  \E c \in Categories :
    \/ Install(c) \/ Offer(c) \/ Validate(c) \/ Arm(c) \/ StartTimer(c)
    \/ Apply(c) \/ Prompt(c) \/ CheckRunning(c) \/ CheckExecuted(c)
    \/ RemoveMarker(c) \/ StopTimer(c)

\* The process of the restore dies, for instance with the session it ran in.
FlowDies ==
  /\ turn <= Len(Order)
  /\ turn' = Len(Order) + 1
  /\ UNCHANGED <<step, backup, outcome, timerVars, scriptVars, disk, live>>

-----------------------------------------------------------------------------
(* The timer and its script                                                *)

\* The time to confirm, which started before the timer did, is over.
Expire(c) ==
  /\ ~expired[c]
  /\ timer[c] = "set" \/ At(c, "timer")
  /\ expired' = [expired EXCEPT ![c] = TRUE]
  /\ UNCHANGED <<flowVars, marker, unit, timer, scriptVars, disk, live>>

\* Variant: the script is started by the restore itself.
Fire_ChildOfFlow(c) ==
  /\ turn <= Len(Order)
  /\ timer[c] = "set" /\ expired[c]
  /\ timer' = [timer EXCEPT ![c] = "fired"]
  /\ script' = [script EXCEPT ![c] = "test"]
  /\ UNCHANGED <<flowVars, marker, unit, expired, running, testedIn, spoilt, stuck,
                 disk, live>>

\* The unit, or the sleep started with nohup, outlives the restore.
Fire(c) ==
  /\ timer[c] = "set" /\ expired[c]
  /\ timer' = [timer EXCEPT ![c] = "fired"]
  /\ script' = [script EXCEPT ![c] = "test"]
  /\ UNCHANGED <<flowVars, marker, unit, expired, running, testedIn, spoilt, stuck,
                 disk, live>>

\* For the history: the apply not over yet, or the operator's answer on its way
\* to the removal of the marker.
Progress(c) ==
  CASE At(c, "timer") \/ At(c, "apply") -> "applying"
    [] At(c, "check") \/ At(c, "recheck") \/ At(c, "disarm") -> "answered"
    [] OTHER -> "other"

\* Without the marker the script ends and does nothing.
ScriptTest(c) ==
  /\ script[c] = "test"
  /\ IF marker[c]
     THEN /\ script' = [script EXCEPT ![c] = IF c \in Network THEN "signal" ELSE "revert"]
          /\ testedIn' = [testedIn EXCEPT ![c] = Progress(c)]
     ELSE script' = [script EXCEPT ![c] = "done"] /\ UNCHANGED testedIn
  /\ UNCHANGED <<flowVars, timerVars, running, spoilt, stuck, disk, live>>

ScriptSignal(c) ==
  /\ script[c] = "signal"
  /\ running' = [running EXCEPT ![c] = TRUE]
  /\ script' = [script EXCEPT ![c] = "revert"]
  /\ UNCHANGED <<flowVars, timerVars, testedIn, spoilt, stuck, disk, live>>

\* What the archive of the script's category holds, or all there is.
Covers(c, d) == d = c \/ backup[c] = "full"

\* Extracting puts the files back; what is in effect follows for the script's
\* own category, and for those whose files take effect as they are written.
ScriptRevert(c) ==
  /\ script[c] = "revert"
  /\ script' = [script EXCEPT ![c] = "finish"]
  /\ \/ /\ disk' = [d \in Categories |-> IF Covers(c, d) THEN "old" ELSE disk[d]]
        /\ live' = [d \in Categories |-> IF Covers(c, d) /\ (d = c \/ d \notin Network)
                                         THEN "old" ELSE live[d]]
        /\ UNCHANGED spoilt
     \/ spoilt' = spoilt \cup {c} /\ UNCHANGED <<disk, live>>
  /\ UNCHANGED <<flowVars, timerVars, running, testedIn, stuck>>

ScriptFinish(c) ==
  /\ script[c] = "finish"
  /\ script' = [script EXCEPT ![c] = "done"]
  /\ marker' = [marker EXCEPT ![c] = FALSE]
  /\ running' = [running EXCEPT ![c] = FALSE]
  /\ UNCHANGED <<flowVars, unit, timer, expired, testedIn, spoilt, stuck, disk, live>>

Rollback(c) ==
  \/ Expire(c) \/ Fire(c)
  \/ ScriptTest(c) \/ ScriptSignal(c) \/ ScriptRevert(c) \/ ScriptFinish(c)

ApplyNext == Flow \/ FlowDies \/ \E c \in Categories : Rollback(c)

ApplySpec == ApplyInit /\ [][ApplyNext]_applyVars

\* Time passes, systemd or the shell starts the script, and the script runs.
\* Nothing is assumed of the restore or its operator.
ApplyFairness == \A c \in Categories : WF_applyVars(Rollback(c))

-----------------------------------------------------------------------------
(* Properties *)

\* The script of another category extracted the archive of everything, which
\* the operator had accepted for that category.
RevertedWithAnother(c) ==
  \E d \in Categories \ {c} : backup[d] = "full" /\ testedIn[d] # "never"

\* A category reported as committed is in effect, unless its marker could not be
\* removed, or it and the sentinel not be read, the rollback of another one covers
\* it, or its own script found the marker after the operator confirmed and before
\* the flow removed it: a confirmation that comes when the time is over is never
\* accepted.
CommittedStays ==
  \A c \in Categories :
    outcome[c] = "committed" /\ live[c] = "old" =>
      c \in stuck \/ RevertedWithAnother(c) \/ testedIn[c] = "answered"

\* "closes the commit-during-revert race": nothing of that kind happens to the
\* network, whose flow looks for a running script before it removes the marker.
CommittedIsNotReverted ==
  \A c \in Network :
    outcome[c] = "committed" /\ live[c] = "old" =>
      c \in stuck \/ RevertedWithAnother(c)

\* What is in effect and was not confirmed, unless the apply itself outlasted
\* the time to confirm: the script then found the marker before the apply ended.
Unconfirmed(c) ==
  /\ live[c] = "new"
  /\ outcome[c] \notin {"committed", "unguarded"}
  /\ testedIn[c] # "applying"

\* At any moment, dead or alive, with any step failing: as long as the new
\* configuration is in effect and not confirmed, its marker is in place and its
\* timer pending or its script at work.
UnconfirmedIsGuarded ==
  \A c \in Categories :
    Unconfirmed(c) =>
      \/ c \in spoilt
      \/ marker[c] /\ (timer[c] = "set" \/ script[c] \in {"test", "signal", "revert"})

\* In the end nothing is left in effect that was not confirmed, even when the
\* restore is aborted or dies, unless the script fails at reverting it.
UnconfirmedIsReverted ==
  <>[](\A c \in Categories : ~Unconfirmed(c) \/ c \in spoilt)
=============================================================================
