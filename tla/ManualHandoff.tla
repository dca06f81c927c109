---------------------------- MODULE ManualHandoff ----------------------------
(***************************************************************************)
(* The handoff of a standalone backup's outcome to the resident daemon,    *)
(* which alone pings the monitor (docs/DAEMON.md, "Standalone backups: the *)
(* SIGUSR1 handoff").                                                      *)
(*                                                                         *)
(* A run of Runs writes its outcome to one well-known file and sends       *)
(* SIGUSR1 to the pid in the daemon's pidfile                              *)
(* (maybeHandoffManualBackup).  The daemon's waker loads the file, pings,  *)
(* and unlinks the path (processManualOutcome).  Around that, the daemon   *)
(* boots and shuts down in the order daemon.run fixes: the signal handler  *)
(* is installed before the pidfile is published and outlives it.           *)
(*                                                                         *)
(* The daemon's life is numbered by boots: systemd starts it again         *)
(* whenever it ended (Restart=always).  A WriteFile of the few bytes of an *)
(* outcome is one step.                                                    *)
(***************************************************************************)
EXTENDS Naturals, FiniteSets

CONSTANTS
  Runs,        (* standalone backups that were attempted                   *)
  NoRun,
  MaxBoots,    (* bound: lives of the daemon in one behaviour              *)
  PidOf,       (* the pid of each life of the daemon                       *)
  Disruptions  (* TRUE: stops, crashes, stale outcomes and lost pings      *)

ASSUME ManualHandoffAssumption ==
  /\ NoRun \notin Runs
  /\ MaxBoots \in Nat \ {0}
  /\ Disruptions \in BOOLEAN

VARIABLES
  boot,       (* number of the current or last life of the daemon          *)
  phase,      (* where daemon.run is                                       *)
  stopping,   (* the run context is cancelled                              *)
  usr1,       (* the signal channel, buffered(1)                           *)
  pidfile,    (* the life whose pid .daemon.pid holds; 0: no file          *)
  waker,      (* the next step of the manual-outcome waker                 *)
  loaded,     (* the outcome the waker read                                *)
  outcome,    (* the run in .manual_backup_outcome.json                    *)
  stale,      (* that outcome is older than manualOutcomeStaleWindow       *)
  tmp,        (* the run in the .tmp sibling all writers share             *)
  rpc,        (* the next step of each standalone run                      *)
  target,     (* the life whose pid each run read                          *)
  pings,      (* history: finish pings the monitor got for each run        *)
  kept        (* history: failed removals that left a run's outcome there  *)

daemonVars == <<boot, phase, stopping, usr1, pidfile, waker, loaded>>
outcomeVars == <<outcome, stale, tmp>>
senderVars == <<rpc, target>>
handoffVars  == <<daemonVars, outcomeVars, senderVars, pings, kept>>

\* Phases in which SIGUSR1 goes to the daemon's channel.  In the others the Go
\* runtime catches it and nothing happens: a wake of that time is lost.
Armed   == {"armed", "published", "serving", "drained", "unpublished"}
Phases  == Armed \cup {"down", "boot", "disarmed"}
Running == phase # "down"

FlagsOK == stopping \in BOOLEAN /\ usr1 \in BOOLEAN /\ stale \in BOOLEAN

HandoffTypeOK ==
  /\ FlagsOK
  /\ boot \in 0 .. MaxBoots
  /\ phase \in Phases
  /\ pidfile \in 0 .. MaxBoots
  /\ waker \in {"idle", "load", "ping", "remove"}
  /\ loaded \in Runs \cup {NoRun}
  /\ outcome \in Runs \cup {NoRun}
  /\ tmp \in Runs \cup {NoRun}
  /\ rpc \in [Runs -> {"backup", "probe", "write", "rename", "cleanup", "kill",
                    "sent", "quit"}]
  /\ target \in [Runs -> 0 .. MaxBoots]
  /\ pings \in [Runs -> Nat]
  /\ kept \in [Runs -> Nat]

HandoffInit ==
  /\ boot = 0 /\ phase = "down" /\ stopping = FALSE /\ usr1 = FALSE
  /\ pidfile = 0 /\ waker = "idle" /\ loaded = NoRun
  /\ outcome = NoRun /\ stale = FALSE /\ tmp = NoRun
  /\ rpc = [s \in Runs |-> "backup"]
  /\ target = [s \in Runs |-> 0]
  /\ pings = [s \in Runs |-> 0]
  /\ kept = [s \in Runs |-> 0]

-----------------------------------------------------------------------------
(* daemon.run: its life from the boot to the exit                          *)

Boot ==
  /\ phase = "down"
  /\ boot < MaxBoots
  /\ boot' = boot + 1
  /\ phase' = "boot"
  /\ stopping' = FALSE /\ usr1' = FALSE /\ waker' = "idle" /\ loaded' = NoRun
  /\ UNCHANGED <<pidfile, outcomeVars, senderVars, pings, kept>>

InstallHandler ==
  /\ phase = "boot"
  /\ phase' = "armed"
  /\ UNCHANGED <<boot, stopping, usr1, pidfile, waker, loaded, outcomeVars, senderVars, pings, kept>>

PublishPid ==
  /\ phase = "armed"
  /\ pidfile' = boot
  /\ phase' = "published"
  /\ UNCHANGED <<boot, stopping, usr1, waker, loaded, outcomeVars, senderVars, pings, kept>>

StartLoops_Unbuffered ==
  /\ phase = "published"
  /\ phase' = "serving"
  /\ usr1' = FALSE
  /\ UNCHANGED <<boot, stopping, pidfile, waker, loaded, outcomeVars, senderVars, pings, kept>>

\* The reporter is built first; a signal of that time waits in the channel.
StartLoops ==
  /\ phase = "published"
  /\ phase' = "serving"
  /\ UNCHANGED <<boot, stopping, usr1, pidfile, waker, loaded, outcomeVars, senderVars, pings, kept>>

CancelContext ==
  /\ Disruptions
  /\ phase = "serving"
  /\ ~stopping
  /\ stopping' = TRUE
  /\ UNCHANGED <<boot, phase, usr1, pidfile, waker, loaded, outcomeVars, senderVars, pings, kept>>

\* The waker returns when it is between two outcomes; wg.Wait joins it.
JoinLoops ==
  /\ phase = "serving"
  /\ stopping
  /\ waker = "idle"
  /\ phase' = "drained"
  /\ UNCHANGED <<boot, stopping, usr1, pidfile, waker, loaded, outcomeVars, senderVars, pings, kept>>

RemovePid ==
  /\ phase = "drained"
  /\ pidfile' = 0
  /\ phase' = "unpublished"
  /\ UNCHANGED <<boot, stopping, usr1, waker, loaded, outcomeVars, senderVars, pings, kept>>

StopNotify ==
  /\ phase = "unpublished"
  /\ phase' = "disarmed"
  /\ UNCHANGED <<boot, stopping, usr1, pidfile, waker, loaded, outcomeVars, senderVars, pings, kept>>

\* The orderly exit after StopNotify, or a crash at any point.
End ==
  /\ Running
  /\ phase = "disarmed" \/ Disruptions
  /\ phase' = "down"
  /\ UNCHANGED <<boot, stopping, usr1, pidfile, waker, loaded, outcomeVars, senderVars, pings, kept>>

-----------------------------------------------------------------------------
(* processManualOutcome, the waker's reaction to SIGUSR1                   *)

Wake ==
  /\ phase = "serving"
  /\ waker = "idle"
  /\ usr1
  /\ usr1' = FALSE
  /\ waker' = "load"
  /\ UNCHANGED <<boot, phase, stopping, pidfile, loaded, outcomeVars, senderVars, pings, kept>>

\* Nothing there: back to the channel.  A stale outcome is dropped unpinged.
LoadOutcome ==
  /\ phase = "serving"
  /\ waker = "load"
  /\ loaded' = outcome
  /\ waker' = CASE outcome = NoRun -> "idle"
                [] outcome # NoRun /\ stale -> "remove"
                [] OTHER -> "ping"
  /\ UNCHANGED <<boot, phase, stopping, usr1, pidfile, outcomeVars, senderVars, pings, kept>>

PingOutcome_NotRemoved ==
  /\ phase = "serving"
  /\ waker = "ping"
  /\ \/ pings' = [pings EXCEPT ![loaded] = @ + 1]
     \/ Disruptions /\ UNCHANGED pings
  /\ waker' = "idle"
  /\ UNCHANGED <<boot, phase, stopping, usr1, pidfile, loaded, outcomeVars, senderVars, kept>>

\* finishPing and recordOutcomePing; a failed ping is recorded, not retried.
PingOutcome ==
  /\ phase = "serving"
  /\ waker = "ping"
  /\ \/ pings' = [pings EXCEPT ![loaded] = @ + 1]
     \/ Disruptions /\ UNCHANGED pings
  /\ waker' = "remove"
  /\ UNCHANGED <<boot, phase, stopping, usr1, pidfile, loaded, outcomeVars, senderVars, kept>>

\* RemoveManualOutcome unlinks the path, whatever it holds by now.  A removal
\* that fails is only logged: the outcome stays for the next wake.
RemoveOutcome ==
  /\ phase = "serving"
  /\ waker = "remove"
  /\ \/ /\ outcome' = NoRun
        /\ stale' = FALSE
        /\ UNCHANGED kept
     \/ /\ Disruptions
        /\ kept' = [kept EXCEPT ![loaded] = IF outcome = loaded THEN @ + 1 ELSE @]
        /\ UNCHANGED <<outcome, stale>>
  /\ waker' = "idle"
  /\ loaded' = NoRun
  /\ UNCHANGED <<boot, phase, stopping, usr1, pidfile, tmp, senderVars, pings>>

-----------------------------------------------------------------------------
(* maybeHandoffManualBackup, in the standalone run                         *)

ReadPid_MinusOne(s) ==
  /\ rpc[s] = "backup"
  /\ target' = [target EXCEPT ![s] = pidfile - 1]
  /\ rpc' = [rpc EXCEPT ![s] = IF pidfile = 0 THEN "quit" ELSE "probe"]
  /\ UNCHANGED <<daemonVars, outcomeVars, pings, kept>>

ReadPid(s) ==
  /\ rpc[s] = "backup"
  /\ target' = [target EXCEPT ![s] = pidfile]
  /\ rpc' = [rpc EXCEPT ![s] = IF pidfile = 0 THEN "quit" ELSE "probe"]
  /\ UNCHANGED <<daemonVars, outcomeVars, pings, kept>>

\* Signal 0 and the command line: a live proxsave --daemon has that pid.
TargetAlive(s) == Running /\ PidOf[boot] = PidOf[target[s]]

ProbeDaemon(s) ==
  /\ rpc[s] = "probe"
  /\ rpc' = [rpc EXCEPT ![s] = IF TargetAlive(s) THEN "write" ELSE "quit"]
  /\ UNCHANGED <<daemonVars, outcomeVars, target, pings, kept>>

\* WriteManualOutcome: the .tmp sibling, then the rename over the path.
WriteTmp(s) ==
  /\ rpc[s] = "write"
  /\ tmp' = s
  /\ rpc' = [rpc EXCEPT ![s] = "rename"]
  /\ UNCHANGED <<daemonVars, outcome, stale, target, pings, kept>>

RenameTmp(s) ==
  /\ rpc[s] = "rename"
  /\ IF tmp = NoRun
     THEN /\ rpc' = [rpc EXCEPT ![s] = "cleanup"]
          /\ UNCHANGED outcomeVars
     ELSE /\ outcome' = tmp
          /\ stale' = FALSE
          /\ tmp' = NoRun
          /\ rpc' = [rpc EXCEPT ![s] = "kill"]
  /\ UNCHANGED <<daemonVars, target, pings, kept>>

\* The rename failed: the .tmp sibling is removed, whoever wrote it by now.
RemoveTmp(s) ==
  /\ rpc[s] = "cleanup"
  /\ tmp' = NoRun
  /\ rpc' = [rpc EXCEPT ![s] = "quit"]
  /\ UNCHANGED <<daemonVars, outcome, stale, target, pings, kept>>

\* Under the handler the signal is buffered, or merged with one that waits;
\* without it nobody receives it.
Kill(s) ==
  /\ rpc[s] = "kill"
  /\ rpc' = [rpc EXCEPT ![s] = IF TargetAlive(s) THEN "sent" ELSE "quit"]
  /\ usr1' = (usr1 \/ (TargetAlive(s) /\ phase \in Armed))
  /\ UNCHANGED <<boot, phase, stopping, pidfile, waker, loaded, outcomeVars, target, pings,
                 kept>>

\* The outcome in the file outlives the stale window.
AgeOutcome ==
  /\ Disruptions
  /\ outcome # NoRun
  /\ ~stale
  /\ stale' = TRUE
  /\ UNCHANGED <<daemonVars, outcome, tmp, senderVars, pings, kept>>

Handoff(s) ==
  ReadPid(s) \/ ProbeDaemon(s) \/ WriteTmp(s) \/ RenameTmp(s) \/ RemoveTmp(s)
    \/ Kill(s)

Startup  == Boot \/ InstallHandler \/ PublishPid \/ StartLoops
Shutdown == CancelContext \/ JoinLoops \/ RemovePid \/ StopNotify \/ End
Waker    == Wake \/ LoadOutcome \/ PingOutcome \/ RemoveOutcome

HandoffNext ==
  \/ Startup \/ Shutdown \/ Waker \/ AgeOutcome
  \/ \E s \in Runs : Handoff(s)

HandoffSpec == HandoffInit /\ [][HandoffNext]_handoffVars

\* Handoffs that do not overlap: nobody writes before the outcome before has
\* been taken care of.
OneHandoff ==
  /\ Cardinality({s \in Runs : rpc[s] \in {"write", "rename", "kill"}}) <= 1
  /\ (\E s \in Runs : rpc[s] \in {"write", "rename"})
       => ~usr1 /\ waker = "idle" /\ outcome = NoRun

\* A goroutine and a process that can step do; nobody has to stop the daemon.
LoneSpec ==
  /\ HandoffInit /\ [][HandoffNext /\ OneHandoff']_handoffVars
  /\ WF_handoffVars(Startup)
  /\ WF_handoffVars(Waker)
  /\ \A s \in Runs : WF_handoffVars(Handoff(s) /\ OneHandoff')

-----------------------------------------------------------------------------
(* Properties *)

\* While the pidfile names the live daemon that published it, a SIGUSR1 reaches
\* its channel: at the boot the handler comes first, at the exit it goes last.
PublishedIsCatching == Running /\ pidfile = boot => phase \in Armed

\* The monitor gets the outcome of a run at most once, over signals that merge,
\* crashes between the ping and the unlink, and restarts; and once more for each
\* failed removal that left the outcome in the file.
PingedAtMostOnce == \A s \in Runs : pings[s] <= 1 + kept[s]

\* A handoff that no other one overlaps is pinged, in the end.
LoneHandoffIsPinged ==
  \A s \in Runs : rpc[s] = "sent" ~> pings[s] = 1
=============================================================================
