----------------------------- MODULE TempRegistry -----------------------------
(***************************************************************************)
(* The staging workspaces of backup runs and the registry that lets a      *)
(* later run find those a crashed run left behind, with the plain copies   *)
(* they hold (internal/orchestrator/temp_registry.go, and the phases that  *)
(* use it in backup_run_phases.go).  The registry is a file each operation *)
(* loads, changes and replaces under a flock; removing a workspace is not  *)
(* atomic, and not covered by that lock when the run removes its own.      *)
(*                                                                         *)
(* A workspace is named by its run.  Runs may overlap: the backup lock is  *)
(* taken from a run that holds it for too long.                            *)
(***************************************************************************)
EXTENDS Naturals, FiniteSets

CONSTANT TempRuns  (* the runs, each with its workspace                    *)

NoRunner == "no run"

ASSUME TempRunsAssumption == NoRunner \notin TempRuns

VARIABLES
  wstep,      (* the next step of each run                                 *)
  workspace,  (* its directory: none, bare: no marker yet, marked: with    *)
              (* marker and data, rest: data but no marker any more        *)
  registry,   (* the entries of temp-dirs.json                             *)
  aged,       (* the entries older than tempDirCleanupAge                  *)
  flock,      (* the run that holds the registry's lock                    *)
  entries,    (* what it has loaded                                        *)
  todo,       (* the entries its sweep has still to look at                *)
  untracked   (* history: workspaces no entry was ever made of, or whose   *)
              (* entry a reboot took away                                  *)

tempVars == <<wstep, workspace, registry, aged, flock, entries, todo,
              untracked>>

Live  == {"sweeping", "create", "mark", "register", "registering",
          "collect", "remove", "deregister", "deregistering"}
Over  == {"ended", "dead"}
UnderFlock == {"sweeping", "registering", "deregistering"}

TempTypeOK ==
  /\ wstep \in [TempRuns -> Live \cup Over \cup {"idle"}]
  /\ workspace \in [TempRuns -> {"none", "bare", "marked", "rest"}]
  /\ registry \subseteq TempRuns /\ aged \subseteq registry
  /\ flock \in TempRuns \cup {NoRunner}
  /\ entries \subseteq TempRuns /\ todo \subseteq entries
  /\ untracked \subseteq TempRuns

TempInit ==
  /\ wstep = [r \in TempRuns |-> "idle"]
  /\ workspace = [r \in TempRuns |-> "none"]
  /\ registry = {} /\ aged = {} /\ flock = NoRunner
  /\ entries = {} /\ todo = {} /\ untracked = {}

-----------------------------------------------------------------------------

WGoto(r, from, to) == wstep[r] = from /\ wstep' = [wstep EXCEPT ![r] = to]

FlockFree_Ignored == TRUE

FlockFree == flock = NoRunner

\* withLock: open, flock, load.
LoadEntries(r) ==
  /\ FlockFree
  /\ flock' = r
  /\ entries' = registry
  /\ UNCHANGED <<workspace, registry, aged, untracked>>

\* saveEntries replaces the file, or fails and leaves it; the lock is released.
SaveEntries(new) ==
  /\ registry' \in {new, registry}
  /\ aged' = aged \cap registry'
  /\ flock' = NoRunner
  /\ entries' = {} /\ todo' = {}

\* CleanupOrphaned, at the start of a run.
BeginSweep(r) ==
  /\ WGoto(r, "idle", "sweeping")
  /\ LoadEntries(r)
  /\ todo' = registry

\* processAlive: a run that is over may be taken for alive, its pid reused.
Alive(e) == IF wstep[e] \in Live THEN {TRUE} ELSE BOOLEAN

\* RemoveAll takes the files in any order and goes on when one resists.
Removal(e) == {"none", workspace[e]}
                \cup IF workspace[e] = "none" THEN {} ELSE {"rest"}

\* workspacePathIsRemovable: without the marker the entry is dropped, and the
\* path left alone.
SweepEntry(r, e) ==
  /\ wstep[r] = "sweeping"
  /\ flock = r
  /\ e \in todo
  /\ todo' = todo \ {e}
  /\ \E alive \in Alive(e) :
       IF alive /\ e \notin aged
       THEN UNCHANGED <<workspace, entries>>
       ELSE IF workspace[e] # "marked"
       THEN entries' = entries \ {e} /\ UNCHANGED workspace
       ELSE \E left \in Removal(e) :
              /\ workspace' = [workspace EXCEPT ![e] = left]
              /\ entries' = IF left = "none" THEN entries \ {e} ELSE entries
  /\ UNCHANGED <<wstep, registry, aged, flock, untracked>>

EndSweep(r) ==
  /\ flock = r
  /\ todo = {}
  /\ WGoto(r, "sweeping", "create")
  /\ SaveEntries(entries)
  /\ UNCHANGED <<workspace, untracked>>

\* prepareBackupWorkspace, markBackupWorkspace.
CreateWorkspace(r) ==
  /\ WGoto(r, "create", "mark")
  /\ workspace' = [workspace EXCEPT ![r] = "bare"]
  /\ UNCHANGED <<registry, aged, flock, entries, todo, untracked>>

MarkWorkspace(r) ==
  /\ \/ /\ WGoto(r, "mark", "register")
        /\ workspace' = [workspace EXCEPT ![r] = "marked"]
     \/ WGoto(r, "mark", "remove") /\ UNCHANGED workspace
  /\ UNCHANGED <<registry, aged, flock, entries, todo, untracked>>

BeginRegister(r) ==
  /\ WGoto(r, "register", "registering")
  /\ LoadEntries(r)
  /\ UNCHANGED todo

\* A failure to register is logged, and the run goes on.
Register(r) ==
  /\ WGoto(r, "registering", "collect")
  /\ SaveEntries(entries \cup {r})
  /\ untracked' = IF r \in registry' THEN untracked ELSE untracked \cup {r}
  /\ UNCHANGED workspace

\* Collection, archive and dispatch: done or failed, the workspace goes.
CollectEnds(r) ==
  /\ WGoto(r, "collect", "remove")
  /\ UNCHANGED <<workspace, registry, aged, flock, entries, todo, untracked>>

\* cleanupBackupWorkspace: "Keep it registered so the next run's orphan sweep
\* retries the removal" when something is left.
RemoveWorkspace(r) ==
  /\ \E left \in Removal(r) :
       /\ workspace' = [workspace EXCEPT ![r] = left]
       /\ WGoto(r, "remove", IF left = "none" THEN "deregister" ELSE "ended")
  /\ UNCHANGED <<registry, aged, flock, entries, todo, untracked>>

BeginDeregister(r) ==
  /\ WGoto(r, "deregister", "deregistering")
  /\ LoadEntries(r)
  /\ UNCHANGED todo

Deregister(r) ==
  /\ WGoto(r, "deregistering", "ended")
  /\ SaveEntries(entries \ {r})
  /\ UNCHANGED <<workspace, untracked>>

\* A process dies at any point: its lock goes with it, its workspace stays,
\* half removed if it was about that.
DeadWorkspace(dead) ==
  [e \in TempRuns |->
     IF e \in dead /\ wstep[e] = "remove" THEN Removal(e)
     ELSE {workspace[e]}]

NotYetTracked(dead) ==
  {r \in dead : wstep[r] \in {"mark", "register", "registering"}}

RunDies(r) ==
  /\ wstep[r] \in Live
  /\ wstep' = [wstep EXCEPT ![r] = "dead"]
  /\ \E left \in DeadWorkspace({r})[r] : workspace' = [workspace EXCEPT ![r] = left]
  /\ untracked' = untracked \cup NotYetTracked({r})
  /\ IF flock = r
     THEN flock' = NoRunner /\ entries' = {} /\ todo' = {}
     ELSE UNCHANGED <<flock, entries, todo>>
  /\ UNCHANGED <<registry, aged>>

\* The registry is in /var/run, the workspaces are in /tmp.
HostReboots ==
  /\ \E r \in TempRuns : wstep[r] \in Live
  /\ wstep' = [r \in TempRuns |-> IF wstep[r] \in Live THEN "dead" ELSE wstep[r]]
  /\ registry' = {} /\ aged' = {}
  /\ flock' = NoRunner /\ entries' = {} /\ todo' = {}
  /\ untracked' = {r \in TempRuns : workspace[r] # "none"}
  /\ UNCHANGED workspace

DayPasses ==
  /\ aged # registry
  /\ aged' = registry
  /\ UNCHANGED <<wstep, workspace, registry, flock, entries, todo, untracked>>

TempNext ==
  \/ \E r \in TempRuns :
       \/ BeginSweep(r) \/ EndSweep(r) \/ CreateWorkspace(r)
       \/ MarkWorkspace(r) \/ BeginRegister(r) \/ Register(r)
       \/ CollectEnds(r) \/ RemoveWorkspace(r) \/ BeginDeregister(r)
       \/ Deregister(r) \/ RunDies(r)
       \/ \E e \in TempRuns : SweepEntry(r, e)
  \/ HostReboots \/ DayPasses

TempSpec == TempInit /\ [][TempNext]_tempVars

-----------------------------------------------------------------------------
(* Properties *)

\* Whatever a run that is over left behind whole is in the registry, for a
\* later sweep to find, unless it could not be entered or a reboot came: no
\* interleaving of registrations, sweeps and deaths loses an entry.
LeftoversAreTracked ==
  \A r \in TempRuns : wstep[r] \in Over /\ workspace[r] = "marked"
                        => r \in registry \cup untracked

\* "Keep it registered so the next run's orphan sweep retries the removal": a
\* workspace that was removed in part stays registered until nothing is left.
RemovalIsRetried ==
  [][\A r \in registry : workspace[r] = "rest" /\ r \notin untracked'
       => r \in registry']_tempVars
=============================================================================
