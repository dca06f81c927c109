---------------------------- MODULE LockRunProofs ----------------------------
(***************************************************************************)
(* What holds of the restart of the daemon under the guard that looks at   *)
(* the lock (RestartGuard), and of the lock among runs of one host without *)
(* faults, as MCLock puts them together.                                    *)
(*                                                                         *)
(* The serial subject of MCLock is the lock with other constants.  Its      *)
(* steps are those of BackupLock with OneHost for HostOf, so the lemmas of *)
(* BackupLockProofs are instantiated with the same constants and cited.    *)
(***************************************************************************)
EXTENDS MCLock, BackupLockProofs

-----------------------------------------------------------------------------
(* The restart guard                                                        *)

GuardTypeOK ==
  /\ guard \in {"stat", "read", "judge", "busy", "restart", "deferred", "verify"}
  /\ probe \in [aged : BOOLEAN, owner : Procs \cup {NoProc}, st : BOOLEAN]
  /\ deadline \in BOOLEAN
  /\ watched \in SUBSET Procs

\* A run whose lock nobody reaped has its own file at the path, and once it
\* holds the lock that file is complete.
FullFileUnlessReaped ==
  \A p \in Procs : Holder(p) /\ p \notin reaped => lock.full

\* While a probe looks, whoever is watched holds the lock; what it has read
\* names the watched run, unless that was reaped or could not be read; and a
\* restart is decided on only where no watched run is left with its lock, or
\* where a fault left nothing to judge by but an age.
GuardInv ==
  /\ guard \in {"read", "judge", "restart"} => watched \subseteq HoldersHere
  /\ guard = "read" => probe.owner = NoProc
  /\ guard = "judge" =>
       \A w \in watched \ reaped :
         probe.owner = w \/ (IOFaults /\ probe.owner = NoProc)
  /\ guard = "restart" => watched \subseteq reaped \/ (IOFaults /\ probe.aged)

RestartInv ==
  /\ TypeOK /\ GuardTypeOK
  /\ OwnFileUnlessReaped /\ FullFileUnlessReaped
  /\ GuardInv

LEMMA FullFileStep ==
  TypeOK /\ OwnFileUnlessReaped /\ FullFileUnlessReaped /\ [Next]_vars
    => FullFileUnlessReaped'
  <1> SUFFICES ASSUME TypeOK, OwnFileUnlessReaped, FullFileUnlessReaped, [Next]_vars
               PROVE  FullFileUnlessReaped'
    OBVIOUS
  <1> USE BackupLockAssumption
      DEF TypeOK, OwnFileUnlessReaped, FullFileUnlessReaped, Holder, Holding
  <1>1. ASSUME NEW p \in Procs,
               Start(p) \/ Stat(p) \/ Read(p) \/ JudgeStale(p)
                 \/ JudgeInProgress(p) \/ RemoveFails(p) \/ WriteFails(p) \/ PathFails(p)
                 \/ BeginRelease(p) \/ CheckOwner(p) \/ Exit(p) \/ Crash(p)
        PROVE  FullFileUnlessReaped'
    BY <1>1 DEF Start, Stat, Read, JudgeStale, JudgeInProgress, RemoveFails,
                WriteFails, PathFails, BeginRelease, CheckOwner, Exit, Crash, Goto,
                AfterCheck, Checking, Bystander
  <1>2. ASSUME NEW p \in Procs, RemoveStale(p) \/ DropPartial(p) \/ Unlink(p)
        PROVE  FullFileUnlessReaped'
    BY <1>2 DEF RemoveStale, DropPartial, Unlink, Reap, Goto, AfterCheck
  \* A create meets no lock, and so no holder that was not reaped.
  <1>3. ASSUME NEW p \in Procs, Create(p) PROVE FullFileUnlessReaped'
    BY <1>3 DEF Create, Goto
  <1>4. ASSUME NEW p \in Procs, Write(p) PROVE FullFileUnlessReaped'
    <2>1. CASE lock # NoLock /\ lock.by = p
      <3>1. PICK s \in BOOLEAN :
              lock' = [by |-> p, full |-> TRUE, st |-> s, aged |-> FALSE]
        BY <1>4, <2>1 DEF Write
      <3>2. lock'.full
        BY <3>1, WrittenIsThere
      <3> QED
        BY <3>2
    <2>2. CASE ~(lock # NoLock /\ lock.by = p)
      BY <1>4, <2>2 DEF Write, Goto
    <2> QED
      BY <2>1, <2>2
  <1>5. CASE AgeLock
    <2>1. lock'.full = lock.full
      BY <1>5 DEF AgeLock, LockFile
    <2> QED
      BY <1>5, <2>1 DEF AgeLock
  <1>6. CASE UNCHANGED vars
    BY <1>6 DEF vars
  <1> QED
    BY <1>1, <1>2, <1>3, <1>4, <1>5, <1>6 DEF Next, CheckLockFile, ReleaseLock

\* The lock's own invariants hold next to the guard: it never touches the lock,
\* and a restart only ends runs.
LEMMA GuardSparesLock ==
  TypeOK /\ OwnFileUnlessReaped /\ FullFileUnlessReaped /\ [GuardNext]_<<vars, gvars>>
    => (TypeOK /\ OwnFileUnlessReaped /\ FullFileUnlessReaped)'
  <1> SUFFICES ASSUME TypeOK, OwnFileUnlessReaped, FullFileUnlessReaped,
                      [GuardNext]_<<vars, gvars>>
               PROVE  (TypeOK /\ OwnFileUnlessReaped /\ FullFileUnlessReaped)'
    OBVIOUS
  <1>1. CASE [Next]_vars
    BY <1>1, TypeStep, OwnFileStep, FullFileStep
  <1>2. CASE RestartDaemon
    <2>1. \A p \in Procs : pc'[p] = pc[p] \/ pc'[p] = "gone"
      BY <1>2 DEF RestartDaemon
    <2>2. TypeOK'
      BY <1>2 DEF RestartDaemon, TypeOK, Dead
    <2>3. OwnFileUnlessReaped'
      BY <1>2, <2>1 DEF RestartDaemon, OwnFileUnlessReaped, Holding
    <2>4. FullFileUnlessReaped'
      BY <1>2, <2>1 DEF RestartDaemon, FullFileUnlessReaped, Holder, Holding
    <2> QED
      BY <2>2, <2>3, <2>4
  <1>3. GuardNext => [Next]_vars \/ RestartDaemon
    BY DEF GuardNext, RunStep, ProbeStat, ProbeRead, ProbeJudge, WaitTick
  <1> QED
    BY <1>1, <1>2, <1>3

LEMMA GuardTypeStep ==
  TypeOK /\ GuardTypeOK /\ [GuardNext]_<<vars, gvars>> => GuardTypeOK'
  <1> SUFFICES ASSUME TypeOK, GuardTypeOK, [GuardNext]_<<vars, gvars>>
               PROVE  GuardTypeOK'
    OBVIOUS
  <1> USE DEF GuardTypeOK
  <1>1. CASE RunStep
    BY <1>1 DEF RunStep
  <1>2. CASE ProbeStat
    <2>1. lock # NoLock => AgeOnly(lock.aged) \in
            [aged : BOOLEAN, owner : Procs \cup {NoProc}, st : BOOLEAN]
      BY DEF TypeOK, LockFile, AgeOnly
    <2>2. Unseen \in [aged : BOOLEAN, owner : Procs \cup {NoProc}, st : BOOLEAN]
      BY DEF Unseen, AgeOnly
    <2> QED
      BY <1>2, <2>1, <2>2 DEF ProbeStat, HoldersHere
  <1>3. CASE ProbeRead
    <2>1. HasMetadata => lock.by \in Procs /\ lock.st \in BOOLEAN
      BY DEF TypeOK, LockFile, HasMetadata
    <2> QED
      BY <1>3, <2>1 DEF ProbeRead
  <1>4. CASE ProbeJudge \/ WaitTick \/ RestartDaemon
    BY <1>4 DEF ProbeJudge, WaitTick, RestartDaemon
  <1>5. CASE UNCHANGED <<vars, gvars>>
    BY <1>5 DEF gvars
  <1> QED
    BY <1>1, <1>2, <1>3, <1>4, <1>5 DEF GuardNext

LEMMA GuardInvStep == RestartInv /\ [GuardNext]_<<vars, gvars>> => GuardInv'
  <1> SUFFICES ASSUME RestartInv, [GuardNext]_<<vars, gvars>> PROVE GuardInv'
    OBVIOUS
  <1> USE BackupLockAssumption DEF RestartInv, GuardInv, GuardTypeOK
  \* Runs come off the watch and are reaped, and neither is undone.
  <1>1. CASE RunStep
    <2>1. watched' \subseteq watched /\ guard' = guard /\ probe' = probe
      BY <1>1 DEF RunStep
    <2>2. reaped \subseteq reaped'
      BY <1>1 DEF RunStep, Next, CheckLockFile, ReleaseLock, Start, Stat, Read,
                  JudgeStale, JudgeInProgress, RemoveStale, RemoveFails, Create, Write,
                  WriteFails, DropPartial, PathFails, BeginRelease, CheckOwner, Unlink,
                  Exit, Crash, AgeLock, Reap
    <2>3. guard \in {"read", "judge", "restart"} => watched' \subseteq HoldersHere'
      BY <1>1 DEF RunStep, HoldersHere
    <2> QED
      BY <2>1, <2>2, <2>3
  <1>2. CASE ProbeStat
    <2>1. lock = NoLock => HoldersHere \subseteq reaped
      BY DEF HoldersHere, Holder, OwnFileUnlessReaped
    <2>2. watched' = HoldersHere' /\ watched' = HoldersHere /\ reaped' = reaped
      BY <1>2 DEF ProbeStat, HoldersHere, Holder, vars
    <2>3. guard' = "read" => probe'.owner = NoProc
      BY <1>2 DEF ProbeStat, AgeOnly
    <2>4. guard' = "restart" => lock = NoLock
      BY <1>2 DEF ProbeStat
    <2>5. guard' # "judge"
      BY <1>2 DEF ProbeStat
    <2> QED
      BY <2>1, <2>2, <2>3, <2>4, <2>5
  <1>3. CASE ProbeRead
    <2>1. watched' = watched /\ HoldersHere' = HoldersHere /\ reaped' = reaped
      BY <1>3 DEF ProbeRead, HoldersHere, Holder, vars
    <2>2. \A w \in watched \ reaped : lock # NoLock /\ lock.by = w /\ lock.full
      BY <1>3 DEF ProbeRead, HoldersHere, Holder, OwnFileUnlessReaped,
                  FullFileUnlessReaped
    <2>3. \A w \in watched \ reaped :
            probe'.owner = w \/ (IOFaults /\ probe'.owner = NoProc)
      BY <1>3, <2>2 DEF ProbeRead, HasMetadata
    <2> QED
      BY <1>3, <2>1, <2>3 DEF ProbeRead
  <1>4. CASE ProbeJudge
    <2>1. /\ watched' = watched /\ HoldersHere' = HoldersHere /\ reaped' = reaped
          /\ probe' = probe /\ guard = "judge" /\ guard' \in {"restart", "busy"}
          /\ guard' = "restart" => StaleOn(GuardHost, probe)
      BY <1>4 DEF ProbeJudge, HoldersHere, Holder, vars
    \* A watched run is alive, and so is its pid: only its age can tell against it.
    <2>2. ASSUME NEW w \in watched \ reaped, StaleOn(GuardHost, probe)
          PROVE  IOFaults /\ probe.aged
      <3>1. w \in Procs /\ Alive(w) /\ HostOf[w] = GuardHost
        BY <2>1 DEF HoldersHere, Holder, Holding, Alive, Dead
      <3>2. CASE probe.owner = w
        <4>1. KnownOn(GuardHost, probe) /\ PidAlive(GuardHost, probe.owner)
                /\ ~OwnerReused(probe)
          BY <3>1, <3>2 DEF KnownOn, PidAlive, OwnerReused
        <4> QED
          BY <2>2, <4>1 DEF StaleOn
      <3>3. CASE IOFaults /\ probe.owner = NoProc
        <4>1. ~KnownOn(GuardHost, probe)
          BY <3>3 DEF KnownOn
        <4> QED
          BY <2>2, <3>3, <4>1 DEF StaleOn
      <3> QED
        BY <2>1, <3>2, <3>3
    <2> QED
      BY <2>1, <2>2
  <1>5. CASE WaitTick \/ RestartDaemon
    BY <1>5 DEF WaitTick, RestartDaemon
  <1>6. CASE UNCHANGED <<vars, gvars>>
    BY <1>6 DEF vars, gvars, HoldersHere, Holder
  <1> QED
    BY <1>1, <1>2, <1>3, <1>4, <1>5, <1>6 DEF GuardNext

LEMMA RestartInvAlways == GuardSpec => []RestartInv
  <1>1. GuardInit => RestartInv
    <2>0. Unseen \in [aged : BOOLEAN, owner : Procs \cup {NoProc}, st : BOOLEAN]
      BY DEF Unseen, AgeOnly
    <2>1. GuardInit => GuardTypeOK /\ GuardInv
      BY <2>0 DEF GuardInit, GuardTypeOK, GuardInv
    <2>2. Init => FullFileUnlessReaped
      BY DEF Init, FullFileUnlessReaped, Holder, Holding
    <2> QED
      BY <2>1, <2>2, TypeInit, OwnFileInit DEF GuardInit, RestartInv
  <1>2. RestartInv /\ [GuardNext]_<<vars, gvars>> => RestartInv'
    BY GuardSparesLock, GuardTypeStep, GuardInvStep DEF RestartInv
  <1> QED
    BY <1>1, <1>2, PTL DEF GuardSpec

\* The lock keeps its types next to the guard, which has its own.
THEOREM GuardTypeCorrect == GuardSpec => [](TypeOK /\ GuardTypeOK)
  BY RestartInvAlways, PTL DEF RestartInv

\* A run of the daemon's host that held the lock all the while the deciding
\* probe looked survives the restart, for every set of runs, hosts and pids and
\* every interleaving with the probe, unless its lock was reaped, or outlived
\* MaxLockAge where a fault left nothing else to judge by.
THEOREM RestartIsSafe == GuardSpec => RestartSparesWatched
  <1>1. RestartInv => (RestartDaemon => \/ watched \subseteq reaped
                                        \/ IOFaults /\ probe.aged)
    BY DEF RestartInv, GuardInv, RestartDaemon
  <1> QED
    BY <1>1, RestartInvAlways, PTL DEF RestartSparesWatched

-----------------------------------------------------------------------------
(* The serial subject of MCLock                                             *)

OneHostLock == INSTANCE BackupLockProofs WITH HostOf <- OneHost, IOFaults <- FALSE

\* What both instances say, term by term.
LEMMA SerialStepsAreSteps == Serial!Next => OneHostLock!Next
  BY Zenon
     DEF Serial!Next, OneHostLock!Next, Serial!Start, OneHostLock!Start,
             Serial!CheckLockFile, OneHostLock!CheckLockFile,
             Serial!ReleaseLock, OneHostLock!ReleaseLock, Serial!Exit,
             OneHostLock!Exit, Serial!Crash, OneHostLock!Crash, Serial!AgeLock,
             OneHostLock!AgeLock, Serial!Stat, OneHostLock!Stat, Serial!Read,
             OneHostLock!Read, Serial!JudgeStale, OneHostLock!JudgeStale,
             Serial!JudgeInProgress, OneHostLock!JudgeInProgress,
             Serial!RemoveStale, OneHostLock!RemoveStale, Serial!RemoveFails,
             OneHostLock!RemoveFails, Serial!Create, OneHostLock!Create,
             Serial!Write, OneHostLock!Write, Serial!WriteFails,
             OneHostLock!WriteFails, Serial!DropPartial,
             OneHostLock!DropPartial, Serial!PathFails, OneHostLock!PathFails,
             Serial!BeginRelease, OneHostLock!BeginRelease, Serial!CheckOwner,
             OneHostLock!CheckOwner, Serial!Unlink, OneHostLock!Unlink,
             Serial!Goto, OneHostLock!Goto, Serial!AfterCheck,
             OneHostLock!AfterCheck, Serial!HasMetadata,
             OneHostLock!HasMetadata, Serial!PidAlive, OneHostLock!PidAlive,
             Serial!KnownOn, OneHostLock!KnownOn, Serial!OwnerReused,
             OneHostLock!OwnerReused, Serial!StartUnreadable,
             OneHostLock!StartUnreadable, Serial!StaleOn, OneHostLock!StaleOn,
             Serial!TakenOn, OneHostLock!TakenOn, Serial!Reap, OneHostLock!Reap,
             Serial!OwnsLockFile, OneHostLock!OwnsLockFile, Serial!AgeOnly,
             OneHostLock!AgeOnly, Serial!Alive, OneHostLock!Alive,
             Serial!SameHost, OneHostLock!SameHost, Serial!SameProcess,
             OneHostLock!SameProcess, Serial!Checking, OneHostLock!Checking,
             Serial!Holding, OneHostLock!Holding, Serial!Bystander,
             OneHostLock!Bystander, Serial!Dead, OneHostLock!Dead

LEMMA SerialChecksAreChecks == Serial!OneChecker' => OneHostLock!OneChecker'
  BY Zenon DEF Serial!OneChecker, OneHostLock!OneChecker, Serial!Checking,
               OneHostLock!Checking

LEMMA SerialBlocksAreBlocks ==
  OneHostLock!BlockedByTheLiving => Serial!BlockedByTheLiving
  BY Zenon
     DEF Serial!BlockedByTheLiving, OneHostLock!BlockedByTheLiving,
             Serial!JudgeInProgress, OneHostLock!JudgeInProgress,
             Serial!TakenOn, OneHostLock!TakenOn, Serial!KnownOn,
             OneHostLock!KnownOn, Serial!PidAlive, OneHostLock!PidAlive,
             Serial!OwnerReused, OneHostLock!OwnerReused,
             Serial!StartUnreadable, OneHostLock!StartUnreadable, Serial!Goto,
             OneHostLock!Goto, Serial!Alive, OneHostLock!Alive, Serial!SameHost,
             OneHostLock!SameHost, Serial!SameProcess, OneHostLock!SameProcess,
             Serial!Dead, OneHostLock!Dead

LEMMA OneHostFacts ==
  /\ OneHostLock!BackupLockAssumption
  /\ \A p, q \in Procs : OneHostLock!SameHost(p, q)
  <1>1. OneHostLock!BackupLockAssumption
    BY BackupLockAssumption DEF OneHostLock!LockFile, LockFile
  <1>2. \A p, q \in Procs : OneHostLock!SameHost(p, q)
    BY DEF OneHostLock!SameHost, OneHost
  <1> QED
    BY <1>1, <1>2

\* What holds as long as the subject is the serial lock.
SerialSubjectInv ==
  subject = "serial" => OneHostLock!SerialIInv /\ OneHostLock!ReadsOthers

LockNext == FaultsStep \/ SerialStep \/ RestartStep
lockState == <<subject, vars, gvars>>

LEMMA SerialSubjectInit == LockInit => SerialSubjectInv
  <1> SUFFICES ASSUME LockInit PROVE SerialSubjectInv
    OBVIOUS
  <1>1. OneHostLock!Init
    BY DEF LockInit, GuardInit, Init, LockFile, Unseen, AgeOnly, OneHostLock!Init,
           OneHostLock!Unseen, OneHostLock!AgeOnly
  <1>2. OneHostLock!SerialIInv /\ OneHostLock!ReadsOthers
    BY <1>1, OneHostFacts, OneHostLock!SerialIInvInit, OneHostLock!ReadsOthersInit
  <1> QED
    BY <1>2 DEF SerialSubjectInv

LEMMA SerialSubjectStep == SerialSubjectInv /\ [LockNext]_lockState => SerialSubjectInv'
  <1> SUFFICES ASSUME SerialSubjectInv, [LockNext]_lockState, subject' = "serial"
               PROVE  OneHostLock!SerialIInv' /\ OneHostLock!ReadsOthers'
    BY DEF SerialSubjectInv
  <1>1. subject = "serial"
    BY DEF LockNext, lockState, FaultsStep, SerialStep, RestartStep
  <1>2. OneHostLock!SerialIInv /\ OneHostLock!ReadsOthers
    BY <1>1 DEF SerialSubjectInv
  <1>3. OneHostLock!TypeOK
    BY <1>2 DEF OneHostLock!SerialIInv
  <1>4. [OneHostLock!Next /\ OneHostLock!OneChecker']_OneHostLock!vars
    <2>1. CASE SerialStep
      <3>1. OneHostLock!Next
        BY <2>1, SerialStepsAreSteps DEF SerialStep
      <3> QED
        BY <2>1, <3>1, SerialChecksAreChecks DEF SerialStep
    <2>2. CASE UNCHANGED lockState
      BY <2>2 DEF lockState, vars, OneHostLock!vars
    <2> QED
      BY <1>1, <2>1, <2>2 DEF LockNext, FaultsStep, RestartStep
  <1>5. OneHostLock!SerialIInv'
    BY <1>2, <1>4, OneHostFacts, OneHostLock!SerialIInvStep
  <1>6. OneHostLock!ReadsOthers'
    BY <1>2, <1>3, <1>4, OneHostFacts, OneHostLock!ReadsOthersStep
  <1> QED
    BY <1>5, <1>6

LEMMA SerialSubjectAlways == MCSpec => []SerialSubjectInv
  BY SerialSubjectInit, SerialSubjectStep, PTL DEF MCSpec, LockNext, lockState

\* Of the runs of MCLock whose checks do not overlap, no two are ever between
\* acquisition and release: for every set of runs on one host.
THEOREM SerialRunsHoldAlone == MCSpec => []SerialRunsExclude
  <1>1. SerialSubjectInv => SerialRunsExclude
    <2>1. OneHostLock!SerialIInv => OneHostLock!MutualExclusion
      BY OneHostFacts, OneHostLock!SerialInvExcludes
    <2>2. OneHostLock!MutualExclusion => MutualExclusion
      BY Zenon DEF MutualExclusion, OneHostLock!MutualExclusion, Holder, Holding,
                   OneHostLock!Holder, OneHostLock!Holding
    <2> QED
      BY <2>1, <2>2 DEF SerialSubjectInv, SerialRunsExclude
  <1> QED
    BY <1>1, SerialSubjectAlways, PTL

\* A lock that a run of the past left behind keeps none of them out: whoever
\* gives way to a recorded start time gives way to another live process.
THEOREM SerialRunsGiveWayToTheLiving == MCSpec => SerialNeverBlocked
  <1>1. SerialSubjectInv => (subject = "serial" => Serial!BlockedByTheLiving)
    <2>1. OneHostLock!TypeOK /\ OneHostLock!ReadsOthers => OneHostLock!BlockedByTheLiving
      BY OneHostFacts, OneHostLock!OnlyTheLivingBlock
    <2> QED
      BY <2>1, SerialBlocksAreBlocks DEF SerialSubjectInv, OneHostLock!SerialIInv
  <1> QED
    BY <1>1, SerialSubjectAlways, PTL DEF SerialNeverBlocked
=============================================================================
