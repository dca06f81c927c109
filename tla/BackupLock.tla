----------------------------- MODULE BackupLock -----------------------------
(***************************************************************************)
(* The backup lock file (<lock dir>/.backup.lock) that keeps two backup    *)
(* runs apart: Checker.CheckLockFile, Checker.ReleaseLock and the helpers  *)
(* they call (internal/checks/checks.go).                                  *)
(*                                                                         *)
(* A process of Procs is one run of the proxsave binary that takes a       *)
(* backup.  Every system call on the lock path is a step of its own, so    *)
(* that the runs interleave between the stat, the read, the signal-0       *)
(* probe, the unlink and the exclusive create.  What the code identifies   *)
(* by path (unlink) acts on whatever file is there; what it identifies by  *)
(* descriptor (the write) acts on the file the process created.            *)
(*                                                                         *)
(* The start time of a process names its run: two runs that share a host   *)
(* and a pid are told apart by it and by nothing else.                     *)
(***************************************************************************)
EXTENDS Naturals

CONSTANTS
  Procs,     (* runs of the binary that reach the lock check               *)
  HostOf,    (* the host a run executes on                                 *)
  PidOf,     (* the pid it has there; a later run may have the same one    *)
  NoProc,    (* "no pid recorded" in the metadata of a lock                *)
  NoLock,    (* the lock path does not exist                               *)
  IOFaults   (* TRUE: reads, writes, unlinks and signal 0 may fail oddly   *)

LockFile == [by : Procs, full : BOOLEAN, st : BOOLEAN, aged : BOOLEAN]

ASSUME BackupLockAssumption ==
  /\ NoProc \notin Procs
  /\ NoLock \notin LockFile
  /\ IOFaults \in BOOLEAN

VARIABLES
  lock,      (* the file at the lock path, or NoLock                       *)
  pc,        (* the next step of each run                                  *)
  dry,       (* DryRun of each run                                         *)
  seen,      (* what a run learnt from its stat and its read               *)
  reaped     (* history: runs whose lock file another run unlinked         *)

vars == <<lock, pc, dry, seen, reaped>>

\* What a stat alone tells of a lock, and what a run knows before it.
AgeOnly(a) == [aged |-> a, owner |-> NoProc, st |-> FALSE]
Unseen     == AgeOnly(FALSE)

\* Program counters: of a run that checks the lock, that holds it, that
\* gives it back, that is alive without it, and of one that is not alive.
Checking  == {"stat", "read", "judge", "remove", "create", "write", "drop"}
Holding   == {"held", "owncheck", "unlink"}
Bystander == {"dryrun", "inprogress", "failed", "released"}
Dead      == {"new", "gone"}

Alive(p)   == pc[p] \notin Dead
Holder(p)  == pc[p] \in Holding
SameHost(p, q) == HostOf[p] = HostOf[q]
SameProcess(p, q) == SameHost(p, q) /\ PidOf[p] = PidOf[q]

TypeOK ==
  /\ lock \in LockFile \cup {NoLock}
  /\ pc \in [Procs -> Checking \cup Holding \cup Bystander \cup Dead]
  /\ dry \in [Procs -> BOOLEAN]
  /\ seen \in [Procs -> [aged : BOOLEAN, owner : Procs \cup {NoProc},
                         st : BOOLEAN]]
  /\ reaped \in SUBSET Procs

\* A lock file a run of the past left behind, or none: the state the first
\* run of this behaviour may find.
Init ==
  /\ lock \in {NoLock} \cup [by : Procs, full : {TRUE}, st : BOOLEAN,
                             aged : BOOLEAN]
  /\ pc = [p \in Procs |->
             IF lock # NoLock /\ lock.by = p THEN "gone" ELSE "new"]
  /\ dry = [p \in Procs |-> FALSE]
  /\ seen = [p \in Procs |-> Unseen]
  /\ reaped = {}

Goto(p, label) == pc' = [pc EXCEPT ![p] = label]

\* A run that has seen no lock file, or removed a stale one, goes on to the
\* exclusive create; a dry run passes the check without creating anything.
AfterCheck(p) == IF dry[p] THEN "dryrun" ELSE "create"

-----------------------------------------------------------------------------
(* CheckLockFile *)

\* The kernel never gives the pid of a live process to a new one.
Start(p) ==
  /\ pc[p] = "new"
  /\ \A q \in Procs : Alive(q) => ~SameProcess(p, q)
  /\ \E d \in BOOLEAN : dry' = [dry EXCEPT ![p] = d]
  /\ Goto(p, "stat")
  /\ UNCHANGED <<lock, seen, reaped>>

Stat(p) ==
  /\ pc[p] = "stat"
  /\ IF lock = NoLock
     THEN /\ Goto(p, AfterCheck(p))
          /\ UNCHANGED seen
     ELSE /\ seen' = [seen EXCEPT ![p] = AgeOnly(lock.aged)]
          /\ Goto(p, "read")
  /\ UNCHANGED <<lock, dry, reaped>>

HasMetadata == lock # NoLock /\ lock.full

\* readLockFileContent and parseLockFileMetadata: a lock that vanished since
\* the stat, that is still empty or that cannot be read yields no pid.
Read(p) ==
  /\ pc[p] = "read"
  /\ \/ /\ HasMetadata
        /\ seen' = [seen EXCEPT ![p].owner = lock.by, ![p].st = lock.st]
     \/ /\ ~HasMetadata \/ IOFaults
        /\ UNCHANGED seen
  /\ Goto(p, "judge")
  /\ UNCHANGED <<lock, dry, reaped>>

\* The pid of run q answers signal 0 on host h.
PidAlive(h, q) ==
  \E r \in Procs : Alive(r) /\ HostOf[r] = h /\ PidOf[r] = PidOf[q]

KnownOn_AnyHost(h, meta) == meta.owner # NoProc

\* What was read names a run of host h: only then is its pid probed.
KnownOn(h, meta) == meta.owner # NoProc /\ HostOf[meta.owner] = h

\* lockOwnerReused: the live process with that pid is provably another one.
OwnerReused_Never(meta) == FALSE
OwnerReused(meta) == meta.st /\ ~Alive(meta.owner)

\* The start time of the recorded pid cannot be read: the process that has it,
\* if it is not the one that looks, may end between the two probes.
StartUnreadable(meta, p) ==
  IOFaults \/ (p # NoProc => ~SameProcess(meta.owner, p))

\* The lock is stale: its owner is a dead process of this host, or its pid now
\* belongs to another one, or nothing can be said of its owner and it is older
\* than MaxLockAge.
StaleOn_AgeOnly(h, meta) == meta.aged
StaleOn(h, meta) ==
  \/ KnownOn(h, meta) /\ ~PidAlive(h, meta.owner)
  \/ KnownOn(h, meta) /\ PidAlive(h, meta.owner) /\ OwnerReused(meta)
  \/ (~KnownOn(h, meta) \/ IOFaults) /\ meta.aged

\* The lock is taken: its pid is alive and not provably another run, or nothing
\* can be said of the owner and the file is young.  p is the run that looks.
TakenOn(h, meta, p) ==
  \/ /\ KnownOn(h, meta)
     /\ PidAlive(h, meta.owner)
     /\ ~OwnerReused(meta) \/ StartUnreadable(meta, p)
  \/ (~KnownOn(h, meta) \/ IOFaults) /\ ~meta.aged

JudgeStale(p) ==
  /\ pc[p] = "judge"
  /\ StaleOn(HostOf[p], seen[p])
  /\ Goto(p, "remove")
  /\ UNCHANGED <<lock, dry, seen, reaped>>

JudgeInProgress(p) ==
  /\ pc[p] = "judge"
  /\ TakenOn(HostOf[p], seen[p], p)
  /\ Goto(p, "inprogress")
  /\ UNCHANGED <<lock, dry, seen, reaped>>

Reap(p) == reaped' = IF lock = NoLock \/ lock.by = p
                     THEN reaped ELSE reaped \cup {lock.by}

\* os.Remove by path.  A file that is already gone is an error here, and the
\* check fails with it; so does any other error.
RemoveStale(p) ==
  /\ pc[p] = "remove"
  /\ lock # NoLock
  /\ lock' = NoLock
  /\ Reap(p)
  /\ Goto(p, AfterCheck(p))
  /\ UNCHANGED <<dry, seen>>

RemoveFails(p) ==
  /\ pc[p] = "remove"
  /\ lock = NoLock \/ IOFaults
  /\ Goto(p, "failed")
  /\ UNCHANGED <<lock, dry, seen, reaped>>

Create_NotExclusive(p) ==
  /\ pc[p] = "create"
  /\ lock' = [by |-> p, full |-> FALSE, st |-> FALSE, aged |-> FALSE]
  /\ Goto(p, "write")
  /\ UNCHANGED <<dry, seen, reaped>>

\* O_CREATE|O_EXCL: an existing file is another backup in progress.
Create(p) ==
  /\ pc[p] = "create"
  /\ IF lock = NoLock
     THEN /\ lock' = [by |-> p, full |-> FALSE, st |-> FALSE, aged |-> FALSE]
          /\ Goto(p, "write")
     ELSE /\ Goto(p, "inprogress")
          /\ UNCHANGED lock
  /\ UNCHANGED <<dry, seen, reaped>>

\* The metadata goes through the descriptor, to the file this run created; the
\* close may still fail.
Write(p) ==
  /\ pc[p] = "write"
  /\ IF lock # NoLock /\ lock.by = p
     THEN \E s \in BOOLEAN :
            lock' = [by |-> p, full |-> TRUE, st |-> s, aged |-> FALSE]
     ELSE UNCHANGED lock
  /\ Goto(p, "held") \/ (IOFaults /\ Goto(p, "drop"))
  /\ UNCHANGED <<dry, seen, reaped>>

WriteFails(p) ==
  /\ pc[p] = "write"
  /\ IOFaults
  /\ Goto(p, "drop")
  /\ UNCHANGED <<lock, dry, seen, reaped>>

\* removePartialLockFile unlinks by path.
DropPartial(p) ==
  /\ pc[p] = "drop"
  /\ lock' = NoLock
  /\ Reap(p)
  /\ Goto(p, "failed")
  /\ UNCHANGED <<dry, seen>>

\* The stat or the open fails with an error of another kind.
PathFails(p) ==
  /\ pc[p] \in {"stat", "create"}
  /\ IOFaults
  /\ Goto(p, "failed")
  /\ UNCHANGED <<lock, dry, seen, reaped>>

-----------------------------------------------------------------------------
(* ReleaseLock, called once by the deferred release of a run that acquired  *)

\* The backup is over; the run is about to confirm that the lock is its own.
BeginRelease(p) ==
  /\ pc[p] = "held"
  /\ Goto(p, "owncheck")
  /\ UNCHANGED <<lock, dry, seen, reaped>>

\* ownsLockFile: gone already, or recorded with this host and this pid.
OwnsLockFile(p) ==
  lock # NoLock => lock.full /\ SameProcess(lock.by, p)

CheckOwner(p) ==
  /\ pc[p] = "owncheck"
  /\ \/ OwnsLockFile(p) /\ Goto(p, "unlink")
     \/ (~OwnsLockFile(p) \/ IOFaults) /\ Goto(p, "released")
  /\ UNCHANGED <<lock, dry, seen, reaped>>

Unlink(p) ==
  /\ pc[p] = "unlink"
  /\ \/ /\ lock' = NoLock
        /\ Reap(p)
     \/ IOFaults /\ UNCHANGED <<lock, reaped>>
  /\ Goto(p, "released")
  /\ UNCHANGED <<dry, seen>>

-----------------------------------------------------------------------------
(* The environment *)

\* A run that is through with the lock ends.
Exit(p) ==
  /\ pc[p] \in Bystander
  /\ Goto(p, "gone")
  /\ UNCHANGED <<lock, dry, seen, reaped>>

\* SIGKILL, a panic or a power cut, between any two system calls.
Crash(p) ==
  /\ pc[p] \in Checking \cup Holding
  /\ Goto(p, "gone")
  /\ UNCHANGED <<lock, dry, seen, reaped>>

\* MaxLockAge passes since the lock was last written: a backup may take longer.
AgeLock ==
  /\ lock # NoLock
  /\ ~lock.aged
  /\ lock' = [lock EXCEPT !.aged = TRUE]
  /\ UNCHANGED <<pc, dry, seen, reaped>>

CheckLockFile(p) ==
  \/ Stat(p) \/ Read(p) \/ JudgeStale(p) \/ JudgeInProgress(p)
  \/ RemoveStale(p) \/ RemoveFails(p) \/ Create(p) \/ Write(p)
  \/ WriteFails(p) \/ DropPartial(p) \/ PathFails(p)

ReleaseLock(p) == BeginRelease(p) \/ CheckOwner(p) \/ Unlink(p)

Next ==
  \/ \E p \in Procs : Start(p) \/ CheckLockFile(p) \/ ReleaseLock(p)
                      \/ Exit(p) \/ Crash(p)
  \/ AgeLock

Spec == Init /\ [][Next]_vars

\* Runs whose lock checks do not overlap: no run is between its stat and its
\* write while another one is.
OneChecker ==
  \A p, q \in Procs : pc[p] \in Checking /\ pc[q] \in Checking => p = q

SerialSpec == Init /\ [][Next /\ OneChecker']_vars

-----------------------------------------------------------------------------
(* Properties *)

\* Two runs are never both between the acquisition and the release of the
\* backup lock: the purpose of the lock file.
MutualExclusion == \A p, q \in Procs : Holder(p) /\ Holder(q) => p = q

\* The exclusive create is sound by itself: a run that wrote its lock still
\* finds its own file at the path, unless another run unlinked it by path.  So
\* whenever two runs hold the lock, one of them was reaped.
OnlyReapingBreaksExclusion ==
  \A p, q \in Procs : Holder(p) /\ Holder(q) /\ p # q
                        => p \in reaped \/ q \in reaped

\* A run is about to unlink a young lock as stale only if the run recorded in
\* what it read is dead on its own host: neither a pid that now belongs to
\* another run nor a run of another host misleads it.
StaleVerdictSound ==
  \A p \in Procs : pc[p] = "remove" /\ ~seen[p].aged
    => seen[p].owner # NoProc /\ ~Alive(seen[p].owner)

\* A run whose own lock no other run has reaped unlinks no lock but its own
\* when it releases ("doing so would remove the holder's lock and break mutual
\* exclusion").  Once it was reaped it may: the unlink is by path, a step after
\* the ownership was confirmed.
Releases(p) == pc[p] = "unlink" /\ lock # NoLock /\ lock' = NoLock
ReleaseSparesOthersUnlessReaped ==
  [][\A p \in Procs : Releases(p) /\ p \notin reaped => lock.by = p]_vars

\* A lock with a recorded start time keeps a run of its host from its backup
\* only while another live process has the recorded pid: never because the
\* run itself was given the pid of a dead one.
BlockedByTheLiving ==
  \A p \in Procs :
    JudgeInProgress(p) /\ seen[p].st /\ SameHost(seen[p].owner, p)
      => \E q \in Procs \ {p} : Alive(q) /\ SameProcess(q, seen[p].owner)

LeftoverNeverBlocks == [][BlockedByTheLiving]_vars
=============================================================================
