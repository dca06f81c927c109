-------------------------- MODULE BackupLockProofs --------------------------
(***************************************************************************)
(* What holds of the backup lock (BackupLock) for every set of runs, every *)
(* assignment of hosts and pids and every interleaving.                    *)
(***************************************************************************)
EXTENDS BackupLock, TLAPS

AllLabels == Checking \cup Holding \cup Bystander \cup Dead

(* A lock file that was written is one, and so not NoLock.                 *)
LEMMA WrittenIsThere ==
  ASSUME NEW p \in Procs, NEW f \in BOOLEAN, NEW s \in BOOLEAN, NEW file,
         file = [by |-> p, full |-> f, st |-> s, aged |-> FALSE]
  PROVE  file.by = p /\ file.full = f /\ file # NoLock
  <1>1. file \in LockFile
    BY DEF LockFile
  <1>2. file.by = p /\ file.full = f
    OBVIOUS
  <1> QED
    BY <1>1, <1>2, BackupLockAssumption

\* The initial states and the steps keep every variable in its type.
LEMMA TypeInit == Init => TypeOK
  <1> SUFFICES ASSUME Init PROVE TypeOK
    OBVIOUS
  <1> USE DEF Init
  <1>1. lock \in LockFile \cup {NoLock}
    BY DEF LockFile
  <1>2. pc \in [Procs -> AllLabels]
    BY DEF AllLabels, Dead
  <1>3. seen \in [Procs -> [aged : BOOLEAN, owner : Procs \cup {NoProc},
                            st : BOOLEAN]]
    BY DEF Unseen, AgeOnly
  <1>4. dry \in [Procs -> BOOLEAN] /\ reaped \in SUBSET Procs
    OBVIOUS
  <1> QED
    BY <1>1, <1>2, <1>3, <1>4 DEF TypeOK, AllLabels

LEMMA TypeStep == TypeOK /\ [Next]_vars => TypeOK'
  <1> SUFFICES ASSUME TypeOK, [Next]_vars PROVE TypeOK'
    OBVIOUS
  <1> USE BackupLockAssumption DEF TypeOK, Checking, Holding, Bystander, Dead
  <1>1. ASSUME NEW p \in Procs, Start(p) PROVE TypeOK'
    BY <1>1 DEF Start, Goto
  <1>2. ASSUME NEW p \in Procs, Stat(p) PROVE TypeOK'
    <2>1. lock # NoLock => lock.aged \in BOOLEAN
      BY DEF LockFile
    <2>2. seen' \in [Procs -> [aged : BOOLEAN, owner : Procs \cup {NoProc},
                               st : BOOLEAN]]
      <3>1. CASE lock = NoLock
        BY <1>2, <3>1 DEF Stat
      <3>2. CASE lock # NoLock
        <4>1. AgeOnly(lock.aged) \in [aged : BOOLEAN, st : BOOLEAN,
                                     owner : Procs \cup {NoProc}]
          BY <2>1, <3>2 DEF AgeOnly
        <4>2. seen' = [seen EXCEPT ![p] = AgeOnly(lock.aged)]
          BY <1>2, <3>2 DEF Stat
        <4> QED
          BY <4>1, <4>2
      <3> QED
        BY <3>1, <3>2
    <2> QED
      BY <1>2, <2>2 DEF Stat, Goto, AfterCheck
  <1>3. ASSUME NEW p \in Procs, Read(p) PROVE TypeOK'
    <2>1. HasMetadata => lock.by \in Procs /\ lock.st \in BOOLEAN
      BY DEF LockFile, HasMetadata
    <2> QED
      BY <1>3, <2>1 DEF Read, Goto
  <1>4. ASSUME NEW p \in Procs, JudgeStale(p) PROVE TypeOK'
    BY <1>4 DEF JudgeStale, Goto
  <1>5. ASSUME NEW p \in Procs, JudgeInProgress(p) PROVE TypeOK'
    BY <1>5 DEF JudgeInProgress, Goto
  <1>6. ASSUME NEW p \in Procs, RemoveStale(p) PROVE TypeOK'
    BY <1>6 DEF RemoveStale, Reap, Goto, AfterCheck, LockFile
  <1>7. ASSUME NEW p \in Procs, RemoveFails(p) PROVE TypeOK'
    BY <1>7 DEF RemoveFails, Goto
  <1>8. ASSUME NEW p \in Procs, Create(p) PROVE TypeOK'
    <2>1. lock' \in LockFile \cup {NoLock}
      <3>1. [by |-> p, full |-> FALSE, st |-> FALSE, aged |-> FALSE] \in LockFile
        BY DEF LockFile
      <3> QED
        BY <1>8, <3>1 DEF Create
    <2> QED
      BY <1>8, <2>1 DEF Create, Goto
  <1>9. ASSUME NEW p \in Procs, Write(p) PROVE TypeOK'
    <2>1. lock' \in LockFile \cup {NoLock}
      <3>1. \A s \in BOOLEAN :
              [by |-> p, full |-> TRUE, st |-> s, aged |-> FALSE] \in LockFile
        BY DEF LockFile
      <3> QED
        BY <1>9, <3>1 DEF Write
    <2> QED
      BY <1>9, <2>1 DEF Write, Goto
  <1>10. ASSUME NEW p \in Procs, WriteFails(p) \/ PathFails(p)
        PROVE  TypeOK'
    BY <1>10 DEF WriteFails, PathFails, Goto
  <1>11. ASSUME NEW p \in Procs, DropPartial(p) PROVE TypeOK'
    BY <1>11 DEF DropPartial, Reap, Goto, LockFile
  <1>12. ASSUME NEW p \in Procs, BeginRelease(p) PROVE TypeOK'
    BY <1>12 DEF BeginRelease, Goto
  <1>13. ASSUME NEW p \in Procs, CheckOwner(p) PROVE TypeOK'
    BY <1>13 DEF CheckOwner, Goto
  <1>14. ASSUME NEW p \in Procs, Unlink(p) PROVE TypeOK'
    BY <1>14 DEF Unlink, Reap, Goto, LockFile
  <1>15. ASSUME NEW p \in Procs, Exit(p) PROVE TypeOK'
    BY <1>15 DEF Exit, Goto
  <1>16. ASSUME NEW p \in Procs, Crash(p) PROVE TypeOK'
    BY <1>16 DEF Crash, Goto
  <1>17. CASE AgeLock
    BY <1>17 DEF AgeLock, LockFile
  <1>18. CASE UNCHANGED vars
    BY <1>18 DEF vars
  <1> QED
    BY <1>1, <1>2, <1>3, <1>4, <1>5, <1>6, <1>7, <1>8, <1>9, <1>10, <1>11,
       <1>12, <1>13, <1>14, <1>15, <1>16, <1>17, <1>18
       DEF Next, CheckLockFile, ReleaseLock

\* Type correctness of the lock protocol.
THEOREM TypeCorrect == Spec => []TypeOK
  BY TypeInit, TypeStep, PTL DEF Spec

-----------------------------------------------------------------------------
(* What the exclusive create gives by itself                               *)

\* From its create to its unlink a run finds its own file at the lock path,
\* unless another run unlinked that file.
OwnFileUnlessReaped ==
  \A p \in Procs : pc[p] \in Holding \cup {"write", "drop"} /\ p \notin reaped
                     => lock # NoLock /\ lock.by = p

LEMMA OwnFileInit == Init => OwnFileUnlessReaped
  BY DEF Init, OwnFileUnlessReaped, Holding

LEMMA OwnFileStep ==
  TypeOK /\ OwnFileUnlessReaped /\ [Next]_vars => OwnFileUnlessReaped'
  <1> SUFFICES ASSUME TypeOK, OwnFileUnlessReaped, [Next]_vars
               PROVE  OwnFileUnlessReaped'
    OBVIOUS
  <1> USE BackupLockAssumption DEF TypeOK, OwnFileUnlessReaped, Holding
  \* Steps that leave the file alone and take nobody past its create.
  <1>1. ASSUME NEW p \in Procs,
               Start(p) \/ Stat(p) \/ Read(p) \/ JudgeStale(p)
                 \/ JudgeInProgress(p) \/ RemoveFails(p) \/ WriteFails(p) \/ PathFails(p)
                 \/ BeginRelease(p) \/ CheckOwner(p) \/ Exit(p) \/ Crash(p)
        PROVE  OwnFileUnlessReaped'
    BY <1>1 DEF Start, Stat, Read, JudgeStale, JudgeInProgress, RemoveFails,
                WriteFails, PathFails, BeginRelease, CheckOwner, Exit, Crash, Goto,
                AfterCheck, Checking, Bystander
  \* Steps that unlink by path: whoever loses its file is now reaped.
  <1>2. ASSUME NEW p \in Procs,
               RemoveStale(p) \/ DropPartial(p) \/ Unlink(p)
        PROVE  OwnFileUnlessReaped'
    BY <1>2 DEF RemoveStale, DropPartial, Unlink, Reap, Goto, AfterCheck
  <1>3. ASSUME NEW p \in Procs, Create(p) PROVE OwnFileUnlessReaped'
    <2>1. CASE lock = NoLock
      <3>1. lock' = [by |-> p, full |-> FALSE, st |-> FALSE, aged |-> FALSE]
        BY <1>3, <2>1 DEF Create
      <3>2. lock'.by = p /\ lock' # NoLock
        BY <3>1, WrittenIsThere
      <3> QED
        BY <1>3, <2>1, <3>2 DEF Create, Goto
    <2>2. CASE lock # NoLock
      BY <1>3, <2>2 DEF Create, Goto
    <2> QED
      BY <2>1, <2>2
  <1>4. ASSUME NEW p \in Procs, Write(p) PROVE OwnFileUnlessReaped'
    <2>1. CASE lock # NoLock /\ lock.by = p
      <3>1. PICK s \in BOOLEAN :
              lock' = [by |-> p, full |-> TRUE, st |-> s, aged |-> FALSE]
        BY <1>4, <2>1 DEF Write
      <3>2. lock'.by = p /\ lock' # NoLock
        BY <3>1, WrittenIsThere
      <3> QED
        BY <1>4, <2>1, <3>2 DEF Write, Goto
    <2>2. CASE ~(lock # NoLock /\ lock.by = p)
      BY <1>4, <2>2 DEF Write, Goto
    <2> QED
      BY <2>1, <2>2
  <1>5. CASE AgeLock
    <2>1. lock'.by = lock.by /\ lock' # NoLock
      BY <1>5 DEF AgeLock, LockFile
    <2> QED
      BY <1>5, <2>1 DEF AgeLock
  <1>6. CASE UNCHANGED vars
    BY <1>6 DEF vars
  <1> QED
    BY <1>1, <1>2, <1>3, <1>4, <1>5, <1>6 DEF Next, CheckLockFile, ReleaseLock

LEMMA OwnFileAlways == Spec => []OwnFileUnlessReaped
  BY OwnFileInit, OwnFileStep, TypeCorrect, PTL DEF Spec

\* Two runs that hold the lock together: one had its lock file unlinked by
\* another run.  Everything but the unlink of stale locks is sound.
THEOREM ReapingIsTheOnlyHole == Spec => []OnlyReapingBreaksExclusion
  <1>1. OwnFileUnlessReaped => OnlyReapingBreaksExclusion
    BY DEF OwnFileUnlessReaped, OnlyReapingBreaksExclusion, Holder
  <1> QED
    BY <1>1, OwnFileAlways, PTL

\* A release unlinks the caller's own lock and no other one, as long as nobody
\* reaped it.
THEOREM ReleaseIsOwn == Spec => ReleaseSparesOthersUnlessReaped
  <1>1. OwnFileUnlessReaped
          => \A p \in Procs : Releases(p) /\ p \notin reaped => lock.by = p
    BY DEF OwnFileUnlessReaped, Releases, Holding
  <1> QED
    BY <1>1, OwnFileAlways, PTL DEF ReleaseSparesOthersUnlessReaped

-----------------------------------------------------------------------------
(* The verdict "stale"                                                      *)

\* Nobody who has not started is named by a lock or by what a run has read.
NamesStarted ==
  /\ lock # NoLock => pc[lock.by] # "new"
  /\ \A p \in Procs : seen[p].owner # NoProc => pc[seen[p].owner] # "new"

StaleInv == NamesStarted /\ StaleVerdictSound

LEMMA StaleInvInit == Init => StaleInv
  <1> SUFFICES ASSUME Init PROVE StaleInv
    OBVIOUS
  <1>1. \A p \in Procs : seen[p].owner = NoProc
    BY DEF Init, Unseen, AgeOnly
  <1>2. \A p \in Procs : pc[p] # "remove"
    BY DEF Init, Dead
  <1>3. lock # NoLock => pc[lock.by] = "gone"
    BY DEF Init
  <1> QED
    BY <1>1, <1>2, <1>3 DEF StaleInv, NamesStarted, StaleVerdictSound

LEMMA StaleInvStep == TypeOK /\ StaleInv /\ [Next]_vars => StaleInv'
  <1> SUFFICES ASSUME TypeOK, StaleInv, [Next]_vars PROVE StaleInv'
    OBVIOUS
  <1> USE BackupLockAssumption
      DEF TypeOK, StaleInv, NamesStarted, StaleVerdictSound, Alive, Dead
  <1>0. lock # NoLock => lock.by \in Procs
    BY DEF LockFile
  \* Steps that end no run, start none and reach no verdict.
  <1>1. ASSUME NEW p \in Procs,
               JudgeInProgress(p) \/ RemoveFails(p) \/ WriteFails(p) \/ PathFails(p)
                 \/ BeginRelease(p) \/ CheckOwner(p) \/ RemoveStale(p)
                 \/ DropPartial(p) \/ Unlink(p)
        PROVE  StaleInv'
    BY <1>0, <1>1 DEF JudgeInProgress, RemoveFails, WriteFails, PathFails, BeginRelease,
                CheckOwner, RemoveStale, DropPartial, Unlink, Goto, AfterCheck
  <1>2. ASSUME NEW p \in Procs, Start(p) PROVE StaleInv'
    BY <1>0, <1>2 DEF Start, Goto
  <1>3. ASSUME NEW p \in Procs, Stat(p) PROVE StaleInv'
    <2>1. pc[p] = "stat" /\ lock' = lock /\ pc' = [pc EXCEPT ![p] = pc'[p]]
      BY <1>3 DEF Stat, Goto
    <2>2. pc'[p] \in {"read", "create", "dryrun"}
      BY <1>3 DEF Stat, Goto, AfterCheck
    <2>3. seen' = seen \/ seen' = [seen EXCEPT ![p] = AgeOnly(lock.aged)]
      BY <1>3 DEF Stat
    <2>4. \A q \in Procs : seen'[q].owner = NoProc \/ seen'[q] = seen[q]
      BY <2>3 DEF AgeOnly
    <2>5. \A q \in Procs : q # p => seen'[q] = seen[q] /\ pc'[q] = pc[q]
      BY <2>1, <2>3
    <2> QED
      BY <1>0, <2>1, <2>2, <2>4, <2>5
  <1>4. ASSUME NEW p \in Procs, Read(p) PROVE StaleInv'
    BY <1>0, <1>4 DEF Read, Goto, HasMetadata
  <1>5. ASSUME NEW p \in Procs, JudgeStale(p) PROVE StaleInv'
    <2>1. ~seen[p].aged => seen[p].owner # NoProc /\ ~Alive(seen[p].owner)
      BY <1>5 DEF JudgeStale, StaleOn, KnownOn, PidAlive, OwnerReused
    <2> QED
      BY <1>0, <1>5, <2>1 DEF JudgeStale, Goto
  <1>6. ASSUME NEW p \in Procs, Create(p) PROVE StaleInv'
    <2>1. lock' = lock \/ lock'.by = p
      BY <1>6 DEF Create
    <2> QED
      BY <1>0, <1>6, <2>1 DEF Create, Goto
  <1>7. ASSUME NEW p \in Procs, Write(p) PROVE StaleInv'
    <2>1. lock' = lock \/ lock'.by = p
      BY <1>7 DEF Write
    <2> QED
      BY <1>0, <1>7, <2>1 DEF Write, Goto
  <1>8. ASSUME NEW p \in Procs, Exit(p) \/ Crash(p) PROVE StaleInv'
    BY <1>0, <1>8 DEF Exit, Crash, Goto, Checking, Holding, Bystander
  <1>9. CASE AgeLock
    <2>1. lock'.by = lock.by
      BY <1>9 DEF AgeLock, LockFile
    <2> QED
      BY <1>0, <1>9, <2>1 DEF AgeLock
  <1>10. CASE UNCHANGED vars
    BY <1>10 DEF vars
  <1> QED
    BY <1>1, <1>2, <1>3, <1>4, <1>5, <1>6, <1>7, <1>8, <1>9, <1>10
       DEF Next, CheckLockFile, ReleaseLock

\* A run that is about to unlink a young lock knows its owner to be dead, on
\* any number of hosts, whatever pids are reused and whatever reads fail.
THEOREM StaleVerdictIsSound == Spec => []StaleVerdictSound
  <1>1. StaleInv => StaleVerdictSound
    BY DEF StaleInv
  <1> QED
    BY <1>1, StaleInvInit, StaleInvStep, TypeCorrect, PTL DEF Spec

-----------------------------------------------------------------------------
(* Mutual exclusion of runs of one host whose checks do not overlap         *)

\* The lock is the file of whoever holds it, with its metadata; a run that has
\* read the lock of a holder knows its owner; and a run that has found the lock
\* stale, or is about to write its own, has found no holder.
SerialInv ==
  /\ \A q \in Procs : Holder(q) => lock # NoLock /\ lock.by = q /\ lock.full
  /\ \A p \in Procs : pc[p] = "write" => lock # NoLock /\ lock.by = p
  /\ \A p, q \in Procs : pc[p] = "judge" /\ Holder(q) => seen[p].owner = q
  /\ \A p, q \in Procs : pc[p] = "remove" => ~Holder(q)
  /\ \A p \in Procs : pc[p] # "drop"

LEMMA SerialInvInit == Init => SerialInv
  BY DEF Init, SerialInv, Holder, Holding

LEMMA SerialInvStep ==
  ASSUME ~IOFaults, \A p, q \in Procs : SameHost(p, q)
  PROVE  TypeOK /\ SerialInv /\ OneChecker /\ OneChecker' /\ [Next]_vars
           => SerialInv'
  <1> SUFFICES ASSUME TypeOK, SerialInv, OneChecker, OneChecker', [Next]_vars
               PROVE  SerialInv'
    OBVIOUS
  <1> USE BackupLockAssumption
      DEF TypeOK, SerialInv, OneChecker, Holder, Holding, Checking
  <1>0. lock # NoLock => lock.by \in Procs
    BY DEF LockFile
  <1>1. ASSUME NEW p \in Procs,
               Start(p) \/ JudgeInProgress(p) \/ RemoveFails(p)
                 \/ WriteFails(p) \/ PathFails(p) \/ BeginRelease(p) \/ CheckOwner(p)
                 \/ DropPartial(p) \/ Exit(p) \/ Crash(p)
        PROVE  SerialInv'
    BY <1>1 DEF Start, JudgeInProgress, RemoveFails, WriteFails, PathFails, BeginRelease,
                CheckOwner, DropPartial, Exit, Crash, Goto, Bystander
  <1>2. ASSUME NEW p \in Procs, Stat(p) PROVE SerialInv'
    <2>1. /\ pc' = [pc EXCEPT ![p] = pc'[p]]
          /\ pc'[p] \in {"read", "create", "dryrun"}
          /\ lock' = lock
      BY <1>2 DEF Stat, Goto, AfterCheck
    <2>2. \A q \in Procs : q # p => seen'[q] = seen[q]
      BY <1>2 DEF Stat
    <2> QED
      BY <2>1, <2>2
  <1>3. ASSUME NEW p \in Procs, Read(p) PROVE SerialInv'
    BY <1>3 DEF Read, Goto, HasMetadata
  \* The owner of a lock that is held is alive, so the verdict is another one.
  <1>4. ASSUME NEW p \in Procs, JudgeStale(p) PROVE SerialInv'
    <2>1. \A q \in Procs : ~Holder(q)
      <3> SUFFICES ASSUME NEW q \in Procs, Holder(q) PROVE FALSE
        OBVIOUS
      <3>1. seen[p].owner = q /\ Alive(q)
        BY <1>4 DEF JudgeStale, Alive, Dead
      <3>2. KnownOn(HostOf[p], seen[p])
        BY <3>1 DEF KnownOn, SameHost
      <3>3. PidAlive(HostOf[p], seen[p].owner)
        BY <3>1 DEF PidAlive, SameHost
      <3>4. ~OwnerReused(seen[p])
        BY <3>1 DEF OwnerReused
      <3> QED
        BY <1>4, <3>2, <3>3, <3>4 DEF JudgeStale, StaleOn
    <2> QED
      BY <1>4, <2>1 DEF JudgeStale, Goto
  <1>5. ASSUME NEW p \in Procs, RemoveStale(p) PROVE SerialInv'
    BY <1>5 DEF RemoveStale, Goto, AfterCheck
  <1>6. ASSUME NEW p \in Procs, Create(p) PROVE SerialInv'
    <2>1. CASE lock = NoLock
      <3>1. lock' = [by |-> p, full |-> FALSE, st |-> FALSE, aged |-> FALSE]
        BY <1>6, <2>1 DEF Create
      <3>2. lock'.by = p /\ lock' # NoLock
        BY <3>1, WrittenIsThere
      <3> QED
        BY <1>6, <2>1, <3>2 DEF Create, Goto
    <2>2. CASE lock # NoLock
      BY <1>6, <2>2 DEF Create, Goto
    <2> QED
      BY <2>1, <2>2
  <1>7. ASSUME NEW p \in Procs, Write(p) PROVE SerialInv'
    <2>1. PICK s \in BOOLEAN :
            lock' = [by |-> p, full |-> TRUE, st |-> s, aged |-> FALSE]
      BY <1>7 DEF Write
    <2>2. lock'.by = p /\ lock' # NoLock /\ lock'.full
      BY <2>1, WrittenIsThere
    <2> QED
      BY <1>7, <2>2 DEF Write, Goto
  <1>8. ASSUME NEW p \in Procs, Unlink(p) PROVE SerialInv'
    BY <1>8 DEF Unlink, Goto
  <1>9. CASE AgeLock
    <2>1. lock'.by = lock.by /\ lock'.full = lock.full /\ lock' # NoLock
      BY <1>9 DEF AgeLock, LockFile
    <2> QED
      BY <1>9, <2>1 DEF AgeLock
  <1>10. CASE UNCHANGED vars
    BY <1>10 DEF vars
  <1> QED
    BY <1>1, <1>2, <1>3, <1>4, <1>5, <1>6, <1>7, <1>8, <1>9, <1>10
       DEF Next, CheckLockFile, ReleaseLock

\* What holds of runs whose checks do not overlap.
SerialIInv == TypeOK /\ OneChecker /\ SerialInv

LEMMA SerialIInvInit == Init => SerialIInv
  <1>1. Init => OneChecker
    BY DEF Init, OneChecker, Checking
  <1> QED
    BY <1>1, TypeInit, SerialInvInit DEF SerialIInv

LEMMA SerialIInvStep ==
  ~IOFaults /\ (\A p, q \in Procs : SameHost(p, q))
    => (SerialIInv /\ [Next /\ OneChecker']_vars => SerialIInv')
  <1> SUFFICES ASSUME ~IOFaults, \A p, q \in Procs : SameHost(p, q), SerialIInv,
                      [Next /\ OneChecker']_vars
               PROVE  SerialIInv'
    OBVIOUS
  <1>1. [Next]_vars
    OBVIOUS
  <1>2. TypeOK'
    BY <1>1, TypeStep DEF SerialIInv
  <1>3. OneChecker'
    BY DEF SerialIInv, OneChecker, vars
  <1>4. SerialInv'
    BY <1>1, <1>3, SerialInvStep DEF SerialIInv
  <1> QED
    BY <1>2, <1>3, <1>4 DEF SerialIInv

LEMMA SerialInvExcludes == SerialIInv => MutualExclusion
  BY DEF SerialIInv, SerialInv, MutualExclusion

\* On one host, and without I/O faults, runs whose lock checks do not overlap
\* exclude each other: across crashes at any point, reused pids, dry runs and
\* backups of any length.
THEOREM SerialExclusion ==
  ASSUME ~IOFaults, \A p, q \in Procs : SameHost(p, q)
  PROVE  SerialSpec => []MutualExclusion
  <1>1. SerialIInv /\ [Next /\ OneChecker']_vars => SerialIInv'
    BY SerialIInvStep
  <1> QED
    BY <1>1, SerialIInvInit, SerialInvExcludes, PTL DEF SerialSpec

-----------------------------------------------------------------------------
(* Leftover locks                                                           *)

\* A run never reads a lock of its own: it creates one only when it is done
\* reading.  A start time is only ever read together with an owner.
ReadsOthers ==
  \A p \in Procs :
    /\ seen[p].owner # p
    /\ seen[p].owner = NoProc => ~seen[p].st
    /\ pc[p] \in {"new", "stat", "read", "judge", "remove", "create"}
         => lock = NoLock \/ lock.by # p

LEMMA ReadsOthersInit == Init => ReadsOthers
  <1> SUFFICES ASSUME Init PROVE ReadsOthers
    OBVIOUS
  <1>1. \A p \in Procs : seen[p].owner = NoProc /\ ~seen[p].st
    BY DEF Init, Unseen, AgeOnly
  <1>2. \A p \in Procs : lock # NoLock /\ lock.by = p => pc[p] = "gone"
    BY DEF Init
  <1> QED
    BY <1>1, <1>2, BackupLockAssumption DEF ReadsOthers

LEMMA ReadsOthersStep == TypeOK /\ ReadsOthers /\ [Next]_vars => ReadsOthers'
  <1> SUFFICES ASSUME TypeOK, ReadsOthers, [Next]_vars PROVE ReadsOthers'
    OBVIOUS
  <1> USE BackupLockAssumption DEF TypeOK, ReadsOthers
  \* Steps that read nothing and create nothing.
  <1>1. ASSUME NEW p \in Procs,
               Start(p) \/ JudgeStale(p) \/ JudgeInProgress(p) \/ RemoveStale(p)
                 \/ RemoveFails(p) \/ WriteFails(p) \/ PathFails(p) \/ DropPartial(p)
                 \/ BeginRelease(p) \/ CheckOwner(p) \/ Unlink(p) \/ Exit(p)
                 \/ Crash(p)
        PROVE  ReadsOthers'
    BY <1>1 DEF Start, JudgeStale, JudgeInProgress, RemoveStale, RemoveFails,
                WriteFails, PathFails, DropPartial, BeginRelease, CheckOwner, Unlink,
                Exit, Crash, Goto, AfterCheck, Checking, Holding, Bystander
  <1>2. ASSUME NEW p \in Procs, Stat(p) PROVE ReadsOthers'
    <2>1. /\ pc' = [pc EXCEPT ![p] = pc'[p]] /\ pc[p] = "stat"
          /\ lock' = lock
      BY <1>2 DEF Stat, Goto
    <2>2. seen' = seen \/ seen' = [seen EXCEPT ![p] = AgeOnly(lock.aged)]
      BY <1>2 DEF Stat
    <2>3. \A q \in Procs : \/ seen'[q] = seen[q]
                           \/ seen'[q].owner = NoProc /\ ~seen'[q].st
      BY <2>2 DEF AgeOnly
    <2> QED
      BY <2>1, <2>3
  <1>3. ASSUME NEW p \in Procs, Read(p) PROVE ReadsOthers'
    BY <1>3 DEF Read, Goto, HasMetadata, LockFile
  <1>4. ASSUME NEW p \in Procs, Create(p) PROVE ReadsOthers'
    <2>1. lock' = lock \/ lock'.by = p
      BY <1>4 DEF Create
    <2> QED
      BY <1>4, <2>1 DEF Create, Goto
  <1>5. ASSUME NEW p \in Procs, Write(p) PROVE ReadsOthers'
    <2>1. lock' = lock \/ lock'.by = p
      BY <1>5 DEF Write
    <2> QED
      BY <1>5, <2>1 DEF Write, Goto
  <1>6. CASE AgeLock
    <2>1. lock'.by = lock.by
      BY <1>6 DEF AgeLock, LockFile
    <2> QED
      BY <1>6, <2>1 DEF AgeLock
  <1>7. CASE UNCHANGED vars
    BY <1>7 DEF vars
  <1> QED
    BY <1>1, <1>2, <1>3, <1>4, <1>5, <1>6, <1>7 DEF Next, CheckLockFile, ReleaseLock

\* Whoever is kept out by such a lock is kept out by another live process.
LEMMA OnlyTheLivingBlock == ~IOFaults /\ TypeOK /\ ReadsOthers => BlockedByTheLiving
  <1> SUFFICES ASSUME ~IOFaults, TypeOK, ReadsOthers,
                      NEW p \in Procs, JudgeInProgress(p),
                      seen[p].st, SameHost(seen[p].owner, p)
               PROVE  \E q \in Procs \ {p} : Alive(q) /\ SameProcess(q, seen[p].owner)
    BY DEF BlockedByTheLiving
  <1> DEFINE o == seen[p].owner
  <1>1. o \in Procs /\ o # p
    BY DEF TypeOK, ReadsOthers
  <1>2. KnownOn(HostOf[p], seen[p])
    BY <1>1, BackupLockAssumption DEF KnownOn, SameHost
  <1>3. PidAlive(HostOf[p], o)
    BY <1>2 DEF JudgeInProgress, TakenOn
  <1>4. PICK r \in Procs : Alive(r) /\ SameProcess(r, o)
    BY <1>3 DEF PidAlive, SameProcess, SameHost
  <1>5. CASE r # p
    BY <1>4, <1>5
  <1>6. CASE r = p
    <2>1. ~StartUnreadable(seen[p], p)
      BY <1>4, <1>6, BackupLockAssumption DEF StartUnreadable, SameProcess, SameHost
    <2>2. ~OwnerReused(seen[p])
      BY <1>2, <2>1 DEF JudgeInProgress, TakenOn
    <2>3. Alive(o)
      BY <2>2 DEF OwnerReused
    <2> QED
      BY <1>1, <2>3 DEF SameProcess, SameHost
  <1> QED
    BY <1>5, <1>6

\* Where system calls work, a lock with a start time keeps a run of its host
\* out only while another live process has the recorded pid: on any number of
\* hosts, however checks overlap and pids are reused.
THEOREM LeftoversDoNotBlock == ASSUME ~IOFaults PROVE Spec => LeftoverNeverBlocks
  <1>1. Spec => [](TypeOK /\ ReadsOthers)
    BY TypeInit, TypeStep, ReadsOthersInit, ReadsOthersStep, PTL DEF Spec
  <1> QED
    BY <1>1, OnlyTheLivingBlock, PTL DEF LeftoverNeverBlocks
=============================================================================
