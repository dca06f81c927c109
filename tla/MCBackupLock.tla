---------------------------- MODULE MCBackupLock ----------------------------
(***************************************************************************)
(* Small instances of BackupLock: three runs, two of them with one pid.    *)
(***************************************************************************)
EXTENDS BackupLock

CONSTANTS p1, p2, p3

MCProcs == {p1, p2, p3}

\* p1 and p3 may follow one another under the same pid.
MCPidOf == [p \in MCProcs |-> IF p = p2 THEN 2 ELSE 1]

OneHost == [p \in MCProcs |-> "hostA"]

\* No lock reaches MaxLockAge while the runs are at it: only a leftover of the
\* past may be that old.
FreshLocksSpec == Init /\ [][Next /\ ~AgeLock]_vars
=============================================================================
