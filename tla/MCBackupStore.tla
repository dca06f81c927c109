---------------------------- MODULE MCBackupStore ----------------------------
(* Instances of BackupStore for TLC: one backup is kept in each location,  *)
(* so that the third run already deletes what the first two left.          *)
EXTENDS BackupStore

MCKeep == [p \in Places |-> 1]

(* Partial and temporary files of earlier runs, and sidecars that have no  *)
(* archive next to them, are never read again: a state with such a file    *)
(* does what the state without it does, which is reached as well.          *)
NoLitter ==
  \A p \in Places, r \in Runs \ {run} :
    /\ files[p][r] \cap {"partial", "tmpbundle"} = {}
    /\ files[p][r] # {} => files[p][r] \cap ({"archive"} \cup Bundle) # {}

\* bound: at most one run of a behaviour fails or warns
FewFailures == Cardinality(((1 .. run - 1) \ succeeded) \cup warned) <= 1
=============================================================================
