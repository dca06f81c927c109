---------------------------- MODULE BackupCatalog ----------------------------
(***************************************************************************)
(* What a backup location promises to whoever has to restore from it: the  *)
(* catalogue of restorable backups, identified by the run that made them.  *)
(* Later runs have larger numbers.  A backup enters the catalogue as its   *)
(* newest entry, and leaves it only while a newer one is there, so a       *)
(* location that has held a restorable backup never stops holding one.     *)
(***************************************************************************)
EXTENDS Integers

CONSTANT Runs

VARIABLE catalog

Init == catalog = {}

Add(r) ==
  /\ \A c \in catalog : c < r
  /\ catalog' = catalog \cup {r}

Drop(r) ==
  /\ \E c \in catalog : c > r
  /\ catalog' = catalog \ {r}

Next == \E r \in Runs : Add(r) \/ Drop(r)

Spec == Init /\ [][Next]_catalog
=============================================================================
