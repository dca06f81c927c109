------------------------------- MODULE MCHistory ------------------------------
(***************************************************************************)
(* The storage side in one run: the backups in the cloud, the tiers of the  *)
(* grandfather-father-son policy, the staging workspaces, and a copy to a     *)
(* mount that may hang.  They share no state, so a behaviour is one of a      *)
(* single subject, chosen at the start, and the others stay as they are.     *)
(***************************************************************************)
EXTENDS CloudStore, GFSRetention, TempRegistry, BoundedIO

VARIABLE subject

\* Weeks of two times, months of three and years of five, which do not line up.
MCWeekOf  == [t \in Times |-> (t + 1) \div 2]
MCMonthOf == [t \in Times |-> t \div 3]
MCYearOf  == [t \in Times |-> (t + 2) \div 5]

PackInit ==
  /\ subject \in {"cloud", "gfs", "temp", "copy"}
  /\ CloudInit /\ GFSInit /\ TempInit /\ IOInit

\* The state of the modules that are not the subject stays as it is.
CloudStep ==
  /\ subject = "cloud" /\ CloudNext
  /\ UNCHANGED <<subject, gfsVars, tempVars, ioVars>>

GFSStep ==
  /\ subject = "gfs" /\ GFSNext
  /\ UNCHANGED <<subject, cloudVars, tempVars, ioVars>>

TempStep ==
  /\ subject = "temp" /\ TempNext
  /\ UNCHANGED <<subject, cloudVars, gfsVars, ioVars>>

IOStep ==
  /\ subject = "copy" /\ IONext
  /\ UNCHANGED <<subject, cloudVars, gfsVars, tempVars>>

PackNext == CloudStep \/ GFSStep \/ TempStep \/ IOStep

PackFairness ==
  /\ \A c \in Callers : WF_ioVars(subject = "copy" /\ CallReturns(c))
  /\ \A o \in Operations : WF_ioVars(subject = "copy" /\ WorkerEnds(o))

MCSpec ==
  /\ PackInit /\ PackFairness
  /\ [][PackNext]_<<subject, cloudVars, gfsVars, tempVars, ioVars>>

\* Every variable keeps to its type.
HistoryTypeOK == CloudTypeOK /\ GFSTypeOK /\ TempTypeOK /\ IOTypeOK
=============================================================================
