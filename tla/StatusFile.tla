------------------------------ MODULE StatusFile ------------------------------
(***************************************************************************)
(* The daemon's health status file (internal/health/status.go), which its  *)
(* loops update by read-modify-write under statusMu: the heartbeat, the    *)
(* run outcomes and the verdicts of the update check (beat, runOnce and    *)
(* updateTick in cmd/proxsave/daemon.go).  The update loop also reads it:  *)
(* when a check is inconclusive the last verdict on file is re-affirmed to *)
(* the monitor.                                                            *)
(*                                                                         *)
(* A record is the answer it carries: "ok" for a ping that went out or a   *)
(* release that is up to date, "bad" for a failed ping or an available     *)
(* update, "none" for no record.                                           *)
(***************************************************************************)
EXTENDS Naturals

CONSTANTS
  Recorders,  (* the loops that write the file                             *)
  UpdateLoop  (* the one among them that checks for updates                *)

NoLoop == "no loop"

ASSUME StatusAssumption == UpdateLoop \in Recorders /\ NoLoop \notin Recorders

VARIABLES
  file,      (* the records on disk, or Corrupt                            *)
  statusMu,  (* the loop that holds the mutex                              *)
  tick,      (* the next step of each loop                                 *)
  answer,    (* what its tick has to report                                *)
  fetched,   (* the status it has loaded to modify                          *)
  affirming, (* the update tick re-affirms the verdict on file             *)
  recorded,  (* history: what each loop last recorded without error        *)
  checked,   (* history: the answer of the last conclusive update check    *)
  missed,    (* history: that answer did not get on file, or was lost      *)
  shown      (* history: the verdict on updates the monitor shows          *)

statusVars == <<file, statusMu, tick, answer, fetched, affirming, recorded,
                checked, missed, shown>>

Answers == {"ok", "bad"}
Records == [Recorders -> Answers \cup {"none"}]
Empty   == [r \in Recorders |-> "none"]
Corrupt == [r \in Recorders |-> "corrupt"]

StatusTypeOK ==
  /\ file \in Records \cup {Corrupt}
  /\ statusMu \in Recorders \cup {NoLoop}
  /\ tick \in [Recorders -> {"idle", "ping", "lock", "load", "store"}]
  /\ answer \in Records /\ recorded \in Records
  /\ fetched \in [Recorders -> Records]
  /\ affirming \in BOOLEAN /\ missed \in BOOLEAN
  /\ checked \in Answers \cup {"none"} /\ shown \in Answers \cup {"none"}

StatusInit ==
  /\ file = Empty /\ statusMu = NoLoop
  /\ tick = [r \in Recorders |-> "idle"]
  /\ answer = Empty /\ fetched = [r \in Recorders |-> Empty]
  /\ affirming = FALSE
  /\ recorded = Empty
  /\ checked = "none" /\ missed = FALSE /\ shown = "none"

-----------------------------------------------------------------------------

TickGoto(r, from, to) == tick[r] = from /\ tick' = [tick EXCEPT ![r] = to]

\* beat, or runOnce: the ping goes out or fails, and is recorded either way.
Ping(r) ==
  /\ r # UpdateLoop
  /\ TickGoto(r, "idle", "lock")
  /\ \E a \in Answers : answer' = [answer EXCEPT ![r] = a]
  /\ UNCHANGED <<file, statusMu, fetched, affirming, recorded, checked, missed,
                 shown>>

\* updateTick, when the check names a latest release.
CheckUpdate(r) ==
  /\ r = UpdateLoop
  /\ TickGoto(r, "idle", "ping")
  /\ \E a \in Answers : answer' = [answer EXCEPT ![r] = a] /\ checked' = a
  /\ affirming' = FALSE
  /\ missed' = FALSE
  /\ UNCHANGED <<file, statusMu, fetched, recorded, shown>>

\* LoadStatus: anything unreadable counts as no record.
OnFile == IF file = Corrupt THEN Empty ELSE file

Reaffirm_UpToDate(r) ==
  /\ r = UpdateLoop
  /\ TickGoto(r, "idle", "ping")
  /\ answer' = [answer EXCEPT ![r] = "ok"]
  /\ affirming' = TRUE
  /\ UNCHANGED <<file, statusMu, fetched, recorded, checked, missed, shown>>

\* updateTick, when it does not: "Re-affirm the last persisted verdict
\* instead, or skip if there is none yet".
Reaffirm(r) ==
  /\ r = UpdateLoop
  /\ OnFile[r] # "none"
  /\ TickGoto(r, "idle", "ping")
  /\ answer' = [answer EXCEPT ![r] = OnFile[r]]
  /\ affirming' = TRUE
  /\ UNCHANGED <<file, statusMu, fetched, recorded, checked, missed, shown>>

\* ReportUpdate: the verdict reaches the monitor, or the ping fails.
PingUpdate(r) ==
  /\ TickGoto(r, "ping", "lock")
  /\ shown' \in {shown, answer[r]}
  /\ UNCHANGED <<file, statusMu, answer, fetched, affirming, recorded, checked,
                 missed>>

Unheld_Ignored == TRUE

Unheld == statusMu = NoLoop

LockStatus(r) ==
  /\ Unheld
  /\ TickGoto(r, "lock", "load")
  /\ statusMu' = r
  /\ UNCHANGED <<file, answer, fetched, affirming, recorded, checked, missed,
                 shown>>

\* loadStatusForWrite: a corrupt file is moved aside, and the write starts
\* from an empty status.
LoadStatus(r) ==
  /\ TickGoto(r, "load", "store")
  /\ fetched' = [fetched EXCEPT ![r] = OnFile]
  /\ file' = OnFile
  /\ UNCHANGED <<statusMu, answer, affirming, recorded, checked, missed, shown>>

\* writeStatus renames the new file over the old one, or fails and leaves it;
\* an error is logged and the tick is over.
Settled(r) ==
  /\ TickGoto(r, "store", "idle")
  /\ statusMu' = NoLoop
  /\ answer' = [answer EXCEPT ![r] = "none"]
  /\ fetched' = [fetched EXCEPT ![r] = Empty]

WriteStatus(r) ==
  /\ Settled(r)
  /\ file' = [fetched[r] EXCEPT ![r] = answer[r]]
  /\ recorded' = [recorded EXCEPT ![r] = answer[r]]
  /\ UNCHANGED <<affirming, checked, missed, shown>>

WriteFails(r) ==
  /\ Settled(r)
  /\ missed' = (missed \/ r = UpdateLoop)
  /\ UNCHANGED <<file, affirming, recorded, checked, shown>>

\* The daemon dies, or the power goes: the file was not synced, and what was
\* last written may be found empty or corrupt.
DaemonDies ==
  /\ tick' = [r \in Recorders |-> "idle"]
  /\ statusMu' = NoLoop
  /\ answer' = Empty /\ fetched' = [r \in Recorders |-> Empty]
  /\ \/ UNCHANGED <<file, recorded>>
     \/ file' \in {Empty, Corrupt} /\ recorded' = Empty
  /\ missed' = (missed \/ tick[UpdateLoop] # "idle" \/ file' # file)
  /\ UNCHANGED <<affirming, checked, shown>>

RecorderStep(r) ==
  \/ Ping(r) \/ CheckUpdate(r) \/ Reaffirm(r) \/ PingUpdate(r)
  \/ LockStatus(r) \/ LoadStatus(r) \/ WriteStatus(r) \/ WriteFails(r)

StatusNext == DaemonDies \/ \E r \in Recorders : RecorderStep(r)

StatusSpec == StatusInit /\ [][StatusNext]_statusVars

-----------------------------------------------------------------------------
(* Properties *)

\* No loop's record is undone by another loop's write: the file, unless power
\* loss corrupted it, holds what each loop recorded last.
NoRecordLost == file = Corrupt \/ file = recorded

\* "Do not let a transient error flip a live /1 to /0": an inconclusive check
\* never shows the monitor anything but the answer of the last conclusive one,
\* provided that this answer got on file.
TransientErrorNeverFlips ==
  [][shown' # shown /\ affirming => shown' = checked \/ missed]_statusVars
=============================================================================
