----------------------------- MODULE RelaySecret -----------------------------
(***************************************************************************)
(* The relay secret of a host: one value on disk and the hash of one value *)
(* at the server, kept equal by parties that do not know of each other.    *)
(* The daemon's two loops (buildReporter and what it calls, in             *)
(* cmd/proxsave/daemon.go) fetch the ping URLs with the secret, drop it    *)
(* when the server rejects it and have a new one issued; setup commands    *)
(* have one issued when there is none (ProvisionRelaySecret,               *)
(* internal/notify/relay_provision.go); both hold a file lock while they   *)
(* do.  The Telegram handshake (telegram.go, telegram_registration.go)     *)
(* adopts what it is issued without that lock.                             *)
(*                                                                         *)
(* A secret is a number, in the order of issue; 0 is no secret on disk and *)
(* no row at the server.  The server issues anew as long as nobody has     *)
(* confirmed the last one, and keeps a confirmed one.                      *)
(***************************************************************************)
EXTENDS Naturals

CONSTANTS
  Loops,      (* the daemon's loops whose URL backup.env does not cache    *)
  Setups,     (* setup commands: installer, daemon setup, dashboard check  *)
  Telegrams,  (* Telegram handshakes: a backup's, a registration check's   *)
  MaxSecrets, (* bound: secrets the server issues                          *)
  MaxTroubles (* bound: lost answers, failed writes, deaths, purges ...    *)

Parties == Loops \cup Setups \cup Telegrams
Nobody  == "nobody"

ASSUME RelayAssumption ==
  /\ MaxSecrets \in Nat /\ MaxTroubles \in Nat
  /\ Nobody \notin Parties
  /\ Loops \cap Setups = {} /\ (Loops \cup Setups) \cap Telegrams = {}

VARIABLES
  disk,       (* .notify_secret                                            *)
  row,        (* the server's row of this host: hash and confirmed         *)
  issued,     (* how many secrets the server has issued                    *)
  late,       (* an issue request its sender gave up is still on its way   *)
  mutex,      (* who holds LockNotifySecret                                *)
  floor,      (* provisionRetryAt is in the future                         *)
  rstep,      (* the next step of each party                               *)
  held,       (* the secret it loaded or was issued                        *)
  troubles,   (* how much has gone wrong                                   *)
  unresolved, (* loops whose ping URL the daemon's reporter lacks          *)
  overlapped  (* history: a handshake ran while another party provisioned  *)

relayVars == <<disk, row, issued, late, mutex, floor, rstep, held, troubles,
               unresolved, overlapped>>

Secrets == 0 .. MaxSecrets
NoRow   == [hash |-> 0, confirmed |-> FALSE]
Locked  == {"recheck", "issue", "persist", "confirm", "compare", "unlink"}
RelaySteps == Locked \cup {"idle", "lock", "reload", "fetch", "reject"}

RelayTypeOK ==
  /\ disk \in Secrets /\ issued \in Secrets
  /\ row \in [hash : Secrets, confirmed : BOOLEAN]
  /\ late \in BOOLEAN /\ floor \in BOOLEAN
  /\ overlapped \in BOOLEAN /\ unresolved \subseteq Loops
  /\ mutex \in Loops \cup Setups \cup {Nobody}
  /\ rstep \in [Parties -> RelaySteps]
  /\ held \in [Parties -> Secrets]
  /\ troubles \in 0 .. MaxTroubles
  /\ \A p \in Loops \cup Setups : rstep[p] \in Locked <=> mutex = p

RelayInit ==
  /\ disk = 0 /\ row = NoRow /\ issued = 0
  /\ late = FALSE /\ floor = FALSE /\ mutex = Nobody
  /\ rstep = [p \in Parties |-> "idle"]
  /\ held = [p \in Parties |-> 0]
  /\ troubles = 0 /\ unresolved = Loops /\ overlapped = FALSE

-----------------------------------------------------------------------------

\* A party that goes on without the secret it held forgets it.
StepWith(p, from, to, secret) ==
  /\ rstep[p] = from
  /\ rstep' = [rstep EXCEPT ![p] = to]
  /\ held' = [held EXCEPT ![p] = secret]
Step(p, from, to) ==
  StepWith(p, from, to, IF to \in {"idle", "lock", "reload"} THEN 0 ELSE held[p])
Busy(t)  == rstep[t] # "idle"
Trouble  == troubles < MaxTroubles /\ troubles' = troubles + 1
Smooth   == UNCHANGED troubles
History  == UNCHANGED overlapped

\* The server: a new secret for a row nobody confirmed, or for no row.
Mint ==
  /\ ~row.confirmed
  /\ issued < MaxSecrets
  /\ issued' = issued + 1
  /\ row' = [hash |-> issued + 1, confirmed |-> FALSE]

\* buildReporter, which a loop only calls while the reporter lacks its URL:
\* with a secret on disk, fetch; without one, provision, but not within the
\* retry floor, which is set before the attempt.
LoadSecret(p) ==
  /\ p \in unresolved
  /\ \/ /\ disk # 0
        /\ StepWith(p, "idle", "fetch", disk)
        /\ UNCHANGED floor
     \/ /\ disk = 0
        /\ ~floor
        /\ Step(p, "idle", "lock")
        /\ floor' = TRUE
  /\ Smooth /\ History
  /\ UNCHANGED <<disk, row, issued, late, mutex, unresolved>>

\* A setup command provisions when it finds no secret.
SetupBegins(p) ==
  /\ p \in Setups
  /\ disk = 0
  /\ Step(p, "idle", "lock")
  /\ Smooth /\ History
  /\ UNCHANGED <<disk, row, issued, late, mutex, floor, unresolved>>

\* LockNotifySecret waits for the flock.
Free == mutex = Nobody

TakeLock(p) ==
  /\ Free
  /\ \/ Step(p, "lock", "recheck")
     \/ Step(p, "reject", "compare")
  /\ mutex' = p
  /\ overlapped' = (overlapped \/ \E t \in Telegrams : Busy(t))
  /\ Smooth
  /\ UNCHANGED <<disk, row, issued, late, floor, unresolved>>

\* Where a party goes when ProvisionRelaySecret returns nil and when it errs.
AfterProvision(p) == IF p \in Loops THEN "reload" ELSE "idle"

Unlock(p) == mutex' = IF mutex = p THEN Nobody ELSE mutex

\* A secret another party persisted meanwhile is adopted.
Recheck(p) ==
  /\ IF disk # 0
     THEN Step(p, "recheck", AfterProvision(p)) /\ Unlock(p)
     ELSE Step(p, "recheck", "issue") /\ UNCHANGED mutex
  /\ Smooth /\ History
  /\ UNCHANGED <<disk, row, issued, late, floor, unresolved>>

\* provisionViaRelay: 201 with a secret; 200 already_provisioned; an error,
\* by which time the server has not, has, or has yet to handle the request.
Issue(p) ==
  /\ \/ /\ Mint
        /\ StepWith(p, "issue", "persist", issued + 1)
        /\ Smooth
        /\ UNCHANGED <<late, mutex>>
     \/ /\ row.confirmed
        /\ Step(p, "issue", AfterProvision(p))
        /\ Unlock(p) /\ Smooth
        /\ UNCHANGED <<row, issued, late>>
     \/ /\ Trouble
        /\ Step(p, "issue", "idle")
        /\ Unlock(p)
        /\ \/ late' \in {late, TRUE} /\ UNCHANGED <<row, issued>>
           \/ Mint /\ UNCHANGED late
  /\ History
  /\ UNCHANGED <<disk, floor, unresolved>>

\* The server handles a request its sender no longer waits for.
LateIssue ==
  /\ late
  /\ late' = FALSE
  /\ \/ Mint
     \/ row.confirmed /\ UNCHANGED <<row, issued>>
  /\ Smooth /\ History
  /\ UNCHANGED <<disk, mutex, floor, rstep, held, unresolved>>

\* PersistNotifySecret replaces the file; it fails before that, or after it
\* when the attributes cannot be set, and then nothing is confirmed.
Persist(p) ==
  /\ \/ Step(p, "persist", "confirm") /\ disk' = held[p] /\ Smooth
        /\ UNCHANGED mutex
     \/ Step(p, "persist", "idle") /\ disk' \in {disk, held[p]} /\ Trouble
        /\ Unlock(p)
  /\ History
  /\ UNCHANGED <<row, issued, late, floor, unresolved>>

\* confirmTelegramRelaySecret: the server locks the row if the secret is the
\* one it holds.  That the answer or the request is lost is no error.
Confirm(p) ==
  /\ Step(p, "confirm", IF p \in Telegrams THEN "idle" ELSE AfterProvision(p))
  /\ \/ row' = [row EXCEPT !.confirmed = @ \/ row.hash = held[p]] /\ Smooth
     \/ UNCHANGED row /\ Trouble
  /\ Unlock(p) /\ History
  /\ UNCHANGED <<disk, issued, late, floor, unresolved>>

Reload(p) ==
  /\ StepWith(p, "reload", IF disk # 0 THEN "fetch" ELSE "idle", disk)
  /\ Smooth /\ History
  /\ UNCHANGED <<disk, row, issued, late, mutex, floor, unresolved>>

\* ErrHCAuth or ErrHCParked: the server does not know this secret.
SecretRejected(p) == row.hash # held[p]

\* The answer has the URL this loop lacks; of the URLs of the other loops it
\* may have any.  From then on the loop asks no more.
Fetch(p) ==
  /\ \/ /\ ~SecretRejected(p)
        /\ Step(p, "fetch", "idle")
        /\ \E others \in SUBSET (unresolved \ {p}) : unresolved' = others
        /\ Smooth
     \/ /\ SecretRejected(p)
        /\ Step(p, "fetch", "reject")
        /\ UNCHANGED unresolved /\ Smooth
     \/ /\ Step(p, "fetch", "idle")
        /\ UNCHANGED unresolved /\ Trouble
  /\ History
  /\ UNCHANGED <<disk, row, issued, late, mutex, floor>>

Compare_NeverEqual(p) ==
  /\ Step(p, "compare", "idle") /\ Unlock(p)
  /\ Smooth /\ History
  /\ UNCHANGED <<disk, row, issued, late, floor, unresolved>>

Compare_Blind(p) ==
  /\ Step(p, "compare", "unlink")
  /\ UNCHANGED mutex
  /\ Smooth /\ History
  /\ UNCHANGED <<disk, row, issued, late, floor, unresolved>>

\* RemoveNotifySecretIfMatches: only the secret that was rejected is removed.
Compare(p) ==
  /\ IF disk # 0 /\ disk = held[p]
     THEN Step(p, "compare", "unlink") /\ UNCHANGED mutex
     ELSE Step(p, "compare", "idle") /\ Unlock(p)
  /\ Smooth /\ History
  /\ UNCHANGED <<disk, row, issued, late, floor, unresolved>>

\* RemoveNotifySecret; when it fails the rejected secret stays.
Unlink(p) ==
  /\ Step(p, "unlink", "idle")
  /\ \/ disk' = 0 /\ Smooth
     \/ UNCHANGED disk /\ Trouble
  /\ Unlock(p)
  /\ History
  /\ UNCHANGED <<row, issued, late, floor, unresolved>>

\* get-chat-id with the provision header: the answer carries a secret while
\* none is confirmed, and it is adopted over whatever is on disk.
Handshake(t) ==
  /\ t \in Telegrams
  /\ Mint
  /\ StepWith(t, "idle", "persist", issued + 1)
  /\ overlapped' = (overlapped \/ mutex # Nobody
                      \/ \E u \in Telegrams \ {t} : Busy(u))
  /\ Smooth
  /\ UNCHANGED <<disk, late, mutex, floor, unresolved>>

FloorPasses ==
  /\ floor
  /\ floor' = FALSE
  /\ Smooth /\ History
  /\ UNCHANGED <<disk, row, issued, late, mutex, rstep, held, unresolved>>

\* A process dies, and with it its flock; the daemon takes both loops along,
\* and comes back without a retry floor and without a reporter.
RelayDeath(dead) ==
  /\ \/ \E p \in dead : Busy(p)
     \/ dead = Loops /\ unresolved # Loops
  /\ rstep' = [p \in Parties |-> IF p \in dead THEN "idle" ELSE rstep[p]]
  /\ held' = [p \in Parties |-> IF p \in dead THEN 0 ELSE held[p]]
  /\ mutex' = IF mutex \in dead THEN Nobody ELSE mutex
  /\ floor' = (floor /\ dead # Loops)
  /\ unresolved' = IF dead = Loops THEN Loops ELSE unresolved
  /\ Trouble /\ History
  /\ UNCHANGED <<disk, row, issued, late>>

\* The server purges the row of an unused account.
ServerForgets ==
  /\ row # NoRow
  /\ row' = NoRow
  /\ Trouble /\ History
  /\ UNCHANGED <<disk, issued, late, mutex, floor, rstep, held, unresolved>>

Provisions(p) ==
  \/ LoadSecret(p) \/ TakeLock(p) \/ Recheck(p) \/ Issue(p) \/ Persist(p)
  \/ Confirm(p) \/ Reload(p) \/ Fetch(p) \/ Compare(p) \/ Unlink(p)

RelayNext ==
  \/ \E p \in Parties : Provisions(p)
  \/ \E p \in Setups : SetupBegins(p)
  \/ \E t \in Telegrams : Handshake(t)
  \/ LateIssue \/ FloorPasses \/ ServerForgets
  \/ RelayDeath(Loops)
  \/ \E p \in Setups \cup Telegrams : RelayDeath({p})

RelaySpec == RelayInit /\ [][RelayNext]_relayVars

\* The daemon and the setup commands run, and the heartbeat and the retry floor
\* tick; a handshake may stop anywhere.
RelayFairness ==
  /\ \A p \in Loops \cup Setups : WF_relayVars(Provisions(p))
  /\ WF_relayVars(FloorPasses)

-----------------------------------------------------------------------------
(* Properties *)

\* The server holds a confirmed secret that is not on disk: it will issue no
\* other, so that only a purge or an operator helps.
Stranded == row.confirmed /\ disk # row.hash

\* Under the lock no order of the daemon's loops and the setup commands, no
\* death and no late request strands the host: only a Telegram handshake that
\* overlapped can have done so.
StrandedByOverlap == Stranded => overlapped

\* "two DISTINCT minted secrets strand the host", which the lock is there to
\* prevent "ACROSS PROCESSES": whoever provisions, the host is not stranded.
NeverStranded == ~Stranded

\* The self-heal: once nothing goes wrong any more, every loop of the daemon
\* gets its ping URL with a secret the server accepts, whatever was lost,
\* rejected, forgotten or half done before.  (A loop that has its URL asks no
\* more: it does not notice that the server forgets the secret afterwards.)
AllResolved == unresolved = {} \/ overlapped
UrlsGetResolved == <>[]AllResolved
=============================================================================
