------------------------------- MODULE MCRestore ------------------------------
(***************************************************************************)
(* The parts of a restore in one run: the whole of it with the services it  *)
(* stops, the applies that wait to be confirmed, the account files, and the  *)
(* mount guards.  They share no state, so a behaviour is one of a single     *)
(* subject, chosen at the start, and the others stay as they are.            *)
(***************************************************************************)
EXTENDS ConfirmedApply, RestoreRun, AccountsApply, MountGuard

CONSTANTS m1, m2

VARIABLE subject

MCOrder == <<"network", "firewall">>
MCPVE   == <<"pve-cluster", "pvedaemon", "pveproxy", "pvestatd">>
MCPBS   == <<"proxmox-backup", "proxmox-backup-proxy">>

(* Accounts: root, a system account and a regular one, each with a group.    *)
MCUsers  == {"root", "svc", "alice"}
MCGroups == {"root", "sudo", "staff"}

U(u, g) == [uid |-> u, gid |-> g]
G(g, m) == [gid |-> g, members |-> m]

MCHosts ==
  {[passwd  |-> [root |-> U(0, 0), svc |-> U(1, 1), alice |-> a],
    shadow  |-> [root |-> "host", svc |-> "host",
                 alice |-> IF a = NoEntry THEN "none" ELSE "host"],
    group   |-> [root |-> G(0, {}), sudo |-> G(1, {"svc"}), staff |-> s],
    gshadow |-> [root |-> "host", sudo |-> "host", staff |-> "none"],
    sudoers |-> "host"] :
   a \in {NoEntry, U(2, 2)}, s \in {NoEntry, G(2, {})}}

\* The backup may call an account, or a group, by the host's id or by its name.
MCBackups ==
  {[passwd  |-> [root |-> r, svc |-> v, alice |-> a],
    shadow  |-> [root |-> "backup", svc |-> "backup", alice |-> h],
    group   |-> [root |-> G(0, {"alice"}), sudo |-> G(3, {"alice"}), staff |-> s],
    gshadow |-> [root |-> "backup", sudo |-> "backup", staff |-> "backup"],
    sudoers |-> u] :
   r \in {U(0, 0), U(3, 3)}, v \in {NoEntry, U(3, 3)},
   a \in {U(2, 1), U(2, 2), U(3, 3)}, h \in {"none", "backup"},
   s \in {G(1, {"alice"}), G(3, {"alice", "svc"})}, u \in {"backup", "invalid"}}

PackInit ==
  /\ subject \in {"apply", "run", "accounts", "mounts"}
  /\ ApplyInit /\ RestoreInit /\ AccountsInit /\ MountInit
  /\ subject # "run" => needs = {} /\ ~staging
  /\ subject # "accounts" => /\ host = CHOOSE h \in Hosts : TRUE
                             /\ stagedDB = CHOOSE b \in Backups : TRUE
  /\ subject # "mounts" => flagged = {} /\ plainRoot

\* Bounds: of what the properties exempt, one category and one mountpoint at a
\* time, so that the other one shows what it does not exempt.
OneTrouble  == Cardinality(stuck \cup spoilt) <= 1
OneOddMount == Cardinality(raced \cup unread \cup reused) <= 1

\* The state of the modules that are not the subject stays as it is.
ApplyStep ==
  /\ subject = "apply" /\ ApplyNext /\ OneTrouble'
  /\ UNCHANGED <<subject, restoreVars, accountVars, mountVars>>

RunStep ==
  /\ subject = "run" /\ RestoreNext
  /\ UNCHANGED <<subject, applyVars, accountVars, mountVars>>

AccountsStep ==
  /\ subject = "accounts" /\ AccountsNext
  /\ UNCHANGED <<subject, applyVars, restoreVars, mountVars>>

MountStep ==
  /\ subject = "mounts" /\ MountNext /\ OneOddMount'
  /\ UNCHANGED <<subject, applyVars, restoreVars, accountVars>>

PackNext == ApplyStep \/ RunStep \/ AccountsStep \/ MountStep

\* ApplyFairness, while the applies are the subject.
PackFairness ==
  \A c \in Categories : WF_applyVars(subject = "apply" /\ Rollback(c))

MCSpec ==
  /\ PackInit
  /\ [][PackNext]_<<subject, applyVars, restoreVars, accountVars, mountVars>>
  /\ PackFairness

\* Every variable keeps to its type.
RestorePartsTypeOK ==
  ApplyTypeOK /\ RestoreTypeOK /\ AccountsTypeOK /\ MountTypeOK
=============================================================================
