--------------------------- MODULE AccountsApply ---------------------------
(***************************************************************************)
(* The restore of the system accounts: the merge of the backup's account   *)
(* files into those of the host, and the batch that writes several files   *)
(* all or nothing (internal/orchestrator: restore_accounts.go,             *)
(* fs_atomic.go).                                                          *)
(*                                                                         *)
(* A file is a function from names to entries: the code rewrites a file    *)
(* line by line and keeps the order, which nothing here depends on.  Lines *)
(* it refuses for their form (NIS, malformed names and numbers) are left   *)
(* out of the backup.                                                      *)
(***************************************************************************)
EXTENDS Integers, Sequences

CONSTANTS
  Users, Groups,  (* names; "root" is one of each                          *)
  NoEntry,        (* a name the file does not hold                         *)
  Threshold,      (* the first id of regular accounts                      *)
  Hosts,          (* the account files a host may have                     *)
  Backups         (* the account files a backup may hold                   *)

UserEntry  == [uid : Nat, gid : Nat]
GroupEntry == [gid : Nat, members : SUBSET Users]
Accounts   == [passwd  : [Users -> UserEntry \cup {NoEntry}],
               shadow  : [Users -> {"none", "host", "backup", "locked"}],
               group   : [Groups -> GroupEntry \cup {NoEntry}],
               gshadow : [Groups -> {"none", "host", "backup"}],
               sudoers : {"host", "backup", "invalid"}]

ASSUME AccountsApplyAssumption ==
  /\ "root" \in Users /\ "root" \in Groups
  /\ Threshold \in Nat \ {0}
  /\ NoEntry \notin UserEntry /\ NoEntry \notin GroupEntry
  /\ Hosts \subseteq Accounts /\ Backups \subseteq Accounts

\* The four account files in the order they are renamed into place, and then, in
\* a batch of its own, sudoers.
Batches == <<<<"passwd", "shadow", "group", "gshadow">>, <<"sudoers">>>>
AccountFiles == {"passwd", "shadow", "group", "gshadow", "sudoers"}

VARIABLES
  host, stagedDB,  (* the files before the restore, and those of the backup *)
  written,         (* the files that hold the merge                        *)
  batch, next,     (* the file to rename next                              *)
  undo,            (* index of the file to be put back next, 0 if none     *)
  torn,            (* a file could not be put back                         *)
  state            (* "read", "commit", "undo", "ok", "skipped", "failed",
                      "inconsistent", "crashed"                            *)

accountVars == <<host, stagedDB, written, batch, next, undo, torn, state>>

AccountsTypeOK ==
  /\ host \in Accounts /\ stagedDB \in Accounts
  /\ written \subseteq AccountFiles
  /\ batch \in {1, 2} /\ next \in 1 .. 5 /\ undo \in 0 .. 4 /\ torn \in BOOLEAN
  /\ state \in {"read", "commit", "undo", "ok", "skipped", "failed",
                "inconsistent", "crashed"}

AccountsInit ==
  /\ host \in Hosts /\ stagedDB \in Backups
  /\ written = {} /\ batch = 1 /\ next = 1 /\ undo = 0 /\ torn = FALSE
  /\ state = "read"

-----------------------------------------------------------------------------
(* The merge                                                               *)

\* Names of the host's own accounts, root whatever its name among them.
HostSystemUsers ==
  {u \in Users : host.passwd[u] # NoEntry /\ host.passwd[u].uid < Threshold}

HostGroups == {g \in Groups : host.group[g] # NoEntry}
HostGIDs   == {host.group[g].gid : g \in HostGroups}

\* Variant: a host account is protected only if its name is root.
Imported_OnlyRootSpared ==
  {u \in Users \ {"root"} :
     /\ stagedDB.passwd[u] # NoEntry
     /\ stagedDB.passwd[u].uid >= Threshold
     /\ stagedDB.passwd[u].gid \notin HostGIDs \cup {0}}

\* Regular accounts of the backup that neither clash with a host account nor have
\* a group of the host for their primary group.
Imported ==
  {u \in Users \ {"root"} :
     /\ stagedDB.passwd[u] # NoEntry
     /\ u \notin HostSystemUsers
     /\ stagedDB.passwd[u].uid >= Threshold
     /\ stagedDB.passwd[u].gid \notin HostGIDs \cup {0}}

MergedPasswd ==
  [u \in Users |-> IF u \in Imported THEN stagedDB.passwd[u] ELSE host.passwd[u]]

\* A user without a valid line in the backup is locked.
MergedShadow ==
  [u \in Users |-> IF u \notin Imported THEN host.shadow[u]
                   ELSE IF stagedDB.shadow[u] = "backup" THEN "backup" ELSE "locked"]

NewGroups ==
  {g \in Groups \ (HostGroups \cup {"root"}) :
     /\ stagedDB.group[g] # NoEntry
     /\ stagedDB.group[g].gid >= Threshold
     /\ stagedDB.group[g].gid \notin HostGIDs}

SameGroups ==
  {g \in HostGroups : /\ stagedDB.group[g] # NoEntry
                      /\ stagedDB.group[g].gid = host.group[g].gid
                      /\ stagedDB.group[g].gid # 0}

\* A group of the host is never replaced; imported users are added to it if the
\* backup's is the same.
MergedGroup ==
  [g \in Groups |->
     IF g \in NewGroups
     THEN [gid |-> stagedDB.group[g].gid, members |-> stagedDB.group[g].members \cap Imported]
     ELSE IF g \in SameGroups
     THEN [gid |-> host.group[g].gid,
           members |-> host.group[g].members \cup (stagedDB.group[g].members \cap Imported)]
     ELSE host.group[g]]

MergedGshadow ==
  [g \in Groups |-> IF g \in NewGroups /\ stagedDB.gshadow[g] = "backup" THEN "backup"
                    ELSE host.gshadow[g]]

\* What the files on disk hold, whichever of them were replaced.
LivePasswd  == IF "passwd" \in written THEN MergedPasswd ELSE host.passwd
LiveShadow  == IF "shadow" \in written THEN MergedShadow ELSE host.shadow
LiveGroup   == IF "group" \in written THEN MergedGroup ELSE host.group
LiveGshadow == IF "gshadow" \in written THEN MergedGshadow ELSE host.gshadow
LiveSudoers == IF "sudoers" \in written THEN stagedDB.sudoers ELSE host.sudoers

-----------------------------------------------------------------------------
(* The writes                                                              *)

File == Batches[batch][next]

\* Without a file of the backup, or without the host's own, nothing is written;
\* all files are prepared beside their destination before any is renamed.
Prepare ==
  /\ state = "read"
  /\ state' \in {"commit", "skipped", "failed"}
  /\ UNCHANGED <<host, stagedDB, written, batch, next, undo, torn>>

Rename ==
  /\ state = "commit" /\ next <= Len(Batches[batch])
  /\ written' = written \cup {File}
  /\ next' = next + 1
  /\ UNCHANGED <<host, stagedDB, batch, undo, torn, state>>

\* Variant: a file whose directory could not be flushed is taken for unwritten.
RenameFails_ForgetsLast ==
  /\ state = "commit" /\ next <= Len(Batches[batch])
  /\ \E committed \in BOOLEAN :
       /\ written' = IF committed THEN written \cup {File} ELSE written
       /\ undo' = next - 1
  /\ state' = "undo"
  /\ UNCHANGED <<host, stagedDB, batch, next, torn>>

\* Variant: one file too many is put back.
RenameFails_OneMore ==
  /\ state = "commit" /\ next <= Len(Batches[batch])
  /\ \E committed \in BOOLEAN :
       /\ written' = IF committed THEN written \cup {File} ELSE written
       /\ undo' = IF committed THEN next + 1 ELSE next
  /\ state' = "undo"
  /\ UNCHANGED <<host, stagedDB, batch, next, torn>>

\* The rename fails, or it is done and its directory cannot be flushed: the file
\* is then among those to be put back.
RenameFails ==
  /\ state = "commit" /\ next <= Len(Batches[batch])
  /\ \E committed \in BOOLEAN :
       /\ written' = IF committed THEN written \cup {File} ELSE written
       /\ undo' = IF committed THEN next ELSE next - 1
  /\ state' = "undo"
  /\ UNCHANGED <<host, stagedDB, batch, next, torn>>

\* Putting a file back is a rename as well, and may fail before or after it.
Undo ==
  /\ state = "undo" /\ undo > 0
  /\ \/ written' = written \ {Batches[batch][undo]} /\ UNCHANGED torn
     \/ written' \in {written, written \ {Batches[batch][undo]}} /\ torn' = TRUE
  /\ undo' = undo - 1
  /\ UNCHANGED <<host, stagedDB, batch, next, state>>

Undone ==
  /\ state = "undo" /\ undo = 0
  /\ state' = IF torn THEN "inconsistent" ELSE "failed"
  /\ UNCHANGED <<host, stagedDB, written, batch, next, undo, torn>>

\* The accounts are in place: sudoers follows if visudo accepts the staged one.
NextBatch ==
  /\ state = "commit" /\ next > Len(Batches[batch])
  /\ IF batch = 1 /\ stagedDB.sudoers = "backup"
     THEN \/ batch' = 2 /\ next' = 1 /\ UNCHANGED state
          \/ state' \in {"ok", "failed"} /\ UNCHANGED <<batch, next>>
     ELSE state' = "ok" /\ UNCHANGED <<batch, next>>
  /\ UNCHANGED <<host, stagedDB, written, undo, torn>>

AccountsCrash ==
  /\ state \in {"commit", "undo"}
  /\ state' = "crashed"
  /\ UNCHANGED <<host, stagedDB, written, batch, next, undo, torn>>

AccountsNext ==
  \/ Prepare \/ Rename \/ RenameFails \/ Undo \/ Undone \/ NextBatch \/ AccountsCrash

AccountsSpec == AccountsInit /\ [][AccountsNext]_accountVars

-----------------------------------------------------------------------------
(* Properties *)

\* "never locks out the running machine": whatever mixture of old and merged files
\* a failure or a crash leaves, every system account of the host has its own
\* entry and its own password, no group of the host has lost its gid or a member,
\* and no account got the primary group of the host's by the restore.
HostAccountsSurvive ==
  /\ \A u \in HostSystemUsers \cup {"root"} :
       LivePasswd[u] = host.passwd[u] /\ LiveShadow[u] = host.shadow[u]
  /\ \A g \in HostGroups :
       /\ LiveGroup[g].gid = host.group[g].gid
       /\ host.group[g].members \subseteq LiveGroup[g].members
  /\ \A u \in Users :
       LivePasswd[u] # host.passwd[u] => LivePasswd[u].gid \notin HostGIDs

\* "all-or-nothing": a batch is never left in part unless a crash interrupted it or
\* a file could not be put back, and the error says so in that case; otherwise the
\* imported users are in passwd exactly when they are in shadow.
BatchIsWhole ==
  state \in {"ok", "skipped", "failed"} =>
    /\ \A f, g \in AccountFiles \ {"sudoers"} : f \in written <=> g \in written
    /\ state = "ok" => "passwd" \in written
    /\ state = "failed" => "sudoers" \notin written
    /\ "sudoers" \in written => "passwd" \in written /\ stagedDB.sudoers = "backup"
=============================================================================
