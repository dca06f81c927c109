-------------------------- MODULE BackupStoreProofs --------------------------
(***************************************************************************)
(* The backup store implements the catalogue, in both locations, for any   *)
(* number of runs, any retention counts and any layouts.                   *)
(*                                                                         *)
(* The inductive invariant says what of the current run is on disk at each *)
(* step (RunFiles), that later runs have left nothing (Fresh), that the    *)
(* secondary location never has both layouts of one run (OneLayout), and   *)
(* that a completed backup newer than everything retention has still to    *)
(* delete is there (Spared).  The last part is what makes a deletion safe; *)
(* it needs the others, for retention counts entries by name, and one run  *)
(* may have two of them.                                                   *)
(***************************************************************************)
EXTENDS BackupStore, FiniteSetTheorems, TLAPS

Fresh == \A p \in Places, r \in Runs : r > run => files[p][r] = {}

RunFiles ==
  /\ pc = "collect" => Mine = {}
  /\ pc \in {"write", "promote"} => Mine = {"partial"}
  /\ pc \in {"sha256", "manifest", "alias", "copy", "bundle", "rename"}
       => "archive" \in Mine /\ Mine \cap Bundle = {}
  /\ pc \in {"manifest", "alias", "copy", "bundle", "rename"} => "sidecar" \in Mine
  /\ pc \in {"rename", "raw"} => bundling
  /\ pc = "raw" => Mine \cap Bundle # {}
  /\ pc \in {"store", "list", "delete"} /\ place = "local"
       => Completed(Mine) /\ (bundling <=> Mine \cap Bundle # {})
  /\ pc \notin {"store", "list", "delete", "storesum", "storealias"} => place = "local"
  /\ pc \in {"storesum", "storealias"} => place = "secondary"
  /\ pc # "idle" /\ (place = "local" \/ pc = "store") => files["secondary"][run] = {}

OneLayout ==
  \A r \in Runs :
    "archive" \in files["secondary"][r] => files["secondary"][r] \cap Bundle = {}

Spared ==
  /\ pc # "delete" => doomed = {}
  /\ doomed # {} => \E q \in Verified(place) : \A d \in doomed : d[1] < q

Inv == TypeOK /\ Fresh /\ RunFiles /\ OneLayout /\ Spared

-----------------------------------------------------------------------------
(* What the three kinds of file system steps change.                       *)

\* A step of the run on its own files.
LEMMA SetMineFiles ==
  ASSUME TypeOK, run \in Runs, NEW fs \in SUBSET Kinds, SetMine(fs)
  PROVE  /\ files' \in [Places -> [Runs -> SUBSET Kinds]]
         /\ files'["local"][run] = fs
         /\ \A r \in Runs \ {run} : files'["local"][r] = files["local"][r]
         /\ files'["secondary"] = files["secondary"]
  BY DEF TypeOK, SetMine, Places

\* A copy to the secondary location.
LEMMA CopyOverFiles ==
  ASSUME TypeOK, run \in Runs, NEW fs \in SUBSET Kinds, CopyOver(fs)
  PROVE  /\ files' \in [Places -> [Runs -> SUBSET Kinds]]
         /\ files'["secondary"][run] = files["secondary"][run] \cup (fs \cap Mine)
         /\ \A r \in Runs \ {run} : files'["secondary"][r] = files["secondary"][r]
         /\ files'["local"] = files["local"]
  BY DEF TypeOK, CopyOver, Places, Mine

\* A deletion.
LEMMA DeleteFiles ==
  ASSUME TypeOK, NEW r \in Runs, NEW gone,
         files' = [files EXCEPT ![place][r] = @ \ gone]
  PROVE  /\ files' \in [Places -> [Runs -> SUBSET Kinds]]
         /\ files'[place][r] = files[place][r] \ gone
         /\ \A q \in Runs \ {r} : files'[place][q] = files[place][q]
         /\ \A p \in Places \ {place} : files'[p] = files[p]
  BY DEF TypeOK, Places

LEMMA KindsOfFiles ==
  /\ {"partial", "archive", "sidecar", "metadata", "torn", "tmpbundle"} \subseteq Kinds
  /\ Alias \subseteq Kinds /\ Bundle \subseteq Kinds /\ Bundled \subseteq Bundle
  /\ Bundled # {}
  BY DEF Kinds, Alias, Bundle, Bundled

-----------------------------------------------------------------------------
(* Type correctness.                                                       *)

FilesOK == files \in [Places -> [Runs -> SUBSET Kinds]]

LEMMA GotoType ==
  ASSUME TypeOK, run \in Runs, NEW step \in Steps, Goto(step), FilesOK'
  PROVE  TypeOK'
  BY DEF TypeOK, Goto, FilesOK

LEMMA EndsType ==
  ASSUME TypeOK, run \in Runs, NEW success, Ends(success), FilesOK'
  PROVE  TypeOK'
  BY DEF TypeOK, Ends, FilesOK, Steps, Places

LEMMA SurplusIsListed ==
  ASSUME NEW S, NEW keep, NEW D \in Surplus(S, keep)
  PROVE  D \subseteq S
  BY DEF Surplus

LEMMA TypeInit == Init => TypeOK
  BY MaxRunsIsNat, LayoutsAreBooleans
     DEF Init, TypeOK, Runs, Steps, Places

LEMMA TypeStep == TypeOK /\ [Next]_vars => TypeOK'
<1> SUFFICES ASSUME TypeOK, [Next]_vars PROVE TypeOK'
  OBVIOUS
<1> USE KindsOfFiles
<1>1. CASE UNCHANGED vars
  BY <1>1 DEF vars, TypeOK
<1>2. CASE Begin
  BY <1>2, MaxRunsIsNat, LayoutsAreBooleans DEF Begin, TypeOK, Runs, Steps
<1> SUFFICES ASSUME pc # "idle", ~Begin, Next PROVE TypeOK'
  <2>1. ASSUME pc = "idle", Next, ~Begin PROVE FALSE
    BY <2>1 DEF Next, MakeArchive, MakeSidecars, MakeBundle, Sync, Crash,
       CollectFails, OpenPartial, VerifyArchive, DiscardPartial, Promote,
       WriteSidecar, SidecarFails, OpenAlias, CopyAlias, AliasFails,
       SkipBundle, CreateBundle, RenameBundle, BundleFails, RemoveRaw,
       StoreLocal, SyncLocalFails, StoreSecondary, StoreChecksum, StoreAlias,
       StoreSecondaryFails, ListForRetention, DeleteBackup, NextPlace,
       RetentionCancelled, Complete
  <2> QED BY <1>1, <1>2, <2>1
<1>3. run \in Runs /\ FilesOK /\ Mine \in SUBSET Kinds
  BY DEF TypeOK, FilesOK, Mine, Places
<1>4. UNCHANGED files => FilesOK'
  BY <1>3 DEF FilesOK
<1>5. ASSUME NEW fs \in SUBSET Kinds, SetMine(fs) PROVE FilesOK'
  BY <1>3, <1>5, SetMineFiles DEF FilesOK
<1>6. ASSUME NEW fs \in SUBSET Kinds, CopyOver(fs) PROVE FilesOK'
  BY <1>3, <1>6, CopyOverFiles DEF FilesOK
<1>10. CASE MakeArchive
  <2>1. CASE CollectFails BY <1>3, <1>4, <2>1, EndsType DEF CollectFails
  <2>2. CASE OpenPartial
    BY <1>3, <1>5, <2>2, GotoType DEF OpenPartial, Steps
  <2>3. CASE VerifyArchive
    BY <1>3, <1>4, <2>3, GotoType DEF VerifyArchive, Steps
  <2>4. CASE DiscardPartial
    BY <1>3, <1>5, <2>4, EndsType DEF DiscardPartial
  <2>5. CASE Promote
    BY <1>3, <1>5, <2>5, GotoType DEF Promote, Steps
  <2> QED BY <1>10, <2>1, <2>2, <2>3, <2>4, <2>5 DEF MakeArchive
<1>11. CASE MakeSidecars
  <2>1. CASE WriteSidecar
    BY <1>3, <1>4, <1>5, <2>1, GotoType DEF WriteSidecar, Steps
  <2>2. CASE SidecarFails
    BY <1>3, <1>5, <2>2, EndsType DEF SidecarFails
  <2>3. CASE OpenAlias
    BY <1>3, <1>5, <2>3, GotoType DEF OpenAlias, Steps
  <2>4. CASE CopyAlias
    BY <1>3, <1>5, <2>4, GotoType DEF CopyAlias, Steps
  <2>5. CASE AliasFails
    BY <1>3, <2>5 DEF AliasFails, TypeOK, Steps
  <2> QED BY <1>11, <2>1, <2>2, <2>3, <2>4, <2>5 DEF MakeSidecars
<1>12. CASE MakeBundle
  <2>1. CASE SkipBundle
    BY <1>3, <1>4, <2>1, GotoType DEF SkipBundle, Steps
  <2>2. CASE CreateBundle
    BY <1>3, <1>5, <2>2, GotoType DEF CreateBundle, Steps
  <2>3. CASE RenameBundle
    BY <1>3, <1>5, <2>3, GotoType DEF RenameBundle, Steps
  <2>4. CASE BundleFails
    BY <1>3, <1>4, <1>5, <2>4, EndsType DEF BundleFails
  <2>5. CASE RemoveRaw
    BY <1>3, <1>5, <2>5, GotoType DEF RemoveRaw, Steps
  <2> QED BY <1>12, <2>1, <2>2, <2>3, <2>4, <2>5 DEF MakeBundle
<1>13. CASE Sync
  <2>1. CASE StoreLocal \/ StoreSecondaryFails
    BY <1>3, <1>4, <2>1, GotoType DEF StoreLocal, StoreSecondaryFails, Steps
  <2>2. CASE SyncLocalFails \/ RetentionCancelled \/ Complete
    BY <1>3, <1>4, <2>2, EndsType DEF SyncLocalFails, RetentionCancelled, Complete
  <2>3. CASE StoreSecondary
    BY <1>3, <1>6, <2>3, GotoType DEF StoreSecondary, Steps
  <2>4. CASE StoreChecksum
    BY <1>3, <1>4, <1>6, <2>4, GotoType DEF StoreChecksum, Steps
  <2>5. CASE StoreAlias
    BY <1>3, <1>4, <1>6, <2>5, GotoType DEF StoreAlias, Steps
  <2>6. CASE ListForRetention
    <3>1. doomed' \subseteq Runs \X {"bundle", "raw"}
      BY <2>6, SurplusIsListed DEF ListForRetention, Eligible
    <3> QED BY <1>3, <2>6, <3>1 DEF ListForRetention, TypeOK, Steps
  <2>7. CASE DeleteBackup
    <3>1. PICK e \in doomed, gone \in SUBSET CandidatePaths :
            /\ doomed' = doomed \ {e}
            /\ files' = [files EXCEPT ![place][e[1]] = @ \ gone]
      BY <2>7 DEF DeleteBackup
    <3>2. e[1] \in Runs BY DEF TypeOK
    <3>3. FilesOK' BY <3>1, <3>2, DeleteFiles DEF FilesOK
    <3> QED BY <2>7, <3>1, <3>3 DEF DeleteBackup, TypeOK, FilesOK
  <2>8. CASE NextPlace
    BY <1>3, <2>8 DEF NextPlace, TypeOK, Steps, Places
  <2> QED BY <1>13, <2>1, <2>2, <2>3, <2>4, <2>5, <2>6, <2>7, <2>8 DEF Sync
<1>14. CASE Crash
  BY <1>3, <1>4, <1>14, EndsType DEF Crash
<1> QED
  BY <1>10, <1>11, <1>12, <1>13, <1>14 DEF Next

-----------------------------------------------------------------------------
(* Fresh, RunFiles and OneLayout.                                          *)

Shape == Fresh /\ RunFiles /\ OneLayout

\* A step that ends the run leaves nothing to say about its next one.
LEMMA EndsRunFiles ==
  ASSUME NEW success, Ends(success)
  PROVE  RunFiles'
  BY DEF Ends, RunFiles

LEMMA SameFilesKeep ==
  ASSUME Fresh, OneLayout, UNCHANGED <<run, files>>
  PROVE  Fresh' /\ OneLayout'
  BY DEF Fresh, OneLayout

LEMMA SetMineKeeps ==
  ASSUME TypeOK, run \in Runs, Fresh, OneLayout, NEW fs \in SUBSET Kinds,
         SetMine(fs), run' = run
  PROVE  Fresh' /\ OneLayout'
<1>1. \A r \in Runs : r > run => files'["local"][r] = {}
  BY SetMineFiles, MaxRunsIsNat DEF Fresh, Runs, Places
<1>2. \A r \in Runs : r > run => files'["secondary"][r] = {}
  BY SetMineFiles DEF Fresh, Places
<1>3. Fresh' BY <1>1, <1>2 DEF Fresh, Places
<1>4. OneLayout' BY SetMineFiles DEF OneLayout
<1> QED BY <1>3, <1>4

LEMMA CopyOverKeeps ==
  ASSUME TypeOK, run \in Runs, Fresh, OneLayout, NEW fs \in SUBSET Kinds,
         CopyOver(fs), run' = run,
         LET new == files["secondary"][run] \cup (fs \cap Mine)
         IN  "archive" \in new => new \cap Bundle = {}
  PROVE  Fresh' /\ OneLayout'
<1>1. \A r \in Runs : r > run => files'["local"][r] = {}
  BY CopyOverFiles DEF Fresh, Places
<1>2. \A r \in Runs : r > run => files'["secondary"][r] = {}
  BY CopyOverFiles, MaxRunsIsNat DEF Fresh, Runs, Places
<1>3. Fresh' BY <1>1, <1>2 DEF Fresh, Places
<1>4. OneLayout' BY CopyOverFiles DEF OneLayout
<1> QED BY <1>3, <1>4

LEMMA DeleteKeeps ==
  ASSUME TypeOK, Fresh, OneLayout, NEW r \in Runs, NEW gone,
         files' = [files EXCEPT ![place][r] = @ \ gone], run' = run
  PROVE  Fresh' /\ OneLayout'
<1>1. \A p \in Places, q \in Runs : files'[p][q] \subseteq files[p][q]
  <2> SUFFICES ASSUME NEW p \in Places, NEW q \in Runs
               PROVE  files'[p][q] \subseteq files[p][q]
    OBVIOUS
  <2>1. CASE p = place /\ q = r BY <2>1, DeleteFiles
  <2>2. CASE p = place /\ q # r BY <2>2, DeleteFiles
  <2>3. CASE p # place BY <2>3, DeleteFiles
  <2> QED BY <2>1, <2>2, <2>3
<1>2. Fresh' BY <1>1 DEF Fresh
<1>3. "secondary" \in Places BY DEF Places
<1>4. OneLayout' BY <1>1, <1>3 DEF OneLayout
<1> QED BY <1>2, <1>4

LEMMA ShapeInit == Init => Shape
<1> SUFFICES ASSUME Init PROVE Shape
  OBVIOUS
<1>1. \A p \in Places, r \in Runs : files[p][r] = {} BY DEF Init
<1>2. "secondary" \in Places BY DEF Places
<1> QED BY <1>1, <1>2 DEF Init, Shape, Fresh, RunFiles, OneLayout

LEMMA ShapeBegin == TypeOK /\ Shape /\ Begin => Shape'
<1> SUFFICES ASSUME TypeOK, Shape, Begin PROVE Shape'
  OBVIOUS
<1>1. run' \in Runs /\ run' > run /\ UNCHANGED files
  BY MaxRunsIsNat DEF Begin, TypeOK, Runs
<1>2. files["local"][run'] = {} /\ files["secondary"][run'] = {}
  BY <1>1 DEF Shape, Fresh, Places
<1>3. RunFiles' BY <1>1, <1>2 DEF RunFiles, Begin, Mine, Shape
<1>4. Fresh'
  BY <1>1, MaxRunsIsNat DEF Fresh, Shape, Begin, Runs, TypeOK
<1> QED BY <1>1, <1>3, <1>4 DEF Shape, OneLayout

LEMMA ShapeArchive == TypeOK /\ Shape /\ run \in Runs /\ MakeArchive => Shape'
<1> SUFFICES ASSUME TypeOK, Shape, run \in Runs, MakeArchive PROVE Shape'
  OBVIOUS
<1> USE KindsOfFiles DEF Shape
<1>0. Mine \in SUBSET Kinds BY DEF TypeOK, Mine, Places
<1>1. CASE CollectFails
  BY <1>1, EndsRunFiles, SameFilesKeep DEF CollectFails, Ends
<1>2. CASE OpenPartial
  <2>1. SetMine({"partial"}) /\ UNCHANGED <<run, place>> /\ pc = "collect"
        /\ pc' = "write"
    BY <1>2 DEF OpenPartial, Goto
  <2>2. RunFiles' BY <2>1, SetMineFiles DEF RunFiles, Mine
  <2> QED BY <2>1, <2>2, SetMineKeeps
<1>3. CASE VerifyArchive
  <2>1. RunFiles' BY <1>3 DEF VerifyArchive, Goto, RunFiles, Mine
  <2> QED BY <1>3, <2>1, SameFilesKeep DEF VerifyArchive, Goto
<1>4. CASE DiscardPartial
  BY <1>4, EndsRunFiles, SetMineKeeps DEF DiscardPartial, Ends
<1>5. CASE Promote
  <2>1. SetMine({"archive"}) /\ UNCHANGED <<run, place>> /\ pc = "promote"
        /\ pc' = "sha256"
    <3>1. Mine = {"partial"} BY <1>5 DEF Promote, RunFiles
    <3>2. (Mine \ {"partial"}) \cup {"archive"} = {"archive"} BY <3>1
    <3> QED BY <1>5, <3>2 DEF Promote, Goto
  <2>2. RunFiles' BY <2>1, SetMineFiles DEF RunFiles, Mine, Bundle
  <2> QED BY <2>1, <2>2, SetMineKeeps
<1> QED BY <1>1, <1>2, <1>3, <1>4, <1>5 DEF MakeArchive

LEMMA ShapeSidecars == TypeOK /\ Shape /\ run \in Runs /\ MakeSidecars => Shape'
<1> SUFFICES ASSUME TypeOK, Shape, run \in Runs, MakeSidecars PROVE Shape'
  OBVIOUS
<1> USE KindsOfFiles DEF Shape
<1>0. Mine \in SUBSET Kinds BY DEF TypeOK, Mine, Places
<1>1. ASSUME NEW more \in SUBSET (Kinds \ Bundle), NEW less \in SUBSET {"torn"},
             SetMine((Mine \ less) \cup more), UNCHANGED <<run, place, bundling>>,
             \/ pc = "sha256" /\ "sidecar" \in more /\ pc' = "manifest"
             \/ pc = "alias" /\ pc' = "copy"
             \/ pc = "copy" /\ pc' = "bundle"
      PROVE  Shape'
  <2>1. Mine' = (Mine \ less) \cup more /\ files'["secondary"] = files["secondary"]
    BY <1>0, <1>1, SetMineFiles DEF Mine
  <2>2. RunFiles' BY <1>1, <2>1 DEF RunFiles, Bundle
  <2> QED BY <1>0, <1>1, <2>2, SetMineKeeps
<1>2. CASE WriteSidecar
  <2>1. CASE pc = "sha256"
    <3>1. SetMine((Mine \ {}) \cup {"sidecar"}) /\ {"sidecar"} \subseteq Kinds \ Bundle
      BY <1>2, <2>1 DEF WriteSidecar, Bundle
    <3>2. UNCHANGED <<run, place, bundling>> /\ pc' = "manifest"
      BY <1>2, <2>1 DEF WriteSidecar, Goto
    <3> DEFINE more == {"sidecar"}
    <3>3. more \in SUBSET (Kinds \ Bundle) /\ "sidecar" \in more BY <3>1
    <3>4. SetMine((Mine \ {}) \cup more) BY <3>1
    <3> HIDE DEF more
    <3> QED BY <1>1, <2>1, <3>2, <3>3, <3>4
  <2>2. CASE pc = "manifest"
    <3>1. UNCHANGED <<run, files, place, bundling>> /\ pc' = "alias"
      BY <1>2, <2>2 DEF WriteSidecar, Goto
    <3>2. RunFiles' BY <2>2, <3>1 DEF RunFiles, Mine
    <3> QED BY <3>1, <3>2, SameFilesKeep
  <2> QED BY <1>2, <2>1, <2>2 DEF WriteSidecar
<1>3. CASE SidecarFails
  BY <1>0, <1>3, EndsRunFiles, SetMineKeeps DEF SidecarFails, Ends
<1>4. CASE OpenAlias
  <2>1. SetMine((Mine \ {}) \cup {"torn"}) /\ {"torn"} \subseteq Kinds \ Bundle
    BY <1>4 DEF OpenAlias, Bundle
  <2> QED BY <1>1, <1>4, <2>1 DEF OpenAlias, Goto
<1>5. CASE CopyAlias
  <2>1. {"metadata"} \subseteq Kinds \ Bundle BY DEF Bundle
  <2> QED BY <1>1, <1>5, <2>1 DEF CopyAlias, Goto
<1>6. CASE AliasFails
  <2>1. RunFiles' BY <1>6 DEF AliasFails, RunFiles, Mine
  <2> QED BY <1>6, <2>1, SameFilesKeep DEF AliasFails
<1> QED BY <1>2, <1>3, <1>4, <1>5, <1>6 DEF MakeSidecars

LEMMA ShapeBundle == TypeOK /\ Shape /\ run \in Runs /\ MakeBundle => Shape'
<1> SUFFICES ASSUME TypeOK, Shape, run \in Runs, MakeBundle PROVE Shape'
  OBVIOUS
<1> USE KindsOfFiles DEF Shape
<1>0. Mine \in SUBSET Kinds BY DEF TypeOK, Mine, Places
<1>1. ASSUME NEW fs \in SUBSET Kinds, SetMine(fs)
      PROVE  Mine' = files'["local"][run'] /\ files'["local"][run] = fs
             /\ files'["secondary"] = files["secondary"]
  BY <1>1, SetMineFiles DEF Mine
<1>2. CASE SkipBundle
  <2>1. UNCHANGED <<run, files, place, bundling>> /\ ~bundling /\ pc = "bundle"
        /\ pc' = "store"
    BY <1>2 DEF SkipBundle, Goto
  <2>2. RunFiles' BY <2>1 DEF RunFiles, Mine, Completed
  <2> QED BY <2>1, <2>2, SameFilesKeep
<1>3. CASE CreateBundle
  <2>1. SetMine(Mine \cup {"tmpbundle"}) /\ UNCHANGED <<run, place, bundling>>
        /\ bundling /\ pc = "bundle" /\ pc' = "rename"
    BY <1>3 DEF CreateBundle, Goto
  <2>2. Mine' = Mine \cup {"tmpbundle"} BY <1>0, <1>1, <2>1
  <2>3. RunFiles' BY <1>0, <1>1, <2>1, <2>2 DEF RunFiles, Bundle
  <2> QED BY <1>0, <2>1, <2>3, SetMineKeeps
<1>4. CASE RenameBundle
  <2> DEFINE fs == (Mine \ {"tmpbundle"}) \cup Bundled
  <2>1. SetMine(fs) /\ UNCHANGED <<run, place, bundling>> /\ pc = "rename"
        /\ pc' = "raw" /\ fs \in SUBSET Kinds
    BY <1>0, <1>4 DEF RenameBundle, Goto
  <2>2. Mine' = fs /\ files'["secondary"] = files["secondary"]
    BY <1>1, <2>1
  <2>3. fs \cap Bundle # {} OBVIOUS
  <2> HIDE DEF fs
  <2>4. RunFiles' BY <2>1, <2>2, <2>3 DEF RunFiles
  <2> QED BY <2>1, <2>4, SetMineKeeps
<1>5. CASE BundleFails
  <2>1. CASE UNCHANGED files
    BY <1>5, <2>1, EndsRunFiles, SameFilesKeep DEF BundleFails, Ends
  <2>2. CASE \E left \in {{}, {"tmpbundle"}, Bundled} :
               SetMine((Mine \ {"tmpbundle"}) \cup left)
    BY <1>0, <1>5, <2>2, EndsRunFiles, SetMineKeeps DEF BundleFails, Ends
  <2> QED BY <1>5, <2>1, <2>2 DEF BundleFails
<1>6. CASE RemoveRaw
  <2>1. PICK gone : gone \cap Bundle = {} /\ SetMine(Mine \ gone)
    BY <1>6 DEF RemoveRaw, Alias, Bundle
  <2>2. UNCHANGED <<run, place, bundling>> /\ pc = "raw" /\ pc' = "store"
        /\ bundling
    BY <1>6 DEF RemoveRaw, Goto, RunFiles
  <2>3. Mine' = Mine \ gone /\ files'["secondary"] = files["secondary"]
    BY <1>0, <1>1, <2>1, <2>2
  <2>4. Mine' \cap Bundle # {} BY <2>1, <2>2, <2>3 DEF RunFiles
  <2>5. RunFiles' BY <2>2, <2>3, <2>4 DEF RunFiles, Completed
  <2> QED BY <1>0, <2>1, <2>2, <2>5, SetMineKeeps
<1> QED BY <1>2, <1>3, <1>4, <1>5, <1>6 DEF MakeBundle

LEMMA ShapeSync == Inv /\ run \in Runs /\ Sync => Shape'
<1> SUFFICES ASSUME Inv, run \in Runs, Sync PROVE Shape'
  OBVIOUS
<1> USE KindsOfFiles DEF Shape, Inv
<1>1. CASE StoreLocal
  <2>1. RunFiles' BY <1>1 DEF StoreLocal, Goto, RunFiles, Mine, Completed
  <2> QED BY <1>1, <2>1, SameFilesKeep DEF StoreLocal, Goto
<1>2. CASE SyncLocalFails \/ RetentionCancelled \/ Complete
  BY <1>2, EndsRunFiles, SameFilesKeep
     DEF SyncLocalFails, RetentionCancelled, Complete, Ends
<1>3. CASE StoreSecondary
  <2>1. files["secondary"][run] = {} /\ place = "secondary" /\ pc = "store"
    BY <1>3 DEF StoreSecondary, RunFiles
  <2>2. PICK fs \in {Bundle, {"archive"}} :
          CopyOver(fs) /\ pc' \in {"list", "storesum"} /\ UNCHANGED <<run, place>>
    BY <1>3 DEF StoreSecondary, Goto
  <2>3. RunFiles' BY <2>1, <2>2 DEF RunFiles
  <2>4. LET new == files["secondary"][run] \cup (fs \cap Mine)
        IN  "archive" \in new => new \cap Bundle = {}
    BY <2>1, <2>2 DEF Bundle
  <2> QED BY <2>2, <2>3, <2>4, CopyOverKeeps
<1>4. CASE StoreChecksum \/ StoreAlias
  <2>1. PICK fs \in {{"sidecar"}, Alias} :
          (CopyOver(fs) \/ UNCHANGED files)
          /\ pc' \in {"storealias", "list"} /\ place = "secondary"
          /\ UNCHANGED <<run, place>>
    BY <1>4 DEF StoreChecksum, StoreAlias, Goto, RunFiles
  <2>2. RunFiles' BY <2>1 DEF RunFiles
  <2>3. CASE UNCHANGED files BY <2>1, <2>2, <2>3, SameFilesKeep
  <2>4. CASE CopyOver(fs)
    <3>1. LET new == files["secondary"][run] \cup (fs \cap Mine)
          IN  "archive" \in new => new \cap Bundle = {}
      BY <2>1 DEF Bundle, Alias, OneLayout
    <3> QED BY <2>1, <2>2, <2>4, <3>1, CopyOverKeeps
  <2> QED BY <2>1, <2>3, <2>4
<1>5. CASE StoreSecondaryFails
  <2>1. RunFiles' BY <1>5 DEF StoreSecondaryFails, Goto, RunFiles
  <2> QED BY <1>5, <2>1, SameFilesKeep DEF StoreSecondaryFails, Goto
<1>6. CASE ListForRetention
  <2>1. RunFiles' BY <1>6 DEF ListForRetention, RunFiles, Mine, Completed
  <2> QED BY <1>6, <2>1, SameFilesKeep DEF ListForRetention
<1>7. CASE NextPlace
  <2>1. RunFiles' BY <1>7 DEF NextPlace, RunFiles
  <2> QED BY <1>7, <2>1, SameFilesKeep DEF NextPlace
<1>8. CASE DeleteBackup
  <2>1. PICK e \in doomed, gone \in SUBSET CandidatePaths :
          /\ doomed' = doomed \ {e}
          /\ files' = [files EXCEPT ![place][e[1]] = @ \ gone]
          /\ UNCHANGED <<run, bundling, pc, place>>
          /\ pc = "delete"
    BY <1>8 DEF DeleteBackup
  <2>2. e[1] \in Runs BY DEF TypeOK
  <2>3. Fresh' /\ OneLayout' BY <2>1, <2>2, DeleteKeeps
  <2>4. CASE place = "local"
    <3>1. PICK q \in Verified("local") : e[1] < q
      BY <2>1, <2>4 DEF Spared
    <3>2. q <= run
      BY <3>1, MaxRunsIsNat DEF Verified, Fresh, Completed, Places, Runs
    <3>3. e[1] # run BY <2>2, <3>1, <3>2, MaxRunsIsNat DEF Verified, Runs
    <3>4. Mine' = Mine /\ files'["secondary"] = files["secondary"]
      BY <2>1, <2>2, <2>4, <3>3, DeleteFiles DEF Mine, Places
    <3>5. RunFiles' BY <2>1, <3>4 DEF RunFiles
    <3> QED BY <2>3, <3>5
  <2>5. CASE place = "secondary"
    <3>1. RunFiles' BY <2>1, <2>5 DEF RunFiles
    <3> QED BY <2>3, <3>1
  <2> QED BY <2>4, <2>5 DEF TypeOK, Places
<1> QED BY <1>1, <1>2, <1>3, <1>4, <1>5, <1>6, <1>7, <1>8 DEF Sync

LEMMA ShapeStep == Inv /\ [Next]_vars => Shape'
<1> SUFFICES ASSUME Inv, [Next]_vars PROVE Shape'
  OBVIOUS
<1>1. CASE UNCHANGED vars
  BY <1>1 DEF vars, Inv, Shape, Fresh, RunFiles, OneLayout, Mine, Completed
<1>2. CASE Begin BY <1>2, ShapeBegin DEF Inv, Shape
<1>3. Next /\ ~Begin => run \in Runs
  BY DEF Next, MakeArchive, MakeSidecars, MakeBundle, Sync, Crash,
     CollectFails, OpenPartial, VerifyArchive, DiscardPartial, Promote,
     WriteSidecar, SidecarFails, OpenAlias, CopyAlias, AliasFails,
     SkipBundle, CreateBundle, RenameBundle, BundleFails, RemoveRaw,
     StoreLocal, SyncLocalFails, StoreSecondary, StoreChecksum, StoreAlias,
     StoreSecondaryFails, ListForRetention, DeleteBackup, NextPlace,
     RetentionCancelled, Complete, Inv, TypeOK
<1>4. CASE Crash
  BY <1>4, EndsRunFiles, SameFilesKeep DEF Crash, Ends, Inv, Shape
<1> QED
  BY <1>1, <1>2, <1>3, <1>4, ShapeArchive, ShapeSidecars, ShapeBundle, ShapeSync
     DEF Next, Inv, Shape

-----------------------------------------------------------------------------
(* Retention spares the newest.                                            *)

\* What retention gives up is not newer than any of what it keeps.
LEMMA SurplusIsOldest ==
  ASSUME NEW S, IsFiniteSet(S), NEW keep \in Nat,
         NEW D \in Surplus(S, keep), D # {}
  PROVE  /\ D \subseteq S
         /\ S \ D # {}
         /\ \A d \in D, e \in S \ D : d[1] <= e[1]
<1>1. /\ keep # 0
      /\ D \in SUBSET S
      /\ Cardinality(D) = Cardinality(S) - keep
      /\ \A d \in D, e \in S \ D : d[1] <= e[1]
  BY DEF Surplus
<1>2. Cardinality(S) \in Nat BY FS_CardinalityType
<1>3. D # S BY <1>1, <1>2
<1> QED BY <1>1, <1>3

LEMMA EligibleIsFinite ==
  ASSUME NEW p \in Places
  PROVE  IsFiniteSet(Eligible(p))
<1>1. IsFiniteSet(Runs) BY FS_Interval, MaxRunsIsNat DEF Runs
<1>2. IsFiniteSet({"bundle", "raw"})
  <2>1. {"bundle", "raw"} = {"bundle"} \cup {"raw"} OBVIOUS
  <2>2. IsFiniteSet({"bundle"}) BY FS_Singleton
  <2>3. IsFiniteSet({"bundle"} \cup {"raw"}) BY <2>2, FS_AddElement
  <2> QED BY <2>1, <2>3
<1>3. IsFiniteSet(Runs \X {"bundle", "raw"}) BY <1>1, <1>2, FS_Product
<1> QED BY <1>3, FS_Subset DEF Eligible

\* An entry that takes part in retention is a completed backup.
LEMMA EligibleIsVerified ==
  ASSUME NEW p \in Places, NEW e \in Eligible(p)
  PROVE  e[1] \in Verified(p)
  BY DEF Eligible, Forms, Verified, Completed

LEMMA VerifiedIsOld ==
  ASSUME TypeOK, Fresh, NEW p \in Places, NEW q \in Verified(p)
  PROVE  q \in Runs /\ q <= run
  BY MaxRunsIsNat DEF Verified, Fresh, Completed, Runs, TypeOK

(* At the local location the current run has one entry, so all that is     *)
(* given up is older than it.                                              *)
LEMMA ListSparesLocal ==
  ASSUME Inv, run \in Runs, pc = "list", place = "local",
         NEW D \in Surplus(Eligible("local"), Keep["local"]), NEW d \in D
  PROVE  d[1] < run
<1> DEFINE S == Eligible("local")
           own == <<run, IF bundling THEN "bundle" ELSE "raw">>
<1>0. "local" \in Places BY DEF Places
<1>1. Completed(Mine) /\ (bundling <=> Mine \cap Bundle # {}) /\ bundling \in BOOLEAN
  BY DEF Inv, RunFiles, TypeOK
<1>2. Forms(Mine) = {own[2]} BY <1>1 DEF Forms, Completed
<1>3. own \in S BY <1>2 DEF Eligible, Mine
<1>4. \A e \in S : e[1] = run => e = own BY <1>2 DEF Eligible, Mine
<1>5. Keep["local"] \in Nat BY KeepIsNat, <1>0
<1>6. D \subseteq S /\ S \ D # {} /\ \A c \in D, e \in S \ D : c[1] <= e[1]
  BY <1>0, <1>5, EligibleIsFinite, SurplusIsOldest
<1>7. \A e \in S : e[1] \in Runs /\ e[1] <= run
  BY <1>0, EligibleIsVerified, VerifiedIsOld DEF Inv
<1>8. own \notin D
  <2> SUFFICES ASSUME own \in D PROVE FALSE
    OBVIOUS
  <2>1. PICK e \in S \ D : TRUE BY <1>6
  <2>2. run <= e[1] BY <1>6, <2>1
  <2>3. e[1] = run BY <1>7, <2>1, <2>2, MaxRunsIsNat DEF Runs
  <2> QED BY <1>4, <2>1, <2>3
<1>9. d[1] # run BY <1>4, <1>6, <1>8
<1> QED BY <1>6, <1>7, <1>9, MaxRunsIsNat DEF Runs

\* At the secondary location every run has one entry at most.
LEMMA ListSparesSecondary ==
  ASSUME Inv, NEW D \in Surplus(Eligible("secondary"), Keep["secondary"]), D # {}
  PROVE  \E q \in Verified("secondary") : \A d \in D : d[1] < q
<1> DEFINE S == Eligible("secondary")
<1>0. "secondary" \in Places BY DEF Places
<1>1. Keep["secondary"] \in Nat BY KeepIsNat, <1>0
<1>2. D \subseteq S /\ S \ D # {} /\ \A c \in D, e \in S \ D : c[1] <= e[1]
  BY <1>0, <1>1, EligibleIsFinite, SurplusIsOldest
<1>3. PICK e \in S \ D : TRUE BY <1>2
<1>4. \A r \in Runs : ~({"bundle", "raw"} \subseteq Forms(files["secondary"][r]))
  BY DEF Forms, Inv, OneLayout
<1>5. \A c, f \in S : c[1] = f[1] => c = f
  <2> SUFFICES ASSUME NEW c \in S, NEW f \in S, c[1] = f[1] PROVE c = f
    OBVIOUS
  <2>1. /\ c = <<c[1], c[2]>> /\ f = <<f[1], f[2]>> /\ c[1] \in Runs
        /\ {c[2], f[2]} \subseteq {"bundle", "raw"}
        /\ {c[2], f[2]} \subseteq Forms(files["secondary"][c[1]])
    BY DEF Eligible
  <2> QED BY <1>4, <2>1
<1>6. \A d \in D : d[1] < e[1]
  <2> SUFFICES ASSUME NEW d \in D PROVE d[1] < e[1]
    OBVIOUS
  <2>1. d[1] <= e[1] /\ d[1] # e[1] BY <1>2, <1>3, <1>5
  <2>2. d[1] \in Int /\ e[1] \in Int
    BY <1>2, <1>3, MaxRunsIsNat DEF Eligible, Runs
  <2> QED BY <2>1, <2>2
<1> QED BY <1>0, <1>3, <1>6, EligibleIsVerified

LEMMA SparedInit == Init => Spared
  BY DEF Init, Spared

LEMMA SparedStep == Inv /\ [Next]_vars => Spared'
<1> SUFFICES ASSUME Inv, [Next]_vars PROVE Spared'
  OBVIOUS
<1>1. CASE UNCHANGED vars
  BY <1>1 DEF vars, Inv, Spared, Verified
<1>2. CASE ListForRetention
  <2>1. pc = "list" /\ run \in Runs /\ UNCHANGED <<run, place, files>> /\ pc' = "delete"
        /\ doomed' \in Surplus(Eligible(place), Keep[place]) /\ place \in Places
    BY <1>2 DEF ListForRetention, Inv, TypeOK
  <2>2. Verified(place)' = Verified(place) BY <2>1 DEF Verified
  <2>3. CASE place = "local"
    <3>1. \A d \in doomed' : d[1] < run BY <2>1, <2>3, ListSparesLocal
    <3>2. run \in Verified("local")
      BY <2>1, <2>3 DEF Inv, RunFiles, Verified, Mine
    <3> QED BY <2>1, <2>2, <2>3, <3>1, <3>2 DEF Spared
  <2>4. CASE place = "secondary"
    <3>1. doomed' # {} => \E q \in Verified("secondary") : \A d \in doomed' : d[1] < q
      BY <2>1, <2>4, ListSparesSecondary
    <3> QED BY <2>1, <2>2, <2>4, <3>1 DEF Spared
  <2> QED BY <2>1, <2>3, <2>4 DEF Places
<1>3. CASE DeleteBackup
  <2>1. PICK e \in doomed, gone \in SUBSET CandidatePaths :
          /\ doomed' = doomed \ {e}
          /\ files' = [files EXCEPT ![place][e[1]] = @ \ gone]
          /\ UNCHANGED <<pc, place>>
    BY <1>3 DEF DeleteBackup
  <2>2. e[1] \in Runs /\ place \in Places BY DEF Inv, TypeOK
  <2>3. PICK q \in Verified(place) : \A d \in doomed : d[1] < q
    BY <2>1 DEF Inv, Spared
  <2>4. q # e[1] /\ q \in Runs
    BY <2>2, <2>3, MaxRunsIsNat DEF Verified, Runs
  <2>5. files'[place][q] = files[place][q]
    BY <2>1, <2>2, <2>4, DeleteFiles DEF Inv
  <2>6. q \in Verified(place)' BY <2>1, <2>3, <2>5 DEF Verified
  <2> QED BY <1>3, <2>1, <2>3, <2>6 DEF Spared, DeleteBackup
<1>4. ASSUME Next, ~ListForRetention, ~DeleteBackup PROVE doomed' = {}
  <2>1. ASSUME NEW success, Ends(success) PROVE doomed' = {}
    BY <2>1 DEF Ends
  <2>2. ASSUME NEW step, Goto(step), pc # "delete" PROVE doomed' = {}
    BY <2>2 DEF Goto, Inv, Spared
  <2>3. Begin \/ AliasFails \/ NextPlace => doomed' = {}
    BY DEF Begin, AliasFails, NextPlace, Inv, Spared
  <2>4. MakeArchive \/ Crash => doomed' = {}
    BY <2>1, <2>2 DEF MakeArchive, CollectFails, OpenPartial, VerifyArchive,
       DiscardPartial, Promote, Crash
  <2>5. MakeSidecars => doomed' = {}
    BY <2>1, <2>2, <2>3 DEF MakeSidecars, WriteSidecar, SidecarFails, OpenAlias,
       CopyAlias
  <2>6. MakeBundle => doomed' = {}
    BY <2>1, <2>2 DEF MakeBundle, SkipBundle, CreateBundle, RenameBundle,
       BundleFails, RemoveRaw
  <2>7. Sync => doomed' = {}
    BY <1>4, <2>1, <2>2, <2>3 DEF Sync, StoreLocal, SyncLocalFails, StoreSecondary,
       StoreChecksum, StoreAlias, StoreSecondaryFails, RetentionCancelled, Complete
  <2> QED BY <1>4, <2>3, <2>4, <2>5, <2>6, <2>7 DEF Next
<1> QED BY <1>1, <1>2, <1>3, <1>4 DEF Spared

LEMMA InvInductive == Spec => []Inv
<1>1. Init => Inv
  BY TypeInit, ShapeInit, SparedInit DEF Inv, Shape
<1>2. Inv /\ [Next]_vars => Inv'
  BY TypeStep, ShapeStep, SparedStep DEF Inv, Shape
<1> QED BY <1>1, <1>2, PTL DEF Spec

-----------------------------------------------------------------------------
(* Every step is a step of the catalogue, or leaves it alone.              *)

Advance(p) ==
  \/ Verified(p)' = Verified(p)
  \/ \E r \in Runs : /\ \A c \in Verified(p) : c < r
                     /\ Verified(p)' = Verified(p) \cup {r}
  \/ \E r \in Runs : /\ \E c \in Verified(p) : c > r
                     /\ Verified(p)' = Verified(p) \ {r}

\* A step that only adds to what the current run has completed.
LEMMA RunAdds ==
  ASSUME Inv, run \in Runs, NEW p \in Places,
         \A r \in Runs \ {run} : files'[p][r] = files[p][r],
         Completed(files[p][run]) => Completed(files'[p][run])
  PROVE  Advance(p)
<1>1. CASE run \in Verified(p) \/ ~Completed(files'[p][run])
  <2>1. Verified(p)' = Verified(p) BY <1>1 DEF Verified
  <2> QED BY <2>1 DEF Advance
<1>2. CASE run \notin Verified(p) /\ Completed(files'[p][run])
  <2>1. Verified(p)' = Verified(p) \cup {run} BY <1>2 DEF Verified
  <2>2. \A c \in Verified(p) : c \in Runs /\ c <= run /\ c # run
    BY <1>2, VerifiedIsOld DEF Inv
  <2>3. \A c \in Verified(p) : c < run BY <2>2, MaxRunsIsNat DEF Runs
  <2> QED BY <2>1, <2>3 DEF Advance
<1> QED BY <1>1, <1>2

\* Until the archive is handed to the locations, a run only adds.
LEMMA LocalWrites ==
  ASSUME Inv, run \in Runs, MakeArchive \/ MakeSidecars \/ MakeBundle
  PROVE  \/ UNCHANGED files
         \/ \E fs \in SUBSET Kinds :
              SetMine(fs) /\ (Completed(Mine) => Completed(fs))
<1> USE KindsOfFiles
<1>0. Mine \in SUBSET Kinds BY DEF Inv, TypeOK, Mine, Places
<1>1. CASE MakeArchive
  <2>1. pc \in {"collect", "write", "promote"} => ~Completed(Mine)
    BY DEF Inv, RunFiles, Completed, Bundle
  <2> QED BY <1>0, <1>1, <2>1 DEF MakeArchive, CollectFails, OpenPartial,
             VerifyArchive, DiscardPartial, Promote
<1>2. CASE MakeSidecars
  <2>1. ASSUME NEW more \in SUBSET Kinds
        PROVE  Completed(Mine) => Completed((Mine \ {"torn"}) \cup more)
                                  /\ Completed(Mine \cup more)
    BY DEF Completed, Bundle
  <2>2. CASE WriteSidecar \/ SidecarFails
    BY <1>0, <2>1, <2>2 DEF WriteSidecar, SidecarFails
  <2>3. CASE OpenAlias \/ CopyAlias \/ AliasFails
    BY <1>0, <2>1, <2>3 DEF OpenAlias, CopyAlias, AliasFails
  <2> QED BY <1>2, <2>2, <2>3 DEF MakeSidecars
<1>3. CASE MakeBundle
  <2>1. ASSUME NEW more \in SUBSET Kinds
        PROVE  Completed(Mine) => Completed((Mine \ {"tmpbundle"}) \cup more)
                                  /\ Completed(Mine \cup more)
    BY DEF Completed, Bundle
  <2>2. CASE SkipBundle \/ CreateBundle \/ RenameBundle
    BY <1>0, <2>1, <2>2 DEF SkipBundle, CreateBundle, RenameBundle
  <2>3. CASE BundleFails
    BY <1>0, <2>1, <2>3 DEF BundleFails
  <2>4. CASE RemoveRaw
    <3>1. PICK gone : gone \cap Bundle = {} /\ SetMine(Mine \ gone)
      BY <2>4 DEF RemoveRaw, Alias, Bundle
    <3>2. Mine \cap Bundle # {} BY <2>4 DEF RemoveRaw, Inv, RunFiles
    <3>3. Completed(Mine \ gone) BY <3>1, <3>2 DEF Completed
    <3> QED BY <1>0, <3>1, <3>3
  <2> QED BY <1>3, <2>2, <2>3, <2>4 DEF MakeBundle
<1> QED BY <1>1, <1>2, <1>3

LEMMA CatalogStep ==
  ASSUME Inv, [Next]_vars, NEW p \in Places
  PROVE  Advance(p)
<1>1. CASE UNCHANGED files
  BY <1>1 DEF Advance, Verified
<1>2. CASE MakeArchive \/ MakeSidecars \/ MakeBundle
  <2>0. run \in Runs
    BY <1>2 DEF MakeArchive, MakeSidecars, MakeBundle, CollectFails, OpenPartial,
       VerifyArchive, DiscardPartial, Promote, WriteSidecar, SidecarFails,
       OpenAlias, CopyAlias, AliasFails, SkipBundle, CreateBundle, RenameBundle,
       BundleFails, RemoveRaw, Inv, TypeOK
  <2> SUFFICES ASSUME NEW fs \in SUBSET Kinds, SetMine(fs),
                      Completed(Mine) => Completed(fs)
               PROVE  Advance(p)
    BY <1>1, <1>2, <2>0, LocalWrites
  <2>1. CASE p = "local"
    BY <2>0, <2>1, SetMineFiles, RunAdds DEF Inv, Mine
  <2>2. CASE p = "secondary"
    BY <2>0, <2>2, SetMineFiles, RunAdds DEF Inv
  <2> QED BY <2>1, <2>2 DEF Places
<1>3. CASE StoreSecondary \/ StoreChecksum \/ StoreAlias
  <2>0. run \in Runs
    BY <1>3 DEF StoreSecondary, StoreChecksum, StoreAlias, Inv, TypeOK
  <2>1. UNCHANGED files \/ \E fs \in SUBSET Kinds : CopyOver(fs)
    BY <1>3, KindsOfFiles DEF StoreSecondary, StoreChecksum, StoreAlias
  <2> SUFFICES ASSUME NEW fs \in SUBSET Kinds, CopyOver(fs) PROVE Advance(p)
    BY <1>1, <2>1
  <2>2. CASE p = "local"
    BY <2>0, <2>2, CopyOverFiles, RunAdds DEF Inv
  <2>3. CASE p = "secondary"
    <3>1. Completed(files[p][run]) => Completed(files'[p][run])
      BY <2>0, <2>3, CopyOverFiles DEF Completed, Inv
    <3> QED BY <2>0, <2>3, <3>1, CopyOverFiles, RunAdds DEF Inv
  <2> QED BY <2>2, <2>3 DEF Places
<1>4. CASE DeleteBackup
  <2>1. PICK e \in doomed, gone \in SUBSET CandidatePaths :
          files' = [files EXCEPT ![place][e[1]] = @ \ gone]
    BY <1>4 DEF DeleteBackup
  <2>2. e[1] \in Runs BY DEF Inv, TypeOK
  <2>3. CASE p # place
    <3>1. files'[p] = files[p] BY <2>1, <2>2, <2>3, DeleteFiles DEF Inv
    <3> QED BY <3>1 DEF Advance, Verified
  <2>4. CASE p = place
    <3>1. PICK q \in Verified(place) : e[1] < q
      BY <2>1 DEF Inv, Spared
    <3>2. \A r \in Runs \ {e[1]} : files'[p][r] = files[p][r]
      BY <2>1, <2>2, <2>4, DeleteFiles DEF Inv
    <3>3. files'[p][e[1]] \subseteq files[p][e[1]]
      BY <2>1, <2>2, <2>4, DeleteFiles DEF Inv
    <3>4. Verified(p)' = Verified(p) \/ Verified(p)' = Verified(p) \ {e[1]}
      BY <2>2, <3>2, <3>3 DEF Verified, Completed
    <3>5. q > e[1] BY <2>2, <3>1, MaxRunsIsNat DEF Verified, Runs
    <3> QED BY <2>2, <2>4, <3>1, <3>4, <3>5 DEF Advance
  <2> QED BY <2>3, <2>4
<1>5. ASSUME Next, ~DeleteBackup,
             ~(MakeArchive \/ MakeSidecars \/ MakeBundle),
             ~(StoreSecondary \/ StoreChecksum \/ StoreAlias)
      PROVE  UNCHANGED files
  BY <1>5 DEF Next, Begin, Sync, Crash, StoreLocal, SyncLocalFails,
     StoreSecondaryFails, ListForRetention, NextPlace, RetentionCancelled, Complete
<1> QED BY <1>1, <1>2, <1>3, <1>4, <1>5 DEF vars

\* The files keep to their kinds and every variable to its type.
THEOREM TypeCorrect == Spec => []TypeOK
  BY InvInductive, PTL DEF Inv

(* Through every failure and crash, the local location keeps its newest    *)
(* completed backup: bundling and retention only remove what a newer one   *)
(* supersedes (local.go deleteBackupInternal, applySimpleRetention).       *)
THEOREM LocalImplementsCatalog == Spec => LocalKeepsNewest
<1>1. Init => LocalPromise!Init
  <2>1. Init => \A r \in Runs : files["local"][r] = {} BY DEF Init, Places
  <2> QED BY <2>1 DEF LocalPromise!Init, Verified, Completed
<1>2. Inv /\ [Next]_vars => [LocalPromise!Next]_(Verified("local"))
  <2>1. Inv /\ [Next]_vars => Advance("local") BY CatalogStep DEF Places
  <2> QED BY <2>1 DEF Advance, LocalPromise!Next, LocalPromise!Add, LocalPromise!Drop
<1> QED BY <1>1, <1>2, InvInductive, PTL DEF Spec, LocalKeepsNewest, LocalPromise!Spec

(* So does the secondary location, whatever copies fail (secondary.go      *)
(* Store, deleteBackupInternal, applySimpleRetention).                     *)
THEOREM SecondaryImplementsCatalog == Spec => SecondaryKeepsNewest
<1>1. Init => SecondaryPromise!Init
  <2>1. Init => \A r \in Runs : files["secondary"][r] = {} BY DEF Init, Places
  <2> QED BY <2>1 DEF SecondaryPromise!Init, Verified, Completed
<1>2. Inv /\ [Next]_vars => [SecondaryPromise!Next]_(Verified("secondary"))
  <2>1. Inv /\ [Next]_vars => Advance("secondary") BY CatalogStep DEF Places
  <2> QED BY <2>1 DEF Advance, SecondaryPromise!Next, SecondaryPromise!Add,
                      SecondaryPromise!Drop
<1> QED BY <1>1, <1>2, InvInductive, PTL
        DEF Spec, SecondaryKeepsNewest, SecondaryPromise!Spec

-----------------------------------------------------------------------------
(* What a successful run leaves can be restored.                           *)

Readable ==
  /\ pc \in {"bundle", "rename"} => "metadata" \in Mine \/ run \in warned
  /\ pc = "raw" => "bundle" \in Mine \/ run \in warned
  /\ pc \in {"store", "list", "delete", "storesum", "storealias"}
       => Restorable(Mine) \/ run \in warned

\* The claim is kept by a step that loses nothing restorable, unless the
\* current run, restorable or warned of, takes its place.
LEMMA SuccessKept ==
  ASSUME TypeOK, SuccessIsRestorable, warned \subseteq warned',
         succeeded' \subseteq succeeded \cup {run}, run \in Runs,
         succeeded' = succeeded
           \/ Restorable(files'["local"][run]) \/ run \in warned',
         \A q \in Runs : Restorable(files["local"][q])
           => \/ Restorable(files'["local"][q])
              \/ /\ q <= run
                 /\ Restorable(files'["local"][run]) \/ run \in warned'
  PROVE  SuccessIsRestorable'
<1> SUFFICES ASSUME NEW r \in succeeded'
             PROVE  Survives(r)' \/ \E q \in warned' : q >= r
  BY DEF SuccessIsRestorable
<1>1. CASE r \in succeeded
  <2>1. r \in Runs BY <1>1 DEF TypeOK
  <2>2. CASE \E q \in warned : q >= r BY <2>2
  <2>3. CASE Survives(r)
    <3>1. PICK q \in Runs : q >= r /\ Restorable(files["local"][q])
      BY <2>3 DEF Survives, Catalog
    <3>2. q <= run => run >= r BY <2>1, <3>1, MaxRunsIsNat DEF Runs
    <3> QED BY <3>1, <3>2 DEF Survives, Catalog
  <2> QED BY <1>1, <2>2, <2>3 DEF SuccessIsRestorable
<1>2. CASE r \notin succeeded
  <2>1. r = run /\ (Restorable(files'["local"][run]) \/ run \in warned')
    BY <1>2
  <2>2. run >= run BY MaxRunsIsNat DEF Runs
  <2> QED BY <2>1, <2>2 DEF Survives, Catalog
<1> QED BY <1>1, <1>2

\* The case of a step of the run on its own files.
LEMMA SuccessKeptBySetMine ==
  ASSUME TypeOK, SuccessIsRestorable, run \in Runs, NEW fs \in SUBSET Kinds,
         SetMine(fs), UNCHANGED <<warned, succeeded>>,
         Restorable(Mine) => Restorable(fs) \/ run \in warned
  PROVE  SuccessIsRestorable'
<1>1. \A q \in Runs : Restorable(files["local"][q])
           => \/ Restorable(files'["local"][q])
              \/ /\ q <= run
                 /\ Restorable(files'["local"][run]) \/ run \in warned'
  BY SetMineFiles, MaxRunsIsNat DEF Mine, Runs
<1> QED BY <1>1, SuccessKept

LEMMA SuccessKeptBySameFiles ==
  ASSUME TypeOK, SuccessIsRestorable, run \in Runs, warned \subseteq warned',
         files'["local"] = files["local"], UNCHANGED succeeded
  PROVE  SuccessIsRestorable'
  BY SuccessKept

LEMMA EndsReadable ==
  ASSUME NEW success, Ends(success)
  PROVE  Readable'
  BY DEF Ends, Readable

LEMMA SuccessInit == Init => Readable /\ SuccessIsRestorable
  BY DEF Init, Readable, SuccessIsRestorable

LEMMA SuccessWrites ==
  ASSUME Inv, Readable, SuccessIsRestorable, run \in Runs,
         MakeArchive \/ MakeSidecars \/ MakeBundle
  PROVE  Readable' /\ SuccessIsRestorable'
<1> USE KindsOfFiles
<1>0. Mine \in SUBSET Kinds /\ TypeOK BY DEF Inv, TypeOK, Mine, Places
<1>1. ASSUME NEW fs \in SUBSET Kinds, SetMine(fs) PROVE files'["local"][run] = fs
  BY <1>0, <1>1, SetMineFiles
<1>2. CASE MakeArchive
  <2>1. pc \in {"collect", "write", "promote"} => ~Restorable(Mine)
    BY DEF Inv, RunFiles, Restorable
  <2>2. SuccessIsRestorable'
    BY <1>0, <1>2, <2>1, SuccessKeptBySetMine, SuccessKeptBySameFiles
       DEF MakeArchive, CollectFails, OpenPartial, VerifyArchive, DiscardPartial,
           Promote, Goto, Ends
  <2>3. pc' \in {"idle", "write", "promote", "sha256"}
    BY <1>2 DEF MakeArchive, CollectFails, OpenPartial, VerifyArchive,
       DiscardPartial, Promote, Goto, Ends
  <2> QED BY <2>2, <2>3 DEF Readable
<1>3. CASE MakeSidecars
  <2>1. ASSUME NEW more \in SUBSET Kinds
        PROVE  Restorable(Mine) => Restorable((Mine \ {"torn"}) \cup more)
                                   /\ Restorable(Mine \cup more)
    BY DEF Restorable
  <2>2. CASE WriteSidecar \/ SidecarFails \/ OpenAlias
    <3>1. SuccessIsRestorable'
      BY <1>0, <2>1, <2>2, SuccessKeptBySetMine, SuccessKeptBySameFiles
         DEF WriteSidecar, SidecarFails, OpenAlias, Goto, Ends
    <3>2. pc' \in {"manifest", "alias", "copy", "idle"}
      BY <2>2 DEF WriteSidecar, SidecarFails, OpenAlias, Goto, Ends
    <3> QED BY <3>1, <3>2 DEF Readable
  <2>3. CASE CopyAlias
    <3> DEFINE fs == (Mine \ {"torn"}) \cup {"metadata"}
    <3>1. SetMine(fs) /\ fs \in SUBSET Kinds /\ UNCHANGED <<run, warned, succeeded>>
          /\ pc' = "bundle"
      BY <1>0, <2>3 DEF CopyAlias, Goto
    <3>2. SuccessIsRestorable'
      BY <1>0, <2>1, <3>1, SuccessKeptBySetMine
    <3>3. "metadata" \in Mine' BY <1>1, <3>1 DEF Mine
    <3> QED BY <3>1, <3>2, <3>3 DEF Readable
  <2>4. CASE AliasFails
    BY <1>0, <2>4, SuccessKeptBySameFiles DEF AliasFails, Readable
  <2> QED BY <1>3, <2>2, <2>3, <2>4 DEF MakeSidecars
<1>4. CASE MakeBundle
  <2>1. ASSUME NEW more \in SUBSET Kinds
        PROVE  Restorable(Mine) => Restorable((Mine \ {"tmpbundle"}) \cup more)
                                   /\ Restorable(Mine \cup more)
    BY DEF Restorable
  <2>2. CASE SkipBundle
    <3>1. pc = "bundle" /\ pc' = "store" /\ UNCHANGED <<run, files, warned, succeeded>>
      BY <2>2 DEF SkipBundle, Goto
    <3>2. Restorable(Mine) \/ run \in warned
      BY <3>1 DEF Readable, Inv, RunFiles, Restorable
    <3>3. Readable' BY <3>1, <3>2 DEF Readable, Mine
    <3> QED BY <1>0, <3>1, <3>3, SuccessKeptBySameFiles
  <2>3. CASE CreateBundle
    <3>1. pc = "bundle" /\ pc' = "rename" /\ SetMine(Mine \cup {"tmpbundle"})
          /\ UNCHANGED <<run, warned, succeeded>>
      BY <2>3 DEF CreateBundle, Goto
    <3>2. Mine' = Mine \cup {"tmpbundle"} BY <1>0, <1>1, <3>1 DEF Mine
    <3>3. Readable' BY <3>1, <3>2 DEF Readable
    <3> QED BY <1>0, <2>1, <3>1, <3>3, SuccessKeptBySetMine
  <2>4. CASE RenameBundle
    <3> DEFINE fs == (Mine \ {"tmpbundle"}) \cup Bundled
    <3>1. pc = "rename" /\ pc' = "raw" /\ SetMine(fs) /\ fs \in SUBSET Kinds
          /\ UNCHANGED <<run, warned, succeeded>>
      BY <1>0, <2>4 DEF RenameBundle, Goto
    <3>2. Mine' = fs BY <1>1, <3>1 DEF Mine
    <3>3. "metadata" \in Mine => "bundle" \in fs BY DEF Bundled
    <3>4. Restorable(Mine) => Restorable(fs) BY <2>1
    <3> HIDE DEF fs
    <3>5. Readable' BY <3>1, <3>2, <3>3 DEF Readable
    <3> QED BY <1>0, <3>1, <3>4, <3>5, SuccessKeptBySetMine
  <2>5. CASE BundleFails
    <3>1. Readable' BY <2>5, EndsReadable DEF BundleFails
    <3>2. SuccessIsRestorable'
      BY <1>0, <2>1, <2>5, SuccessKeptBySetMine, SuccessKeptBySameFiles
         DEF BundleFails, Ends
    <3> QED BY <3>1, <3>2
  <2>6. CASE RemoveRaw
    <3>1. PICK gone : gone \cap Bundle = {} /\ SetMine(Mine \ gone)
      BY <2>6 DEF RemoveRaw, Alias, Bundle
    <3>2. pc = "raw" /\ pc' = "store" /\ UNCHANGED <<run, warned, succeeded>>
      BY <2>6 DEF RemoveRaw, Goto
    <3>3. Restorable(Mine \ gone) \/ run \in warned
      BY <3>1, <3>2 DEF Readable, Restorable, Bundle
    <3>4. Mine' = Mine \ gone BY <1>0, <1>1, <3>1, <3>2 DEF Mine
    <3>5. Readable' BY <3>2, <3>3, <3>4 DEF Readable
    <3> QED BY <1>0, <3>1, <3>2, <3>3, <3>5, SuccessKeptBySetMine
  <2> QED BY <1>4, <2>2, <2>3, <2>4, <2>5, <2>6 DEF MakeBundle
<1> QED BY <1>2, <1>3, <1>4

LEMMA SuccessSync ==
  ASSUME Inv, Readable, SuccessIsRestorable, run \in Runs, Sync
  PROVE  Readable' /\ SuccessIsRestorable'
<1> USE KindsOfFiles
<1>0. TypeOK BY DEF Inv
<1>1. CASE SyncLocalFails \/ RetentionCancelled
  BY <1>0, <1>1, EndsReadable, SuccessKeptBySameFiles
     DEF SyncLocalFails, RetentionCancelled, Ends
<1>2. CASE Complete
  <2>1. Restorable(Mine) \/ run \in warned BY <1>2 DEF Complete, Readable
  <2>2. succeeded' = succeeded \cup {run} /\ UNCHANGED <<files, warned>>
    BY <1>2 DEF Complete, Ends
  <2>3. SuccessIsRestorable' BY <1>0, <2>1, <2>2, SuccessKept DEF Mine
  <2> QED BY <1>2, <2>3, EndsReadable DEF Complete
<1>3. CASE StoreLocal \/ StoreSecondaryFails \/ ListForRetention \/ NextPlace
  <2>1. /\ UNCHANGED <<run, files, warned, succeeded>>
        /\ pc \in {"store", "list", "delete"} /\ pc' \in {"store", "list", "delete"}
    BY <1>3 DEF StoreLocal, StoreSecondaryFails, ListForRetention, NextPlace, Goto
  <2>2. Readable' BY <2>1 DEF Readable, Mine
  <2> QED BY <1>0, <2>1, <2>2, SuccessKeptBySameFiles
<1>4. CASE StoreSecondary \/ StoreChecksum \/ StoreAlias
  <2>1. /\ UNCHANGED <<run, warned, succeeded>>
        /\ pc \in {"store", "storesum", "storealias"}
        /\ pc' \in {"list", "storesum", "storealias"}
        /\ UNCHANGED files \/ \E fs \in SUBSET Kinds : CopyOver(fs)
    BY <1>4 DEF StoreSecondary, StoreChecksum, StoreAlias, Goto
  <2>2. files'["local"] = files["local"] BY <1>0, <2>1, CopyOverFiles
  <2>3. Readable' BY <2>1, <2>2 DEF Readable, Mine
  <2> QED BY <1>0, <2>1, <2>2, <2>3, SuccessKeptBySameFiles
<1>5. CASE DeleteBackup
  <2>1. PICK e \in doomed, gone \in SUBSET CandidatePaths :
          /\ files' = [files EXCEPT ![place][e[1]] = @ \ gone]
          /\ pc = "delete"
          /\ UNCHANGED <<run, pc, place, warned, succeeded>>
    BY <1>5 DEF DeleteBackup
  <2>2. e[1] \in Runs BY DEF Inv, TypeOK
  <2>3. CASE place = "secondary"
    <3>1. files'["local"] = files["local"]
      BY <1>0, <2>1, <2>2, <2>3, DeleteFiles DEF Places
    <3>2. Readable' BY <2>1, <3>1 DEF Readable, Mine
    <3> QED BY <1>0, <2>1, <3>1, <3>2, SuccessKeptBySameFiles
  <2>4. CASE place = "local"
    <3>1. PICK q \in Verified("local") : e[1] < q
      BY <2>1, <2>4 DEF Inv, Spared
    <3>2. q \in Runs /\ q <= run BY <3>1, VerifiedIsOld DEF Inv, Places
    <3>3. e[1] <= run /\ e[1] # run BY <2>2, <3>1, <3>2, MaxRunsIsNat DEF Runs
    <3>4. \A r \in Runs \ {e[1]} : files'["local"][r] = files["local"][r]
      BY <1>0, <2>1, <2>2, <2>4, DeleteFiles
    <3>5. Mine' = Mine BY <2>1, <3>3, <3>4 DEF Mine
    <3>6. Restorable(Mine) \/ run \in warned BY <2>1 DEF Readable
    <3>7. Readable' BY <2>1, <3>5, <3>6 DEF Readable
    <3>8. SuccessIsRestorable'
      BY <1>0, <2>1, <3>3, <3>4, <3>6, SuccessKept DEF Mine
    <3> QED BY <3>7, <3>8
  <2> QED BY <2>3, <2>4 DEF Inv, TypeOK, Places
<1> QED BY <1>1, <1>2, <1>3, <1>4, <1>5 DEF Sync

LEMMA SuccessStep ==
  Inv /\ Readable /\ SuccessIsRestorable /\ [Next]_vars
    => Readable' /\ SuccessIsRestorable'
<1> SUFFICES ASSUME Inv, Readable, SuccessIsRestorable, [Next]_vars
             PROVE  Readable' /\ SuccessIsRestorable'
  OBVIOUS
<1>1. CASE UNCHANGED vars
  BY <1>1 DEF vars, Readable, Mine, SuccessIsRestorable, Survives, Catalog
<1>2. CASE Begin
  BY <1>2 DEF Begin, Readable, SuccessIsRestorable, Survives, Catalog
<1>3. Next /\ ~Begin => run \in Runs
  BY DEF Next, MakeArchive, MakeSidecars, MakeBundle, Sync, Crash,
     CollectFails, OpenPartial, VerifyArchive, DiscardPartial, Promote,
     WriteSidecar, SidecarFails, OpenAlias, CopyAlias, AliasFails,
     SkipBundle, CreateBundle, RenameBundle, BundleFails, RemoveRaw,
     StoreLocal, SyncLocalFails, StoreSecondary, StoreChecksum, StoreAlias,
     StoreSecondaryFails, ListForRetention, DeleteBackup, NextPlace,
     RetentionCancelled, Complete, Inv, TypeOK
<1>4. CASE Crash
  <2>1. run \in Runs BY <1>4 DEF Crash, Inv, TypeOK
  <2> QED BY <1>4, <2>1, EndsReadable, SuccessKeptBySameFiles DEF Crash, Ends, Inv
<1> QED BY <1>1, <1>2, <1>3, <1>4, SuccessWrites, SuccessSync DEF Next

(* Once a run has succeeded, the local location can restore a backup at    *)
(* least as new, unless a run since has warned of its .metadata file       *)
(* (writeLegacyMetadataAlias).                                             *)
THEOREM SuccessfulRunsAreRestorable == Spec => []SuccessIsRestorable
<1>1. Inv /\ Readable /\ SuccessIsRestorable /\ [Next]_vars
        => (Readable /\ SuccessIsRestorable)'
  BY SuccessStep
<1> QED BY SuccessInit, <1>1, InvInductive, PTL DEF Spec

=============================================================================
