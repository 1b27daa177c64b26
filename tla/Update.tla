------------------------------- MODULE Update -------------------------------
(***************************************************************************)
(* The commands `create' (internal/create), `transfer-metadata'            *)
(* (internal/transfer) and `update' (internal/update) on one repository    *)
(* directory, run one after the other.  `update' is run the way its tests  *)
(* run it: --metadata-url is the repository being updated, so the fetched  *)
(* chain is the published one.  Its commit takes the published files away  *)
(* to .backup, one after the other, before it puts the same bytes back; it *)
(* may fail at each of them, and so may its undoing.  (Module CommitStaged *)
(* has the same commit call by call, for any two contents of the files.)   *)
(*                                                                         *)
(* A command that is refused (validation, fetch, verification) or fails    *)
(* while it stages its files returns before it has changed anything that   *)
(* is modelled here, and is no step at all.                                *)
(***************************************************************************)
EXTENDS Editor

CONSTANTS Use,        \* the ways the two commands are used, see UseKind
          Addable,    \* what --add-targets directories hold
          Policies,   \* the --target-path-exists values in use
          Given       \* the versions given to create and --force-version

UseKind == {"create",    \* create in a directory that publishes nothing yet
            "recreate",  \* create over a published repository, or over what a
                         \* commit that failed or was killed left of one
            "transfer",  \* transfer-metadata into a new directory
            "bump",      \* update that adds targets or sets targets-expires
            "resign",    \* update of the snapshot and timestamp only
            "force",     \* update with --force-version
            "incoming"}  \* update with --incoming-metadata and no other change

ASSUME UpdateAssumption ==
  /\ Use \subseteq UseKind /\ Policies \subseteq Policy
  /\ Addable \subseteq Targets /\ Given \subseteq Version

(* The files of a fetched chain: its documents, and by name its targets.   *)
Link == {"timestamp", "snapshot", "targets"}
File == Link \cup Name

ASSUME FileAssumption == Name \cap Link = {}

VARIABLES added,    \* what the command's loop adds
          todo,     \* targets of that loop, or files of the commit, to do
          fetched,  \* the chain of the last fetch, as it was staged
          kept      \* its files whose old bytes are in <file>.backup

command == <<added, todo, fetched, kept>>
vars == <<disk, run, pc, ed, copied, command>>

Chain == [timestamp : LinkDoc, snapshot : LinkDoc, targets : TargetsDoc]

(* The variables keep their types; every metadata document that a command  *)
(* writes is one that a later run can load.                                *)
TypeOK ==
  /\ targetsMd \in [Version -> TargetsDoc \cup {None}]
  /\ snapshotMd \in [Version -> LinkDoc \cup {None}]
  /\ timestampMd \in LinkDoc \cup {None}
  /\ files \in [Name \X Digest -> Digest \cup {None, Torn}]
  /\ plain \in Targets /\ added \in Targets
  /\ fetched \in Chain \cup {None} /\ kept \subseteq File
  /\ run \in 0 .. MaxRun /\ ed \in EditorRecord
  /\ pc \in {"idle", "backup", "swap", "undo", "adding", "signers", "targets",
             "snapshot", "timestamp", "copy", "written", "failed"}
  /\ copied \subseteq Name /\ todo \subseteq File

NoEdits == [targets |-> NoTargets, tv |-> 1, sv |-> 1, tsv |-> 1,
            policy |-> "skip", reuse |-> FALSE]

Init ==
  /\ targetsMd = [v \in Version |-> None] /\ snapshotMd = [v \in Version |-> None]
  /\ timestampMd = None
  /\ files = [k \in Name \X Digest |-> None] /\ plain = NoTargets
  /\ run = 0 /\ pc = "idle" /\ copied = {} /\ todo = {} /\ added = NoTargets
  /\ fetched = None /\ kept = {}
  /\ ed = NoEdits

-----------------------------------------------------------------------------
Running == pc \notin {"idle", "written", "failed"}

BeginRun ==
  /\ ~Running /\ run < MaxRun
  /\ run' = run + 1

(* A run up to its loop over the scanned targets: what it holds in memory  *)
(* once that loop is through (were the loop to fail, it would be dropped), *)
(* with the versions that are to be written.                               *)
Plan(targets, tv, sv, tsv) ==
  /\ pc' = "adding"
  /\ todo' = {n \in Name : added'[n] # None}
  /\ tv \in Version /\ sv \in Version /\ tsv \in Version
  /\ \E p \in Policies :
       ed' = [targets |-> AddTargets(targets, added'), tv |-> tv, sv |-> sv,
              tsv |-> tsv, policy |-> p, reuse |-> FALSE]
  /\ UNCHANGED <<disk, copied>>

(* create: the newest local metadata, or none, with the given versions. *)
Create(tv, sv, tsv) ==
  /\ BeginRun
  /\ IF Published \/ "timestamp" \in kept THEN "recreate" \in Use ELSE "create" \in Use
  /\ added' \in Addable
  /\ Plan(LoadLatest.targets, tv, sv, tsv)
  /\ UNCHANGED <<fetched, kept>>

(* transfer-metadata: the targets of another repository under a new root,  *)
(* in a directory that must not exist.  (A run that fails before it makes  *)
(* the directory leaves nothing: its retry is a first run again.)  Signers *)
(* are found and files written in the order of SignAndWrite, but no target *)
(* is copied: in a new directory the copy loop has nothing to do.          *)
Transfer(tv, sv, tsv) ==
  /\ BeginRun
  /\ "transfer" \in Use /\ run = 0 /\ plain = NoTargets /\ ~Published
  /\ added' = NoTargets
  /\ \E old \in Addable : Plan(old, tv, sv, tsv)
  /\ UNCHANGED <<fetched, kept>>

(* fetchMetadataFromURL of the repository itself.  The chain is verified   *)
(* link by link, with the newest local timestamp (the same file) and       *)
(* snapshot as the rollback floor.  A target is fetched from its digest-   *)
(* prefixed name or, were that missing, from the plain one, and compared   *)
(* with its hash.                                                          *)
Floor == snapshotMd[Latest(snapshotMd)].meta.version

Fetchable(n, d) == files[<<n, d>>] = d \/ (files[<<n, d>>] = None /\ plain[n] = d)

(* Faulty Fetched: the newest targets file instead of the published one. *)
FetchedLatest ==
  [timestamp |-> timestampMd, snapshot |-> SnapshotOf(timestampMd),
   targets |-> targetsMd[Latest(targetsMd)]]

Fetched ==
  [timestamp |-> timestampMd, snapshot |-> SnapshotOf(timestampMd),
   targets |-> TargetsOf(timestampMd)]

FetchAccepted ==
  /\ Published /\ ChainIntact
  /\ Floor <= SnapshotOf(timestampMd).meta.version
  /\ \A n \in Name : LET d == TargetsOf(timestampMd).targets[n]
                     IN d # None => Fetchable(n, d)

-----------------------------------------------------------------------------
(* commitStagedMetadata.  Its batch has the files that were staged, in the *)
(* order of a directory, which is any; what is to go under a name of the   *)
(* repository is what was fetched from there.                              *)
Batch == Link \cup {n \in Name : fetched.targets.targets[n] # None}

There(i) ==
  \/ i = "timestamp" /\ timestampMd # None
  \/ i = "snapshot" /\ snapshotMd[fetched.snapshot.version] # None
  \/ i = "targets" /\ targetsMd[fetched.targets.version] # None
  \/ i \in Name /\ files[<<i, fetched.targets.targets[i]>>] # None

(* The directory after the file i was put under its name (or, if not here, *)
(* went from it).                                                          *)
Placed(i, here) ==
  LET Of(bytes) == IF here THEN bytes ELSE None
      md == fetched.targets
  IN /\ timestampMd' = IF i = "timestamp" THEN Of(fetched.timestamp) ELSE timestampMd
     /\ snapshotMd' = IF i = "snapshot"
                      THEN [snapshotMd EXCEPT ![fetched.snapshot.version] = Of(fetched.snapshot)]
                      ELSE snapshotMd
     /\ targetsMd' = IF i = "targets" THEN [targetsMd EXCEPT ![md.version] = Of(md)]
                     ELSE targetsMd
     /\ files' = IF i \in Name
                 THEN [files EXCEPT ![<<i, md.targets[i]>>] = Of(md.targets[i])] ELSE files

(* An update fetches what is published, and its commit begins. *)
BeginUpdate ==
  /\ BeginRun
  /\ Use \cap {"bump", "resign", "force", "incoming"} # {}
  /\ FetchAccepted
  /\ fetched' = Fetched
  /\ pc' = "backup" /\ todo' = Batch' /\ kept' = {}
  /\ ed' = NoEdits /\ copied' = {} /\ added' = NoTargets
  /\ UNCHANGED disk

ToDo(phase, i) ==
  /\ pc = phase /\ i \in todo
  /\ todo' = todo \ {i}
  /\ UNCHANGED <<plain, run, pc, ed, copied, added, fetched>>

BackUp(i) ==
  /\ ToDo("backup", i)
  /\ There(i)
  /\ Placed(i, FALSE)
  /\ kept' = kept \cup {i}

(* os.Stat finds no old file; any error of it is taken to mean that. *)
NothingToBackUp(i) ==
  /\ ToDo("backup", i)
  /\ ~There(i) \/ "stat" \in Fault
  /\ UNCHANGED <<metadata, files, kept>>

Swap(i) ==
  /\ ToDo("swap", i)
  /\ Placed(i, TRUE)
  /\ UNCHANGED kept

AllBackedUp ==
  /\ pc = "backup" /\ todo = {}
  /\ pc' = "swap" /\ todo' = Batch
  /\ UNCHANGED <<disk, run, ed, copied, added, fetched, kept>>

(* A rename fails: restoreBackups and rollbackSwapped go over what was     *)
(* backed up or swapped so far.                                            *)
CommitFails ==
  /\ "disk" \in Fault /\ pc \in {"backup", "swap"} /\ todo # {}
  /\ pc' = "undo"
  /\ todo' = IF pc = "swap" THEN kept \cup (Batch \ todo) ELSE kept
  /\ UNCHANGED <<disk, run, ed, copied, added, fetched, kept>>

(* Faulty Undo: every file is taken for one that was not there before. *)
UndoAsNew(i) ==
  /\ ToDo("undo", i)
  /\ Placed(i, FALSE)
  /\ kept' = kept \ {i}

(* What has a .backup is restored from it, anything else removed. *)
Undo(i) ==
  /\ ToDo("undo", i)
  /\ Placed(i, i \in kept)
  /\ kept' = kept \ {i}

(* The undoing is best effort: its errors are ignored. *)
UndoFails(i) ==
  /\ "disk" \in Fault
  /\ ToDo("undo", i)
  /\ UNCHANGED <<metadata, files, kept>>

AllUndone ==
  /\ pc = "undo" /\ todo = {}
  /\ pc' = "failed"
  /\ UNCHANGED <<disk, run, ed, copied, command>>

Commit ==
  \/ \E i \in File : BackUp(i) \/ NothingToBackUp(i) \/ Swap(i) \/ Undo(i) \/ UndoFails(i)
  \/ AllBackedUp \/ CommitFails \/ AllUndone

-----------------------------------------------------------------------------
(* update: once the batch is swapped the .backup files are removed, and    *)
(* the loaded documents edited: bump what is modified, then put the forced *)
(* versions in.  (A .backup that cannot be removed is read by nobody.)     *)
Update(modified, incoming, forced) ==
  LET Bump(v, w) == IF w # None THEN w ELSE v + 1
      Keep(v, w) == IF w # None THEN w ELSE v
      tv == fetched.targets.version
  IN /\ pc = "swap" /\ todo = {}
     /\ IF modified THEN added' \in Addable ELSE added' = NoTargets
     /\ Plan(AddTargets(fetched.targets.targets, incoming),
             IF modified THEN Bump(tv, forced.tv) ELSE Keep(tv, forced.tv),
             Bump(fetched.snapshot.version, forced.sv),
             Bump(fetched.timestamp.version, forced.tsv))
     /\ kept' = {} /\ fetched' = None
     /\ UNCHANGED run

Unforced == [tv |-> None, sv |-> None, tsv |-> None]
Forced == [tv : Given \cup {None}, sv : Given \cup {None}, tsv : Given \cup {None}]

UpdateBump == "bump" \in Use /\ Update(TRUE, NoTargets, Unforced)
UpdateResign == "resign" \in Use /\ Update(FALSE, NoTargets, Unforced)
UpdateIncoming == "incoming" \in Use /\ \E t \in Addable : Update(FALSE, t, Unforced)
UpdateForce ==
  /\ "force" \in Use
  /\ \E f \in Forced : \E m \in BOOLEAN : (f.tv # None => m) /\ Update(m, NoTargets, f)

-----------------------------------------------------------------------------
(* The operator puts the file of an incoming target into targets/. *)
PlaceFile(n, d) ==
  /\ "incoming" \in Use /\ ~Running
  /\ plain' = [plain EXCEPT ![n] = d]
  /\ UNCHANGED <<metadata, files, run, pc, ed, copied, command>>

(* The loop over the scanned targets: AddTarget and CopyTargetToRepo. *)
AddFile(n) ==
  /\ pc = "adding" /\ n \in todo
  /\ CopyIn(n)
  /\ todo' = todo \ {n}
  /\ UNCHANGED <<metadata, plain, run, pc, ed, copied, added, fetched, kept>>

(* Faulty AddFileFails: the error of CopyTargetToRepo is ignored. *)
AddFileGoesOn(n) ==
  /\ pc = "adding" /\ n \in todo
  /\ CopyInTorn(n)
  /\ todo' = todo \ {n}
  /\ UNCHANGED <<metadata, plain, run, pc, ed, copied, added, fetched, kept>>

AddFileFails(n) ==
  /\ pc = "adding" /\ n \in todo
  /\ \/ CopyInTorn(n)
     \/ CopyInRefused(n) /\ UNCHANGED files
  /\ pc' = "failed"
  /\ UNCHANGED <<metadata, plain, run, ed, copied, command>>

AllAdded ==
  /\ pc = "adding" /\ todo = {}
  /\ pc' = "signers"
  /\ UNCHANGED <<disk, run, ed, copied, command>>

Next ==
  \/ \E tv, sv, tsv \in Given : Create(tv, sv, tsv) \/ Transfer(tv, sv, tsv)
  \/ BeginUpdate \/ Commit
  \/ UpdateBump \/ UpdateResign \/ UpdateIncoming \/ UpdateForce
  \/ \E n \in Name : AddFile(n) \/ AddFileFails(n)
  \/ \E n \in Name, d \in Digest : PlaceFile(n, d)
  \/ AllAdded
  \/ SignAndWrite /\ UNCHANGED command
  \/ Crash /\ todo' = {} /\ UNCHANGED <<added, fetched, kept>>

Spec == Init /\ [][Next]_vars

-----------------------------------------------------------------------------
(* What the directory holds when each file that is under none but its      *)
(* .backup name is moved back, as an operator does after a death.          *)
HeldTimestamp ==
  IF timestampMd = None /\ "timestamp" \in kept THEN fetched.timestamp ELSE timestampMd

HeldSnapshots ==
  IF "snapshot" \in kept /\ snapshotMd[fetched.snapshot.version] = None
  THEN [snapshotMd EXCEPT ![fetched.snapshot.version] = fetched.snapshot] ELSE snapshotMd

HeldTargets ==
  IF "targets" \in kept /\ targetsMd[fetched.targets.version] = None
  THEN [targetsMd EXCEPT ![fetched.targets.version] = fetched.targets] ELSE targetsMd

HeldFiles ==
  [k \in Name \X Digest |->
     IF files[k] = None /\ k[1] \in kept /\ fetched.targets.targets[k[1]] = k[2]
     THEN k[2] ELSE files[k]]

Held == INSTANCE Editor WITH timestampMd <- HeldTimestamp, snapshotMd <- HeldSnapshots,
                             targetsMd <- HeldTargets, files <- HeldFiles

(* No step of a run that fails or dies, its commit on the live directory   *)
(* included, breaks the published chain for good: with the .backup files   *)
(* in place of what is missing, timestamp.json leads to a whole chain.     *)
(* What is under its own name meanwhile is never of another chain.         *)
ChainHeld == Held!ChainIntact

(* Likewise the file of every published target is there with its published *)
(* contents, or torn by a write that failed, or in its .backup: never lost *)
(* and never with the contents of another target.                          *)
TargetsHeld ==
  \A n \in Name : \/ Held!Served(n)
                  \/ HeldFiles[<<n, Held!TargetsOf(HeldTimestamp).targets[n]>>] = Torn

(* A run that succeeds leaves a chain a client accepts, whatever versions  *)
(* it was forced to and whatever earlier runs left behind.                 *)
SuccessIsConsistent == pc = "written" => ChainIntact

(* What an update publishes is the published targets and its own: an edit  *)
(* that an earlier, failed run left on disk is not published with it.      *)
FailedEditsStayUnpublished ==
  [][Published /\ Published' /\ timestampMd' # timestampMd =>
       TargetsOf(timestampMd)'.targets =
         AddTargets(TargetsOf(timestampMd).targets, added)]_vars

(* An update publishes a damaged target file only where it was itself to   *)
(* add that target and the skip policy let the leftover of an earlier run  *)
(* stand: damage to what was published before stops it, and so does damage *)
(* done by its own copying.                                                *)
DamageComesBySkipping ==
  [][Published /\ Published' /\ timestampMd' # timestampMd =>
       \A n \in Name : LET d == TargetsOf(timestampMd)'.targets[n]
                       IN d # None /\ files'[<<n, d>>] = Torn =>
                            ed.policy = "skip" /\ added[n] = d]_vars

-----------------------------------------------------------------------------
(* What clients can see of the repository, and what it holds for them. *)
ASSUME ViewAssumption ==
  None \notin [timestamp : Version, snapshot : Version, targets : Version, names : Targets]

LedTo(ts, snapshots, targets) ==
  LET snapshot == snapshots[ts.meta.version]
      md == targets[snapshot.meta.version]
  IN IF ts = None \/ snapshot = None \/ md = None THEN None
     ELSE [timestamp |-> ts.version, snapshot |-> snapshot.version,
           targets |-> md.version, names |-> md.targets]

View == LedTo(timestampMd, snapshotMd, targetsMd)
Last == LedTo(HeldTimestamp, HeldSnapshots, HeldTargets)

(* The file by file publication implements the atomic one of Publication,  *)
(* and the commit on the live directory takes a publication away, or back, *)
(* as a whole.                                                             *)
Abstract == INSTANCE Publication WITH view <- View, last <- Last
RefinesPublication == Abstract!Spec

-----------------------------------------------------------------------------
(* "TestRun_TargetPathExistsFailLeavesRepositoryUnchanged": a run with the *)
(* fail policy that fails has written no metadata.                         *)
WroteMetadata ==
  \/ \E v \in Version : targetsMd[v] # None /\ targetsMd[v].by = run
  \/ \E v \in Version : snapshotMd[v] # None /\ snapshotMd[v].by = run
  \/ Published /\ timestampMd.by = run

FailPolicyLeavesUnchanged == pc = "failed" /\ ed.policy = "fail" => ~WroteMetadata
=============================================================================
