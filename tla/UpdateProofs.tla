---------------------------- MODULE UpdateProofs ----------------------------
(***************************************************************************)
(* Proofs about create, transfer-metadata and update: the types, and what  *)
(* the repository holds while the commit of each update takes its files    *)
(* away and puts them back, as long as every update bumps the targets.     *)
(***************************************************************************)
EXTENDS Update, EditorProofs

(* Each command is used the way that gives every file it writes a version  *)
(* of its own: create or transfer-metadata in a directory that publishes   *)
(* nothing yet, and updates that modify the targets.  A file that is there *)
(* is found there.                                                         *)
Bumping == Use \subseteq {"create", "transfer", "bump"} /\ "stat" \notin Fault

Committing == pc \in {"backup", "swap", "undo"}

(* While it commits, a run has in memory the chain that it fetched.        *)
TypeInv == TypeOK /\ DiskInv /\ (Committing => fetched \in Chain /\ run >= 1)

(* The types of what a chain is made of. *)
LEMMA ChainType ==
  ASSUME NEW c \in Chain
  PROVE  /\ c.timestamp \in LinkDoc /\ c.snapshot \in LinkDoc /\ c.targets \in TargetsDoc
         /\ c.timestamp # None /\ c.snapshot # None /\ c.targets # None
         /\ c.timestamp.version \in Version
         /\ c.snapshot.version \in Version /\ c.snapshot.meta.version \in Version
         /\ c.targets.version \in Version /\ c.targets.targets \in Targets
  BY NoneAssumption DEF Chain, LinkDoc, TargetsDoc, Ref

(* AddTarget over a whole directory yields targets again.                  *)
LEMMA AddTargetsType ==
  ASSUME NEW t \in Targets, NEW a \in Targets PROVE AddTargets(t, a) \in Targets
  BY DEF AddTargets, Targets

(* A run that comes to its loop over the targets keeps the types. *)
LEMMA PlanType ==
  ASSUME TypeInv, NEW t \in Targets, NEW tv, NEW sv, NEW tsv,
         added' \in Targets, Plan(t, tv, sv, tsv), run' \in 1 .. MaxRun,
         fetched' \in Chain \cup {None}, kept' \subseteq File
  PROVE  TypeInv'
<1> USE DEF TypeInv, TypeOK
<1>1. PICK p \in Policies :
        ed' = [targets |-> AddTargets(t, added'), tv |-> tv, sv |-> sv,
               tsv |-> tsv, policy |-> p, reuse |-> FALSE]
  BY DEF Plan
<1>2. ed' \in EditorRecord
  BY <1>1, AddTargetsType, UpdateAssumption DEF Plan, EditorRecord
<1>3. TypeOK'
  BY <1>2 DEF Plan, disk, File
<1>4. DiskInv'
  BY <1>2 DEF Plan, disk, DiskInv, DiskType, Indexed, Flow, Planned
<1> QED
  BY <1>3, <1>4 DEF Plan, Committing

(* The number of a run that begins. *)
LEMMA BeginRunType == ASSUME TypeInv, BeginRun PROVE run' \in 1 .. MaxRun
  BY EditorAssumption DEF TypeInv, TypeOK, BeginRun

(* What an update fetches is a whole chain of documents.                   *)
LEMMA FetchedType ==
  ASSUME TypeInv, FetchAccepted
  PROVE  /\ Fetched \in Chain
         /\ Fetched.timestamp = timestampMd
         /\ Fetched.snapshot = SnapshotOf(timestampMd)
         /\ Fetched.targets = TargetsOf(timestampMd)
         /\ SnapshotOf(timestampMd).version = timestampMd.meta.version
         /\ TargetsOf(timestampMd).version = SnapshotOf(timestampMd).meta.version
<1> USE DEF TypeInv, TypeOK, FetchAccepted, Published, ChainIntact
<1>1. timestampMd \in LinkDoc
  OBVIOUS
<1>2. timestampMd.meta.version \in Version
  BY <1>1 DEF LinkDoc, Ref
<1>3. SnapshotOf(timestampMd) \in LinkDoc
  BY <1>2 DEF SnapshotOf
<1>4. SnapshotOf(timestampMd).meta.version \in Version
  BY <1>3 DEF LinkDoc, Ref
<1>5. TargetsOf(timestampMd) \in TargetsDoc
  BY <1>4 DEF TargetsOf
<1>6. Fetched \in Chain
  BY <1>1, <1>3, <1>5 DEF Fetched, Chain
<1> QED
  BY <1>2, <1>4, <1>6 DEF Fetched, TargetsOf, SnapshotOf, DiskInv, Indexed

(* Putting a file of the chain under its name, or taking it away from      *)
(* there, keeps the types.                                                 *)
LEMMA PlacedType ==
  ASSUME TypeInv, Committing, NEW i \in File, NEW here \in BOOLEAN, Placed(i, here)
  PROVE  /\ targetsMd' \in [Version -> TargetsDoc \cup {None}]
         /\ snapshotMd' \in [Version -> LinkDoc \cup {None}]
         /\ timestampMd' \in LinkDoc \cup {None}
         /\ files' \in [Name \X Digest -> Digest \cup {None, Torn}]
         /\ Indexed'
<1> DEFINE c == fetched
<1>1. /\ c.timestamp \in LinkDoc /\ c.snapshot \in LinkDoc /\ c.targets \in TargetsDoc
      /\ c.snapshot.version \in Version /\ c.targets.version \in Version
      /\ c.targets.targets \in Targets
  BY ChainType DEF TypeInv
<1> USE DEF TypeInv, TypeOK, Placed
<1>2. timestampMd' \in LinkDoc \cup {None}
  BY <1>1
<1>3. snapshotMd' \in [Version -> LinkDoc \cup {None}]
  BY <1>1
<1>4. targetsMd' \in [Version -> TargetsDoc \cup {None}]
  BY <1>1
<1>5. files' \in [Name \X Digest -> Digest \cup {None, Torn}]
  <2>1. i \in Name => c.targets.targets[i] \in Digest \cup {None}
    BY <1>1 DEF Targets
  <2> QED
    BY <2>1
<1>6. Indexed'
  BY <1>1 DEF DiskInv, Indexed
<1> QED
  BY <1>2, <1>3, <1>4, <1>5, <1>6

(* Each step of the commit keeps the types. *)
LEMMA CommitType == ASSUME TypeInv, Commit PROVE TypeInv'
<1> USE DEF TypeInv, Committing
<1>1. ASSUME NEW i \in File, NEW here \in BOOLEAN, NEW p \in {"backup", "swap", "undo"},
             ToDo(p, i), Placed(i, here), kept' \subseteq File
      PROVE  TypeInv'
  <2>1. /\ targetsMd' \in [Version -> TargetsDoc \cup {None}]
        /\ snapshotMd' \in [Version -> LinkDoc \cup {None}]
        /\ timestampMd' \in LinkDoc \cup {None}
        /\ files' \in [Name \X Digest -> Digest \cup {None, Torn}]
        /\ Indexed'
    BY <1>1, PlacedType DEF ToDo
  <2>2. TypeOK'
    BY <1>1, <2>1 DEF ToDo, TypeOK
  <2>3. DiskInv'
    BY <1>1, <2>1 DEF ToDo, TypeOK, DiskInv, DiskType, Flow, Planned
  <2> QED
    BY <1>1, <2>2, <2>3 DEF ToDo
<1>2. ASSUME UNCHANGED <<disk, run, ed, copied, added, fetched>>, kept' \subseteq File,
             todo' \subseteq File, Committing, pc' \in {"backup", "swap", "undo", "failed"}
      PROVE  TypeInv'
  BY <1>2 DEF disk, TypeOK, DiskInv, DiskType, Indexed, Flow, Planned
<1>3. ASSUME NEW i \in File, BackUp(i) \/ Swap(i) \/ Undo(i) PROVE TypeInv'
  <2>1. CASE BackUp(i)
    BY <1>1, <2>1 DEF BackUp, TypeOK
  <2>2. CASE Swap(i)
    BY <1>1, <2>2 DEF Swap, TypeOK
  <2>3. CASE Undo(i)
    <3>1. Placed(i, TRUE) \/ Placed(i, FALSE)
      BY <2>3 DEF Undo, Placed
    <3> QED
      BY <1>1, <2>3, <3>1 DEF Undo, TypeOK
  <2> QED
    BY <1>3, <2>1, <2>2, <2>3
<1>4. ASSUME NEW i \in File, NothingToBackUp(i) \/ UndoFails(i) PROVE TypeInv'
  BY <1>2, <1>4 DEF NothingToBackUp, UndoFails, ToDo, disk, metadata, TypeOK
<1>5. Committing => Batch \subseteq File
  BY DEF Batch, File
<1>6. CASE AllBackedUp \/ CommitFails \/ AllUndone
  BY <1>2, <1>5, <1>6 DEF AllBackedUp, CommitFails, AllUndone, TypeOK, command
<1> QED
  BY <1>3, <1>4, <1>6 DEF Commit

(* The invariant holds in an empty directory.                              *)
LEMMA InitType == Init => TypeInv
<1> SUFFICES ASSUME Init PROVE TypeInv
  OBVIOUS
<1>1. NoTargets \in Targets
  BY DEF NoTargets, Targets
<1>2. 1 \in Version
  BY EditorAssumption DEF Version
<1>3. 0 \in 0 .. MaxRun
  BY EditorAssumption
<1>4. ed \in EditorRecord
  BY <1>1, <1>2 DEF Init, NoEdits, EditorRecord, Policy
<1>5. TypeOK
  BY <1>1, <1>3, <1>4 DEF Init, TypeOK
<1>6. DiskInv
  BY <1>3, <1>4 DEF Init, DiskInv, DiskType, Indexed, Flow, Planned
<1> QED
  BY <1>5, <1>6 DEF Init, TypeInv, Committing

(* An update that has swapped its files comes to its loop over the targets *)
(* with the types kept.                                                    *)
LEMMA UpdateType ==
  ASSUME TypeInv, NEW m \in BOOLEAN, NEW t \in Targets, NEW f, Update(m, t, f)
  PROVE  TypeInv'
<1>1. fetched \in Chain /\ run >= 1
  BY DEF Update, TypeInv, Committing
<1>2. AddTargets(fetched.targets.targets, t) \in Targets
  BY <1>1, ChainType, AddTargetsType
<1>3. added' \in Targets
  BY UpdateAssumption DEF Update, NoTargets, Targets
<1>4. run' \in 1 .. MaxRun
  BY <1>1, EditorAssumption DEF Update, TypeInv, TypeOK
<1> QED
  BY <1>2, <1>3, <1>4, PlanType DEF Update

(* Every step keeps the types and the naming of the files. *)
LEMMA TypeStep == ASSUME TypeInv, [Next]_vars PROVE TypeInv'
<1>1. ASSUME NEW tv \in Given, NEW sv \in Given, NEW tsv \in Given, Create(tv, sv, tsv)
      PROVE  TypeInv'
  <2>1. added' \in Targets
    BY <1>1, UpdateAssumption DEF Create
  <2>2. fetched' \in Chain \cup {None} /\ kept' \subseteq File
    BY <1>1 DEF Create, TypeInv, TypeOK
  <2> QED
    BY <1>1, <2>1, <2>2, LoadedType, BeginRunType, PlanType DEF Create, TypeInv, DiskInv
<1>2. ASSUME NEW tv \in Given, NEW sv \in Given, NEW tsv \in Given, Transfer(tv, sv, tsv)
      PROVE  TypeInv'
  <2>1. added' \in Targets
    BY <1>2 DEF Transfer, NoTargets, Targets
  <2>2. fetched' \in Chain \cup {None} /\ kept' \subseteq File /\ run' \in 1 .. MaxRun
    BY <1>2, BeginRunType DEF Transfer, TypeInv, TypeOK
  <2>3. PICK old \in Addable : Plan(old, tv, sv, tsv)
    BY <1>2 DEF Transfer
  <2>4. old \in Targets
    BY <2>3, UpdateAssumption
  <2> QED
    BY <2>1, <2>2, <2>3, <2>4, PlanType
<1>3. CASE BeginUpdate
  <2>1. fetched' \in Chain /\ run' \in 1 .. MaxRun
    BY <1>3, FetchedType, BeginRunType DEF BeginUpdate
  <2>2. NoTargets \in Targets
    BY DEF NoTargets, Targets
  <2>3. ed' \in EditorRecord
    BY <1>3, <2>2, EditorAssumption DEF BeginUpdate, NoEdits, EditorRecord, Version, Policy
  <2>4. Batch' \subseteq File
    BY DEF Batch, File
  <2>5. TypeOK'
    BY <1>3, <2>1, <2>2, <2>3, <2>4 DEF BeginUpdate, TypeInv, TypeOK, disk
  <2>6. DiskInv'
    BY <1>3, <2>1, <2>3 DEF BeginUpdate, TypeInv, DiskInv, DiskType, Indexed, Flow, Planned, disk
  <2> QED
    BY <2>1, <2>5, <2>6 DEF TypeInv
<1>4. CASE UpdateBump \/ UpdateResign \/ UpdateIncoming \/ UpdateForce
  <2>1. NoTargets \in Targets
    BY DEF NoTargets, Targets
  <2>2. \A t \in Addable : t \in Targets
    BY UpdateAssumption
  <2> QED
    BY <1>4, <2>1, <2>2, UpdateType DEF UpdateBump, UpdateResign, UpdateIncoming, UpdateForce
<1>5. ASSUME NEW n \in Name, AddFile(n) \/ AddFileFails(n) PROVE TypeInv'
  <2>1. ed.targets[n] # None => ed.targets[n] \in Digest
    BY DEF TypeInv, TypeOK, EditorRecord, Targets
  <2>2. files' \in [Name \X Digest -> Digest \cup {None, Torn}]
    BY <1>5, <2>1 DEF TypeInv, TypeOK, AddFile, AddFileFails, CopyIn, CopyInTorn
  <2> QED
    BY <1>5, <2>2 DEF AddFile, AddFileFails, TypeInv, TypeOK, DiskInv, DiskType, Indexed,
                      Flow, Planned, Committing, metadata, command
<1>6. ASSUME NEW n \in Name, NEW d \in Digest, PlaceFile(n, d) PROVE TypeInv'
  BY <1>6 DEF PlaceFile, TypeInv, TypeOK, DiskInv, DiskType, Indexed, Flow, Planned,
              Committing, metadata, command, Targets
<1>7. CASE AllAdded
  BY <1>7 DEF AllAdded, TypeInv, TypeOK, DiskInv, DiskType, Indexed, Flow, Planned,
              Committing, disk, metadata, command
<1>8. CASE SignAndWrite /\ UNCHANGED command
  <2>1. DiskInv'
    BY <1>8, SignAndWriteDisk DEF TypeInv
  <2>2. /\ pc' \in {"signers", "targets", "snapshot", "timestamp", "copy", "written", "failed"}
        /\ copied' \subseteq Name
        /\ UNCHANGED <<ed, run>>
    BY <1>8 DEF SignAndWrite, StepFails, LoadSigners, WriteTargets, KeepTargets,
                WriteSnapshot, WriteTimestamp, AllCopied, SkipTarget, CopyTarget,
                CopyTargetTorn, TargetRefused, TypeInv, TypeOK, Prefixed
  <2>3. files' \in [Name \X Digest -> Digest \cup {None, Torn}] /\ plain' \in Targets
    BY <1>8 DEF SignAndWrite, StepFails, LoadSigners, WriteTargets, KeepTargets,
                WriteSnapshot, WriteTimestamp, AllCopied, SkipTarget, CopyTarget,
                CopyTargetTorn, TargetRefused, TypeInv, TypeOK, disk, Targets
  <2> QED
    BY <1>8, <2>1, <2>2, <2>3 DEF TypeInv, TypeOK, DiskInv, DiskType, Committing, command
<1>9. CASE Crash /\ todo' = {} /\ UNCHANGED <<added, fetched, kept>>
  BY <1>9 DEF Crash, TypeInv, TypeOK, DiskInv, DiskType, Indexed, Flow, Planned,
              Committing, disk, metadata
<1>10. CASE UNCHANGED vars
  BY <1>10 DEF vars, TypeInv, TypeOK, DiskInv, DiskType, Indexed, Flow, Planned,
               Committing, disk, metadata, command
<1> QED
  BY <1>1, <1>2, <1>3, <1>4, <1>5, <1>6, <1>7, <1>8, <1>9, <1>10, CommitType DEF Next

(* TypeOK holds for every use of the commands.                             *)
THEOREM TypeCorrect == Spec => []TypeOK
<1>1. Init => TypeInv
  BY InitType
<1>2. TypeInv /\ [Next]_vars => TypeInv'
  BY TypeStep
<1>3. TypeInv => TypeOK
  BY DEF TypeInv
<1> QED
  BY <1>1, <1>2, <1>3, PTL DEF Spec

-----------------------------------------------------------------------------
(* Once timestamp.json is written, whatever versions the run was forced    *)
(* to, the three files form a chain, and no later step of the run touches  *)
(* them.                                                                   *)
SuccessInv == TypeInv /\ (pc \in {"copy", "written"} => ChainIntact)

(* Once timestamp.json is written the chain is intact, whatever was        *)
(* forced: each file refers to the one that was written just before.       *)
LEMMA SuccessStep == ASSUME SuccessInv, [Next]_vars PROVE SuccessInv'
<1>0. TypeInv'
  BY TypeStep DEF SuccessInv
<1>1. CASE WriteTimestamp
  <2> USE DEF SuccessInv, TypeInv, DiskInv
  <2>1. ed.sv \in Version /\ ed.tv \in Version
    BY DEF DiskType, EditorRecord
  <2>2. /\ snapshotMd[ed.sv] # None /\ snapshotMd[ed.sv].version = ed.sv
        /\ targetsMd[ed.tv] # None /\ targetsMd[ed.tv].version = ed.tv
        /\ snapshotMd[ed.sv].meta = RefTo(targetsMd[ed.tv])
    BY <1>1, <2>1 DEF WriteTimestamp, Flow, Indexed
  <2>3. /\ timestampMd'.meta = RefTo(snapshotMd[ed.sv])
        /\ UNCHANGED <<targetsMd, snapshotMd, ed>>
    BY <1>1 DEF WriteTimestamp
  <2>4. timestampMd'.meta.version = ed.sv /\ snapshotMd[ed.sv].meta.version = ed.tv
    BY <2>2, <2>3 DEF RefTo
  <2>5. ChainIntact'
    BY <2>2, <2>3, <2>4 DEF ChainIntact, SnapshotOf, TargetsOf
  <2> QED
    BY <1>0, <2>5
<1>2. ASSUME UNCHANGED metadata, pc' \in {"copy", "written"} => pc \in {"copy", "written"}
      PROVE  SuccessInv'
  BY <1>0, <1>2 DEF SuccessInv, ChainIntact, Published, SnapshotOf, TargetsOf, metadata
<1>3. ASSUME pc' \notin {"copy", "written"} PROVE SuccessInv'
  BY <1>0, <1>3 DEF SuccessInv
<1>4. CASE SignAndWrite /\ UNCHANGED command
  <2>1. CASE StepFails \/ LoadSigners \/ WriteTargets \/ KeepTargets \/ WriteSnapshot
    BY <1>3, <2>1 DEF StepFails, LoadSigners, WriteTargets, KeepTargets, WriteSnapshot
  <2>2. CASE AllCopied \/ \E n \in Name : SkipTarget(n) \/ CopyTarget(n) \/ CopyTargetTorn(n)
                                            \/ TargetRefused(n)
    BY <1>2, <2>2 DEF AllCopied, SkipTarget, CopyTarget, CopyTargetTorn, TargetRefused,
                      disk, metadata
  <2> QED
    BY <1>1, <1>4, <2>1, <2>2 DEF SignAndWrite
<1>5. CASE \/ \E tv, sv, tsv \in Given : Create(tv, sv, tsv) \/ Transfer(tv, sv, tsv)
           \/ UpdateBump \/ UpdateResign \/ UpdateIncoming \/ UpdateForce
  BY <1>3, <1>5 DEF Create, Transfer, UpdateBump, UpdateResign, UpdateIncoming, UpdateForce,
                    Update, Plan
<1>6. CASE \E n \in Name : AddFile(n) \/ AddFileFails(n)
  BY <1>3, <1>6 DEF AddFile, AddFileFails
<1>7. CASE \E n \in Name, d \in Digest : PlaceFile(n, d)
  BY <1>2, <1>7 DEF PlaceFile
<1>8. CASE AllAdded \/ Crash
  BY <1>3, <1>8 DEF AllAdded, Crash
<1>10. CASE BeginUpdate \/ Commit
  BY <1>3, <1>10 DEF BeginUpdate, Commit, BackUp, NothingToBackUp, Swap, Undo, UndoFails, ToDo,
                     AllBackedUp, CommitFails, AllUndone
<1>9. CASE UNCHANGED vars
  BY <1>2, <1>9 DEF vars, disk, metadata
<1> QED
  BY <1>4, <1>5, <1>6, <1>7, <1>8, <1>9, <1>10 DEF Next

(* A run that succeeds leaves a chain a client accepts: for every use of   *)
(* the commands, forced versions and signing again included.               *)
THEOREM UpdateSuccessIsConsistent == Spec => []SuccessIsConsistent
<1>1. Init => SuccessInv
  BY InitType DEF Init, SuccessInv
<1>2. SuccessInv /\ [Next]_vars => SuccessInv'
  BY SuccessStep
<1>3. SuccessInv => SuccessIsConsistent
  BY DEF SuccessInv, SuccessIsConsistent
<1> QED
  BY <1>1, <1>2, <1>3, PTL DEF Spec

-----------------------------------------------------------------------------
(* The file i is under its name, with the bytes that were fetched. *)
InPlace(i) ==
  /\ i = "timestamp" => timestampMd = fetched.timestamp
  /\ i = "snapshot" => snapshotMd[fetched.snapshot.version] = fetched.snapshot
  /\ i = "targets" => targetsMd[fetched.targets.version] = fetched.targets
  /\ i \in Name => files[<<i, fetched.targets.targets[i]>>] = fetched.targets.targets[i]

(* From the fetch of an update to its tidying up, and for good when it is  *)
(* stopped between: every file of the published chain is under its name or *)
(* in its .backup, and in none but these two.                              *)
Kept ==
  Committing \/ kept # {} =>
    /\ run >= 1 /\ fetched \in Chain
    /\ fetched.timestamp.meta = RefTo(fetched.snapshot)
    /\ fetched.snapshot.meta = RefTo(fetched.targets)
    /\ kept \subseteq Batch
    /\ \A i \in Batch : InPlace(i) \/ (~There(i) /\ i \in kept)

(* What is to do in each phase of the commit.  A swap begins when all is   *)
(* backed up, so that an undo finds every file that it is to restore.      *)
Phases ==
  /\ kept # {} => Committing \/ pc \in {"idle", "failed"}
  /\ pc = "backup" => todo \subseteq Batch /\ todo \cap kept = {} /\ Batch \subseteq todo \cup kept
  /\ pc = "swap" => todo \subseteq Batch /\ Batch \subseteq kept /\ \A i \in Batch \ todo : InPlace(i)
  /\ pc = "undo" => todo \subseteq kept

CommitInv == plain = NoTargets /\ Kept /\ Phases

(* Placing one file of the chain leaves the others where they are.         *)
LEMMA PlacedAt ==
  ASSUME TypeInv, Committing, NEW i \in Batch, NEW here \in BOOLEAN, Placed(i, here),
         UNCHANGED fetched
  PROVE  /\ here => InPlace(i)'
         /\ ~here => ~There(i)'
         /\ \A j \in Batch \ {i} : (InPlace(j)' <=> InPlace(j)) /\ (There(j)' <=> There(j))
<1> DEFINE c == fetched
<1>1. /\ c.timestamp # None /\ c.snapshot # None /\ c.targets # None
      /\ c.snapshot.version \in Version /\ c.targets.version \in Version
      /\ c.targets.targets \in Targets
  BY ChainType DEF TypeInv
<1>2. \A n \in Batch \cap Name : c.targets.targets[n] \in Digest
  BY <1>1, FileAssumption DEF Batch, Targets
<1>3. \A j \in Batch : j \in Name \/ j \in Link
  BY DEF Batch
<1>4. Name \cap Link = {} /\ Link = {"timestamp", "snapshot", "targets"}
  BY FileAssumption DEF Link
<1> USE DEF TypeInv, TypeOK, Placed
<1>5. (here => InPlace(i)') /\ (~here => ~There(i)')
  BY <1>1, <1>2, <1>3, <1>4 DEF InPlace, There
<1>6. ASSUME NEW j \in Batch, j # i
      PROVE  (InPlace(j)' <=> InPlace(j)) /\ (There(j)' <=> There(j))
  BY <1>1, <1>2, <1>3, <1>4, <1>6 DEF InPlace, There
<1> QED
  BY <1>5, <1>6

(* What is in place is there.                                              *)
LEMMA InPlaceThere ==
  ASSUME TypeInv, fetched \in Chain, NEW i \in Batch, InPlace(i) PROVE There(i)
<1>1. /\ fetched.timestamp # None /\ fetched.snapshot # None /\ fetched.targets # None
  BY ChainType
<1>2. i \in Name => fetched.targets.targets[i] # None
  BY FileAssumption DEF Batch
<1> QED
  BY <1>1, <1>2 DEF InPlace, There, Batch, Link

(* The commit loses no file: what it takes from its name is in .backup.    *)
LEMMA CommitKeeps == ASSUME Bumping, TypeInv, CommitInv, Commit PROVE CommitInv'
<1> USE DEF Bumping, CommitInv, Kept, Phases, Committing
<1>0. Committing /\ fetched \in Chain
  BY DEF Commit, BackUp, NothingToBackUp, Swap, Undo, UndoFails, ToDo, AllBackedUp, CommitFails,
         AllUndone
<1>1. ASSUME UNCHANGED <<timestampMd, snapshotMd, targetsMd, files, fetched>>
      PROVE  /\ Batch' = Batch
             /\ \A i \in Batch : (InPlace(i)' <=> InPlace(i)) /\ (There(i)' <=> There(i))
  BY <1>1 DEF Batch, InPlace, There
<1>2. ASSUME NEW i \in File, BackUp(i) PROVE CommitInv'
  <2>1. pc = "backup" /\ i \in Batch /\ Placed(i, FALSE) /\ UNCHANGED <<fetched, pc, run, plain>>
    BY <1>2 DEF BackUp, ToDo
  <2>2. Batch' = Batch /\ kept' = kept \cup {i} /\ todo' = todo \ {i}
    BY <1>2, <2>1 DEF Batch, BackUp, ToDo
  <2>3. ~There(i)' /\ \A j \in Batch \ {i} : (InPlace(j)' <=> InPlace(j)) /\ (There(j)' <=> There(j))
    BY <1>0, <2>1, PlacedAt
  <2> QED
    BY <1>0, <2>1, <2>2, <2>3
<1>3. ASSUME NEW i \in File, NothingToBackUp(i) PROVE FALSE
  <2>1. i \in Batch /\ i \notin kept /\ ~There(i)
    BY <1>3 DEF NothingToBackUp, ToDo
  <2> QED
    BY <1>0, <2>1, InPlaceThere
<1>4. ASSUME NEW i \in File, Swap(i) PROVE CommitInv'
  <2>1. pc = "swap" /\ i \in Batch /\ Placed(i, TRUE) /\ UNCHANGED <<fetched, pc, run, plain, kept>>
    BY <1>4 DEF Swap, ToDo
  <2>2. Batch' = Batch /\ todo' = todo \ {i}
    BY <1>4, <2>1 DEF Batch, Swap, ToDo
  <2>3. InPlace(i)' /\ \A j \in Batch \ {i} : (InPlace(j)' <=> InPlace(j)) /\ (There(j)' <=> There(j))
    BY <1>0, <2>1, PlacedAt
  <2> QED
    BY <1>0, <2>1, <2>2, <2>3
<1>5. ASSUME NEW i \in File, Undo(i) PROVE CommitInv'
  <2>1. pc = "undo" /\ i \in Batch /\ Placed(i, TRUE) /\ UNCHANGED <<fetched, pc, run, plain>>
    BY <1>0, <1>5 DEF Undo, ToDo, Placed
  <2>2. Batch' = Batch /\ kept' = kept \ {i} /\ todo' = todo \ {i}
    BY <1>5, <2>1 DEF Batch, Undo, ToDo
  <2>3. InPlace(i)' /\ \A j \in Batch \ {i} : (InPlace(j)' <=> InPlace(j)) /\ (There(j)' <=> There(j))
    BY <1>0, <2>1, PlacedAt
  <2> QED
    BY <1>0, <2>1, <2>2, <2>3
<1>6. ASSUME NEW i \in File, UndoFails(i) PROVE CommitInv'
  BY <1>0, <1>1, <1>6 DEF UndoFails, ToDo, metadata
<1>7. CASE AllBackedUp
  BY <1>0, <1>1, <1>7 DEF AllBackedUp, disk
<1>8. CASE CommitFails
  BY <1>0, <1>1, <1>8 DEF CommitFails, disk
<1>9. CASE AllUndone
  BY <1>0, <1>1, <1>9 DEF AllUndone, disk, command
<1> QED
  BY <1>2, <1>3, <1>4, <1>5, <1>6, <1>7, <1>8, <1>9 DEF Commit

-----------------------------------------------------------------------------
HeldSame == UNCHANGED <<HeldTimestamp, HeldSnapshots, HeldTargets, HeldFiles>>

(* Where every file that has a .backup is under its name as well, what is  *)
(* held is what is on disk.                                                *)
LEMMA HeldIsDisk ==
  ASSUME TypeInv, Kept, \A i \in kept : InPlace(i)
  PROVE  /\ HeldTimestamp = timestampMd /\ HeldSnapshots = snapshotMd
         /\ HeldTargets = targetsMd /\ HeldFiles = files
<1>1. CASE kept = {}
  BY <1>1 DEF HeldTimestamp, HeldSnapshots, HeldTargets, HeldFiles, TypeInv, TypeOK
<1>2. CASE kept # {}
  <2>1. fetched \in Chain /\ \A i \in kept : There(i)
    BY <1>2, InPlaceThere DEF Kept
  <2>2. HeldTimestamp = timestampMd /\ HeldSnapshots = snapshotMd /\ HeldTargets = targetsMd
    BY <2>1, FileAssumption DEF HeldTimestamp, HeldSnapshots, HeldTargets, There, Link
  <2>3. HeldFiles = files
    <3>1. \A k \in Name \X Digest :
            k[1] \in kept /\ fetched.targets.targets[k[1]] = k[2] => files[k] # None
      BY <2>1, FileAssumption DEF There, Link
    <3> QED
      BY <3>1 DEF HeldFiles, TypeInv, TypeOK
  <2> QED
    BY <2>2, <2>3
<1> QED
  BY <1>1, <1>2

(* The commit changes nothing of what is held. *)
LEMMA CommitHolds ==
  ASSUME Bumping, TypeInv, TypeInv', CommitInv, CommitInv', Commit
  PROVE  HeldSame
<1>1. ASSUME UNCHANGED <<timestampMd, snapshotMd, targetsMd, files, fetched, kept>> PROVE HeldSame
  BY <1>1 DEF HeldSame, HeldTimestamp, HeldSnapshots, HeldTargets, HeldFiles
<1>2. ASSUME NEW i \in File, BackUp(i) \/ Swap(i) \/ Undo(i) PROVE HeldSame
  <2>1. Committing /\ Committing' /\ UNCHANGED fetched
    BY <1>2 DEF BackUp, Swap, Undo, ToDo, Committing
  <2>2. PICK here \in BOOLEAN : Placed(i, here)
    BY <1>2 DEF BackUp, Swap, Undo, Placed
  <2>3. PICK c \in Chain : c = fetched /\ c = fetched'
    BY <2>1 DEF TypeInv
  <2>4. /\ c.timestamp # None /\ c.snapshot # None /\ c.targets # None
        /\ c.snapshot.version \in Version /\ c.targets.version \in Version
        /\ c.targets.targets \in Targets
    BY ChainType
  <2> DEFINE B == Link \cup {n \in Name : c.targets.targets[n] # None}
  <2>5. /\ \A j \in B : InPlace(j) \/ (~There(j) /\ j \in kept)
        /\ \A j \in B : InPlace(j)' \/ (~There(j)' /\ j \in kept')
        /\ kept \subseteq B /\ kept' \subseteq B
    BY <2>1, <2>3 DEF CommitInv, Kept, Batch
  <2>6. HeldTimestamp = c.timestamp /\ HeldTimestamp' = c.timestamp
    BY <2>3, <2>4, <2>5, FileAssumption DEF HeldTimestamp, InPlace, There, Link
  <2>7. /\ HeldSnapshots = [snapshotMd EXCEPT ![c.snapshot.version] = c.snapshot]
        /\ HeldSnapshots' = [snapshotMd' EXCEPT ![c.snapshot.version] = c.snapshot]
    <3> DEFINE v == c.snapshot.version
    <3>1. snapshotMd[v] = c.snapshot \/ (snapshotMd[v] = None /\ "snapshot" \in kept)
      BY <2>3, <2>5 DEF InPlace, There, Link
    <3>2. snapshotMd'[v] = c.snapshot \/ (snapshotMd'[v] = None /\ "snapshot" \in kept')
      BY <2>3, <2>5 DEF InPlace, There, Link
    <3>3. DOMAIN snapshotMd = Version /\ DOMAIN snapshotMd' = Version
          /\ snapshotMd = [w \in Version |-> snapshotMd[w]]
          /\ snapshotMd' = [w \in Version |-> snapshotMd'[w]]
      BY DEF TypeInv, TypeOK
    <3>4. HeldSnapshots = [snapshotMd EXCEPT ![v] = c.snapshot]
      BY <2>3, <2>4, <3>1, <3>3 DEF HeldSnapshots
    <3>5. HeldSnapshots' = [snapshotMd' EXCEPT ![v] = c.snapshot]
      BY <2>3, <2>4, <3>2, <3>3 DEF HeldSnapshots
    <3> QED
      BY <3>4, <3>5
  <2>8. /\ HeldTargets = [targetsMd EXCEPT ![c.targets.version] = c.targets]
        /\ HeldTargets' = [targetsMd' EXCEPT ![c.targets.version] = c.targets]
    <3> DEFINE v == c.targets.version
    <3>1. targetsMd[v] = c.targets \/ (targetsMd[v] = None /\ "targets" \in kept)
      BY <2>3, <2>5 DEF InPlace, There, Link
    <3>2. targetsMd'[v] = c.targets \/ (targetsMd'[v] = None /\ "targets" \in kept')
      BY <2>3, <2>5 DEF InPlace, There, Link
    <3>3. DOMAIN targetsMd = Version /\ DOMAIN targetsMd' = Version
          /\ targetsMd = [w \in Version |-> targetsMd[w]]
          /\ targetsMd' = [w \in Version |-> targetsMd'[w]]
      BY DEF TypeInv, TypeOK
    <3>4. HeldTargets = [targetsMd EXCEPT ![v] = c.targets]
      BY <2>3, <2>4, <3>1, <3>3 DEF HeldTargets
    <3>5. HeldTargets' = [targetsMd' EXCEPT ![v] = c.targets]
      BY <2>3, <2>4, <3>2, <3>3 DEF HeldTargets
    <3> QED
      BY <3>4, <3>5
  <2>9. \A v \in Version :
          /\ v # c.snapshot.version => snapshotMd'[v] = snapshotMd[v]
          /\ v # c.targets.version => targetsMd'[v] = targetsMd[v]
    BY <2>2, <2>3 DEF Placed, TypeInv, TypeOK
  <2>10. HeldSnapshots' = HeldSnapshots /\ HeldTargets' = HeldTargets
    BY <2>4, <2>7, <2>8, <2>9 DEF TypeInv, TypeOK
  <2>11. HeldFiles' = HeldFiles
    <3>1. ASSUME NEW n \in Name, NEW d \in Digest, n \in B, d = c.targets.targets[n]
          PROVE  /\ (IF files[<<n, d>>] = None /\ n \in kept THEN d ELSE files[<<n, d>>]) = d
                 /\ (IF files'[<<n, d>>] = None /\ n \in kept' THEN d ELSE files'[<<n, d>>]) = d
      BY <2>3, <2>5, <3>1, FileAssumption, EditorAssumption DEF InPlace, There, Link
    <3>2. ASSUME NEW n \in Name, NEW d \in Digest, ~(n \in B /\ d = c.targets.targets[n])
          PROVE  files'[<<n, d>>] = files[<<n, d>>] /\ ~(n \in kept /\ d = c.targets.targets[n])
                 /\ ~(n \in kept' /\ d = c.targets.targets[n])
      BY <2>2, <2>3, <2>4, <2>5, <3>2, EditorAssumption DEF Placed, TypeInv, TypeOK, Targets
    <3> HIDE DEF B
    <3> QED
      BY <2>3, <2>5, <3>1, <3>2 DEF HeldFiles
  <2> QED
    BY <2>6, <2>10, <2>11 DEF HeldSame
<1> QED
  BY <1>1, <1>2 DEF Commit, NothingToBackUp, UndoFails, ToDo, AllBackedUp, CommitFails, AllUndone,
                    disk, metadata, command

-----------------------------------------------------------------------------
(* A chain that an update accepts is all in place, whatever .backup files  *)
(* the last run has left beside it.                                        *)
LEMMA FetchInPlace ==
  ASSUME TypeInv, CommitInv, FetchAccepted PROVE \A i \in kept : InPlace(i)
<1> SUFFICES ASSUME kept # {} PROVE \A i \in Batch : InPlace(i)
  BY DEF CommitInv, Kept
<1> USE DEF CommitInv, Kept
<1>1. /\ fetched \in Chain
      /\ fetched.timestamp.meta.version = fetched.snapshot.version
      /\ fetched.snapshot.meta.version = fetched.targets.version
      /\ \A i \in Batch : InPlace(i) \/ ~There(i)
  BY DEF RefTo
<1>2. /\ fetched.snapshot.version \in Version /\ fetched.targets.version \in Version
      /\ fetched.targets.targets \in Targets
  BY <1>1, ChainType
<1>3. timestampMd = fetched.timestamp
  BY <1>1 DEF FetchAccepted, Published, InPlace, There, Batch, Link
<1>4. SnapshotOf(timestampMd) = fetched.snapshot
  BY <1>1, <1>3 DEF FetchAccepted, ChainIntact, Published, SnapshotOf, InPlace, There, Batch, Link
<1>5. TargetsOf(timestampMd) = fetched.targets
  BY <1>1, <1>4 DEF FetchAccepted, ChainIntact, Published, TargetsOf, InPlace, There, Batch, Link
<1>6. ASSUME NEW n \in Name, fetched.targets.targets[n] # None
      PROVE  files[<<n, fetched.targets.targets[n]>>] = fetched.targets.targets[n]
  BY <1>5, <1>6 DEF FetchAccepted, Fetchable, NoTargets
<1> QED
  BY <1>1, <1>3, <1>4, <1>5, <1>6, FileAssumption DEF InPlace, Batch, Link, SnapshotOf, TargetsOf

(* The fetch of an update finds every file in its place, and changes none. *)
LEMMA BeginUpdateHolds ==
  ASSUME TypeInv, TypeInv', CommitInv, BeginUpdate PROVE CommitInv' /\ HeldSame
<1> USE DEF BeginUpdate
<1>1. /\ pc' = "backup" /\ kept' = {} /\ todo' = Batch' /\ fetched' = Fetched
      /\ UNCHANGED <<timestampMd, snapshotMd, targetsMd, files, plain>>
  BY DEF disk
<1>2. HeldSame
  <2>1. /\ HeldTimestamp = timestampMd /\ HeldSnapshots = snapshotMd
        /\ HeldTargets = targetsMd /\ HeldFiles = files
    BY FetchInPlace, HeldIsDisk DEF CommitInv
  <2>2. /\ HeldTimestamp' = timestampMd' /\ HeldSnapshots' = snapshotMd'
        /\ HeldTargets' = targetsMd' /\ HeldFiles' = files'
    BY <1>1 DEF HeldTimestamp, HeldSnapshots, HeldTargets, HeldFiles, TypeInv, TypeOK
  <2> QED
    BY <1>1, <2>1, <2>2 DEF HeldSame
<1>3. run' >= 1 /\ fetched' \in Chain
  BY DEF TypeInv, Committing
<1>4. /\ Published /\ ChainIntact /\ Fetched.timestamp = timestampMd
      /\ Fetched.snapshot = SnapshotOf(timestampMd)
      /\ Fetched.targets = TargetsOf(timestampMd)
      /\ SnapshotOf(timestampMd).version = timestampMd.meta.version
      /\ TargetsOf(timestampMd).version = SnapshotOf(timestampMd).meta.version
  BY FetchedType DEF FetchAccepted
<1>5. \A n \in Name : LET d == TargetsOf(timestampMd).targets[n] IN d # None => files[<<n, d>>] = d
  BY DEF FetchAccepted, Fetchable, CommitInv, NoTargets
<1>6. \A i \in Batch' : InPlace(i)'
  <2>1. PICK c : c = fetched'
    OBVIOUS
  <2>2. /\ timestampMd' = c.timestamp
        /\ snapshotMd'[c.snapshot.version] = c.snapshot
        /\ targetsMd'[c.targets.version] = c.targets
    BY <1>1, <1>4, <2>1 DEF SnapshotOf, TargetsOf
  <2>3. \A n \in Name : c.targets.targets[n] # None =>
          files'[<<n, c.targets.targets[n]>>] = c.targets.targets[n]
    BY <1>1, <1>4, <1>5, <2>1
  <2> QED
    BY <2>1, <2>2, <2>3, FileAssumption DEF InPlace, Batch, Link
<1>7. /\ fetched'.timestamp.meta = RefTo(fetched.snapshot)'
      /\ fetched'.snapshot.meta = RefTo(fetched.targets)'
  BY <1>1, <1>4 DEF ChainIntact, RefTo
<1>8. Kept'
  BY <1>1, <1>3, <1>6, <1>7 DEF Kept
<1> QED
  BY <1>1, <1>2, <1>8 DEF CommitInv, Phases

(* When the swap is through, what was fetched is published, and served.    *)
LEMMA Swapped ==
  ASSUME TypeInv, CommitInv, pc = "swap", todo = {}
  PROVE  /\ fetched \in Chain /\ \A i \in kept : InPlace(i)
         /\ Published /\ ChainIntact
         /\ timestampMd = fetched.timestamp
         /\ SnapshotOf(timestampMd) = fetched.snapshot
         /\ TargetsOf(timestampMd) = fetched.targets
         /\ \A n \in Name : LET d == fetched.targets.targets[n] IN d # None => files[<<n, d>>] = d
<1>1. /\ fetched \in Chain /\ kept \subseteq Batch /\ \A i \in Batch : InPlace(i)
      /\ fetched.timestamp.meta = RefTo(fetched.snapshot)
      /\ fetched.snapshot.meta = RefTo(fetched.targets)
  BY DEF CommitInv, Kept, Phases, Committing
<1>2. /\ fetched.timestamp # None /\ fetched.snapshot # None /\ fetched.targets # None
  BY <1>1, ChainType
<1>3. /\ fetched.timestamp.meta.version = fetched.snapshot.version
      /\ fetched.snapshot.meta.version = fetched.targets.version
  BY <1>1 DEF RefTo
<1>4. timestampMd = fetched.timestamp
  BY <1>1 DEF InPlace, Batch, Link
<1>5. SnapshotOf(timestampMd) = fetched.snapshot
  BY <1>1, <1>3, <1>4 DEF InPlace, Batch, Link, SnapshotOf
<1>6. TargetsOf(timestampMd) = fetched.targets
  BY <1>1, <1>3, <1>5 DEF InPlace, Batch, Link, TargetsOf
<1>7. \A n \in Name : LET d == fetched.targets.targets[n] IN d # None => files[<<n, d>>] = d
  BY <1>1, FileAssumption DEF InPlace, Batch, Link
<1> QED
  BY <1>1, <1>2, <1>4, <1>5, <1>6, <1>7 DEF Published, ChainIntact

(* An update that goes on from there has every file in its place.          *)
LEMMA UpdateHolds ==
  ASSUME TypeInv, TypeInv', CommitInv, UpdateBump PROVE CommitInv' /\ HeldSame
<1>1. /\ pc = "swap" /\ todo = {} /\ pc' = "adding" /\ kept' = {}
      /\ UNCHANGED <<timestampMd, snapshotMd, targetsMd, files, plain>>
  BY DEF UpdateBump, Update, Plan, disk
<1>2. /\ HeldTimestamp = timestampMd /\ HeldSnapshots = snapshotMd
      /\ HeldTargets = targetsMd /\ HeldFiles = files
  BY <1>1, Swapped, HeldIsDisk DEF CommitInv
<1>3. /\ HeldTimestamp' = timestampMd' /\ HeldSnapshots' = snapshotMd'
      /\ HeldTargets' = targetsMd' /\ HeldFiles' = files'
  BY <1>1 DEF HeldTimestamp, HeldSnapshots, HeldTargets, HeldFiles, TypeInv, TypeOK
<1> QED
  BY <1>1, <1>2, <1>3 DEF HeldSame, CommitInv, Kept, Phases, Committing

(* Nothing is in a .backup when create or transfer-metadata begins.        *)
LEMMA NothingKept ==
  ASSUME Bumping, CommitInv,
         \E tv, sv, tsv \in Given : Create(tv, sv, tsv) \/ Transfer(tv, sv, tsv)
  PROVE  kept = {} /\ ~Published
<1>1. CASE \E tv, sv, tsv \in Given : Create(tv, sv, tsv)
  <2>1. ~Published /\ "timestamp" \notin kept
    BY <1>1 DEF Create, Bumping
  <2>2. kept # {} => timestampMd = fetched.timestamp /\ fetched \in Chain
    BY <2>1 DEF CommitInv, Kept, InPlace, Batch, Link
  <2> QED
    BY <2>1, <2>2, ChainType DEF Published
<1>2. CASE \E tv, sv, tsv \in Given : Transfer(tv, sv, tsv)
  BY <1>2 DEF Transfer, CommitInv, Kept
<1> QED
  BY <1>1, <1>2

(* The steps that add or write files, all with no .backup about.           *)
Writing ==
  \/ \E n \in Name : AddFile(n) \/ AddFileFails(n)
  \/ SignAndWrite /\ UNCHANGED command

(* Where there are no .backup files, what is held is what is on disk. *)
LEMMA NoneKept ==
  ASSUME TypeInv, TypeInv', kept = {}, kept' = {}
  PROVE  /\ HeldTimestamp = timestampMd /\ HeldSnapshots = snapshotMd
         /\ HeldTargets = targetsMd /\ HeldFiles = files
         /\ HeldTimestamp' = timestampMd' /\ HeldSnapshots' = snapshotMd'
         /\ HeldTargets' = targetsMd' /\ HeldFiles' = files'
  BY DEF HeldTimestamp, HeldSnapshots, HeldTargets, HeldFiles, TypeInv, TypeOK

(* Every other step, a death among them, leaves what is held as it is.     *)
LEMMA HeldStep ==
  ASSUME Bumping, TypeInv, CommitInv, [Next]_vars
  PROVE  CommitInv' /\ (HeldSame \/ (Writing /\ kept = {} /\ kept' = {}))
<1>0. TypeInv'
  BY TypeStep
<1>1. ASSUME NEW tv \in Given, NEW sv \in Given, NEW tsv \in Given,
             Create(tv, sv, tsv) \/ Transfer(tv, sv, tsv)
      PROVE  CommitInv' /\ HeldSame
  <2>1. kept = {}
    BY <1>1, NothingKept
  <2>2. pc' = "adding" /\ UNCHANGED <<timestampMd, snapshotMd, targetsMd, files, plain, kept, fetched>>
    BY <1>1 DEF Create, Transfer, Plan, disk
  <2> QED
    BY <2>1, <2>2 DEF CommitInv, Kept, Phases, Committing, HeldSame, HeldTimestamp, HeldSnapshots,
                      HeldTargets, HeldFiles
<1>2. CASE BeginUpdate
  BY <1>0, <1>2, BeginUpdateHolds
<1>3. CASE Commit
  BY <1>0, <1>3, CommitKeeps, CommitHolds
<1>4. CASE UpdateBump
  BY <1>0, <1>4, UpdateHolds
<1>5. ~UpdateResign /\ ~UpdateIncoming /\ ~UpdateForce
      /\ ~(\E n \in Name, d \in Digest : PlaceFile(n, d))
  BY DEF Bumping, UpdateResign, UpdateIncoming, UpdateForce, PlaceFile
<1>6. CASE \/ Crash /\ todo' = {} /\ UNCHANGED <<added, fetched, kept>>
           \/ AllAdded \/ UNCHANGED vars
  <2>1. UNCHANGED <<timestampMd, snapshotMd, targetsMd, files, plain, kept, fetched, run>>
    BY <1>6 DEF Crash, AllAdded, vars, disk, metadata, command
  <2>2. HeldSame
    BY <2>1 DEF HeldSame, HeldTimestamp, HeldSnapshots, HeldTargets, HeldFiles
  <2>3. /\ Batch' = Batch
        /\ \A i \in Batch : (InPlace(i)' <=> InPlace(i)) /\ (There(i)' <=> There(i))
    BY <2>1 DEF Batch, InPlace, There
  <2>4. /\ pc' = "idle" \/ (UNCHANGED <<pc, todo>>) \/ (pc = "adding" /\ pc' = "signers")
        /\ Committing' => Committing
    BY <1>6 DEF Crash, AllAdded, vars, command, Committing
  <2>5. Kept'
    BY <2>1, <2>3, <2>4 DEF CommitInv, Kept
  <2>6. Phases'
    BY <2>1, <2>3, <2>4 DEF CommitInv, Phases, Committing
  <2> QED
    BY <2>1, <2>2, <2>5, <2>6 DEF CommitInv
<1>7. CASE Writing
  <2>1. /\ pc \notin {"idle", "failed", "backup", "swap", "undo"}
        /\ pc' \notin {"backup", "swap", "undo"}
        /\ UNCHANGED <<kept, fetched>>
    BY <1>7 DEF Writing, AddFile, AddFileFails, command, SignAndWrite, StepFails, LoadSigners,
                WriteTargets, KeepTargets, WriteSnapshot, WriteTimestamp, AllCopied, SkipTarget,
                CopyTarget, CopyTargetTorn, TargetRefused
  <2>2. kept = {} /\ kept' = {}
    BY <2>1 DEF CommitInv, Phases, Committing
  <2>3. plain' = NoTargets
    BY <1>7 DEF Writing, AddFile, AddFileFails, command, SignAndWrite, StepFails, LoadSigners,
                WriteTargets, KeepTargets, WriteSnapshot, WriteTimestamp, AllCopied, SkipTarget,
                CopyTarget, CopyTargetTorn, TargetRefused, CommitInv, NoTargets, disk
  <2> QED
    BY <1>7, <2>1, <2>2, <2>3 DEF CommitInv, Kept, Phases, Committing
<1> QED
  BY <1>1, <1>2, <1>3, <1>4, <1>5, <1>6, <1>7 DEF Next, Writing

-----------------------------------------------------------------------------
(* What an update that bumps keeps, at every moment. *)
IInv == TypeInv /\ CommitInv /\ ChainHeld /\ Ahead

(* Where there are no .backup files, the chain that is held is published.  *)
LEMMA ChainOnDisk ==
  ASSUME TypeInv, CommitInv, \A i \in kept : InPlace(i) PROVE ChainHeld <=> ChainIntact
  BY HeldIsDisk DEF CommitInv, ChainHeld, Held!ChainIntact, Held!Published, Held!SnapshotOf,
     Held!TargetsOf, Held!RefTo, ChainIntact, Published, SnapshotOf, TargetsOf, RefTo

(* A run that begins by fetching the published chain plans to write files  *)
(* that are not part of it.                                                *)
LEMMA BumpAhead == ASSUME TypeInv, CommitInv, UpdateBump PROVE Ahead'
<1> USE DEF UpdateBump, Update, Unforced
<1>1. /\ fetched \in Chain
      /\ timestampMd = fetched.timestamp
      /\ SnapshotOf(timestampMd) = fetched.snapshot
      /\ TargetsOf(timestampMd) = fetched.targets
      /\ timestampMd.meta.version = fetched.snapshot.version
      /\ fetched.snapshot.meta.version = fetched.targets.version
      /\ UNCHANGED <<timestampMd, snapshotMd>>
  BY Swapped DEF Plan, disk, CommitInv, Kept, Committing, RefTo
<1>2. fetched.snapshot.version \in Version /\ fetched.targets.version \in Version
  BY <1>1, ChainType
<1>3. ed'.tv = fetched.targets.version + 1 /\ ed'.sv = fetched.snapshot.version + 1
  BY DEF Plan
<1>4. /\ ed'.sv # timestampMd.meta.version
      /\ ed'.tv # SnapshotOf(timestampMd).meta.version
  BY <1>1, <1>2, <1>3, EditorAssumption DEF Version
<1> QED
  BY <1>1, <1>4 DEF Ahead, SnapshotOf

(* Before the first run nothing is published, and nothing is in .backup.   *)
LEMMA InitInv == Init => IInv
<1> SUFFICES ASSUME Init PROVE IInv
  OBVIOUS
<1>1. TypeInv
  BY InitType
<1>2. CommitInv
  BY DEF Init, CommitInv, Kept, Phases, Committing
<1>3. ChainHeld
  BY <1>1, <1>2, ChainOnDisk DEF Init, ChainIntact, Published
<1> QED
  BY <1>1, <1>2, <1>3 DEF Init, IInv, Ahead, Planned

(* The strengthened invariant is inductive as long as updates bump.        *)
LEMMA ChainStep == ASSUME Bumping, IInv, [Next]_vars PROVE IInv'
<1>1. TypeInv' /\ CommitInv'
  BY TypeStep, HeldStep DEF IInv
<1>2. ChainHeld'
  <2>1. CASE HeldSame
    BY <2>1 DEF HeldSame, IInv, ChainHeld, Held!ChainIntact, Held!Published, Held!SnapshotOf,
       Held!TargetsOf, Held!RefTo
  <2>2. CASE Writing /\ kept = {} /\ kept' = {}
    <3>1. ChainInv
      BY <2>2, ChainOnDisk DEF IInv, ChainInv, TypeInv
    <3>2. ChainIntact'
      <4>1. CASE SignAndWrite
        BY <3>1, <4>1, SignAndWriteChain DEF ChainInv
      <4>2. CASE \E n \in Name : AddFile(n) \/ AddFileFails(n)
        BY <3>1, <4>2 DEF AddFile, AddFileFails, metadata, ChainInv, ChainIntact, Published,
                          SnapshotOf, TargetsOf
      <4> QED
        BY <2>2, <4>1, <4>2 DEF Writing
    <3> QED
      BY <1>1, <2>2, <3>2, NoneKept DEF IInv, ChainHeld, Held!ChainIntact, Held!Published,
         Held!SnapshotOf, Held!TargetsOf, Held!RefTo, ChainIntact, Published, SnapshotOf,
         TargetsOf, RefTo
  <2> QED
    BY <2>1, <2>2, HeldStep DEF IInv
<1>3. Ahead'
  <2>1. CASE \E tv, sv, tsv \in Given : Create(tv, sv, tsv) \/ Transfer(tv, sv, tsv)
    BY <2>1, NothingKept DEF IInv, Create, Transfer, Plan, disk, Ahead, Published
  <2>2. CASE UpdateBump
    BY <2>2, BumpAhead DEF IInv
  <2>3. ~UpdateResign /\ ~UpdateIncoming /\ ~UpdateForce
        /\ ~(\E n \in Name, d \in Digest : PlaceFile(n, d))
    BY DEF Bumping, UpdateResign, UpdateIncoming, UpdateForce, PlaceFile
  <2>4. CASE BeginUpdate \/ Commit \/ Crash
    BY <2>4 DEF BeginUpdate, Commit, BackUp, NothingToBackUp, Swap, Undo, UndoFails, ToDo,
       AllBackedUp, CommitFails, AllUndone, Crash, Ahead, Planned
  <2>5. CASE (\E n \in Name : AddFile(n) \/ AddFileFails(n)) \/ AllAdded \/ UNCHANGED vars
    BY <2>5 DEF IInv, AddFile, AddFileFails, AllAdded, vars, Ahead, Planned, Published,
       SnapshotOf, disk, metadata
  <2>6. CASE SignAndWrite /\ UNCHANGED command
    <3>1. kept = {}
      BY <2>6 DEF IInv, CommitInv, Phases, Committing, SignAndWrite, StepFails, LoadSigners,
         WriteTargets, KeepTargets, WriteSnapshot, WriteTimestamp, AllCopied, SkipTarget,
         CopyTarget, CopyTargetTorn, TargetRefused
    <3>2. ChainInv
      BY <3>1, ChainOnDisk DEF IInv, ChainInv, TypeInv
    <3> QED
      BY <2>6, <3>2, SignAndWriteChain DEF ChainInv
  <2> QED
    BY <2>1, <2>2, <2>3, <2>4, <2>5, <2>6 DEF Next
<1> QED
  BY <1>1, <1>2, <1>3 DEF IInv

(* When every update bumps the targets, timestamp.json leads to an intact  *)
(* chain at every moment, wherever a run fails, tears a file or dies, but  *)
(* for the files that a commit has in .backup: those are of that chain.    *)
THEOREM UpdateChainHeld == Bumping => (Spec => []ChainHeld)
<1> SUFFICES ASSUME Bumping PROVE Spec => []ChainHeld
  OBVIOUS
<1>1. Init => IInv
  BY InitInv
<1>2. IInv /\ [Next]_vars => IInv'
  BY ChainStep
<1>3. IInv => ChainHeld
  BY DEF IInv
<1> QED
  BY <1>1, <1>2, <1>3, PTL DEF Spec

-----------------------------------------------------------------------------
(* What a run is about to publish, beside what is published: higher        *)
(* versions, and the published targets with those the run adds.            *)
Extends ==
  Planned /\ Published =>
    /\ ed.tsv > timestampMd.version
    /\ ed.sv > timestampMd.meta.version
    /\ ed.tv > SnapshotOf(timestampMd).meta.version
    /\ ed.targets = AddTargets(TargetsOf(timestampMd).targets, added)

Written ==
  /\ Planned => ~ed.reuse
  /\ pc \in {"snapshot", "timestamp"} => targetsMd[ed.tv].targets = ed.targets

(* A published target that is torn is one that the run adds and, once it   *)
(* has come past it, has left alone.                                       *)
Undamaged ==
  Planned /\ Published =>
    \A n \in Name : LET d == ed.targets[n]
                    IN d # None /\ files[<<n, d>>] = Torn =>
                         /\ added[n] = d
                         /\ (pc = "adding" /\ n \in todo) \/ ed.policy = "skip"

PublishInv == IInv /\ Extends /\ Written /\ Undamaged

(* What a published chain is made of.                                      *)
LEMMA PublishedType ==
  ASSUME TypeInv, Published, ChainIntact
  PROVE  /\ timestampMd \in LinkDoc /\ timestampMd # None
         /\ timestampMd.version \in Version /\ timestampMd.meta.version \in Version
         /\ SnapshotOf(timestampMd) \in LinkDoc /\ SnapshotOf(timestampMd) # None
         /\ SnapshotOf(timestampMd).version = timestampMd.meta.version
         /\ SnapshotOf(timestampMd).meta.version \in Version
         /\ TargetsOf(timestampMd) \in TargetsDoc /\ TargetsOf(timestampMd) # None
         /\ TargetsOf(timestampMd).version = SnapshotOf(timestampMd).meta.version
         /\ TargetsOf(timestampMd).targets \in Targets
<1> USE DEF TypeInv, TypeOK, Published, ChainIntact
<1>1. timestampMd \in LinkDoc
  OBVIOUS
<1>2. timestampMd.version \in Version /\ timestampMd.meta.version \in Version
  BY <1>1 DEF LinkDoc, Ref
<1>3. SnapshotOf(timestampMd) \in LinkDoc
  BY <1>2 DEF SnapshotOf
<1>4. SnapshotOf(timestampMd).meta.version \in Version
  BY <1>3 DEF LinkDoc, Ref
<1>5. TargetsOf(timestampMd) \in TargetsDoc
  BY <1>4 DEF TargetsOf
<1>6. TargetsOf(timestampMd).targets \in Targets
  BY <1>5 DEF TargetsDoc
<1> QED
  BY <1>1, <1>2, <1>3, <1>4, <1>5, <1>6 DEF TargetsOf, SnapshotOf, DiskInv, Indexed

(* A run that plans to publish has nothing in .backup.                     *)
LEMMA PlannedChain ==
  ASSUME IInv, Planned PROVE kept = {} /\ ChainIntact
<1>1. kept = {}
  BY DEF IInv, Planned, CommitInv, Phases, Committing
<1> QED
  BY <1>1, ChainOnDisk DEF IInv

(* An update that bumps plans to publish what is published and its own,    *)
(* all of which was fetched undamaged.                                     *)
LEMMA BumpExtends ==
  ASSUME IInv, UpdateBump PROVE Extends' /\ Written' /\ Undamaged'
<1> USE DEF UpdateBump, Update, Unforced
<1>1. /\ fetched \in Chain
      /\ timestampMd = fetched.timestamp
      /\ SnapshotOf(timestampMd) = fetched.snapshot
      /\ TargetsOf(timestampMd) = fetched.targets
      /\ timestampMd.meta.version = fetched.snapshot.version
      /\ fetched.snapshot.meta.version = fetched.targets.version
      /\ \A n \in Name : LET d == fetched.targets.targets[n] IN d # None => files[<<n, d>>] = d
  BY Swapped DEF IInv, CommitInv, Kept, Committing, RefTo
<1>2. /\ fetched.timestamp.version \in Version /\ fetched.snapshot.version \in Version
      /\ fetched.targets.version \in Version /\ fetched.targets.targets \in Targets
  BY <1>1, ChainType
<1>3. AddTargets(fetched.targets.targets, NoTargets) = fetched.targets.targets
  BY <1>2 DEF AddTargets, NoTargets, Targets
<1>4. /\ ed'.tsv = fetched.timestamp.version + 1
      /\ ed'.sv = fetched.snapshot.version + 1
      /\ ed'.tv = fetched.targets.version + 1
      /\ ed'.targets = AddTargets(fetched.targets.targets, added')
      /\ ed'.reuse = FALSE /\ pc' = "adding" /\ todo' = {n \in Name : added'[n] # None}
      /\ UNCHANGED <<timestampMd, snapshotMd, targetsMd, files>>
  BY <1>3 DEF Plan, disk
<1>5. Extends'
  BY <1>1, <1>2, <1>4, EditorAssumption DEF Extends, Version, SnapshotOf, TargetsOf
<1>6. Undamaged'
  <2>1. ASSUME NEW n \in Name, ed'.targets[n] # None, files'[<<n, ed'.targets[n]>>] = Torn
        PROVE  added'[n] = ed'.targets[n] /\ n \in todo'
    <3>1. CASE added'[n] # None
      BY <1>4, <3>1 DEF AddTargets
    <3>2. CASE added'[n] = None
      <4>1. ed'.targets[n] = fetched.targets.targets[n]
        BY <1>4, <3>2 DEF AddTargets
      <4> QED
        BY <1>1, <1>2, <1>4, <2>1, <4>1, EditorAssumption DEF Targets
    <3> QED
      BY <3>1, <3>2
  <2> QED
    BY <1>4, <2>1 DEF Undamaged
<1> QED
  BY <1>4, <1>5, <1>6 DEF Written

(* A run that writes metadata leaves what is published as it is, until it  *)
(* writes the timestamp.                                                   *)
LEMMA PublishedStays ==
  ASSUME IInv, Published, Writing, UNCHANGED timestampMd
  PROVE  /\ SnapshotOf(timestampMd)' = SnapshotOf(timestampMd)
         /\ TargetsOf(timestampMd)' = TargetsOf(timestampMd)
<1> USE DEF SnapshotOf, TargetsOf
<1>1. CASE UNCHANGED metadata
  BY <1>1 DEF metadata
<1>2. CASE WriteTargets \/ WriteSnapshot
  <2>1. Planned
    BY <1>2 DEF WriteTargets, WriteSnapshot, Planned
  <2>2. /\ ed.sv # timestampMd.meta.version
        /\ ed.reuse \/ ed.tv # SnapshotOf(timestampMd).meta.version
    BY <2>1 DEF IInv, Ahead
  <2> QED
    BY <1>2, <2>1, <2>2, PublishedType, PlannedChain
       DEF WriteTargets, WriteSnapshot, IInv, TypeInv, TypeOK
<1>3. CASE WriteTimestamp
  BY <1>3 DEF WriteTimestamp
<1> QED
  BY <1>1, <1>2, <1>3
     DEF Writing, AddFile, AddFileFails, SignAndWrite, StepFails, LoadSigners, KeepTargets,
         AllCopied, SkipTarget, CopyTarget, CopyTargetTorn, TargetRefused, disk, metadata

(* The copying of the added targets damages none of the others, and tears  *)
(* a file only where the run then fails.                                   *)
LEMMA AddFileUndamaged ==
  ASSUME PublishInv, NEW n \in Name, AddFile(n) PROVE Undamaged'
<1> USE DEF AddFile
<1>1. /\ pc = "adding" /\ n \in todo /\ Planned /\ todo' = todo \ {n}
      /\ UNCHANGED <<timestampMd, ed, added, pc>>
  BY DEF Planned, metadata
<1>2. ed.targets \in Targets
  BY DEF PublishInv, IInv, TypeInv, TypeOK, EditorRecord
<1>3. ASSUME NEW m \in Name, m # n, ed.targets[m] # None
      PROVE  files'[<<m, ed.targets[m]>>] = files[<<m, ed.targets[m]>>]
  BY <1>2, <1>3 DEF CopyIn, PublishInv, IInv, TypeInv, TypeOK, Targets
<1>4. ed.targets[n] # None /\ files'[<<n, ed.targets[n]>>] = Torn =>
        files[<<n, ed.targets[n]>>] = Torn /\ ed.policy = "skip"
  BY <1>2, EditorAssumption DEF CopyIn, PublishInv, IInv, TypeInv, TypeOK, Targets, AlreadyThere
<1>5. Published' = Published
  BY <1>1 DEF Published
<1>6. ASSUME NEW m \in Name, Published, ed.targets[m] # None, files'[<<m, ed.targets[m]>>] = Torn
      PROVE  /\ added[m] = ed.targets[m]
             /\ (m \in todo /\ m # n) \/ ed.policy = "skip"
  <2>1. files[<<m, ed.targets[m]>>] = Torn
    BY <1>3, <1>4, <1>6
  <2> QED
    BY <1>1, <1>4, <1>6, <2>1 DEF PublishInv, Undamaged
<1> QED
  BY <1>1, <1>5, <1>6 DEF Undamaged

(* The invariant of publication is inductive as long as updates bump.      *)
LEMMA PublishStep == ASSUME Bumping, PublishInv, [Next]_vars PROVE PublishInv'
<1>0. IInv'
  BY ChainStep DEF PublishInv
<1> SUFFICES Extends' /\ Written' /\ Undamaged'
  BY <1>0 DEF PublishInv
<1>1. CASE \E tv, sv, tsv \in Given : Create(tv, sv, tsv) \/ Transfer(tv, sv, tsv)
  <2>1. ~Published /\ UNCHANGED timestampMd /\ ed'.reuse = FALSE /\ pc' = "adding"
    BY <1>1, NothingKept DEF PublishInv, IInv, Create, Transfer, Plan, disk
  <2> QED
    BY <2>1 DEF Extends, Written, Undamaged, Published
<1>2. CASE UpdateBump
  BY <1>2, BumpExtends DEF PublishInv
<1>3. ~UpdateResign /\ ~UpdateIncoming /\ ~UpdateForce
      /\ ~(\E n \in Name, d \in Digest : PlaceFile(n, d))
  BY DEF Bumping, UpdateResign, UpdateIncoming, UpdateForce, PlaceFile
<1>4. ASSUME UNCHANGED <<metadata, ed>>, Planned' => Planned /\ UNCHANGED added,
             pc' \in {"snapshot", "timestamp"} => pc' = pc
      PROVE  Extends' /\ Written'
  BY <1>4 DEF PublishInv, Extends, Written, metadata, Published, SnapshotOf, TargetsOf
<1>5. ASSUME UNCHANGED <<timestampMd, ed, files>>,
             Planned' => Planned /\ UNCHANGED <<added, todo>> /\ (pc = "adding" => pc' = pc \/ todo = {})
      PROVE  Undamaged'
  BY <1>5 DEF PublishInv, Undamaged, Published
<1>6. ASSUME ~Planned' PROVE Extends' /\ Written' /\ Undamaged'
  BY <1>6 DEF Extends, Written, Undamaged, Planned
<1>7. CASE BeginUpdate \/ Commit \/ Crash
  BY <1>6, <1>7 DEF BeginUpdate, Commit, BackUp, NothingToBackUp, Swap, Undo, UndoFails, ToDo,
     AllBackedUp, CommitFails, AllUndone, Crash, Planned
<1>8. CASE \E n \in Name : AddFile(n)
  BY <1>4, <1>8, AddFileUndamaged DEF AddFile, Planned
<1>9. CASE \E n \in Name : AddFileFails(n)
  BY <1>6, <1>9 DEF AddFileFails, Planned
<1>10. CASE AllAdded
  BY <1>4, <1>5, <1>10 DEF AllAdded, Planned, disk, metadata, command
<1>11. CASE SignAndWrite /\ UNCHANGED command
  <2>1. CASE StepFails \/ AllCopied \/ WriteTimestamp
    BY <1>6, <2>1 DEF StepFails, AllCopied, WriteTimestamp, Planned
  <2>2. CASE LoadSigners
    BY <1>4, <1>5, <1>11, <2>2 DEF LoadSigners, Planned, disk, metadata, command
  <2>3. CASE \E n \in Name : SkipTarget(n) \/ CopyTarget(n) \/ CopyTargetTorn(n) \/ TargetRefused(n)
    BY <1>6, <2>3 DEF SkipTarget, CopyTarget, CopyTargetTorn, TargetRefused, Planned
  <2>4. ~KeepTargets
    BY DEF KeepTargets, PublishInv, Written, Planned
  <2>5. CASE WriteTargets \/ WriteSnapshot
    <3>1. /\ UNCHANGED <<timestampMd, ed, added, files, todo>> /\ Planned
          /\ targetsMd'[ed.tv].targets = ed.targets
      BY <1>11, <2>5 DEF WriteTargets, WriteSnapshot, Planned, command, PublishInv, Written, IInv,
                         TypeInv, TypeOK, EditorRecord
    <3>2. Published => /\ SnapshotOf(timestampMd)' = SnapshotOf(timestampMd)
                       /\ TargetsOf(timestampMd)' = TargetsOf(timestampMd)
      BY <1>11, <3>1, PublishedStays DEF PublishInv, Writing
    <3>3. Extends'
      BY <3>1, <3>2 DEF PublishInv, Extends, Published
    <3>4. Written'
      BY <3>1 DEF PublishInv, Written
    <3>5. Undamaged'
      BY <1>5, <2>5, <3>1 DEF WriteTargets, WriteSnapshot
    <3> QED
      BY <3>3, <3>4, <3>5
  <2> QED
    BY <1>11, <2>1, <2>2, <2>3, <2>4, <2>5 DEF SignAndWrite
<1>12. CASE UNCHANGED vars
  BY <1>4, <1>5, <1>12 DEF vars, Planned, disk, metadata, command
<1> QED
  BY <1>1, <1>2, <1>3, <1>7, <1>8, <1>9, <1>10, <1>11, <1>12 DEF Next

(* Before the first run nothing is published, and no edits are pending. *)
LEMMA PublishInit == Init => PublishInv
  BY InitInv DEF Init, PublishInv, Extends, Written, Undamaged, Planned

(* What the write of timestamp.json publishes is the run's own chain.      *)
LEMMA Publishes ==
  ASSUME PublishInv, WriteTimestamp
  PROVE  /\ Published' /\ Planned
         /\ timestampMd'.version = ed.tsv
         /\ SnapshotOf(timestampMd)' = snapshotMd[ed.sv] /\ SnapshotOf(timestampMd)' # None
         /\ SnapshotOf(timestampMd)'.version = ed.sv
         /\ TargetsOf(timestampMd)' = targetsMd[ed.tv] /\ TargetsOf(timestampMd)' # None
         /\ TargetsOf(timestampMd)'.version = ed.tv
         /\ TargetsOf(timestampMd)'.targets = ed.targets
<1> USE DEF PublishInv, IInv, TypeInv, DiskInv, WriteTimestamp
<1>1. ed.sv \in Version /\ ed.tv \in Version /\ ed.tsv \in Version /\ run \in 1 .. MaxRun
  BY DEF DiskType, EditorRecord, Planned
<1>2. /\ snapshotMd[ed.sv] # None /\ snapshotMd[ed.sv].version = ed.sv
      /\ targetsMd[ed.tv] # None /\ targetsMd[ed.tv].version = ed.tv
      /\ snapshotMd[ed.sv].meta = RefTo(targetsMd[ed.tv])
  BY <1>1 DEF Flow, Indexed
<1>3. /\ timestampMd' = [version |-> ed.tsv, by |-> run, meta |-> RefTo(snapshotMd[ed.sv])]
      /\ UNCHANGED <<targetsMd, snapshotMd>>
  OBVIOUS
<1>4. timestampMd'.meta.version = ed.sv /\ snapshotMd[ed.sv].meta.version = ed.tv
  BY <1>2, <1>3 DEF RefTo
<1>5. timestampMd' # None
  <2>1. snapshotMd[ed.sv] \in LinkDoc
    BY <1>1, <1>2 DEF DiskType
  <2> QED
    BY <1>1, <1>3, <2>1, DocTypes, NoneAssumption
<1>6. targetsMd[ed.tv].targets = ed.targets
  BY DEF Written
<1> QED
  BY <1>2, <1>3, <1>4, <1>5, <1>6 DEF Published, SnapshotOf, TargetsOf, Planned

(* What is published before and after a step only changes by the write of  *)
(* timestamp.json: what the commit puts back is what it took away.         *)
LEMMA TimestampChanges ==
  ASSUME Bumping, PublishInv, [Next]_vars, Published, Published', timestampMd' # timestampMd
  PROVE  WriteTimestamp /\ UNCHANGED command
<1>1. ~Commit
  <2> SUFFICES ASSUME Commit PROVE FALSE
    OBVIOUS
  <2>1. HeldSame \/ Writing
    BY HeldStep DEF PublishInv, IInv
  <2>2. HeldTimestamp = timestampMd /\ HeldTimestamp' = timestampMd'
    BY DEF HeldTimestamp, Published
  <2>3. ~Writing
    BY DEF Commit, BackUp, NothingToBackUp, Swap, Undo, UndoFails, ToDo, AllBackedUp, CommitFails,
       AllUndone, Writing, AddFile, AddFileFails, SignAndWrite, StepFails, LoadSigners,
       WriteTargets, WriteSnapshot, WriteTimestamp, KeepTargets, AllCopied, SkipTarget, CopyTarget,
       CopyTargetTorn, TargetRefused
  <2> QED
    BY <2>1, <2>2, <2>3 DEF HeldSame
<1> QED
  BY <1>1 DEF Next, vars, Create, Transfer, BeginUpdate, UpdateBump, UpdateResign, UpdateIncoming,
     UpdateForce, Update, Plan, AddFile, AddFileFails, PlaceFile, AllAdded, SignAndWrite,
     StepFails, LoadSigners, WriteTargets, WriteSnapshot, KeepTargets, AllCopied, SkipTarget,
     CopyTarget, CopyTargetTorn, TargetRefused, Crash, disk, metadata

(* What an update publishes is the published targets and its own, whatever *)
(* runs that failed or died have left on disk.                             *)
THEOREM UpdatePublishesItsOwnEdits == Bumping => (Spec => FailedEditsStayUnpublished)
<1> SUFFICES ASSUME Bumping PROVE Spec => FailedEditsStayUnpublished
  OBVIOUS
<1> DEFINE Step == Published /\ Published' /\ timestampMd' # timestampMd =>
                     TargetsOf(timestampMd)'.targets =
                       AddTargets(TargetsOf(timestampMd).targets, added)
<1>1. PublishInv /\ [Next]_vars => PublishInv'
  BY PublishStep
<1>2. PublishInv /\ [Next]_vars => [Step]_vars
  BY TimestampChanges, Publishes DEF PublishInv, Extends
<1> QED
  BY PublishInit, <1>1, <1>2, PTL DEF Spec, FailedEditsStayUnpublished

(* An update publishes a damaged target file only where it was to add that *)
(* target itself and left the file of an earlier run as it was.            *)
THEOREM UpdateDamageComesBySkipping == Bumping => (Spec => DamageComesBySkipping)
<1> SUFFICES ASSUME Bumping PROVE Spec => DamageComesBySkipping
  OBVIOUS
<1> DEFINE Step == Published /\ Published' /\ timestampMd' # timestampMd =>
                     \A n \in Name : LET d == TargetsOf(timestampMd)'.targets[n]
                                     IN d # None /\ files'[<<n, d>>] = Torn =>
                                          ed.policy = "skip" /\ added[n] = d
<1>1. PublishInv /\ [Next]_vars => PublishInv'
  BY PublishStep
<1>2. ASSUME PublishInv, [Next]_vars PROVE Step
  <2> SUFFICES ASSUME Published, Published', timestampMd' # timestampMd PROVE Step
    OBVIOUS
  <2>1. WriteTimestamp
    BY <1>2, TimestampChanges
  <2>2. TargetsOf(timestampMd)'.targets = ed.targets /\ Planned
    BY <1>2, <2>1, Publishes
  <2>3. pc = "timestamp" /\ files' = files
    BY <2>1 DEF WriteTimestamp
  <2> QED
    BY <1>2, <2>2, <2>3 DEF PublishInv, Undamaged
<1>3. PublishInv /\ [Next]_vars => [Step]_vars
  BY <1>2
<1> QED
  BY PublishInit, <1>1, <1>3, PTL DEF Spec, DamageComesBySkipping

-----------------------------------------------------------------------------
(* What clients see of an intact chain.                                    *)
LEMMA ViewPublished ==
  ASSUME TypeInv, Published, ChainIntact
  PROVE  /\ View = [timestamp |-> timestampMd.version,
                    snapshot |-> timestampMd.meta.version,
                    targets |-> SnapshotOf(timestampMd).meta.version,
                    names |-> TargetsOf(timestampMd).targets]
         /\ View # None
<1>1. View = [timestamp |-> timestampMd.version,
              snapshot |-> timestampMd.meta.version,
              targets |-> SnapshotOf(timestampMd).meta.version,
              names |-> TargetsOf(timestampMd).targets]
  BY PublishedType DEF View, LedTo, SnapshotOf, TargetsOf
<1>2. View \in [timestamp : Version, snapshot : Version, targets : Version, names : Targets]
  BY <1>1, PublishedType
<1> QED
  BY <1>1, <1>2, ViewAssumption

(* Clients see what was published last, or nothing.                        *)
LEMMA ViewOrNone == ASSUME TypeInv, CommitInv PROVE View \in {None, Last}
<1>1. CASE kept = {}
  BY <1>1, HeldIsDisk DEF CommitInv, View, Last
<1>2. CASE kept # {}
  <2>1. /\ fetched \in Chain
        /\ fetched.timestamp.meta.version = fetched.snapshot.version
        /\ fetched.snapshot.meta.version = fetched.targets.version
        /\ \A i \in Batch : InPlace(i) \/ (~There(i) /\ i \in kept)
    BY <1>2 DEF CommitInv, Kept, RefTo
  <2>2. /\ fetched.snapshot.version \in Version /\ fetched.targets.version \in Version
    BY <2>1, ChainType
  <2>3. /\ HeldTimestamp = fetched.timestamp
        /\ HeldSnapshots[fetched.snapshot.version] = fetched.snapshot
        /\ HeldTargets[fetched.targets.version] = fetched.targets
    BY <2>1, <2>2 DEF HeldTimestamp, HeldSnapshots, HeldTargets, InPlace, There, Batch, Link,
       TypeInv, TypeOK
  <2>4. /\ timestampMd \in {None, fetched.timestamp}
        /\ snapshotMd[fetched.snapshot.version] \in {None, fetched.snapshot}
        /\ targetsMd[fetched.targets.version] \in {None, fetched.targets}
    BY <2>1 DEF InPlace, There, Batch, Link
  <2> QED
    BY <2>1, <2>3, <2>4 DEF View, Last, LedTo
<1> QED
  BY <1>1, <1>2

(* A write that publishes is a step of Publication, any other one a        *)
(* stutter.                                                                *)
LEMMA RefineWrite ==
  ASSUME PublishInv, PublishInv', Writing, View = Last, View' = Last', kept = {}
  PROVE  [Abstract!Next]_(Abstract!vars)
<1> SUFFICES UNCHANGED View \/ (View' # None /\ Abstract!Fresh(View')
                                /\ (View # None => Abstract!Follows(View', View)))
  BY DEF Abstract!Next, Abstract!Publish, Abstract!vars
<1>0. ChainIntact
  BY ChainOnDisk DEF PublishInv, IInv
<1>1. CASE timestampMd' = timestampMd
  <2>1. CASE Published
    BY <1>1, <2>1, PublishedStays DEF PublishInv, View, LedTo, SnapshotOf, TargetsOf
  <2>2. CASE ~Published
    BY <1>1, <2>2 DEF View, LedTo, Published
  <2> QED
    BY <2>1, <2>2
<1>2. CASE timestampMd' # timestampMd
  <2>1. WriteTimestamp
    BY <1>2 DEF Writing, AddFile, AddFileFails, SignAndWrite, StepFails, LoadSigners, WriteTargets,
       WriteSnapshot, KeepTargets, AllCopied, SkipTarget, CopyTarget, CopyTargetTorn,
       TargetRefused, disk, metadata
  <2>2. /\ View' = [timestamp |-> ed.tsv, snapshot |-> ed.sv, targets |-> ed.tv, names |-> ed.targets]
        /\ View' # None
    <3>1. View' = [timestamp |-> ed.tsv, snapshot |-> ed.sv, targets |-> ed.tv, names |-> ed.targets]
      BY <2>1, Publishes DEF View, LedTo, SnapshotOf, TargetsOf, Published
    <3>2. View' \in [timestamp : Version, snapshot : Version, targets : Version, names : Targets]
      BY <3>1 DEF PublishInv, IInv, TypeInv, TypeOK, EditorRecord
    <3> QED
      BY <3>1, <3>2, ViewAssumption
  <2>3. ed.tsv > 0 /\ ed.sv > 0 /\ ed.tv > 0
    BY EditorAssumption DEF PublishInv, IInv, TypeInv, TypeOK, EditorRecord, Version
  <2>4. Abstract!Fresh(View')
    BY <2>2, <2>3 DEF Abstract!Fresh
  <2>5. ASSUME View # None PROVE Abstract!Follows(View', View)
    <3>1. Published
      BY <2>5 DEF View, LedTo, Published
    <3>2. /\ ed.tsv > timestampMd.version
          /\ ed.sv > timestampMd.meta.version
          /\ ed.tv > SnapshotOf(timestampMd).meta.version
          /\ ed.targets = AddTargets(TargetsOf(timestampMd).targets, added)
      BY <2>1, <3>1, Publishes DEF PublishInv, Extends
    <3>3. \A n \in Name : TargetsOf(timestampMd).targets[n] # None => ed.targets[n] # None
      BY <3>2 DEF AddTargets
    <3>4. /\ ed.tv \in Int /\ SnapshotOf(timestampMd).meta.version \in Int
      BY <1>0, <3>1, PublishedType, EditorAssumption
         DEF PublishInv, IInv, TypeInv, TypeOK, EditorRecord, Version
    <3> QED
      BY <1>0, <2>2, <3>1, <3>2, <3>3, <3>4, ViewPublished DEF PublishInv, IInv, Abstract!Follows
  <2> QED
    BY <2>2, <2>4, <2>5
<1> QED
  BY <1>1, <1>2

(* Every step is one of Publication, or a stutter. *)
LEMMA RefineStep ==
  ASSUME Bumping, PublishInv, PublishInv', [Next]_vars,
         View \in {None, Last}, View' \in {None, Last'}
  PROVE  [Abstract!Next]_(Abstract!vars)
<1>1. CASE HeldSame
  <2>1. Last' = Last
    BY <1>1 DEF HeldSame, Last
  <2> QED
    BY <2>1 DEF Abstract!Next, Abstract!Withdraw, Abstract!Restore, Abstract!vars
<1>2. CASE Writing /\ kept = {} /\ kept' = {}
  <2>1. View = Last /\ View' = Last'
    BY <1>2, NoneKept DEF PublishInv, IInv, View, Last
  <2> QED
    BY <1>2, <2>1, RefineWrite
<1> QED
  BY <1>1, <1>2, HeldStep DEF PublishInv, IInv

(* The publication, file by file, implements the one-step publication      *)
(* clients are promised, and the commit on the live directory only takes   *)
(* it away and back: versions never go back, a version of the targets      *)
(* keeps its meaning, and a name, once published, stays.                   *)
THEOREM UpdateRefinesPublication == Bumping => (Spec => RefinesPublication)
<1> SUFFICES ASSUME Bumping PROVE Spec => RefinesPublication
  OBVIOUS
<1>1. Init => Abstract!Init
  BY DEF Init, Abstract!Init, View, Last, LedTo, HeldTimestamp
<1>2. PublishInv /\ [Next]_vars => PublishInv'
  BY PublishStep
<1>3. PublishInv => View \in {None, Last}
  BY ViewOrNone DEF PublishInv, IInv
<1>4. /\ PublishInv /\ PublishInv' /\ [Next]_vars
      /\ View \in {None, Last} /\ (View \in {None, Last})'
      => [Abstract!Next]_(Abstract!vars)
  BY RefineStep
<1> QED
  BY PublishInit, <1>1, <1>2, <1>3, <1>4, PTL DEF Spec, RefinesPublication, Abstract!Spec

-----------------------------------------------------------------------------
(* create and update, with no target files under plain names: no transfer  *)
(* (its target files are copied by the operator) and no incoming metadata. *)
Copying == Use \subseteq {"create", "bump"} /\ "stat" \notin Fault

(* A digest-prefixed file holds what its name says, or is torn, and the    *)
(* files of all targets are held: those of every targets.json, published   *)
(* or not, and, once they are copied, those of the run.                    *)
Stored(targets, ns) == \A n \in ns : targets[n] # None => HeldFiles[<<n, targets[n]>>] # None

MdStored == \A v \in Version : HeldTargets[v] # None => Stored(HeldTargets[v].targets, Name)

FilesTrue == \A n \in Name, d \in Digest : HeldFiles[<<n, d>>] \in {None, Torn, d}

EdStored ==
  /\ pc = "adding" => Stored(ed.targets, Name \ todo)
  /\ pc \in {"signers", "targets", "snapshot", "timestamp"} => Stored(ed.targets, Name)

ServedInv == IInv /\ FilesTrue /\ MdStored /\ EdStored

(* What is held has the types of what is on disk. *)
LEMMA HeldType ==
  ASSUME TypeInv, CommitInv
  PROVE  /\ HeldTimestamp \in LinkDoc \cup {None}
         /\ HeldSnapshots \in [Version -> LinkDoc \cup {None}]
         /\ HeldTargets \in [Version -> TargetsDoc \cup {None}]
<1>1. CASE kept = {}
  BY <1>1, HeldIsDisk DEF CommitInv, TypeInv, TypeOK
<1>2. CASE kept # {}
  <2>1. fetched \in Chain
    BY <1>2 DEF CommitInv, Kept
  <2> QED
    BY <2>1, ChainType DEF HeldTimestamp, HeldSnapshots, HeldTargets, TypeInv, TypeOK
<1> QED
  BY <1>1, <1>2

(* The targets of a run that begins are held, but for those it adds.       *)
LEMMA PlanStored ==
  ASSUME NEW t \in Targets, NEW tv, NEW sv, NEW tsv, Plan(t, tv, sv, tsv),
         Stored(t, Name), HeldSame
  PROVE  EdStored'
<1>1. pc' = "adding" /\ ed'.targets = AddTargets(t, added') /\ todo' = {n \in Name : added'[n] # None}
  BY DEF Plan
<1>2. \A n \in Name : n \notin todo' => ed'.targets[n] = t[n]
  BY <1>1 DEF AddTargets
<1> QED
  BY <1>1, <1>2 DEF EdStored, Stored, HeldSame

(* The steps that change nothing of what is held keep it served. *)
LEMMA ServedHolds ==
  ASSUME Copying, ServedInv, [Next]_vars, HeldSame, ~Writing
  PROVE  FilesTrue' /\ MdStored' /\ EdStored'
<1> USE DEF ServedInv
<1>1. FilesTrue' /\ MdStored'
  BY DEF HeldSame, FilesTrue, MdStored, Stored
<1> SUFFICES EdStored'
  BY <1>1
<1>2. ASSUME NEW tv \in Given, NEW sv \in Given, NEW tsv \in Given, Create(tv, sv, tsv)
      PROVE  EdStored'
  <2>1. LoadLatest.targets \in Targets
    BY LoadedType DEF IInv, TypeInv, DiskInv
  <2>2. kept = {}
    BY <1>2, NothingKept DEF IInv, Bumping, Copying
  <2>3. HeldTargets = targetsMd
    BY <2>2, HeldIsDisk DEF IInv, CommitInv
  <2>4. Stored(LoadLatest.targets, Name)
    <3>1. CASE Present(targetsMd) = {}
      BY <3>1 DEF LoadLatest, Stored, NoTargets
    <3>2. CASE Present(targetsMd) # {}
      <4>1. Latest(targetsMd) \in Version /\ targetsMd[Latest(targetsMd)] # None
        BY <3>2, LatestType
      <4>2. LoadLatest.targets = targetsMd[Latest(targetsMd)].targets
        BY <3>2 DEF LoadLatest
      <4> QED
        BY <2>3, <4>1, <4>2 DEF MdStored
    <3> QED
      BY <3>1, <3>2
  <2> QED
    BY <1>2, <2>1, <2>4, PlanStored DEF Create
<1>3. CASE UpdateBump
  <2>1. /\ fetched \in Chain /\ HeldFiles = files
        /\ \A n \in Name : LET d == fetched.targets.targets[n] IN d # None => files[<<n, d>>] = d
    BY <1>3, Swapped, HeldIsDisk DEF UpdateBump, Update, IInv, CommitInv
  <2>2. fetched.targets.targets \in Targets
    BY <2>1, ChainType
  <2>3. AddTargets(fetched.targets.targets, NoTargets) = fetched.targets.targets
    BY <2>2 DEF AddTargets, NoTargets, Targets
  <2>4. Stored(fetched.targets.targets, Name)
    BY <2>1 DEF Stored
  <2>5. \E tv, sv, tsv : Plan(fetched.targets.targets, tv, sv, tsv)
    BY <1>3, <2>3 DEF UpdateBump, Update
  <2> QED
    BY <2>2, <2>4, <2>5, PlanStored
<1>4. /\ ~UpdateResign /\ ~UpdateIncoming /\ ~UpdateForce
      /\ ~(\E tv, sv, tsv \in Given : Transfer(tv, sv, tsv))
      /\ ~(\E n \in Name, d \in Digest : PlaceFile(n, d))
  BY DEF Copying, UpdateResign, UpdateIncoming, UpdateForce, Transfer, PlaceFile
<1>5. CASE BeginUpdate \/ Commit \/ Crash
  <2>1. pc' \in {"idle", "backup", "swap", "undo", "failed"}
    BY <1>5 DEF BeginUpdate, Commit, BackUp, NothingToBackUp, Swap, Undo, UndoFails, ToDo,
       AllBackedUp, CommitFails, AllUndone, Crash
  <2> QED
    BY <2>1 DEF EdStored
<1>6. CASE AllAdded \/ UNCHANGED vars
  BY <1>6 DEF AllAdded, vars, command, HeldSame, EdStored, Stored
<1> QED
  BY <1>2, <1>3, <1>4, <1>5, <1>6 DEF Next, Writing

(* No step that writes removes the file of a target, or writes another     *)
(* one's contents.                                                         *)
LEMMA ServedWrites ==
  ASSUME ServedInv, TypeInv', Writing, kept = {}, kept' = {}
  PROVE  FilesTrue' /\ MdStored' /\ EdStored'
<1> USE DEF ServedInv, IInv
<1>1. /\ HeldTargets = targetsMd /\ HeldFiles = files
      /\ HeldTargets' = targetsMd' /\ HeldFiles' = files'
  BY NoneKept
<1>2. ASSUME NEW n \in Name, AddFile(n) \/ AddFileFails(n) PROVE FilesTrue' /\ MdStored' /\ EdStored'
  <2>1. ed.targets[n] \in Digest \cup {None} /\ ed.targets \in Targets
    BY DEF TypeInv, TypeOK, EditorRecord, Targets
  <2>2. PICK c \in {ed.targets[n], Torn} :
          files' = files \/ files' = [files EXCEPT ![<<n, ed.targets[n]>>] = c]
    BY <1>2 DEF AddFile, AddFileFails, CopyIn, CopyInTorn
  <2>3. \A k \in Name \X Digest : files[k] # None => files'[k] # None
    BY <2>1, <2>2, EditorAssumption DEF TypeInv, TypeOK
  <2>4. FilesTrue'
    BY <1>1, <2>1, <2>2 DEF FilesTrue, TypeInv, TypeOK
  <2>5. MdStored'
    <3>1. targetsMd' = targetsMd
      BY <1>2 DEF AddFile, AddFileFails, metadata
    <3>2. \A v \in Version : targetsMd[v] # None => targetsMd[v].targets \in [Name -> Digest \cup {None}]
      BY DEF TypeInv, TypeOK, TargetsDoc, Targets
    <3> QED
      BY <1>1, <2>3, <3>1, <3>2 DEF MdStored, Stored
  <2>6. EdStored'
    <3>1. CASE AddFile(n)
      <4>1. ed.targets[n] # None => files'[<<n, ed.targets[n]>>] # None
        BY <2>1, <3>1, EditorAssumption DEF AddFile, CopyIn, AlreadyThere, TypeInv, TypeOK
      <4> QED
        BY <1>1, <2>1, <2>3, <3>1, <4>1 DEF AddFile, EdStored, Stored, Targets
    <3>2. CASE AddFileFails(n)
      BY <3>2 DEF AddFileFails, EdStored
    <3> QED
      BY <1>2, <3>1, <3>2
  <2> QED
    BY <2>4, <2>5, <2>6
<1>3. CASE SignAndWrite
  <2>1. CASE WriteTargets
    BY <1>1, <2>1 DEF WriteTargets, FilesTrue, MdStored, EdStored, Stored, TypeInv, TypeOK
  <2>2. CASE \/ StepFails \/ LoadSigners \/ KeepTargets \/ WriteSnapshot \/ WriteTimestamp \/ AllCopied
             \/ \E n \in Name : SkipTarget(n) \/ TargetRefused(n)
    <3>1. /\ UNCHANGED <<targetsMd, files, ed>>
          /\ pc' \in {"signers", "targets", "snapshot", "timestamp"} =>
               pc \in {"signers", "targets", "snapshot", "timestamp"}
          /\ pc' # "adding"
      BY <2>2 DEF StepFails, LoadSigners, KeepTargets, WriteSnapshot, WriteTimestamp, AllCopied,
         SkipTarget, TargetRefused, disk, metadata
    <3> QED
      BY <1>1, <3>1 DEF FilesTrue, MdStored, EdStored, Stored
  <2>3. ~(\E n \in Name : CopyTarget(n) \/ CopyTargetTorn(n))
    BY DEF CopyTarget, CopyTargetTorn, CommitInv, NoTargets
  <2> QED
    BY <1>3, <2>1, <2>2, <2>3 DEF SignAndWrite
<1> QED
  BY <1>2, <1>3 DEF Writing

(* What is held of the targets is inductive as long as updates bump. *)
LEMMA ServedStep == ASSUME Copying, ServedInv, [Next]_vars PROVE ServedInv'
<1>1. Bumping
  BY DEF Copying, Bumping
<1>2. IInv' /\ (HeldSame \/ (Writing /\ kept = {} /\ kept' = {}))
  BY <1>1, ChainStep, HeldStep DEF ServedInv, IInv
<1>3. Writing => kept = {} /\ kept' = {}
  BY DEF Writing, ServedInv, IInv, CommitInv, Phases, Committing, AddFile, AddFileFails, command,
     SignAndWrite, StepFails, LoadSigners, WriteTargets, KeepTargets, WriteSnapshot,
     WriteTimestamp, AllCopied, SkipTarget, CopyTarget, CopyTargetTorn, TargetRefused
<1> QED
  BY <1>2, <1>3, ServedHolds, ServedWrites DEF ServedInv, IInv

(* The file of every published target is held at every moment, under its   *)
(* name or in its .backup, with its contents or torn by a write that       *)
(* failed: never lost, and never with the contents of another target.      *)
THEOREM UpdateTargetsHeld == Copying => (Spec => []TargetsHeld)
<1> SUFFICES ASSUME Copying PROVE Spec => []TargetsHeld
  OBVIOUS
<1>1. Init => ServedInv
  <2> SUFFICES ASSUME Init PROVE ServedInv
    OBVIOUS
  <2>1. HeldTargets = targetsMd /\ HeldFiles = files
    BY InitInv, HeldIsDisk DEF Init, IInv, CommitInv
  <2> QED
    BY <2>1, InitInv DEF Init, ServedInv, FilesTrue, MdStored, EdStored
<1>2. ServedInv /\ [Next]_vars => ServedInv'
  BY ServedStep
<1>3. ASSUME ServedInv PROVE TargetsHeld
  <2>1. CASE HeldTimestamp = None
    BY <2>1 DEF TargetsHeld, Held!Served, Held!Published
  <2>2. CASE HeldTimestamp # None
    <3> DEFINE md == Held!TargetsOf(HeldTimestamp)
    <3>1. HeldTimestamp.meta.version \in Version
      BY <1>3, <2>2, HeldType DEF ServedInv, IInv, LinkDoc, Ref
    <3>2. Held!SnapshotOf(HeldTimestamp).meta.version \in Version
      BY <1>3, <2>2, <3>1, HeldType
         DEF ServedInv, IInv, ChainHeld, Held!ChainIntact, Held!Published, Held!SnapshotOf,
             LinkDoc, Ref
    <3>3. \E v \in Version : HeldTargets[v] = md /\ md # None
      BY <1>3, <2>2, <3>2
         DEF ServedInv, IInv, ChainHeld, Held!ChainIntact, Held!Published, Held!TargetsOf
    <3>4. md.targets \in Targets /\ Stored(md.targets, Name)
      BY <1>3, <3>3, HeldType DEF ServedInv, IInv, MdStored, TargetsDoc
    <3> HIDE DEF md
    <3>5. \A n \in Name : LET d == md.targets[n]
                          IN d # None => HeldFiles[<<n, d>>] \in {d, Torn}
      BY <1>3, <3>4 DEF ServedInv, FilesTrue, Stored, Targets
    <3> QED
      BY <3>5 DEF TargetsHeld, Held!Served, md
  <2> QED
    BY <2>1, <2>2
<1>4. ServedInv => TargetsHeld
  BY <1>3
<1> QED
  BY <1>1, <1>2, <1>4, PTL DEF Spec
=============================================================================
