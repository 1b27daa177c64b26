---------------------------- MODULE CommitStaged ----------------------------
(***************************************************************************)
(* commitStagedMetadata (internal/editor/metadata.go): the files fetched   *)
(* into a staging directory replace those of the output directory in five  *)
(* phases, with a rollback when a phase fails.                             *)
(*                                                                         *)
(* A path of the output directory has three places on disk: the file       *)
(* itself, "<file>.staged" and "<file>.backup".  What a place holds is the *)
(* number of the call that produced it; 0 is "no such file".  The loops of *)
(* the code run over the staged files in the order ReadDir(-1) returned    *)
(* them, which is arbitrary, so a phase takes any file it has not taken.   *)
(***************************************************************************)
EXTENDS Integers

CONSTANTS File,     \* paths, relative to the staging and output directories
          Fault,    \* the failures of the operating system that can happen
          MaxGen    \* bound: calls of commitStagedMetadata in a behaviour

FaultKind == {"stage",   \* WriteFileAtomic fails before its rename
              "sync",    \* WriteFileAtomic fails after its rename (syncDir)
              "stat",    \* os.Stat of an existing destination fails
              "backup",  \* renaming the destination to .backup fails
              "swap",    \* renaming .staged to the destination fails
              "undo",    \* putting a file back in the rollback fails
              "clean",   \* removing a .staged file after an error fails
              "tidy",    \* removing a .backup after the commit fails
              "crash"}   \* the process dies

ASSUME CommitAssumption == MaxGen \in Nat /\ Fault \subseteq FaultKind

VARIABLES dest, stg, bak,   \* on disk: the file, .staged, .backup
          gen,              \* number of the current (or last) call
          pc,               \* phase of the call
          batch,            \* the files it commits
          staged,           \* phase 2: files in stagedPaths
          seen,             \* phase 3: files that have a fileBackup entry
          existed,          \* ... those whose entry says existed
          swapped,          \* phase 4: files renamed to their final name
          undone,           \* rollback: files already treated
          result,           \* what the last call returned
          before,           \* dest as it was when the call began
          unhandled         \* history: <<fault, file>> of the call, unhandled, the errors
                            \* that it takes no notice of or does not repair

disk == <<dest, stg, bak>>
call == <<gen, batch, before>>
vars == <<dest, stg, bak, gen, pc, batch, staged, seen, existed, swapped,
          undone, result, before, unhandled>>

Absent == 0
Content == 0 .. MaxGen

(* The variables keep their types: commitStagedMetadata records only files *)
(* of its batch, and a backup only for a file it has looked at.            *)
TypeOK ==
  /\ dest \in [File -> Content] /\ stg \in [File -> Content]
  /\ bak \in [File -> Content] /\ before \in [File -> Content]
  /\ gen \in Content
  /\ pc \in {"idle", "stage", "backup", "swap", "tidy", "rollback", "unstage"}
  /\ batch \subseteq File /\ staged \subseteq batch /\ seen \subseteq batch
  /\ existed \subseteq seen /\ swapped \subseteq batch /\ undone \subseteq batch
  /\ result \in {"none", "ok", "err", "crashed"}
  /\ unhandled \subseteq {"sync", "stat", "undo", "clean", "tidy"} \X batch

Init ==
  /\ dest = [f \in File |-> Absent] /\ stg = dest /\ bak = dest /\ before = dest
  /\ gen = 0 /\ pc = "idle" /\ result = "none"
  /\ batch = {} /\ staged = {} /\ seen = {} /\ existed = {}
  /\ swapped = {} /\ undone = {} /\ unhandled = {}

(* Faulty Begin: the entries of the call before are not dropped. *)
BeginKeepingEntries ==
  /\ pc = "idle" /\ gen < MaxGen
  /\ gen' = gen + 1 /\ batch' \in (SUBSET File) \ {{}} /\ before' = dest
  /\ pc' = "stage" /\ staged' = {} /\ swapped' = {} /\ undone' = {} /\ unhandled' = {}
  /\ UNCHANGED <<disk, seen, existed, result>>

(* The staged files have been read into memory (phase 1). *)
Begin ==
  /\ pc = "idle" /\ gen < MaxGen
  /\ gen' = gen + 1
  /\ batch' \in (SUBSET File) \ {{}}
  /\ before' = dest
  /\ pc' = "stage"
  /\ staged' = {} /\ seen' = {} /\ existed' = {}
  /\ swapped' = {} /\ undone' = {} /\ unhandled' = {}
  /\ UNCHANGED <<disk, result>>

Unhandled(fault, f) == unhandled' = unhandled \cup {<<fault, f>>}

(* Phase 2: WriteFileAtomic(stagedPath, data). *)
Stage(f) ==
  /\ pc = "stage" /\ f \in batch \ staged
  /\ stg' = [stg EXCEPT ![f] = gen]
  /\ staged' = staged \cup {f}
  /\ UNCHANGED <<dest, bak, call, unhandled, pc, seen, existed, swapped, undone, result>>

(* The write fails: stagedPaths, which f has not joined, is cleaned up. *)
StageFails(f) ==
  /\ pc = "stage" /\ f \in batch \ staged
  /\ \/ "stage" \in Fault /\ UNCHANGED <<stg, unhandled>>
     \/ "sync" \in Fault /\ stg' = [stg EXCEPT ![f] = gen] /\ Unhandled("sync", f)
  /\ pc' = "unstage"
  /\ UNCHANGED <<dest, bak, call, staged, seen, existed, swapped, undone, result>>

BeginBackup ==
  /\ pc = "stage" /\ staged = batch
  /\ pc' = "backup"
  /\ UNCHANGED <<disk, call, unhandled, staged, seen, existed, swapped, undone, result>>

(* Phase 3: a destination that os.Stat finds is renamed to .backup. *)
Backup(f) ==
  /\ pc = "backup" /\ f \in batch \ seen
  /\ dest[f] # Absent
  /\ bak' = [bak EXCEPT ![f] = dest[f]]
  /\ dest' = [dest EXCEPT ![f] = Absent]
  /\ seen' = seen \cup {f} /\ existed' = existed \cup {f}
  /\ UNCHANGED <<stg, call, unhandled, pc, staged, swapped, undone, result>>

(* Faulty NothingToBackUp: whether the destination exists is not asked. *)
NeverBackedUp(f) ==
  /\ pc = "backup" /\ f \in batch \ seen
  /\ seen' = seen \cup {f}
  /\ UNCHANGED <<disk, call, unhandled, pc, staged, existed, swapped, undone, result>>

(* Any error of os.Stat is taken to mean that there is no destination. *)
NothingToBackUp(f) ==
  /\ pc = "backup" /\ f \in batch \ seen
  /\ \/ dest[f] = Absent /\ UNCHANGED unhandled
     \/ dest[f] # Absent /\ "stat" \in Fault /\ Unhandled("stat", f)
  /\ seen' = seen \cup {f}
  /\ UNCHANGED <<disk, call, pc, staged, existed, swapped, undone, result>>

(* Faulty BackupFails: the backups already made are not restored. *)
BackupFailsUnrestored(f) ==
  /\ pc = "backup" /\ f \in batch \ seen
  /\ dest[f] # Absent /\ "backup" \in Fault
  /\ pc' = "unstage"
  /\ UNCHANGED <<disk, call, unhandled, staged, seen, existed, swapped, undone, result>>

BackupFails(f) ==
  /\ pc = "backup" /\ f \in batch \ seen
  /\ dest[f] # Absent /\ "backup" \in Fault
  /\ pc' = "rollback"
  /\ UNCHANGED <<disk, call, unhandled, staged, seen, existed, swapped, undone, result>>

BeginSwap ==
  /\ pc = "backup" /\ seen = batch
  /\ pc' = "swap"
  /\ UNCHANGED <<disk, call, unhandled, staged, seen, existed, swapped, undone, result>>

(* Phase 4: rename .staged to the final name. *)
Swap(f) ==
  /\ pc = "swap" /\ f \in batch \ swapped
  /\ dest' = [dest EXCEPT ![f] = stg[f]]
  /\ stg' = [stg EXCEPT ![f] = Absent]
  /\ swapped' = swapped \cup {f}
  /\ UNCHANGED <<bak, call, unhandled, pc, staged, seen, existed, undone, result>>

SwapFails ==
  /\ pc = "swap" /\ swapped # batch /\ "swap" \in Fault
  /\ pc' = "rollback"
  /\ UNCHANGED <<disk, call, unhandled, staged, seen, existed, swapped, undone, result>>

BeginTidy ==
  /\ pc = "swap" /\ swapped = batch
  /\ pc' = "tidy"
  /\ UNCHANGED <<disk, call, unhandled, staged, seen, existed, swapped, undone, result>>

(* Faulty Restore: a swapped file that had no backup is not removed. *)
RestoreBackedUp(f) ==
  IF f \in existed
  THEN dest' = [dest EXCEPT ![f] = bak[f]] /\ bak' = [bak EXCEPT ![f] = Absent]
  ELSE UNCHANGED <<dest, bak>>

(* What rollbackSwapped and restoreBackups do to one file, best effort. *)
Restore(f) ==
  IF f \in existed
  THEN /\ dest' = [dest EXCEPT ![f] = bak[f]]
       /\ bak' = [bak EXCEPT ![f] = Absent]
  ELSE /\ dest' = IF f \in swapped THEN [dest EXCEPT ![f] = Absent] ELSE dest
       /\ UNCHANGED bak

(* rollbackSwapped treats the swapped files, then restoreBackups the rest. *)
Rollback(f) ==
  /\ pc = "rollback" /\ f \in seen \ undone
  /\ f \in swapped \/ swapped \subseteq undone
  /\ \/ Restore(f) /\ UNCHANGED unhandled
     \/ "undo" \in Fault /\ UNCHANGED <<dest, bak>> /\ Unhandled("undo", f)
  /\ undone' = undone \cup {f}
  /\ UNCHANGED <<stg, call, pc, staged, seen, existed, swapped, result>>

BeginUnstage ==
  /\ pc = "rollback" /\ undone = seen
  /\ pc' = "unstage"
  /\ UNCHANGED <<disk, call, unhandled, staged, seen, existed, swapped, undone, result>>

(* cleanupStagedFiles: the .staged files that were not renamed away. *)
Unstage(f) ==
  /\ pc = "unstage" /\ f \in staged \ swapped
  /\ \/ stg' = [stg EXCEPT ![f] = Absent] /\ UNCHANGED unhandled
     \/ "clean" \in Fault /\ UNCHANGED stg /\ Unhandled("clean", f)
  /\ staged' = staged \ {f}
  /\ UNCHANGED <<dest, bak, call, pc, seen, existed, swapped, undone, result>>

(* Faulty ReturnError: cleanupStagedFiles is not called. *)
ReturnErrorAtOnce ==
  /\ pc = "unstage"
  /\ pc' = "idle" /\ result' = "err"
  /\ UNCHANGED <<disk, call, unhandled, staged, seen, existed, swapped, undone>>

ReturnError ==
  /\ pc = "unstage" /\ staged \subseteq swapped
  /\ pc' = "idle" /\ result' = "err"
  /\ UNCHANGED <<disk, call, unhandled, staged, seen, existed, swapped, undone>>

(* Phase 5: remove the .backup files; errors are ignored. *)
Tidy(f) ==
  /\ pc = "tidy" /\ f \in existed \ undone
  /\ \/ bak' = [bak EXCEPT ![f] = Absent] /\ UNCHANGED unhandled
     \/ "tidy" \in Fault /\ UNCHANGED bak /\ Unhandled("tidy", f)
  /\ undone' = undone \cup {f}
  /\ UNCHANGED <<dest, stg, call, pc, staged, seen, existed, swapped, result>>

ReturnNil ==
  /\ pc = "tidy" /\ undone = existed
  /\ pc' = "idle" /\ result' = "ok"
  /\ UNCHANGED <<disk, call, unhandled, staged, seen, existed, swapped, undone>>

(* The process dies; nothing of the disk is repaired by a later call. *)
Crash ==
  /\ "crash" \in Fault /\ pc # "idle"
  /\ pc' = "idle" /\ result' = "crashed"
  /\ UNCHANGED <<disk, call, unhandled, staged, seen, existed, swapped, undone>>

FileStep(f) ==
  \/ Stage(f) \/ StageFails(f)
  \/ Backup(f) \/ NothingToBackUp(f) \/ BackupFails(f)
  \/ Swap(f) \/ Rollback(f) \/ Unstage(f) \/ Tidy(f)

PhaseStep ==
  \/ BeginBackup \/ BeginSwap \/ SwapFails \/ BeginTidy
  \/ BeginUnstage \/ ReturnError \/ ReturnNil

Next == Begin \/ Crash \/ PhaseStep \/ \E f \in File : FileStep(f)

Spec == Init /\ [][Next]_vars

-----------------------------------------------------------------------------
(* The files a failure may have left different: os.Stat did not see them,  *)
(* or the rollback could not put them back.                                *)
Lost == {f \in batch : <<"stat", f>> \in unhandled \/ <<"undo", f>> \in unhandled}

(* The call returns with all of the batch in place, or with every file of   *)
(* the output directory as it was when the call began, but for those whose  *)
(* own restoration failed: the rollback is there "to prevent mixed          *)
(* repository versions on failure", and gives up on no other file.          *)
AllOrNothing ==
  pc = "idle" =>
    /\ result = "ok" => dest = [f \in File |-> IF f \in batch THEN gen ELSE before[f]]
    /\ result = "err" => \A f \in File \ Lost : dest[f] = before[f]

(* Until the last rename of phase 4 every file that os.Stat found when the *)
(* call began is still there under its own name or as its .backup, also    *)
(* when the process dies or the rollback itself fails.                     *)
OldCopySurvives ==
  swapped # batch =>
    \A f \in File : before[f] # Absent /\ <<"stat", f>> \notin unhandled
                     => before[f] \in {dest[f], bak[f]}

(* A call that has returned leaves none of its own .staged or .backup      *)
(* files in the directory it serves from, except where the directory sync  *)
(* after writing that very file, its removal or its restoration failed.    *)
NothingLeftBehind ==
  pc = "idle" /\ result \in {"ok", "err"} =>
    \A f \in batch :
      /\ stg[f] = gen => {<<"sync", f>>, <<"clean", f>>} \cap unhandled # {}
      /\ f \in existed /\ bak[f] # Absent
           => {<<"undo", f>>, <<"tidy", f>>} \cap unhandled # {}

-----------------------------------------------------------------------------
(* The directory a rollback would restore from what is on disk now: until  *)
(* the last rename the old one, from then on the new one.                  *)
Committed == pc \in {"swap", "tidy"} /\ swapped = batch

Pending(f) ==
  /\ pc \in {"backup", "swap", "rollback"} /\ ~Committed
  /\ f \in seen \ undone /\ f \notin Lost

Recoverable ==
  [f \in File |-> IF Pending(f) THEN IF f \in existed THEN bak[f] ELSE Absent
                                ELSE dest[f]]

Outcome ==
  IF pc = "idle" THEN result
  ELSE IF Committed THEN "ok" ELSE "running"

(* The five phases and the rollback implement the one-step commit of       *)
(* AtomicCommit.                                                           *)
Atomic == INSTANCE AtomicCommit WITH repo <- Recoverable, outcome <- Outcome, lost <- Lost
RefinesAtomicCommit == Atomic!Spec
=============================================================================
