------------------------------- MODULE Editor -------------------------------
(***************************************************************************)
(* The repository on disk and the part of internal/editor that every       *)
(* publishing command shares: loading the newest metadata, copying target  *)
(* files and SignAndWrite, one step per file written.  The commands        *)
(* (create, update, rhtas) are modules that extend this one.               *)
(*                                                                         *)
(* Abstractions.  The contents of a target file and their digest are one   *)
(* value.  The bytes of a metadata file are its version, what it says and  *)
(* `by', the number of the run that signed it: RSA-PSS and ECDSA           *)
(* signatures are randomised, so the same metadata signed by another run   *)
(* has other bytes and another hash.  root.json does not change while      *)
(* these commands run.  Expiry dates are left out.                         *)
(***************************************************************************)
EXTENDS Integers

CONSTANTS Name,         \* target names
          Digest,       \* contents of target files
          None,         \* no such file, no such entry
          Torn,         \* contents of a file whose writing was cut short
          Fault,        \* the failures that can happen
          MaxVersion,   \* bound: versions of a metadata file
          MaxRun        \* bound: runs of a publishing command

Version == 1 .. MaxVersion

FaultKind == {"sign",    \* a signing key is missing, wrong or unreachable
              "disk",    \* reading, writing or renaming a file fails
              "stat",    \* looking for a file that is there fails
              "tear",    \* a target file is cut short: disk full, or death
              "remove",  \* removing a target file fails (rhtas)
              "crash"}   \* the process dies

ASSUME EditorAssumption ==
  /\ MaxVersion \in Nat \ {0} /\ MaxRun \in Nat
  /\ Fault \subseteq FaultKind
  /\ None \notin Digest /\ Torn \notin Digest /\ None # Torn

VARIABLES targetsMd,    \* <v>.targets.json, by version
          snapshotMd,   \* <v>.snapshot.json, by version
          timestampMd,  \* timestamp.json
          files,        \* targets/<digest>.<name>: what the file contains
          plain,        \* targets/<name>: files without the digest prefix
          run,          \* number of the current (or last) run
          pc,           \* where it stands
          ed,           \* the Editor of the run: metadata in memory
          copied        \* targets SignAndWrite's last loop has treated

metadata == <<targetsMd, snapshotMd, timestampMd>>
disk == <<targetsMd, snapshotMd, timestampMd, files, plain>>

(* What a MetaFiles entry pins: a version and the hash of the bytes. *)
Ref == [version : Version, by : 1 .. MaxRun]
RefTo(md) == [version |-> md.version, by |-> md.by]

Targets == [Name -> Digest \cup {None}]
TargetsDoc == [version : Version, by : 1 .. MaxRun, targets : Targets]
LinkDoc == [version : Version, by : 1 .. MaxRun, meta : Ref]

ASSUME NoneAssumption == None \notin TargetsDoc /\ None \notin LinkDoc

Policy == {"skip", "replace", "fail"}

EditorRecord ==
  [targets : Targets, tv : Version, sv : Version, tsv : Version,
   policy : Policy, reuse : BOOLEAN]

NoTargets == [n \in Name |-> None]

(* FindLatestVersionedFile: the file with the highest version number.  *)
Present(dir) == {v \in Version : dir[v] # None}
Latest(dir) == CHOOSE v \in Present(dir) : \A w \in Present(dir) : w <= v

-----------------------------------------------------------------------------
(* The Editor that LoadRepository returns: the highest-numbered targets    *)
(* and snapshot, whether or not they were published, the timestamp, and    *)
(* the version 1 defaults for what is missing.                             *)
LoadLatest ==
  [targets |-> IF Present(targetsMd) = {} THEN NoTargets
               ELSE targetsMd[Latest(targetsMd)].targets,
   tv |-> IF Present(targetsMd) = {} THEN 1 ELSE Latest(targetsMd),
   sv |-> IF Present(snapshotMd) = {} THEN 1 ELSE Latest(snapshotMd),
   tsv |-> IF timestampMd = None THEN 1 ELSE timestampMd.version]

(* Faulty AddTargets: the map is started anew. *)
AddTargetsAnew(targets, added) == added

(* AddTarget for every entry of the function added. *)
AddTargets(targets, added) ==
  [n \in Name |-> IF added[n] # None THEN added[n] ELSE targets[n]]

(* CopyTargetToRepo: the file at the digest-prefixed path may be there     *)
(* already.  os.WriteFile truncates it and then writes, without a rename.  *)
AlreadyThere(n) == files[<<n, ed.targets[n]>>] # None

(* Faulty CopyIn: the policy is asked about the name, not the digest. *)
CopyInByName(n) ==
  LET there == \E d \in Digest : files[<<n, d>>] # None
  IN /\ ~(there /\ ed.policy = "fail")
     /\ files' = IF there /\ ed.policy = "skip" THEN files
                 ELSE [files EXCEPT ![<<n, ed.targets[n]>>] = ed.targets[n]]

CopyIn(n) ==
  /\ ~(AlreadyThere(n) /\ ed.policy = "fail")
  /\ files' = IF AlreadyThere(n) /\ ed.policy = "skip" THEN files
              ELSE [files EXCEPT ![<<n, ed.targets[n]>>] = ed.targets[n]]

CopyInTorn(n) ==
  /\ "tear" \in Fault
  /\ ~AlreadyThere(n) \/ ed.policy = "replace"
  /\ files' = [files EXCEPT ![<<n, ed.targets[n]>>] = Torn]

CopyInRefused(n) == AlreadyThere(n) /\ ed.policy = "fail"

-----------------------------------------------------------------------------
(* SignAndWrite.  Loading the signers and each SignForRole may fail; so    *)
(* may every call that touches a file, before its effect or (the sync of   *)
(* WriteFileAtomic) after it.                                              *)
StepFails ==
  /\ \/ "sign" \in Fault /\ pc \in {"signers", "snapshot", "timestamp"}
     \/ "sign" \in Fault /\ pc = "targets" /\ ~ed.reuse
     \/ "disk" \in Fault /\ pc \in {"signers", "targets", "snapshot", "timestamp", "copy"}
  /\ pc' = "failed"
  /\ UNCHANGED <<disk, run, ed, copied>>

LoadSigners ==
  /\ pc = "signers" /\ pc' = "targets"
  /\ UNCHANGED <<disk, run, ed, copied>>

(* Faulty WriteTargets: targets that did not change are signed again. *)
WriteTargetsAnyway ==
  /\ pc = "targets"
  /\ targetsMd' = [targetsMd EXCEPT ![ed.tv] =
                     [version |-> ed.tv, by |-> run, targets |-> ed.targets]]
  /\ pc' = "snapshot"
  /\ UNCHANGED <<snapshotMd, timestampMd, files, plain, run, ed, copied>>

WriteTargets ==
  /\ pc = "targets" /\ ~ed.reuse
  /\ targetsMd' = [targetsMd EXCEPT ![ed.tv] =
                     [version |-> ed.tv, by |-> run, targets |-> ed.targets]]
  /\ pc' = "snapshot"
  /\ UNCHANGED <<snapshotMd, timestampMd, files, plain, run, ed, copied>>

(* ReuseTargets: the file of the version in memory has to be there. *)
KeepTargets ==
  /\ pc = "targets" /\ ed.reuse
  /\ pc' = IF targetsMd[ed.tv] = None THEN "failed" ELSE "snapshot"
  /\ UNCHANGED <<disk, run, ed, copied>>

(* Faulty WriteSnapshot: hashes the newest targets file of the directory.  *)
WriteSnapshotOfLatest ==
  /\ pc = "snapshot"
  /\ snapshotMd' = [snapshotMd EXCEPT ![ed.sv] =
       [version |-> ed.sv, by |-> run,
        meta |-> [version |-> ed.tv, by |-> targetsMd[Latest(targetsMd)].by]]]
  /\ pc' = "timestamp"
  /\ UNCHANGED <<targetsMd, timestampMd, files, plain, run, ed, copied>>

(* Faulty WriteSnapshot: hashes the targets in memory, reused or not. *)
WriteSnapshotOfMemory ==
  /\ pc = "snapshot"
  /\ snapshotMd' = [snapshotMd EXCEPT ![ed.sv] =
       [version |-> ed.sv, by |-> run, meta |-> [version |-> ed.tv, by |-> run]]]
  /\ pc' = "timestamp"
  /\ UNCHANGED <<targetsMd, timestampMd, files, plain, run, ed, copied>>

(* ComputeMetaFileInfo hashes the file on disk. *)
WriteSnapshot ==
  /\ pc = "snapshot"
  /\ snapshotMd' = [snapshotMd EXCEPT ![ed.sv] =
       [version |-> ed.sv, by |-> run, meta |-> RefTo(targetsMd[ed.tv])]]
  /\ pc' = "timestamp"
  /\ UNCHANGED <<targetsMd, timestampMd, files, plain, run, ed, copied>>

(* Faulty WriteTimestamp: the MetaFiles entry has no hash. *)
WriteTimestampUnhashed ==
  /\ pc = "timestamp"
  /\ timestampMd' = [version |-> ed.tsv, by |-> run, meta |-> [version |-> ed.sv]]
  /\ pc' = "copy" /\ copied' = {}
  /\ UNCHANGED <<targetsMd, snapshotMd, files, plain, run, ed>>

WriteTimestamp ==
  /\ pc = "timestamp"
  /\ timestampMd' = [version |-> ed.tsv, by |-> run,
                     meta |-> RefTo(snapshotMd[ed.sv])]
  /\ pc' = "copy" /\ copied' = {}
  /\ UNCHANGED <<targetsMd, snapshotMd, files, plain, run, ed>>

(* One iteration of the last loop, over the targets in memory in the       *)
(* arbitrary order of a Go map.                                            *)
ToCopy == {n \in Name \ copied : ed.targets[n] # None}

Prefixed(n) == files[<<n, ed.targets[n]>>]

SkipTarget(n) ==
  /\ pc = "copy" /\ n \in ToCopy
  /\ Prefixed(n) # None
  /\ ed.policy = "skip" \/ (ed.policy = "replace" /\ plain[n] = None)
  /\ copied' = copied \cup {n}
  /\ UNCHANGED <<disk, run, pc, ed>>

CopyTarget(n) ==
  /\ pc = "copy" /\ n \in ToCopy
  /\ plain[n] # None
  /\ Prefixed(n) = None \/ ed.policy = "replace"
  /\ files' = [files EXCEPT ![<<n, ed.targets[n]>>] = plain[n]]
  /\ plain' = [plain EXCEPT ![n] = None]
  /\ copied' = copied \cup {n}
  /\ UNCHANGED <<metadata, run, pc, ed>>

(* copyTargetFile truncates the destination before it copies. *)
CopyTargetTorn(n) ==
  /\ pc = "copy" /\ n \in ToCopy /\ "tear" \in Fault
  /\ plain[n] # None
  /\ Prefixed(n) = None \/ ed.policy = "replace"
  /\ files' = [files EXCEPT ![<<n, ed.targets[n]>>] = Torn]
  /\ pc' = "failed"
  /\ UNCHANGED <<metadata, plain, run, ed, copied>>

(* The error of the fail policy, and the error of a missing file. *)
TargetRefused(n) ==
  /\ pc = "copy" /\ n \in ToCopy
  /\ \/ Prefixed(n) # None /\ ed.policy = "fail"
     \/ Prefixed(n) = None /\ plain[n] = None
  /\ pc' = "failed"
  /\ UNCHANGED <<disk, run, ed, copied>>

AllCopied ==
  /\ pc = "copy" /\ ToCopy = {}
  /\ pc' = "written"
  /\ UNCHANGED <<disk, run, ed, copied>>

SignAndWrite ==
  \/ StepFails \/ LoadSigners \/ WriteTargets \/ KeepTargets
  \/ WriteSnapshot \/ WriteTimestamp \/ AllCopied
  \/ \E n \in Name : SkipTarget(n) \/ CopyTarget(n) \/ CopyTargetTorn(n)
                    \/ TargetRefused(n)

(* The process dies, at a prompt for a passphrase or anywhere else: no     *)
(* deferred call runs.                                                     *)
Crash ==
  /\ "crash" \in Fault /\ pc # "idle"
  /\ pc' = "idle"
  /\ UNCHANGED <<disk, run, ed, copied>>

-----------------------------------------------------------------------------
(* What a client that starts from timestamp.json is led to. *)
Published == timestampMd # None
SnapshotOf(ts) == snapshotMd[ts.meta.version]
TargetsOf(ts) == targetsMd[SnapshotOf(ts).meta.version]

(* The published chain: every file that timestamp.json leads to is there   *)
(* and is the one whose hash the file above it records.                    *)
ChainIntact ==
  Published =>
    /\ SnapshotOf(timestampMd) # None
    /\ RefTo(SnapshotOf(timestampMd)) = timestampMd.meta
    /\ TargetsOf(timestampMd) # None
    /\ RefTo(TargetsOf(timestampMd)) = SnapshotOf(timestampMd).meta

(* The file of a published target is there and has the published contents. *)
Served(n) ==
  Published => LET d == TargetsOf(timestampMd).targets[n]
               IN  d # None => files[<<n, d>>] = d
=============================================================================
