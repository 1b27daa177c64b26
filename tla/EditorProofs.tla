---------------------------- MODULE EditorProofs ----------------------------
(***************************************************************************)
(* What SignAndWrite preserves, whichever command runs it.  ChainInv is    *)
(* ChainIntact strengthened into an inductive invariant: a run that is yet *)
(* to publish writes none of the files that timestamp.json leads to, and   *)
(* when it comes to write a file, the file that it refers to is the one it *)
(* has just written (or reuses).                                           *)
(***************************************************************************)
EXTENDS Editor, FiniteSetTheorems, TLAPS

(* The states of a run before it has written timestamp.json. *)
Planned == pc \in {"adding", "set", "save", "signers", "targets", "snapshot", "timestamp"}

DiskType ==
  /\ targetsMd \in [Version -> TargetsDoc \cup {None}]
  /\ snapshotMd \in [Version -> LinkDoc \cup {None}]
  /\ timestampMd \in LinkDoc \cup {None}
  /\ ed \in EditorRecord
  /\ run \in 0 .. MaxRun
  /\ Planned => run >= 1

(* The version inside a file is the one in its name. *)
Indexed ==
  /\ \A v \in Version : targetsMd[v] # None => targetsMd[v].version = v
  /\ \A v \in Version : snapshotMd[v] # None => snapshotMd[v].version = v

Flow ==
  /\ pc \in {"snapshot", "timestamp"} => targetsMd[ed.tv] # None
  /\ pc = "timestamp" =>
       /\ snapshotMd[ed.sv] # None
       /\ snapshotMd[ed.sv].meta = RefTo(targetsMd[ed.tv])

Ahead ==
  Planned /\ Published =>
    /\ ed.sv # timestampMd.meta.version
    /\ ed.reuse \/ ed.tv # SnapshotOf(timestampMd).meta.version

DiskInv == DiskType /\ Indexed /\ Flow
ChainInv == DiskInv /\ ChainIntact /\ Ahead

(* What the written documents are made of. *)
LEMMA DocTypes ==
  /\ \A v \in Version, b \in 1 .. MaxRun, t \in Targets :
       [version |-> v, by |-> b, targets |-> t] \in TargetsDoc
  /\ \A v \in Version, b \in 1 .. MaxRun, r \in Ref :
       [version |-> v, by |-> b, meta |-> r] \in LinkDoc
  /\ \A md \in TargetsDoc \cup LinkDoc : RefTo(md) \in Ref
  BY DEF TargetsDoc, LinkDoc, Ref, RefTo

(* Every step of SignAndWrite keeps the types and the names of the files,  *)
(* whatever versions it was given.                                         *)
LEMMA SignAndWriteDisk == ASSUME DiskInv, SignAndWrite PROVE DiskInv'
<1> USE DEF DiskInv, DiskType, Indexed, Flow, Planned, disk, metadata
<1>0. None \notin TargetsDoc /\ None \notin LinkDoc
  BY NoneAssumption
<1>1. CASE StepFails
  BY <1>1 DEF StepFails
<1>2. CASE LoadSigners
  BY <1>2 DEF LoadSigners
<1>3. CASE WriteTargets
  <2> DEFINE new == [version |-> ed.tv, by |-> run, targets |-> ed.targets]
  <2>1. ed.tv \in Version /\ ed.sv \in Version /\ ed.targets \in Targets /\ run \in 1 .. MaxRun
    BY <1>3 DEF WriteTargets, EditorRecord
  <2>2. new \in TargetsDoc /\ new # None /\ new.version = ed.tv
    BY <1>0, <2>1, DocTypes
  <2>3. targetsMd' = [targetsMd EXCEPT ![ed.tv] = new]
    BY <1>3 DEF WriteTargets
  <2> QED
    BY <1>3, <2>1, <2>2, <2>3 DEF WriteTargets
<1>4. CASE KeepTargets
  BY <1>4 DEF KeepTargets
<1>5. CASE WriteSnapshot
  <2> DEFINE new == [version |-> ed.sv, by |-> run, meta |-> RefTo(targetsMd[ed.tv])]
  <2>1. ed.tv \in Version /\ ed.sv \in Version /\ run \in 1 .. MaxRun
    BY <1>5 DEF WriteSnapshot, EditorRecord
  <2>2. targetsMd[ed.tv] \in TargetsDoc
    BY <1>5, <2>1 DEF WriteSnapshot
  <2>3. new \in LinkDoc /\ new # None /\ new.version = ed.sv /\ new.meta = RefTo(targetsMd[ed.tv])
    BY <1>0, <2>1, <2>2, DocTypes
  <2>4. snapshotMd' = [snapshotMd EXCEPT ![ed.sv] = new]
    BY <1>5 DEF WriteSnapshot
  <2> QED
    BY <1>5, <2>1, <2>2, <2>3, <2>4 DEF WriteSnapshot
<1>6. CASE WriteTimestamp
  <2>1. ed.sv \in Version /\ ed.tsv \in Version /\ run \in 1 .. MaxRun
    BY <1>6 DEF WriteTimestamp, EditorRecord
  <2>2. snapshotMd[ed.sv] \in LinkDoc
    BY <1>6, <2>1 DEF WriteTimestamp
  <2>3. timestampMd' \in LinkDoc
    BY <1>6, <2>1, <2>2, DocTypes DEF WriteTimestamp
  <2> QED
    BY <1>6, <2>1, <2>3 DEF WriteTimestamp
<1>7. CASE AllCopied
  BY <1>7 DEF AllCopied
<1>8. CASE \E n \in Name : SkipTarget(n) \/ CopyTarget(n) \/ CopyTargetTorn(n) \/ TargetRefused(n)
  BY <1>8 DEF SkipTarget, CopyTarget, CopyTargetTorn, TargetRefused
<1> QED
  BY <1>1, <1>2, <1>3, <1>4, <1>5, <1>6, <1>7, <1>8 DEF SignAndWrite

(* Every step of SignAndWrite keeps the published chain intact. *)
LEMMA SignAndWriteChain == ASSUME ChainInv, SignAndWrite PROVE ChainInv'
<1> USE DEF ChainInv, DiskInv, Planned, Published, SnapshotOf, TargetsOf
<1>0. DiskInv'
  BY SignAndWriteDisk
<1>1. ASSUME UNCHANGED <<metadata, ed>>, Planned' => Planned PROVE ChainInv'
  BY <1>0, <1>1 DEF metadata, ChainIntact, Ahead
<1>2. CASE StepFails \/ LoadSigners \/ KeepTargets \/ AllCopied
  BY <1>1, <1>2 DEF StepFails, LoadSigners, KeepTargets, AllCopied, disk, metadata
<1>3. CASE \E n \in Name : SkipTarget(n) \/ CopyTarget(n) \/ CopyTargetTorn(n) \/ TargetRefused(n)
  BY <1>1, <1>3 DEF SkipTarget, CopyTarget, CopyTargetTorn, TargetRefused, disk, metadata
<1>4. CASE WriteTargets
  <2>1. Published => targetsMd'[SnapshotOf(timestampMd).meta.version]
                     = targetsMd[SnapshotOf(timestampMd).meta.version]
    BY <1>4 DEF WriteTargets, Ahead, DiskType
  <2> QED
    BY <1>0, <1>4, <2>1 DEF WriteTargets, ChainIntact, Ahead
<1>5. CASE WriteSnapshot
  <2>1. Published => snapshotMd'[timestampMd.meta.version] = snapshotMd[timestampMd.meta.version]
    BY <1>5 DEF WriteSnapshot, Ahead, DiskType
  <2> QED
    BY <1>0, <1>5, <2>1 DEF WriteSnapshot, ChainIntact, Ahead
<1>6. CASE WriteTimestamp
  <2>1. ed.sv \in Version /\ ed.tv \in Version
    BY DEF DiskType, EditorRecord
  <2>2. /\ snapshotMd[ed.sv] # None /\ snapshotMd[ed.sv].version = ed.sv
        /\ targetsMd[ed.tv] # None /\ targetsMd[ed.tv].version = ed.tv
        /\ snapshotMd[ed.sv].meta = RefTo(targetsMd[ed.tv])
    BY <1>6, <2>1 DEF WriteTimestamp, Flow, Indexed
  <2>3. timestampMd'.meta = RefTo(snapshotMd[ed.sv]) /\ UNCHANGED <<targetsMd, snapshotMd>>
    BY <1>6 DEF WriteTimestamp
  <2>4. timestampMd'.meta.version = ed.sv /\ snapshotMd[ed.sv].meta.version = ed.tv
    BY <2>2, <2>3 DEF RefTo
  <2>5. ChainIntact'
    BY <2>2, <2>3, <2>4 DEF ChainIntact
  <2> QED
    BY <1>0, <1>6, <2>5 DEF WriteTimestamp, Ahead
<1> QED
  BY <1>2, <1>3, <1>4, <1>5, <1>6 DEF SignAndWrite

(* The highest version on disk, also when there are gaps between them: the *)
(* smallest, by inclusion, of the intervals from a version to the bound.   *)
LEMMA HighestVersion ==
  ASSUME NEW S \in SUBSET Version, S # {}
  PROVE  \E v \in S : \A w \in S : w <= v
<1>1. MaxVersion \in Nat /\ \A v \in S : v \in Int /\ 1 <= v /\ v <= MaxVersion
  BY EditorAssumption DEF Version
<1> DEFINE T == {v .. MaxVersion : v \in S}
<1>2. T \subseteq FiniteSubsetsOf(Version) /\ T # {}
  <2>1. \A v \in S : IsFiniteSet(v .. MaxVersion) /\ v .. MaxVersion \subseteq Version
    BY <1>1, FS_Interval DEF Version
  <2> QED
    BY <2>1 DEF FiniteSubsetsOf
<1>3. PICK I \in T : \A J \in T : <<J, I>> \notin StrictSubsetOrdering(Version)
  <2> HIDE DEF T
  <2> QED
    BY <1>2, FS_StrictSubsetOrderingWellFounded, WFMin
<1>4. PICK v \in S : I = v .. MaxVersion
  OBVIOUS
<1>5. ASSUME NEW w \in S PROVE w <= v
  <2> DEFINE J == w .. MaxVersion
  <2>1. J \in T /\ J \in SUBSET Version /\ I \in SUBSET Version
    <3>1. J \in T
      OBVIOUS
    <3>2. \A K \in T : K \subseteq Version
      <4> HIDE DEF T
      <4> QED
        BY <1>2 DEF FiniteSubsetsOf
    <3> QED
      BY <3>1, <3>2
  <2>2. ~(J \subseteq I /\ J # I)
    BY <1>3, <2>1 DEF StrictSubsetOrdering
  <2>3. CASE v < w
    <3>1. J \subseteq I
      BY <1>1, <1>4, <2>3
    <3>2. v \in I /\ v \notin J
      BY <1>1, <1>4, <2>3
    <3> QED
      BY <2>2, <3>1, <3>2
  <2> QED
    BY <1>1, <2>3
<1> QED
  BY <1>5

(* FindLatestVersionedFile returns the highest version that is on disk.    *)
LEMMA LatestType ==
  ASSUME NEW dir, Present(dir) # {}
  PROVE  /\ Latest(dir) \in Version /\ dir[Latest(dir)] # None
         /\ \A w \in Present(dir) : w <= Latest(dir)
<1>1. \E v \in Present(dir) : \A w \in Present(dir) : w <= v
  BY HighestVersion DEF Present
<1>2. Latest(dir) \in Present(dir) /\ \A w \in Present(dir) : w <= Latest(dir)
  BY <1>1 DEF Latest
<1> QED
  BY <1>2 DEF Present

(* LoadRepository returns documents whose versions are those on disk, or   *)
(* the defaults.                                                           *)
LEMMA LoadedType ==
  ASSUME DiskType
  PROVE  /\ LoadLatest.targets \in Targets
         /\ LoadLatest.tv \in Version /\ LoadLatest.sv \in Version
         /\ \A v \in Present(targetsMd) : v <= LoadLatest.tv
         /\ \A v \in Present(snapshotMd) : v <= LoadLatest.sv
<1>1. 1 \in Version
  BY EditorAssumption DEF Version
<1>2. LoadLatest.targets \in Targets
  <2>1. CASE Present(targetsMd) = {}
    BY <2>1 DEF LoadLatest, NoTargets, Targets
  <2>2. CASE Present(targetsMd) # {}
    <3>1. targetsMd[Latest(targetsMd)] \in TargetsDoc
      BY <2>2, LatestType DEF DiskType
    <3> QED
      BY <2>2, <3>1 DEF LoadLatest, TargetsDoc
  <2> QED
    BY <2>1, <2>2
<1>3. /\ LoadLatest.tv \in Version
      /\ \A v \in Present(targetsMd) : v <= LoadLatest.tv
  BY <1>1, LatestType DEF LoadLatest
<1>4. /\ LoadLatest.sv \in Version
      /\ \A v \in Present(snapshotMd) : v <= LoadLatest.sv
  BY <1>1, LatestType DEF LoadLatest
<1> QED
  BY <1>2, <1>3, <1>4
=============================================================================
