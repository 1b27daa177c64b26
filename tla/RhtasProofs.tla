---------------------------- MODULE RhtasProofs ----------------------------
(***************************************************************************)
(* The published chain is intact at every moment of every run of rhtas     *)
(* that has something to change, also where it only renews the expiry and  *)
(* its snapshot refers to the targets file of an earlier run.              *)
(* Runs that fail only in removing files keep the trust bundle in step     *)
(* with the targets, and their cleanup can be repeated and spares what is  *)
(* published.  Readers beside rhtas are never refused, and what a clone or *)
(* a download copies is one publication, whatever is published meanwhile   *)
(* or was cut short; and a file that a download misses was withdrawn.      *)
(***************************************************************************)
EXTENDS RhtasClient, EditorProofs

(* What is stored as the target trusted_root.json is a trust bundle, so    *)
(* that what a run loads, edits and publishes is one again.                *)
BundleInv ==
  /\ bundle \subseteq Cert
  /\ plain[Bundle] \in (SUBSET Cert) \cup {None}
  /\ \A d \in Digest : files[<<Bundle, d>>] \in (SUBSET Cert) \cup {None, Torn}

FilesType ==
  /\ files \in [Name \X Digest -> Digest \cup {None, Torn}]
  /\ plain \in Targets
  /\ setting \in Setting \cup {None}
  /\ pc = "set" => setting # None

RunInv == DiskInv /\ FilesType /\ BundleInv
IInv == RunInv /\ ChainInv

-----------------------------------------------------------------------------
(* What LoadRepository finds is a trust bundle.                            *)
LEMMA LoadedBundleType ==
  ASSUME RunInv, BundleFile # Torn PROVE LoadedBundle \subseteq Cert
<1>1. LoadLatest.targets[Bundle] \in Digest \cup {None}
  BY LoadedType, RhtasAssumption DEF RunInv, DiskInv, Targets
<1>2. BundleFile \in (SUBSET Cert) \cup {None}
  BY <1>1 DEF BundleFile, RunInv, BundleInv
<1> QED
  BY <1>2 DEF LoadedBundle

(* A run plans to write targets of the right type, under versions that are *)
(* higher than all on disk.                                                *)
LEMMA BeginPlans ==
  ASSUME RunInv, NEW names \in SUBSET CertName, NEW s \in Setting \cup {None},
         NEW e \in Expires, NEW p \in Policies, Begin(names, s, e, p)
  PROVE  /\ ed' \in EditorRecord /\ run' \in 1 .. MaxRun
         /\ bundle' \subseteq Cert /\ setting' = s
         /\ pc' \in {"set", "save", "cleanonly"} /\ (pc' = "set" => s # None)
         /\ UNCHANGED disk
         /\ ~NoChange => ed'.sv = LoadLatest.sv + 1
         /\ ed'.reuse \/ ed'.tv = LoadLatest.tv + 1
<1> DEFINE listed == {n \in names : Listed(n)}
           modified == names # {} \/ s # None \/ e = "targets"
           any == modified \/ e # "none"
           Bump(v, when) == IF when THEN v + 1 ELSE v
<1>1. ed' = [targets |-> [n \in Name |-> IF n \in listed THEN None ELSE LoadLatest.targets[n]],
             tv |-> Bump(LoadLatest.tv, modified), sv |-> Bump(LoadLatest.sv, any),
             tsv |-> Bump(LoadLatest.tsv, any), policy |-> p, reuse |-> ~modified]
  BY DEF Begin
<1>2. /\ Bump(LoadLatest.tv, modified) \in Version
      /\ Bump(LoadLatest.sv, any) \in Version
      /\ Bump(LoadLatest.tsv, any) \in Version
      /\ any \/ NoChange
  BY DEF Begin
<1>3. [n \in Name |-> IF n \in listed THEN None ELSE LoadLatest.targets[n]] \in Targets
  BY LoadedType DEF RunInv, DiskInv, Targets
<1>4. p \in Policy
  BY RhtasAssumption
<1>5. ed' \in EditorRecord
  BY <1>1, <1>2, <1>3, <1>4 DEF EditorRecord
<1>6. run' \in 1 .. MaxRun
  BY EditorAssumption DEF Begin, RunInv, DiskInv, DiskType
<1>7. bundle' \subseteq Cert
  BY LoadedBundleType DEF Begin
<1>8. (~NoChange => ed'.sv = LoadLatest.sv + 1) /\ (ed'.reuse \/ ed'.tv = LoadLatest.tv + 1)
  BY <1>1, <1>2
<1>9. setting' = s /\ UNCHANGED disk
  BY DEF Begin
<1>10. pc' \in {"set", "save", "cleanonly"} /\ (pc' = "set" => s # None)
  BY DEF Begin
<1> QED
  BY <1>5, <1>6, <1>7, <1>8, <1>9, <1>10

(* The beginning of a run keeps the types. *)
LEMMA BeginRunInv ==
  ASSUME RunInv, NEW names \in SUBSET CertName, NEW s \in Setting \cup {None},
         NEW e \in Expires, NEW p \in Policies, Begin(names, s, e, p)
  PROVE  RunInv'
<1>1. /\ ed' \in EditorRecord /\ run' \in 1 .. MaxRun
      /\ bundle' \subseteq Cert /\ setting' = s
      /\ pc' \in {"set", "save", "cleanonly"} /\ (pc' = "set" => s # None)
      /\ UNCHANGED disk
  BY BeginPlans
<1>2. DiskType'
  BY <1>1, EditorAssumption DEF RunInv, DiskInv, DiskType, disk
<1>3. Indexed' /\ Flow'
  BY <1>1 DEF RunInv, DiskInv, Indexed, Flow, disk
<1>4. FilesType'
  BY <1>1 DEF RunInv, FilesType, disk
<1>5. BundleInv'
  BY <1>1 DEF RunInv, BundleInv, disk
<1> QED
  BY <1>2, <1>3, <1>4, <1>5 DEF RunInv, DiskInv

(* The steps of SignAndWrite move bundles only to where bundles belong.    *)
LEMMA SignAndWriteFiles ==
  ASSUME RunInv, SignAndWrite, UNCHANGED command PROVE FilesType' /\ BundleInv'
<1> USE DEF RunInv, FilesType, BundleInv, command
<1>1. CASE \/ StepFails \/ LoadSigners \/ WriteTargets \/ KeepTargets
           \/ WriteSnapshot \/ WriteTimestamp \/ AllCopied
  BY <1>1 DEF StepFails, LoadSigners, WriteTargets, KeepTargets, WriteSnapshot,
              WriteTimestamp, AllCopied, disk
<1>2. ASSUME NEW n \in Name, SkipTarget(n) \/ TargetRefused(n)
      PROVE  FilesType' /\ BundleInv'
  BY <1>2 DEF SkipTarget, TargetRefused, disk
<1>3. ASSUME NEW n \in Name, CopyTarget(n) \/ CopyTargetTorn(n)
      PROVE  FilesType' /\ BundleInv'
  <2>1. PICK c \in {plain[n], Torn} :
          /\ files' = [files EXCEPT ![<<n, ed.targets[n]>>] = c]
          /\ plain' = plain \/ plain' = [plain EXCEPT ![n] = None]
          /\ pc' # "set"
          /\ c \in Digest \cup {Torn}
    BY <1>3 DEF CopyTarget, CopyTargetTorn, Targets
  <2>2. FilesType'
    BY <2>1 DEF Targets
  <2>3. \A d \in Digest : files'[<<Bundle, d>>] \in {files[<<Bundle, d>>], plain[Bundle], Torn}
    BY <2>1, RhtasAssumption
  <2>4. plain'[Bundle] \in {plain[Bundle], None}
    BY <2>1, RhtasAssumption DEF Targets
  <2>5. BundleInv'
    BY <2>3, <2>4
  <2> QED
    BY <2>2, <2>5
<1> QED
  BY <1>1, <1>2, <1>3 DEF SignAndWrite

(* Every step keeps the types, and keeps bundles where they belong.        *)
LEMMA RunStep == ASSUME RunInv, [Next]_vars PROVE RunInv'
<1> USE DEF RunInv
<1>1. ASSUME NEW names \in SUBSET CertName, NEW s \in Setting \cup {None},
             NEW e \in Expires, NEW p \in Policies, Begin(names, s, e, p)
      PROVE  RunInv'
  BY <1>1, BeginRunInv
<1>2. CASE SetTarget \/ (SetTargetFails /\ UNCHANGED command)
  <2>1. /\ setting.name \in Name \ {Bundle} /\ setting.cert \in Cert
        /\ setting.cert \in Digest
    BY <1>2, RhtasAssumption DEF SetTarget, SetTargetFails, FilesType, Setting, CertName
  <2>2. DiskInv'
    <3>1. Editing \in EditorRecord
      BY <2>1 DEF Editing, DiskInv, DiskType, EditorRecord, Targets
    <3> QED
      BY <1>2, <3>1 DEF SetTarget, SetTargetFails, DiskInv, DiskType, Indexed, Flow,
                        Planned, metadata
  <2>3. PICK c \in Digest \cup {Torn} :
          files' \in {files, [files EXCEPT ![<<setting.name, setting.cert>>] = c]}
    BY <1>2, <2>1 DEF SetTarget, SetTargetFails
  <2>4. /\ plain' = plain /\ bundle' \in {bundle, bundle \cup {setting.cert}}
        /\ setting' \in {setting, None} /\ pc' # "set"
    BY <1>2 DEF SetTarget, SetTargetFails, command
  <2>5. FilesType'
    BY <2>3, <2>4 DEF FilesType
  <2>6. BundleInv'
    BY <2>1, <2>3, <2>4, RhtasAssumption DEF BundleInv, FilesType
  <2> QED
    BY <2>2, <2>5, <2>6
<1>3. CASE SaveBundle
  <2>1. bundle \in Digest /\ Bundle \in Name
    BY RhtasAssumption DEF BundleInv
  <2>2. [ed EXCEPT !.targets[Bundle] = bundle] \in EditorRecord
    BY <2>1 DEF DiskInv, DiskType, EditorRecord, Targets
  <2>3. DiskInv'
    BY <1>3, <2>2 DEF SaveBundle, DiskInv, DiskType, Indexed, Flow, Planned, metadata
  <2>4. FilesType' /\ BundleInv'
    BY <1>3, <2>1 DEF SaveBundle, FilesType, BundleInv, Targets, command
  <2> QED
    BY <2>3, <2>4
<1>4. ASSUME NEW n \in CertName, NEW d \in Cert, CleanUp(n, d) PROVE RunInv'
  <2>1. n \in Name /\ d \in Digest /\ n # Bundle
    BY RhtasAssumption DEF CertName
  <2>2. DiskInv'
    BY <1>4 DEF CleanUp, DiskInv, DiskType, Indexed, Flow, Planned, metadata
  <2>3. FilesType' /\ BundleInv'
    BY <1>4, <2>1 DEF CleanUp, FilesType, BundleInv, command
  <2> QED
    BY <2>2, <2>3
<1>5. CASE StartCleanup \/ CleanUpFails \/ Return
  <2>1. DiskInv'
    BY <1>5 DEF StartCleanup, CleanUpFails, Return, DiskInv, DiskType, Indexed, Flow,
                Planned, metadata, disk
  <2>2. FilesType' /\ BundleInv'
    BY <1>5 DEF StartCleanup, CleanUpFails, Return, FilesType, BundleInv, Targets,
                command, disk
  <2> QED
    BY <2>1, <2>2
<1>6. CASE SignAndWrite /\ UNCHANGED command
  BY <1>6, SignAndWriteDisk, SignAndWriteFiles
<1>7. CASE (Crash /\ UNCHANGED command) \/ UNCHANGED vars
  BY <1>7 DEF Crash, vars, disk, metadata, command, DiskInv, DiskType, Indexed, Flow,
              Planned, FilesType, BundleInv
<1> QED
  BY <1>1, <1>2, <1>3, <1>4, <1>5, <1>6, <1>7 DEF Next

-----------------------------------------------------------------------------
(* The invariant holds in an empty directory.                              *)
LEMMA InitInv == Init => IInv
<1> SUFFICES ASSUME Init PROVE IInv
  OBVIOUS
<1>1. NoTargets \in Targets /\ 1 \in Version /\ 0 \in 0 .. MaxRun
  BY EditorAssumption DEF NoTargets, Targets, Version
<1>2. ed \in EditorRecord
  BY <1>1 DEF Init, EditorRecord, Policy
<1>3. DiskInv
  BY <1>1, <1>2 DEF Init, DiskInv, DiskType, Indexed, Flow, Planned
<1>4. FilesType /\ BundleInv
  BY <1>1, RhtasAssumption DEF Init, FilesType, BundleInv, NoTargets
<1> QED
  BY <1>3, <1>4 DEF Init, IInv, RunInv, ChainInv, ChainIntact, Ahead, Published

(* A run that begins plans to write files that are not published.          *)
LEMMA BeginAhead ==
  ASSUME ~NoChange, IInv, NEW names \in SUBSET CertName, NEW s \in Setting \cup {None},
         NEW e \in Expires, NEW p \in Policies, Begin(names, s, e, p)
  PROVE  ChainIntact' /\ Ahead'
<1>1. /\ UNCHANGED disk
      /\ ed'.sv = LoadLatest.sv + 1
      /\ ed'.reuse \/ ed'.tv = LoadLatest.tv + 1
  BY BeginPlans DEF IInv
<1>2. ChainIntact'
  BY <1>1 DEF IInv, ChainInv, ChainIntact, Published, SnapshotOf, TargetsOf, disk
<1>3. ASSUME Published
      PROVE  /\ timestampMd.meta.version \in Present(snapshotMd)
             /\ SnapshotOf(timestampMd).meta.version \in Present(targetsMd)
  <2>1. timestampMd.meta.version \in Version
    BY <1>3 DEF IInv, RunInv, DiskInv, DiskType, Published, LinkDoc, Ref
  <2>2. SnapshotOf(timestampMd) # None /\ TargetsOf(timestampMd) # None
    BY <1>3 DEF IInv, ChainInv, ChainIntact
  <2>3. SnapshotOf(timestampMd).meta.version \in Version
    BY <2>1, <2>2 DEF IInv, RunInv, DiskInv, DiskType, SnapshotOf, LinkDoc, Ref
  <2> QED
    BY <2>1, <2>2, <2>3 DEF Present, SnapshotOf, TargetsOf
<1>4. /\ LoadLatest.tv \in Version /\ LoadLatest.sv \in Version
      /\ \A v \in Present(targetsMd) : v <= LoadLatest.tv
      /\ \A v \in Present(snapshotMd) : v <= LoadLatest.sv
  BY LoadedType DEF IInv, RunInv, DiskInv
<1>5. ASSUME Published
      PROVE  /\ ed'.sv # timestampMd.meta.version
             /\ ed'.reuse \/ ed'.tv # SnapshotOf(timestampMd).meta.version
  BY <1>1, <1>3, <1>4, <1>5, EditorAssumption DEF Version, Present
<1>6. Ahead'
  BY <1>1, <1>5 DEF Ahead, Published, SnapshotOf, disk
<1> QED
  BY <1>2, <1>6

(* The strengthened invariant is inductive when no run signs snapshot and  *)
(* timestamp again under the versions they have.                           *)
LEMMA ChainStep == ASSUME ~NoChange, IInv, [Next]_vars PROVE IInv'
<1>0. RunInv'
  BY RunStep DEF IInv
<1> SUFFICES ChainIntact' /\ Ahead'
  BY <1>0 DEF IInv, ChainInv, RunInv
<1>1. ASSUME NEW names \in SUBSET CertName, NEW s \in Setting \cup {None},
             NEW e \in Expires, NEW p \in Policies, Begin(names, s, e, p)
      PROVE  ChainIntact' /\ Ahead'
  BY <1>1, BeginAhead
<1>2. ASSUME UNCHANGED metadata, Planned' => Planned,
             Planned' => ed'.sv = ed.sv /\ ed'.tv = ed.tv /\ ed'.reuse = ed.reuse
      PROVE  ChainIntact' /\ Ahead'
  BY <1>2 DEF IInv, ChainInv, ChainIntact, Ahead, metadata, Published, SnapshotOf, TargetsOf
<1>3. CASE SetTarget \/ (SetTargetFails /\ UNCHANGED command) \/ SaveBundle
  <2>1. /\ [ed EXCEPT !.targets[Bundle] = bundle].sv = ed.sv
        /\ [ed EXCEPT !.targets[Bundle] = bundle].tv = ed.tv
        /\ [ed EXCEPT !.targets[Bundle] = bundle].reuse = ed.reuse
        /\ Editing.sv = ed.sv /\ Editing.tv = ed.tv /\ Editing.reuse = ed.reuse
    BY DEF IInv, RunInv, DiskInv, DiskType, EditorRecord, Editing
  <2> QED
    BY <1>2, <1>3, <2>1 DEF SetTarget, SetTargetFails, SaveBundle, Planned
<1>4. CASE \E n \in CertName, d \in Cert : CleanUp(n, d)
  BY <1>2, <1>4 DEF CleanUp, Planned
<1>5. CASE StartCleanup \/ CleanUpFails \/ Return
  BY <1>2, <1>5 DEF StartCleanup, CleanUpFails, Return, Planned, disk, metadata
<1>6. CASE SignAndWrite /\ UNCHANGED command
  BY <1>6, SignAndWriteChain DEF IInv, ChainInv
<1>7. CASE (Crash /\ UNCHANGED command) \/ UNCHANGED vars
  BY <1>2, <1>7 DEF Crash, vars, Planned, disk, metadata
<1> QED
  BY <1>1, <1>3, <1>4, <1>5, <1>6, <1>7 DEF Next

(* Whatever rhtas sets, deletes or renews, and wherever a run fails, tears *)
(* a file or dies, timestamp.json leads to an intact chain at every        *)
(* moment.                                                                 *)
THEOREM RhtasChainIntact == ~NoChange => (Spec => []ChainIntact)
<1> SUFFICES ASSUME ~NoChange PROVE Spec => []ChainIntact
  OBVIOUS
<1>1. Init => IInv
  BY InitInv
<1>2. IInv /\ [Next]_vars => IInv'
  BY ChainStep
<1>3. IInv => ChainIntact
  BY DEF IInv, ChainInv
<1> QED
  BY <1>1, <1>2, <1>3, PTL DEF Spec
-----------------------------------------------------------------------------
(* Certificate targets name certificates: in memory, in every targets file *)
(* on disk, and among the files that are to be removed.                    *)
CertTargets(t) == \A n \in CertName : t[n] \in CertOf[n] \cup {None}

CertInv ==
  /\ CertTargets(ed.targets)
  /\ \A v \in Version : targetsMd[v] # None => CertTargets(targetsMd[v].targets)
  /\ pending \subseteq CertName \X Cert
  /\ pc \in {"idle", "set", "save", "signers", "targets", "snapshot", "timestamp",
             "copy", "written", "cleanup", "cleanonly", "failed"}

TypeInv == RunInv /\ CertInv

(* The newest listing of a name, as findHistoricalTargetFile finds it.     *)
LEMMA NewestIs ==
  ASSUME NEW S \in SUBSET Version, NEW v \in S, \A w \in S : w <= v
  PROVE  (CHOOSE u \in S : \A w \in S : w <= u) = v
<1> DEFINE u == CHOOSE x \in S : \A w \in S : w <= x
<1>1. u \in S /\ \A w \in S : w <= u
  OBVIOUS
<1> HIDE DEF u
<1>2. u <= v /\ v <= u
  BY <1>1
<1>3. u \in Int /\ v \in Int
  BY <1>1, EditorAssumption DEF Version
<1>4. u = v
  BY <1>2, <1>3
<1> QED
  BY <1>4 DEF u

(* The historical contents of a target are those of its newest listing on  *)
(* disk.                                                                   *)
LEMMA HistoricalIs ==
  ASSUME NEW n \in Name, Listing(n) # {}
  PROVE  \E v \in Listing(n) : Historical(n) = targetsMd[v].targets[n]
                               /\ \A w \in Listing(n) : w <= v
<1>1. Listing(n) \in SUBSET Version
  BY DEF Listing, Present
<1>2. PICK v \in Listing(n) : \A w \in Listing(n) : w <= v
  BY <1>1, HighestVersion
<1>3. (CHOOSE u \in Listing(n) : \A w \in Listing(n) : w <= u) = v
  <2> DEFINE S == Listing(n)
  <2>1. S \in SUBSET Version /\ v \in S /\ \A w \in S : w <= v
    BY <1>1, <1>2
  <2> HIDE DEF S
  <2>2. (CHOOSE u \in S : \A w \in S : w <= u) = v
    BY <2>1, NewestIs
  <2> QED
    BY <2>2 DEF S
<1> QED
  BY <1>2, <1>3 DEF Historical

(* A step that changes no listing of a name does not change what is found. *)
LEMMA HistoricalStays ==
  ASSUME NEW n \in Name, Listing(n)' = Listing(n),
         \A v \in Listing(n) : targetsMd'[v].targets[n] = targetsMd[v].targets[n]
  PROVE  Historical(n)' = Historical(n)
<1>1. CASE Listing(n) = {}
  BY <1>1 DEF Historical
<1>2. CASE Listing(n) # {}
  <2>1. PICK v \in Listing(n) : /\ Historical(n) = targetsMd[v].targets[n]
                               /\ \A w \in Listing(n) : w <= v
    BY <1>2, HistoricalIs
  <2> DEFINE S == Listing(n)'
  <2>2. S \in SUBSET Version /\ v \in S /\ \A w \in S : w <= v
    BY <2>1 DEF Listing, Present
  <2> HIDE DEF S
  <2>3. (CHOOSE u \in S : \A w \in S : w <= u) = v
    BY <2>2, NewestIs
  <2>4. Historical(n)' = targetsMd'[v].targets[n]
    BY <2>2, <2>3 DEF Historical, S
  <2> QED
    BY <2>1, <2>4
<1> QED
  BY <1>1, <1>2

(* What a deletion expects to find is a certificate.                       *)
LEMMA ExpectedType ==
  ASSUME TypeInv, NEW n \in CertName, Expected(n) # None
  PROVE  Expected(n) \in CertOf[n] /\ Expected(n) \in Cert
<1>0. n \in Name /\ (\A c \in CertOf[n] : c \in Cert)
  BY DEF CertName, Cert
<1>1. CASE Listed(n)
  <2>1. Present(targetsMd) # {}
    BY <1>0, <1>1 DEF Listed, LoadLatest, NoTargets
  <2>2. Latest(targetsMd) \in Version /\ targetsMd[Latest(targetsMd)] # None
    BY <2>1, LatestType
  <2> QED
    BY <1>0, <1>1, <2>1, <2>2 DEF Expected, LoadLatest, TypeInv, CertInv, CertTargets
<1>2. CASE ~Listed(n)
  <2>1. Listing(n) # {} /\ Expected(n) = Historical(n)
    BY <1>2 DEF Expected, Historical
  <2>2. PICK v \in Listing(n) : Historical(n) = targetsMd[v].targets[n]
    BY <1>0, <2>1, HistoricalIs
  <2> QED
    BY <1>0, <2>1, <2>2 DEF Listing, Present, TypeInv, CertInv, CertTargets
<1> QED
  BY <1>1, <1>2

(* Every step keeps the types. *)
LEMMA TypeStep == ASSUME TypeInv, [Next]_vars PROVE TypeInv'
<1>0. RunInv'
  BY RunStep DEF TypeInv
<1> SUFFICES CertInv'
  BY <1>0 DEF TypeInv
<1> USE DEF TypeInv, CertInv
<1>1. ASSUME NEW names \in SUBSET CertName, NEW s \in Setting \cup {None},
             NEW e \in Expires, NEW p \in Policies, Begin(names, s, e, p)
      PROVE  CertInv'
  <2>1. UNCHANGED targetsMd /\ pc' \in {"set", "save", "cleanonly"}
    BY <1>1 DEF Begin, disk
  <2>2. CertTargets(LoadLatest.targets)
    <3>1. CASE Present(targetsMd) = {}
      BY <3>1 DEF LoadLatest, NoTargets, CertTargets, CertName
    <3>2. CASE Present(targetsMd) # {}
      BY <3>2, LatestType DEF LoadLatest
    <3> QED
      BY <3>1, <3>2
  <2>3. ed'.targets = [n \in Name |-> IF n \in {m \in names : Listed(m)} THEN None
                                      ELSE LoadLatest.targets[n]]
    BY <1>1 DEF Begin
  <2>4. CertTargets(ed'.targets)
    BY <2>2, <2>3 DEF CertTargets, CertName
  <2>5. \A n \in names : Expected(n) \in Cert /\ n \in CertName
    BY <1>1, ExpectedType DEF Begin, Deletable
  <2>6. pending' \subseteq CertName \X Cert
    <3>1. \A k \in PendingFiles(names) : \E n \in names : k = <<n, Expected(n)>>
      BY DEF PendingFiles
    <3>2. pending' = PendingFiles(names)
      BY <1>1 DEF Begin
    <3> QED
      BY <2>5, <3>1, <3>2
  <2> QED
    BY <2>1, <2>4, <2>6
<1>2. CASE SetTarget
  <2>1. setting \in Setting /\ setting.name \in CertName /\ setting.cert \in CertOf[setting.name]
    BY <1>2 DEF SetTarget, RunInv, FilesType, Setting
  <2>2. CertTargets(Editing.targets)
    BY <2>1 DEF Editing, CertTargets, RunInv, DiskInv, DiskType, EditorRecord, Targets, CertName
  <2> QED
    BY <1>2, <2>2 DEF SetTarget, metadata
<1>3. CASE SaveBundle
  <2>1. CertTargets([ed EXCEPT !.targets[Bundle] = bundle].targets)
    BY DEF CertTargets, RunInv, DiskInv, DiskType, EditorRecord, Targets, CertName
  <2> QED
    BY <1>3, <2>1 DEF SaveBundle, metadata, command
<1>4. ASSUME NEW n \in CertName, NEW d \in Cert, CleanUp(n, d) PROVE CertInv'
  BY <1>4 DEF CleanUp, metadata
<1>5. CASE StartCleanup \/ CleanUpFails \/ Return
  BY <1>5 DEF StartCleanup, CleanUpFails, Return, disk, metadata, command
<1>6. CASE SignAndWrite /\ UNCHANGED command
  <2>1. CASE WriteTargets
    <3>1. \A v \in Version : targetsMd'[v] =
            IF v = ed.tv THEN [version |-> ed.tv, by |-> run, targets |-> ed.targets]
            ELSE targetsMd[v]
      BY <2>1 DEF WriteTargets, RunInv, DiskInv, DiskType
    <3> QED
      BY <1>6, <2>1, <3>1 DEF WriteTargets, command
  <2>2. CASE \/ StepFails \/ LoadSigners \/ KeepTargets \/ WriteSnapshot \/ WriteTimestamp \/ AllCopied
             \/ \E n \in Name : SkipTarget(n) \/ CopyTarget(n) \/ CopyTargetTorn(n) \/ TargetRefused(n)
    <3>1. UNCHANGED <<targetsMd, ed, pending>> /\ pc' \in {pc, "failed", "targets", "snapshot", "timestamp", "copy", "written"}
      BY <1>6, <2>2 DEF StepFails, LoadSigners, KeepTargets, WriteSnapshot, WriteTimestamp, AllCopied,
         SkipTarget, CopyTarget, CopyTargetTorn, TargetRefused, disk, metadata, command
    <3> QED
      BY <3>1
  <2> QED
    BY <1>6, <2>1, <2>2 DEF SignAndWrite
<1>7. CASE ((SetTargetFails \/ Crash) /\ UNCHANGED command) \/ UNCHANGED vars
  BY <1>7 DEF SetTargetFails, Crash, vars, disk, metadata, command
<1> QED
  BY <1>1, <1>2, <1>3, <1>4, <1>5, <1>6, <1>7 DEF Next

(* The repository begins with the right types. *)
LEMMA InitType == Init => TypeInv
<1> SUFFICES ASSUME Init PROVE TypeInv
  OBVIOUS
<1>1. RunInv
  BY InitInv DEF IInv
<1>2. CertInv
  BY DEF Init, CertInv, CertTargets, NoTargets, CertName
<1> QED
  BY <1>1, <1>2 DEF TypeInv

(* The variables keep their types in every run of rhtas, whatever fails:   *)
(* a document that a run writes is one that a later run can load, and what *)
(* is deleted is always the file of a certificate.                         *)
THEOREM RhtasTypes == Spec => []TypeOK
<1>1. TypeInv => TypeOK
  BY EditorAssumption DEF TypeInv, RunInv, CertInv, DiskInv, DiskType, FilesType, BundleInv, TypeOK
<1> QED
  BY <1>1, InitType, TypeStep, PTL DEF Spec
-----------------------------------------------------------------------------
(* Only the removal of a target file may fail; another run may retry it.   *)
Undisturbed == Fault \subseteq {"remove"} /\ "fail" \notin Policies

(* No certificate is the contents of two files: deleting one of them would *)
(* take the entry that the other one needs out of the trust bundle.        *)
OwnCerts == \A m, n \in CertName : m # n => CertOf[m] \cap CertOf[n] = {}

AtMost(dir, v) == \A w \in Present(dir) : w <= v
Top(dir, v) == v \in Present(dir) /\ AtMost(dir, v)

(* What is published is the newest on disk, or there is nothing there.     *)
Settled ==
  IF Published
  THEN /\ Top(snapshotMd, timestampMd.meta.version)
       /\ Top(targetsMd, SnapshotOf(timestampMd).meta.version)
  ELSE Present(targetsMd) = {} /\ Present(snapshotMd) = {}

(* The metadata on disk, and what a run is to write, as it goes through    *)
(* its steps.                                                              *)
Preparing == pc \in {"set", "save", "signers", "targets"}

PlaceInv ==
  /\ pc \notin {"snapshot", "timestamp"} => Settled
  /\ Preparing => /\ AtMost(snapshotMd, ed.sv) /\ AtMost(targetsMd, ed.tv)
                  /\ ~ed.reuse => ed.tv \notin Present(targetsMd)
                  /\ ed.reuse /\ Published => ed.tv \in Present(targetsMd)
  /\ pc = "set" => ~ed.reuse
  /\ pc \in {"snapshot", "timestamp"} =>
       Top(targetsMd, ed.tv) /\ targetsMd[ed.tv].targets = ed.targets
  /\ pc = "snapshot" => AtMost(snapshotMd, ed.sv)
  /\ pc = "timestamp" => Top(snapshotMd, ed.sv)
  /\ pc \in {"copy", "written", "cleanup", "cleanonly"} => Published
  /\ Published /\ (Preparing => ed.reuse) /\ pc \notin {"snapshot", "timestamp"}
       => ed.targets = PublishedTargets

(* The files of targets/: a digest-prefixed one has the contents its name  *)
(* says; those of the certificates in memory are there from the beginning, *)
(* that of the trust bundle once it has been copied.                       *)
FilesTrue == \A n \in Name, d \in Digest : files[<<n, d>>] \in {None, d}

CertsThere == \A n \in CertName : ed.targets[n] # None => files[<<n, ed.targets[n]>>] # None

Saved == pc \notin {"set", "save"} /\ (pc = "idle" => Published)

ContentInv ==
  /\ ed.policy # "fail"
  /\ FilesTrue /\ CertsThere
  /\ OwnCerts => \A n \in CertName : ed.targets[n] # None => ed.targets[n] \in bundle
  /\ \A n \in CertName : plain[n] = None
  /\ pc \in {"idle", "set", "save", "cleanonly"} => plain[Bundle] = None
  /\ pc \in {"signers", "targets", "snapshot", "timestamp"} => plain[Bundle] = bundle
  /\ Saved \/ (pc = "save" /\ ed.reuse /\ Published) => ed.targets[Bundle] = bundle
  /\ pc = "copy" => IF Bundle \in copied THEN files[<<Bundle, bundle>>] # None
                    ELSE plain[Bundle] = bundle
  /\ Published /\ pc \in {"idle", "written", "cleanup", "cleanonly", "failed"} =>
       files[<<Bundle, bundle>>] # None

(* The newest metadata that lists a deleted target is the one the deletion *)
(* went by, until the target is set again.                                 *)
RetryInv == \A k \in pending : ed.targets[k[1]] = None => Historical(k[1]) = k[2]

QuietInv == TypeInv /\ PlaceInv /\ ContentInv /\ RetryInv

(* The highest version that is present is the latest.                      *)
LEMMA TopIsLatest == ASSUME NEW dir, NEW v, Top(dir, v) PROVE Latest(dir) = v
<1> DEFINE S == Present(dir)
<1>1. S \in SUBSET Version /\ v \in S /\ \A w \in S : w <= v
  BY DEF Top, AtMost, Present
<1> HIDE DEF S
<1>2. (CHOOSE u \in S : \A w \in S : w <= u) = v
  BY <1>1, NewestIs
<1> QED
  BY <1>2 DEF S, Latest

(* Between runs LoadRepository finds what is published.                    *)
LEMMA IdleLoads ==
  ASSUME QuietInv, pc = "idle"
  PROVE  /\ Published => /\ LoadLatest.targets = ed.targets /\ LoadedBundle = bundle
                         /\ LoadLatest.tv \in Present(targetsMd)
         /\ ~Published => /\ LoadLatest.targets = NoTargets /\ LoadedBundle = {}
                          /\ Present(targetsMd) = {}
<1> USE DEF QuietInv, PlaceInv
<1>1. CASE Published
  <2>1. Settled /\ ed.targets = PublishedTargets
    BY <1>1 DEF Preparing
  <2>2. /\ Latest(targetsMd) = SnapshotOf(timestampMd).meta.version
        /\ Latest(targetsMd) \in Present(targetsMd)
    BY <1>1, <2>1, TopIsLatest DEF Settled, Top
  <2>3. LoadLatest.targets = ed.targets /\ LoadLatest.tv \in Present(targetsMd)
    BY <2>1, <2>2 DEF LoadLatest, PublishedTargets, TargetsOf
  <2>4. bundle \in Digest /\ Bundle \in Name /\ bundle # None
    BY RhtasAssumption, EditorAssumption DEF TypeInv, RunInv, BundleInv
  <2>5. ed.targets[Bundle] = bundle /\ files[<<Bundle, bundle>>] = bundle
    BY <1>1, <2>4 DEF ContentInv, Saved, FilesTrue
  <2> QED
    BY <1>1, <2>3, <2>4, <2>5 DEF LoadedBundle, BundleFile
<1>2. CASE ~Published
  <2>1. Present(targetsMd) = {}
    BY <1>2 DEF Settled
  <2>2. LoadLatest.targets = NoTargets
    BY <2>1 DEF LoadLatest
  <2>3. BundleFile = None
    BY <2>2, RhtasAssumption DEF BundleFile, NoTargets, ContentInv
  <2> QED
    BY <1>2, <2>1, <2>2, <2>3 DEF LoadedBundle
<1> QED
  BY <1>1, <1>2

(* What a run has in memory when it has begun.                             *)
LEMMA BeginLoads ==
  ASSUME NEW names \in SUBSET CertName, NEW s \in Setting \cup {None},
         NEW e \in Expires, NEW p \in Policies, Begin(names, s, e, p)
  PROVE  /\ pc = "idle" /\ UNCHANGED disk
         /\ ed'.policy = p
         /\ ed'.sv \in {LoadLatest.sv, LoadLatest.sv + 1}
         /\ IF ed'.reuse THEN ed'.tv = LoadLatest.tv ELSE ed'.tv = LoadLatest.tv + 1
         /\ \A n \in Name : ed'.targets[n] = IF n \in names /\ Listed(n) THEN None
                                             ELSE LoadLatest.targets[n]
         /\ ed'.reuse \/ pc' = "cleanonly" =>
              bundle' = LoadedBundle /\ \A n \in names : ~Listed(n)
         /\ \A c \in LoadedBundle : c \in bundle' \/ \E n \in names : Listed(n) /\ c = Expected(n)
         /\ pc' \in {"set", "save", "cleanonly"} /\ (pc' = "set" => ~ed'.reuse)
         /\ pc' = "cleanonly" => names # {}
         /\ \A n \in names : Deletable(n)
         /\ pending' = PendingFiles(names)
<1> DEFINE listed == {n \in names : Listed(n)}
           modified == names # {} \/ s # None \/ e = "targets"
           any == modified \/ e # "none"
           Bump(v, when) == IF when THEN v + 1 ELSE v
<1>1. ed' = [targets |-> [n \in Name |-> IF n \in listed THEN None ELSE LoadLatest.targets[n]],
             tv |-> Bump(LoadLatest.tv, modified), sv |-> Bump(LoadLatest.sv, any),
             tsv |-> Bump(LoadLatest.tsv, any), policy |-> p, reuse |-> ~modified]
  BY DEF Begin
<1>2. bundle' = LoadedBundle \ {Expected(n) : n \in listed}
  BY DEF Begin
<1>3. pc' = IF names # {} /\ listed = {} /\ s = None /\ e = "none" THEN "cleanonly"
            ELSE IF s # None THEN "set" ELSE "save"
  BY DEF Begin
<1>4. ed'.reuse \/ pc' = "cleanonly" => listed = {}
  BY <1>1, <1>3
<1>5. /\ pc = "idle" /\ UNCHANGED disk /\ pending' = PendingFiles(names)
      /\ \A n \in names : Deletable(n)
  BY DEF Begin
<1>6. \A c \in LoadedBundle : c \in bundle' \/ \E n \in names : Listed(n) /\ c = Expected(n)
  BY <1>2
<1>7. pc' \in {"set", "save", "cleanonly"} /\ (pc' = "set" => ~ed'.reuse)
      /\ (pc' = "cleanonly" => names # {})
  BY <1>1, <1>3
<1>8. ed'.reuse \/ pc' = "cleanonly" => bundle' = LoadedBundle /\ \A n \in names : ~Listed(n)
  BY <1>2, <1>4
<1>9. /\ ed'.policy = p /\ ed'.sv \in {LoadLatest.sv, LoadLatest.sv + 1}
      /\ IF ed'.reuse THEN ed'.tv = LoadLatest.tv ELSE ed'.tv = LoadLatest.tv + 1
      /\ \A n \in Name : ed'.targets[n] = IF n \in names /\ Listed(n) THEN None
                                          ELSE LoadLatest.targets[n]
  BY <1>1
<1> QED
  BY <1>5, <1>6, <1>7, <1>8, <1>9

(* A run that begins keeps the invariant: it deletes what is published and *)
(* remembers how to find it again.                                         *)
LEMMA BeginQuiet ==
  ASSUME Undisturbed, QuietInv, TypeInv',
         NEW names \in SUBSET CertName, NEW s \in Setting \cup {None},
         NEW e \in Expires, NEW p \in Policies, Begin(names, s, e, p)
  PROVE  PlaceInv' /\ ContentInv' /\ RetryInv'
<1>a. /\ pc = "idle" /\ UNCHANGED disk /\ ed'.policy = p /\ pending' = PendingFiles(names)
      /\ pc' \in {"set", "save", "cleanonly"} /\ (pc' = "set" => ~ed'.reuse)
      /\ pc' = "cleanonly" => names # {}
      /\ \A n \in names : Deletable(n)
  BY BeginLoads
<1>b. /\ ed'.sv \in {LoadLatest.sv, LoadLatest.sv + 1}
      /\ IF ed'.reuse THEN ed'.tv = LoadLatest.tv ELSE ed'.tv = LoadLatest.tv + 1
      /\ \A n \in Name : ed'.targets[n] = IF n \in names /\ Listed(n) THEN None
                                          ELSE LoadLatest.targets[n]
  BY BeginLoads
<1>c. /\ ed'.reuse \/ pc' = "cleanonly" =>
           bundle' = LoadedBundle /\ \A n \in names : ~Listed(n)
      /\ \A c \in LoadedBundle : c \in bundle' \/ \E n \in names : Listed(n) /\ c = Expected(n)
  BY BeginLoads
<1>1. /\ LoadLatest.tv \in Version /\ LoadLatest.sv \in Version
      /\ LoadLatest.targets \in Targets /\ ed'.targets \in Targets
      /\ AtMost(targetsMd, LoadLatest.tv) /\ AtMost(snapshotMd, LoadLatest.sv)
  BY LoadedType DEF QuietInv, TypeInv, RunInv, DiskInv, DiskType, EditorRecord, AtMost
<1>2. Settled' /\ (Published' <=> Published) /\ (Published => PublishedTargets' = PublishedTargets)
  BY <1>a DEF QuietInv, PlaceInv, Settled, Published, Present, Top, AtMost, SnapshotOf,
         PublishedTargets, TargetsOf, disk
<1>3. \A n \in names : Expected(n) # None /\ n \in CertName /\ n \in Name /\ n # Bundle
  BY <1>a DEF Deletable, CertName
<1>4. pc' = "cleanonly" => Published
  <2>1. SUFFICES ASSUME pc' = "cleanonly", ~Published PROVE FALSE
    OBVIOUS
  <2>2. PICK n \in names : Historical(n) # None
    BY <1>a, <1>c, <1>3, <2>1 DEF Expected
  <2>3. Present(targetsMd) # {}
    BY <2>2 DEF Historical, Listing
  <2> QED
    BY <1>a, <2>1, <2>3, IdleLoads
<1>5. Published /\ (ed'.reuse \/ pc' = "cleanonly") =>
        /\ ed'.targets = ed.targets /\ bundle' = bundle
  <2>1. SUFFICES ASSUME Published, ed'.reuse \/ pc' = "cleanonly"
                 PROVE  ed'.targets = ed.targets /\ bundle' = bundle
    OBVIOUS
  <2>2. \A n \in Name : ed'.targets[n] = ed.targets[n]
    BY <1>a, <1>b, <1>c, <2>1, IdleLoads
  <2>3. ed.targets \in Targets
    BY DEF QuietInv, TypeInv, RunInv, DiskInv, DiskType, EditorRecord
  <2>4. ed'.targets = ed.targets
    BY <1>1, <2>2, <2>3 DEF Targets
  <2> QED
    BY <1>a, <1>c, <2>1, <2>4, IdleLoads
<1>6. PlaceInv'
  <2>1. /\ AtMost(snapshotMd, ed'.sv) /\ AtMost(targetsMd, ed'.tv)
        /\ ~ed'.reuse => ed'.tv \notin Present(targetsMd)
    BY <1>1, <1>b, EditorAssumption DEF AtMost, Present, Version
  <2>2. ed'.reuse /\ Published => ed'.tv \in Present(targetsMd)
    BY <1>a, <1>b, IdleLoads
  <2>3. Published /\ (ed'.reuse \/ pc' = "cleanonly") => ed'.targets = PublishedTargets
    BY <1>a, <1>5 DEF QuietInv, PlaceInv, Preparing
  <2> QED
    BY <1>a, <1>2, <1>4, <2>1, <2>2, <2>3 DEF PlaceInv, Preparing, AtMost, Present, disk
<1>7. ContentInv'
  <2>1. \A n \in Name : ed'.targets[n] # None =>
          ed'.targets[n] = ed.targets[n] /\ Published /\ ~(n \in names /\ Listed(n))
    BY <1>a, <1>b, IdleLoads DEF NoTargets
  <2>2. FilesTrue' /\ CertsThere'
    BY <1>a, <2>1 DEF QuietInv, ContentInv, FilesTrue, CertsThere, CertName, disk
  <2>3. ASSUME OwnCerts, NEW n \in CertName, ed'.targets[n] # None
        PROVE  ed'.targets[n] \in bundle'
    <3>1. n \in Name /\ ed'.targets[n] = ed.targets[n] /\ Published /\ ~(n \in names /\ Listed(n))
      BY <2>1, <2>3 DEF CertName
    <3>2. ed.targets[n] \in LoadedBundle
      BY <1>a, <2>3, <3>1, IdleLoads DEF QuietInv, ContentInv
    <3>3. ed.targets[n] \in CertOf[n]
      BY <2>3, <3>1 DEF QuietInv, TypeInv, CertInv, CertTargets
    <3>4. \A m \in names : Expected(m) \in CertOf[m]
      BY <1>3, ExpectedType DEF QuietInv
    <3>5. \A m \in names : Listed(m) => Expected(m) # ed.targets[n]
      BY <1>3, <2>3, <3>1, <3>3, <3>4 DEF OwnCerts
    <3> QED
      BY <1>c, <3>1, <3>2, <3>5
  <2>4. UNCHANGED <<files, plain>> /\ pc' \in {"set", "save", "cleanonly"} /\ ed'.policy # "fail"
    BY <1>a DEF disk, Undisturbed
  <2>5. Published /\ (ed'.reuse \/ pc' = "cleanonly") =>
          ed'.targets[Bundle] = bundle' /\ files'[<<Bundle, bundle'>>] # None
    BY <1>a, <1>5, <2>4 DEF QuietInv, ContentInv, Saved
  <2> QED
    BY <1>a, <1>2, <1>4, <2>2, <2>3, <2>4, <2>5 DEF QuietInv, ContentInv, Saved
<1>8. RetryInv'
  <2>1. \A k \in PendingFiles(names) : \E n \in names : k = <<n, Expected(n)>>
    BY DEF PendingFiles
  <2>2. ASSUME NEW n \in names PROVE Historical(n) = Expected(n)
    <3>1. CASE ~Listed(n)
      BY <3>1 DEF Expected
    <3>2. CASE Listed(n)
      <4> DEFINE u == Latest(targetsMd)
      <4>1. /\ u \in Version /\ targetsMd[u] # None /\ \A w \in Present(targetsMd) : w <= u
            /\ LoadLatest.targets = targetsMd[u].targets
        <5>1. Present(targetsMd) # {}
          BY <1>3, <3>2 DEF Listed, LoadLatest, NoTargets
        <5> QED
          BY <5>1, LatestType DEF LoadLatest
      <4>2. u \in Listing(n) /\ Expected(n) = targetsMd[u].targets[n]
        BY <3>2, <4>1 DEF Listing, Present, Listed, Expected
      <4>3. PICK v \in Listing(n) : Historical(n) = targetsMd[v].targets[n] /\ \A w \in Listing(n) : w <= v
        BY <1>3, <4>2, HistoricalIs
      <4>4. v = u
        <5> HIDE DEF u
        <5> QED
          BY <4>1, <4>2, <4>3, EditorAssumption DEF Listing, Present, Version
      <4> QED
        BY <4>2, <4>3, <4>4
    <3> QED
      BY <3>1, <3>2
  <2>3. \A n \in names : Historical(n)' = Historical(n)
    <3>1. targetsMd' = targetsMd
      BY <1>a DEF disk
    <3>2. \A n \in names : Listing(n)' = Listing(n)
      BY <3>1 DEF Listing, Present
    <3> QED
      BY <1>3, <3>1, <3>2, HistoricalStays
  <2>4. ASSUME NEW k \in pending' PROVE Historical(k[1])' = k[2]
    <3>1. PICK n \in names : k = <<n, Expected(n)>>
      BY <1>a, <2>1
    <3> QED
      BY <2>2, <2>3, <3>1
  <2> QED
    BY <2>4 DEF RetryInv
<1> QED
  BY <1>6, <1>7, <1>8

(* A step that writes no metadata, targets aside from those in memory.     *)
LEMMA MetadataStays ==
  ASSUME UNCHANGED metadata
  PROVE  /\ Settled' = Settled /\ Published' = Published
         /\ PublishedTargets' = PublishedTargets
         /\ \A n \in Name : Historical(n)' = Historical(n)
<1>1. targetsMd' = targetsMd /\ snapshotMd' = snapshotMd /\ timestampMd' = timestampMd
  BY DEF metadata
<1>2. \A n \in Name : Listing(n)' = Listing(n)
  BY <1>1 DEF Listing, Present
<1> QED
  BY <1>1, <1>2, HistoricalStays
     DEF Settled, Published, Present, Top, AtMost, SnapshotOf, PublishedTargets, TargetsOf

(* Setting a target puts its file in place and lists it in the bundle.     *)
LEMMA SetQuiet ==
  ASSUME QuietInv, SetTarget PROVE PlaceInv' /\ ContentInv' /\ RetryInv'
<1> DEFINE m == setting.name
           c == setting.cert
<1>1. m \in CertName /\ m \in Name /\ m # Bundle /\ c \in Cert /\ c \in Digest /\ c # None
  BY RhtasAssumption, EditorAssumption
     DEF SetTarget, QuietInv, TypeInv, RunInv, FilesType, Setting, CertName
<1>2. /\ ed.targets \in Targets /\ files \in [Name \X Digest -> Digest \cup {None, Torn}]
      /\ ed \in EditorRecord
  BY DEF QuietInv, TypeInv, RunInv, FilesType, DiskInv, DiskType, EditorRecord
<1>3. /\ ed'.sv = ed.sv /\ ed'.tv = ed.tv /\ ed'.reuse = ed.reuse /\ ed'.policy = ed.policy
      /\ \A n \in Name : ed'.targets[n] = IF n = m THEN c ELSE ed.targets[n]
  BY <1>1, <1>2 DEF SetTarget, Editing, EditorRecord, Targets
<1>4. /\ UNCHANGED <<metadata, plain, pending>> /\ pc = "set" /\ pc' = "save"
      /\ bundle' = bundle \cup {c} /\ setting' = None
  BY DEF SetTarget
<1>5. /\ files'[<<m, c>>] # None
      /\ \A n \in Name, d \in Digest :
           files'[<<n, d>>] = files[<<n, d>>] \/ files'[<<n, d>>] = d
      /\ \A n \in Name, d \in Digest : files[<<n, d>>] # None => files'[<<n, d>>] # None
  BY <1>1, <1>2 DEF SetTarget, There
<1>6. PlaceInv'
  BY <1>3, <1>4, MetadataStays DEF QuietInv, PlaceInv, Preparing, AtMost, Present, metadata
<1>7. ContentInv'
  <2>1. FilesTrue'
    BY <1>5 DEF QuietInv, ContentInv, FilesTrue
  <2>2. \A n \in CertName : n \in Name /\ (ed.targets[n] # None => ed.targets[n] \in Digest)
    BY <1>2 DEF CertName, Targets
  <2>3. CertsThere'
    BY <1>1, <1>3, <1>5, <2>2 DEF QuietInv, ContentInv, CertsThere
  <2>4. OwnCerts => \A n \in CertName : ed'.targets[n] # None => ed'.targets[n] \in bundle'
    BY <1>1, <1>3, <1>4, <2>2 DEF QuietInv, ContentInv
  <2> QED
    BY <1>3, <1>4, <2>1, <2>3, <2>4, MetadataStays DEF QuietInv, ContentInv, PlaceInv, Saved
<1>8. RetryInv'
  <2>1. \A k \in pending : k[1] \in Name
    BY DEF QuietInv, TypeInv, CertInv, CertName
  <2> QED
    BY <1>1, <1>3, <1>4, <2>1, MetadataStays DEF QuietInv, RetryInv
<1> QED
  BY <1>6, <1>7, <1>8

(* The bundle that is saved is the published one when nothing changed.     *)
LEMMA SaveQuiet ==
  ASSUME QuietInv, SaveBundle PROVE PlaceInv' /\ ContentInv' /\ RetryInv'
<1>1. ed \in EditorRecord /\ ed.targets \in Targets /\ plain \in Targets
  BY DEF QuietInv, TypeInv, RunInv, FilesType, DiskInv, DiskType, EditorRecord
<1>2. Bundle \in Name /\ Bundle \notin CertName /\ CertName \subseteq Name
  BY RhtasAssumption DEF CertName
<1>3. /\ ed'.sv = ed.sv /\ ed'.tv = ed.tv /\ ed'.reuse = ed.reuse /\ ed'.policy = ed.policy
      /\ ed'.targets = [ed.targets EXCEPT ![Bundle] = bundle]
  BY <1>1 DEF SaveBundle, EditorRecord
<1>4. \A n \in Name : ed'.targets[n] = IF n = Bundle THEN bundle ELSE ed.targets[n]
  BY <1>1, <1>2, <1>3 DEF Targets
<1>5. /\ UNCHANGED <<metadata, files, pending, bundle>> /\ pc = "save" /\ pc' = "signers"
      /\ plain' = [plain EXCEPT ![Bundle] = bundle]
  BY DEF SaveBundle, command
<1>6. ed.reuse /\ Published => ed'.targets = ed.targets
  BY <1>1, <1>2, <1>3, <1>5 DEF QuietInv, ContentInv, Targets
<1>7. PlaceInv'
  BY <1>3, <1>5, <1>6, MetadataStays DEF QuietInv, PlaceInv, Preparing, AtMost, Present, metadata
<1>8. ContentInv'
  <2>1. /\ plain'[Bundle] = bundle
        /\ \A n \in CertName : plain'[n] = plain[n] /\ ed'.targets[n] = ed.targets[n]
    BY <1>1, <1>2, <1>4, <1>5 DEF Targets
  <2> QED
    BY <1>2, <1>3, <1>4, <1>5, <2>1 DEF QuietInv, ContentInv, FilesTrue, CertsThere, Saved
<1>9. RetryInv'
  <2>1. \A k \in pending : k[1] \in CertName
    BY DEF QuietInv, TypeInv, CertInv
  <2> QED
    BY <1>2, <1>4, <1>5, <2>1, MetadataStays DEF QuietInv, RetryInv
<1> QED
  BY <1>7, <1>8, <1>9

(* The cleanup takes away no file that the published targets refer to.     *)
LEMMA CleanQuiet ==
  ASSUME QuietInv, NEW n \in CertName, NEW d \in Cert, CleanUp(n, d)
  PROVE  PlaceInv' /\ ContentInv' /\ RetryInv'
<1>1. /\ UNCHANGED <<metadata, plain, run, pc, ed, copied, bundle>>
      /\ pending' \subseteq pending /\ pc \in {"cleanup", "cleanonly"}
  BY DEF CleanUp
<1>2. d \in Digest /\ n \in Name /\ n # Bundle
  BY RhtasAssumption DEF CertName
<1>3. /\ files' = IF ed.targets[n] = d THEN files ELSE [files EXCEPT ![<<n, d>>] = None]
      /\ files \in [Name \X Digest -> Digest \cup {None, Torn}]
  BY DEF CleanUp, QuietInv, TypeInv, RunInv, FilesType
<1>4. \A m \in Name, c \in Digest : files'[<<m, c>>] =
        IF m = n /\ c = d /\ ed.targets[n] # d THEN None ELSE files[<<m, c>>]
  BY <1>2, <1>3
<1>5. PlaceInv'
  BY <1>1, MetadataStays DEF QuietInv, PlaceInv, Preparing, metadata
<1>6. ContentInv'
  <2>1. FilesTrue'
    BY <1>4 DEF QuietInv, ContentInv, FilesTrue
  <2>2. \A m \in CertName : m \in Name /\ (ed.targets[m] # None => ed.targets[m] \in Digest)
    BY DEF CertName, QuietInv, TypeInv, RunInv, DiskInv, DiskType, EditorRecord, Targets
  <2>3. CertsThere'
    BY <1>1, <1>4, <2>2 DEF QuietInv, ContentInv, CertsThere
  <2>4. bundle \in Digest /\ Bundle \in Name
    BY RhtasAssumption DEF QuietInv, TypeInv, RunInv, BundleInv
  <2>5. files'[<<Bundle, bundle>>] = files[<<Bundle, bundle>>]
    BY <1>2, <1>4, <2>4
  <2> QED
    BY <1>1, <2>1, <2>3, <2>5, MetadataStays DEF QuietInv, ContentInv, Saved
<1>7. RetryInv'
  <2>1. \A k \in pending : k[1] \in Name
    BY DEF QuietInv, TypeInv, CertInv, CertName
  <2> QED
    BY <1>1, <2>1, MetadataStays DEF QuietInv, RetryInv
<1> QED
  BY <1>5, <1>6, <1>7

(* What is left once SignAndWrite is through: cleanup, its failure, return. *)
LEMMA ReturnQuiet ==
  ASSUME QuietInv, StartCleanup \/ CleanUpFails \/ Return
  PROVE  PlaceInv' /\ ContentInv' /\ RetryInv'
<1>1. UNCHANGED <<metadata, files, ed, copied, bundle, pending>>
  BY DEF StartCleanup, CleanUpFails, Return, disk, metadata, command
<1>2. /\ pc \in {"written", "cleanup", "cleanonly", "failed"}
      /\ pc' \in {"cleanup", "failed", "idle"}
      /\ pc' = "failed" => Published
      /\ pc' = "cleanup" => Published
  BY DEF StartCleanup, CleanUpFails, Return, QuietInv, PlaceInv
<1>3. PlaceInv'
  BY <1>1, <1>2, MetadataStays DEF QuietInv, PlaceInv, Preparing, metadata
<1>4. /\ \A n \in CertName : plain'[n] = plain[n]
      /\ pc' = "idle" => plain'[Bundle] = None
  <2>1. plain \in Targets /\ Bundle \in Name /\ CertName = Name \ {Bundle}
    BY RhtasAssumption DEF QuietInv, TypeInv, RunInv, FilesType, CertName
  <2>2. CASE StartCleanup
    BY <2>2 DEF StartCleanup, disk
  <2>3. CASE CleanUpFails
    BY <2>3 DEF CleanUpFails, disk, QuietInv, ContentInv
  <2>4. CASE Return
    BY <2>1, <2>4 DEF Return, Targets, QuietInv, ContentInv
  <2> QED
    BY <2>2, <2>3, <2>4
<1>5. ContentInv'
  BY <1>1, <1>2, <1>4, MetadataStays
     DEF QuietInv, PlaceInv, ContentInv, FilesTrue, CertsThere, Saved
<1>6. RetryInv'
  <2>1. \A k \in pending : k[1] \in Name
    BY DEF QuietInv, TypeInv, CertInv, CertName
  <2> QED
    BY <1>1, <2>1, MetadataStays DEF QuietInv, RetryInv
<1> QED
  BY <1>3, <1>5, <1>6

(* SignAndWrite: the metadata, each file of a version above all on disk or *)
(* reused, and then the trust bundle.                                      *)
LEMMA WriteTargetsQuiet ==
  ASSUME QuietInv, WriteTargets, UNCHANGED command
  PROVE  PlaceInv' /\ ContentInv' /\ RetryInv'
<1> DEFINE new == [version |-> ed.tv, by |-> run, targets |-> ed.targets]
<1>1. /\ ed.tv \in Version /\ new # None
      /\ targetsMd' = [targetsMd EXCEPT ![ed.tv] = new]
      /\ targetsMd \in [Version -> TargetsDoc \cup {None}]
  <2>1. ed.tv \in Version /\ ed.targets \in Targets /\ run \in 1 .. MaxRun
    BY DEF WriteTargets, QuietInv, TypeInv, RunInv, DiskInv, DiskType, Planned, EditorRecord
  <2>2. new \in TargetsDoc
    BY <2>1, DocTypes
  <2> QED
    BY <2>1, <2>2, NoneAssumption DEF WriteTargets, QuietInv, TypeInv, RunInv, DiskInv, DiskType
<1>2. /\ UNCHANGED <<snapshotMd, timestampMd, files, plain, run, ed, copied, command>>
      /\ pc = "targets" /\ pc' = "snapshot" /\ ~ed.reuse
  BY DEF WriteTargets
<1>3. /\ \A v \in Version : targetsMd'[v] = IF v = ed.tv THEN new ELSE targetsMd[v]
      /\ Present(targetsMd)' = Present(targetsMd) \cup {ed.tv}
  <2>1. \A v \in Version : targetsMd'[v] = IF v = ed.tv THEN new ELSE targetsMd[v]
    BY <1>1
  <2> HIDE DEF new
  <2> QED
    BY <1>1, <2>1 DEF Present
<1>4. PlaceInv'
  <2>1. Top(targetsMd, ed.tv)' /\ targetsMd'[ed.tv].targets = ed'.targets
    <3>1. ed.tv <= ed.tv
      BY <1>1, EditorAssumption DEF Version
    <3> QED
      BY <1>1, <1>2, <1>3, <3>1 DEF QuietInv, PlaceInv, Preparing, Top, AtMost
  <2>2. AtMost(snapshotMd, ed.sv)'
    BY <1>2 DEF QuietInv, PlaceInv, Preparing, AtMost, Present
  <2> QED
    BY <1>2, <2>1, <2>2 DEF PlaceInv, Preparing
<1>5. ContentInv'
  BY <1>2 DEF QuietInv, ContentInv, FilesTrue, CertsThere, Saved, command
<1>6. RetryInv'
  <2>1. ASSUME NEW k \in pending, ed.targets[k[1]] = None PROVE Historical(k[1])' = k[2]
    <3> DEFINE n == k[1]
    <3>1. n \in Name
      BY DEF QuietInv, TypeInv, CertInv, CertName
    <3>2. ed.tv \notin Present(targetsMd)
      BY <1>2 DEF QuietInv, PlaceInv, Preparing
    <3>3. Listing(n)' = Listing(n)
      BY <1>1, <1>3, <2>1, <3>2 DEF Listing, Present
    <3>4. \A v \in Listing(n) : targetsMd'[v].targets[n] = targetsMd[v].targets[n]
      BY <1>3, <3>2 DEF Listing, Present
    <3>5. Historical(n)' = Historical(n)
      BY <3>1, <3>3, <3>4, HistoricalStays
    <3> QED
      BY <2>1, <3>5 DEF QuietInv, RetryInv
  <2> QED
    BY <1>2, <2>1 DEF RetryInv, command
<1> QED
  BY <1>4, <1>5, <1>6

(* Reusing the targets file and loading signers change neither targets     *)
(* nor files.                                                              *)
LEMMA KeepTargetsQuiet ==
  ASSUME QuietInv, KeepTargets \/ LoadSigners, UNCHANGED command
  PROVE  PlaceInv' /\ ContentInv' /\ RetryInv'
<1>1. UNCHANGED <<metadata, files, plain, run, ed, copied, bundle, pending>>
  BY DEF KeepTargets, LoadSigners, disk, metadata, command
<1>2. /\ \/ pc = "signers" /\ pc' = "targets"
         \/ pc = "targets" /\ pc' = "failed" /\ targetsMd[ed.tv] = None
         \/ pc = "targets" /\ pc' = "snapshot" /\ targetsMd[ed.tv] # None
      /\ pc = "targets" => ed.reuse
  BY DEF KeepTargets, LoadSigners
<1>3. ed.tv \in Version
  BY DEF QuietInv, TypeInv, RunInv, DiskInv, DiskType, EditorRecord
<1>4. pc' = "failed" => ~Published
  BY <1>2 DEF QuietInv, PlaceInv, Preparing, Present
<1>5. pc' = "snapshot" => Top(targetsMd, ed.tv) /\ targetsMd[ed.tv].targets = ed.targets
  <2>1. SUFFICES ASSUME pc' = "snapshot"
                 PROVE  Top(targetsMd, ed.tv) /\ targetsMd[ed.tv].targets = ed.targets
    OBVIOUS
  <2>2. pc = "targets" /\ ed.reuse /\ ed.tv \in Present(targetsMd)
    BY <1>2, <1>3, <2>1 DEF Present
  <2>3. Top(targetsMd, ed.tv) /\ Published
    BY <2>2 DEF QuietInv, PlaceInv, Preparing, Top, Settled
  <2>4. Top(targetsMd, SnapshotOf(timestampMd).meta.version) /\ ed.targets = PublishedTargets
    BY <2>2, <2>3 DEF QuietInv, PlaceInv, Preparing, Settled
  <2>5. SnapshotOf(timestampMd).meta.version = ed.tv
    BY <2>3, <2>4, TopIsLatest
  <2> QED
    BY <2>3, <2>4, <2>5 DEF PublishedTargets, TargetsOf
<1>6. PlaceInv'
  <2>1. /\ Top(targetsMd, ed.tv)' = Top(targetsMd, ed.tv)
        /\ AtMost(targetsMd, ed.tv)' = AtMost(targetsMd, ed.tv)
        /\ AtMost(snapshotMd, ed.sv)' = AtMost(snapshotMd, ed.sv)
        /\ Present(targetsMd)' = Present(targetsMd)
    BY <1>1 DEF Top, AtMost, Present, metadata
  <2> QED
    BY <1>1, <1>2, <1>4, <1>5, <2>1, MetadataStays DEF QuietInv, PlaceInv, Preparing, metadata
<1>7. ContentInv'
  BY <1>1, <1>2, <1>4, MetadataStays DEF QuietInv, ContentInv, FilesTrue, CertsThere, Saved
<1>8. RetryInv'
  <2>1. \A k \in pending : k[1] \in Name
    BY DEF QuietInv, TypeInv, CertInv, CertName
  <2> QED
    BY <1>1, <2>1, MetadataStays DEF QuietInv, RetryInv
<1> QED
  BY <1>6, <1>7, <1>8

(* Neither does writing snapshot and timestamp. *)
LEMMA WriteLinksQuiet ==
  ASSUME QuietInv, WriteSnapshot \/ WriteTimestamp, UNCHANGED command
  PROVE  PlaceInv' /\ ContentInv' /\ RetryInv'
<1>0. /\ ed.tv \in Version /\ ed.sv \in Version /\ ed.tsv \in Version /\ run \in 1 .. MaxRun
      /\ Bundle \in Name /\ pc # "idle"
  BY RhtasAssumption DEF WriteSnapshot, WriteTimestamp, QuietInv, TypeInv, RunInv, DiskInv,
     DiskType, Planned, EditorRecord
<1>1. UNCHANGED <<targetsMd, files, plain, run, ed, bundle, pending>>
  BY DEF WriteSnapshot, WriteTimestamp, command
<1>2. RetryInv'
  <2>1. \A k \in pending : k[1] \in Name
    BY DEF QuietInv, TypeInv, CertInv, CertName
  <2>2. \A n \in Name : Listing(n)' = Listing(n)
    BY <1>1 DEF Listing, Present
  <2>3. \A n \in Name : Historical(n)' = Historical(n)
    BY <1>1, <2>2, HistoricalStays
  <2> QED
    BY <1>1, <2>1, <2>3 DEF QuietInv, RetryInv
<1>3. ContentInv'
  BY <1>0, <1>1 DEF WriteSnapshot, WriteTimestamp, QuietInv, ContentInv, FilesTrue, CertsThere, Saved
<1>4. /\ Top(targetsMd, ed.tv)' /\ targetsMd'[ed.tv].targets = ed'.targets
      /\ targetsMd[ed.tv] \in TargetsDoc /\ targetsMd[ed.tv].version = ed.tv
  <2>1. Top(targetsMd, ed.tv) /\ targetsMd[ed.tv].targets = ed.targets
    BY DEF WriteSnapshot, WriteTimestamp, QuietInv, PlaceInv
  <2>2. targetsMd[ed.tv] # None
    BY <2>1 DEF Top, Present
  <2> QED
    BY <1>0, <1>1, <2>1, <2>2 DEF Top, AtMost, Present, QuietInv, TypeInv, RunInv, DiskInv,
       DiskType, Indexed
<1>5. CASE WriteSnapshot
  <2> DEFINE new == [version |-> ed.sv, by |-> run, meta |-> RefTo(targetsMd[ed.tv])]
  <2>1. new \in LinkDoc /\ new # None
    BY <1>0, <1>4, DocTypes, NoneAssumption
  <2>2. \A v \in Version : snapshotMd'[v] = IF v = ed.sv THEN new ELSE snapshotMd[v]
    BY <1>0, <1>5 DEF WriteSnapshot, QuietInv, TypeInv, RunInv, DiskInv, DiskType
  <2>3. Present(snapshotMd)' = Present(snapshotMd) \cup {ed.sv}
    <3> HIDE DEF new
    <3> QED
      BY <1>0, <2>1, <2>2 DEF Present
  <2>4. ed.sv <= ed.sv
    BY <1>0, EditorAssumption DEF Version
  <2>5. Top(snapshotMd, ed.sv)' /\ pc' = "timestamp"
    BY <1>1, <1>5, <2>3, <2>4 DEF WriteSnapshot, QuietInv, PlaceInv, Top, AtMost
  <2>6. PlaceInv'
    BY <1>1, <1>4, <2>5 DEF PlaceInv, Preparing
  <2> QED
    BY <1>2, <1>3, <2>6
<1>6. CASE WriteTimestamp
  <2>1. /\ timestampMd' = [version |-> ed.tsv, by |-> run, meta |-> RefTo(snapshotMd[ed.sv])]
        /\ snapshotMd' = snapshotMd /\ pc = "timestamp" /\ pc' = "copy"
    BY <1>6 DEF WriteTimestamp
  <2>2. /\ Top(snapshotMd, ed.sv) /\ snapshotMd[ed.sv].meta = RefTo(targetsMd[ed.tv])
        /\ snapshotMd[ed.sv] \in LinkDoc /\ snapshotMd[ed.sv].version = ed.sv
    BY <1>0, <2>1 DEF QuietInv, PlaceInv, TypeInv, RunInv, DiskInv, DiskType, Flow, Indexed
  <2>3. timestampMd' \in LinkDoc /\ Published'
    BY <1>0, <2>1, <2>2, DocTypes, NoneAssumption DEF Published
  <2>4. timestampMd'.meta.version = ed.sv /\ SnapshotOf(timestampMd)'.meta.version = ed.tv
    BY <1>4, <2>1, <2>2 DEF RefTo, SnapshotOf
  <2>5. Settled' /\ PublishedTargets' = ed'.targets
    BY <1>1, <1>4, <2>1, <2>2, <2>3, <2>4
       DEF Settled, Top, AtMost, Present, PublishedTargets, TargetsOf
  <2>6. PlaceInv'
    BY <2>1, <2>3, <2>5 DEF PlaceInv, Preparing
  <2> QED
    BY <1>2, <1>3, <2>6
<1> QED
  BY <1>5, <1>6

(* The last loop has nothing to copy but the trust bundle, and finds it.   *)
LEMMA CopyQuiet ==
  ASSUME Undisturbed, QuietInv, UNCHANGED command,
         AllCopied \/ \E n \in Name : \/ SkipTarget(n) \/ CopyTarget(n)
                                      \/ CopyTargetTorn(n) \/ TargetRefused(n)
  PROVE  PlaceInv' /\ ContentInv' /\ RetryInv'
<1>1. /\ UNCHANGED <<metadata, run, ed, bundle, pending>> /\ pc = "copy"
  BY DEF AllCopied, SkipTarget, CopyTarget, CopyTargetTorn, TargetRefused, disk, metadata, command
<1>2. /\ Published /\ ed.targets[Bundle] = bundle /\ bundle \in Digest /\ bundle # None
      /\ Bundle \in Name /\ CertName = Name \ {Bundle} /\ ed.policy # "fail"
      /\ IF Bundle \in copied THEN files[<<Bundle, bundle>>] # None ELSE plain[Bundle] = bundle
      /\ files \in [Name \X Digest -> Digest \cup {None, Torn}] /\ plain \in Targets
  BY <1>1, RhtasAssumption, EditorAssumption
     DEF QuietInv, PlaceInv, ContentInv, Saved, TypeInv, RunInv, BundleInv, FilesType, CertName
<1>3. RetryInv'
  <2>1. \A k \in pending : k[1] \in Name
    BY DEF QuietInv, TypeInv, CertInv, CertName
  <2> QED
    BY <1>1, <2>1, MetadataStays DEF QuietInv, RetryInv
<1>4. ASSUME pc' \in {"copy", "written"} PROVE PlaceInv'
  BY <1>1, <1>2, <1>4, MetadataStays DEF QuietInv, PlaceInv, Preparing, metadata
<1>5. CASE AllCopied
  <2>1. Bundle \in copied
    BY <1>2, <1>5 DEF AllCopied, ToCopy
  <2>2. UNCHANGED <<files, plain, copied>> /\ pc' = "written"
    BY <1>5 DEF AllCopied, disk
  <2>3. ContentInv'
    BY <1>1, <1>2, <2>1, <2>2 DEF QuietInv, ContentInv, FilesTrue, CertsThere, Saved
  <2> QED
    BY <1>3, <1>4, <2>2, <2>3
<1>6. ASSUME NEW n \in Name, SkipTarget(n) PROVE PlaceInv' /\ ContentInv' /\ RetryInv'
  <2>1. /\ UNCHANGED <<files, plain, pc>> /\ copied' = copied \cup {n}
        /\ files[<<n, ed.targets[n]>>] # None
    BY <1>6 DEF SkipTarget, disk, Prefixed
  <2>2. ContentInv'
    BY <1>1, <1>2, <2>1 DEF QuietInv, ContentInv, FilesTrue, CertsThere, Saved
  <2> QED
    BY <1>1, <1>3, <1>4, <2>1, <2>2
<1>7. ASSUME NEW n \in Name, CopyTarget(n) PROVE PlaceInv' /\ ContentInv' /\ RetryInv'
  <2>1. n = Bundle /\ plain[n] = bundle /\ pc' = pc /\ copied' = copied \cup {n}
    BY <1>2, <1>7 DEF CopyTarget, ToCopy, QuietInv, ContentInv
  <2>2. /\ files' = [files EXCEPT ![<<Bundle, bundle>>] = bundle]
        /\ plain' = [plain EXCEPT ![Bundle] = None]
    BY <1>2, <1>7, <2>1 DEF CopyTarget
  <2>3. /\ \A m \in Name, c \in Digest : files'[<<m, c>>] =
             IF m = Bundle /\ c = bundle THEN bundle ELSE files[<<m, c>>]
        /\ \A m \in CertName : plain'[m] = plain[m]
    BY <1>2, <2>2 DEF Targets
  <2>4. FilesTrue' /\ files'[<<Bundle, bundle>>] # None
    BY <1>2, <2>3 DEF QuietInv, ContentInv, FilesTrue
  <2>5. CertsThere'
    <3>1. \A m \in CertName : m \in Name /\ (ed.targets[m] # None => ed.targets[m] \in Digest)
      BY DEF CertName, QuietInv, TypeInv, RunInv, DiskInv, DiskType, EditorRecord, Targets
    <3> QED
      BY <1>1, <1>2, <2>3, <3>1 DEF QuietInv, ContentInv, CertsThere
  <2>6. ContentInv'
    BY <1>1, <1>2, <2>1, <2>3, <2>4, <2>5 DEF QuietInv, ContentInv, Saved
  <2> QED
    BY <1>1, <1>3, <1>4, <2>1, <2>6
<1>8. ASSUME NEW n \in Name PROVE ~CopyTargetTorn(n) /\ ~TargetRefused(n)
  <2>1. ~CopyTargetTorn(n)
    BY DEF CopyTargetTorn, Undisturbed
  <2>2. ASSUME n \in ToCopy, Prefixed(n) = None, plain[n] = None PROVE FALSE
    <3>1. CASE n = Bundle
      BY <1>2, <2>2, <3>1 DEF ToCopy
    <3>2. CASE n # Bundle
      BY <1>2, <2>2, <3>2 DEF ToCopy, Prefixed, QuietInv, ContentInv, CertsThere
    <3> QED
      BY <3>1, <3>2
  <2> QED
    BY <1>2, <2>1, <2>2 DEF TargetRefused
<1> QED
  BY <1>5, <1>6, <1>7, <1>8

(* The invariant of repositories whose runs are undisturbed.               *)
LEMMA QuietStep == ASSUME Undisturbed, QuietInv, [Next]_vars PROVE QuietInv'
<1>0. TypeInv'
  BY TypeStep DEF QuietInv
<1> SUFFICES PlaceInv' /\ ContentInv' /\ RetryInv'
  BY <1>0 DEF QuietInv
<1>1. ASSUME NEW names \in SUBSET CertName, NEW s \in Setting \cup {None},
             NEW e \in Expires, NEW p \in Policies, Begin(names, s, e, p)
      PROVE  PlaceInv' /\ ContentInv' /\ RetryInv'
  BY <1>0, <1>1, BeginQuiet
<1>2. CASE SetTarget \/ SaveBundle
  BY <1>2, SetQuiet, SaveQuiet
<1>3. CASE StartCleanup \/ CleanUpFails \/ Return
  BY <1>3, ReturnQuiet
<1>4. ASSUME NEW n \in CertName, NEW d \in Cert, CleanUp(n, d)
      PROVE  PlaceInv' /\ ContentInv' /\ RetryInv'
  BY <1>4, CleanQuiet
<1>5. CASE SignAndWrite /\ UNCHANGED command
  <2>1. ~StepFails
    BY DEF StepFails, Undisturbed
  <2> QED
    BY <1>5, <2>1, WriteTargetsQuiet, KeepTargetsQuiet, WriteLinksQuiet, CopyQuiet DEF SignAndWrite
<1>6. ~SetTargetFails /\ ~Crash
  BY DEF SetTargetFails, Crash, Undisturbed, QuietInv, ContentInv
<1>7. CASE UNCHANGED vars
  <2>1. /\ UNCHANGED <<metadata, files, plain, run, pc, ed, copied, bundle, pending>>
        /\ \A k \in pending : k[1] \in Name
    BY <1>7 DEF vars, disk, metadata, command, QuietInv, TypeInv, CertInv, CertName
  <2>2. PlaceInv'
    BY <2>1 DEF metadata, QuietInv, PlaceInv, Preparing, Settled, Top, AtMost, Present, Published,
                SnapshotOf, PublishedTargets, TargetsOf
  <2>3. ContentInv'
    BY <2>1, MetadataStays DEF QuietInv, ContentInv, FilesTrue, CertsThere, Saved
  <2>4. RetryInv'
    BY <2>1, MetadataStays DEF QuietInv, RetryInv
  <2> QED
    BY <2>2, <2>3, <2>4
<1> QED
  BY <1>1, <1>2, <1>3, <1>4, <1>5, <1>6, <1>7 DEF Next

(* The repository begins with nothing listed and nothing pending. *)
LEMMA InitQuiet == Init => QuietInv
<1> SUFFICES ASSUME Init PROVE QuietInv
  OBVIOUS
<1>1. ~Published /\ \A v \in Version : targetsMd[v] = None /\ snapshotMd[v] = None
  BY DEF Init, Published
<1>2. Settled
  BY <1>1 DEF Settled, Present
<1>3. PlaceInv
  BY <1>1, <1>2 DEF Init, PlaceInv, Preparing
<1>4. ContentInv
  BY <1>1, RhtasAssumption
     DEF Init, ContentInv, FilesTrue, CertsThere, NoTargets, CertName, Saved
<1> QED
  BY <1>3, <1>4, InitType DEF Init, QuietInv, RetryInv

(* Between undisturbed runs the trust bundle lists every certificate that  *)
(* is published, and every published file is there: also when a cleanup    *)
(* failed and was retried, when what was deleted is set again, or when a   *)
(* run had nothing to change.                                              *)
THEOREM RhtasTrustFollowsTargets ==
  Undisturbed /\ OwnCerts => (Spec => []TrustFollowsTargets)
<1> SUFFICES ASSUME Undisturbed, OwnCerts PROVE Spec => []TrustFollowsTargets
  OBVIOUS
<1>1. QuietInv /\ [Next]_vars => QuietInv'
  BY QuietStep
<1>2. QuietInv => TrustFollowsTargets
  <2> SUFFICES ASSUME QuietInv, pc = "idle", Published
               PROVE  /\ \A n \in Name : Served(n)
                      /\ \A n \in CertName : PublishedTargets[n] # None =>
                           PublishedTargets[n] \in PublishedBundle
    BY DEF TrustFollowsTargets
  <2>1. /\ PublishedTargets = ed.targets /\ ed.targets[Bundle] = bundle
        /\ files[<<Bundle, bundle>>] # None
    BY DEF QuietInv, PlaceInv, Preparing, ContentInv, Saved
  <2>2. /\ bundle \in Digest /\ bundle # None /\ CertName = Name \ {Bundle}
        /\ \A n \in Name : ed.targets[n] \in Digest \cup {None}
    BY RhtasAssumption, EditorAssumption
       DEF QuietInv, TypeInv, RunInv, BundleInv, CertName, DiskInv, DiskType, EditorRecord, Targets
  <2>3. ASSUME NEW n \in Name PROVE Served(n)
    <3>1. ed.targets[n] # None => files[<<n, ed.targets[n]>>] # None
      BY <2>1, <2>2 DEF QuietInv, ContentInv, CertsThere
    <3>2. ed.targets[n] # None => files[<<n, ed.targets[n]>>] = ed.targets[n]
      BY <2>2, <3>1 DEF QuietInv, ContentInv, FilesTrue
    <3> QED
      BY <2>1, <3>2 DEF Served, PublishedTargets
  <2>4. PublishedBundle = bundle
    BY <2>1, <2>2 DEF PublishedBundle
  <2> QED
    BY <2>1, <2>3, <2>4 DEF QuietInv, ContentInv
<1> QED
  BY <1>1, <1>2, InitQuiet, PTL DEF Spec

(* A deletion whose cleanup failed can be repeated until the file is gone: *)
(* the newest metadata that still lists the target is the one it had.      *)
THEOREM RhtasCleanupIsRetryable == Undisturbed => (Spec => []CleanupIsRetryable)
<1> SUFFICES ASSUME Undisturbed PROVE Spec => []CleanupIsRetryable
  OBVIOUS
<1>1. QuietInv /\ [Next]_vars => QuietInv'
  BY QuietStep
<1>2. QuietInv => CleanupIsRetryable
  <2> SUFFICES ASSUME QuietInv, pc = "idle", Published, NEW k \in pending,
                      files[k] # None, PublishedTargets[k[1]] = None
               PROVE  ~Listed(k[1]) /\ Deletable(k[1]) /\ Historical(k[1]) = k[2]
    BY DEF CleanupIsRetryable
  <2>1. /\ k[1] \in Name /\ k[2] \in Digest /\ k = <<k[1], k[2]>>
    BY RhtasAssumption DEF QuietInv, TypeInv, CertInv, CertName
  <2>2. PublishedTargets = ed.targets /\ LoadLatest.targets = ed.targets
    BY IdleLoads DEF QuietInv, PlaceInv, Preparing
  <2>3. ~Listed(k[1]) /\ Historical(k[1]) = k[2]
    BY <2>2 DEF Listed, QuietInv, RetryInv
  <2>4. files[<<k[1], k[2]>>] = k[2]
    BY <2>1 DEF QuietInv, ContentInv, FilesTrue
  <2> QED
    BY <2>1, <2>3, <2>4, EditorAssumption DEF Deletable, Expected
<1> QED
  BY <1>1, <1>2, InitQuiet, PTL DEF Spec

(* The cleanup of a deletion removes no file that the published targets    *)
(* refer to, and nothing else removes one.                                 *)
THEOREM RhtasCleanupSparesPublished == Undisturbed => (Spec => CleanupSparesPublished)
<1> SUFFICES ASSUME Undisturbed PROVE Spec => CleanupSparesPublished
  OBVIOUS
<1>1. QuietInv /\ [Next]_vars => QuietInv'
  BY QuietStep
<1>2. QuietInv /\ [Next]_vars =>
        [\A n \in CertName, d \in Cert :
           files[<<n, d>>] # None /\ files'[<<n, d>>] = None => PublishedTargets[n] # d]_vars
  <2> SUFFICES ASSUME QuietInv, Next, NEW n \in CertName, NEW d \in Cert,
                      files[<<n, d>>] # None, files'[<<n, d>>] = None
               PROVE  PublishedTargets[n] # d
    OBVIOUS
  <2>0. /\ n \in Name /\ d \in Digest /\ d # None /\ Torn # None
        /\ files \in [Name \X Digest -> Digest \cup {None, Torn}]
    BY RhtasAssumption, EditorAssumption DEF CertName, QuietInv, TypeInv, RunInv, FilesType
  <2>1. CASE \E m \in CertName, c \in Cert : CleanUp(m, c)
    <3>1. PICK m \in CertName, c \in Cert : CleanUp(m, c)
      BY <2>1
    <3>2. m = n /\ c = d /\ ed.targets[n] # d
      BY <2>0, <3>1 DEF CleanUp
    <3>3. PublishedTargets = ed.targets
      BY <3>1 DEF CleanUp, QuietInv, PlaceInv, Preparing
    <3> QED
      BY <3>2, <3>3
  <2>2. ~(\E m \in CertName, c \in Cert : CleanUp(m, c)) => FALSE
    <3>1. ASSUME files' = files PROVE FALSE
      BY <3>1
    <3>2. ASSUME NEW i \in Name \X Digest, NEW c \in Digest \cup {Torn},
                 files' = [files EXCEPT ![i] = c]
          PROVE  FALSE
      BY <2>0, <3>2, EditorAssumption
    <3>3. ~SetTarget
      <4>1. SetTarget => setting.name \in Name /\ setting.cert \in Digest
        BY RhtasAssumption DEF SetTarget, QuietInv, TypeInv, RunInv, FilesType, Setting, CertName
      <4> QED
        BY <3>1, <3>2, <4>1 DEF SetTarget
    <3>4. \A m \in Name : ~CopyTarget(m) /\ ~CopyTargetTorn(m)
      <4>1. ASSUME NEW m \in Name, CopyTarget(m) PROVE FALSE
        <5>1. /\ ed.targets[m] \in Digest /\ plain[m] \in Digest
              /\ files' = [files EXCEPT ![<<m, ed.targets[m]>>] = plain[m]]
          BY <4>1 DEF CopyTarget, ToCopy, QuietInv, TypeInv, RunInv, FilesType, DiskInv,
                      DiskType, EditorRecord, Targets
        <5> QED
          BY <3>2, <5>1
      <4> QED
        BY <4>1 DEF CopyTargetTorn, Undisturbed
    <3>5. ~SetTargetFails /\ ~Crash /\ ~StepFails
      BY DEF SetTargetFails, Crash, StepFails, Undisturbed, QuietInv, ContentInv
    <3>6. ASSUME NEW m \in Name, SkipTarget(m) \/ TargetRefused(m) PROVE FALSE
      BY <3>1, <3>6 DEF SkipTarget, TargetRefused, disk
    <3>7. ~(LoadSigners \/ WriteTargets \/ KeepTargets \/ WriteSnapshot \/ WriteTimestamp \/ AllCopied)
      BY <3>1 DEF LoadSigners, WriteTargets, KeepTargets, WriteSnapshot, WriteTimestamp,
                  AllCopied, disk
    <3>8. ~(SaveBundle \/ StartCleanup \/ CleanUpFails \/ Return)
      BY <3>1 DEF SaveBundle, StartCleanup, CleanUpFails, Return, disk
    <3>9. \A names \in SUBSET CertName, s \in Setting \cup {None}, e \in Expires, p \in Policies :
            ~Begin(names, s, e, p)
      BY <3>1 DEF Begin, disk
    <3> QED
      BY <3>3, <3>4, <3>5, <3>6, <3>7, <3>8, <3>9 DEF Next, SignAndWrite
  <2> QED
    BY <2>1, <2>2
<1> QED
  BY <1>1, <1>2, InitQuiet, PTL DEF Spec, CleanupSparesPublished

-----------------------------------------------------------------------------
(* What a reader holds that has verified the timestamp ts: the files it    *)
(* leads to are there, with the hashes recorded, and are none of those     *)
(* that the current run is yet to write.                                   *)
Held(ts) ==
  /\ ts \in LinkDoc
  /\ SnapshotOf(ts) # None /\ RefTo(SnapshotOf(ts)) = ts.meta
  /\ TargetsOf(ts) # None /\ RefTo(TargetsOf(ts)) = SnapshotOf(ts).meta
  /\ Planned => ed.sv # ts.meta.version /\ (ed.reuse \/ ed.tv # SnapshotOf(ts).meta.version)

Steps == {"idle", "timestamp", "snapshot", "targets", "cache", "cache2", "cache3",
          "resolve", "mkdir", "download", "done", "missing", "refused"}

ClientType ==
  /\ rpc \in [Reader -> Steps] /\ cmd \in [Reader -> {None, "clone", "download"}]
  /\ wanted \in [Reader -> {None} \cup SUBSET Name]
  /\ trusted \in [Reader -> [timestamp : LinkDoc \cup {None}, snapshot : LinkDoc \cup {None},
                             targets : TargetsDoc \cup {None}]]
  /\ left \in [Reader -> SUBSET Name] /\ current \in [Reader -> Targets \cup {None}]
  /\ dirs \subseteq {"metadata", "targets", "outdir"}
  /\ copyMd \in [timestamp : CompactLinkDoc \cup {None},
                 snapshot : [Version -> CompactLinkDoc \cup {None}],
                 targets : [Version -> CompactTargetsDoc \cup {None}]]
  /\ copyOf \in [{"targets", "outdir"} -> Targets]

(* What a reader has verified is one publication, read to the end or not.  *)
ReadInv(r) ==
  LET t == trusted[r]
  IN /\ rpc[r] \in {"snapshot", "targets"} =>
          Held(t.timestamp) /\ TargetsOf(t.timestamp).targets = current[r]
     /\ rpc[r] = "targets" => t.snapshot = SnapshotOf(t.timestamp)
     /\ rpc[r] \in {"cache", "cache2", "cache3", "resolve", "mkdir", "download", "done"} =>
          /\ t.timestamp # None /\ t.snapshot # None /\ t.targets # None
          /\ t.snapshot.version = t.timestamp.meta.version
          /\ t.targets.version = t.snapshot.meta.version
          /\ t.targets.targets = current[r]

(* A command holds its directories alone, from the moment it has looked    *)
(* for them (clone) or made them (download).                               *)
AloneInv ==
  /\ \A r, o \in Reader : cmd[r] = "clone" /\ cmd[o] = "clone" => r = o
  /\ \A r, o \in Reader : cmd[r] = "download" /\ cmd[o] = "download"
       /\ rpc[r] \in {"download", "done"} /\ rpc[o] \in {"download", "done"} => r = o
  /\ \A d \in {"targets", "outdir"} : d \notin dirs => copyOf[d] = NoTargets
  /\ \A r \in Reader :
       /\ ~Active(r) /\ rpc[r] # "done" => cmd[r] = None
       /\ Active(r) \/ rpc[r] = "done" => cmd[r] # None
       /\ rpc[r] # "refused"
       /\ rpc[r] \in {"cache", "cache2", "cache3"} => cmd[r] = "clone"
       /\ rpc[r] \in {"resolve", "mkdir", "download"} => wanted[r] # None
       /\ cmd[r] = "download" => wanted[r] # None
       /\ cmd[r] = "clone" /\ wanted[r] # None /\ rpc[r] \notin {"download", "done"} =>
            "targets" \notin dirs
       /\ cmd[r] = "download" /\ rpc[r] \in {"download", "done"} => "outdir" \in dirs
       /\ cmd[r] = "clone" /\ wanted[r] # None /\ rpc[r] \in {"download", "done"} =>
            "targets" \in dirs

(* What a reader has copied so far. *)
Requested(r) == {n \in Name : wanted[r] = {} \/ n \in wanted[r]}

CopyInv(r) ==
  LET t == trusted[r]
  IN /\ cmd[r] = "clone" =>
          /\ rpc[r] \in {"cache2", "cache3", "resolve", "mkdir", "download", "done"} =>
               copyMd.timestamp = Compact(t.timestamp)
          /\ rpc[r] \in {"cache3", "resolve", "mkdir", "download", "done"} =>
               copyMd.snapshot[t.snapshot.version] = Compact(t.snapshot)
          /\ rpc[r] \in {"resolve", "mkdir", "download", "done"} =>
               copyMd.targets[t.targets.version] = Compact(t.targets)
     /\ rpc[r] \in {"mkdir", "download"} => left[r] \subseteq Requested(r)
     /\ rpc[r] = "mkdir" => \A n \in Requested(r) \ left[r] : current[r][n] = None
     /\ rpc[r] \in {"download", "done"} /\ wanted[r] # None =>
          \A n \in Name : copyOf[TargetsDir(r)][n] =
            IF n \in Requested(r) \ left[r] THEN current[r][n] ELSE None
     /\ rpc[r] = "done" /\ wanted[r] # None => left[r] = {}

ReaderInv ==
  ClientType /\ AloneInv /\ \A r \in Reader : ReadInv(r) /\ CopyInv(r)

-----------------------------------------------------------------------------
(* The publisher's steps.  No step of a run rewrites the files that a      *)
(* reader is led to, and no run that begins plans to.                      *)
LEMMA HeldStays ==
  ASSUME ~NoChange, IInv, [Next]_vars, NEW ts \in LinkDoc, Held(ts)
  PROVE  /\ snapshotMd'[ts.meta.version] = SnapshotOf(ts)
         /\ targetsMd'[SnapshotOf(ts).meta.version] = TargetsOf(ts)
         /\ Planned' => /\ ed'.sv # ts.meta.version
                        /\ ed'.reuse \/ ed'.tv # SnapshotOf(ts).meta.version
<1> DEFINE sv == ts.meta.version
           tv == SnapshotOf(ts).meta.version
<1>0. /\ sv \in Version /\ tv \in Version
      /\ sv \in Present(snapshotMd) /\ tv \in Present(targetsMd)
  <2>1. sv \in Version
    BY DEF LinkDoc, Ref
  <2>2. SnapshotOf(ts) \in LinkDoc
    BY <2>1 DEF Held, SnapshotOf, IInv, RunInv, DiskInv, DiskType
  <2>3. tv \in Version
    BY <2>2 DEF LinkDoc, Ref
  <2> QED
    BY <2>1, <2>3 DEF Held, Present, SnapshotOf, TargetsOf
<1>1. ASSUME NEW names \in SUBSET CertName, NEW s \in Setting \cup {None},
             NEW e \in Expires, NEW p \in Policies, Begin(names, s, e, p)
      PROVE  /\ UNCHANGED metadata
             /\ ed'.sv # sv /\ (ed'.reuse \/ ed'.tv # tv)
  <2>1. /\ UNCHANGED disk
        /\ ed'.sv = LoadLatest.sv + 1
        /\ ed'.reuse \/ ed'.tv = LoadLatest.tv + 1
    BY <1>1, BeginPlans DEF IInv
  <2>2. /\ LoadLatest.tv \in Version /\ LoadLatest.sv \in Version
        /\ \A v \in Present(targetsMd) : v <= LoadLatest.tv
        /\ \A v \in Present(snapshotMd) : v <= LoadLatest.sv
    BY LoadedType DEF IInv, RunInv, DiskInv
  <2>3. LoadLatest.sv + 1 # sv /\ LoadLatest.tv + 1 # tv
    <3>1. sv <= LoadLatest.sv /\ tv <= LoadLatest.tv
      BY <1>0, <2>2
    <3> HIDE DEF sv, tv
    <3> QED
      BY <1>0, <2>2, <3>1, EditorAssumption DEF Version
  <2> QED
    BY <2>1, <2>3 DEF disk, metadata
<1>2. ASSUME UNCHANGED metadata, Planned' => Planned,
             Planned' => ed'.sv = ed.sv /\ ed'.tv = ed.tv /\ ed'.reuse = ed.reuse
      PROVE  /\ snapshotMd'[sv] = SnapshotOf(ts) /\ targetsMd'[tv] = TargetsOf(ts)
             /\ Planned' => ed'.sv # sv /\ (ed'.reuse \/ ed'.tv # tv)
  BY <1>2 DEF Held, metadata, SnapshotOf, TargetsOf
<1>3. CASE SetTarget \/ (SetTargetFails /\ UNCHANGED command) \/ SaveBundle
  <2>1. /\ [ed EXCEPT !.targets[Bundle] = bundle].sv = ed.sv
        /\ [ed EXCEPT !.targets[Bundle] = bundle].tv = ed.tv
        /\ [ed EXCEPT !.targets[Bundle] = bundle].reuse = ed.reuse
        /\ Editing.sv = ed.sv /\ Editing.tv = ed.tv /\ Editing.reuse = ed.reuse
    BY DEF IInv, RunInv, DiskInv, DiskType, EditorRecord, Editing
  <2> QED
    BY <1>2, <1>3, <2>1 DEF SetTarget, SetTargetFails, SaveBundle, Planned
<1>4. CASE \E n \in CertName, d \in Cert : CleanUp(n, d)
  BY <1>2, <1>4 DEF CleanUp, Planned
<1>5. CASE StartCleanup \/ CleanUpFails \/ Return
  BY <1>2, <1>5 DEF StartCleanup, CleanUpFails, Return, Planned, disk, metadata
<1>6. CASE SignAndWrite /\ UNCHANGED command
  <2>1. CASE StepFails \/ LoadSigners \/ KeepTargets \/ AllCopied
    BY <1>2, <2>1 DEF StepFails, LoadSigners, KeepTargets, AllCopied, disk, metadata, Planned
  <2>2. CASE \E n \in Name : SkipTarget(n) \/ CopyTarget(n) \/ CopyTargetTorn(n) \/ TargetRefused(n)
    BY <1>2, <2>2 DEF SkipTarget, CopyTarget, CopyTargetTorn, TargetRefused, disk, metadata, Planned
  <2>3. CASE WriteTargets
    <3>1. targetsMd'[tv] = targetsMd[tv]
      BY <1>0, <2>3 DEF WriteTargets, Held, Planned, IInv, RunInv, DiskInv, DiskType
    <3> QED
      BY <2>3, <3>1 DEF WriteTargets, Held, Planned, SnapshotOf, TargetsOf
  <2>4. CASE WriteSnapshot
    <3>1. snapshotMd'[sv] = snapshotMd[sv]
      BY <1>0, <2>4 DEF WriteSnapshot, Held, Planned, IInv, RunInv, DiskInv, DiskType
    <3> QED
      BY <2>4, <3>1 DEF WriteSnapshot, Held, Planned, SnapshotOf, TargetsOf
  <2>5. CASE WriteTimestamp
    BY <2>5 DEF WriteTimestamp, Held, Planned, SnapshotOf, TargetsOf
  <2> QED
    BY <1>6, <2>1, <2>2, <2>3, <2>4, <2>5 DEF SignAndWrite
<1>7. CASE (Crash /\ UNCHANGED command) \/ UNCHANGED vars
  BY <1>2, <1>7 DEF Crash, vars, Planned, disk, metadata
<1> QED
  BY <1>1, <1>3, <1>4, <1>5, <1>6, <1>7 DEF Next, SnapshotOf, TargetsOf, metadata

(* So every reader keeps what it has.                                      *)
LEMMA PublisherStep ==
  ASSUME ~NoChange, IInv, ReaderInv, [Next]_vars, UNCHANGED clientVars
  PROVE  ReaderInv'
<1>1. /\ UNCHANGED <<rpc, cmd, wanted, trusted, left, current, dirs, copyMd, copyOf>>
  BY DEF clientVars, reader
<1>2. ClientType' /\ AloneInv'
  BY <1>1 DEF ReaderInv, ClientType, AloneInv, Active
<1>3. ASSUME NEW r \in Reader PROVE ReadInv(r)'
  <2> DEFINE ts == trusted[r].timestamp
  <2>1. CASE rpc[r] \in {"snapshot", "targets"}
    <3>1. Held(ts) /\ ts \in LinkDoc /\ ts' = ts
      BY <1>1, <2>1 DEF ReaderInv, ReadInv, Held
    <3> HIDE DEF ts
    <3>2. /\ snapshotMd'[ts.meta.version] = SnapshotOf(ts)
          /\ targetsMd'[SnapshotOf(ts).meta.version] = TargetsOf(ts)
          /\ Planned' => /\ ed'.sv # ts.meta.version
                         /\ ed'.reuse \/ ed'.tv # SnapshotOf(ts).meta.version
      BY <3>1, HeldStays
    <3>3. SnapshotOf(ts)' = SnapshotOf(ts) /\ TargetsOf(ts)' = TargetsOf(ts)
      BY <3>1, <3>2 DEF SnapshotOf, TargetsOf
    <3>4. Held(ts)'
      BY <3>1, <3>2, <3>3 DEF Held
    <3> QED
      BY <1>1, <2>1, <3>1, <3>3, <3>4 DEF ReaderInv, ReadInv, ts
  <2>2. CASE rpc[r] \notin {"snapshot", "targets"}
    BY <1>1, <2>2 DEF ReaderInv, ReadInv
  <2> QED
    BY <2>1, <2>2
<1>4. ASSUME NEW r \in Reader PROVE CopyInv(r)'
  BY <1>1 DEF ReaderInv, CopyInv, Compact, Requested, TargetsDir
<1> QED
  BY <1>2, <1>3, <1>4 DEF ReaderInv

-----------------------------------------------------------------------------
(* The readers' steps.  One reader disturbs another only where they write. *)
LEMMA OthersStay ==
  ASSUME ReaderInv, UNCHANGED vars, NEW o \in Reader,
         rpc'[o] = rpc[o], cmd'[o] = cmd[o], wanted'[o] = wanted[o],
         trusted'[o] = trusted[o], left'[o] = left[o], current'[o] = current[o],
         cmd[o] = "clone" => copyMd' = copyMd,
         rpc[o] \in {"download", "done"} /\ wanted[o] # None =>
           copyOf'[TargetsDir(o)] = copyOf[TargetsDir(o)]
  PROVE  ReadInv(o)' /\ CopyInv(o)'
<1>1. UNCHANGED <<snapshotMd, targetsMd, ed, pc>>
  BY DEF vars, disk
<1>2. ReadInv(o)'
  <2> DEFINE ts == trusted[o].timestamp
  <2>1. ReadInv(o) /\ ts' = ts
    BY DEF ReaderInv
  <2> HIDE DEF ts
  <2>2. /\ SnapshotOf(ts)' = SnapshotOf(ts) /\ TargetsOf(ts)' = TargetsOf(ts)
        /\ Held(ts)' <=> Held(ts)
    BY <1>1, <2>1 DEF Held, Planned, SnapshotOf, TargetsOf
  <2> QED
    BY <2>1, <2>2 DEF ReadInv, ts
<1>3. CopyInv(o)'
  <2>1. CopyInv(o) /\ Requested(o)' = Requested(o) /\ TargetsDir(o)' = TargetsDir(o)
    BY DEF ReaderInv, Requested, TargetsDir
  <2>2. CASE cmd[o] = "clone"
    <3>1. copyMd' = copyMd
      BY <2>2
    <3> QED
      BY <2>1, <2>2, <3>1 DEF CopyInv, Compact
  <2>3. CASE cmd[o] # "clone"
    BY <2>1, <2>3 DEF CopyInv
  <2> QED
    BY <2>2, <2>3
<1> QED
  BY <1>2, <1>3

(* A reader that gives up, or dies, leaves the others what they have.      *)
LEMMA EndStep ==
  ASSUME ReaderInv, UNCHANGED vars, NEW r \in Reader, Active(r),
         NEW outcome \in {"idle", "missing"}, End(r, outcome)
  PROVE  ReaderInv'
<1>1. /\ rpc' = [rpc EXCEPT ![r] = outcome] /\ cmd' = [cmd EXCEPT ![r] = None]
      /\ wanted' = [wanted EXCEPT ![r] = {}] /\ trusted' = [trusted EXCEPT ![r] = Nothing]
      /\ left' = [left EXCEPT ![r] = {}] /\ current' = [current EXCEPT ![r] = None]
      /\ UNCHANGED <<dirs, copyMd, copyOf>>
  BY DEF End, Goto, Forget
<1>2. ClientType
  BY DEF ReaderInv
<1>3. ClientType'
  BY <1>1, <1>2 DEF ClientType, Nothing, Steps
<1>4. /\ rpc'[r] = outcome /\ cmd'[r] = None
      /\ \A o \in Reader : o # r => /\ rpc'[o] = rpc[o] /\ cmd'[o] = cmd[o] /\ wanted'[o] = wanted[o]
                                    /\ trusted'[o] = trusted[o] /\ left'[o] = left[o]
                                    /\ current'[o] = current[o]
  BY <1>1, <1>2 DEF ClientType
<1>5. AloneInv'
  BY <1>1, <1>4, ClientAssumption DEF ReaderInv, AloneInv, Active
<1>6. ASSUME NEW o \in Reader PROVE ReadInv(o)' /\ CopyInv(o)'
  <2>1. CASE o = r
    BY <1>4, <2>1, ClientAssumption DEF ReadInv, CopyInv
  <2>2. CASE o # r
    BY <1>1, <1>4, <2>2, OthersStay
  <2> QED
    BY <2>1, <2>2
<1> QED
  BY <1>3, <1>5, <1>6 DEF ReaderInv

(* clone and download begin where nothing is in their way.                 *)
LEMMA StartStep ==
  ASSUME ReaderInv, UNCHANGED vars, NEW r \in Reader, Start(r) PROVE ReaderInv'
<1>1. PICK it \in Commands, w \in Wanted :
        /\ ~Active(r) /\ rpc[r] # "done"
        /\ IF it = "clone"
           THEN /\ \A other \in Reader : cmd[other] # "clone"
                /\ "metadata" \notin dirs
                /\ w # None => "targets" \notin dirs
           ELSE w # None /\ "outdir" \notin dirs
        /\ cmd' = [cmd EXCEPT ![r] = it] /\ wanted' = [wanted EXCEPT ![r] = w]
        /\ rpc' = [rpc EXCEPT ![r] = "timestamp"]
        /\ UNCHANGED <<trusted, left, current, dirs, copyMd, copyOf>>
  BY DEF Start, Goto
<1>2. it \in {"clone", "download"} /\ w \in {None} \cup SUBSET Name /\ it # None
  BY ClientAssumption
<1>3. ClientType
  BY DEF ReaderInv
<1>4. ClientType'
  BY <1>1, <1>2, <1>3 DEF ClientType, Steps
<1>5. /\ rpc'[r] = "timestamp" /\ cmd'[r] = it /\ wanted'[r] = w
      /\ \A o \in Reader : o # r => /\ rpc'[o] = rpc[o] /\ cmd'[o] = cmd[o] /\ wanted'[o] = wanted[o]
  BY <1>1, <1>3 DEF ClientType
<1>6. AloneInv'
  BY <1>1, <1>2, <1>5 DEF ReaderInv, AloneInv, Active
<1>7. ASSUME NEW o \in Reader PROVE ReadInv(o)' /\ CopyInv(o)'
  <2>1. CASE o = r
    BY <1>5, <2>1 DEF ReadInv, CopyInv
  <2>2. CASE o # r
    BY <1>1, <1>5, <2>2, OthersStay
  <2> QED
    BY <2>1, <2>2
<1> QED
  BY <1>4, <1>6, <1>7 DEF ReaderInv

(* The refresh follows the publication that was current when it began.     *)
LEMMA RefreshStep ==
  ASSUME IInv, ReaderInv, UNCHANGED vars, NEW r \in Reader, Refresh(r) PROVE ReaderInv'
<1> DEFINE ts == trusted[r].timestamp
<1>0. ClientType /\ trusted[r] \in [timestamp : LinkDoc \cup {None}, snapshot : LinkDoc \cup {None},
                                    targets : TargetsDoc \cup {None}]
  BY DEF ReaderInv, ClientType
<1>1. UNCHANGED <<snapshotMd, targetsMd, timestampMd, ed, pc>>
  BY DEF vars, disk
<1>2. ASSUME NEW t \in [timestamp : LinkDoc \cup {None}, snapshot : LinkDoc \cup {None},
                        targets : TargetsDoc \cup {None}],
             NEW step \in {"snapshot", "targets", "cache", "resolve"},
             NEW c \in Targets \cup {None},
             Active(r), rpc[r] \in {"timestamp", "snapshot", "targets"},
             trusted' = [trusted EXCEPT ![r] = t], rpc' = [rpc EXCEPT ![r] = step],
             current' = [current EXCEPT ![r] = c],
             UNCHANGED <<cmd, wanted, left, dirs, copyMd, copyOf>>,
             step = "cache" => cmd[r] = "clone",
             step = "resolve" => cmd[r] # "clone",
             ReadInv(r)'
      PROVE  ReaderInv'
  <2>1. ClientType'
    BY <1>0, <1>2 DEF ClientType, Steps
  <2>2. /\ rpc'[r] = step
        /\ \A o \in Reader : o # r => /\ rpc'[o] = rpc[o] /\ trusted'[o] = trusted[o]
                                      /\ current'[o] = current[o]
    BY <1>0, <1>2 DEF ClientType
  <2>3. AloneInv'
    <3>1. cmd[r] \in {None, "clone", "download"}
      BY <1>0 DEF ClientType
    <3> QED
      BY <1>2, <2>2, <3>1 DEF ReaderInv, AloneInv, Active
  <2>4. ASSUME NEW o \in Reader PROVE ReadInv(o)' /\ CopyInv(o)'
    <3>1. CASE o = r
      BY <1>2, <2>2, <3>1 DEF CopyInv
    <3>2. CASE o # r
      BY <1>2, <2>2, <3>2, OthersStay
    <3> QED
      BY <3>1, <3>2
  <2> QED
    BY <2>1, <2>3, <2>4 DEF ReaderInv
<1>3. CASE ReadTimestamp(r)
  <2> DEFINE c == IF SnapshotOf(timestampMd) = None \/ TargetsOf(timestampMd) = None THEN None
                  ELSE TargetsOf(timestampMd).targets
             t == [trusted[r] EXCEPT !.timestamp = timestampMd]
  <2>1. Published /\ rpc[r] = "timestamp"
    BY <1>3 DEF ReadTimestamp
  <2>2. Held(timestampMd)
    BY <2>1 DEF IInv, ChainInv, ChainIntact, Ahead, Held, DiskInv, DiskType, Published
  <2>3. TargetsOf(timestampMd) \in TargetsDoc
    <3>1. timestampMd.meta.version \in Version
      BY <2>2 DEF Held, LinkDoc, Ref
    <3>2. SnapshotOf(timestampMd) \in LinkDoc
      BY <2>2, <3>1 DEF Held, SnapshotOf, IInv, RunInv, DiskInv, DiskType
    <3>3. SnapshotOf(timestampMd).meta.version \in Version
      BY <3>2 DEF LinkDoc, Ref
    <3> QED
      BY <2>2, <3>3 DEF Held, TargetsOf, IInv, RunInv, DiskInv, DiskType
  <2>4. c \in Targets /\ c = TargetsOf(timestampMd).targets
    BY <2>2, <2>3 DEF Held, TargetsDoc
  <2>5. /\ t \in [timestamp : LinkDoc \cup {None}, snapshot : LinkDoc \cup {None},
                  targets : TargetsDoc \cup {None}]
        /\ t.timestamp = timestampMd
    BY <1>0, <2>2 DEF Held
  <2>6. /\ trusted' = [trusted EXCEPT ![r] = t] /\ rpc' = [rpc EXCEPT ![r] = "snapshot"]
        /\ current' = [current EXCEPT ![r] = c]
        /\ UNCHANGED <<cmd, wanted, left, dirs, copyMd, copyOf>>
    BY <1>3 DEF ReadTimestamp, Trust, Goto
  <2> HIDE DEF c, t
  <2>7. trusted'[r] = t /\ rpc'[r] = "snapshot" /\ current'[r] = c
    BY <1>0, <2>6 DEF ClientType
  <2>8. Held(timestampMd)' /\ TargetsOf(timestampMd)' = TargetsOf(timestampMd)
    BY <1>1, <2>2 DEF Held, SnapshotOf, TargetsOf, Planned
  <2>9. ReadInv(r)'
    <3>1. trusted'[r].timestamp = timestampMd'
      BY <1>1, <2>5, <2>7
    <3> QED
      BY <2>4, <2>7, <2>8, <3>1 DEF ReadInv
  <2> QED
    BY <1>2, <2>1, <2>4, <2>5, <2>6, <2>9 DEF Active
<1>4. CASE ReadSnapshot(r)
  <2> DEFINE t == [trusted[r] EXCEPT !.snapshot = SnapshotOf(ts)]
  <2>1. rpc[r] = "snapshot" /\ Held(ts) /\ TargetsOf(ts).targets = current[r]
    BY <1>4 DEF ReadSnapshot, ReaderInv, ReadInv
  <2>2. Verified(SnapshotOf(ts), ts.meta)
    BY <2>1 DEF Held, Verified
  <2>3. /\ trusted' = [trusted EXCEPT ![r] = t] /\ rpc' = [rpc EXCEPT ![r] = "targets"]
        /\ UNCHANGED <<cmd, wanted, left, current, dirs, copyMd, copyOf>>
    BY <1>4, <2>2 DEF ReadSnapshot, Trust, Goto, SnapshotOf
  <2>4. SnapshotOf(ts) \in LinkDoc
    <3>1. ts.meta.version \in Version
      BY <2>1 DEF Held, LinkDoc, Ref
    <3> QED
      BY <2>1, <3>1 DEF Held, SnapshotOf, IInv, RunInv, DiskInv, DiskType
  <2>5. /\ t \in [timestamp : LinkDoc \cup {None}, snapshot : LinkDoc \cup {None},
                  targets : TargetsDoc \cup {None}]
        /\ t.timestamp = ts /\ t.snapshot = SnapshotOf(ts)
    BY <1>0, <2>4
  <2> HIDE DEF t
  <2>6. trusted'[r] = t /\ rpc'[r] = "targets" /\ current'[r] = current[r]
    BY <1>0, <2>3 DEF ClientType
  <2>7. ts' = ts
    BY <2>5, <2>6
  <2>8. Held(ts)' /\ TargetsOf(ts)' = TargetsOf(ts) /\ SnapshotOf(ts)' = SnapshotOf(ts)
    BY <1>1, <2>1, <2>7 DEF Held, SnapshotOf, TargetsOf, Planned
  <2>9. ReadInv(r)'
    BY <2>1, <2>5, <2>6, <2>8 DEF ReadInv
  <2>10. current[r] \in Targets \cup {None} /\ current' = [current EXCEPT ![r] = current[r]]
    BY <1>0, <2>3 DEF ClientType
  <2> QED
    BY <1>2, <2>1, <2>3, <2>5, <2>9, <2>10 DEF Active
<1>5. CASE ReadTargets(r)
  <2> DEFINE t == [trusted[r] EXCEPT !.targets = TargetsOf(ts)]
             step == IF cmd[r] = "clone" THEN "cache" ELSE "resolve"
  <2>1. /\ rpc[r] = "targets" /\ Held(ts) /\ TargetsOf(ts).targets = current[r]
        /\ trusted[r].snapshot = SnapshotOf(ts)
    BY <1>5 DEF ReadTargets, ReaderInv, ReadInv
  <2>2. Verified(TargetsOf(ts), trusted[r].snapshot.meta)
    BY <2>1 DEF Held, Verified
  <2>3. /\ trusted' = [trusted EXCEPT ![r] = t] /\ rpc' = [rpc EXCEPT ![r] = step]
        /\ UNCHANGED <<cmd, wanted, left, current, dirs, copyMd, copyOf>>
    BY <1>5, <2>1, <2>2 DEF ReadTargets, Trust, Goto, TargetsOf
  <2>4. /\ TargetsOf(ts) \in TargetsDoc /\ TargetsOf(ts).version = SnapshotOf(ts).meta.version
        /\ SnapshotOf(ts).version = ts.meta.version
    <3>1. ts.meta.version \in Version
      BY <2>1 DEF Held, LinkDoc, Ref
    <3>2. SnapshotOf(ts) \in LinkDoc /\ SnapshotOf(ts).version = ts.meta.version
      BY <2>1, <3>1 DEF Held, SnapshotOf, IInv, RunInv, DiskInv, DiskType, Indexed
    <3>3. SnapshotOf(ts).meta.version \in Version
      BY <3>2 DEF LinkDoc, Ref
    <3> QED
      BY <2>1, <3>2, <3>3 DEF Held, TargetsOf, IInv, RunInv, DiskInv, DiskType, Indexed
  <2>5. /\ t \in [timestamp : LinkDoc \cup {None}, snapshot : LinkDoc \cup {None},
                  targets : TargetsDoc \cup {None}]
        /\ t.timestamp = ts /\ t.snapshot = SnapshotOf(ts) /\ t.targets = TargetsOf(ts)
    BY <1>0, <2>1, <2>4
  <2> HIDE DEF t, step
  <2>6. trusted'[r] = t /\ rpc'[r] = step /\ current'[r] = current[r]
    BY <1>0, <2>3 DEF ClientType
  <2>7. step \in {"cache", "resolve"} /\ (step = "cache" <=> cmd[r] = "clone")
    BY DEF step
  <2>8. ReadInv(r)'
    <3>1. ts # None /\ SnapshotOf(ts) # None /\ TargetsOf(ts) # None
      BY <2>1, NoneAssumption DEF Held
    <3> QED
      BY <2>1, <2>4, <2>5, <2>6, <2>7, <3>1 DEF ReadInv
  <2>9. current[r] \in Targets \cup {None} /\ current' = [current EXCEPT ![r] = current[r]]
    BY <1>0, <2>3 DEF ClientType
  <2> QED
    BY <1>2, <2>1, <2>3, <2>5, <2>7, <2>8, <2>9 DEF Active
<1> QED
  BY <1>3, <1>4, <1>5 DEF Refresh

(* A step of a reader that leaves its chain alone.                         *)
LEMMA MoveStep ==
  ASSUME ReaderInv, UNCHANGED vars, NEW r \in Reader, NEW step \in Steps,
         rpc' = [rpc EXCEPT ![r] = step], rpc'[r] = step,
         UNCHANGED <<cmd, wanted, trusted, current>>,
         \A o \in Reader : o # r => rpc'[o] = rpc[o] /\ left'[o] = left[o],
         ClientType', AloneInv', CopyInv(r)',
         rpc[r] \in {"cache", "cache2", "cache3", "resolve", "mkdir", "download"},
         step \in {"cache2", "cache3", "resolve", "mkdir", "download", "done"},
         cmd[r] = "clone" \/ copyMd' = copyMd,
         rpc[r] \notin {"download", "done"} => copyOf' = copyOf,
         copyOf' = copyOf \/ \A d \in {"targets", "outdir"} \ {TargetsDir(r)} : copyOf'[d] = copyOf[d]
  PROVE  ReaderInv'
<1>1. ReadInv(r)'
  <2>1. ReadInv(r) /\ trusted'[r] = trusted[r] /\ current'[r] = current[r]
    BY DEF ReaderInv
  <2> QED
    BY <2>1 DEF ReadInv
<1>2. ASSUME NEW o \in Reader, o # r PROVE ReadInv(o)' /\ CopyInv(o)'
  <2>1. cmd[o] = "clone" => copyMd' = copyMd
    BY <1>2 DEF ReaderInv, AloneInv
  <2>2. rpc[o] \in {"download", "done"} /\ wanted[o] # None =>
          copyOf'[TargetsDir(o)] = copyOf[TargetsDir(o)]
    <3>1. SUFFICES ASSUME rpc[o] \in {"download", "done"}, wanted[o] # None, copyOf' # copyOf
                   PROVE  copyOf'[TargetsDir(o)] = copyOf[TargetsDir(o)]
      OBVIOUS
    <3>2. rpc[r] \in {"download", "done"}
      BY <3>1
    <3>3. cmd[r] \in {"clone", "download"} /\ cmd[o] \in {"clone", "download"}
      BY <3>1, <3>2 DEF ReaderInv, AloneInv, ClientType, Active
    <3>4. TargetsDir(o) # TargetsDir(r)
      BY <1>2, <3>1, <3>2, <3>3 DEF ReaderInv, AloneInv, TargetsDir
    <3> QED
      BY <3>1, <3>4 DEF TargetsDir
  <2> QED
    BY <1>2, <2>1, <2>2, OthersStay
<1> QED
  BY <1>1, <1>2 DEF ReaderInv

(* clone: the metadata directory gets the chain, file by file.             *)
LEMMA CacheStep ==
  ASSUME ReaderInv, UNCHANGED vars, NEW r \in Reader, CacheMetadata(r) PROVE ReaderInv'
<1> DEFINE t == trusted[r]
<1>0. /\ ClientType /\ AloneInv /\ ReadInv(r) /\ CopyInv(r)
      /\ t \in [timestamp : LinkDoc \cup {None}, snapshot : LinkDoc \cup {None},
                targets : TargetsDoc \cup {None}]
      /\ rpc[r] \in {"cache", "cache2", "cache3"} /\ cmd[r] = "clone"
      /\ wanted[r] \in {None} \cup SUBSET Name
  BY DEF ReaderInv, ClientType, AloneInv, CacheMetadata, CacheTimestamp, CacheSnapshot, CacheTargets
<1>1. /\ t.timestamp \in LinkDoc /\ t.snapshot \in LinkDoc /\ t.targets \in TargetsDoc
  BY <1>0 DEF ReadInv
<1>2. /\ t.snapshot.version \in Version /\ t.targets.version \in Version
      /\ Compact(t.timestamp) \in CompactLinkDoc /\ Compact(t.snapshot) \in CompactLinkDoc
      /\ Compact(t.targets) \in CompactTargetsDoc
  <2>1. \A md \in LinkDoc : md.version \in Version /\ Compact(md) \in CompactLinkDoc
    BY DEF LinkDoc, CompactLinkDoc, Compact
  <2>2. \A md \in TargetsDoc : md.version \in Version /\ Compact(md) \in CompactTargetsDoc
    BY DEF TargetsDoc, CompactTargetsDoc, Compact
  <2> QED
    BY <1>1, <2>1, <2>2
<1>3. copyMd \in [timestamp : CompactLinkDoc \cup {None},
                  snapshot : [Version -> CompactLinkDoc \cup {None}],
                  targets : [Version -> CompactTargetsDoc \cup {None}]]
  BY <1>0 DEF ClientType
<1>4. PICK step \in {"cache2", "cache3", "done", "resolve"} :
        /\ rpc' = [rpc EXCEPT ![r] = step]
        /\ UNCHANGED <<cmd, wanted, trusted, left, current, copyOf>>
        /\ step = "resolve" => wanted[r] # None
        /\ step = "done" => wanted[r] = None
        /\ dirs' = dirs \cup {"metadata"} \/ dirs' = dirs
  BY DEF CacheMetadata, CacheTimestamp, CacheSnapshot, CacheTargets, Goto
<1>5. rpc'[r] = step /\ \A o \in Reader : o # r => rpc'[o] = rpc[o]
  BY <1>0, <1>4 DEF ClientType
<1>6. AloneInv'
  BY <1>0, <1>4, <1>5 DEF AloneInv, Active
<1>7. CASE CacheTimestamp(r)
  <2>1. /\ rpc[r] = "cache" /\ step = "cache2"
        /\ copyMd' = [copyMd EXCEPT !.timestamp = Compact(t.timestamp)]
    BY <1>5, <1>0, <1>7 DEF CacheTimestamp, Goto, ClientType
  <2>2. copyMd'.timestamp = Compact(t.timestamp)
    BY <1>3, <2>1
  <2>3. ClientType'
    BY <1>0, <1>2, <1>3, <1>4, <2>1 DEF ClientType, Steps
  <2>4. CopyInv(r)'
    BY <1>4, <1>5, <2>1, <2>2 DEF CopyInv, Compact
  <2> QED
    BY <1>0, <1>4, <1>5, <1>6, <2>1, <2>3, <2>4, MoveStep DEF Steps
<1>8. CASE CacheSnapshot(r)
  <2>1. /\ rpc[r] = "cache2" /\ step = "cache3"
        /\ copyMd' = [copyMd EXCEPT !.snapshot =
                        [copyMd.snapshot EXCEPT ![t.snapshot.version] = Compact(t.snapshot)]]
    BY <1>3, <1>5, <1>0, <1>8 DEF CacheSnapshot, Goto, ClientType
  <2>2. /\ copyMd'.timestamp = copyMd.timestamp
        /\ copyMd'.snapshot[t.snapshot.version] = Compact(t.snapshot)
    BY <1>2, <1>3, <2>1
  <2>3. ClientType'
    BY <1>0, <1>2, <1>3, <1>4, <2>1 DEF ClientType, Steps
  <2>4. CopyInv(r)'
    BY <1>0, <1>4, <1>5, <2>1, <2>2 DEF CopyInv, Compact
  <2> QED
    BY <1>0, <1>4, <1>5, <1>6, <2>1, <2>3, <2>4, MoveStep DEF Steps
<1>9. CASE CacheTargets(r)
  <2>1. /\ rpc[r] = "cache3" /\ step \in {"done", "resolve"}
        /\ copyMd' = [copyMd EXCEPT !.targets =
                        [copyMd.targets EXCEPT ![t.targets.version] = Compact(t.targets)]]
    BY <1>3, <1>5, <1>0, <1>9 DEF CacheTargets, Goto, ClientType
  <2>2. /\ copyMd'.timestamp = copyMd.timestamp /\ copyMd'.snapshot = copyMd.snapshot
        /\ copyMd'.targets[t.targets.version] = Compact(t.targets)
    BY <1>2, <1>3, <2>1
  <2>3. ClientType'
    BY <1>0, <1>2, <1>3, <1>4, <2>1 DEF ClientType, Steps
  <2>4. CopyInv(r)'
    BY <1>0, <1>4, <1>5, <2>1, <2>2 DEF CopyInv, Compact
  <2> QED
    BY <1>0, <1>4, <1>5, <1>6, <2>1, <2>3, <2>4, MoveStep DEF Steps
<1> QED
  BY <1>7, <1>8, <1>9 DEF CacheMetadata

(* clone and download: the targets that were asked for, one after another, *)
(* into a directory that no other reader writes.                           *)
LEMMA CopyTargetsStep ==
  ASSUME ReaderInv, UNCHANGED vars, NEW r \in Reader, CopyTargets(r) PROVE ReaderInv'
<1> DEFINE t == trusted[r]
           d == TargetsDir(r)
<1>0. /\ ClientType /\ AloneInv /\ ReadInv(r) /\ CopyInv(r)
      /\ t \in [timestamp : LinkDoc \cup {None}, snapshot : LinkDoc \cup {None},
                targets : TargetsDoc \cup {None}]
      /\ rpc[r] \in {"resolve", "mkdir", "download"} /\ wanted[r] # None
      /\ wanted[r] \in SUBSET Name /\ left[r] \in SUBSET Name
  BY DEF ReaderInv, ClientType, AloneInv, CopyTargets, Resolve, MakeDirectory, Finish, Download
<1>1. /\ t.targets \in TargetsDoc /\ t.targets.targets = current[r]
      /\ current[r] \in Targets
  BY <1>0 DEF ReadInv, TargetsDoc
<1>2. Active(r) /\ cmd[r] \in {"clone", "download"} /\ d \in {"targets", "outdir"}
  BY <1>0 DEF Active, ClientType, AloneInv, TargetsDir
<1>3. ASSUME NEW step \in {"mkdir", "download", "done"},
             rpc' = [rpc EXCEPT ![r] = step],
             UNCHANGED <<cmd, wanted, trusted, current>>,
             NEW l \in SUBSET Name, left' = [left EXCEPT ![r] = l]
      PROVE  /\ rpc'[r] = step /\ left'[r] = l
             /\ \A o \in Reader : o # r => rpc'[o] = rpc[o] /\ left'[o] = left[o]
             /\ rpc' \in [Reader -> Steps] /\ left' \in [Reader -> SUBSET Name]
             /\ Requested(r)' = Requested(r) /\ TargetsDir(r)' = TargetsDir(r)
  BY <1>0, <1>3 DEF ClientType, Steps, Requested, TargetsDir
<1>4. ASSUME End(r, "idle") \/ End(r, "missing") PROVE ReaderInv'
  BY <1>2, <1>4, EndStep
<1>5. CASE Resolve(r) /\ ~End(r, "idle")
  <2> DEFINE l == IF wanted[r] = {} THEN Offered(r) ELSE wanted[r]
  <2>1. /\ left' = [left EXCEPT ![r] = l] /\ rpc' = [rpc EXCEPT ![r] = "mkdir"]
        /\ UNCHANGED <<cmd, wanted, trusted, current, dirs, copyMd, copyOf>>
        /\ rpc[r] = "resolve"
    BY <1>5 DEF Resolve, Goto
  <2>2. l \in SUBSET Name
    BY <1>0 DEF Offered
  <2>3. l \subseteq Requested(r) /\ \A n \in Requested(r) \ l : current[r][n] = None
    BY <1>0, <1>1 DEF Requested, Offered
  <2> HIDE DEF l
  <2>4. /\ rpc'[r] = "mkdir" /\ left'[r] = l
        /\ \A o \in Reader : o # r => rpc'[o] = rpc[o] /\ left'[o] = left[o]
        /\ rpc' \in [Reader -> Steps] /\ left' \in [Reader -> SUBSET Name]
        /\ Requested(r)' = Requested(r)
    BY <1>3, <2>1, <2>2
  <2>5. ClientType'
    BY <1>0, <2>1, <2>4 DEF ClientType
  <2>6. AloneInv'
    BY <1>0, <2>1, <2>4 DEF AloneInv, Active
  <2>7. CopyInv(r)'
    BY <1>0, <2>1, <2>3, <2>4 DEF CopyInv, Compact
  <2> QED
    BY <1>0, <2>1, <2>4, <2>5, <2>6, <2>7, MoveStep DEF Steps
<1>6. CASE MakeDirectory(r) /\ ~End(r, "idle")
  <2>1. /\ ~(cmd[r] = "download" /\ d \in dirs)
        /\ dirs' = dirs \cup {d} /\ rpc' = [rpc EXCEPT ![r] = "download"]
        /\ UNCHANGED <<cmd, wanted, trusted, left, current, copyMd, copyOf>>
        /\ rpc[r] = "mkdir"
    BY <1>6 DEF MakeDirectory, Goto
  <2>2. d \notin dirs /\ copyOf[d] = NoTargets
    <3>1. d \notin dirs
      BY <1>0, <1>2, <2>1 DEF AloneInv, TargetsDir
    <3> QED
      BY <1>0, <1>2, <3>1 DEF AloneInv
  <2>3. left' = [left EXCEPT ![r] = left[r]]
    BY <1>0, <2>1 DEF ClientType
  <2>4. /\ rpc'[r] = "download"
        /\ \A o \in Reader : o # r => rpc'[o] = rpc[o] /\ left'[o] = left[o]
        /\ rpc' \in [Reader -> Steps]
        /\ Requested(r)' = Requested(r) /\ TargetsDir(r)' = d
    BY <1>0, <1>3, <2>1, <2>3
  <2>5. ClientType'
    BY <1>0, <1>2, <2>1, <2>4 DEF ClientType
  <2>6. AloneInv'
    <3> HIDE DEF d
    <3>1. \A o \in Reader : o # r /\ cmd[o] = cmd[r] /\ cmd[r] = "download" =>
            rpc[o] \notin {"download", "done"}
      BY <1>0, <1>2, <2>2 DEF AloneInv, TargetsDir, d
    <3>2. \A o \in Reader : cmd[o] = "clone" /\ wanted[o] # None
             /\ rpc[o] \notin {"download", "done"} /\ o # r => "targets" \notin dirs'
      <4>1. SUFFICES ASSUME NEW o \in Reader, cmd[o] = "clone", wanted[o] # None,
                            rpc[o] \notin {"download", "done"}, o # r
                     PROVE  "targets" \notin dirs'
        OBVIOUS
      <4>2. cmd[r] = "download"
        BY <1>0, <1>2, <4>1 DEF AloneInv
      <4> QED
        BY <1>0, <2>1, <4>1, <4>2 DEF AloneInv, TargetsDir, d
    <3>3. d = IF cmd[r] = "clone" THEN "targets" ELSE "outdir"
      BY DEF TargetsDir, d
    <3>4. \A o \in Reader :
            /\ cmd[o] = "clone" /\ wanted[o] # None /\ rpc'[o] \notin {"download", "done"} =>
                 "targets" \notin dirs'
            /\ cmd[o] = "download" /\ rpc'[o] \in {"download", "done"} => "outdir" \in dirs'
            /\ cmd[o] = "clone" /\ wanted[o] # None /\ rpc'[o] \in {"download", "done"} =>
                 "targets" \in dirs'
      BY <1>0, <1>2, <2>1, <2>4, <3>2, <3>3 DEF AloneInv
    <3>5. \A o, u \in Reader : cmd[u] = "download" /\ cmd[o] = "download"
             /\ rpc'[u] \in {"download", "done"} /\ rpc'[o] \in {"download", "done"} => u = o
      BY <1>0, <2>4, <3>1 DEF AloneInv
    <3> QED
      BY <1>0, <1>2, <2>1, <2>2, <2>4, <3>4, <3>5 DEF AloneInv, Active
  <2>7. CopyInv(r)'
    <3>1. \A n \in Name : copyOf'[d][n] = IF n \in Requested(r) \ left[r] THEN current[r][n] ELSE None
      BY <1>0, <2>1, <2>2 DEF CopyInv, NoTargets, Requested
    <3> QED
      BY <1>0, <2>1, <2>4, <3>1 DEF CopyInv, Compact
  <2> QED
    BY <1>0, <2>1, <2>4, <2>5, <2>6, <2>7, MoveStep DEF Steps
<1>7. ASSUME NEW n \in Name, Download(r, n), ~End(r, "missing") PROVE ReaderInv'
  <2> DEFINE c == current[r][n]
  <2>1. /\ rpc[r] = "download" /\ n \in left[r] /\ Delivered(n, c)
        /\ copyOf' = [copyOf EXCEPT ![d] = [copyOf[d] EXCEPT ![n] = c]]
        /\ left' = [left EXCEPT ![r] = left[r] \ {n}]
        /\ UNCHANGED <<rpc, cmd, wanted, trusted, current, dirs, copyMd>>
    BY <1>0, <1>1, <1>2, <1>7 DEF Download, ClientType
  <2>2. c \in Digest \cup {None} /\ copyOf[d] \in Targets
    BY <1>0, <1>1, <1>2 DEF Targets, ClientType
  <2>3. rpc' = [rpc EXCEPT ![r] = "download"] /\ left[r] \ {n} \in SUBSET Name
    BY <1>0, <2>1 DEF ClientType
  <2>4. /\ rpc'[r] = "download" /\ left'[r] = left[r] \ {n}
        /\ \A o \in Reader : o # r => rpc'[o] = rpc[o] /\ left'[o] = left[o]
        /\ left' \in [Reader -> SUBSET Name]
        /\ Requested(r)' = Requested(r) /\ TargetsDir(r)' = d
    BY <1>3, <2>1, <2>3
  <2>5. /\ copyOf'[d] = [copyOf[d] EXCEPT ![n] = c] /\ copyOf'[d] \in Targets
        /\ \A e \in {"targets", "outdir"} \ {d} : copyOf'[e] = copyOf[e]
        /\ copyOf' \in [{"targets", "outdir"} -> Targets]
    <3> HIDE DEF d, c
    <3>1. [copyOf[d] EXCEPT ![n] = c] \in Targets
      BY <2>2 DEF Targets
    <3> QED
      BY <1>0, <1>2, <2>1, <3>1 DEF ClientType
  <2>6. ClientType'
    BY <1>0, <2>1, <2>4, <2>5 DEF ClientType
  <2>7. AloneInv'
    <3>1. d \in dirs
      BY <1>0, <1>2, <2>1 DEF AloneInv, TargetsDir, CopyInv
    <3> QED
      BY <1>0, <2>1, <2>5, <3>1 DEF AloneInv, Active
  <2>8. CopyInv(r)'
    <3>1. \A m \in Name : copyOf'[d][m] =
            IF m \in Requested(r) \ (left[r] \ {n}) THEN current[r][m] ELSE None
      BY <1>0, <2>1, <2>2, <2>5 DEF CopyInv, Targets
    <3> QED
      BY <1>0, <2>1, <2>4, <3>1 DEF CopyInv, Compact
  <2> QED
    BY <1>0, <2>1, <2>3, <2>4, <2>5, <2>6, <2>7, <2>8, MoveStep DEF Steps
<1>8. CASE Finish(r)
  <2>1. /\ rpc[r] = "download" /\ left[r] = {} /\ rpc' = [rpc EXCEPT ![r] = "done"]
        /\ UNCHANGED <<cmd, wanted, trusted, left, current, dirs, copyMd, copyOf>>
    BY <1>8 DEF Finish, Goto
  <2>2. left' = [left EXCEPT ![r] = left[r]]
    BY <1>0, <2>1 DEF ClientType
  <2>3. /\ rpc'[r] = "done"
        /\ \A o \in Reader : o # r => rpc'[o] = rpc[o] /\ left'[o] = left[o]
        /\ rpc' \in [Reader -> Steps]
        /\ Requested(r)' = Requested(r) /\ TargetsDir(r)' = d
    BY <1>0, <1>3, <2>1, <2>2
  <2>4. ClientType'
    BY <1>0, <2>1, <2>3 DEF ClientType
  <2>5. AloneInv'
    BY <1>0, <2>1, <2>3 DEF AloneInv, Active
  <2>6. CopyInv(r)'
    BY <1>0, <2>1, <2>3 DEF CopyInv, Compact
  <2> QED
    BY <1>0, <2>1, <2>3, <2>4, <2>5, <2>6, MoveStep DEF Steps
<1> QED
  BY <1>4, <1>5, <1>6, <1>7, <1>8 DEF CopyTargets, Resolve, MakeDirectory, Download

-----------------------------------------------------------------------------
(* The output is moved away: nobody has anything any more. *)
LEMMA TakeAwayStep == ASSUME ReaderInv, TakeAway PROVE ReaderInv'
<1>1. /\ rpc' = [r \in Reader |-> "idle"] /\ cmd' = [r \in Reader |-> None]
      /\ wanted' = [r \in Reader |-> {}] /\ trusted' = [r \in Reader |-> Nothing]
      /\ left' = [r \in Reader |-> {}] /\ current' = [r \in Reader |-> None]
      /\ dirs' = {} /\ copyMd' = NoFiles
      /\ copyOf' = [d \in {"targets", "outdir"} |-> NoTargets]
  BY DEF TakeAway
<1>2. ClientType'
  BY <1>1 DEF ClientType, Steps, Nothing, NoFiles, NoTargets, Targets
<1>3. AloneInv'
  BY <1>1, ClientAssumption DEF AloneInv, Active
<1>4. \A r \in Reader : ReadInv(r)' /\ CopyInv(r)'
  BY <1>1, ClientAssumption DEF ReadInv, CopyInv
<1> QED
  BY <1>2, <1>3, <1>4 DEF ReaderInv

(* A step of a reader: it verifies what its trusted timestamp leads to,    *)
(* and caches and copies that.                                             *)
LEMMA ReaderStep ==
  ASSUME IInv, ReaderInv, ClientStep, UNCHANGED vars PROVE ReaderInv'
<1>1. ASSUME NEW r \in Reader, Stop(r) PROVE ReaderInv'
  BY <1>1, EndStep DEF Stop
<1> QED
  BY <1>1, TakeAwayStep, StartStep, RefreshStep, CacheStep, CopyTargetsStep DEF ClientStep

(* Readers that have not begun. *)
LEMMA InitReaders == ClientInit => ReaderInv
<1> SUFFICES ASSUME ClientInit PROVE ReaderInv
  OBVIOUS
<1>1. ClientType
  BY DEF ClientInit, ClientType, Steps, Nothing, NoFiles, NoTargets, Targets
<1>2. AloneInv
  BY ClientAssumption DEF ClientInit, AloneInv, Active
<1>3. \A r \in Reader : ReadInv(r) /\ CopyInv(r)
  BY ClientAssumption DEF ClientInit, ReadInv, CopyInv
<1> QED
  BY <1>1, <1>2, <1>3 DEF ReaderInv

(* The publisher and its readers, however their steps interleave.          *)
SharedInv == IInv /\ ReaderInv

(* A step of rhtas or of a reader beside the other. *)
LEMMA SharedStep ==
  ASSUME ~NoChange, SharedInv, [RhtasClientNext]_<<vars, clientVars>> PROVE SharedInv'
<1>1. CASE Next /\ UNCHANGED clientVars
  BY <1>1, ChainStep, PublisherStep DEF SharedInv
<1>2. CASE (ClientStep /\ UNCHANGED vars) \/ UNCHANGED <<vars, clientVars>>
  <2>1. IInv'
    BY <1>2, ChainStep DEF SharedInv
  <2>2. ReaderInv'
    BY <1>2, ReaderStep, PublisherStep DEF SharedInv
  <2> QED
    BY <2>1, <2>2 DEF SharedInv
<1> QED
  BY <1>1, <1>2 DEF RhtasClientNext

(* Both begin in the shared invariant. *)
LEMMA InitShared == RhtasClientInit => SharedInv
  BY InitInv, InitReaders DEF RhtasClientInit, SharedInv

(* A reader of a repository that rhtas writes is never refused: what its   *)
(* timestamp leads to stays there, with the recorded hashes, whichever     *)
(* runs begin, fail or die before it has read it.                          *)
THEOREM RhtasNeverRefusesReaders == ~NoChange => (RhtasClientSpec => []NeverRefused)
<1> SUFFICES ASSUME ~NoChange PROVE RhtasClientSpec => []NeverRefused
  OBVIOUS
<1>1. SharedInv /\ [RhtasClientNext]_<<vars, clientVars>> => SharedInv'
  BY SharedStep
<1>2. SharedInv => NeverRefused
  BY DEF SharedInv, ReaderInv, AloneInv, NeverRefused
<1> QED
  BY <1>1, <1>2, InitShared, PTL DEF RhtasClientSpec

(* A clone or download that succeeds has copied the publication that was   *)
(* current when it began to read, and nothing of another one.              *)
THEOREM ReadersCopyOnePublication == ~NoChange => (RhtasClientSpec => []CopiesOnePublication)
<1> SUFFICES ASSUME ~NoChange PROVE RhtasClientSpec => []CopiesOnePublication
  OBVIOUS
<1>1. SharedInv /\ [RhtasClientNext]_<<vars, clientVars>> => SharedInv'
  BY SharedStep
<1>2. SharedInv => CopiesOnePublication
  <2> SUFFICES ASSUME SharedInv, NEW r \in Reader, rpc[r] = "done"
               PROVE  /\ trusted[r].targets.targets = current[r]
                      /\ wanted[r] # None => \A n \in Name : copyOf[TargetsDir(r)][n] =
                           IF wanted[r] = {} \/ n \in wanted[r] THEN current[r][n] ELSE None
    BY DEF CopiesOnePublication
  <2> QED
    BY DEF SharedInv, ReaderInv, ReadInv, CopyInv, Requested
<1> QED
  BY <1>1, <1>2, InitShared, PTL DEF RhtasClientSpec

(* The metadata that a clone leaves is complete: its timestamp leads, by   *)
(* the versions recorded, to the snapshot and the targets it read.         *)
THEOREM ClonesAreComplete == ~NoChange => (RhtasClientSpec => []CloneIsComplete)
<1> SUFFICES ASSUME ~NoChange PROVE RhtasClientSpec => []CloneIsComplete
  OBVIOUS
<1>1. SharedInv /\ [RhtasClientNext]_<<vars, clientVars>> => SharedInv'
  BY SharedStep
<1>2. SharedInv => CloneIsComplete
  <2> SUFFICES ASSUME SharedInv, NEW r \in Reader, cmd[r] = "clone", rpc[r] = "done"
               PROVE  LET s == copyMd.snapshot[copyMd.timestamp.meta.version]
                          t == copyMd.targets[s.meta.version]
                      IN copyMd.timestamp # None /\ s # None /\ t # None /\ t.targets = current[r]
    BY DEF CloneIsComplete
  <2> DEFINE t == trusted[r]
  <2>1. /\ t \in [timestamp : LinkDoc \cup {None}, snapshot : LinkDoc \cup {None},
                  targets : TargetsDoc \cup {None}]
        /\ t.timestamp \in LinkDoc /\ t.snapshot \in LinkDoc /\ t.targets \in TargetsDoc
        /\ t.snapshot.version = t.timestamp.meta.version
        /\ t.targets.version = t.snapshot.meta.version
        /\ t.targets.targets = current[r]
    BY DEF SharedInv, ReaderInv, ClientType, ReadInv
  <2>2. /\ copyMd.timestamp = Compact(t.timestamp)
        /\ copyMd.snapshot[t.snapshot.version] = Compact(t.snapshot)
        /\ copyMd.targets[t.targets.version] = Compact(t.targets)
    BY DEF SharedInv, ReaderInv, CopyInv
  <2>3. /\ \A md \in LinkDoc : Compact(md) \in CompactLinkDoc /\ Compact(md).meta = md.meta
        /\ \A md \in TargetsDoc :
             Compact(md) \in CompactTargetsDoc /\ Compact(md).targets = md.targets
    BY DEF LinkDoc, TargetsDoc, CompactLinkDoc, CompactTargetsDoc, Compact
  <2> HIDE DEF t
  <2>4. copyMd.timestamp.meta = t.timestamp.meta /\ copyMd.timestamp # None
    BY <2>1, <2>2, <2>3, CopyAssumption
  <2> DEFINE s == copyMd.snapshot[copyMd.timestamp.meta.version]
  <2>5. s = Compact(t.snapshot)
    BY <2>1, <2>2, <2>4
  <2> HIDE DEF s
  <2>6. s # None /\ s.meta = t.snapshot.meta
    BY <2>1, <2>3, <2>5, CopyAssumption
  <2> DEFINE u == copyMd.targets[s.meta.version]
  <2>7. u = Compact(t.targets)
    BY <2>1, <2>2, <2>6
  <2> HIDE DEF u
  <2>8. u # None /\ u.targets = current[r]
    BY <2>1, <2>3, <2>7, CopyAssumption
  <2> QED
    BY <2>4, <2>6, <2>8 DEF s, u
<1> QED
  BY <1>1, <1>2, InitShared, PTL DEF RhtasClientSpec

-----------------------------------------------------------------------------
(* Of a certificate that is in memory, or that some metadata on disk       *)
(* lists, the file is there, perhaps torn, unless later metadata says      *)
(* something else of it.  Only the trust bundle is ever moved in place by  *)
(* the last loop of SignAndWrite; and what the cleanup removes, the newest *)
(* metadata does not list.                                                 *)
NewestSays ==
  \A v \in Present(targetsMd) : AtMost(targetsMd, v) =>
    \A n \in CertName : targetsMd[v].targets[n] = ed.targets[n]

WholeOrTorn ==
  /\ \A n \in Name, d \in Digest : files[<<n, d>>] \in {None, Torn, d}
  /\ \A n \in CertName : plain[n] = None
  /\ pc \in {"signers", "targets", "snapshot", "timestamp", "copy"} =>
       plain[Bundle] \in {None, ed.targets[Bundle]}

CertsPrepared ==
  Preparing => /\ CertsThere
               /\ ed.reuse \/ \A v \in Present(targetsMd) : v < ed.tv

CleanupKnows ==
  /\ pc \notin {"idle", "cleanonly"} /\ pending # {} => ~ed.reuse
  /\ pc = "cleanonly" \/ (~ed.reuse /\ pc \in {"snapshot", "timestamp", "copy", "written", "cleanup"})
       => NewestSays

ListedOrTakenOut ==
  \A v \in Present(targetsMd), n \in CertName :
    LET d == targetsMd[v].targets[n]
    IN d # None /\ files[<<n, d>>] = None => TakenOut(n, targetsMd[v])

KeepInv == TypeInv /\ WholeOrTorn /\ CertsPrepared /\ CleanupKnows /\ ListedOrTakenOut

(* What the documents on disk are, and where. *)
LEMMA DocsAre ==
  ASSUME TypeInv
  PROVE  /\ \A v \in Present(targetsMd) :
              /\ v \in Version /\ targetsMd[v] \in TargetsDoc /\ targetsMd[v].version = v
              /\ \A n \in Name : targetsMd[v].targets[n] \in Digest \cup {None}
         /\ \A n \in Name : ed.targets[n] \in Digest \cup {None}
         /\ CertName \subseteq Name /\ Bundle \in Name /\ Bundle \notin CertName
<1>1. \A v \in Present(targetsMd) :
        v \in Version /\ targetsMd[v] \in TargetsDoc /\ targetsMd[v].version = v
  BY DEF TypeInv, RunInv, DiskInv, DiskType, Indexed, Present
<1>2. \A t \in Targets, n \in Name : t[n] \in Digest \cup {None}
  BY DEF Targets
<1>3. \A v \in Present(targetsMd) : targetsMd[v].targets \in Targets
  BY <1>1 DEF TargetsDoc
<1>4. ed.targets \in Targets
  BY DEF TypeInv, RunInv, DiskInv, DiskType, EditorRecord
<1> QED
  BY <1>1, <1>2, <1>3, <1>4, RhtasAssumption DEF CertName

(* Nothing is taken out as long as the metadata stays; and files that do   *)
(* not disappear do not get lost.                                          *)
LEMMA ListedStays ==
  ASSUME TypeInv, ListedOrTakenOut, UNCHANGED targetsMd,
         \A n \in CertName, d \in Digest : files[<<n, d>>] # None => files'[<<n, d>>] # None
  PROVE  ListedOrTakenOut'
<1>1. Present(targetsMd)' = Present(targetsMd)
  BY DEF Present
<1>2. \A n \in CertName, v \in Present(targetsMd) :
        targetsMd[v].targets[n] # None => targetsMd[v].targets[n] \in Digest
  BY DocsAre
<1>3. ASSUME NEW v \in Present(targetsMd), NEW n \in CertName,
             targetsMd[v].targets[n] # None, files'[<<n, targetsMd[v].targets[n]>>] = None
      PROVE  TakenOut(n, targetsMd[v])'
  <2>1. TakenOut(n, targetsMd[v])
    BY <1>2, <1>3 DEF ListedOrTakenOut
  <2> QED
    BY <1>1, <2>1 DEF TakenOut
<1> QED
  BY <1>1, <1>3 DEF ListedOrTakenOut

(* A run starts from metadata whose files are there. *)
LEMMA BeginKeeps ==
  ASSUME KeepInv, NEW names \in SUBSET CertName, NEW s \in Setting \cup {None},
         NEW e \in Expires, NEW p \in Policies, Begin(names, s, e, p)
  PROVE  WholeOrTorn' /\ CertsPrepared' /\ CleanupKnows' /\ ListedOrTakenOut'
<1>1. /\ pc = "idle" /\ UNCHANGED disk
      /\ IF ed'.reuse THEN ed'.tv = LoadLatest.tv ELSE ed'.tv = LoadLatest.tv + 1
      /\ \A n \in Name : ed'.targets[n] = IF n \in names /\ Listed(n) THEN None
                                          ELSE LoadLatest.targets[n]
      /\ ed'.reuse \/ pc' = "cleanonly" => \A n \in names : ~Listed(n)
      /\ pc' \in {"set", "save", "cleanonly"}
  BY BeginLoads
<1>2. /\ targetsMd' = targetsMd /\ files' = files /\ plain' = plain
      /\ Present(targetsMd)' = Present(targetsMd)
  BY <1>1 DEF disk, Present
<1>3. WholeOrTorn'
  BY <1>1, <1>2 DEF KeepInv, WholeOrTorn
<1>4. ListedOrTakenOut'
  BY <1>2, ListedStays DEF KeepInv
<1>5. CertsThere'
  <2> SUFFICES ASSUME NEW n \in CertName, ed'.targets[n] # None
               PROVE  files[<<n, ed'.targets[n]>>] # None
    BY <1>2 DEF CertsThere
  <2> DEFINE u == Latest(targetsMd)
  <2>1. n \in Name /\ ed'.targets[n] = LoadLatest.targets[n]
    BY <1>1, DocsAre DEF KeepInv
  <2>2. Present(targetsMd) # {} /\ ed'.targets[n] = targetsMd[u].targets[n]
    BY <2>1 DEF LoadLatest, NoTargets
  <2>3. u \in Present(targetsMd) /\ \A w \in Present(targetsMd) : w <= u
    BY <2>2, LatestType DEF Present
  <2> HIDE DEF u
  <2>4. targetsMd[u].version = u /\ \A w \in Present(targetsMd) : w \in Int
    BY <2>3, DocsAre, EditorAssumption DEF KeepInv, Version
  <2>5. ~TakenOut(n, targetsMd[u])
    BY <2>3, <2>4 DEF TakenOut
  <2> QED
    BY <2>2, <2>3, <2>5 DEF KeepInv, ListedOrTakenOut
<1>6. ed'.reuse \/ \A v \in Present(targetsMd) : v < ed'.tv
  <2>1. /\ LoadLatest.tv \in Version /\ \A v \in Present(targetsMd) : v <= LoadLatest.tv
        /\ \A v \in Present(targetsMd) : v \in Version
    BY LoadedType DEF KeepInv, TypeInv, RunInv, DiskInv, Present
  <2> QED
    BY <1>1, <2>1, EditorAssumption DEF Version
<1>7. CertsPrepared'
  BY <1>2, <1>5, <1>6 DEF CertsPrepared
<1>8. pending' # {} => ~ed'.reuse
  <2>1. pending' # {} => names # {}
    BY DEF Begin, PendingFiles
  <2>2. ed'.reuse = ~(names # {} \/ s # None \/ e = "targets")
    BY DEF Begin
  <2> QED
    BY <2>1, <2>2
<1>9. pc' = "cleanonly" => NewestSays'
  <2> SUFFICES ASSUME pc' = "cleanonly", NEW v \in Present(targetsMd),
                      AtMost(targetsMd, v), NEW n \in CertName
               PROVE  targetsMd[v].targets[n] = ed'.targets[n]
    BY <1>2 DEF NewestSays, AtMost
  <2>1. n \in Name /\ ed'.targets[n] = LoadLatest.targets[n]
    BY <1>1, DocsAre DEF KeepInv
  <2>2. Latest(targetsMd) = v
    BY TopIsLatest DEF Top
  <2> QED
    BY <2>1, <2>2 DEF LoadLatest
<1>10. CleanupKnows'
  BY <1>1, <1>8, <1>9 DEF CleanupKnows
<1> QED
  BY <1>3, <1>4, <1>7, <1>10

(* Setting a certificate puts its file in place, or cuts it short. *)
LEMMA SetKeeps ==
  ASSUME KeepInv, SetTarget \/ (SetTargetFails /\ UNCHANGED command)
  PROVE  WholeOrTorn' /\ CertsPrepared' /\ CleanupKnows' /\ ListedOrTakenOut'
<1> DEFINE m == setting.name
           c == setting.cert
<1>1. m \in CertName /\ m \in Name /\ m # Bundle /\ c \in Digest /\ c # None /\ Torn # None
  BY RhtasAssumption, EditorAssumption
     DEF SetTarget, SetTargetFails, KeepInv, TypeInv, RunInv, FilesType, Setting, CertName
<1>2. /\ ed \in EditorRecord /\ ed.targets \in Targets
      /\ files \in [Name \X Digest -> Digest \cup {None, Torn}]
  BY DEF KeepInv, TypeInv, RunInv, FilesType, DiskInv, DiskType, EditorRecord
<1>3. UNCHANGED <<targetsMd, plain, pending>> /\ pc = "set" /\ pc' \in {"save", "idle"}
  BY DEF SetTarget, SetTargetFails, metadata, command
<1> HIDE DEF m, c
<1>4. PICK x \in {c, Torn} : files' = files \/ files' = [files EXCEPT ![<<m, c>>] = x]
  BY DEF SetTarget, SetTargetFails, m, c
<1>5. /\ \A n \in Name, d \in Digest :
           files'[<<n, d>>] = files[<<n, d>>]
           \/ (n = m /\ d = c /\ files'[<<n, d>>] = x)
      /\ \A n \in Name, d \in Digest : files[<<n, d>>] # None => files'[<<n, d>>] # None
  BY <1>1, <1>2, <1>4
<1>6. WholeOrTorn'
  BY <1>3, <1>5 DEF KeepInv, WholeOrTorn
<1>7. ListedOrTakenOut'
  BY <1>3, <1>5, ListedStays, DocsAre DEF KeepInv
<1>8. CASE SetTarget
  <2>1. /\ ed'.tv = ed.tv /\ ed'.reuse = ed.reuse
        /\ \A n \in Name : ed'.targets[n] = IF n = m THEN c ELSE ed.targets[n]
        /\ files'[<<m, c>>] # None
    BY <1>1, <1>2, <1>8 DEF SetTarget, Editing, EditorRecord, Targets, There, m, c
  <2>2. CertsThere'
    <3> SUFFICES ASSUME NEW n \in CertName, ed'.targets[n] # None
                 PROVE  files'[<<n, ed'.targets[n]>>] # None
      BY DEF CertsThere
    <3>1. n \in Name /\ ed.targets[n] \in Digest \cup {None}
      BY DocsAre DEF KeepInv
    <3>2. ed.targets[n] # None => files[<<n, ed.targets[n]>>] # None
      BY <1>3 DEF KeepInv, CertsPrepared, Preparing, CertsThere
    <3> QED
      BY <1>1, <1>5, <2>1, <3>1, <3>2
  <2>3. CertsPrepared'
    BY <1>3, <2>1, <2>2 DEF KeepInv, CertsPrepared, Preparing, Present
  <2>4. CleanupKnows'
    BY <1>3, <1>8, <2>1 DEF SetTarget, KeepInv, CleanupKnows
  <2> QED
    BY <1>6, <1>7, <2>3, <2>4
<1>9. CASE SetTargetFails /\ UNCHANGED command
  BY <1>6, <1>7, <1>9 DEF SetTargetFails, CertsPrepared, Preparing, CleanupKnows
<1> QED
  BY <1>8, <1>9

(* Saving the bundle changes no certificate. *)
LEMMA SaveKeeps ==
  ASSUME KeepInv, SaveBundle
  PROVE  WholeOrTorn' /\ CertsPrepared' /\ CleanupKnows' /\ ListedOrTakenOut'
<1>1. ed \in EditorRecord /\ ed.targets \in Targets /\ plain \in Targets
  BY DEF KeepInv, TypeInv, RunInv, FilesType, DiskInv, DiskType, EditorRecord
<1>2. Bundle \in Name /\ Bundle \notin CertName /\ CertName \subseteq Name
  BY RhtasAssumption DEF CertName
<1>3. /\ ed'.tv = ed.tv /\ ed'.reuse = ed.reuse
      /\ ed'.targets = [ed.targets EXCEPT ![Bundle] = bundle]
  BY <1>1 DEF SaveBundle, EditorRecord
<1>4. /\ ed'.targets[Bundle] = bundle /\ plain'[Bundle] = bundle
      /\ \A n \in CertName : ed'.targets[n] = ed.targets[n] /\ plain'[n] = plain[n]
  BY <1>1, <1>2, <1>3 DEF SaveBundle, Targets
<1>5. UNCHANGED <<targetsMd, files, pending>> /\ pc = "save" /\ pc' = "signers"
  BY DEF SaveBundle, metadata, command
<1>6. WholeOrTorn'
  BY <1>4, <1>5 DEF KeepInv, WholeOrTorn
<1>7. ListedOrTakenOut'
  BY <1>5, ListedStays DEF KeepInv
<1>8. CertsPrepared'
  BY <1>3, <1>4, <1>5 DEF KeepInv, CertsPrepared, Preparing, CertsThere, Present
<1>9. CleanupKnows'
  BY <1>3, <1>5 DEF KeepInv, CleanupKnows
<1> QED
  BY <1>6, <1>7, <1>8, <1>9

(* The cleanup removes what the newest metadata no longer lists. *)
LEMMA CleanKeeps ==
  ASSUME KeepInv, NEW n \in CertName, NEW d \in Cert, CleanUp(n, d)
  PROVE  WholeOrTorn' /\ CertsPrepared' /\ CleanupKnows' /\ ListedOrTakenOut'
<1>1. /\ UNCHANGED <<targetsMd, plain, pc, ed>> /\ pending' \subseteq pending
      /\ pc \in {"cleanup", "cleanonly"} /\ pending # {}
  BY DEF CleanUp, metadata
<1>2. n \in Name /\ d \in Digest
  BY RhtasAssumption DEF CertName
<1>3. /\ files' = IF ed.targets[n] = d THEN files ELSE [files EXCEPT ![<<n, d>>] = None]
      /\ files \in [Name \X Digest -> Digest \cup {None, Torn}]
  BY DEF CleanUp, KeepInv, TypeInv, RunInv, FilesType
<1>4. \A m \in Name, c \in Digest : files'[<<m, c>>] =
        IF m = n /\ c = d /\ ed.targets[n] # d THEN None ELSE files[<<m, c>>]
  BY <1>2, <1>3
<1>5. WholeOrTorn'
  BY <1>1, <1>4 DEF KeepInv, WholeOrTorn
<1>6. CertsPrepared'
  BY <1>1 DEF CertsPrepared, Preparing
<1>7. NewestSays
  BY <1>1 DEF KeepInv, CleanupKnows
<1>8. CleanupKnows'
  BY <1>1, <1>7 DEF KeepInv, CleanupKnows, NewestSays, AtMost, Present
<1>9. ListedOrTakenOut'
  <2> SUFFICES ASSUME NEW v \in Present(targetsMd), NEW m \in CertName,
                      targetsMd[v].targets[m] # None,
                      files'[<<m, targetsMd[v].targets[m]>>] = None
               PROVE  TakenOut(m, targetsMd[v])
    BY <1>1 DEF ListedOrTakenOut, TakenOut, Present
  <2>1. m \in Name /\ targetsMd[v].targets[m] \in Digest
    BY DocsAre DEF KeepInv
  <2>2. CASE files[<<m, targetsMd[v].targets[m]>>] = None
    BY <2>2 DEF KeepInv, ListedOrTakenOut
  <2>3. CASE m = n /\ targetsMd[v].targets[m] = d /\ ed.targets[n] # d
    <3>1. PICK w \in Present(targetsMd) : \A x \in Present(targetsMd) : x <= w
      BY HighestVersion DEF Present
    <3>2. targetsMd[w].targets[n] = ed.targets[n]
      BY <1>7, <3>1 DEF NewestSays, AtMost
    <3>3. v <= w /\ v # w /\ targetsMd[v].version = v /\ v \in Int /\ w \in Int
      BY <2>3, <3>1, <3>2, DocsAre, EditorAssumption DEF KeepInv, Version
    <3> QED
      BY <2>3, <3>2, <3>3 DEF TakenOut
  <2> QED
    BY <1>4, <2>1, <2>2, <2>3
<1> QED
  BY <1>5, <1>6, <1>8, <1>9

(* The end of a run touches no file with a digest in its name. *)
LEMMA EndKeeps ==
  ASSUME KeepInv, \/ StartCleanup \/ CleanUpFails \/ Return
                  \/ (Crash /\ UNCHANGED command) \/ UNCHANGED vars
  PROVE  WholeOrTorn' /\ CertsPrepared' /\ CleanupKnows' /\ ListedOrTakenOut'
<1>1. UNCHANGED <<targetsMd, files, ed, pending>>
  BY DEF StartCleanup, CleanUpFails, Return, Crash, vars, disk, metadata, command
<1>2. pc' = pc \/ pc' \in {"failed", "idle"} \/ (pc = "written" /\ pc' = "cleanup")
  BY DEF StartCleanup, CleanUpFails, Return, Crash, vars
<1>3. WholeOrTorn'
  <2>1. \A n \in CertName : plain'[n] = plain[n]
    <3>1. plain \in Targets /\ CertName = Name \ {Bundle}
      BY DEF KeepInv, TypeInv, RunInv, FilesType, CertName
    <3> QED
      BY <3>1 DEF StartCleanup, CleanUpFails, Return, Crash, vars, disk, Targets
  <2>2. pc' \in {"signers", "targets", "snapshot", "timestamp", "copy"} =>
          plain' = plain /\ pc' = pc
    BY <1>2 DEF StartCleanup, CleanUpFails, Return, Crash, vars, disk
  <2> QED
    BY <1>1, <2>1, <2>2 DEF KeepInv, WholeOrTorn
<1>4. ListedOrTakenOut'
  BY <1>1, ListedStays DEF KeepInv
<1>5. CertsPrepared'
  BY <1>1, <1>2 DEF KeepInv, CertsPrepared, Preparing, CertsThere, Present
<1>6. CleanupKnows'
  <2>1. CASE pc = "idle"
    <3>1. pc' = pc
      BY <2>1 DEF StartCleanup, CleanUpFails, Return, Crash, vars
    <3> QED
      BY <2>1, <3>1 DEF CleanupKnows
  <2>2. CASE pc = "cleanonly"
    <3>1. pc' \in {"cleanonly", "idle"}
      BY <2>2 DEF StartCleanup, CleanUpFails, Return, Crash, vars
    <3> QED
      BY <1>1, <2>2, <3>1 DEF KeepInv, CleanupKnows, NewestSays, AtMost, Present
  <2>3. CASE pc \notin {"idle", "cleanonly"}
    <3>1. pc' # "cleanonly"
      BY <1>2, <2>3
    <3> QED
      BY <1>1, <1>2, <2>3, <3>1 DEF KeepInv, CleanupKnows, NewestSays, AtMost, Present
  <2> QED
    BY <2>1, <2>2, <2>3
<1> QED
  BY <1>3, <1>4, <1>5, <1>6

(* New targets metadata is above all other, and what it lists is there.    *)
LEMMA WriteTargetsKeeps ==
  ASSUME KeepInv, WriteTargets, UNCHANGED command
  PROVE  /\ WholeOrTorn' /\ CertsPrepared' /\ CleanupKnows' /\ ListedOrTakenOut'
         /\ \A v \in Present(targetsMd) : targetsMd'[v] = targetsMd[v]
<1> DEFINE new == [version |-> ed.tv, by |-> run, targets |-> ed.targets]
<1>1. /\ ed.tv \in Version /\ new \in TargetsDoc /\ new # None
      /\ \A v \in Version : targetsMd'[v] = IF v = ed.tv THEN new ELSE targetsMd[v]
  <2>1. ed.tv \in Version /\ ed.targets \in Targets /\ run \in 1 .. MaxRun
    BY DEF WriteTargets, KeepInv, TypeInv, RunInv, DiskInv, DiskType, Planned, EditorRecord
  <2>2. new \in TargetsDoc
    BY <2>1, DocTypes
  <2> QED
    BY <2>1, <2>2, NoneAssumption DEF WriteTargets, KeepInv, TypeInv, RunInv, DiskInv, DiskType
<1>2. /\ UNCHANGED <<files, plain, ed, pending>>
      /\ pc = "targets" /\ pc' = "snapshot" /\ ~ed.reuse
  BY DEF WriteTargets, command
<1>3. new.version = ed.tv /\ new.targets = ed.targets
  OBVIOUS
<1> HIDE DEF new
<1>4. Present(targetsMd)' = Present(targetsMd) \cup {ed.tv}
  BY <1>1 DEF Present
<1>5. /\ \A v \in Present(targetsMd) : v < ed.tv /\ v \in Int /\ v \in Version
      /\ ed.tv \in Int
  <2>1. \A v \in Present(targetsMd) : v < ed.tv
    BY <1>2 DEF KeepInv, CertsPrepared, Preparing
  <2> QED
    BY <1>1, <2>1, EditorAssumption DEF Present, Version
<1>6. \A v \in Present(targetsMd) : v # ed.tv /\ targetsMd'[v] = targetsMd[v]
  BY <1>1, <1>5
<1>7. WholeOrTorn'
  BY <1>2 DEF KeepInv, WholeOrTorn
<1>8. CertsPrepared'
  BY <1>2 DEF CertsPrepared, Preparing
<1>9. NewestSays'
  <2> SUFFICES ASSUME NEW v \in Present(targetsMd)', AtMost(targetsMd, v)'
               PROVE  \A n \in CertName : targetsMd'[v].targets[n] = ed'.targets[n]
    BY DEF NewestSays
  <2>1. ed.tv <= v
    BY <1>4 DEF AtMost
  <2>2. v = ed.tv
    BY <1>4, <1>5, <2>1
  <2> QED
    BY <1>1, <1>2, <1>3, <2>2
<1>10. CleanupKnows'
  BY <1>2, <1>9 DEF CleanupKnows
<1>11. ListedOrTakenOut'
  <2> SUFFICES ASSUME NEW v \in Present(targetsMd)', NEW n \in CertName,
                      targetsMd'[v].targets[n] # None,
                      files[<<n, targetsMd'[v].targets[n]>>] = None
               PROVE  TakenOut(n, targetsMd[v])'
    BY <1>2 DEF ListedOrTakenOut
  <2>1. CASE v = ed.tv
    <3>1. CertsThere /\ targetsMd'[v].targets[n] = ed.targets[n]
      BY <1>1, <1>2, <1>3, <2>1 DEF KeepInv, CertsPrepared, Preparing
    <3> QED
      BY <3>1 DEF CertsThere
  <2>2. CASE v \in Present(targetsMd)
    <3>1. TakenOut(n, targetsMd[v])
      BY <1>6, <2>2 DEF KeepInv, ListedOrTakenOut
    <3> QED
      BY <1>4, <1>6, <2>2, <3>1 DEF TakenOut
  <2> QED
    BY <1>4, <2>1, <2>2
<1> QED
  BY <1>6, <1>7, <1>8, <1>10, <1>11

(* The rest of SignAndWrite removes no file, and moves only the bundle.    *)
LEMMA SignAndWriteKeeps ==
  ASSUME KeepInv, UNCHANGED command,
         \/ StepFails \/ LoadSigners \/ KeepTargets \/ WriteSnapshot \/ WriteTimestamp
         \/ AllCopied
         \/ \E n \in Name : SkipTarget(n) \/ CopyTarget(n) \/ CopyTargetTorn(n)
                           \/ TargetRefused(n)
  PROVE  /\ WholeOrTorn' /\ CertsPrepared' /\ CleanupKnows' /\ ListedOrTakenOut'
         /\ UNCHANGED targetsMd
<1>1. /\ UNCHANGED <<targetsMd, ed, pending>>
      /\ pc \notin {"idle", "cleanonly"} /\ pc' \notin {"idle", "cleanonly", "cleanup", "set", "save"}
      /\ Preparing' => Preparing
      /\ ~ed.reuse /\ pc' \in {"snapshot", "timestamp", "copy", "written"} =>
           pc \in {"snapshot", "timestamp", "copy", "written"}
      /\ pc' \in {"signers", "targets", "snapshot", "timestamp", "copy"} =>
           pc \in {"signers", "targets", "snapshot", "timestamp", "copy"}
  BY DEF StepFails, LoadSigners, KeepTargets, WriteSnapshot, WriteTimestamp, AllCopied, SkipTarget,
         CopyTarget, CopyTargetTorn, TargetRefused, disk, metadata, command, Preparing
<1>2. CleanupKnows'
  BY <1>1 DEF KeepInv, CleanupKnows, NewestSays, AtMost, Present
<1>3. WholeOrTorn' /\ \A n \in Name, d \in Digest : files[<<n, d>>] # None => files'[<<n, d>>] # None
  <2>1. CASE UNCHANGED <<files, plain>>
    BY <1>1, <2>1 DEF KeepInv, WholeOrTorn
  <2>2. ASSUME NEW n \in Name, CopyTarget(n) \/ CopyTargetTorn(n)
        PROVE  /\ WholeOrTorn'
               /\ \A m \in Name, d \in Digest : files[<<m, d>>] # None => files'[<<m, d>>] # None
    <3>1. PICK x \in {plain[n], Torn} :
            /\ files' = [files EXCEPT ![<<n, ed.targets[n]>>] = x]
            /\ plain' = plain \/ plain' = [plain EXCEPT ![n] = None]
            /\ pc = "copy" /\ plain[n] # None
      BY <2>2 DEF CopyTarget, CopyTargetTorn
    <3>2. n = Bundle /\ plain[n] = ed.targets[n]
      BY <3>1 DEF KeepInv, WholeOrTorn, CertName
    <3>3. /\ files \in [Name \X Digest -> Digest \cup {None, Torn}] /\ plain \in Targets
          /\ Torn # None
      BY EditorAssumption DEF KeepInv, TypeInv, RunInv, FilesType
    <3>4. \A m \in Name, d \in Digest : files'[<<m, d>>] =
            IF m = n /\ d = ed.targets[n] THEN x ELSE files[<<m, d>>]
      BY <3>1, <3>3
    <3>5. \A m \in Name : plain'[m] \in {plain[m], None}
      BY <3>1, <3>3 DEF Targets
    <3>6. WholeOrTorn'
      BY <1>1, <3>1, <3>2, <3>4, <3>5, DocsAre DEF KeepInv, WholeOrTorn
    <3> QED
      BY <3>1, <3>3, <3>4, <3>6
  <2> QED
    BY <2>1, <2>2 DEF StepFails, LoadSigners, KeepTargets, WriteSnapshot, WriteTimestamp, AllCopied,
       SkipTarget, TargetRefused, disk
<1>4. ListedOrTakenOut'
  BY <1>1, <1>3, ListedStays, DocsAre DEF KeepInv
<1>5. CertsPrepared'
  <2>1. ASSUME Preparing' PROVE files' = files
    BY <1>1, <2>1 DEF StepFails, LoadSigners, KeepTargets, WriteSnapshot, WriteTimestamp, AllCopied,
       SkipTarget, CopyTarget, CopyTargetTorn, TargetRefused, disk, Preparing
  <2> QED
    BY <1>1, <2>1 DEF KeepInv, CertsPrepared, CertsThere, Present
<1> QED
  BY <1>1, <1>2, <1>3, <1>4, <1>5

(* Every step of rhtas keeps the invariant, and no step writes over        *)
(* targets metadata that is there.                                         *)
LEMMA KeepStep ==
  ASSUME KeepInv, [Next]_vars
  PROVE  KeepInv' /\ \A v \in Present(targetsMd) : targetsMd'[v] = targetsMd[v]
<1>0. TypeInv'
  BY TypeStep DEF KeepInv
<1> DEFINE Kept == WholeOrTorn' /\ CertsPrepared' /\ CleanupKnows' /\ ListedOrTakenOut'
           Stays == \A v \in Present(targetsMd) : targetsMd'[v] = targetsMd[v]
<1> SUFFICES Kept /\ Stays
  BY <1>0 DEF KeepInv
<1>1. ASSUME NEW names \in SUBSET CertName, NEW s \in Setting \cup {None},
             NEW e \in Expires, NEW p \in Policies, Begin(names, s, e, p)
      PROVE  Kept /\ Stays
  <2>1. targetsMd' = targetsMd
    BY <1>1, BeginLoads DEF disk
  <2> QED
    BY <1>1, <2>1, BeginKeeps
<1>2. CASE SetTarget \/ (SetTargetFails /\ UNCHANGED command)
  <2>1. targetsMd' = targetsMd
    BY <1>2 DEF SetTarget, SetTargetFails, metadata
  <2> QED
    BY <1>2, <2>1, SetKeeps
<1>3. CASE SaveBundle
  <2>1. targetsMd' = targetsMd
    BY <1>3 DEF SaveBundle, metadata
  <2> QED
    BY <1>3, <2>1, SaveKeeps
<1>4. ASSUME NEW n \in CertName, NEW d \in Cert, CleanUp(n, d) PROVE Kept /\ Stays
  <2>1. targetsMd' = targetsMd
    BY <1>4 DEF CleanUp, metadata
  <2> QED
    BY <1>4, <2>1, CleanKeeps
<1>5. CASE StartCleanup \/ CleanUpFails \/ Return \/ (Crash /\ UNCHANGED command) \/ UNCHANGED vars
  <2>1. targetsMd' = targetsMd
    BY <1>5 DEF StartCleanup, CleanUpFails, Return, Crash, vars, disk, metadata
  <2> QED
    BY <1>5, <2>1, EndKeeps
<1>6. CASE SignAndWrite /\ UNCHANGED command
  BY <1>6, WriteTargetsKeeps, SignAndWriteKeeps DEF SignAndWrite
<1> HIDE DEF Kept, Stays
<1> QED
  BY <1>1, <1>2, <1>3, <1>4, <1>5, <1>6 DEF Next

(* It holds in an empty directory. *)
LEMMA InitKeeps == Init => KeepInv
<1> SUFFICES ASSUME Init PROVE KeepInv
  OBVIOUS
<1>1. TypeInv
  BY InitType
<1>2. Present(targetsMd) = {}
  BY DEF Init, Present
<1>3. WholeOrTorn /\ CertsPrepared /\ CleanupKnows /\ ListedOrTakenOut
  BY <1>2 DEF Init, WholeOrTorn, NoTargets, CertName, CertsPrepared, Preparing, CleanupKnows,
              ListedOrTakenOut
<1> QED
  BY <1>1, <1>3 DEF KeepInv

(* The readers: the targets metadata that one trusts is on disk, and what  *)
(* it has still to download is listed there.                               *)
Chain == [timestamp : LinkDoc \cup {None}, snapshot : LinkDoc \cup {None},
          targets : TargetsDoc \cup {None}]

ReadTypes ==
  /\ rpc \in [Reader -> Steps] /\ left \in [Reader -> SUBSET Name]
  /\ trusted \in [Reader -> Chain]

FollowsAt(step, l, t) ==
  /\ step = "snapshot" => t.timestamp # None
  /\ step = "targets" => t.snapshot # None
  /\ step \in {"cache", "cache2", "cache3", "resolve", "mkdir", "download"} =>
       t.targets # None /\ \E v \in Present(targetsMd) : t.targets = targetsMd[v]
  /\ step \in {"mkdir", "download"} => \A n \in l : t.targets.targets[n] # None

Follows(r) == FollowsAt(rpc[r], left[r], trusted[r])

MissInv == KeepInv /\ ReadTypes /\ \A r \in Reader : Follows(r)

(* What a reader trusts stays on disk whatever rhtas does. *)
LEMMA FollowsBesideRhtas ==
  ASSUME MissInv, [Next]_vars, UNCHANGED clientVars PROVE MissInv'
<1>1. KeepInv' /\ \A v \in Present(targetsMd) : targetsMd'[v] = targetsMd[v]
  BY KeepStep DEF MissInv
<1>2. UNCHANGED <<rpc, left, trusted>>
  BY DEF clientVars, reader
<1>3. \A v \in Present(targetsMd) : v \in Present(targetsMd)'
  BY <1>1 DEF Present
<1>4. ASSUME NEW r \in Reader PROVE Follows(r)'
  BY <1>1, <1>2, <1>3 DEF MissInv, Follows, FollowsAt
<1> QED
  BY <1>1, <1>2, <1>4 DEF MissInv, ReadTypes

(* A reader that goes on, or ends, leaves the others where they are. *)
LEMMA FollowsMove ==
  ASSUME MissInv, UNCHANGED vars, NEW r \in Reader,
         NEW step \in Steps, NEW l \in SUBSET Name,
         NEW t \in Chain,
         rpc' = [rpc EXCEPT ![r] = step], left' = [left EXCEPT ![r] = l],
         trusted' = [trusted EXCEPT ![r] = t],
         FollowsAt(step, l, t)
  PROVE  MissInv'
<1>1. KeepInv'
  BY KeepStep DEF MissInv
<1>2. targetsMd' = targetsMd /\ Present(targetsMd)' = Present(targetsMd)
  BY DEF vars, disk, Present
<1>3. ReadTypes'
  BY DEF MissInv, ReadTypes
<1>4. /\ rpc'[r] = step /\ left'[r] = l /\ trusted'[r] = t
      /\ \A o \in Reader : o # r => /\ rpc'[o] = rpc[o] /\ left'[o] = left[o]
                                    /\ trusted'[o] = trusted[o]
  BY DEF MissInv, ReadTypes
<1>5. Follows(r)'
  BY <1>2, <1>4 DEF Follows, FollowsAt
<1>6. ASSUME NEW o \in Reader, o # r PROVE Follows(o)'
  BY <1>2, <1>4, <1>6 DEF MissInv, Follows, FollowsAt
<1> QED
  BY <1>1, <1>3, <1>5, <1>6 DEF MissInv

(* So does one that ends. *)
LEMMA FollowsEnd ==
  ASSUME MissInv, UNCHANGED vars, NEW r \in Reader, NEW outcome \in {"idle", "refused", "missing"},
         End(r, outcome)
  PROVE  MissInv'
<1>1. /\ rpc' = [rpc EXCEPT ![r] = outcome] /\ left' = [left EXCEPT ![r] = {}]
      /\ trusted' = [trusted EXCEPT ![r] = Nothing]
  BY DEF End, Goto, Forget
<1>2. Nothing \in Chain
  BY DEF Nothing, Chain
<1>3. FollowsAt(outcome, {}, Nothing) /\ outcome \in Steps
  BY DEF FollowsAt, Steps
<1> QED
  BY <1>1, <1>2, <1>3, FollowsMove

(* Each step of a reader follows what it has verified. *)
LEMMA FollowsStep ==
  ASSUME MissInv, UNCHANGED vars, NEW r \in Reader,
         Start(r) \/ Refresh(r) \/ CacheMetadata(r) \/ CopyTargets(r) \/ Stop(r)
  PROVE  MissInv'
<1> DEFINE t == trusted[r]
<1>0. /\ t \in Chain /\ left[r] \in SUBSET Name /\ Follows(r)
      /\ timestampMd \in LinkDoc \cup {None}
      /\ snapshotMd \in [Version -> LinkDoc \cup {None}]
      /\ targetsMd \in [Version -> TargetsDoc \cup {None}]
      /\ \A md \in LinkDoc : md.meta.version \in Version
  BY DEF MissInv, ReadTypes, KeepInv, TypeInv, RunInv, DiskInv, DiskType, LinkDoc, Ref
<1>1. ASSUME NEW step \in Steps, NEW l \in SUBSET Name, NEW u \in Chain, FollowsAt(step, l, u),
             rpc' = [rpc EXCEPT ![r] = step],
             left' = [left EXCEPT ![r] = l] \/ (left' = left /\ l = left[r]),
             trusted' = [trusted EXCEPT ![r] = u] \/ (trusted' = trusted /\ u = t)
      PROVE  MissInv'
  <2>1. left' = [left EXCEPT ![r] = l] /\ trusted' = [trusted EXCEPT ![r] = u]
    BY <1>1 DEF MissInv, ReadTypes
  <2> QED
    BY <1>1, <2>1, FollowsMove
<1>2. ASSUME NEW outcome \in {"idle", "refused", "missing"}, End(r, outcome) PROVE MissInv'
  BY <1>2, FollowsEnd
<1>3. CASE Start(r)
  <2>1. rpc' = [rpc EXCEPT ![r] = "timestamp"] /\ UNCHANGED <<left, trusted>>
    BY <1>3 DEF Start, Goto
  <2>2. FollowsAt("timestamp", left[r], t) /\ "timestamp" \in Steps
    BY DEF FollowsAt, Steps
  <2> QED
    BY <1>0, <1>1, <2>1, <2>2
<1>4. CASE ReadTimestamp(r)
  <2> DEFINE u == [t EXCEPT !.timestamp = timestampMd]
  <2>1. /\ rpc' = [rpc EXCEPT ![r] = "snapshot"] /\ left' = left
        /\ trusted' = [trusted EXCEPT ![r] = u] /\ timestampMd # None
    BY <1>4 DEF ReadTimestamp, Goto, Trust, Published
  <2>2. u \in Chain /\ u.timestamp = timestampMd
    BY <1>0 DEF Chain
  <2> HIDE DEF u
  <2>3. FollowsAt("snapshot", left[r], u) /\ "snapshot" \in Steps
    BY <2>1, <2>2 DEF FollowsAt, Steps
  <2> QED
    BY <1>0, <1>1, <2>1, <2>2, <2>3
<1>5. CASE ReadSnapshot(r) /\ ~End(r, "refused")
  <2> DEFINE md == snapshotMd[t.timestamp.meta.version]
             u == [t EXCEPT !.snapshot = md]
  <2>1. /\ rpc' = [rpc EXCEPT ![r] = "targets"] /\ left' = left
        /\ trusted' = [trusted EXCEPT ![r] = u] /\ md # None /\ rpc[r] = "snapshot"
    BY <1>5 DEF ReadSnapshot, Goto, Trust, Verified
  <2>2. md \in LinkDoc
    <3>1. t.timestamp \in LinkDoc
      BY <1>0, <2>1 DEF Follows, FollowsAt, Chain
    <3> QED
      BY <1>0, <2>1, <3>1
  <2>3. u \in Chain /\ u.snapshot = md
    BY <1>0, <2>2 DEF Chain
  <2> HIDE DEF u, md
  <2>4. FollowsAt("targets", left[r], u) /\ "targets" \in Steps
    BY <2>1, <2>3 DEF FollowsAt, Steps
  <2> QED
    BY <1>0, <1>1, <2>1, <2>3, <2>4
<1>6. CASE ReadTargets(r) /\ ~End(r, "refused")
  <2> DEFINE v == t.snapshot.meta.version
             u == [t EXCEPT !.targets = targetsMd[v]]
             step == IF cmd[r] = "clone" THEN "cache" ELSE "resolve"
  <2>1. /\ rpc' = [rpc EXCEPT ![r] = step] /\ left' = left
        /\ trusted' = [trusted EXCEPT ![r] = u] /\ targetsMd[v] # None /\ rpc[r] = "targets"
    BY <1>6 DEF ReadTargets, Goto, Trust, Verified
  <2>2. v \in Present(targetsMd) /\ targetsMd[v] \in TargetsDoc
    <3>1. t.snapshot \in LinkDoc
      BY <1>0, <2>1 DEF Follows, FollowsAt, Chain
    <3>2. v \in Version
      BY <1>0, <3>1
    <3> QED
      BY <1>0, <2>1, <3>2 DEF Present
  <2>3. u \in Chain /\ u.targets = targetsMd[v]
    BY <1>0, <2>2 DEF Chain
  <2>4. step \in {"cache", "resolve"}
    OBVIOUS
  <2> HIDE DEF u, v, step
  <2>5. FollowsAt(step, left[r], u) /\ step \in Steps
    BY <2>1, <2>2, <2>3, <2>4 DEF FollowsAt, Steps
  <2> QED
    BY <1>0, <1>1, <2>1, <2>3, <2>5
<1>7. CASE CacheMetadata(r)
  <2>1. PICK step \in {"cache2", "cache3", "done", "resolve"} :
          rpc' = [rpc EXCEPT ![r] = step]
    BY <1>7 DEF CacheMetadata, CacheTimestamp, CacheSnapshot, CacheTargets, Goto
  <2>2. UNCHANGED <<left, trusted>> /\ rpc[r] \in {"cache", "cache2", "cache3"}
    BY <1>7 DEF CacheMetadata, CacheTimestamp, CacheSnapshot, CacheTargets
  <2>3. FollowsAt(step, left[r], t) /\ step \in Steps
    BY <1>0, <2>1, <2>2 DEF Follows, FollowsAt, Steps
  <2> QED
    BY <1>0, <1>1, <2>1, <2>2, <2>3
<1>8. CASE Resolve(r) /\ ~End(r, "idle")
  <2> DEFINE l == IF wanted[r] = {} THEN Offered(r) ELSE wanted[r]
  <2>1. /\ rpc' = [rpc EXCEPT ![r] = "mkdir"] /\ left' = [left EXCEPT ![r] = l]
        /\ trusted' = trusted /\ rpc[r] = "resolve" /\ wanted[r] \subseteq Offered(r)
    BY <1>8 DEF Resolve, Goto
  <2>2. l \in SUBSET Name /\ \A n \in l : t.targets.targets[n] # None
    BY <2>1 DEF Offered
  <2> HIDE DEF l
  <2>3. FollowsAt("mkdir", l, t) /\ "mkdir" \in Steps
    BY <1>0, <2>1, <2>2 DEF Follows, FollowsAt, Steps
  <2> QED
    BY <1>0, <1>1, <2>1, <2>2, <2>3
<1>9. CASE MakeDirectory(r) /\ ~End(r, "idle")
  <2>1. /\ rpc' = [rpc EXCEPT ![r] = "download"] /\ UNCHANGED <<left, trusted>>
        /\ rpc[r] = "mkdir"
    BY <1>9 DEF MakeDirectory, Goto
  <2>2. FollowsAt("download", left[r], t) /\ "download" \in Steps
    BY <1>0, <2>1 DEF Follows, FollowsAt, Steps
  <2> QED
    BY <1>0, <1>1, <2>1, <2>2
<1>10. ASSUME NEW n \in Name, Download(r, n), ~End(r, "missing") PROVE MissInv'
  <2> DEFINE l == left[r] \ {n}
  <2>1. /\ rpc' = rpc /\ trusted' = trusted /\ left' = [left EXCEPT ![r] = l]
        /\ rpc[r] = "download"
    BY <1>0, <1>10 DEF Download
  <2>2. rpc' = [rpc EXCEPT ![r] = "download"]
    BY <2>1 DEF MissInv, ReadTypes
  <2>3. FollowsAt("download", l, t) /\ "download" \in Steps /\ l \in SUBSET Name
    BY <1>0, <2>1 DEF Follows, FollowsAt, Steps
  <2> HIDE DEF l
  <2> QED
    BY <1>0, <1>1, <2>1, <2>2, <2>3
<1>11. CASE Finish(r)
  <2>1. rpc' = [rpc EXCEPT ![r] = "done"] /\ UNCHANGED <<left, trusted>>
    BY <1>11 DEF Finish, Goto
  <2>2. FollowsAt("done", left[r], t) /\ "done" \in Steps
    BY DEF FollowsAt, Steps
  <2> QED
    BY <1>0, <1>1, <2>1, <2>2
<1> QED
  BY <1>2, <1>3, <1>4, <1>5, <1>6, <1>7, <1>8, <1>9, <1>10, <1>11
     DEF Refresh, CopyTargets, Stop, ReadSnapshot, ReadTargets, Resolve, MakeDirectory, Download

(* Publisher and readers keep the invariant together. *)
LEMMA MissStep ==
  ASSUME MissInv, [RhtasClientNext]_<<vars, clientVars>> PROVE MissInv'
<1>1. CASE UNCHANGED clientVars /\ [Next]_vars
  BY <1>1, FollowsBesideRhtas
<1>2. CASE ClientStep /\ UNCHANGED vars
  <2>1. CASE TakeAway
    <3>1. /\ rpc' = [r \in Reader |-> "idle"] /\ left' = [r \in Reader |-> {}]
          /\ trusted' = [r \in Reader |-> Nothing]
      BY <2>1 DEF TakeAway
    <3>2. KeepInv'
      BY <1>2, KeepStep DEF MissInv
    <3>3. ReadTypes' /\ \A r \in Reader : Follows(r)'
      BY <3>1 DEF ReadTypes, Chain, Follows, FollowsAt, Steps, Nothing
    <3> QED
      BY <3>2, <3>3 DEF MissInv
  <2> QED
    BY <1>2, <2>1, FollowsStep DEF ClientStep
<1> QED
  BY <1>1, <1>2 DEF RhtasClientNext

(* A download misses a file only if the file was cut short, or was taken   *)
(* out by a later run, or is the trust bundle of a run that has not come   *)
(* to copy it: whatever rhtas is told to do, whichever of its steps fails  *)
(* or is its last, and also where it writes snapshot and timestamp again   *)
(* under the versions they have.                                           *)
THEOREM ReadersMissOnlyWithdrawn == RhtasClientSpec => MissesOnlyWithdrawn
<1>1. RhtasClientInit => MissInv
  <2> SUFFICES ASSUME RhtasClientInit PROVE MissInv
    OBVIOUS
  <2>1. ReadTypes /\ \A r \in Reader : Follows(r)
    BY DEF RhtasClientInit, ClientInit, ReadTypes, Chain, Follows, FollowsAt, Steps, Nothing
  <2> QED
    BY <2>1, InitKeeps DEF RhtasClientInit, MissInv
<1>2. MissInv /\ [RhtasClientNext]_<<vars, clientVars>> => MissInv'
  BY MissStep
<1> DEFINE Because(r) ==
             \E n \in left[r] :
               LET file == files[<<n, trusted[r].targets.targets[n]>>]
               IN \/ file = Torn
                  \/ file = None /\ (n = Bundle \/ TakenOut(n, trusted[r].targets))
           Misses == \A r \in Reader : rpc'[r] = "missing" /\ rpc[r] = "download" => Because(r)
<1>3. MissInv /\ [RhtasClientNext]_<<vars, clientVars>> => [Misses]_<<vars, clientVars>>
  <2> SUFFICES ASSUME MissInv, [RhtasClientNext]_<<vars, clientVars>>, NEW r \in Reader,
                      rpc'[r] = "missing", rpc[r] = "download"
               PROVE  Because(r)
    BY DEF Misses
  <2> HIDE DEF Because
  <2>0. rpc \in [Reader -> Steps]
    BY DEF MissInv, ReadTypes
  <2>1. ClientStep /\ ~TakeAway
    <3>1. ~TakeAway
      BY DEF TakeAway
    <3> QED
      BY <3>1 DEF RhtasClientNext, clientVars, reader
  <2>2. PICK o \in Reader : Start(o) \/ Refresh(o) \/ CacheMetadata(o) \/ CopyTargets(o) \/ Stop(o)
    BY <2>1 DEF ClientStep
  <2>3. \E step : rpc' = [rpc EXCEPT ![o] = step]
    <3>1. CASE rpc' = rpc
      BY <3>1
    <3>2. CASE rpc' # rpc
      BY <2>2, <3>2 DEF Start, Refresh, ReadTimestamp, ReadSnapshot, ReadTargets, CacheMetadata,
         CacheTimestamp, CacheSnapshot, CacheTargets, CopyTargets, Resolve, MakeDirectory, Finish,
         Download, Stop, End, Goto
    <3> QED
      BY <3>1, <3>2
  <2>4. o = r
    BY <2>0, <2>3
  <2>5. PICK n \in Name : Download(r, n)
    <3>1. rpc' # [rpc EXCEPT ![r] = "idle"] /\ rpc' # [rpc EXCEPT ![r] = "done"]
      BY <2>0
    <3> QED
      BY <2>2, <2>4, <3>1 DEF Start, Active, Refresh, ReadTimestamp, ReadSnapshot, ReadTargets,
         CacheMetadata, CacheTimestamp, CacheSnapshot, CacheTargets, CopyTargets, Resolve,
         MakeDirectory, Finish, Stop, End, Goto
  <2> DEFINE md == trusted[r].targets
             file == files[<<n, md.targets[n]>>]
  <2>6. n \in left[r] /\ ~Delivered(n, md.targets[n])
    BY <2>5 DEF Download
  <2>7. PICK v \in Present(targetsMd) : md = targetsMd[v]
    BY DEF MissInv, Follows, FollowsAt
  <2>8. md.targets[n] # None
    BY <2>6 DEF MissInv, Follows, FollowsAt
  <2>9. md.targets[n] \in Digest
    BY <2>7, <2>8, DocsAre DEF MissInv, KeepInv
  <2>10. file \in {None, Torn}
    BY <2>6, <2>9 DEF MissInv, KeepInv, WholeOrTorn, Delivered
  <2>11. file = None => n = Bundle \/ TakenOut(n, md)
    BY <2>7, <2>8 DEF MissInv, KeepInv, ListedOrTakenOut, CertName
  <2> QED
    BY <2>6, <2>10, <2>11 DEF Because
<1> QED
  BY <1>1, <1>2, <1>3, PTL DEF RhtasClientSpec, MissesOnlyWithdrawn
=============================================================================
