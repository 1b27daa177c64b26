---------------------------- MODULE MetadataChain ----------------------------
(***************************************************************************)
(* LoadRepository with --metadata-url (internal/editor): the chain         *)
(* timestamp, snapshot, targets is fetched file by file from a mirror that *)
(* may change between two requests, verified against the rollback floor of *)
(* the output directory, and committed there.                              *)
(*                                                                         *)
(* The publisher's history is a sequence of chains.  The bytes of a file   *)
(* are the version and `by', which tells apart files published under the   *)
(* same version; a file is named by the index of a chain it belongs to, 0  *)
(* for no file.  Signatures hold and the root does not change.  The faults *)
(* of the commit itself are the subject of CommitStaged: here it is only   *)
(* cut short by the death of the process.                                  *)
(***************************************************************************)
EXTENDS Integers, Sequences

CONSTANTS History,    \* the chains published, oldest first
          MaxVersion, \* bound: versions of a metadata file
          Crashes     \* whether the process may die

Version == 1 .. MaxVersion
Ref == [version : Version, by : Version]
Chain == [ts : Ref, snapshot : Ref, targets : Ref]
Index == 1 .. Len(History)

ASSUME ChainAssumption ==
  /\ MaxVersion \in Nat \ {0} /\ Crashes \in BOOLEAN
  /\ History \in Seq(Chain) /\ History # <<>>
  /\ \A i, j \in Index :   \* the bytes of a file say what it refers to
       /\ History[i].ts = History[j].ts => History[i].snapshot = History[j].snapshot
       /\ History[i].snapshot = History[j].snapshot => History[i].targets = History[j].targets

Path == {"timestamp"} \X {0} \cup {"snapshot", "targets"} \X Version
Timestamp == <<"timestamp", 0>>

VARIABLES at,       \* the chain the mirror is at
          out,      \* the files of the output directory
          pc,       \* phase of the run
          ts, snap, tgt,   \* the files fetched
          moved, swapped,  \* commit: files backed up, files in place
          accepted, \* the chain whose timestamp was committed last
          killed    \* a run died inside its commit, and none committed since

got == <<ts, snap, tgt>>
local == <<got, moved, swapped>>
history == <<accepted, killed>>
vars == <<at, out, pc, ts, snap, tgt, moved, swapped, history>>

(* The variables keep their types: what a phase of fetchMetadataFromURL    *)
(* needs has been fetched when it begins.                                  *)
TypeOK ==
  /\ at \in Index /\ out \in [Path -> Index \cup {0}]
  /\ pc \in {"idle", "snapshot", "targets", "verify", "backup", "swap"}
  /\ pc # "idle" <=> ts # 0
  /\ pc \notin {"idle", "snapshot"} => snap # 0
  /\ pc \notin {"idle", "snapshot", "targets"} => tgt # 0
  /\ {ts, snap, tgt, accepted} \subseteq Index \cup {0}
  /\ moved \subseteq Path /\ swapped \subseteq Path /\ killed \in BOOLEAN

Init ==
  /\ at \in Index /\ out = [f \in Path |-> 0] /\ pc = "idle"
  /\ ts = 0 /\ snap = 0 /\ tgt = 0
  /\ moved = {} /\ swapped = {} /\ accepted = 0 /\ killed = FALSE

(* The mirror, or the cache that answers, is brought up to date or falls   *)
(* behind.                                                                 *)
MirrorMoves ==
  /\ at' \in Index
  /\ UNCHANGED <<out, pc, got, moved, swapped, history>>

(* What the mirror serves under a versioned name: the last file published  *)
(* under it, if it has been published yet.                                 *)
Newest(is) == IF is = {} THEN 0 ELSE CHOOSE i \in is : \A j \in is : j <= i

SnapshotVersion(i) == History[i].snapshot.version
TargetsVersion(i) == History[i].targets.version

SnapshotServed(v) == Newest({i \in 1 .. at : SnapshotVersion(i) = v})
TargetsServed(v) == Newest({i \in 1 .. at : TargetsVersion(i) = v})

(* The run returns; what it had fetched is gone with it. *)
Return ==
  /\ pc' = "idle" /\ ts' = 0 /\ snap' = 0 /\ tgt' = 0
  /\ moved' = {} /\ swapped' = {}

FetchTimestamp ==
  /\ pc = "idle"
  /\ ts' = at /\ pc' = "snapshot"
  /\ UNCHANGED <<at, out, snap, tgt, moved, swapped, history>>

(* Faulty FetchSnapshot: a file that is not there is not noticed. *)
FetchSnapshotUnchecked ==
  /\ pc = "snapshot"
  /\ snap' = SnapshotServed(SnapshotVersion(ts))
  /\ pc' = "targets"
  /\ UNCHANGED <<at, out, ts, tgt, moved, swapped, history>>

FetchSnapshot ==
  /\ pc = "snapshot"
  /\ LET i == SnapshotServed(SnapshotVersion(ts))
     IN IF i = 0 THEN Return
        ELSE pc' = "targets" /\ snap' = i /\ UNCHANGED <<ts, tgt, moved, swapped>>
  /\ UNCHANGED <<at, out, history>>

FetchTargets ==
  /\ pc = "targets"
  /\ LET i == TargetsServed(TargetsVersion(snap))
     IN IF i = 0 THEN Return
        ELSE pc' = "verify" /\ tgt' = i /\ UNCHANGED <<ts, snap, moved, swapped>>
  /\ UNCHANGED <<at, out, history>>

(* A request fails, a target file cannot be fetched, or CheckExpiration    *)
(* finds expired metadata that is not allowed.                             *)
GiveUp ==
  /\ pc \in {"snapshot", "targets", "verify"}
  /\ Return
  /\ UNCHANGED <<at, out, history>>

-----------------------------------------------------------------------------

(* Faulty PriorTimestamp: is looked for in the staging directory. *)
NoPriorTimestamp == 0

(* The floor: timestamp.json and the highest-numbered snapshot of the      *)
(* output directory.                                                       *)
PriorTimestamp == out[Timestamp]
PriorSnapshot ==
  LET vs == {v \in Version : out[<<"snapshot", v>>] # 0}
  IN IF vs = {} THEN 0 ELSE out[<<"snapshot", CHOOSE v \in vs : \A w \in vs : w <= v>>]

(* UpdateTimestamp refuses a lower version and keeps the prior timestamp   *)
(* when the versions are equal, which verifyMetadataChain lets pass.       *)
SameVersion == PriorTimestamp # 0 /\ History[ts].ts.version = History[PriorTimestamp].ts.version

TimestampAccepted ==
  \/ PriorTimestamp = 0
  \/ SameVersion
  \/ /\ History[ts].ts.version > History[PriorTimestamp].ts.version
     /\ SnapshotVersion(ts) >= SnapshotVersion(PriorTimestamp)

TrustedTimestamp == IF SameVersion THEN PriorTimestamp ELSE ts

(* Faulty SnapshotAccepted: the targets must be newer than the floor's. *)
NewerSnapshotAccepted ==
  /\ History[snap].snapshot = History[TrustedTimestamp].snapshot
  /\ PriorSnapshot # 0 => TargetsVersion(snap) > TargetsVersion(PriorSnapshot)

SnapshotAccepted ==
  /\ History[snap].snapshot = History[TrustedTimestamp].snapshot
  /\ PriorSnapshot # 0 => TargetsVersion(snap) >= TargetsVersion(PriorSnapshot)

(* Faulty TargetsAccepted: compares the version but not the hash. *)
TargetsVersionAccepted == TargetsVersion(tgt) = TargetsVersion(snap)

TargetsAccepted == History[tgt].targets = History[snap].targets

Verified == TimestampAccepted /\ SnapshotAccepted /\ TargetsAccepted

(* Faulty Verify: the commit renames over the old files. *)
VerifyThenSwap ==
  /\ pc = "verify"
  /\ IF Verified THEN pc' = "swap" /\ UNCHANGED local ELSE Return
  /\ UNCHANGED <<at, out, history>>

Verify ==
  /\ pc = "verify"
  /\ IF Verified THEN pc' = "backup" /\ UNCHANGED local ELSE Return
  /\ UNCHANGED <<at, out, history>>

(* commitStagedMetadata of the three files. *)
Staged == {Timestamp, <<"snapshot", SnapshotVersion(ts)>>, <<"targets", TargetsVersion(snap)>>}
FetchedFile(f) == IF f = Timestamp THEN ts ELSE IF f[1] = "snapshot" THEN snap ELSE tgt

Backup(f) ==
  /\ pc = "backup" /\ f \in Staged \ moved
  /\ out' = [out EXCEPT ![f] = 0]
  /\ moved' = moved \cup {f}
  /\ pc' = IF moved' = Staged THEN "swap" ELSE "backup"
  /\ UNCHANGED <<at, got, swapped, history>>

Swap(f) ==
  /\ pc = "swap" /\ f \in Staged \ swapped
  /\ out' = [out EXCEPT ![f] = FetchedFile(f)]
  /\ IF swapped \cup {f} = Staged
     THEN Return /\ accepted' = ts /\ killed' = FALSE
     ELSE swapped' = swapped \cup {f} /\ UNCHANGED <<pc, got, moved, history>>
  /\ UNCHANGED at

(* The .backup files left are not looked at by a later run. *)
Crash ==
  /\ Crashes /\ pc # "idle" /\ Return
  /\ killed' = (killed \/ pc \in {"backup", "swap"})
  /\ UNCHANGED <<at, out, accepted>>

(* What a run does next, when nothing stops it. *)
Proceed ==
  \/ FetchSnapshot \/ FetchTargets \/ Verify
  \/ \E f \in Path : Backup(f) \/ Swap(f)

Next == MirrorMoves \/ FetchTimestamp \/ GiveUp \/ Crash \/ Proceed

Spec == Init /\ [][Next]_vars

(* A command that runs goes on to its end, and whoever keeps the mirror    *)
(* runs it again and again.  Nothing is assumed of the mirror.             *)
FairSpec == Spec /\ WF_vars(Proceed) /\ WF_vars(FetchTimestamp)

-----------------------------------------------------------------------------
(* Whatever the mirror serves between two requests, the chain the output   *)
(* directory is left with is one chain: each file is the one whose hash    *)
(* the file above it records.  A commit that succeeds repairs what a death *)
(* in an earlier one left.                                                 *)
LocalChainIntact ==
  pc = "idle" /\ ~killed /\ out[Timestamp] # 0 =>
    LET i == out[Timestamp]
        j == out[<<"snapshot", SnapshotVersion(i)>>]
        k == out[<<"targets", TargetsVersion(j)>>]
    IN /\ j # 0 /\ History[j].snapshot = History[i].snapshot
       /\ k # 0 /\ History[k].targets = History[j].targets

(* Wherever a commit is cut short, timestamp.json never stands beside a    *)
(* snapshot or targets file of another chain under the name it refers to:  *)
(* files are missing, but none is mixed in.                                *)
NeverMixes ==
  out[Timestamp] # 0 =>
    LET i == out[Timestamp]
        j == out[<<"snapshot", SnapshotVersion(i)>>]
        k == out[<<"targets", TargetsVersion(j)>>]
    IN j # 0 => /\ History[j].snapshot = History[i].snapshot
                /\ k # 0 => History[k].targets = History[j].targets

(* No version of the committed chain goes back. *)
Forward ==
  accepted # 0 /\ accepted' # accepted =>
    /\ History[accepted'].ts.version >= History[accepted].ts.version
    /\ SnapshotVersion(accepted') >= SnapshotVersion(accepted)
    /\ TargetsVersion(accepted') >= TargetsVersion(accepted)

(* "a validly signed but older chain cannot overwrite newer metadata":     *)
(* only a commit that was cut short by the death of the process, with      *)
(* timestamp.json moved away, opens the way for an older chain; so would a *)
(* rollback that cannot move it back, which this short commit leaves out.  *)
RollsBackOnlyWhenKilled == [][~killed => Forward]_vars

(* Once the mirror stays at the newest publication and requests and        *)
(* processes no longer fail, a run commits it: nothing that an earlier run, *)
(* killed or served old files, left in the directory, and no floor taken   *)
(* from it, keeps the newest chain out for good.                           *)
CatchesUp ==
  <>[](at = Len(History)) /\ <>[][FetchTimestamp \/ Proceed]_vars
    => <>[](accepted = Len(History) /\ ~killed)
=============================================================================
