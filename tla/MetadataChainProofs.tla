------------------------- MODULE MetadataChainProofs -------------------------
(***************************************************************************)
(* What a mirror that changes between two requests can do to the output    *)
(* directory.  The commit replaces exactly the three files of the chain    *)
(* that was verified, so that its progress says what stands under their    *)
(* names; and while no process has died in a commit, timestamp.json is     *)
(* that of the chain accepted last, which is the floor of the next run.    *)
(***************************************************************************)
EXTENDS MetadataChain, FiniteSetTheorems, TLAPS

(* A publisher that gives every timestamp a version of its own.  Not every *)
(* publisher does: a forced version may name one that was published, and   *)
(* rhtas with nothing to change signs the timestamp again under its own.   *)
TimestampsNumbered ==
  \A i, j \in Index : History[i].ts.version = History[j].ts.version => History[i].ts = History[j].ts

(* A publisher that never goes back: each publication bumps the timestamp, *)
(* and no forced version is lower than the one before.                     *)
NeverBack ==
  \A i, j \in Index : i < j =>
    /\ History[i].ts.version < History[j].ts.version
    /\ SnapshotVersion(i) <= SnapshotVersion(j)
    /\ TargetsVersion(i) <= TargetsVersion(j)

Committing == pc \in {"backup", "swap"}

(* What has been fetched so far was served under the version asked for,    *)
(* and what is being committed has passed the verification.                *)
FetchInv ==
  /\ pc \in {"targets", "verify", "backup", "swap"} => SnapshotVersion(snap) = SnapshotVersion(ts)
  /\ pc \in {"verify", "backup", "swap"} => TargetsVersion(tgt) = TargetsVersion(snap)
  /\ Committing => History[snap].snapshot = History[ts].snapshot
                   /\ History[tgt].targets = History[snap].targets

(* How far the commit is. *)
CommitInv ==
  /\ ~Committing => moved = {} /\ swapped = {}
  /\ pc = "backup" => swapped = {} /\ moved \subseteq Staged /\ moved # Staged
                      /\ \A f \in moved : out[f] = 0
  /\ pc = "swap" => swapped \subseteq Staged /\ swapped # Staged
                    /\ \A f \in Staged : out[f] = IF f \in swapped THEN FetchedFile(f) ELSE 0

Whole ==
  out[Timestamp] # 0 =>
    LET i == out[Timestamp]
        j == out[<<"snapshot", SnapshotVersion(i)>>]
        k == out[<<"targets", TargetsVersion(j)>>]
    IN /\ j # 0 /\ History[j].snapshot = History[i].snapshot
       /\ k # 0 /\ History[k].targets = History[j].targets

IntactInv == ~Committing /\ ~killed => Whole

IInv == TypeOK /\ FetchInv /\ CommitInv /\ NeverMixes /\ IntactInv

(* The floor is the chain accepted last. *)
FloorInv ==
  ~killed =>
    /\ ~Committing => out[Timestamp] = accepted
    /\ Committing /\ accepted # 0 =>
         /\ History[ts].ts.version >= History[accepted].ts.version
         /\ SnapshotVersion(ts) >= SnapshotVersion(accepted)

(* The snapshots of the output directory are no newer than its chain.      *)
HighestInv ==
  /\ ~killed
  /\ ~Committing => \A v \in Version : out[<<"snapshot", v>>] # 0 =>
                      accepted # 0 /\ v <= SnapshotVersion(accepted)
  /\ Committing => \A v \in Version : out[<<"snapshot", v>>] # 0 =>
                      v <= SnapshotVersion(ts)
  /\ Committing /\ accepted # 0 => TargetsVersion(ts) >= TargetsVersion(accepted)

-----------------------------------------------------------------------------
(* The file names, and what a commit puts under each. *)
LEMMA HistoryTypes ==
  \A i \in Index : /\ SnapshotVersion(i) \in Version /\ TargetsVersion(i) \in Version
                   /\ History[i].ts.version \in Version
                   /\ SnapshotVersion(i) \in Int /\ TargetsVersion(i) \in Int
                   /\ History[i].ts.version \in Int /\ i # 0 /\ i \in Int
<1> SUFFICES ASSUME NEW i \in Index
             PROVE  /\ SnapshotVersion(i) \in Version /\ TargetsVersion(i) \in Version
                    /\ History[i].ts.version \in Version /\ i # 0 /\ i \in Int
  BY ChainAssumption DEF Version
<1>1. History[i] \in Chain
  BY ChainAssumption DEF Index
<1>2. History[i].snapshot \in Ref /\ History[i].targets \in Ref /\ History[i].ts \in Ref
  BY <1>1 DEF Chain
<1>3. i # 0 /\ i \in Int
  BY ChainAssumption DEF Index
<1> QED
  BY <1>2, <1>3 DEF Ref, SnapshotVersion, TargetsVersion

(* Distinct documents have distinct names in the output directory. *)
LEMMA PathTypes ==
  /\ Timestamp \in Path
  /\ \A v \in Version :
       /\ <<"snapshot", v>> \in Path /\ <<"targets", v>> \in Path
       /\ <<"snapshot", v>> # Timestamp /\ <<"targets", v>> # Timestamp
  /\ \A v, w : <<"snapshot", v>> # <<"targets", w>>
  /\ \A v, w : <<"snapshot", v>> = <<"snapshot", w>> => v = w
  /\ \A v, w : <<"targets", v>> = <<"targets", w>> => v = w
<1>1. Timestamp \in Path
  BY DEF Path, Timestamp
<1>2. \A v \in Version : <<"snapshot", v>> \in Path /\ <<"targets", v>> \in Path
  BY DEF Path
<1>3. \A v : <<"snapshot", v>> # Timestamp /\ <<"targets", v>> # Timestamp
  BY DEF Timestamp
<1>4. /\ \A v, w : <<"snapshot", v>> # <<"targets", w>>
      /\ \A v, w : <<"snapshot", v>> = <<"snapshot", w>> => v = w
      /\ \A v, w : <<"targets", v>> = <<"targets", w>> => v = w
  OBVIOUS
<1> QED
  BY <1>1, <1>2, <1>3, <1>4

(* The commit renames each fetched file to its own name. *)
LEMMA Files ==
  /\ FetchedFile(Timestamp) = ts
  /\ \A v : FetchedFile(<<"snapshot", v>>) = snap /\ FetchedFile(<<"targets", v>>) = tgt
  BY DEF FetchedFile, Timestamp

(* The newest of a set of chains is one of them: the smallest, by          *)
(* inclusion, of the intervals that begin at one of them.                  *)
LEMMA NewestIs ==
  ASSUME NEW N \in Nat, NEW S \in SUBSET (1 .. N), S # {}
  PROVE  Newest(S) \in S /\ \A w \in S : w <= Newest(S)
<1>1. \A v \in S : v \in Int /\ 1 <= v /\ v <= N
  OBVIOUS
<1> DEFINE T == {v .. N : v \in S}
<1>2. T \subseteq FiniteSubsetsOf(1 .. N) /\ T # {}
  <2>1. \A v \in S : IsFiniteSet(v .. N) /\ v .. N \subseteq 1 .. N
    BY <1>1, FS_Interval
  <2> QED
    BY <2>1 DEF FiniteSubsetsOf
<1>3. PICK I \in T : \A J \in T : <<J, I>> \notin StrictSubsetOrdering(1 .. N)
  <2> HIDE DEF T
  <2> QED
    BY <1>2, FS_StrictSubsetOrderingWellFounded, WFMin
<1>4. PICK v \in S : I = v .. N
  OBVIOUS
<1>5. ASSUME NEW w \in S PROVE w <= v
  <2> DEFINE J == w .. N
  <2>1. J \in T /\ J \in SUBSET (1 .. N) /\ I \in SUBSET (1 .. N)
    <3>1. J \in T
      OBVIOUS
    <3>2. \A K \in T : K \subseteq 1 .. N
      <4> HIDE DEF T
      <4> QED
        BY <1>2 DEF FiniteSubsetsOf
    <3> QED
      BY <3>1, <3>2
  <2>2. ~(J \subseteq I /\ J # I)
    BY <1>3, <2>1 DEF StrictSubsetOrdering
  <2>3. CASE v < w
    <3>1. J \subseteq I
      BY <1>1, <1>4, <2>3
    <3>2. v \in I /\ v \notin J
      BY <1>1, <1>4, <2>3
    <3> QED
      BY <2>2, <3>1, <3>2
  <2> QED
    BY <1>1, <2>3
<1> HIDE DEF T
<1>6. \E u \in S : \A w \in S : w <= u
  BY <1>5
<1> QED
  BY <1>6 DEF Newest

(* The mirror serves a file under the version asked for, or none.          *)
LEMMA ServedTypes ==
  ASSUME at \in Index, NEW v
  PROVE  /\ SnapshotServed(v) # 0 => SnapshotServed(v) \in Index /\ SnapshotVersion(SnapshotServed(v)) = v
         /\ TargetsServed(v) # 0 => TargetsServed(v) \in Index /\ TargetsVersion(TargetsServed(v)) = v
<1>0. Len(History) \in Nat /\ at \in Nat /\ 1 .. at \subseteq Index
  BY ChainAssumption DEF Index
<1> DEFINE S == {i \in 1 .. at : SnapshotVersion(i) = v}
           T == {i \in 1 .. at : TargetsVersion(i) = v}
<1>1. S # {} => Newest(S) \in S
  BY <1>0, NewestIs
<1>2. T # {} => Newest(T) \in T
  BY <1>0, NewestIs
<1>3. (S = {} => Newest(S) = 0) /\ (T = {} => Newest(T) = 0)
  BY DEF Newest
<1> QED
  BY <1>0, <1>1, <1>2, <1>3 DEF SnapshotServed, TargetsServed

-----------------------------------------------------------------------------
(* Every step keeps the types. *)
LEMMA TypeStep == ASSUME TypeOK, [Next]_vars PROVE TypeOK'
<1> USE DEF TypeOK
<1>1. CASE MirrorMoves
  BY <1>1 DEF MirrorMoves, got, history
<1>2. CASE FetchTimestamp
  BY <1>2, HistoryTypes DEF FetchTimestamp, history
<1>3. CASE FetchSnapshot
  <2> DEFINE i == SnapshotServed(SnapshotVersion(ts))
  <2>1. i # 0 => i \in Index
    BY ServedTypes
  <2> HIDE DEF i
  <2>2. IF i = 0 THEN Return
        ELSE pc' = "targets" /\ snap' = i /\ UNCHANGED <<ts, tgt, moved, swapped>>
    BY <1>3 DEF FetchSnapshot, i
  <2> QED
    BY <1>3, <2>1, <2>2 DEF FetchSnapshot, Return, history
<1>4. CASE FetchTargets
  <2> DEFINE i == TargetsServed(TargetsVersion(snap))
  <2>1. i # 0 => i \in Index
    BY ServedTypes
  <2> HIDE DEF i
  <2>2. IF i = 0 THEN Return
        ELSE pc' = "verify" /\ tgt' = i /\ UNCHANGED <<ts, snap, moved, swapped>>
    BY <1>4 DEF FetchTargets, i
  <2> QED
    BY <1>4, <2>1, <2>2 DEF FetchTargets, Return, history
<1>5. CASE Verify
  BY <1>5 DEF Verify, Return, local, got, history
<1>6. CASE GiveUp
  BY <1>6 DEF GiveUp, Return, history
<1>7. CASE Crash
  BY <1>7 DEF Crash, Return
<1>8. ASSUME NEW f \in Path, Backup(f) PROVE TypeOK'
  BY <1>8 DEF Backup, got, history
<1>9. ASSUME NEW f \in Path, Swap(f) PROVE TypeOK'
  <2>1. FetchedFile(f) \in Index \cup {0}
    BY DEF FetchedFile
  <2>2. CASE swapped \cup {f} = Staged
    BY <1>9, <2>1, <2>2 DEF Swap, Return
  <2>3. CASE swapped \cup {f} # Staged
    BY <1>9, <2>1, <2>3 DEF Swap, got, history
  <2> QED
    BY <2>2, <2>3
<1>10. CASE UNCHANGED vars
  BY <1>10 DEF vars, got, history
<1> QED
  BY <1>1, <1>2, <1>3, <1>4, <1>5, <1>6, <1>7, <1>8, <1>9, <1>10 DEF Next, Proceed

(* An empty output directory satisfies the three invariants. *)
LEMMA InitInv == Init => IInv /\ FloorInv /\ HighestInv
  BY PathTypes, HistoryTypes DEF Init, IInv, TypeOK, FetchInv, CommitInv, NeverMixes, IntactInv,
     Whole, Committing, FloorInv, HighestInv

-----------------------------------------------------------------------------
(* The commit, file by file. *)
LEMMA StagedIs ==
  /\ Timestamp \in Staged /\ <<"snapshot", SnapshotVersion(ts)>> \in Staged
  /\ <<"targets", TargetsVersion(snap)>> \in Staged
  BY DEF Staged

(* The commit moves a file it is about to replace out of the way. *)
LEMMA BackupStep ==
  ASSUME IInv, NEW f \in Path, Backup(f)
  PROVE  IInv'
<1>1. TypeOK'
  BY TypeStep DEF IInv, Next, Proceed
<1>2. /\ pc = "backup" /\ f \in Staged \ moved /\ out' = [out EXCEPT ![f] = 0]
      /\ moved' = moved \cup {f} /\ pc' = IF moved' = Staged THEN "swap" ELSE "backup"
      /\ UNCHANGED <<ts, snap, tgt, swapped, killed>>
  BY DEF Backup, got, history
<1>3. \A g \in Path : out'[g] = IF g = f THEN 0 ELSE out[g]
  BY <1>2 DEF IInv, TypeOK
<1>4. Staged' = Staged /\ Staged # {}
  BY <1>2, StagedIs DEF Staged
<1>5. FetchInv'
  BY <1>2 DEF IInv, FetchInv, Committing
<1>6. /\ swapped = {} /\ moved \subseteq Staged /\ \A g \in moved : out[g] = 0 /\ moved \subseteq Path
  BY <1>2 DEF IInv, CommitInv, TypeOK
<1>7. moved' \subseteq Staged /\ \A g \in moved' : out'[g] = 0
  BY <1>2, <1>3, <1>6
<1>8. CommitInv'
  BY <1>2, <1>4, <1>6, <1>7 DEF CommitInv, Committing
<1>9. NeverMixes'
  <2> SUFFICES ASSUME out'[Timestamp] # 0,
                      out'[<<"snapshot", SnapshotVersion(out'[Timestamp])>>] # 0
               PROVE  LET i == out'[Timestamp]
                          j == out'[<<"snapshot", SnapshotVersion(i)>>]
                          k == out'[<<"targets", TargetsVersion(j)>>]
                      IN /\ History[j].snapshot = History[i].snapshot
                         /\ k # 0 => History[k].targets = History[j].targets
    BY DEF NeverMixes, SnapshotVersion, TargetsVersion
  <2> DEFINE i == out[Timestamp]
             j == out[<<"snapshot", SnapshotVersion(i)>>]
             k == out[<<"targets", TargetsVersion(j)>>]
  <2>1. i # 0 /\ i \in Index /\ out'[Timestamp] = i
    BY <1>3, PathTypes DEF IInv, TypeOK
  <2>2. <<"snapshot", SnapshotVersion(i)>> \in Path
    BY <2>1, HistoryTypes, PathTypes
  <2>3. j # 0 /\ j \in Index /\ out'[<<"snapshot", SnapshotVersion(i)>>] = j
    BY <1>3, <2>1, <2>2 DEF IInv, TypeOK
  <2>4. <<"targets", TargetsVersion(j)>> \in Path
    BY <2>3, HistoryTypes, PathTypes
  <2>5. out'[<<"targets", TargetsVersion(j)>>] \in {0, k}
    BY <1>3, <2>4
  <2>6. History[j].snapshot = History[i].snapshot
        /\ (k # 0 => History[k].targets = History[j].targets)
    BY <2>1, <2>3 DEF IInv, NeverMixes
  <2> HIDE DEF i, j, k
  <2> QED
    BY <2>1, <2>3, <2>5, <2>6
<1>10. IntactInv'
  BY <1>2 DEF IntactInv, Committing
<1> QED
  BY <1>1, <1>5, <1>8, <1>9, <1>10 DEF IInv

(* What stands under the three names when a file has been put in place,    *)
(* and when it was the last.                                               *)
LEMMA SwapFiles ==
  ASSUME IInv, NEW f \in Path, Swap(f)
  PROVE  /\ out'[Timestamp] \in {0, ts}
         /\ out'[<<"snapshot", SnapshotVersion(ts)>>] \in {0, snap}
         /\ out'[<<"targets", TargetsVersion(snap)>>] \in {0, tgt}
         /\ swapped \cup {f} = Staged =>
              /\ out'[Timestamp] = ts
              /\ out'[<<"snapshot", SnapshotVersion(ts)>>] = snap
              /\ out'[<<"targets", TargetsVersion(snap)>>] = tgt
         /\ \A g \in Path : out'[g] = IF g = f THEN FetchedFile(f) ELSE out[g]
         /\ \A g \in Staged :
              out'[g] = IF g \in swapped \cup {f} THEN FetchedFile(g) ELSE 0
         /\ ts \in Index /\ snap \in Index /\ tgt \in Index
         /\ History[snap].snapshot = History[ts].snapshot
         /\ History[tgt].targets = History[snap].targets
<1>1. pc = "swap" /\ f \in Staged \ swapped /\ out' = [out EXCEPT ![f] = FetchedFile(f)]
  BY DEF Swap
<1>2. ts \in Index /\ snap \in Index /\ tgt \in Index
  BY <1>1 DEF IInv, TypeOK
<1>3. \A g \in Path : out'[g] = IF g = f THEN FetchedFile(f) ELSE out[g]
  BY <1>1 DEF IInv, TypeOK
<1>4. Staged \subseteq Path
  BY <1>2, HistoryTypes, PathTypes DEF Staged
<1>5. \A g \in Staged : out[g] = IF g \in swapped THEN FetchedFile(g) ELSE 0
  BY <1>1 DEF IInv, CommitInv
<1>6. \A g \in Staged : out'[g] = IF g \in swapped \cup {f} THEN FetchedFile(g) ELSE 0
  BY <1>1, <1>3, <1>4, <1>5
<1>7. /\ History[snap].snapshot = History[ts].snapshot
      /\ History[tgt].targets = History[snap].targets
  BY <1>1 DEF IInv, FetchInv, Committing
<1> QED
  BY <1>2, <1>3, <1>6, <1>7, StagedIs, Files

(* The commit puts a fetched file under its name; the last one makes the   *)
(* chain whole.                                                            *)
LEMMA SwapStep ==
  ASSUME IInv, NEW f \in Path, Swap(f)
  PROVE  IInv'
<1>0. TypeOK'
  BY TypeStep DEF IInv, Next, Proceed
<1>1. /\ pc = "swap" /\ f \in Staged \ swapped
      /\ IF swapped \cup {f} = Staged
         THEN Return /\ accepted' = ts /\ killed' = FALSE
         ELSE swapped' = swapped \cup {f} /\ UNCHANGED <<pc, ts, snap, tgt, moved, killed>>
  BY DEF Swap, got, history
<1>2. swapped \subseteq Staged
  BY <1>1 DEF IInv, CommitInv
<1>3. FetchInv'
  BY <1>1 DEF IInv, FetchInv, Committing, Return
<1>4. CommitInv'
  <2>1. CASE swapped \cup {f} = Staged
    BY <1>1, <2>1 DEF CommitInv, Committing, Return
  <2>2. CASE swapped \cup {f} # Staged
    <3>1. Staged' = Staged /\ \A g \in Staged : FetchedFile(g)' = FetchedFile(g)
      BY <1>1, <2>2 DEF Staged, FetchedFile
    <3>2. /\ pc' = "swap" /\ swapped' = swapped \cup {f} /\ swapped' \subseteq Staged
          /\ \A g \in Staged : out'[g] = IF g \in swapped' THEN FetchedFile(g) ELSE 0
      BY <1>1, <1>2, <2>2, SwapFiles
    <3> QED
      BY <2>2, <3>1, <3>2 DEF CommitInv, Committing
  <2> QED
    BY <2>1, <2>2
<1>5. snap # 0 /\ SnapshotVersion(snap) = SnapshotVersion(ts)
  BY <1>1 DEF IInv, TypeOK, FetchInv
<1>6. NeverMixes'
  <2> SUFFICES ASSUME out'[Timestamp] # 0,
                      out'[<<"snapshot", SnapshotVersion(out'[Timestamp])>>] # 0
               PROVE  LET i == out'[Timestamp]
                          j == out'[<<"snapshot", SnapshotVersion(i)>>]
                          k == out'[<<"targets", TargetsVersion(j)>>]
                      IN /\ History[j].snapshot = History[i].snapshot
                         /\ k # 0 => History[k].targets = History[j].targets
    BY DEF NeverMixes, SnapshotVersion, TargetsVersion
  <2>1. out'[Timestamp] = ts
    BY SwapFiles
  <2>2. out'[<<"snapshot", SnapshotVersion(ts)>>] = snap
    BY <2>1, SwapFiles
  <2> QED
    BY <2>1, <2>2, SwapFiles
<1>7. IntactInv'
  <2>1. CASE swapped \cup {f} = Staged
    <3>1. /\ out'[Timestamp] = ts
          /\ out'[<<"snapshot", SnapshotVersion(ts)>>] = snap
          /\ out'[<<"targets", TargetsVersion(snap)>>] = tgt
          /\ History[snap].snapshot = History[ts].snapshot
          /\ History[tgt].targets = History[snap].targets
          /\ snap # 0 /\ tgt # 0
      BY <2>1, SwapFiles, HistoryTypes
    <3> QED
      BY <3>1 DEF IntactInv, Whole, SnapshotVersion, TargetsVersion
  <2>2. CASE swapped \cup {f} # Staged
    BY <1>1, <2>2 DEF IntactInv, Committing
  <2> QED
    BY <2>1, <2>2
<1> QED
  BY <1>0, <1>3, <1>4, <1>6, <1>7 DEF IInv

-----------------------------------------------------------------------------
(* Verification: when versions tell timestamps apart, the chain that is    *)
(* committed is the one that was verified.                                 *)
LEMMA VerifiedChain ==
  ASSUME TimestampsNumbered, TypeOK, pc = "verify", Verified
  PROVE  /\ History[snap].snapshot = History[ts].snapshot
         /\ History[tgt].targets = History[snap].targets
<1>1. PriorTimestamp \in Index \cup {0} /\ ts \in Index
  BY PathTypes DEF TypeOK, PriorTimestamp
<1>2. SameVersion => History[ts].ts = History[PriorTimestamp].ts
  BY <1>1 DEF SameVersion, TimestampsNumbered
<1>3. SameVersion => History[ts].snapshot = History[PriorTimestamp].snapshot
  BY <1>1, <1>2, ChainAssumption DEF SameVersion
<1>4. History[TrustedTimestamp].snapshot = History[ts].snapshot
  BY <1>3 DEF TrustedTimestamp
<1> QED
  BY <1>4 DEF Verified, SnapshotAccepted, TargetsAccepted

(* What is committed and left behind is one chain, whatever the mirror     *)
(* does between two requests.                                              *)
LEMMA StepInv == ASSUME TimestampsNumbered, IInv, [Next]_vars PROVE IInv'
<1>0. TypeOK'
  BY TypeStep DEF IInv
<1>1. ASSUME UNCHANGED <<out, killed>>, ~Committing, FetchInv',
             pc' # "swap", pc' = "backup" => moved' = {} /\ swapped' = {},
             ~Committing' => moved' = {} /\ swapped' = {}
      PROVE  IInv'
  <2>1. NeverMixes' /\ IntactInv'
    BY <1>1 DEF IInv, NeverMixes, IntactInv, Whole, SnapshotVersion, TargetsVersion
  <2>2. CommitInv'
    <3>1. Staged' # {}
      BY DEF Staged
    <3> QED
      BY <1>1, <3>1 DEF CommitInv, Committing
  <2> QED
    BY <1>0, <1>1, <2>1, <2>2 DEF IInv
<1>2. CASE MirrorMoves
  <2>1. UNCHANGED <<out, pc, ts, snap, tgt, moved, swapped, killed>>
    BY <1>2 DEF MirrorMoves, got, history
  <2>2. FetchInv' /\ CommitInv' /\ NeverMixes' /\ IntactInv'
    BY <2>1 DEF IInv, FetchInv, CommitInv, NeverMixes, IntactInv, Whole, Committing, Staged,
                FetchedFile, SnapshotVersion, TargetsVersion
  <2> QED
    BY <1>0, <2>2 DEF IInv
<1>3. CASE FetchTimestamp
  BY <1>1, <1>3 DEF FetchTimestamp, history, IInv, FetchInv, CommitInv, Committing
<1>4. CASE FetchSnapshot
  <2> DEFINE i == SnapshotServed(SnapshotVersion(ts))
  <2>1. i # 0 => SnapshotVersion(i) = SnapshotVersion(ts)
    BY ServedTypes DEF IInv, TypeOK
  <2> HIDE DEF i
  <2>2. /\ pc = "snapshot" /\ UNCHANGED <<out, killed>>
        /\ IF i = 0 THEN Return
           ELSE pc' = "targets" /\ snap' = i /\ UNCHANGED <<ts, tgt, moved, swapped>>
    BY <1>4 DEF FetchSnapshot, i, history
  <2>3. CASE i = 0
    BY <1>1, <2>2, <2>3 DEF Return, FetchInv, Committing
  <2>4. CASE i # 0
    <3>1. SnapshotVersion(snap') = SnapshotVersion(ts')
      BY <2>1, <2>2, <2>4
    <3> QED
      BY <1>1, <2>2, <2>4, <3>1 DEF IInv, FetchInv, CommitInv, Committing
  <2> QED
    BY <2>3, <2>4
<1>5. CASE FetchTargets
  <2> DEFINE i == TargetsServed(TargetsVersion(snap))
  <2>1. i # 0 => TargetsVersion(i) = TargetsVersion(snap)
    BY ServedTypes DEF IInv, TypeOK
  <2> HIDE DEF i
  <2>2. /\ pc = "targets" /\ UNCHANGED <<out, killed>>
        /\ IF i = 0 THEN Return
           ELSE pc' = "verify" /\ tgt' = i /\ UNCHANGED <<ts, snap, moved, swapped>>
    BY <1>5 DEF FetchTargets, i, history
  <2>3. CASE i = 0
    BY <1>1, <2>2, <2>3 DEF Return, FetchInv, Committing
  <2>4. CASE i # 0
    <3>1. SnapshotVersion(snap') = SnapshotVersion(ts') /\ TargetsVersion(tgt') = TargetsVersion(snap')
      BY <2>1, <2>2, <2>4 DEF IInv, FetchInv
    <3> QED
      BY <1>1, <2>2, <2>4, <3>1 DEF IInv, FetchInv, CommitInv, Committing
  <2> QED
    BY <2>3, <2>4
<1>6. CASE Verify
  <2>1. pc = "verify" /\ UNCHANGED <<out, killed>>
    BY <1>6 DEF Verify, history
  <2>2. CASE Verified
    <3>1. pc' = "backup" /\ UNCHANGED <<ts, snap, tgt, moved, swapped>>
      BY <1>6, <2>2 DEF Verify, local, got
    <3>2. /\ History[snap].snapshot = History[ts].snapshot
          /\ History[tgt].targets = History[snap].targets
      BY <2>1, <2>2, VerifiedChain DEF IInv
    <3> QED
      BY <1>1, <2>1, <3>1, <3>2 DEF IInv, FetchInv, CommitInv, Committing
  <2>3. CASE ~Verified
    BY <1>1, <1>6, <2>1, <2>3 DEF Verify, Return, FetchInv, Committing
  <2> QED
    BY <2>2, <2>3
<1>7. CASE GiveUp
  BY <1>1, <1>7 DEF GiveUp, Return, history, FetchInv, Committing
<1>8. CASE Crash
  <2>1. Return /\ UNCHANGED out /\ killed' = (killed \/ pc \in {"backup", "swap"})
    BY <1>8 DEF Crash
  <2>2. CASE Committing
    <3>1. killed' = TRUE
      BY <2>1, <2>2 DEF Committing
    <3>2. FetchInv' /\ CommitInv'
      BY <2>1 DEF Return, FetchInv, CommitInv, Committing
    <3>3. NeverMixes' /\ IntactInv'
      BY <2>1, <3>1 DEF IInv, NeverMixes, IntactInv, SnapshotVersion, TargetsVersion
    <3> QED
      BY <1>0, <3>2, <3>3 DEF IInv
  <2>3. CASE ~Committing
    <3>1. UNCHANGED killed
      BY <2>1, <2>3 DEF Committing, IInv, TypeOK
    <3> QED
      BY <1>1, <2>1, <2>3, <3>1 DEF Return, FetchInv, Committing
  <2> QED
    BY <2>2, <2>3
<1>9. CASE UNCHANGED vars
  BY <1>9, <1>0 DEF vars, got, history, IInv, FetchInv, CommitInv, NeverMixes, IntactInv, Whole,
     Committing, Staged, FetchedFile, SnapshotVersion, TargetsVersion
<1> QED
  BY <1>2, <1>3, <1>4, <1>5, <1>6, <1>7, <1>8, <1>9, BackupStep, SwapStep DEF Next, Proceed

-----------------------------------------------------------------------------
(* A run that leaves the directory alone, or dies or gives up, leaves the  *)
(* chain that was accepted.                                                *)
LEMMA VerifiedForward ==
  ASSUME IInv, FloorInv, pc = "verify", Verified, ~killed, accepted # 0
  PROVE  /\ History[ts].ts.version >= History[accepted].ts.version
         /\ SnapshotVersion(ts) >= SnapshotVersion(accepted)
<1>1. PriorTimestamp = accepted /\ accepted \in Index /\ ts \in Index
  BY DEF FloorInv, Committing, PriorTimestamp, IInv, TypeOK
<1>2. CASE SameVersion
  <2>1. History[snap].snapshot = History[accepted].snapshot
    BY <1>1, <1>2 DEF Verified, SnapshotAccepted, TrustedTimestamp
  <2>2. SnapshotVersion(ts) = SnapshotVersion(accepted)
    BY <2>1 DEF IInv, FetchInv, SnapshotVersion
  <2> QED
    BY <1>1, <1>2, <2>2, HistoryTypes DEF SameVersion
<1>3. CASE ~SameVersion
  BY <1>1, <1>3, HistoryTypes DEF Verified, TimestampAccepted
<1> QED
  BY <1>2, <1>3

(* While no commit was killed, timestamp.json is that of the chain         *)
(* accepted last.                                                          *)
LEMMA FloorStep == ASSUME IInv, FloorInv, [Next]_vars PROVE FloorInv'
<1>1. ASSUME UNCHANGED <<out, accepted>>, killed' = killed, ~Committing, ~Committing'
      PROVE  FloorInv'
  BY <1>1 DEF FloorInv
<1>2. CASE MirrorMoves \/ UNCHANGED vars
  BY <1>2 DEF MirrorMoves, got, history, vars, FloorInv, Committing, SnapshotVersion
<1>3. CASE FetchTimestamp \/ FetchSnapshot \/ FetchTargets \/ GiveUp
  BY <1>1, <1>3 DEF FetchTimestamp, FetchSnapshot, FetchTargets, GiveUp, Return, history, Committing
<1>4. CASE Verify
  <2>1. pc = "verify" /\ UNCHANGED <<out, accepted, killed>>
    BY <1>4 DEF Verify, history
  <2>2. CASE Verified
    <3>1. pc' = "backup" /\ UNCHANGED ts
      BY <1>4, <2>2 DEF Verify, local, got
    <3> QED
      BY <2>1, <2>2, <3>1, VerifiedForward DEF FloorInv, Committing, SnapshotVersion
  <2>3. CASE ~Verified
    BY <1>1, <1>4, <2>1, <2>3 DEF Verify, Return, Committing
  <2> QED
    BY <2>2, <2>3
<1>5. CASE Crash
  <2>1. Return /\ UNCHANGED <<out, accepted>> /\ killed' = (killed \/ pc \in {"backup", "swap"})
    BY <1>5 DEF Crash
  <2>2. CASE Committing
    BY <2>1, <2>2 DEF Committing, FloorInv
  <2>3. CASE ~Committing
    BY <1>1, <2>1, <2>3 DEF Committing, Return, IInv, TypeOK
  <2> QED
    BY <2>2, <2>3
<1>6. ASSUME NEW f \in Path, Backup(f) PROVE FloorInv'
  BY <1>6 DEF Backup, got, history, FloorInv, Committing, SnapshotVersion
<1>7. ASSUME NEW f \in Path, Swap(f) PROVE FloorInv'
  <2>1. CASE swapped \cup {f} = Staged
    <3>1. out'[Timestamp] = ts /\ accepted' = ts /\ pc' = "idle"
      BY <1>7, <2>1, SwapFiles DEF Swap, Return
    <3> QED
      BY <3>1 DEF FloorInv, Committing
  <2>2. CASE swapped \cup {f} # Staged
    BY <1>7, <2>2 DEF Swap, got, history, FloorInv, Committing, SnapshotVersion
  <2> QED
    BY <2>1, <2>2
<1> QED
  BY <1>2, <1>3, <1>4, <1>5, <1>6, <1>7 DEF Next, Proceed

(* Another chain is accepted only when the last of its files is in place.  *)
LEMMA Accepts ==
  ASSUME IInv, [Next]_vars, accepted' # accepted
  PROVE  /\ accepted' = ts /\ Committing /\ ts \in Index
<1>1. ASSUME NEW f \in Path, Swap(f) PROVE accepted' = ts /\ pc = "swap"
  BY <1>1 DEF Swap, history
<1>2. \E f \in Path : Swap(f)
  BY DEF Next, Proceed, MirrorMoves, FetchTimestamp, FetchSnapshot, FetchTargets, GiveUp, Verify,
         Crash, Backup, history, vars
<1> QED
  BY <1>1, <1>2 DEF Committing, IInv, TypeOK

(* For a publisher that never goes back, the order of the timestamps is    *)
(* that of the chains.                                                     *)
LEMMA NeverBackNumbers == NeverBack => TimestampsNumbered
<1> SUFFICES ASSUME NeverBack, NEW i \in Index, NEW j \in Index,
                    History[i].ts.version = History[j].ts.version
             PROVE  i = j
  BY DEF TimestampsNumbered
<1>1. ~(i < j) /\ ~(j < i)
  BY HistoryTypes DEF NeverBack
<1> QED
  BY <1>1, HistoryTypes

(* A run accepts nothing older than its floor, if the publisher never      *)
(* goes back.                                                              *)
LEMMA ForwardStep ==
  ASSUME NeverBack, IInv, FloorInv, [Next]_vars, ~killed
  PROVE  Forward
<1> SUFFICES ASSUME accepted # 0, accepted' # accepted
             PROVE  /\ History[accepted'].ts.version >= History[accepted].ts.version
                    /\ SnapshotVersion(accepted') >= SnapshotVersion(accepted)
                    /\ TargetsVersion(accepted') >= TargetsVersion(accepted)
  BY DEF Forward, SnapshotVersion, TargetsVersion
<1>1. accepted' = ts /\ ts \in Index /\ accepted \in Index
  BY Accepts DEF IInv, TypeOK
<1>2. History[ts].ts.version >= History[accepted].ts.version
  BY Accepts DEF FloorInv
<1>3. accepted < ts \/ accepted = ts
  BY <1>1, <1>2, HistoryTypes DEF NeverBack
<1>4. /\ SnapshotVersion(accepted) <= SnapshotVersion(ts)
      /\ TargetsVersion(accepted) <= TargetsVersion(ts)
  BY <1>1, <1>3, HistoryTypes DEF NeverBack
<1> QED
  BY <1>1, <1>2, <1>4, HistoryTypes

-----------------------------------------------------------------------------
(* The floor that a run takes from the directory, when no process has died *)
(* in a commit: the snapshot of the chain accepted last.                   *)
LEMMA PriorSnapshotIs ==
  ASSUME IInv, FloorInv, HighestInv, ~Committing, accepted # 0
  PROVE  /\ PriorSnapshot \in Index
         /\ History[PriorSnapshot].snapshot = History[accepted].snapshot
<1> DEFINE vs == {v \in Version : out[<<"snapshot", v>>] # 0}
           top == SnapshotVersion(accepted)
<1>1. accepted \in Index /\ out[Timestamp] = accepted
  BY DEF IInv, TypeOK, FloorInv, HighestInv
<1>2. /\ out[<<"snapshot", top>>] # 0
      /\ History[out[<<"snapshot", top>>]].snapshot = History[accepted].snapshot
  BY <1>1 DEF IInv, IntactInv, Whole, HighestInv
<1>3. top \in Version /\ top \in vs /\ \A w \in vs : w <= top
  BY <1>1, <1>2, HistoryTypes DEF HighestInv
<1>4. out[<<"snapshot", top>>] \in Index
  BY <1>2, <1>3, PathTypes DEF IInv, TypeOK
<1>5. \A u \in vs : (\A w \in vs : w <= u) => u = top
  <2>1. \A u \in vs : u \in Int
    BY DEF Version
  <2> HIDE DEF vs, top
  <2> QED
    BY <1>3, <2>1
<1>6. PriorSnapshot = out[<<"snapshot", CHOOSE v \in vs : \A w \in vs : w <= v>>]
  BY <1>3 DEF PriorSnapshot
<1>7. (CHOOSE v \in vs : \A w \in vs : w <= v) = top
  <2> HIDE DEF vs, top
  <2> QED
    BY <1>3, <1>5
<1> QED
  BY <1>2, <1>4, <1>6, <1>7

(* Without deaths no snapshot in the directory is newer than the chain     *)
(* accepted last.                                                          *)
LEMMA HighestStep ==
  ASSUME TimestampsNumbered, ~Crashes, IInv, FloorInv, HighestInv, [Next]_vars
  PROVE  HighestInv'
<1>0. accepted \in Index \cup {0}
  BY DEF IInv, TypeOK
<1>1. ASSUME UNCHANGED <<out, accepted>>, killed' = killed, ~Committing, ~Committing'
      PROVE  HighestInv'
  BY <1>1 DEF HighestInv, SnapshotVersion
<1>2. CASE MirrorMoves \/ UNCHANGED vars
  BY <1>2 DEF MirrorMoves, got, history, vars, HighestInv, Committing, SnapshotVersion, TargetsVersion
<1>3. CASE FetchTimestamp \/ FetchSnapshot \/ FetchTargets \/ GiveUp
  BY <1>1, <1>3 DEF FetchTimestamp, FetchSnapshot, FetchTargets, GiveUp, Return, history, Committing
<1>4. CASE Verify
  <2>1. pc = "verify" /\ UNCHANGED <<out, accepted, killed>>
    BY <1>4 DEF Verify, history
  <2>2. CASE Verified
    <3>1. pc' = "backup" /\ UNCHANGED ts /\ ts \in Index /\ snap \in Index
      BY <1>4, <2>1, <2>2 DEF Verify, local, got, IInv, TypeOK
    <3>2. \A v \in Version : out[<<"snapshot", v>>] # 0 => v <= SnapshotVersion(ts)
      <4> SUFFICES ASSUME NEW v \in Version, out[<<"snapshot", v>>] # 0
                   PROVE  v <= SnapshotVersion(ts)
        OBVIOUS
      <4>1. accepted # 0 /\ v <= SnapshotVersion(accepted) /\ ~killed
        BY <2>1 DEF HighestInv, Committing
      <4>2. SnapshotVersion(ts) >= SnapshotVersion(accepted)
        BY <2>1, <2>2, <4>1, VerifiedForward
      <4> QED
        BY <1>0, <3>1, <4>1, <4>2, HistoryTypes DEF Version
    <3>3. ASSUME accepted # 0 PROVE TargetsVersion(ts) >= TargetsVersion(accepted)
      <4>1. /\ PriorSnapshot \in Index
            /\ History[PriorSnapshot].snapshot = History[accepted].snapshot
        BY <2>1, <3>3, PriorSnapshotIs DEF Committing
      <4>2. TargetsVersion(PriorSnapshot) = TargetsVersion(accepted)
        BY <1>0, <3>3, <4>1, ChainAssumption DEF TargetsVersion
      <4>3. TargetsVersion(snap) >= TargetsVersion(PriorSnapshot)
        BY <2>2, <4>1, HistoryTypes DEF Verified, SnapshotAccepted
      <4>4. TargetsVersion(snap) = TargetsVersion(ts)
        <5>1. History[snap].snapshot = History[ts].snapshot
          BY <2>1, <2>2, VerifiedChain DEF IInv
        <5> QED
          BY <3>1, <5>1, ChainAssumption DEF TargetsVersion
      <4> QED
        BY <4>2, <4>3, <4>4
    <3> QED
      BY <2>1, <3>1, <3>2, <3>3 DEF HighestInv, Committing, SnapshotVersion, TargetsVersion
  <2>3. CASE ~Verified
    BY <1>1, <1>4, <2>1, <2>3 DEF Verify, Return, Committing
  <2> QED
    BY <2>2, <2>3
<1>5. ~Crash
  BY DEF Crash
<1>6. ASSUME NEW f \in Path, Backup(f) PROVE HighestInv'
  <2>1. /\ Committing /\ Committing' /\ out' = [out EXCEPT ![f] = 0]
        /\ UNCHANGED <<ts, accepted, killed>>
    BY <1>6 DEF Backup, got, history, Committing
  <2>2. \A v \in Version : out'[<<"snapshot", v>>] # 0 => out[<<"snapshot", v>>] # 0
    BY <2>1, PathTypes DEF IInv, TypeOK
  <2> QED
    BY <2>1, <2>2 DEF HighestInv, SnapshotVersion, TargetsVersion
<1>7. ASSUME NEW f \in Path, Swap(f) PROVE HighestInv'
  <2>1. Committing /\ f \in Staged /\ ts \in Index
    BY <1>7, SwapFiles DEF Swap, Committing
  <2>2. \A v \in Version : out'[<<"snapshot", v>>] # 0 => v <= SnapshotVersion(ts)
    <3> SUFFICES ASSUME NEW v \in Version, out'[<<"snapshot", v>>] # 0
                 PROVE  v <= SnapshotVersion(ts)
      OBVIOUS
    <3>1. CASE f = <<"snapshot", v>>
      <4>1. v = SnapshotVersion(ts)
        BY <2>1, <3>1, PathTypes DEF Staged
      <4> QED
        BY <2>1, <4>1, HistoryTypes
    <3>2. CASE f # <<"snapshot", v>>
      <4>1. out'[<<"snapshot", v>>] = out[<<"snapshot", v>>]
        BY <1>7, <3>2, SwapFiles, PathTypes
      <4> QED
        BY <2>1, <4>1 DEF HighestInv
    <3> QED
      BY <3>1, <3>2
  <2>3. CASE swapped \cup {f} = Staged
    <3>1. accepted' = ts /\ pc' = "idle" /\ killed' = FALSE /\ ts # 0
      BY <1>7, <2>1, <2>3, HistoryTypes DEF Swap, Return
    <3> QED
      BY <2>2, <3>1 DEF HighestInv, Committing, SnapshotVersion
  <2>4. CASE swapped \cup {f} # Staged
    <3>1. pc' = pc /\ UNCHANGED <<ts, accepted, killed>>
      BY <1>7, <2>4 DEF Swap, got, history
    <3> QED
      BY <2>1, <2>2, <3>1 DEF HighestInv, Committing, SnapshotVersion, TargetsVersion
  <2> QED
    BY <2>3, <2>4
<1> QED
  BY <1>2, <1>3, <1>4, <1>5, <1>6, <1>7 DEF Next, Proceed

(* Then a run accepts nothing older, whatever the mirror's history is. *)
LEMMA AloneForwardStep ==
  ASSUME IInv, FloorInv, HighestInv, [Next]_vars
  PROVE  Forward
<1> SUFFICES ASSUME accepted # 0, accepted' # accepted
             PROVE  /\ History[accepted'].ts.version >= History[accepted].ts.version
                    /\ SnapshotVersion(accepted') >= SnapshotVersion(accepted)
                    /\ TargetsVersion(accepted') >= TargetsVersion(accepted)
  BY DEF Forward, SnapshotVersion, TargetsVersion
<1> QED
  BY Accepts DEF FloorInv, HighestInv

-----------------------------------------------------------------------------
(* The variables keep their types, whatever the mirror serves. *)
THEOREM ChainTypes == Spec => []TypeOK
<1>1. TypeOK /\ [Next]_vars => TypeOK'
  BY TypeStep
<1>2. Init => TypeOK
  BY InitInv DEF IInv
<1> QED
  BY <1>1, <1>2, PTL DEF Spec

(* The chain that fetching runs leave in the output directory is one of    *)
(* which each file records the hash of the next, as long as no process     *)
(* died in its commit; the versions of the publisher's timestamps tell     *)
(* them apart.                                                             *)
THEOREM LocalChainStaysIntact == TimestampsNumbered => (Spec => []LocalChainIntact)
<1> SUFFICES ASSUME TimestampsNumbered PROVE Spec => []LocalChainIntact
  OBVIOUS
<1>1. IInv /\ [Next]_vars => IInv'
  BY StepInv
<1>2. IInv => LocalChainIntact
  BY DEF IInv, IntactInv, Whole, LocalChainIntact, Committing
<1>3. Init => IInv
  BY InitInv
<1> QED
  BY <1>1, <1>2, <1>3, PTL DEF Spec

(* Wherever processes die, no file of another chain stands under a name    *)
(* that timestamp.json leads to.                                           *)
THEOREM CommitsNeverMix == TimestampsNumbered => (Spec => []NeverMixes)
<1> SUFFICES ASSUME TimestampsNumbered PROVE Spec => []NeverMixes
  OBVIOUS
<1>1. IInv /\ [Next]_vars => IInv'
  BY StepInv
<1>2. IInv => NeverMixes
  BY DEF IInv
<1>3. Init => IInv
  BY InitInv
<1> QED
  BY <1>1, <1>2, <1>3, PTL DEF Spec

(* The chain of a publisher that never goes back does not go back in the   *)
(* output directory either, unless a process died in a commit, however     *)
(* often the mirror falls behind.                                          *)
THEOREM RunsGoForward == NeverBack => (Spec => RollsBackOnlyWhenKilled)
<1> SUFFICES ASSUME NeverBack PROVE Spec => RollsBackOnlyWhenKilled
  OBVIOUS
<1>0. TimestampsNumbered
  BY NeverBackNumbers
<1> DEFINE Inv == IInv /\ FloorInv
<1>1. Inv /\ [Next]_vars => Inv'
  BY <1>0, StepInv, FloorStep
<1>2. Inv /\ [Next]_vars => [~killed => Forward]_vars
  BY ForwardStep
<1>3. Init => Inv
  BY InitInv
<1> HIDE DEF Inv
<1> QED
  BY <1>1, <1>2, <1>3, PTL DEF Spec, RollsBackOnlyWhenKilled

(* While no process dies, versions do not go back in the output directory  *)
(* even if they do at the publisher: the floor refuses it.                 *)
THEOREM FloorHolds == TimestampsNumbered /\ ~Crashes => (Spec => RollsBackOnlyWhenKilled)
<1> SUFFICES ASSUME TimestampsNumbered, ~Crashes PROVE Spec => RollsBackOnlyWhenKilled
  OBVIOUS
<1> DEFINE Inv == IInv /\ FloorInv /\ HighestInv
<1>1. Inv /\ [Next]_vars => Inv'
  BY StepInv, FloorStep, HighestStep
<1>2. Inv /\ [Next]_vars => [~killed => Forward]_vars
  BY AloneForwardStep
<1>3. Init => Inv
  BY InitInv
<1> HIDE DEF Inv
<1> QED
  BY <1>1, <1>2, <1>3, PTL DEF Spec, RollsBackOnlyWhenKilled
=============================================================================
