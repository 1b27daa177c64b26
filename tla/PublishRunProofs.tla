--------------------------- MODULE PublishRunProofs ---------------------------
(***************************************************************************)
(* A run that publishes, for any tree of sources, any list of keys and any *)
(* root.json: what is copied is what was hashed, roles are signed by the   *)
(* threshold, whatever was acquired is given back on every path, and the   *)
(* walk of the tree finds every file.  That runs end is left to TLC.       *)
(***************************************************************************)
EXTENDS PublishRun, FiniteSetTheorems, FunctionTheorems, TLAPS

(* The staged copies, and the digests and copies made of them so far. *)
Prefix(s, t) == Len(s) <= Len(t) /\ \A i \in 1 .. Len(s) : s[i] = t[i]

StageInv ==
  /\ scan \in {"walk", "stage", "scanned", "returned"} /\ edition \in Nat
  /\ staged \in Seq(Nat) /\ targets \in Seq(Nat) /\ copies \in Seq(Nat)
  /\ Prefix(targets, staged) /\ Len(staged) <= Len(targets) + 1
  /\ Prefix(copies, targets)
  /\ scan # "scanned" => copies = <<>>
  /\ scan = "walk" => staged = <<>> /\ targets = <<>>
  /\ scan = "returned" => ~stageDir

(* The signers that are open, and the root that the roles are signed for. *)
SignType ==
  /\ sign \in {"off", "load", "card", "close", "returned"} \cup Role
  /\ transfer \in BOOLEAN
  /\ given \in Seq(Key) /\ entries \in Seq(Key)
  /\ root \in Roots \cup {NoRoot}
  /\ signed \subseteq Role
  /\ DOMAIN sigs = Role /\ sigs = [r \in Role |-> sigs[r]]

CardInv ==
  /\ card \in {0, 1}
  /\ card = IF sign = "card" THEN Handles + 1 ELSE Handles
  /\ sign \in {"off", "returned"} => entries = <<>>
  /\ sign = "card" => given # <<>> /\ Head(given).kind = "card"

RoleInv ==
  /\ sign \in Role \cup {"close"} => root \in Roots
  /\ sign \in {"off", "load", "card"} => signed = {}
  /\ sign \in Role /\ transfer => \A role \in Role : EnoughForTransfer(root, role)

SignInv == SignType /\ CardInv /\ RoleInv /\ SignedByThreshold

(* Where the two meet: keys are loaded once the copies are made. *)
IInv ==
  /\ StageInv /\ SignInv
  /\ scan \in {"walk", "stage"} => sign = "off"
  /\ scan = "returned" => sign \in {"off", "returned"}

(* What EndsClean promises of a run that has ended, at whatever step. *)
ReturnsClean == scan = "returned" => ~stageDir /\ card = 0

-----------------------------------------------------------------------------
(* Scanning, staging and copying. *)
LEMMA AppendPrefix ==
  ASSUME NEW s \in Seq(Nat), NEW t \in Seq(Nat), Prefix(s, t),
         Len(s) < Len(t), NEW x, x = t[Len(s) + 1]
  PROVE  Append(s, x) \in Seq(Nat) /\ Prefix(Append(s, x), t)
<1>1. t[Len(s) + 1] \in Nat
  OBVIOUS
<1>2. Append(s, x) \in Seq(Nat) /\ Len(Append(s, x)) = Len(s) + 1
  BY <1>1
<1>3. \A i \in 1 .. Len(s) + 1 : Append(s, x)[i] = IF i = Len(s) + 1 THEN x ELSE s[i]
  BY <1>1
<1> QED
  BY <1>2, <1>3 DEF Prefix

(* Scanning, and edits of the sources meanwhile, leave the staged copies   *)
(* as they were hashed.                                                    *)
LEMMA ScanStep ==
  ASSUME StageInv, ScanProceeds \/ ScanFails \/ EditSources, UNCHANGED copies
  PROVE  StageInv'
<1> USE DEF StageInv
<1>1. CASE Pass \/ Discover \/ Descend
  BY <1>1 DEF Pass, Discover, Descend, Walking, Prefix
<1>2. CASE Leave
  BY <1>2 DEF Leave, Prefix
<1>3. ASSUME Abandon, scan # "scanned" PROVE StageInv'
  BY <1>3 DEF Abandon, Prefix
<1>4. CASE LinkBroken \/ ScanFails
  BY <1>3, <1>4 DEF LinkBroken, ScanFails, Walking
<1>5. CASE StageFile
  <2>1. /\ scan = "stage" /\ staged' = Append(staged, edition) /\ Len(staged) = Len(targets)
        /\ UNCHANGED <<scan, edition, stageDir, targets>>
    BY <1>5 DEF StageFile
  <2>2. staged' \in Seq(Nat) /\ Len(staged') = Len(staged) + 1
        /\ \A i \in 1 .. Len(staged) : staged'[i] = staged[i]
    BY <2>1
  <2>3. Prefix(targets, staged')
    BY <2>1, <2>2 DEF Prefix
  <2> QED
    BY <2>1, <2>2, <2>3 DEF Prefix
<1>6. CASE HashFile
  <2>1. /\ scan = "stage" /\ targets' = Append(targets, staged[Len(staged)])
        /\ Len(targets) < Len(staged) /\ UNCHANGED <<scan, edition, stageDir, staged>>
    BY <1>6 DEF HashFile, Last
  <2>2. Len(staged) = Len(targets) + 1
    BY <2>1 DEF Prefix
  <2>3. targets' \in Seq(Nat) /\ Prefix(targets', staged)
    BY <2>1, <2>2, AppendPrefix
  <2>4. Len(targets') = Len(targets) + 1
    BY <2>1
  <2> QED
    BY <2>1, <2>2, <2>3, <2>4 DEF Prefix
<1>7. CASE ScanReturns
  BY <1>7 DEF ScanReturns, Prefix
<1>8. CASE EditSources
  BY <1>8 DEF EditSources, walk, Prefix
<1> QED
  BY <1>1, <1>2, <1>4, <1>5, <1>6, <1>7, <1>8 DEF ScanProceeds

(* What is copied into the repository is the next staged copy. *)
LEMMA CopyStep == ASSUME StageInv, CopyStaged PROVE StageInv'
<1>1. /\ scan = "scanned" /\ Len(copies) < Len(targets)
      /\ copies' = Append(copies, staged[Len(copies) + 1])
      /\ UNCHANGED <<scan, edition, staged, targets, stageDir>>
  BY DEF CopyStaged, scanVars
<1>2. staged[Len(copies) + 1] = targets[Len(copies) + 1]
  BY <1>1 DEF StageInv, Prefix
<1>3. copies' \in Seq(Nat) /\ Prefix(copies', targets)
  BY <1>1, <1>2, AppendPrefix DEF StageInv
<1> QED
  BY <1>1, <1>3 DEF StageInv, Prefix

-----------------------------------------------------------------------------
(* Loading keys: each card that is loaded is one more handle. *)
LEMMA HandlesAdd ==
  ASSUME entries \in Seq(Key), NEW k \in Key, entries' = Append(entries, k)
  PROVE  /\ entries' \in Seq(Key) /\ Handles \in Nat
         /\ Handles' = IF k.kind = "card" THEN Handles + 1 ELSE Handles
<1> DEFINE n == Len(entries)
           C == {i \in DOMAIN entries : entries[i].kind = "card"}
           D == {i \in DOMAIN entries' : entries'[i].kind = "card"}
<1>1. /\ n \in Nat /\ DOMAIN entries = 1 .. n /\ DOMAIN entries' = 1 .. n + 1
      /\ entries' \in Seq(Key)
      /\ \A i \in 1 .. n + 1 : entries'[i] = IF i = n + 1 THEN k ELSE entries[i]
  OBVIOUS
<1>2. IsFiniteSet(C) /\ Cardinality(C) \in Nat /\ n + 1 \notin C
  <2>1. IsFiniteSet(1 .. n) /\ C \subseteq 1 .. n
    BY <1>1, FS_Interval
  <2> QED
    BY <1>1, <2>1, FS_Subset, FS_CardinalityType
<1>3. D = IF k.kind = "card" THEN C \cup {n + 1} ELSE C
  BY <1>1
<1>4. Cardinality(D) = IF k.kind = "card" THEN Cardinality(C) + 1 ELSE Cardinality(C)
  <2> HIDE DEF C, D
  <2> QED
    BY <1>2, <1>3, FS_AddElement
<1> QED
  BY <1>1, <1>2, <1>4 DEF Handles

(* The number of open handles is a natural number. *)
LEMMA HandlesType == entries \in Seq(Key) => Handles \in Nat
<1> SUFFICES ASSUME entries \in Seq(Key) PROVE Handles \in Nat
  OBVIOUS
<1> DEFINE C == {i \in DOMAIN entries : entries[i].kind = "card"}
<1>1. IsFiniteSet(1 .. Len(entries)) /\ C \subseteq 1 .. Len(entries)
  BY FS_Interval
<1> QED
  BY <1>1, FS_Subset, FS_CardinalityType DEF Handles

(* Without signers no handle is open. *)
LEMMA NoHandles == entries = <<>> => Handles = 0
<1> SUFFICES ASSUME entries = <<>> PROVE Handles = 0
  OBVIOUS
<1>1. {i \in DOMAIN entries : entries[i].kind = "card"} = {}
  OBVIOUS
<1> QED
  BY <1>1, FS_EmptySet DEF Handles

(* A run that returns has closed what it opened. *)
LEMMA ReturnsStep ==
  ASSUME SignInv, NEW open, Returns(open), open = 0
  PROVE  SignInv' /\ sign' = "returned"
<1>1. /\ sign' = "returned" /\ card' = 0 /\ given' = <<>> /\ entries' = <<>> /\ root' = NoRoot
      /\ UNCHANGED <<transfer, signed, sigs>>
  BY DEF Returns
<1>2. SignType'
  BY <1>1 DEF SignInv, SignType
<1>3. CardInv'
  <2>1. Handles' = 0
    <3>1. {i \in DOMAIN entries' : entries'[i].kind = "card"} = {}
      BY <1>1
    <3> QED
      BY <3>1, FS_EmptySet DEF Handles
  <2> QED
    BY <1>1, <2>1 DEF CardInv
<1>4. RoleInv'
  BY <1>1 DEF RoleInv, Role
<1>5. SignedByThreshold'
  BY <1>1 DEF SignInv, SignedByThreshold
<1> QED
  BY <1>1, <1>2, <1>3, <1>4, <1>5 DEF SignInv

(* Opening the signers, one flag after the other, keeps the signers        *)
(* distinct and the handles counted.                                       *)
LEMMA LoadStep ==
  ASSUME SignInv,
         LoadFileKey \/ LoadVaultKey \/ OpenCard \/ ReadCard \/ CardHeld \/ ReadCardFails \/ LoadFails
  PROVE  SignInv'
<1>0. /\ given \in Seq(Key) /\ entries \in Seq(Key)
      /\ \A h \in Seq(Key) : h # <<>> => Head(h) \in Key /\ Tail(h) \in Seq(Key)
  BY DEF SignInv, SignType
<1>1. ASSUME sign = "load" \/ sign = "card", UNCHANGED <<transfer, root, signed, sigs>>,
             sign' \in {"load", "card"}, given' \in Seq(Key), entries' \in Seq(Key), CardInv'
      PROVE  SignInv'
  <2>1. SignType'
    BY <1>1 DEF SignInv, SignType
  <2>2. RoleInv'
    BY <1>1 DEF SignInv, RoleInv, Role
  <2>3. SignedByThreshold'
    BY <1>1 DEF SignInv, SignedByThreshold
  <2> QED
    BY <1>1, <2>1, <2>2, <2>3 DEF SignInv
<1>2. ASSUME NEW kind \in {"file", "vault"}, LoadKey(kind) PROVE SignInv'
  <2>1. /\ sign = "load" /\ given # <<>> /\ Head(given).kind = kind
        /\ entries' = Append(entries, Head(given)) /\ given' = Tail(given)
        /\ UNCHANGED <<sign, transfer, card, root, signed, sigs>>
    BY <1>2 DEF LoadKey, Loading
  <2>2. Head(given) \in Key
    BY <1>0, <2>1
  <2>3. Handles' = Handles /\ entries' \in Seq(Key)
    BY <1>0, <2>1, <2>2, HandlesAdd
  <2>4. CardInv'
    BY <2>1, <2>3 DEF SignInv, CardInv
  <2> QED
    BY <1>0, <1>1, <2>1, <2>3, <2>4
<1>3. CASE OpenCard
  <2>1. /\ sign = "load" /\ sign' = "card" /\ card = 0 /\ card' = card + 1
        /\ given # <<>> /\ Head(given).kind = "card"
        /\ UNCHANGED <<transfer, given, entries, root, signed, sigs>>
    BY <1>3 DEF OpenCard, Loading
  <2>2. Handles' = Handles
    BY <2>1 DEF Handles
  <2>3. CardInv'
    BY <2>1, <2>2 DEF SignInv, CardInv
  <2> QED
    BY <1>0, <1>1, <2>1, <2>3
<1>4. CASE ReadCard /\ given # <<>> /\ Head(given).kind = "card"
  <2>1. /\ sign = "card" /\ sign' = "load"
        /\ entries' = Append(entries, Head(given)) /\ given' = Tail(given)
        /\ UNCHANGED <<transfer, card, root, signed, sigs>>
    BY <1>4 DEF ReadCard
  <2>2. Head(given) \in Key
    BY <1>0, <1>4
  <2>3. Handles' = Handles + 1 /\ entries' \in Seq(Key)
    BY <1>0, <1>4, <2>1, <2>2, HandlesAdd
  <2>4. CardInv'
    BY <2>1, <2>3 DEF SignInv, CardInv
  <2> QED
    BY <1>0, <1>1, <1>4, <2>1, <2>3, <2>4
<1>5. CASE CardHeld \/ LoadFails
  <2>1. sign = "load" /\ Returns(card - Handles)
    BY <1>5 DEF CardHeld, LoadFails, Loading
  <2>2. card - Handles = 0
    BY <2>1 DEF SignInv, CardInv
  <2> QED
    BY <2>1, <2>2, ReturnsStep
<1>6. CASE ReadCardFails
  <2>1. sign = "card" /\ Returns(card - 1 - Handles)
    BY <1>6 DEF ReadCardFails
  <2>2. card - 1 - Handles = 0
    BY <1>0, <2>1, HandlesType DEF SignInv, CardInv
  <2> QED
    BY <2>1, <2>2, ReturnsStep
<1>7. ReadCard => given # <<>> /\ Head(given).kind = "card"
  BY DEF ReadCard, SignInv, CardInv
<1> QED
  BY <1>2, <1>3, <1>4, <1>5, <1>6, <1>7 DEF LoadFileKey, LoadVaultKey

-----------------------------------------------------------------------------
(* One signature for each key that signs, and as many as there are keys.   *)
LEMMA SignersAre ==
  ASSUME SignType, NEW r \in Roots, NEW role \in Role
  PROVE  /\ IsFiniteSet(AllMatched(r, role)) /\ Matched(r, role) \subseteq AllMatched(r, role)
         /\ \A i \in AllMatched(r, role) : entries[i].id \in r[role].keys
         /\ \A i, j \in Matched(r, role) : entries[i].id = entries[j].id => i = j
         /\ r[role].threshold \in Nat
<1>1. entries \in Seq(Key) /\ DOMAIN entries = 1 .. Len(entries) /\ Len(entries) \in Nat
  BY DEF SignType
<1>2. IsFiniteSet(AllMatched(r, role))
  <2>1. IsFiniteSet(1 .. Len(entries)) /\ AllMatched(r, role) \subseteq 1 .. Len(entries)
    BY <1>1, FS_Interval DEF AllMatched
  <2> QED
    BY <2>1, FS_Subset
<1>3. ASSUME NEW i \in Matched(r, role), NEW j \in Matched(r, role),
             entries[i].id = entries[j].id
      PROVE  i = j
  <2>1. i \in 1 .. Len(entries) /\ j \in 1 .. Len(entries)
    BY <1>1 DEF Matched, AllMatched
  <2>2. /\ \A x \in 1 .. i - 1 : entries[x].id # entries[i].id
        /\ \A x \in 1 .. j - 1 : entries[x].id # entries[j].id
    BY DEF Matched
  <2>3. ~(i < j) /\ ~(j < i)
    <3>1. i < j => i \in 1 .. j - 1
      BY <1>1, <2>1
    <3>2. j < i => j \in 1 .. i - 1
      BY <1>1, <2>1
    <3> QED
      BY <1>3, <2>2, <3>1, <3>2
  <2> QED
    BY <1>1, <2>1, <2>3
<1>4. r[role].threshold \in Nat
  BY SignerAssumption DEF RootDoc
<1> QED
  BY <1>2, <1>3, <1>4 DEF Matched, AllMatched

(* Distinct signers yield as many distinct signatures. *)
LEMMA SignaturesAre ==
  ASSUME NEW M, IsFiniteSet(M), \A i, j \in M : entries[i].id = entries[j].id => i = j
  PROVE  LET f == [i \in M |-> entries[i].id]
         IN /\ Range(f) = {entries[i].id : i \in M}
            /\ IsInjective(f)
            /\ Cardinality(Range(f)) = Cardinality(M)
<1> DEFINE f == [i \in M |-> entries[i].id]
<1>1. Range(f) = {entries[i].id : i \in M}
  BY DEF Range
<1>2. IsInjective(f)
  BY DEF IsInjective
<1>3. f \in Bijection(M, Range(f))
  <2>1. f \in Injection(M, Range(f))
    BY <1>2 DEF Injection, Range
  <2> QED
    BY <2>1, Fun_InjMeansBijImage
<1>4. Cardinality(Range(f)) = Cardinality(M)
  <2>1. ExistsBijection(M, Range(f))
    BY <1>3 DEF ExistsBijection
  <2> HIDE DEF f
  <2> QED
    BY <2>1, FS_Bijection
<1> QED
  BY <1>1, <1>2, <1>4

(* Reading the root, checking the roles and giving up write no signature. *)
LEMMA RootStep ==
  ASSUME SignInv, ReadRoot \/ CheckRoles \/ TooFewKeys \/ CloseSigners \/ SignFails
  PROVE  SignInv'
<1>1. ASSUME sign # "card", Returns(card - Handles) PROVE SignInv'
  <2>1. card - Handles = 0
    BY <1>1 DEF SignInv, CardInv
  <2> QED
    BY <1>1, <2>1, ReturnsStep
<1>2. CASE TooFewKeys \/ CloseSigners \/ SignFails
  BY <1>1, <1>2 DEF TooFewKeys, CloseSigners, SignFails, Loaded, Role
<1>3. ASSUME sign = "load", root' \in Roots, sign' \in {"targets", "snapshot"},
             UNCHANGED <<transfer, given, entries, card, signed, sigs>>,
             transfer => \A role \in Role : EnoughForTransfer(root', role)
      PROVE  SignInv'
  <2>1. SignType'
    BY <1>3 DEF SignInv, SignType, Role
  <2>2. CardInv'
    <3>1. Handles' = Handles
      BY <1>3 DEF Handles
    <3> QED
      BY <1>3, <3>1 DEF SignInv, CardInv
  <2>3. RoleInv'
    BY <1>3 DEF SignInv, RoleInv, Role, EnoughForTransfer, AllMatched
  <2>4. SignedByThreshold'
    BY <1>3 DEF SignInv, RoleInv, SignedByThreshold
  <2> QED
    BY <2>1, <2>2, <2>3, <2>4 DEF SignInv
<1>4. CASE ReadRoot
  BY <1>3, <1>4 DEF ReadRoot, Loaded
<1>5. CASE CheckRoles
  <2>1. sign = "load" /\ transfer
    BY <1>5 DEF CheckRoles, Loaded
  <2>2. PICK r \in Roots :
          IF \A role \in Role : EnoughForTransfer(r, role)
          THEN /\ root' = r /\ sign' = "targets"
               /\ UNCHANGED <<transfer, given, entries, card, signed, sigs>>
          ELSE Returns(card - Handles)
    BY <1>5 DEF CheckRoles
  <2>3. CASE \A role \in Role : EnoughForTransfer(r, role)
    BY <1>3, <2>1, <2>2, <2>3
  <2>4. CASE ~(\A role \in Role : EnoughForTransfer(r, role))
    BY <1>1, <2>1, <2>2, <2>4
  <2> QED
    BY <2>3, <2>4
<1> QED
  BY <1>2, <1>4, <1>5

(* A role is signed by the keys that were counted. *)
LEMMA SignRoleStep ==
  ASSUME SignInv, NEW role \in Role, SignForRole(role) \/ SignTransferred(role)
  PROVE  SignInv'
<1>1. sign = role /\ root \in Roots
  BY DEF SignForRole, SignTransferred, SignInv, RoleInv
<1>2. PICK M : /\ M = IF transfer THEN AllMatched(root, role) ELSE Matched(root, role)
               /\ SignWith(role, M)
  BY DEF SignForRole, SignTransferred
<1> DEFINE f == [i \in M |-> entries[i].id]
<1>3. /\ sigs' = [sigs EXCEPT ![role] = f] /\ signed' = signed \cup {role}
      /\ sign' = After[role] /\ UNCHANGED <<transfer, given, entries, card, root>>
  BY <1>2 DEF SignWith
<1>4. After[role] \in {"snapshot", "timestamp", "close"}
  BY DEF Role, After
<1>5. SignType'
  <2> HIDE DEF f
  <2> QED
    BY <1>3, <1>4 DEF SignInv, SignType, Role
<1>6. CardInv'
  <2>1. Handles' = Handles
    BY <1>3 DEF Handles
  <2> QED
    BY <1>1, <1>3, <1>4, <2>1 DEF SignInv, CardInv, Role
<1>7. RoleInv'
  <2>1. \A r \in Role : EnoughForTransfer(root, r) => EnoughForTransfer(root, r)'
    BY <1>3 DEF EnoughForTransfer, AllMatched
  <2> QED
    BY <1>1, <1>3, <1>4, <2>1 DEF SignInv, RoleInv, Role
<1>8. /\ DOMAIN f # {} /\ (transfer \/ IsInjective(f))
      /\ Range(f) \subseteq root[role].keys
      /\ Cardinality(Range(f)) >= root[role].threshold
  <2>1. SignType
    BY DEF SignInv
  <2>2. /\ IsFiniteSet(AllMatched(root, role))
        /\ Matched(root, role) \subseteq AllMatched(root, role)
        /\ \A i \in AllMatched(root, role) : entries[i].id \in root[role].keys
        /\ \A i, j \in Matched(root, role) : entries[i].id = entries[j].id => i = j
    BY <1>1, <2>1, SignersAre
  <2>3. CASE transfer
    <3>1. M = AllMatched(root, role) /\ EnoughForTransfer(root, role)
      BY <1>1, <1>2, <2>3 DEF SignInv, RoleInv
    <3>2. Range(f) = {entries[i].id : i \in AllMatched(root, role)} /\ DOMAIN f = M
      BY <3>1 DEF Range
    <3>3. Range(f) # {} /\ Cardinality(Range(f)) >= root[role].threshold
      BY <3>1, <3>2 DEF EnoughForTransfer
    <3> QED
      BY <2>2, <2>3, <3>1, <3>2, <3>3
  <2>4. CASE ~transfer
    <3>1. M = Matched(root, role) /\ Enough(root, role)
      BY <1>2, <2>4 DEF SignForRole, SignTransferred
    <3>2. IsFiniteSet(M) /\ \A i, j \in M : entries[i].id = entries[j].id => i = j
      BY <2>2, <3>1, FS_Subset
    <3>3. /\ Range(f) = {entries[i].id : i \in M} /\ IsInjective(f)
          /\ Cardinality(Range(f)) = Cardinality(M)
      BY <3>2, SignaturesAre
    <3>4. M # {} /\ Cardinality(M) >= root[role].threshold
      BY <3>1 DEF Enough
    <3> QED
      BY <2>2, <3>1, <3>3, <3>4
  <2> QED
    BY <2>3, <2>4
<1>9. SignedByThreshold'
  <2> HIDE DEF f
  <2>1. sigs'[role] = f /\ \A r \in Role : r # role => sigs'[r] = sigs[r]
    BY <1>3 DEF SignInv, SignType
  <2>2. signed \subseteq Role
    BY DEF SignInv, SignType
  <2>3. SUFFICES ASSUME NEW r \in signed'
                 PROVE  /\ DOMAIN sigs'[r] # {} /\ (transfer' \/ IsInjective(sigs'[r]))
                        /\ root' # NoRoot =>
                             /\ Range(sigs'[r]) \subseteq root'[r].keys
                             /\ Cardinality(Range(sigs'[r])) >= root'[r].threshold
    BY DEF SignedByThreshold, Range, IsInjective
  <2>4. CASE r = role
    BY <1>3, <1>8, <2>1, <2>4
  <2>5. CASE r # role
    <3>1. r \in signed /\ sigs'[r] = sigs[r]
      BY <1>3, <2>1, <2>2, <2>5
    <3> QED
      BY <1>3, <3>1 DEF SignInv, SignedByThreshold
  <2> QED
    BY <2>4, <2>5
<1> QED
  BY <1>5, <1>6, <1>7, <1>9 DEF SignInv

(* Every step of the signing keeps its invariant. *)
LEMMA SignStep == ASSUME SignInv, SignProceeds \/ SignStops PROVE SignInv'
  BY LoadStep, RootStep, SignRoleStep DEF SignProceeds, SignStops

(* Before it loads keys a run has opened and signed nothing. *)
LEMMA StartStep ==
  ASSUME SignInv, NEW isTransfer \in BOOLEAN, SignStart(isTransfer)
  PROVE  SignInv'
<1>1. /\ sign = "off" /\ sign' = "load" /\ given' \in Seq(Key) /\ transfer' = isTransfer
      /\ UNCHANGED <<entries, card, root, signed, sigs>>
  BY SignerAssumption DEF SignStart
<1>2. SignType'
  BY <1>1 DEF SignInv, SignType
<1>3. CardInv'
  <2>1. Handles' = Handles
    BY <1>1 DEF Handles
  <2> QED
    BY <1>1, <2>1 DEF SignInv, CardInv
<1>4. RoleInv'
  BY <1>1 DEF SignInv, RoleInv, Role
<1>5. SignedByThreshold'
  BY <1>1 DEF SignInv, RoleInv, SignedByThreshold
<1> QED
  BY <1>2, <1>3, <1>4, <1>5 DEF SignInv

(* What is not about signing does not disturb it. *)
LEMMA SignStays == ASSUME SignInv, UNCHANGED signVars PROVE SignInv'
<1> USE DEF signVars
<1>1. SignType'
  BY DEF SignInv, SignType
<1>2. CardInv'
  BY DEF SignInv, CardInv, Handles
<1>3. RoleInv'
  BY DEF SignInv, RoleInv, EnoughForTransfer, AllMatched
<1>4. SignedByThreshold'
  BY DEF SignInv, SignedByThreshold
<1> QED
  BY <1>1, <1>2, <1>3, <1>4 DEF SignInv

(* Signing does not disturb what was staged and copied. *)
LEMMA StageStays == ASSUME StageInv, UNCHANGED <<scanVars, copies>> PROVE StageInv'
  BY DEF StageInv, scanVars, Prefix

-----------------------------------------------------------------------------
(* Every step of a run keeps the invariant. *)
LEMMA StepInv == ASSUME IInv, [Next]_vars PROVE IInv'
<1>1. CASE (ScanProceeds \/ ScanFails \/ EditSources) /\ UNCHANGED <<signVars, copies>>
  <2>1. StageInv' /\ SignInv'
    BY <1>1, ScanStep, SignStays DEF IInv
  <2>2. scan \in {"walk", "stage"} /\ UNCHANGED sign
    BY <1>1 DEF ScanProceeds, ScanFails, EditSources, Pass, Discover, Descend, Leave, LinkBroken,
                StageFile, HashFile, ScanReturns, Walking, signVars
  <2> QED
    BY <2>1, <2>2 DEF IInv
<1>2. CASE CopyStaged
  BY <1>2, CopyStep, SignStays DEF IInv, CopyStaged, scanVars, signVars
<1>3. CASE Sign
  <2>1. /\ scan = "scanned" /\ UNCHANGED <<scanVars, copies>>
        /\ \E isTransfer \in BOOLEAN : SignStart(isTransfer)
    BY <1>3 DEF Sign
  <2> QED
    BY <2>1, StartStep, StageStays DEF IInv, scanVars
<1>4. CASE Return
  <2>1. /\ scan = "scanned" /\ sign = "returned" /\ scan' = "returned" /\ stageDir' = FALSE
        /\ staged' = <<>> /\ targets' = <<>> /\ copies' = <<>> /\ UNCHANGED <<edition, signVars>>
    BY <1>4 DEF Return
  <2>2. StageInv'
    BY <2>1 DEF IInv, StageInv, Prefix
  <2> QED
    BY <2>1, <2>2, SignStays DEF IInv, signVars
<1>5. CASE (SignProceeds \/ SignStops) /\ UNCHANGED <<scanVars, copies>>
  <2>1. sign \notin {"off", "returned"}
    BY <1>5 DEF SignProceeds, SignStops, LoadFileKey, LoadVaultKey, LoadKey, OpenCard, ReadCard,
                CardHeld, ReadRoot, CheckRoles, TooFewKeys, CloseSigners, SignForRole,
                SignTransferred, ReadCardFails, LoadFails, SignFails, Loading, Loaded, Role
  <2>2. scan = "scanned" /\ UNCHANGED scan
    BY <1>5, <2>1 DEF IInv, StageInv, scanVars
  <2> QED
    BY <1>5, <2>2, SignStep, StageStays DEF IInv
<1>6. CASE RunFails
  <2>1. /\ scan = "scanned" /\ sign = "off" /\ sign' = "returned" /\ UNCHANGED <<scanVars, copies>>
        /\ UNCHANGED <<transfer, given, entries, card, root, signed, sigs>>
    BY <1>6 DEF RunFails
  <2>2. SignType'
    BY <2>1 DEF IInv, SignInv, SignType
  <2>3. CardInv'
    BY <2>1 DEF IInv, SignInv, CardInv, Handles
  <2>4. RoleInv' /\ SignedByThreshold'
    BY <2>1 DEF IInv, SignInv, RoleInv, SignedByThreshold, Role
  <2> QED
    BY <2>1, <2>2, <2>3, <2>4, StageStays DEF IInv, SignInv, scanVars
<1>7. CASE UNCHANGED vars
  BY <1>7, SignStays, StageStays DEF IInv, vars, scanVars, signVars
<1> QED
  BY <1>1, <1>2, <1>3, <1>4, <1>5, <1>6, <1>7 DEF Next, Proceed

(* A run begins in the invariant. *)
LEMMA InitInv == Init => IInv
<1> SUFFICES ASSUME Init PROVE IInv
  OBVIOUS
<1>1. StageInv
  <2>1. /\ scan \in {"walk", "scanned"} /\ edition = 1
        /\ staged = <<>> /\ targets = <<>> /\ copies = <<>>
    BY DEF Init, ScanInit, NoScan
  <2>2. staged \in Seq(Nat) /\ Len(staged) = 0
    BY <2>1
  <2> QED
    BY <2>1, <2>2 DEF StageInv, Prefix
<1>2. /\ sign = "off" /\ transfer = FALSE /\ given = <<>> /\ entries = <<>> /\ card = 0
      /\ root = NoRoot /\ signed = {}
      /\ sigs \in {[r \in Role |-> s] : s \in {<<>>} \cup {<<k>> : k \in KeyId}}
  BY DEF Init, SignInit
<1>3. SignType
  <2>1. PICK s : sigs = [r \in Role |-> s]
    BY <1>2
  <2>2. DOMAIN sigs = Role /\ sigs = [r \in Role |-> sigs[r]]
    BY <2>1
  <2>3. given \in Seq(Key) /\ entries \in Seq(Key)
    BY <1>2
  <2> QED
    BY <1>2, <2>2, <2>3 DEF SignType
<1>4. CardInv
  BY <1>2, NoHandles DEF CardInv
<1>6. RoleInv /\ SignedByThreshold
  <2>1. sign \notin Role \cup {"close"} /\ signed = {}
    BY <1>2 DEF Role
  <2> QED
    BY <2>1 DEF RoleInv, SignedByThreshold
<1>5. scan \in {"walk", "scanned"}
  BY DEF Init, ScanInit, NoScan
<1> QED
  BY <1>1, <1>2, <1>3, <1>4, <1>5, <1>6 DEF IInv, SignInv

-----------------------------------------------------------------------------
(* The digest that the metadata gives of a target is that of the contents  *)
(* that were copied, however the operator goes on editing the sources.     *)
THEOREM RunCopiesWhatItHashed == Spec => []CopiesWhatItHashed
<1>1. IInv /\ [Next]_vars => IInv'
  BY StepInv
<1>2. IInv => CopiesWhatItHashed
  <2> SUFFICES ASSUME IInv PROVE CopiesWhatItHashed
    OBVIOUS
  <2>1. DOMAIN copies = 1 .. Len(copies)
    BY DEF IInv, StageInv
  <2> QED
    BY <2>1 DEF IInv, StageInv, Prefix, CopiesWhatItHashed
<1> QED
  BY <1>1, <1>2, InitInv, PTL DEF Spec

(* A role that was signed bears signatures of as many authorised keys as   *)
(* root.json asks for, for every list of keys and every root.json.         *)
THEOREM RunSignsByThreshold == Spec => []SignedByThreshold
<1>1. IInv /\ [Next]_vars => IInv'
  BY StepInv
<1>2. IInv => SignedByThreshold
  BY DEF IInv, SignInv
<1> QED
  BY <1>1, <1>2, InitInv, PTL DEF Spec

(* Whichever step failed, a run that has returned has removed its staging  *)
(* directory and closed the card: the safety part of EndsClean.            *)
THEOREM RunReturnsClean == Spec => []ReturnsClean
<1>1. IInv /\ [Next]_vars => IInv'
  BY StepInv
<1>2. IInv => ReturnsClean
  BY NoHandles DEF IInv, StageInv, SignInv, CardInv, ReturnsClean
<1> QED
  BY <1>1, <1>2, InitInv, PTL DEF Spec

-----------------------------------------------------------------------------
(* The walk of the tree.                                                   *)

(* The calls of walk that are active, the outermost first.  Each one works *)
(* in the directory that the one before it has entered, at an entry that   *)
(* is not among those it has still to look at, and in no directory twice.  *)
Call == [dir : Dir, path : Seq(EntryName), rest : Seq(EntryName)]
Calls == Reverse(stack)

Descends(j, k) ==
  /\ Calls[j].dir # Calls[k].dir
  /\ \A i \in 1 .. j - 1 : Calls[k].path[i] = Calls[j].path[i]
  /\ Calls[k].path[j] \notin Range(Calls[j].rest)
  /\ Leads(tree, Calls[j].dir, Calls[k].path[j])
  /\ tree[Calls[j].dir][Calls[k].path[j]].to = Calls[j + 1].dir

Walks ==
  /\ tree \in Trees /\ follow \in BOOLEAN
  /\ stack \in Seq(Call) /\ stack # <<>>
  /\ Calls[1].dir = Root
  /\ \A k \in 1 .. Len(stack) :
       /\ Len(Calls[k].path) = k - 1 /\ IsInjective(Calls[k].rest)
       /\ \A j \in 1 .. k - 1 : Descends(j, k)
  /\ visited = {Calls[k].dir : k \in 1 .. Len(stack)}

(* Some call has still to look at an entry on the path. *)
Ahead(call, k, p) ==
  /\ k <= Len(p) /\ p[k] \in Range(call.rest)
  /\ \A i \in 1 .. k - 1 : p[i] = call.path[i]

Todo(p) == \E k \in 1 .. Len(stack) : Ahead(Calls[k], k, p)

(* A file has been found, once, unless a call will still come to it. *)
Searched ==
  /\ found \in Seq(AllFiles(tree)) /\ IsInjective(found)
  /\ \A p \in AllFiles(tree) : p \in Range(found) <=> ~Todo(p)

FindInv == (scan = "walk" => Walks /\ Searched) /\ FindsEveryFile

-----------------------------------------------------------------------------
(* A non-empty set of positive numbers has a least element. *)
LEMMA LeastIn ==
  ASSUME NEW n \in Nat, NEW S \in SUBSET (1 .. n), S # {}
  PROVE  \E m \in S : \A i \in S : m <= i
<1> DEFINE T == {1 .. m : m \in S}
<1>1. T \subseteq FiniteSubsetsOf(1 .. n) /\ T # {}
  <2>1. \A m \in S : IsFiniteSet(1 .. m) /\ 1 .. m \subseteq 1 .. n
    BY FS_Interval
  <2> QED
    BY <2>1 DEF FiniteSubsetsOf
<1>2. PICK I \in T : \A J \in T : <<J, I>> \notin StrictSubsetOrdering(1 .. n)
  <2> HIDE DEF T
  <2> QED
    BY <1>1, FS_StrictSubsetOrderingWellFounded, WFMin
<1>3. PICK m \in S : I = 1 .. m
  OBVIOUS
<1>4. ASSUME NEW i \in S PROVE m <= i
  <2>1. 1 .. i \in T /\ 1 .. i \in SUBSET (1 .. n) /\ I \in SUBSET (1 .. n)
    BY <1>3
  <2>2. ~(1 .. i \subseteq I /\ 1 .. i # I)
    BY <1>2, <2>1 DEF StrictSubsetOrdering
  <2>3. CASE i < m
    <3>1. 1 .. i \subseteq I /\ m \in I /\ m \notin 1 .. i
      BY <1>3, <2>3
    <3> QED
      BY <2>2, <3>1
  <2> QED
    BY <2>3
<1> QED
  BY <1>4

(* Seen from its end, a sequence with one more element in front has one    *)
(* more at the end.                                                        *)
LEMMA ReversePush ==
  ASSUME NEW S, NEW f \in S, NEW s \in Seq(S)
  PROVE  /\ <<f>> \o s \in Seq(S) /\ Len(<<f>> \o s) = Len(s) + 1
         /\ Reverse(<<f>> \o s)[Len(s) + 1] = f
         /\ \A k \in 1 .. Len(s) : Reverse(<<f>> \o s)[k] = Reverse(s)[k]
<1> DEFINE t == <<f>> \o s
<1>1. /\ t \in Seq(S) /\ Len(t) = Len(s) + 1 /\ Len(s) \in Nat
      /\ t[1] = f /\ \A i \in 1 .. Len(s) : t[i + 1] = s[i]
  OBVIOUS
<1> HIDE DEF t
<1>2. Reverse(t)[Len(s) + 1] = f
  BY <1>1 DEF Reverse
<1>3. ASSUME NEW k \in 1 .. Len(s) PROVE Reverse(t)[k] = Reverse(s)[k]
  <2>1. Len(s) - k + 1 \in 1 .. Len(s) /\ Len(t) - k + 1 = (Len(s) - k + 1) + 1 /\ k \in 1 .. Len(t)
    BY <1>1
  <2>2. t[Len(t) - k + 1] = s[Len(s) - k + 1]
    BY <1>1, <2>1
  <2> QED
    BY <2>1, <2>2 DEF Reverse
<1> QED
  BY <1>1, <1>2, <1>3 DEF t

(* And its tail lacks the last one. *)
LEMMA ReverseTail ==
  ASSUME NEW S, NEW s \in Seq(S), s # <<>>
  PROVE  /\ Len(s) \in Nat \ {0} /\ Tail(s) \in Seq(S) /\ Len(Tail(s)) = Len(s) - 1
         /\ Reverse(s)[Len(s)] = Head(s) /\ \A k \in 1 .. Len(s) : Reverse(s)[k] \in S
         /\ \A k \in 1 .. Len(s) - 1 : Reverse(Tail(s))[k] = Reverse(s)[k]
<1> DEFINE t == Tail(s)
<1>1. /\ t \in Seq(S) /\ Len(t) = Len(s) - 1 /\ Len(s) \in Nat \ {0} /\ Head(s) = s[1]
      /\ \A i \in 1 .. Len(s) - 1 : t[i] = s[i + 1]
  OBVIOUS
<1> HIDE DEF t
<1>2. Reverse(s)[Len(s)] = s[1]
  BY <1>1 DEF Reverse
<1>3. ASSUME NEW k \in 1 .. Len(s) - 1 PROVE Reverse(t)[k] = Reverse(s)[k]
  <2>1. Len(t) - k + 1 \in 1 .. Len(s) - 1 /\ Len(s) - k + 1 = (Len(t) - k + 1) + 1
        /\ k \in 1 .. Len(t) /\ k \in 1 .. Len(s)
    BY <1>1
  <2>2. s[Len(s) - k + 1] = t[Len(t) - k + 1]
    BY <1>1, <2>1
  <2> QED
    BY <2>1, <2>2 DEF Reverse
<1>4. ASSUME NEW k \in 1 .. Len(s) PROVE Reverse(s)[k] \in S
  <2>1. Len(s) - k + 1 \in 1 .. Len(s)
    BY <1>1
  <2>2. \A i \in 1 .. Len(s) : s[i] \in S
    OBVIOUS
  <2> QED
    BY <2>1, <2>2 DEF Reverse
<1> QED
  BY <1>1, <1>2, <1>3, <1>4 DEF t


(* The entry that is looked at leaves the rest. *)
LEMMA RestAdvances ==
  ASSUME NEW S, NEW r \in Seq(S), r # <<>>, IsInjective(r)
  PROVE  /\ Head(r) \in S /\ Tail(r) \in Seq(S) /\ IsInjective(Tail(r))
         /\ Head(r) \notin Range(Tail(r))
         /\ Range(r) = Range(Tail(r)) \cup {Head(r)}
<1> DEFINE t == Tail(r)
<1>1. /\ t \in Seq(S) /\ Len(r) \in Nat \ {0} /\ Len(t) = Len(r) - 1 /\ Head(r) = r[1]
      /\ DOMAIN r = 1 .. Len(r) /\ DOMAIN t = 1 .. Len(t) /\ r[1] \in S
      /\ \A i \in 1 .. Len(t) : t[i] = r[i + 1]
  OBVIOUS
<1> HIDE DEF t
<1>2. \A i \in DOMAIN r : i = 1 \/ (i - 1 \in DOMAIN t /\ t[i - 1] = r[i])
  BY <1>1
<1>3. \A i \in DOMAIN t : i + 1 \in DOMAIN r /\ i + 1 # 1 /\ t[i] = r[i + 1]
  BY <1>1
<1>4. IsInjective(t)
  BY <1>1, <1>3 DEF IsInjective
<1>5. 1 \in DOMAIN r
  BY <1>1
<1>6. \A i \in DOMAIN t : t[i] # r[1]
  BY <1>3, <1>5 DEF IsInjective
<1>7. Range(r) = Range(t) \cup {r[1]}
  BY <1>2, <1>3, <1>5 DEF Range
<1>8. r[1] \notin Range(t)
  BY <1>6 DEF Range
<1> QED
  BY <1>1, <1>4, <1>7, <1>8 DEF t

Advance == [Head(stack) EXCEPT !.rest = Tail(@)]

(* The innermost call, and what is left of it after one entry. *)
LEMMA TopCall ==
  ASSUME Walks
  PROVE  /\ Len(stack) \in Nat \ {0} /\ Calls[Len(stack)] = Head(stack)
         /\ \A k \in 1 .. Len(stack) :
              /\ Calls[k].dir \in Dir /\ Calls[k].path \in Seq(EntryName)
              /\ Calls[k].rest \in Seq(EntryName)
         /\ Head(stack).dir \in visited
<1>1. stack \in Seq(Call) /\ stack # <<>>
  BY DEF Walks
<1>2. /\ Len(stack) \in Nat \ {0} /\ Calls[Len(stack)] = Head(stack)
      /\ \A k \in 1 .. Len(stack) : Calls[k] \in Call
  BY <1>1, ReverseTail DEF Calls
<1>3. \A k \in 1 .. Len(stack) :
        /\ Calls[k].dir \in Dir /\ Calls[k].path \in Seq(EntryName)
        /\ Calls[k].rest \in Seq(EntryName)
  BY <1>2 DEF Call
<1>4. Calls[Len(stack)].dir \in visited
  BY <1>2 DEF Walks
<1> QED
  BY <1>2, <1>3, <1>4

(* What is left of it has lost the entry, and nothing else. *)
LEMMA TopAdvances ==
  ASSUME Walks, Head(stack).rest # <<>>
  PROVE  /\ Head(Head(stack).rest) \in EntryName
         /\ Advance \in Call /\ Advance.dir = Head(stack).dir /\ Advance.path = Head(stack).path
         /\ IsInjective(Advance.rest) /\ Head(Head(stack).rest) \notin Range(Advance.rest)
         /\ Range(Head(stack).rest) = Range(Advance.rest) \cup {Head(Head(stack).rest)}
<1> DEFINE r == Head(stack).rest
<1>1. /\ Head(stack) \in Call /\ r \in Seq(EntryName) /\ r # <<>> /\ IsInjective(r)
  <2>1. Len(stack) \in 1 .. Len(stack) /\ Calls[Len(stack)] = Head(stack)
    BY TopCall
  <2>2. IsInjective(Calls[Len(stack)].rest)
    BY <2>1 DEF Walks
  <2>3. Head(stack) \in Call
    BY ReverseTail DEF Walks
  <2>4. r \in Seq(EntryName)
    BY <2>3 DEF Call
  <2> QED
    BY <2>1, <2>2, <2>3, <2>4
<1>2. /\ Head(r) \in EntryName /\ Tail(r) \in Seq(EntryName) /\ IsInjective(Tail(r))
      /\ Head(r) \notin Range(Tail(r)) /\ Range(r) = Range(Tail(r)) \cup {Head(r)}
  <2> HIDE DEF r
  <2> QED
    BY <1>1, RestAdvances
<1>3. /\ Advance \in Call /\ Advance.dir = Head(stack).dir /\ Advance.path = Head(stack).path
      /\ Advance.rest = Tail(r)
  BY <1>1, <1>2 DEF Advance, Call
<1> QED
  BY <1>2, <1>3

(* The entry is looked at, and perhaps the directory below it entered. *)
LEMMA CallsAdvance ==
  ASSUME Walks, Head(stack).rest # <<>>, stack' = Advanced
  PROVE  /\ stack' \in Seq(Call) /\ Len(stack') = Len(stack)
         /\ Calls'[Len(stack)] = Advance
         /\ \A k \in 1 .. Len(stack) - 1 : Calls'[k] = Calls[k]
<1> DEFINE t == Tail(stack)
<1>1. stack' = <<Advance>> \o t
  BY DEF Advanced, Advance
<1>2. /\ Len(stack) \in Nat \ {0} /\ t \in Seq(Call) /\ Len(t) = Len(stack) - 1
      /\ \A k \in 1 .. Len(stack) - 1 : Reverse(t)[k] = Reverse(stack)[k]
  BY ReverseTail DEF Walks
<1>3. Advance \in Call
  BY TopAdvances
<1> HIDE DEF t
<1>4. /\ <<Advance>> \o t \in Seq(Call) /\ Len(<<Advance>> \o t) = Len(stack)
      /\ Reverse(<<Advance>> \o t)[Len(stack)] = Advance
      /\ \A k \in 1 .. Len(stack) - 1 : Reverse(<<Advance>> \o t)[k] = Reverse(stack)[k]
  BY <1>2, <1>3, ReversePush
<1> QED
  BY <1>1, <1>4 DEF Calls

(* A directory below it is entered: its call is the last one. *)
LEMMA CallsEnter ==
  ASSUME Walks, Head(stack).rest # <<>>, NEW g \in Call, stack' = <<g>> \o Advanced
  PROVE  /\ stack' \in Seq(Call) /\ Len(stack') = Len(stack) + 1
         /\ Calls'[Len(stack) + 1] = g /\ Calls'[Len(stack)] = Advance
         /\ \A k \in 1 .. Len(stack) - 1 : Calls'[k] = Calls[k]
<1> DEFINE t == Tail(stack)
           s == <<Advance>> \o t
<1>1. stack' = <<g>> \o s
  BY DEF Advanced, Advance
<1>2. /\ Len(stack) \in Nat \ {0} /\ t \in Seq(Call) /\ Len(t) = Len(stack) - 1
      /\ \A k \in 1 .. Len(stack) - 1 : Reverse(t)[k] = Reverse(stack)[k]
  BY ReverseTail DEF Walks
<1>3. Advance \in Call
  BY TopAdvances
<1>4. /\ s \in Seq(Call) /\ Len(s) = Len(stack)
      /\ Reverse(s)[Len(stack)] = Advance
      /\ \A k \in 1 .. Len(stack) - 1 : Reverse(s)[k] = Reverse(stack)[k]
  <2> HIDE DEF t
  <2> QED
    BY <1>2, <1>3, ReversePush
<1> HIDE DEF t, s
<1>5. /\ <<g>> \o s \in Seq(Call) /\ Len(<<g>> \o s) = Len(stack) + 1
      /\ Reverse(<<g>> \o s)[Len(stack) + 1] = g
      /\ \A k \in 1 .. Len(stack) : Reverse(<<g>> \o s)[k] = Reverse(s)[k]
  BY <1>4, ReversePush
<1>6. /\ Len(stack) \in 1 .. Len(stack)
      /\ \A k \in 1 .. Len(stack) - 1 : k \in 1 .. Len(stack)
  BY <1>2
<1>7. /\ Reverse(<<g>> \o s)[Len(stack)] = Advance
      /\ \A k \in 1 .. Len(stack) - 1 : Reverse(<<g>> \o s)[k] = Reverse(stack)[k]
  BY <1>4, <1>5, <1>6
<1> QED
  BY <1>1, <1>5, <1>7 DEF Calls

(* The innermost call returns. *)
LEMMA CallsLeave ==
  ASSUME Walks, stack' = Tail(stack)
  PROVE  /\ stack' \in Seq(Call) /\ Len(stack') = Len(stack) - 1
         /\ \A k \in 1 .. Len(stack) - 1 : Calls'[k] = Calls[k]
<1> DEFINE t == Tail(stack)
<1>1. /\ t \in Seq(Call) /\ Len(t) = Len(stack) - 1
      /\ \A k \in 1 .. Len(stack) - 1 : Reverse(t)[k] = Reverse(stack)[k]
  BY ReverseTail DEF Walks
<1> QED
  BY <1>1 DEF Calls

-----------------------------------------------------------------------------
(* The reference definition: a path of entries, and a way along it. *)
LEMMA FilesAre ==
  ASSUME NEW t, NEW p
  PROVE  p \in AllFiles(t) <=>
           /\ p \in Seq(EntryName) /\ Len(p) \in 1 .. Cardinality(Dir)
           /\ \E dirs \in [1 .. Len(p) -> Dir] : Way(t, p, dirs)
<1>1. Cardinality(Dir) \in Nat
  BY ScanAssumption, FS_CardinalityType
<1>2. ASSUME NEW n \in 1 .. Cardinality(Dir), p \in [1 .. n -> EntryName]
      PROVE  p \in Seq(EntryName) /\ Len(p) = n
  BY <1>1, <1>2
<1>3. ASSUME p \in Seq(EntryName), Len(p) \in 1 .. Cardinality(Dir)
      PROVE  \E n \in 1 .. Cardinality(Dir) : p \in [1 .. n -> EntryName]
  BY <1>1, <1>3
<1>4. p \in UNION {[1 .. n -> EntryName] : n \in 1 .. Cardinality(Dir)} <=>
        p \in Seq(EntryName) /\ Len(p) \in 1 .. Cardinality(Dir)
  BY <1>2, <1>3
<1> QED
  BY <1>4 DEF AllFiles

(* The paths that go through the entry that the innermost call looks at. *)
Through(p) ==
  /\ Len(stack) <= Len(p) /\ p[Len(stack)] = Head(Head(stack).rest)
  /\ \A i \in 1 .. Len(stack) - 1 : p[i] = Head(stack).path[i]

(* The way along such a path leads through the directories of the calls.   *)
LEMMA WayFollows ==
  ASSUME Walks, NEW p, p \in Seq(EntryName), Through(p), NEW dirs, Way(tree, p, dirs)
  PROVE  \A j \in 1 .. Len(stack) : dirs[j] = Calls[j].dir
<1> DEFINE S == {j \in 1 .. Len(stack) : dirs[j] # Calls[j].dir}
<1> SUFFICES ASSUME S # {} PROVE FALSE
  OBVIOUS
<1>1. Len(stack) \in Nat \ {0} /\ Calls[Len(stack)] = Head(stack) /\ Len(p) \in Nat
  BY TopCall
<1>2. PICK m \in S : \A i \in S : m <= i
  <2>1. S \subseteq 1 .. Len(stack)
    OBVIOUS
  <2> HIDE DEF S
  <2> QED
    BY <1>1, <2>1, LeastIn
<1>3. m \in 1 .. Len(stack) /\ m # 1
  BY <1>1 DEF Way, Walks
<1>4. m - 1 \in 1 .. Len(stack) - 1 /\ m - 1 \in 1 .. Len(p) - 1 /\ m - 1 + 1 = m
  BY <1>1, <1>3 DEF Through
<1>5. dirs[m - 1] = Calls[m - 1].dir
  <2>1. m - 1 \notin S
    <3> HIDE DEF S
    <3> QED
      BY <1>2, <1>3
  <2> QED
    BY <1>1, <1>4, <2>1
<1>6. tree[dirs[m - 1]][p[m - 1]].to = dirs[m]
  BY <1>4 DEF Way
<1>7. p[m - 1] = Calls[Len(stack)].path[m - 1]
  BY <1>1, <1>4 DEF Through
<1>8. Descends(m - 1, Len(stack))
  <2>1. Len(stack) \in 1 .. Len(stack)
    BY <1>1
  <2>2. \A j \in 1 .. Len(stack) - 1 : Descends(j, Len(stack))
    BY <2>1 DEF Walks
  <2> QED
    BY <1>4, <2>2
<1>9. tree[Calls[m - 1].dir][Calls[Len(stack)].path[m - 1]].to = Calls[m].dir
  BY <1>4, <1>8 DEF Descends
<1> QED
  BY <1>5, <1>6, <1>7, <1>9

(* A file at the entry, or one below a directory that is not being walked. *)
LEMMA FileThrough ==
  ASSUME Walks, NEW p \in AllFiles(tree), Through(p)
  PROVE  LET d == Head(stack).dir
             e == Head(Head(stack).rest)
         IN  \/ Len(p) = Len(stack) /\ Holds(tree, d, e)
             \/ Len(p) > Len(stack) /\ Leads(tree, d, e) /\ tree[d][e].to \notin visited
<1>1. /\ p \in Seq(EntryName) /\ Len(p) \in Nat
      /\ \E dirs \in [1 .. Len(p) -> Dir] : Way(tree, p, dirs)
  BY FilesAre
<1>2. PICK dirs \in [1 .. Len(p) -> Dir] : Way(tree, p, dirs)
  BY <1>1
<1>3. \A j \in 1 .. Len(stack) : dirs[j] = Calls[j].dir
  BY <1>1, <1>2, WayFollows
<1>4. Len(stack) \in Nat \ {0} /\ Calls[Len(stack)] = Head(stack) /\ Len(stack) <= Len(p)
  BY TopCall DEF Through
<1>5. dirs[Len(stack)] = Head(stack).dir /\ p[Len(stack)] = Head(Head(stack).rest)
  BY <1>3, <1>4 DEF Through
<1>6. CASE Len(p) = Len(stack)
  BY <1>2, <1>5, <1>6 DEF Way, Last
<1>7. CASE Len(p) > Len(stack)
  <2>1. Len(stack) \in 1 .. Len(p) - 1 /\ Len(stack) + 1 \in 1 .. Len(p)
    BY <1>1, <1>4, <1>7
  <2>2. /\ Leads(tree, Head(stack).dir, Head(Head(stack).rest))
        /\ tree[Head(stack).dir][Head(Head(stack).rest)].to = dirs[Len(stack) + 1]
    BY <1>2, <1>5, <2>1 DEF Way
  <2>3. \A j \in 1 .. Len(stack) : dirs[Len(stack) + 1] # dirs[j]
    <3>1. \A j \in 1 .. Len(stack) : j \in 1 .. Len(p) /\ j # Len(stack) + 1
      BY <1>1, <1>4
    <3> QED
      BY <1>2, <2>1, <3>1 DEF Way, IsInjective
  <2>4. dirs[Len(stack) + 1] \notin visited
    BY <1>3, <2>3 DEF Walks
  <2> QED
    BY <1>7, <2>2, <2>4
<1> QED
  BY <1>1, <1>4, <1>6, <1>7

(* What is ahead besides the entry that is looked at. *)
TodoBesides(p) ==
  Ahead(Advance, Len(stack), p) \/ \E k \in 1 .. Len(stack) - 1 : Ahead(Calls[k], k, p)

(* What the other calls and the other entries have ahead is all that was  *)
(* ahead, but for the paths through the entry.                             *)
LEMMA TodoThrough ==
  ASSUME Walks, Head(stack).rest # <<>>, NEW p
  PROVE  /\ TodoBesides(p) <=> Todo(p) /\ ~Through(p)
         /\ Through(p) => Todo(p)
<1>1. PICK n \in Nat \ {0} : n = Len(stack)
  BY TopCall
<1>2. Calls[n] = Head(stack) /\ n \in 1 .. n
  BY <1>1, TopCall
<1>3. Todo(p) <=> Ahead(Head(stack), n, p) \/ \E k \in 1 .. n - 1 : Ahead(Calls[k], k, p)
  <2>1. \A k \in 1 .. n : k = n \/ k \in 1 .. n - 1
    OBVIOUS
  <2>2. n \in 1 .. n /\ \A k \in 1 .. n - 1 : k \in 1 .. n
    OBVIOUS
  <2>3. Todo(p) <=> \E k \in 1 .. n : Ahead(Calls[k], k, p)
    BY <1>1 DEF Todo
  <2> QED
    BY <1>2, <2>1, <2>2, <2>3
<1>4. Ahead(Advance, n, p) <=> Ahead(Head(stack), n, p) /\ ~Through(p)
  BY <1>1, TopAdvances DEF Ahead, Through
<1>5. Through(p) => Ahead(Head(stack), n, p)
  BY <1>1, TopAdvances DEF Ahead, Through
<1>6. ASSUME Through(p), NEW k \in 1 .. n - 1 PROVE ~Ahead(Calls[k], k, p)
  <2>1. Descends(k, n)
    BY <1>1, <1>2 DEF Walks
  <2>2. p[k] = Calls[n].path[k]
    BY <1>1, <1>2, <1>6 DEF Through
  <2> QED
    BY <2>1, <2>2 DEF Descends, Ahead
<1>7. TodoBesides(p) <=> Ahead(Advance, n, p) \/ \E k \in 1 .. n - 1 : Ahead(Calls[k], k, p)
  BY <1>1 DEF TodoBesides
<1> QED
  BY <1>3, <1>4, <1>5, <1>6, <1>7

(* So it is once the entry has been looked at. *)
LEMMA TodoAdvance ==
  ASSUME Walks, Head(stack).rest # <<>>, stack' = Advanced, NEW p
  PROVE  Todo(p)' <=> TodoBesides(p)
<1>1. PICK n \in Nat \ {0} : n = Len(stack)
  BY TopCall
<1>2. /\ Len(stack') = n /\ Calls'[n] = Advance
      /\ \A k \in 1 .. n - 1 : Calls'[k] = Calls[k]
  BY <1>1, CallsAdvance
<1>3. \A k \in 1 .. n : k = n \/ k \in 1 .. n - 1
  OBVIOUS
<1>4. n \in 1 .. n /\ \A k \in 1 .. n - 1 : k \in 1 .. n
  OBVIOUS
<1>5. Todo(p)' <=> \E k \in 1 .. n : Ahead(Calls'[k], k, p)
  BY <1>2 DEF Todo, Ahead
<1> QED
  BY <1>1, <1>2, <1>3, <1>4, <1>5 DEF TodoBesides

(* When a directory is entered, what it has ahead is added. *)
LEMMA TodoEnter ==
  ASSUME Walks, Head(stack).rest # <<>>, NEW g \in Call, stack' = <<g>> \o Advanced, NEW p
  PROVE  Todo(p)' <=> TodoBesides(p) \/ Ahead(g, Len(stack) + 1, p)
<1>1. PICK n \in Nat \ {0} : n = Len(stack)
  BY TopCall
<1>2. /\ Len(stack') = n + 1 /\ Calls'[n + 1] = g /\ Calls'[n] = Advance
      /\ \A k \in 1 .. n - 1 : Calls'[k] = Calls[k]
  BY <1>1, CallsEnter
<1>3. \A k \in 1 .. n + 1 : k = n + 1 \/ k = n \/ k \in 1 .. n - 1
  OBVIOUS
<1>4. n + 1 \in 1 .. n + 1 /\ n \in 1 .. n + 1 /\ \A k \in 1 .. n - 1 : k \in 1 .. n + 1
  OBVIOUS
<1>5. Todo(p)' <=> \E k \in 1 .. n + 1 : Ahead(Calls'[k], k, p)
  BY <1>2 DEF Todo, Ahead
<1> QED
  BY <1>1, <1>2, <1>3, <1>4, <1>5 DEF TodoBesides

(* A call that has nothing left to look at had nothing ahead. *)
LEMMA TodoLeave ==
  ASSUME Walks, Head(stack).rest = <<>>, stack' = Tail(stack), NEW p
  PROVE  Todo(p)' <=> Todo(p)
<1>1. PICK n \in Nat \ {0} : n = Len(stack)
  BY TopCall
<1>2. /\ Len(stack') = n - 1 /\ \A k \in 1 .. n - 1 : Calls'[k] = Calls[k]
  BY <1>1, CallsLeave
<1>3. \A k \in 1 .. n : k = n \/ k \in 1 .. n - 1
  OBVIOUS
<1>4. \A k \in 1 .. n - 1 : k \in 1 .. n
  OBVIOUS
<1>5. Todo(p)' <=> \E k \in 1 .. n - 1 : Ahead(Calls'[k], k, p)
  BY <1>2 DEF Todo, Ahead
<1>6. Todo(p) <=> \E k \in 1 .. n : Ahead(Calls[k], k, p)
  BY <1>1 DEF Todo
<1>7. ~Ahead(Calls[n], n, p)
  <2>1. Calls[n].rest = <<>>
    BY <1>1, TopCall
  <2>2. Range(Calls[n].rest) = {}
    BY <2>1 DEF Range
  <2> QED
    BY <2>2 DEF Ahead
<1> QED
  BY <1>2, <1>3, <1>4, <1>5, <1>6, <1>7

-----------------------------------------------------------------------------
(* A call keeps its directory and its path, and has ever less to look at. *)
Kept(k) ==
  /\ Calls'[k].dir = Calls[k].dir /\ Calls'[k].path = Calls[k].path
  /\ Range(Calls'[k].rest) \subseteq Range(Calls[k].rest)
  /\ IsInjective(Calls[k].rest) => IsInjective(Calls'[k].rest)

(* So that calls that go on keep their relation. *)
LEMMA CallsKept ==
  ASSUME Walks, UNCHANGED <<tree, follow>>,
         NEW m \in 1 .. Len(stack), \A k \in 1 .. m : Kept(k)
  PROVE  /\ Calls'[1].dir = Root
         /\ \A k \in 1 .. m :
              /\ Len(Calls'[k].path) = k - 1 /\ IsInjective(Calls'[k].rest)
              /\ \A j \in 1 .. k - 1 : Descends(j, k)'
<1>1. Len(stack) \in Nat \ {0} /\ 1 \in 1 .. m
  BY TopCall
<1>2. ASSUME NEW k \in 1 .. m, NEW j \in 1 .. k - 1, Descends(j, k)
      PROVE  Descends(j, k)'
  <2>1. j \in 1 .. m /\ j + 1 \in 1 .. m
    BY <1>1
  <2>2. Kept(j) /\ Kept(j + 1) /\ Kept(k)
    BY <2>1
  <2> QED
    BY <1>2, <2>2 DEF Kept, Descends, Leads
<1>3. \A k \in 1 .. m :
        /\ Len(Calls[k].path) = k - 1 /\ IsInjective(Calls[k].rest)
        /\ \A j \in 1 .. k - 1 : Descends(j, k)
  BY <1>1 DEF Walks
<1>4. Calls'[1].dir = Root
  BY <1>1 DEF Walks, Kept
<1> QED
  BY <1>2, <1>3, <1>4 DEF Kept

(* Looking at an entry changes no other call. *)
LEMMA AdvanceKept ==
  ASSUME Walks, Head(stack).rest # <<>>, Calls'[Len(stack)] = Advance,
         \A k \in 1 .. Len(stack) - 1 : Calls'[k] = Calls[k]
  PROVE  \A k \in 1 .. Len(stack) : Kept(k)
<1> DEFINE n == Len(stack)
<1>1. n \in Nat \ {0} /\ Calls[n] = Head(stack)
  BY TopCall
<1>2. /\ Advance.dir = Head(stack).dir /\ Advance.path = Head(stack).path
      /\ IsInjective(Advance.rest) /\ Range(Advance.rest) \subseteq Range(Head(stack).rest)
  BY TopAdvances
<1>3. \A k \in 1 .. n : k = n \/ k \in 1 .. n - 1
  BY <1>1
<1>4. /\ Calls'[n] = Advance
      /\ \A k \in 1 .. n - 1 : Calls'[k] = Calls[k]
  OBVIOUS
<1>5. \A k \in 1 .. n : Kept(k)
  <2> HIDE DEF n
  <2> QED
    BY <1>1, <1>2, <1>3, <1>4 DEF Kept
<1> QED
  BY <1>5

(* An entry that is not entered. *)
LEMMA WalksAdvance ==
  ASSUME Walks, Head(stack).rest # <<>>, stack' = Advanced, UNCHANGED <<tree, follow, visited>>
  PROVE  Walks'
<1> DEFINE n == Len(stack)
<1>1. n \in Nat \ {0} /\ n \in 1 .. n
  BY TopCall
<1>2. /\ stack' \in Seq(Call) /\ Len(stack') = n
      /\ Calls'[n] = Advance /\ \A k \in 1 .. n - 1 : Calls'[k] = Calls[k]
  BY CallsAdvance
<1>3. stack' # <<>>
  BY <1>1, <1>2
<1>4. \A k \in 1 .. n : Kept(k)
  BY <1>2, AdvanceKept
<1>5. /\ Calls'[1].dir = Root
      /\ \A k \in 1 .. n :
           /\ Len(Calls'[k].path) = k - 1 /\ IsInjective(Calls'[k].rest)
           /\ \A j \in 1 .. k - 1 : Descends(j, k)'
  BY <1>1, <1>4, CallsKept
<1>6. visited' = {Calls'[k].dir : k \in 1 .. n}
  <2>1. visited' = {Calls[k].dir : k \in 1 .. n}
    BY DEF Walks
  <2> HIDE DEF n
  <2> QED
    BY <1>4, <2>1 DEF Kept
<1> HIDE DEF n
<1> QED
  BY <1>2, <1>3, <1>5, <1>6 DEF Walks

(* What the trees and the option say of the entry that is looked at. *)
LEMMA EntryIs ==
  ASSUME Walks, Walking
  PROVE  /\ Entry \in Item
         /\ EntryPath \in Seq(EntryName) /\ Len(EntryPath) = Len(stack)
         /\ EntryPath[Len(stack)] = Head(Head(stack).rest)
         /\ \A i \in 1 .. Len(stack) - 1 : EntryPath[i] = Head(stack).path[i]
<1>1. /\ Len(stack) \in Nat \ {0} /\ Calls[Len(stack)] = Head(stack)
      /\ Len(stack) \in 1 .. Len(stack)
      /\ Head(stack).dir \in Dir /\ Head(stack).path \in Seq(EntryName)
  BY TopCall
<1>2. Len(Head(stack).path) = Len(stack) - 1
  <2>1. Len(Calls[Len(stack)].path) = Len(stack) - 1
    BY <1>1 DEF Walks
  <2> QED
    BY <1>1, <2>1
<1>3. Head(Head(stack).rest) \in EntryName
  BY TopAdvances DEF Walking
<1>4. Entry \in Item
  BY <1>1, <1>3, ScanAssumption DEF Walks, Entry, IsTree
<1> QED
  BY <1>1, <1>2, <1>3, <1>4 DEF EntryPath

(* A directory that is entered. *)
LEMMA WalksDescend == ASSUME Walks, Descend PROVE Walks'
<1> DEFINE g == Frame(Entry.to, EntryPath)
<1>n. PICK n \in Nat \ {0} : n = Len(stack)
  BY TopCall
<1>1. /\ n \in Nat \ {0} /\ n \in 1 .. n /\ Calls[n] = Head(stack)
      /\ Walking /\ Head(stack).rest # <<>>
  BY <1>n, TopCall DEF Descend, Walking
<1>2. /\ Entry.to \in Dir /\ EntryPath \in Seq(EntryName) /\ Len(EntryPath) = n
      /\ EntryPath[n] = Head(Head(stack).rest)
      /\ \A i \in 1 .. n - 1 : EntryPath[i] = Head(stack).path[i]
  BY <1>n, <1>1, EntryIs DEF Item
<1>3. /\ g \in Call /\ g.dir = Entry.to /\ g.path = EntryPath /\ g.rest = Order
  BY <1>2, ScanAssumption DEF Call, Frame
<1>4. /\ stack' = <<g>> \o Advanced /\ visited' = visited \cup {Entry.to}
      /\ Entry.to \notin visited /\ UNCHANGED <<tree, follow>>
  BY DEF Descend
<1> HIDE DEF g
<1>5. /\ stack' \in Seq(Call) /\ Len(stack') = n + 1 /\ Calls'[n + 1] = g
      /\ Calls'[n] = Advance /\ \A k \in 1 .. n - 1 : Calls'[k] = Calls[k]
  BY <1>n, <1>1, <1>3, <1>4, CallsEnter
<1>6. stack' # <<>>
  BY <1>1, <1>5
<1>7. \A k \in 1 .. n : Kept(k)
  BY <1>n, <1>1, <1>5, AdvanceKept
<1>8. /\ Calls'[1].dir = Root
      /\ \A k \in 1 .. n :
           /\ Len(Calls'[k].path) = k - 1 /\ IsInjective(Calls'[k].rest)
           /\ \A j \in 1 .. k - 1 : Descends(j, k)'
  BY <1>n, <1>1, <1>4, <1>7, CallsKept
<1>9. visited' = {Calls'[k].dir : k \in 1 .. n + 1}
  <2>1. visited = {Calls[k].dir : k \in 1 .. n}
    BY <1>n DEF Walks
  <2>2. \A k \in 1 .. n + 1 : k = n + 1 \/ k \in 1 .. n
    BY <1>1
  <2>3. n + 1 \in 1 .. n + 1 /\ \A k \in 1 .. n : k \in 1 .. n + 1
    BY <1>1
  <2>4. \A k \in 1 .. n : Calls'[k].dir = Calls[k].dir
    BY <1>7 DEF Kept
  <2>5. visited' = {Calls[k].dir : k \in 1 .. n} \cup {Calls'[n + 1].dir}
    BY <1>3, <1>4, <1>5, <2>1
  <2> QED
    BY <2>2, <2>3, <2>4, <2>5
<1>10. Leads(tree, Head(stack).dir, Head(Head(stack).rest))
  BY DEF Descend, Followed, Link, Entry, Leads
<1>11. ASSUME NEW j \in 1 .. n PROVE Descends(j, n + 1)'
  <2>1. /\ Kept(j) /\ Calls[j].dir \in visited /\ Calls'[j].dir = Calls[j].dir
    BY <1>n, <1>7 DEF Walks, Kept
  <2>2. CASE j = n
    <3>1. /\ Calls'[n].dir = Head(stack).dir /\ Calls'[n].path = Head(stack).path
          /\ Head(Head(stack).rest) \notin Range(Calls'[n].rest)
      BY <1>1, <1>5, TopAdvances
    <3>2. tree'[Calls'[n].dir][EntryPath[n]].to = Calls'[n + 1].dir
      BY <1>2, <1>3, <1>4, <1>5, <3>1 DEF Entry
    <3>3. /\ Calls'[n + 1].dir = Entry.to /\ Calls'[n + 1].path = EntryPath
          /\ tree' = tree /\ follow' = follow
      BY <1>3, <1>4, <1>5
    <3>4. Calls'[j].dir # Calls'[n + 1].dir
      BY <1>4, <2>1, <3>3
    <3>5. \A i \in 1 .. j - 1 : Calls'[n + 1].path[i] = Calls'[j].path[i]
      BY <1>2, <2>2, <3>1, <3>3
    <3>6. Calls'[n + 1].path[j] \notin Range(Calls'[j].rest)
      BY <1>2, <2>2, <3>1, <3>3
    <3>7. Leads(tree, Calls[j].dir, Calls[n + 1].path[j])'
      BY <1>2, <1>10, <2>2, <3>1, <3>3 DEF Leads
    <3>8. tree'[Calls'[j].dir][Calls'[n + 1].path[j]].to = Calls'[j + 1].dir
      BY <2>2, <3>2, <3>3
    <3> QED
      BY <3>4, <3>5, <3>6, <3>7, <3>8 DEF Descends
  <2>3. CASE j # n
    <3>1. j \in 1 .. n - 1 /\ j + 1 \in 1 .. n /\ \A i \in 1 .. j - 1 : i \in 1 .. n - 1
      BY <1>1, <2>3
    <3>2. Descends(j, n)
      BY <1>n, <1>1, <3>1 DEF Walks
    <3>3. Kept(j + 1)
      BY <1>7, <3>1
    <3>4. /\ EntryPath[j] = Calls[n].path[j]
          /\ \A i \in 1 .. j - 1 : EntryPath[i] = Calls[n].path[i]
      BY <1>1, <1>2, <3>1
    <3>5. /\ Calls'[n + 1].dir = Entry.to /\ Calls'[n + 1].path = EntryPath
          /\ tree' = tree /\ follow' = follow
      BY <1>3, <1>4, <1>5
    <3>6. Calls'[j].dir # Calls'[n + 1].dir
      BY <1>4, <2>1, <3>5
    <3>7. \A i \in 1 .. j - 1 : Calls'[n + 1].path[i] = Calls'[j].path[i]
      BY <2>1, <3>2, <3>4, <3>5 DEF Descends, Kept
    <3>8. Calls'[n + 1].path[j] \notin Range(Calls'[j].rest)
      BY <2>1, <3>2, <3>4, <3>5 DEF Descends, Kept
    <3>9. Leads(tree, Calls[j].dir, Calls[n + 1].path[j])'
      BY <2>1, <3>2, <3>4, <3>5 DEF Descends, Leads
    <3>10. tree'[Calls'[j].dir][Calls'[n + 1].path[j]].to = Calls'[j + 1].dir
      BY <2>1, <3>2, <3>3, <3>4, <3>5 DEF Descends, Kept
    <3> QED
      BY <3>6, <3>7, <3>8, <3>9, <3>10 DEF Descends
  <2> QED
    BY <2>2, <2>3
<1>12. \A k \in 1 .. n + 1 :
         /\ Len(Calls'[k].path) = k - 1 /\ IsInjective(Calls'[k].rest)
         /\ \A j \in 1 .. k - 1 : Descends(j, k)'
  <2>1. \A k \in 1 .. n + 1 : k = n + 1 \/ k \in 1 .. n
    BY <1>1
  <2>2. n + 1 - 1 = n
    BY <1>1
  <2>3. /\ IsInjective(Calls'[n + 1].rest) /\ Len(Calls'[n + 1].path) = n
    BY <1>2, <1>3, <1>5, ScanAssumption
  <2>4. ASSUME NEW k, k = n + 1
        PROVE  /\ Len(Calls'[k].path) = k - 1 /\ IsInjective(Calls'[k].rest)
               /\ \A j \in 1 .. k - 1 : Descends(j, k)'
    BY <1>11, <2>2, <2>3, <2>4
  <2> QED
    BY <1>8, <2>1, <2>4
<1> QED
  BY <1>4, <1>5, <1>6, <1>8, <1>9, <1>12 DEF Walks

(* A directory that is left: the calls around it go on. *)
LEMMA WalksLeave == ASSUME Walks, Leave, stack' # <<>> PROVE Walks'
<1> DEFINE n == Len(stack)
<1>1. n \in Nat \ {0} /\ n \in 1 .. n /\ Calls[n] = Head(stack)
  BY TopCall
<1>2. /\ stack' = Tail(stack) /\ visited' = visited \ {Head(stack).dir}
      /\ UNCHANGED <<tree, follow>>
  BY DEF Leave
<1>3. /\ stack' \in Seq(Call) /\ Len(stack') = n - 1
      /\ \A k \in 1 .. n - 1 : Calls'[k] = Calls[k]
  BY <1>2, CallsLeave
<1>4. n - 1 \in 1 .. n
  BY <1>1, <1>3
<1>5. \A k \in 1 .. n - 1 : Kept(k)
  BY <1>3 DEF Kept
<1>6. /\ Calls'[1].dir = Root
      /\ \A k \in 1 .. n - 1 :
           /\ Len(Calls'[k].path) = k - 1 /\ IsInjective(Calls'[k].rest)
           /\ \A j \in 1 .. k - 1 : Descends(j, k)'
  <2> DEFINE m == n - 1
  <2>1. m \in 1 .. Len(stack) /\ \A k \in 1 .. m : Kept(k)
    BY <1>4, <1>5
  <2> HIDE DEF m
  <2>2. /\ Calls'[1].dir = Root
        /\ \A k \in 1 .. m :
             /\ Len(Calls'[k].path) = k - 1 /\ IsInjective(Calls'[k].rest)
             /\ \A j \in 1 .. k - 1 : Descends(j, k)'
    BY <1>2, <2>1, CallsKept
  <2> QED
    BY <2>2 DEF m
<1>7. visited' = {Calls'[k].dir : k \in 1 .. n - 1}
  <2>1. visited = {Calls[k].dir : k \in 1 .. n}
    BY DEF Walks
  <2>2. \A k \in 1 .. n : k = n \/ k \in 1 .. n - 1
    BY <1>1
  <2>3. \A k \in 1 .. n - 1 : k \in 1 .. n
    BY <1>1
  <2>4. \A k \in 1 .. n - 1 : Calls[k].dir # Calls[n].dir
    BY <1>1 DEF Walks, Descends
  <2> HIDE DEF n
  <2> QED
    BY <1>1, <1>2, <1>3, <2>1, <2>2, <2>3, <2>4
<1>8. /\ tree' \in Trees /\ follow' \in BOOLEAN
  BY <1>2 DEF Walks
<1> HIDE DEF n
<1> QED
  BY <1>3, <1>6, <1>7, <1>8 DEF Walks

-----------------------------------------------------------------------------
(* A file at the entry is one of the reference definition: the calls are   *)
(* the way to it, and as no directory is twice on it there is an end.      *)
LEMMA FileHere ==
  ASSUME Walks, Walking, Holds(tree, Head(stack).dir, Head(Head(stack).rest))
  PROVE  EntryPath \in AllFiles(tree) /\ Through(EntryPath)
<1>1. PICK n \in Nat \ {0} : n = Len(stack)
  BY TopCall
<1>2. /\ Calls[n] = Head(stack) /\ n \in 1 .. n
      /\ \A k \in 1 .. n : Calls[k].dir \in Dir
  BY <1>1, TopCall
<1>3. /\ EntryPath \in Seq(EntryName) /\ Len(EntryPath) = n
      /\ EntryPath[n] = Head(Head(stack).rest)
      /\ \A i \in 1 .. n - 1 : EntryPath[i] = Head(stack).path[i]
  BY <1>1, EntryIs
<1> DEFINE dirs == [k \in 1 .. n |-> Calls[k].dir]
<1>4. dirs \in [1 .. n -> Dir] /\ \A k \in 1 .. n : dirs[k] = Calls[k].dir
  BY <1>2
<1> HIDE DEF dirs
<1>5. \A k \in 1 .. n : \A j \in 1 .. k - 1 : Descends(j, k)
  BY <1>1 DEF Walks
<1>6. IsInjective(dirs)
  <2>1. ASSUME NEW k \in 1 .. n, NEW j \in 1 .. k - 1 PROVE dirs[j] # dirs[k]
    BY <1>4, <1>5 DEF Descends
  <2>2. \A j, k \in 1 .. n : j # k => j \in 1 .. k - 1 \/ k \in 1 .. j - 1
    OBVIOUS
  <2> QED
    BY <1>4, <2>1, <2>2 DEF IsInjective
<1>7. n \in 1 .. Cardinality(Dir)
  <2>1. dirs \in Injection(1 .. n, Dir)
    BY <1>4, <1>6 DEF Injection
  <2>2. Cardinality(1 .. n) <= Cardinality(Dir)
    BY <2>1, ScanAssumption, FS_Injection
  <2>3. Cardinality(1 .. n) = n
    BY FS_Interval
  <2> QED
    BY <2>2, <2>3, ScanAssumption, FS_CardinalityType
<1>8. Way(tree, EntryPath, dirs)
  <2>1. dirs[1] = Root
    BY <1>4 DEF Walks
  <2>2. ASSUME NEW i \in 1 .. n - 1
        PROVE  Leads(tree, dirs[i], EntryPath[i]) /\ tree[dirs[i]][EntryPath[i]].to = dirs[i + 1]
    <3>1. Descends(i, n) /\ EntryPath[i] = Calls[n].path[i]
      BY <1>2, <1>3, <1>5
    <3>2. dirs[i] = Calls[i].dir /\ dirs[i + 1] = Calls[i + 1].dir
      BY <1>4
    <3> QED
      BY <3>1, <3>2 DEF Descends
  <2>3. Last(EntryPath) = Head(Head(stack).rest) /\ dirs[n] = Head(stack).dir
    BY <1>2, <1>3, <1>4 DEF Last
  <2> QED
    BY <1>3, <1>6, <2>1, <2>2, <2>3 DEF Way
<1>9. EntryPath \in AllFiles(tree)
  BY <1>3, <1>4, <1>7, <1>8, FilesAre
<1>10. Through(EntryPath)
  BY <1>1, <1>3 DEF Through
<1> QED
  BY <1>9, <1>10

(* An entry that is passed by hides no file. *)
LEMMA SearchedPass == ASSUME Walks, Searched, Pass PROVE Searched'
<1>1. /\ Walking /\ Head(stack).rest # <<>> /\ stack' = Advanced
      /\ UNCHANGED <<tree, follow, found, visited>>
  BY DEF Pass, Walking
<1>2. ASSUME NEW p \in AllFiles(tree), Through(p) PROVE FALSE
  <2>1. \/ Holds(tree, Head(stack).dir, Head(Head(stack).rest))
        \/ /\ Leads(tree, Head(stack).dir, Head(Head(stack).rest))
           /\ Entry.to \notin visited
    BY <1>2, FileThrough DEF Entry
  <2> QED
    BY <2>1 DEF Pass, Entry, Followed, Link, Holds, Leads
<1>3. \A p \in AllFiles(tree) : Todo(p)' <=> Todo(p)
  BY <1>1, <1>2, TodoAdvance, TodoThrough
<1>4. AllFiles(tree)' = AllFiles(tree)
  BY <1>1 DEF AllFiles, Way, Leads, Holds
<1> QED
  BY <1>1, <1>3, <1>4 DEF Searched

(* A file is found when the walk comes to it, and had not been before. *)
LEMMA SearchedDiscover == ASSUME Walks, Searched, Discover PROVE Searched'
<1>1. /\ Walking /\ Head(stack).rest # <<>> /\ stack' = Advanced
      /\ found' = Append(found, EntryPath) /\ UNCHANGED <<tree, follow, visited>>
  BY DEF Discover, Walking
<1>2. /\ Holds(tree, Head(stack).dir, Head(Head(stack).rest))
      /\ ~Leads(tree, Head(stack).dir, Head(Head(stack).rest))
  BY DEF Discover, Entry, Followed, Link, Holds, Leads
<1>3. EntryPath \in AllFiles(tree) /\ Through(EntryPath)
  BY <1>1, <1>2, FileHere
<1>4. ASSUME NEW p \in AllFiles(tree), Through(p) PROVE p = EntryPath
  <2>1. Len(p) = Len(stack)
    BY <1>2, <1>4, FileThrough
  <2>2. p \in Seq(EntryName)
    BY FilesAre
  <2>3. /\ EntryPath \in Seq(EntryName) /\ Len(EntryPath) = Len(stack)
        /\ EntryPath[Len(stack)] = p[Len(stack)]
        /\ \A i \in 1 .. Len(stack) - 1 : EntryPath[i] = p[i]
    BY <1>1, <1>4, EntryIs DEF Through
  <2>4. \A i \in 1 .. Len(stack) : i = Len(stack) \/ i \in 1 .. Len(stack) - 1
    BY TopCall
  <2>5. \A i \in 1 .. Len(stack) : EntryPath[i] = p[i]
    BY <2>3, <2>4
  <2> QED
    BY <2>1, <2>2, <2>3, <2>5
<1>5. \A p \in AllFiles(tree) : Todo(p)' <=> Todo(p) /\ p # EntryPath
  BY <1>1, <1>3, <1>4, TodoAdvance, TodoThrough
<1>6. EntryPath \notin Range(found)
  BY <1>1, <1>3, TodoThrough DEF Searched
<1>7. /\ found' \in Seq(AllFiles(tree)) /\ IsInjective(found')
      /\ Range(found') = Range(found) \cup {EntryPath}
  <2> DEFINE Files == AllFiles(tree)
  <2>1. found \in Seq(Files) /\ IsInjective(found) /\ EntryPath \in Files
    BY <1>3 DEF Searched
  <2> HIDE DEF Files
  <2>2. /\ found' \in Seq(Files) /\ Len(found) \in Nat /\ Len(found') = Len(found) + 1
        /\ DOMAIN found = 1 .. Len(found) /\ DOMAIN found' = 1 .. Len(found) + 1
        /\ found'[Len(found) + 1] = EntryPath
        /\ \A i \in 1 .. Len(found) : found'[i] = found[i]
    BY <1>1, <2>1
  <2>3. /\ \A i \in DOMAIN found' : i = Len(found) + 1 \/ i \in DOMAIN found
        /\ Len(found) + 1 \in DOMAIN found' /\ \A i \in DOMAIN found : i \in DOMAIN found'
        /\ \A i \in DOMAIN found : found'[i] = found[i]
    BY <2>2
  <2>4. Range(found') = Range(found) \cup {EntryPath}
    BY <2>2, <2>3 DEF Range
  <2>5. \A i \in DOMAIN found : found[i] # EntryPath
    BY <1>6 DEF Range
  <2>6. IsInjective(found')
    BY <2>1, <2>2, <2>3, <2>5 DEF IsInjective
  <2> QED
    BY <2>2, <2>4, <2>6 DEF Files
<1>8. AllFiles(tree)' = AllFiles(tree)
  BY <1>1 DEF AllFiles, Way, Leads, Holds
<1>9. \A p \in AllFiles(tree) : p \in Range(found') <=> ~Todo(p)'
  BY <1>5, <1>7 DEF Searched
<1> QED
  BY <1>7, <1>8, <1>9 DEF Searched

(* The files through a directory that is entered are ahead in it. *)
LEMMA SearchedDescend == ASSUME Walks, Searched, Descend PROVE Searched'
<1> DEFINE g == Frame(Entry.to, EntryPath)
<1>1. /\ Walking /\ Head(stack).rest # <<>> /\ stack' = <<g>> \o Advanced
      /\ UNCHANGED <<tree, follow, found>>
  BY DEF Descend, Walking
<1>2. ~Holds(tree, Head(stack).dir, Head(Head(stack).rest))
  BY DEF Descend, Entry, Holds
<1>3. PICK n \in Nat \ {0} : n = Len(stack)
  BY TopCall
<1>4. /\ EntryPath \in Seq(EntryName) /\ Len(EntryPath) = n
      /\ EntryPath[n] = Head(Head(stack).rest)
      /\ \A i \in 1 .. n - 1 : EntryPath[i] = Head(stack).path[i]
  BY <1>1, <1>3, EntryIs
<1>5. g \in Call /\ g.path = EntryPath /\ Range(g.rest) = EntryName
  BY <1>1, EntryIs, ScanAssumption DEF Call, Frame, Item, EntryName
<1> HIDE DEF g
<1>6. ASSUME NEW p \in AllFiles(tree) PROVE Ahead(g, n + 1, p) <=> Through(p)
  <2>1. p \in Seq(EntryName) /\ Len(p) \in Nat
    BY FilesAre
  <2>2. /\ \A i \in 1 .. n : i = n \/ i \in 1 .. n - 1
        /\ n \in 1 .. n /\ \A i \in 1 .. n - 1 : i \in 1 .. n
        /\ n + 1 - 1 = n
    OBVIOUS
  <2>3. ASSUME Ahead(g, n + 1, p) PROVE Through(p)
    <3>1. n + 1 <= Len(p) /\ \A i \in 1 .. n : p[i] = EntryPath[i]
      BY <1>5, <2>2, <2>3 DEF Ahead
    <3>2. n <= Len(p)
      BY <2>1, <3>1
    <3> QED
      BY <1>3, <1>4, <2>2, <3>1, <3>2 DEF Through
  <2>4. ASSUME Through(p) PROVE Ahead(g, n + 1, p)
    <3>1. Len(p) > n
      BY <1>2, <1>3, <2>4, FileThrough
    <3>2. n + 1 <= Len(p) /\ n + 1 \in 1 .. Len(p)
      BY <2>1, <3>1
    <3>3. p[n + 1] \in EntryName
      BY <2>1, <3>2
    <3>4. \A i \in 1 .. n : p[i] = EntryPath[i]
      BY <1>3, <1>4, <2>2, <2>4 DEF Through
    <3> QED
      BY <1>5, <2>2, <3>2, <3>3, <3>4 DEF Ahead
  <2> QED
    BY <2>3, <2>4
<1>7. \A p \in AllFiles(tree) : Todo(p)' <=> Todo(p)
  BY <1>1, <1>3, <1>5, <1>6, TodoEnter, TodoThrough
<1>8. AllFiles(tree)' = AllFiles(tree)
  BY <1>1 DEF AllFiles, Way, Leads, Holds
<1> QED
  BY <1>1, <1>7, <1>8 DEF Searched

(* A directory is left with nothing to look at. *)
LEMMA SearchedLeave == ASSUME Walks, Searched, Leave PROVE Searched'
<1>1. /\ Head(stack).rest = <<>> /\ stack' = Tail(stack) /\ UNCHANGED <<tree, follow, found>>
  BY DEF Leave
<1>2. \A p \in AllFiles(tree) : Todo(p)' <=> Todo(p)
  BY <1>1, TodoLeave
<1>3. AllFiles(tree)' = AllFiles(tree)
  BY <1>1 DEF AllFiles, Way, Leads, Holds
<1> QED
  BY <1>1, <1>2, <1>3 DEF Searched

(* When the outermost one is left, nothing is ahead. *)
LEMMA SearchEnds ==
  ASSUME Walks, Searched, Leave, stack' = <<>>
  PROVE  Range(found)' = AllFiles(tree)' /\ IsInjective(found)'
<1> DEFINE Files == AllFiles(tree)
<1>1. Searched' /\ UNCHANGED <<tree, follow, found>>
  BY SearchedLeave DEF Leave
<1>2. AllFiles(tree)' = Files
  BY <1>1 DEF AllFiles, Way, Leads, Holds
<1>3. \A p : ~Todo(p)'
  BY DEF Todo
<1>4. \A p \in Files : p \in Range(found')
  BY <1>1, <1>2, <1>3 DEF Searched
<1>5. found' \in Seq(Files) /\ IsInjective(found')
  BY <1>1, <1>2 DEF Searched
<1> HIDE DEF Files
<1>6. Range(found') \subseteq Files
  BY <1>5 DEF Range
<1> QED
  BY <1>2, <1>4, <1>5, <1>6

(* In the beginning every file is ahead of the call for the root. *)
LEMMA FindInit == Init => FindInv
<1> SUFFICES ASSUME Init PROVE FindInv
  OBVIOUS
<1>1. CASE NoScan
  BY <1>1 DEF NoScan, FindInv, FindsEveryFile
<1>2. CASE ScanInit
  <2> DEFINE f == Frame(Root, <<>>)
  <2>1. /\ scan = "walk" /\ stack = <<f>> /\ visited = {Root} /\ found = <<>>
        /\ tree \in Trees /\ follow \in BOOLEAN
    BY <1>2 DEF ScanInit
  <2>2. /\ f \in Call /\ f.dir = Root /\ f.path = <<>> /\ f.rest = Order /\ Range(f.rest) = EntryName
        /\ IsInjective(f.rest) /\ Len(f.path) = 0
    BY ScanAssumption DEF Frame, Call, EntryName
  <2> HIDE DEF f
  <2>3. Len(stack) = 1 /\ Calls[1] = f /\ stack \in Seq(Call) /\ stack # <<>>
    BY <2>1, <2>2 DEF Calls, Reverse
  <2>4. \A k \in 1 .. Len(stack) : k = 1
    BY <2>3
  <2>5. 1 \in 1 .. Len(stack)
    BY <2>3
  <2>6. Walks
    <3>1. visited = {Calls[k].dir : k \in 1 .. Len(stack)}
      BY <2>1, <2>2, <2>3, <2>4, <2>5
    <3>2. \A k \in 1 .. Len(stack) :
            /\ Len(Calls[k].path) = k - 1 /\ IsInjective(Calls[k].rest)
            /\ \A j \in 1 .. k - 1 : Descends(j, k)
      BY <2>2, <2>3, <2>4
    <3> QED
      BY <2>1, <2>2, <2>3, <3>1, <3>2 DEF Walks
  <2>7. ASSUME NEW p \in AllFiles(tree) PROVE Todo(p)
    <3>1. p \in Seq(EntryName) /\ Len(p) \in Nat /\ Len(p) # 0
      BY FilesAre, ScanAssumption, FS_CardinalityType
    <3>2. p[1] \in EntryName /\ 1 <= Len(p)
      BY <3>1
    <3>3. Ahead(Calls[1], 1, p)
      BY <2>2, <2>3, <3>2 DEF Ahead
    <3> QED
      BY <2>5, <3>3 DEF Todo
  <2>8. found \in Seq(AllFiles(tree)) /\ IsInjective(found) /\ Range(found) = {}
    BY <2>1 DEF IsInjective, Range
  <2>9. Searched
    BY <2>7, <2>8 DEF Searched
  <2> QED
    BY <2>1, <2>6, <2>9 DEF FindInv, FindsEveryFile
<1> QED
  BY <1>1, <1>2 DEF Init

(* Step by step; what is not the walk leaves it alone. *)
LEMMA FindStep == ASSUME FindInv, [Next]_vars PROVE FindInv'
<1>1. ASSUME UNCHANGED <<tree, follow, scan, stack, visited, found>> PROVE FindInv'
  <2>1. AllFiles(tree)' = AllFiles(tree)
    BY <1>1 DEF AllFiles, Way, Leads, Holds
  <2>2. FindsEveryFile'
    BY <1>1, <2>1 DEF FindInv, FindsEveryFile
  <2>3. Calls' = Calls
    BY <1>1 DEF Calls
  <2>4. \A p : Todo(p)' <=> Todo(p)
    BY <1>1, <2>3 DEF Todo
  <2>5. \A j, k : Descends(j, k)' <=> Descends(j, k)
    BY <1>1, <2>3 DEF Descends, Leads
  <2>6. Walks => Walks'
    BY <1>1, <2>3, <2>5 DEF Walks
  <2>7. Searched => Searched'
    BY <1>1, <2>1, <2>4 DEF Searched
  <2> QED
    BY <1>1, <2>2, <2>6, <2>7 DEF FindInv
<1>2. ASSUME scan' \notin {"walk", "stage"} PROVE FindInv'
  BY <1>2 DEF FindInv, FindsEveryFile
<1>3. CASE Pass \/ Discover \/ Descend
  <2>1. Walks /\ Searched /\ scan' = "walk"
    BY <1>3 DEF Pass, Discover, Descend, Walking, FindInv
  <2>2. Searched'
    BY <1>3, <2>1, SearchedPass, SearchedDiscover, SearchedDescend
  <2>3. Walks'
    <3>1. CASE Pass \/ Discover
      BY <2>1, <3>1, WalksAdvance DEF Pass, Discover, Walking
    <3> QED
      BY <1>3, <2>1, <3>1, WalksDescend
  <2> QED
    BY <2>1, <2>2, <2>3 DEF FindInv, FindsEveryFile
<1>4. CASE Leave
  <2>1. Walks /\ Searched
    BY <1>4 DEF Leave, FindInv
  <2>2. Searched'
    BY <1>4, <2>1, SearchedLeave
  <2>3. CASE stack' = <<>>
    <3>1. scan' = "stage"
      BY <1>4, <2>3 DEF Leave
    <3>2. Range(found)' = AllFiles(tree)' /\ IsInjective(found)'
      BY <1>4, <2>1, <2>3, SearchEnds
    <3> QED
      BY <3>1, <3>2 DEF FindInv, FindsEveryFile
  <2>4. CASE stack' # <<>>
    <3>1. scan' = "walk"
      BY <1>4, <2>4 DEF Leave
    <3>2. Walks'
      BY <1>4, <2>1, <2>4, WalksLeave
    <3> QED
      BY <2>2, <3>1, <3>2 DEF FindInv, FindsEveryFile
  <2> QED
    BY <2>3, <2>4
<1>5. CASE LinkBroken \/ ScanFails \/ ScanReturns
  BY <1>2, <1>5 DEF LinkBroken, ScanFails, ScanReturns, Abandon
<1>6. CASE StageFile \/ HashFile \/ EditSources
  BY <1>1, <1>6 DEF StageFile, HashFile, EditSources, walk
<1>7. CASE UNCHANGED scanVars
  BY <1>1, <1>7 DEF scanVars, walk
<1>8. CASE Return
  BY <1>2, <1>8 DEF Return
<1>9. CASE CopyStaged \/ Sign \/ RunFails \/ UNCHANGED vars
  BY <1>7, <1>9 DEF CopyStaged, Sign, RunFails, vars
<1> QED
  BY <1>3, <1>4, <1>5, <1>6, <1>7, <1>8, <1>9 DEF Next, Proceed, ScanProceeds

(* The walk ends having found every file of the tree that a way leads to,  *)
(* each one once, whatever the links in the tree.                          *)
THEOREM RunFindsEveryFile == Spec => []FindsEveryFile
<1>1. FindInv /\ [Next]_vars => FindInv'
  BY FindStep
<1>2. FindInv => FindsEveryFile
  BY DEF FindInv
<1> QED
  BY <1>1, <1>2, FindInit, PTL DEF Spec
=============================================================================
