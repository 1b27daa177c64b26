---------------------------- MODULE RootMetaProofs ----------------------------
(***************************************************************************)
(* The life of root.json.  What `root sign' has checked stays true until   *)
(* the next edit, whoever signs after it: a signature replaces one of the  *)
(* same key over the same content.  Sets of keys are finite because keys   *)
(* are added one by one.                                                   *)
(***************************************************************************)
EXTENDS RootMeta, FiniteSetTheorems, TLAPS

FiniteKeys ==
  /\ \A r \in Role : IsFiniteSet(signed.roles[r].keys)
  /\ old # None => IsFiniteSet(old.signed.roles[Root].keys)

StillVerifies ==
  /\ "own" \in checked => Verifies(signed, signed, sigs)
  /\ "cross" \in checked /\ old # None => Verifies(old.signed, signed, sigs)

IInv == TypeOK /\ SignaturesMatch /\ KeysMapExact /\ FiniteKeys /\ StillVerifies

-----------------------------------------------------------------------------
(* What is given on the command line is stored as a signed integer, and    *)
(* counting up does not leave the signed integers.                         *)
LEMMA AsIntType ==
  /\ \A u \in Threshold \cup Given : AsInt(u) \in Int64
  /\ \A v \in Int64 : Succ(v) \in Int64
  BY RootAssumption DEF AsInt, Succ, Int64

(* An edit drops the signatures, and with them what was checked.           *)
LEMMA EditStep ==
  ASSUME IInv, NEW new \in Signed, Edit(new),
         new.known = UNION {new.roles[r].keys : r \in Role},
         \A r \in Role : IsFiniteSet(new.roles[r].keys)
  PROVE  IInv'
  BY DEF IInv, TypeOK, SignaturesMatch, KeysMapExact, FiniteKeys, StillVerifies,
         Edit, NoSignatures

(* Further signatures over the same content take none away.                *)
LEMMA MoreSignatures ==
  ASSUME NEW authority, IsFiniteSet(authority.roles[Root].keys),
         authority.roles[Root].threshold \in Int64,
         NEW s, NEW before, NEW after,
         \A k \in RootKeys(authority) : before[k] = s => after[k] = s,
         Verifies(authority, s, before)
  PROVE  Verifies(authority, s, after)
<1> DEFINE B == {k \in RootKeys(authority) : before[k] = s}
           A == {k \in RootKeys(authority) : after[k] = s}
<1>1. B \subseteq A /\ IsFiniteSet(A)
  BY FS_Subset DEF RootKeys
<1>2. Cardinality(B) <= Cardinality(A) /\ Cardinality(A) \in Nat /\ Cardinality(B) \in Nat
  BY <1>1, FS_Subset, FS_CardinalityType
<1>3. Cardinality(B) >= authority.roles[Root].threshold /\ authority.roles[Root].threshold >= 1
  BY DEF Verifies
<1>4. Cardinality(A) >= authority.roles[Root].threshold
  <2> HIDE DEF A, B
  <2> QED
    BY <1>2, <1>3, RootAssumption DEF Int64
<1> QED
  BY <1>3, <1>4 DEF Verifies

(* `root init' writes a document without keys and signatures. *)
LEMMA InitInv == Init => IInv
<1> SUFFICES ASSUME Init PROVE IInv
  OBVIOUS
<1>1. TypeOK /\ SignaturesMatch
  BY RootAssumption DEF Init, TypeOK, Signed, RoleKeys, Int64, NoSignatures, SignaturesMatch
<1>2. KeysMapExact
  BY DEF Init, KeysMapExact
<1>3. FiniteKeys
  BY FS_EmptySet DEF Init, FiniteKeys
<1> QED
  BY <1>1, <1>2, <1>3 DEF IInv, StillVerifies, Init

-----------------------------------------------------------------------------
(* The edits. *)
LEMMA SetThresholdStep ==
  ASSUME IInv, NEW r \in Role, NEW t \in Threshold, SetThreshold(r, t)
  PROVE  IInv'
<1> DEFINE new == [signed EXCEPT !.roles[r].threshold = AsInt(t)]
<1>1. signed \in Signed /\ AsInt(t) \in Int64
  BY AsIntType DEF IInv, TypeOK
<1>2. /\ new.known = signed.known /\ new.version = signed.version
      /\ \A x \in Role : new.roles[x].keys = signed.roles[x].keys
  BY <1>1 DEF Signed, RoleKeys
<1>3. new \in Signed
  BY <1>1 DEF Signed, RoleKeys
<1>4. Edit(new)
  BY DEF SetThreshold
<1> HIDE DEF new
<1>5. UNION {new.roles[x].keys : x \in Role} = UNION {signed.roles[x].keys : x \in Role}
  BY <1>2
<1> QED
  BY <1>2, <1>3, <1>4, <1>5, EditStep DEF IInv, KeysMapExact, FiniteKeys

(* `root set-version' and `root bump-version' change a number only. *)
LEMMA VersionStep ==
  ASSUME IInv, NEW v \in Int64, Edit([signed EXCEPT !.version = v])
  PROVE  IInv'
<1> DEFINE new == [signed EXCEPT !.version = v]
<1>1. new \in Signed /\ new.known = signed.known /\ new.roles = signed.roles
  BY DEF IInv, TypeOK, Signed
<1>2. Edit(new)
  OBVIOUS
<1> HIDE DEF new
<1> QED
  BY <1>1, <1>2, EditStep DEF IInv, KeysMapExact, FiniteKeys

(* `root add-key' enters the key for its roles and in the list of keys. *)
LEMMA AddKeyStep ==
  ASSUME IInv, NEW k \in Key, NEW rs \in SUBSET Role, AddKey(k, rs)
  PROVE  IInv'
<1> DEFINE known == IF rs = {} THEN signed.known ELSE signed.known \cup {k}
           roles == [r \in Role |-> IF r \in rs
                                    THEN [signed.roles[r] EXCEPT !.keys = @ \cup {k}]
                                    ELSE signed.roles[r]]
           new == [signed EXCEPT !.roles = roles, !.known = known]
<1>1. signed \in Signed
  BY DEF IInv, TypeOK
<1>2. Edit(new)
  BY DEF AddKey
<1>3. \A r \in Role : /\ roles[r] \in RoleKeys
                      /\ roles[r].keys = IF r \in rs THEN signed.roles[r].keys \cup {k}
                                         ELSE signed.roles[r].keys
  BY <1>1 DEF Signed, RoleKeys
<1>4. known \in SUBSET Key /\ roles \in [Role -> RoleKeys]
  BY <1>1, <1>3 DEF Signed
<1> HIDE DEF roles, known
<1>5. new \in Signed /\ new.known = known /\ new.roles = roles
  BY <1>1, <1>4 DEF Signed
<1> HIDE DEF new
<1>6. known = UNION {roles[r].keys : r \in Role}
  <2>1. signed.known = UNION {signed.roles[r].keys : r \in Role}
    BY DEF IInv, KeysMapExact
  <2>2. ASSUME NEW x PROVE x \in known <=> \E r \in Role : x \in roles[r].keys
    <3>1. \A r \in Role : x \in roles[r].keys <=>
                          x \in signed.roles[r].keys \/ (r \in rs /\ x = k)
      BY <1>3
    <3>2. x \in signed.known <=> \E r \in Role : x \in signed.roles[r].keys
      BY <2>1
    <3>3. x \in known <=> x \in signed.known \/ (rs # {} /\ x = k)
      BY DEF known
    <3> QED
      BY <3>1, <3>2, <3>3
  <2> QED
    BY <2>2
<1>7. \A r \in Role : IsFiniteSet(roles[r].keys)
  <2>1. \A r \in Role : IsFiniteSet(signed.roles[r].keys)
    BY DEF IInv, FiniteKeys
  <2>2. \A r \in Role : IsFiniteSet(signed.roles[r].keys \cup {k})
    BY <2>1, FS_AddElement
  <2> QED
    BY <1>3, <2>1, <2>2
<1> QED
  BY <1>2, <1>5, <1>6, <1>7, EditStep

(* `root remove-key' drops a key from the list when no role has it any     *)
(* more.                                                                   *)
LEMMA RemoveKeyStep ==
  ASSUME IInv, NEW k \in Key, NEW rs \in SUBSET Role, RemoveKey(k, rs)
  PROVE  IInv'
<1> DEFINE new == Revoke(k, rs)
           roles == [r \in Role |-> IF r \in rs THEN [signed.roles[r] EXCEPT !.keys = @ \ {k}]
                                    ELSE signed.roles[r]]
           heldBefore == \E r \in rs : k \in signed.roles[r].keys
           held == \E r \in Role : k \in roles[r].keys
<1>1. signed \in Signed
  BY DEF IInv, TypeOK
<1>2. \A r \in Role : /\ roles[r] \in RoleKeys
                      /\ roles[r].keys = IF r \in rs THEN signed.roles[r].keys \ {k}
                                         ELSE signed.roles[r].keys
  BY <1>1 DEF Signed, RoleKeys
<1>3. /\ new.known = IF heldBefore /\ ~held THEN signed.known \ {k} ELSE signed.known
      /\ new.version = signed.version /\ new.roles = roles
  BY <1>1 DEF Signed, Revoke
<1>4. roles \in [Role -> RoleKeys] /\ new.known \in SUBSET Key
  BY <1>1, <1>2, <1>3 DEF Signed
<1>5. new \in Signed
  <2> DEFINE known == IF heldBefore /\ ~held THEN signed.known \ {k} ELSE signed.known
  <2>1. new = [signed EXCEPT !.roles = roles, !.known = known]
    BY DEF Revoke
  <2>2. known \in SUBSET Key
    BY <1>3, <1>4
  <2> HIDE DEF roles, new, known
  <2> QED
    BY <1>1, <1>4, <2>1, <2>2 DEF Signed
<1> HIDE DEF new, roles
<1>6. new.known = UNION {new.roles[r].keys : r \in Role}
  <2>1. signed.known = UNION {signed.roles[r].keys : r \in Role}
    BY DEF IInv, KeysMapExact
  <2>2. ASSUME NEW x PROVE x \in new.known <=> \E r \in Role : x \in roles[r].keys
    <3>1. \A r \in Role : x \in roles[r].keys <=>
                          x \in signed.roles[r].keys /\ ~(r \in rs /\ x = k)
      BY <1>2
    <3>2. x \in signed.known <=> \E r \in Role : x \in signed.roles[r].keys
      BY <2>1
    <3>3. x \in new.known <=> x \in signed.known /\ ~(x = k /\ heldBefore /\ ~held)
      BY <1>3
    <3> QED
      BY <3>1, <3>2, <3>3
  <2> QED
    BY <1>3, <2>2
<1>7. \A r \in Role : IsFiniteSet(new.roles[r].keys)
  <2>1. \A r \in Role : IsFiniteSet(signed.roles[r].keys)
    BY DEF IInv, FiniteKeys
  <2>2. \A r \in Role : IsFiniteSet(signed.roles[r].keys \ {k})
    BY <2>1, FS_RemoveElement
  <2> QED
    BY <1>2, <1>3, <2>1, <2>2
<1>8. Edit(new)
  BY DEF RemoveKey, new
<1> QED
  BY <1>5, <1>6, <1>7, <1>8, EditStep

-----------------------------------------------------------------------------
(* Signing.  The authority is the root itself, or the published one.       *)
LEMMA SignStep ==
  ASSUME IInv, NEW ks \in SUBSET Key, NEW ignore \in BOOLEAN,
         NEW check \in {"own", "cross"},
         SignWith(ks, IF check = "own" THEN signed ELSE old.signed, ignore, check),
         check = "cross" => old # None
  PROVE  IInv'
<1> DEFINE signatures == [k \in Key |-> IF k \in ks THEN signed ELSE sigs[k]]
           authority == IF check = "own" THEN signed ELSE old.signed
<1>1. /\ sigs' = signatures /\ UNCHANGED <<signed, old>>
      /\ checked' = IF ignore THEN checked ELSE checked \cup {check}
      /\ ~ignore => Verifies(authority, signed, signatures)
  BY DEF SignWith
<1>2. signed \in Signed /\ sigs \in [Key -> Signed \cup {None}]
  BY DEF IInv, TypeOK
<1>3. TypeOK'
  BY <1>1, <1>2 DEF IInv, TypeOK
<1>4. SignaturesMatch'
  BY <1>1 DEF IInv, SignaturesMatch
<1>5. KeysMapExact' /\ FiniteKeys'
  BY <1>1 DEF IInv, KeysMapExact, FiniteKeys
<1>6. ASSUME NEW who \in Signed, IsFiniteSet(who.roles[Root].keys), Verifies(who, signed, sigs)
      PROVE  Verifies(who, signed, signatures)
  <2>1. who.roles[Root].threshold \in Int64 /\ RootKeys(who) \subseteq Key
    BY RootAssumption DEF Signed, RoleKeys, RootKeys
  <2>2. \A k \in RootKeys(who) : sigs[k] = signed => signatures[k] = signed
    BY <2>1
  <2> HIDE DEF signatures
  <2> QED
    BY <1>6, <2>1, <2>2, MoreSignatures
<1>7. old # None => old.signed \in Signed
  BY DEF IInv, TypeOK
<1>8. "own" \in checked => Verifies(signed, signed, signatures)
  BY <1>2, <1>6, RootAssumption DEF IInv, FiniteKeys, StillVerifies
<1>9. "cross" \in checked /\ old # None => Verifies(old.signed, signed, signatures)
  BY <1>6, <1>7 DEF IInv, FiniteKeys, StillVerifies
<1>10. StillVerifies'
  <2> HIDE DEF signatures
  <2>1. /\ "own" \in checked' => Verifies(signed, signed, signatures)
        /\ "cross" \in checked' /\ old # None => Verifies(old.signed, signed, signatures)
    BY <1>1, <1>8, <1>9
  <2> QED
    BY <1>1, <2>1 DEF StillVerifies
<1> QED
  BY <1>3, <1>4, <1>5, <1>10 DEF IInv

(* What a published root owes the clients of the one before. *)
Follows ==
  \/ ClientAccepts(old')
  \/ old # None /\ old'.signed.version # Succ(old.signed.version)

(* A root that was signed and checked is accepted by the clients of the    *)
(* one before, if its version is the next one.                             *)
LEMMA PublishStep == ASSUME IInv, Publish PROVE IInv' /\ Follows
<1>1. old' = [signed |-> signed, sigs |-> sigs] /\ checked' = {"own", "cross"}
      /\ UNCHANGED <<signed, sigs>>
  BY DEF Publish, file
<1>2. Verifies(signed, signed, sigs) /\ (old # None => Verifies(old.signed, signed, sigs))
  BY DEF Publish, IInv, StillVerifies
<1>3. old'.signed = signed /\ old'.sigs = sigs
  BY <1>1
<1>4. Follows
  BY <1>2, <1>3 DEF Follows, ClientAccepts
<1>5. TypeOK'
  BY <1>1 DEF IInv, TypeOK
<1>6. SignaturesMatch' /\ KeysMapExact'
  BY <1>1 DEF IInv, SignaturesMatch, KeysMapExact
<1>7. FiniteKeys'
  BY <1>1, <1>3, RootAssumption DEF IInv, FiniteKeys
<1>8. StillVerifies'
  BY <1>1, <1>2, <1>3 DEF StillVerifies
<1> QED
  BY <1>4, <1>5, <1>6, <1>7, <1>8 DEF IInv

(* Every command keeps the invariant, and publishes under the next version *)
(* only what clients accept.                                               *)
LEMMA StepInv ==
  ASSUME IInv, [Next]_vars
  PROVE  IInv' /\ (old' # old => Follows)
<1>1. ASSUME NEW r \in Role, NEW t \in Threshold, SetThreshold(r, t)
      PROVE  IInv' /\ UNCHANGED old
  BY <1>1, SetThresholdStep DEF SetThreshold, Edit
<1>2. ASSUME NEW v \in Given, SetVersion(v)
      PROVE  IInv' /\ UNCHANGED old
  <2>1. AsInt(v) \in Int64 /\ Edit([signed EXCEPT !.version = AsInt(v)])
    BY <1>2, AsIntType DEF SetVersion
  <2> QED
    BY <2>1, VersionStep DEF Edit
<1>3. ASSUME BumpVersion PROVE IInv' /\ UNCHANGED old
  <2>1. Succ(signed.version) \in Int64 /\ Edit([signed EXCEPT !.version = Succ(signed.version)])
    BY <1>3, AsIntType DEF BumpVersion, IInv, TypeOK, Signed
  <2> QED
    BY <2>1, VersionStep DEF Edit
<1>4. ASSUME Expire PROVE IInv' /\ UNCHANGED old
  <2>1. Edit(signed)
    BY <1>4 DEF Expire
  <2> QED
    BY <2>1, EditStep DEF IInv, TypeOK, KeysMapExact, FiniteKeys, Edit
<1>5. ASSUME NEW k \in Key, NEW rs \in SUBSET Role, AddKey(k, rs)
      PROVE  IInv' /\ UNCHANGED old
  BY <1>5, AddKeyStep DEF AddKey, Edit
<1>6. ASSUME NEW k \in Key, NEW rs \in SUBSET Role, RemoveKey(k, rs)
      PROVE  IInv' /\ UNCHANGED old
  BY <1>6, RemoveKeyStep DEF RemoveKey, Edit
<1>7. ASSUME NEW ks \in SUBSET Key, NEW ignore \in BOOLEAN, Sign(ks, ignore)
      PROVE  IInv' /\ UNCHANGED old
  <2>1. SignWith(ks, IF "own" = "own" THEN signed ELSE old.signed, ignore, "own")
    BY <1>7 DEF Sign
  <2> QED
    BY <2>1, SignStep DEF SignWith
<1>8. ASSUME NEW ks \in SUBSET Key, NEW ignore \in BOOLEAN, CrossSign(ks, ignore)
      PROVE  IInv' /\ UNCHANGED old
  <2>1. /\ SignWith(ks, IF "cross" = "own" THEN signed ELSE old.signed, ignore, "cross")
        /\ old # None
    BY <1>8 DEF CrossSign
  <2> QED
    BY <2>1, SignStep DEF SignWith
<1>9. CASE Publish
  BY <1>9, PublishStep
<1>10. CASE UNCHANGED vars
  BY <1>10 DEF vars, file, IInv, TypeOK, SignaturesMatch, KeysMapExact, FiniteKeys, StillVerifies
<1>11. Role \in SUBSET Role /\ \A r \in Role : {r} \in SUBSET Role
  OBVIOUS
<1> QED
  BY <1>1, <1>2, <1>3, <1>4, <1>5, <1>6, <1>7, <1>8, <1>9, <1>10, <1>11 DEF Next

-----------------------------------------------------------------------------
(* Every threshold and version that the commands produce is one that       *)
(* root.json holds as a signed integer, whatever unsigned numbers were     *)
(* given and however often the version was bumped.                         *)
THEOREM RootTypes == Spec => []TypeOK
<1>1. IInv /\ [Next]_vars => IInv'
  BY StepInv
<1>2. IInv => TypeOK
  BY DEF IInv
<1> QED
  BY <1>1, <1>2, InitInv, PTL DEF Spec

(* No signature outlives the content it was made over. *)
THEOREM RootSignaturesMatch == Spec => []SignaturesMatch
<1>1. IInv /\ [Next]_vars => IInv'
  BY StepInv
<1>2. IInv => SignaturesMatch
  BY DEF IInv
<1> QED
  BY <1>1, <1>2, InitInv, PTL DEF Spec

(* The map of keys is exact, for any sets of keys and roles. *)
THEOREM RootKeysMapExact == Spec => []KeysMapExact
<1>1. IInv /\ [Next]_vars => IInv'
  BY StepInv
<1>2. IInv => KeysMapExact
  BY DEF IInv
<1> QED
  BY <1>1, <1>2, InitInv, PTL DEF Spec

(* A root that is published after `root sign' accepted it, under the       *)
(* version after the published one's, is accepted by whoever trusts that.  *)
THEOREM RootsFollowEachOther == Spec => RootsFollow
<1>1. IInv /\ [Next]_vars => IInv'
  BY StepInv
<1>2. IInv /\ [Next]_vars =>
        [old' # old => \/ ClientAccepts(old')
                       \/ old # None /\ old'.signed.version # Succ(old.signed.version)]_vars
  BY StepInv DEF Follows
<1> QED
  BY <1>1, <1>2, InitInv, PTL DEF Spec, RootsFollow
=============================================================================
