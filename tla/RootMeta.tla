------------------------------ MODULE RootMeta ------------------------------
(***************************************************************************)
(* The life of a root.json (internal/root): init, the edits of thresholds, *)
(* keys, version and expiry, incremental signing and cross-signing, and    *)
(* its publication as the successor of an older root.                      *)
(*                                                                         *)
(* A signature is the content it was made over.  Clients (go-tuf) accept a *)
(* new root when it has the version after the one they trust, and          *)
(* VerifyDelegate counts enough valid signatures against the root role of  *)
(* that one and of the new one.  Thresholds and versions are unsigned      *)
(* integers on the command line and signed ones of the same width in the   *)
(* file.                                                                   *)
(***************************************************************************)
EXTENDS Integers, FiniteSets

CONSTANTS Key,        \* key IDs
          Role,       \* the top-level roles
          Root,       \* the role "root"
          None,
          Wrap,       \* 2^63: the least integer that the signed ones lack
          Threshold,  \* thresholds given to set-threshold
          Given,      \* versions given to set-version
          DefaultThreshold,  \* 1507: more than a role has keys
          Bumped,     \* bound: versions that bump-version is run on
          MaxKeys     \* bound: keys of a role

ASSUME RootAssumption ==
  /\ Root \in Role /\ Wrap \in Nat \ {0}
  /\ Threshold \cup Given \subseteq 0 .. 2 * Wrap - 1
  /\ Wrap > 1 /\ Bumped \subseteq -Wrap .. Wrap - 1 /\ MaxKeys \in Nat
  /\ DefaultThreshold \in MaxKeys + 1 .. Wrap - 1

VARIABLES signed,   \* root.json: the signed part
          sigs,     \* root.json: the signature of each key
          old,      \* the published root: signed part and signatures
          checked   \* which checks `root sign' passed since the last edit

file == <<signed, sigs>>
vars == <<signed, sigs, old, checked>>

Int64 == -Wrap .. Wrap - 1
RoleKeys == [keys : SUBSET Key, threshold : Int64]
Signed == [version : Int64, roles : [Role -> RoleKeys], known : SUBSET Key]

(* The variables keep their types: whatever unsigned numbers are given,    *)
(* every threshold and version is one that root.json can hold as a signed  *)
(* integer (which need not be positive).                                   *)
TypeOK ==
  /\ signed \in Signed
  /\ sigs \in [Key -> Signed \cup {None}]
  /\ old = None \/ old \in [signed : Signed, sigs : [Key -> Signed \cup {None}]]
  /\ checked \subseteq {"own", "cross"}

(* Faulty AsInt: keeps the unsigned number. *)
AsUnsigned(u) == u

(* int(uint64) and int64(uint64) of Go. *)
AsInt(u) == IF u >= Wrap THEN u - 2 * Wrap ELSE u

(* One more, which overflows. *)
Succ(v) == IF v = Wrap - 1 THEN -Wrap ELSE v + 1

NoSignatures == [k \in Key |-> None]

(* root init: no keys, and thresholds no set of keys reaches. *)
Init ==
  /\ signed = [version |-> 1, known |-> {},
               roles |-> [r \in Role |-> [keys |-> {}, threshold |-> DefaultThreshold]]]
  /\ sigs = NoSignatures /\ old = None /\ checked = {}

-----------------------------------------------------------------------------

(* Faulty Edit: the signatures are not cleared. *)
EditUncleared(new) ==
  /\ signed' = new
  /\ checked' = {}
  /\ UNCHANGED <<sigs, old>>

(* Every edit loads the file, changes the signed part, clears the          *)
(* signatures and saves it.                                                *)
Edit(new) ==
  /\ signed' = new
  /\ sigs' = NoSignatures
  /\ checked' = {}
  /\ UNCHANGED old

SetThreshold(r, t) ==
  /\ t # 0
  /\ Edit([signed EXCEPT !.roles[r].threshold = AsInt(t)])

SetVersion(v) ==
  /\ v # 0
  /\ Edit([signed EXCEPT !.version = AsInt(v)])

BumpVersion ==
  /\ signed.version \in Bumped
  /\ Edit([signed EXCEPT !.version = Succ(@)])

(* Expire changes nothing that is modelled but the signatures. *)
Expire == Edit(signed)

(* AddKey, and the edit of GenRsaKey: go-tuf puts the key into the map and *)
(* the role.                                                               *)
AddKey(k, rs) ==
  /\ \A r \in rs : Cardinality(signed.roles[r].keys \cup {k}) <= MaxKeys
  /\ LET roles == [r \in Role |-> IF r \in rs
                                   THEN [signed.roles[r] EXCEPT !.keys = @ \cup {k}]
                                   ELSE signed.roles[r]]
     IN Edit([signed EXCEPT !.roles = roles, !.known = IF rs = {} THEN @ ELSE @ \cup {k}])

(* Faulty Revoke: the key stays in the map. *)
RevokeFromRoles(k, rs) ==
  [signed EXCEPT !.roles =
     [r \in Role |-> IF r \in rs THEN [@[r] EXCEPT !.keys = @ \ {k}] ELSE @[r]]]

(* RevokeKey (go-tuf) takes a key out of a role, and out of the map with   *)
(* the last role that holds it.                                            *)
Revoke(k, rs) ==
  LET roles == [r \in Role |-> IF r \in rs THEN [signed.roles[r] EXCEPT !.keys = @ \ {k}]
                               ELSE signed.roles[r]]
      heldBefore == \E r \in rs : k \in signed.roles[r].keys
      held == \E r \in Role : k \in roles[r].keys
  IN [signed EXCEPT !.roles = roles,
                    !.known = IF heldBefore /\ ~held THEN @ \ {k} ELSE @]

RemoveKey(k, rs) == Edit(Revoke(k, rs))

-----------------------------------------------------------------------------
(* VerifyDelegate: enough keys of the role signed exactly this content. A  *)
(* threshold below 1 is refused.                                           *)
RootKeys(s) == s.roles[Root].keys \cap s.known

Verifies(authority, s, signatures) ==
  /\ authority.roles[Root].threshold >= 1
  /\ Cardinality({k \in RootKeys(authority) : signatures[k] = s})
       >= authority.roles[Root].threshold

(* validateThreshold of the root itself. *)
Stable(s) ==
  /\ \A r \in Role : s.roles[r].threshold <= Cardinality(s.roles[r].keys)
  /\ s.roles[Root].keys \subseteq s.known

(* Sign: each key has to be a root key of the authority; a signature       *)
(* replaces the one the key made before.                                   *)
SignWith(ks, authority, ignoreThreshold, check) ==
  LET signatures == [k \in Key |-> IF k \in ks THEN signed ELSE sigs[k]]
      valid == /\ Stable(signed)
               /\ authority.roles[Root].keys \subseteq authority.known
               /\ Verifies(authority, signed, signatures)
  IN /\ ks \subseteq RootKeys(authority)
     /\ ignoreThreshold \/ valid
     /\ sigs' = signatures
     /\ checked' = IF ignoreThreshold THEN checked ELSE checked \cup {check}
     /\ UNCHANGED <<signed, old>>

Sign(ks, ignore) == SignWith(ks, signed, ignore, "own")

(* Faulty CrossSign: validates against the new root. *)
CrossSignOwn(ks, ignore) == old # None /\ SignWith(ks, signed, ignore, "cross")

CrossSign(ks, ignore) == old # None /\ SignWith(ks, old.signed, ignore, "cross")

(* The operator publishes a root that `root sign' has accepted: the first  *)
(* one on its own, a successor after signing it under both roots.          *)
Publish ==
  /\ "own" \in checked
  /\ old = None \/ "cross" \in checked
  /\ old' = [signed |-> signed, sigs |-> sigs]
  /\ checked' = {"own", "cross"}
  /\ UNCHANGED file

Next ==
  \/ \E r \in Role, t \in Threshold : SetThreshold(r, t)
  \/ BumpVersion \/ Expire
  \/ \E v \in Given : SetVersion(v)
  \/ \E k \in Key, rs \in SUBSET Role : AddKey(k, rs)
  \/ \E k \in Key : RemoveKey(k, Role) \/ \E r \in Role : RemoveKey(k, {r})
  \/ \E ks \in SUBSET Key, ignore \in BOOLEAN : Sign(ks, ignore) \/ CrossSign(ks, ignore)
  \/ Publish

Spec == Init /\ [][Next]_vars

-----------------------------------------------------------------------------
(* No edit leaves a signature behind that no longer verifies: everything   *)
(* the file is signed with is over what it says.                           *)
SignaturesMatch == \A k \in Key : sigs[k] # None => sigs[k] = signed

(* The map of keys holds exactly the keys some role uses, whatever edits   *)
(* came before.                                                            *)
KeysMapExact == signed.known = UNION {signed.roles[r].keys : r \in Role}

(* What a client that trusts the published root asks of the next one       *)
(* (UpdateRoot), and of the first one that it is given.                    *)
ClientAccepts(new) ==
  /\ Verifies(new.signed, new.signed, new.sigs)
  /\ old # None => /\ new.signed.version = Succ(old.signed.version)
                   /\ Verifies(old.signed, new.signed, new.sigs)

(* Whoever trusts the published root accepts the one published next, which *)
(* has the signatures both of them ask for, unless its version is not the  *)
(* next one: the version is all that `root sign' leaves unchecked.         *)
RootsFollow ==
  [][old' # old => \/ ClientAccepts(old')
                   \/ old # None /\ old'.signed.version # Succ(old.signed.version)]_vars
=============================================================================
