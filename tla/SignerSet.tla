----------------------------- MODULE SignerSet -----------------------------
(***************************************************************************)
(* The signers of a run that publishes (internal/keys): the keys given on  *)
(* the command line are loaded one after the other, from files, from the   *)
(* smart card and from Vault; the roles are signed with those that         *)
(* root.json authorises; and whatever was opened is closed again.          *)
(* SignAndWrite does this with a SignerSet, transfer-metadata in a way of  *)
(* its own: it checks all roles before it writes the first.                *)
(*                                                                         *)
(* A key on the command line is its kind and its key ID.  The card can be  *)
(* opened by one handle at a time.                                         *)
(***************************************************************************)
EXTENDS Integers, Sequences, FiniteSets, Functions

CONSTANTS KeyId,         \* key IDs
          CommandLines,  \* the lists of keys that may be given
          Roots,         \* what root.json may say of the roles
          NoRoot         \* root.json is not read yet

Role == {"targets", "snapshot", "timestamp"}
Key == [kind : {"file", "card", "vault"}, id : KeyId]
RootDoc == [Role -> [keys : SUBSET KeyId, threshold : Nat]]

ASSUME SignerAssumption ==
  /\ CommandLines \subseteq Seq(Key)
  /\ \A r \in Roots : r \in RootDoc /\ r # NoRoot

VARIABLES sign,      \* phase of SignAndWrite, or of signAndWriteTransfer
          transfer,  \* which of the two it is
          given,     \* keys still to be loaded
          entries,   \* the SignerSet, or allSigners
          card,      \* handles of the card that are open
          root,      \* root.json
          signed,    \* history: the roles this run has signed
          sigs       \* key IDs of the signatures on the metadata of a role,
                     \* by the places of the keys that made them

signVars == <<sign, transfer, given, entries, card, root, signed, sigs>>

(* Metadata that was loaded bears the signatures of an earlier run. *)
SignInit ==
  /\ sign = "off" /\ transfer = FALSE /\ given = <<>> /\ entries = <<>>
  /\ card = 0 /\ root = NoRoot /\ signed = {}
  /\ sigs \in {[r \in Role |-> s] : s \in {<<>>} \cup {<<k>> : k \in KeyId}}

SignStart(isTransfer) ==
  /\ sign = "off"
  /\ given' \in CommandLines /\ transfer' = isTransfer /\ sign' = "load"
  /\ UNCHANGED <<entries, card, root, signed, sigs>>

-----------------------------------------------------------------------------
(* LoadSignerSetFromAll, and the two loops of signAndWriteTransfer. *)
Loading == sign = "load" /\ given # <<>>
Loaded == sign = "load" /\ given = <<>>

LoadKey(kind) ==
  /\ Loading /\ Head(given).kind = kind
  /\ entries' = Append(entries, Head(given)) /\ given' = Tail(given)
  /\ UNCHANGED <<sign, transfer, card, root, signed, sigs>>

LoadFileKey == LoadKey("file")
LoadVaultKey == LoadKey("vault")

OpenCard ==
  /\ Loading /\ Head(given).kind = "card" /\ card = 0
  /\ card' = card + 1 /\ sign' = "card"
  /\ UNCHANGED <<transfer, given, entries, root, signed, sigs>>

(* loadPIVSigner has read the certificate and the private key's handle. *)
ReadCard ==
  /\ sign = "card"
  /\ entries' = Append(entries, Head(given)) /\ given' = Tail(given)
  /\ sign' = "load"
  /\ UNCHANGED <<transfer, card, root, signed, sigs>>

(* What Close, or the deferred calls of transfer, close: a handle for each *)
(* entry that is a card.                                                   *)
Handles == Cardinality({i \in DOMAIN entries : entries[i].kind = "card"})

Returns(open) ==
  /\ sign' = "returned" /\ card' = open
  /\ given' = <<>> /\ entries' = <<>> /\ root' = NoRoot
  /\ UNCHANGED <<transfer, signed, sigs>>

(* Faulty ReadCardFails: a card without the key, or whose PIN is missing,  *)
(* stays open.                                                             *)
ReadCardFailsOpen == sign = "card" /\ Returns(card - Handles)

(* loadPIVSigner closes its client, and LoadSignerSet the set. *)
ReadCardFails == sign = "card" /\ Returns(card - 1 - Handles)

LoadFails == Loading /\ Returns(card - Handles)

(* A second slot of the card cannot be opened beside the first. *)
CardHeld == Loading /\ Head(given).kind = "card" /\ card > 0 /\ Returns(card - Handles)

-----------------------------------------------------------------------------
(* The signers that root r authorises for a role, by their places in the   *)
(* list: for transfer every one that was given, ...                        *)
AllMatched(r, role) == {i \in DOMAIN entries : entries[i].id \in r[role].keys}

(* ... for SignForRole the first of those with one key ID. *)
Matched(r, role) ==
  {i \in AllMatched(r, role) : \A j \in 1 .. i - 1 : entries[j].id # entries[i].id}

(* The conditions of SignForRole and of findSignersForRole. *)
Enough(r, role) ==
  Matched(r, role) # {} /\ Cardinality(Matched(r, role)) >= r[role].threshold

EnoughForTransfer(r, role) ==
  LET ids == {entries[i].id : i \in AllMatched(r, role)}
  IN ids # {} /\ r[role].threshold > 0 /\ Cardinality(ids) >= r[role].threshold

(* With ReuseTargets the targets are not signed. *)
ReadRoot ==
  /\ Loaded /\ ~transfer
  /\ root' \in Roots /\ sign' \in {"targets", "snapshot"}
  /\ UNCHANGED <<transfer, given, entries, card, signed, sigs>>

CheckRoles ==
  /\ Loaded /\ transfer
  /\ \E r \in Roots :
       IF \A role \in Role : EnoughForTransfer(r, role)
       THEN /\ root' = r /\ sign' = "targets"
            /\ UNCHANGED <<transfer, given, entries, card, signed, sigs>>
       ELSE Returns(card - Handles)

After == [targets |-> "snapshot", snapshot |-> "timestamp", timestamp |-> "close"]

SignWith(role, signers) ==
  /\ sigs' = [sigs EXCEPT ![role] = [i \in signers |-> entries[i].id]]
  /\ signed' = signed \cup {role} /\ sign' = After[role]
  /\ UNCHANGED <<transfer, given, entries, card, root>>

(* The signatures are cleared, the role is signed, its file is written. *)
SignForRole(role) ==
  sign = role /\ ~transfer /\ Enough(root, role) /\ SignWith(role, Matched(root, role))

SignTransferred(role) ==
  sign = role /\ transfer /\ SignWith(role, AllMatched(root, role))

TooFewKeys ==
  sign \in Role /\ ~transfer /\ ~Enough(root, sign) /\ Returns(card - Handles)

(* An error after the signers have been loaded: root.json, a key that      *)
(* cannot be reached when it is to sign, or a write.                       *)
SignFails == (sign \in Role \/ Loaded) /\ Returns(card - Handles)

(* The deferred Close, or calls of it. *)
CloseSigners == sign = "close" /\ Returns(card - Handles)

SignProceeds ==
  \/ LoadFileKey \/ LoadVaultKey \/ OpenCard \/ ReadCard \/ CardHeld
  \/ ReadRoot \/ CheckRoles \/ TooFewKeys \/ CloseSigners
  \/ \E role \in Role : SignForRole(role) \/ SignTransferred(role)

SignStops == ReadCardFails \/ LoadFails \/ SignFails

-----------------------------------------------------------------------------
(* Whatever the list of keys, a role that a run has signed bears           *)
(* signatures of as many different authorised keys as root.json asks for   *)
(* and of no other key: also when a key is given twice, and whatever       *)
(* signatures the metadata bore before.  SignForRole leaves one signature  *)
(* of each key.                                                            *)
SignedByThreshold ==
  \A role \in signed :
    /\ DOMAIN sigs[role] # {} /\ (transfer \/ IsInjective(sigs[role]))
    /\ root # NoRoot =>
         /\ Range(sigs[role]) \subseteq root[role].keys
         /\ Cardinality(Range(sigs[role])) >= root[role].threshold
=============================================================================
