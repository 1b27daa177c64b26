---------------------------- MODULE TrustBundle ----------------------------
(***************************************************************************)
(* The trust bundle (internal/sigstore/trustbundle.go) through the runs of *)
(* `rhtas' that edit it: the trusted root lists the certificate and        *)
(* timestamp authorities and the logs with the time in which each is       *)
(* valid, the signing configuration lists the services clients sign with.  *)
(*                                                                         *)
(* Abstractions.  A log has one key: it is treated as a chain of one       *)
(* certificate.  The services of a kind have distinct URLs and no order.   *)
(* Subjects, operators, key details and OIDC issuers are left out.  A run  *)
(* that fails publishes nothing and is no step; what one may leave on disk *)
(* is the subject of Rhtas.  Time is counted in seconds.                   *)
(***************************************************************************)
EXTENDS Integers, Sequences, FiniteSets, FiniteSetsExt, Functions

CONSTANTS Kind,     \* the kinds of target in use
          Name,     \* target names
          Cert,     \* certificates and keys: the DER bytes of one
          Corrupt,  \* those stored as PEM text by an earlier version
          Chain,    \* the contents of target files: chains of certificates
          Uri,      \* service URIs
          Legacy,   \* the trusted roots a repository may start with
          None,
          MaxTime, MaxRun   \* bounds: the clock, runs

TargetKind == {"CertificateAuthority", "TimestampAuthority", "Ctlog", "Tlog"}
Time == 0 .. MaxTime
TimeOrNone == Time \cup {None}
Validity == [start : TimeOrNone, end : TimeOrNone]
Entry == [chain : Seq(Cert), uri : Uri \cup {None}, valid : Validity]

(* A service shares the validity period of an entry, the same object in    *)
(* memory, until the bundle is saved: that of the chain `of'.              *)
Service == [url : Uri \cup {None}, valid : Validity, of : Seq(Cert) \cup {None}]

ASSUME TrustBundleAssumption ==
  /\ Kind \subseteq TargetKind /\ Corrupt \subseteq Cert
  /\ Chain \subseteq Seq(Cert \ Corrupt) \ {<<>>}
  /\ Legacy \subseteq Seq(Entry)
  /\ None \notin Uri /\ None \notin Chain /\ None \notin Time
  /\ MaxTime \in Nat /\ MaxRun \in Nat

VARIABLES now,      \* the clock
          target,   \* targets.json: the contents of each target
          root,     \* TrustedRoot: the entries of each kind
          services, \* SigningConfig: the services of each kind
          pc, run,
          set,      \* the kinds this run has set
          newest,   \* history: the chain last set Active, while it is listed
          left      \* history: the URIs of entries that moved or were dropped

bundle == <<root, services>>
history == <<newest, left>>
vars == <<now, target, bundle, pc, run, set, history>>

(* The variables keep their types; a service has an URL of its own, and a  *)
(* Ctlog never gets one.                                                   *)
TypeOK ==
  /\ now \in Time /\ target \in [Name -> Chain \cup {None}]
  /\ root \in [Kind -> Seq(Entry)]
  /\ services \in [Kind -> SUBSET Service]
  /\ \A k \in Kind : \A s, t \in services[k] : s.url = t.url => s = t
  /\ "Ctlog" \in Kind => services["Ctlog"] = {}
  /\ pc \in {"idle", "run"} /\ run \in 0 .. MaxRun /\ set \subseteq Kind
  /\ newest \in [Kind -> Chain \cup {None}] /\ left \in [Kind -> SUBSET Uri]

UrisOf(es) == {es[i].uri : i \in DOMAIN es} \ {None}

Init ==
  /\ now = 0 /\ target = [n \in Name |-> None]
  /\ root \in [Kind -> Legacy]
  /\ services = [k \in Kind |->
       IF k = "Ctlog" THEN {}
       ELSE {[url |-> u, valid |-> [start |-> 0, end |-> None], of |-> None] :
               u \in UrisOf(root[k])}]
  /\ pc = "idle" /\ run = 0 /\ set = {}
  /\ newest = [k \in Kind |-> None] /\ left = [k \in Kind |-> {}]

-----------------------------------------------------------------------------
Usable(valid, t) ==
  /\ valid.start = None \/ valid.start <= t
  /\ valid.end = None \/ t < valid.end

(* The elements of s at the positions P, in their order.                   *)
Rank(P, p) == Cardinality({q \in P : q <= p})
Select(s, P) == [i \in 1 .. Cardinality(P) |-> s[CHOOSE p \in P : Rank(P, p) = i]]

(* cleanCertAuthorities, cleanTransparencyLogs: certificates that are PEM  *)
(* text go, and so does an entry that is left with none.                   *)
Genuine(chain) == Select(chain, {i \in DOMAIN chain : chain[i] \notin Corrupt})

Clean(es) ==
  LET cleaned == [i \in DOMAIN es |-> [es[i] EXCEPT !.chain = Genuine(es[i].chain)]]
  IN Select(cleaned, {i \in DOMAIN es : cleaned[i].chain # <<>>})

(* Faulty Offer: the service with the URL before is kept. *)
OfferBeside(offers, s) == offers \cup {s}

(* replaceOrAppendService *)
Offer(offers, s) == {o \in offers : o.url # s.url} \cup {s}

(* validForFromStatus *)
ValidFrom(status) ==
  IF status = "Expired" THEN [start |-> None, end |-> now] ELSE [start |-> now, end |-> None]

(* Faulty Replaced: the start of the entry before is not kept, or its end  *)
(* is kept as well.                                                        *)
ReplacedAnew(old, e) == e
ReplacedWithEnd(old, e) ==
  IF e.valid.start = None THEN [e EXCEPT !.valid.start = old.valid.start]
  ELSE [e EXCEPT !.valid.end = old.valid.end]

(* SetCertificateAuthority, SetTransparencyLog: an entry that is listed is *)
(* replaced, and keeps its start when none is given ...                    *)
Replaced(old, e) ==
  IF e.valid.start = None THEN [e EXCEPT !.valid.start = old.valid.start] ELSE e

(* Faulty Ended: by the clock instead of the start of the new entry. *)
EndedNow(es, t) ==
  IF es # <<>> /\ es[Len(es)].valid.end = None
  THEN [es EXCEPT ![Len(es)].valid.end = now] ELSE es

(* ... and a new entry ends the last one, if that is open.                 *)
Ended(es, t) ==
  IF es # <<>> /\ es[Len(es)].valid.end = None
  THEN [es EXCEPT ![Len(es)].valid.end = t] ELSE es

(* Faulty Position: only the last entry is compared. *)
LastPosition(es, chain) == {i \in DOMAIN es : i = Len(es) /\ es[i].chain = chain}

Position(es, chain) == {i \in DOMAIN es : es[i].chain = chain}

Entered(es, e) ==
  IF Position(es, e.chain) = {} THEN Append(Ended(es, e.valid.start), e)
  ELSE LET i == Min(Position(es, e.chain)) IN [es EXCEPT ![i] = Replaced(@, e)]

(* Services that share the validity of the entry that is ended, or of the  *)
(* one that is replaced, whose object they keep.                           *)
Following(k, es, chain, t) ==
  LET last == IF es = <<>> THEN None ELSE es[Len(es)].chain
      Follow(s) ==
        IF s.of = None THEN s
        ELSE IF Position(es, chain) # {}
        THEN IF s.of = chain THEN [s EXCEPT !.of = None] ELSE s
        ELSE IF s.of = last /\ s.valid.end = None THEN [s EXCEPT !.valid.end = t] ELSE s
  IN {Follow(s) : s \in services[k]}

Begin ==
  /\ pc = "idle" /\ run < MaxRun
  /\ pc' = "run" /\ run' = run + 1 /\ set' = {}
  /\ UNCHANGED <<now, target, bundle, history>>

(* setFulcioTarget and its like, in their order; each at most once a run.  *)
(* An Expired status is only accepted by a run that sets one kind.         *)
Order == [CertificateAuthority |-> 1, Ctlog |-> 2, Tlog |-> 3, TimestampAuthority |-> 4]

Admitted(k, uri, status) ==
  /\ \A j \in set : Order[j] < Order[k]
  /\ set # {} => status = "Active"
  /\ uri = None => k = "TimestampAuthority"

Lost(k, es) == left[k] \cup (UrisOf(root[k]) \ UrisOf(es))

Set(k, n, chain, uri, status) ==
  /\ pc = "run" /\ Admitted(k, uri, status)
  /\ LET es == Clean(root[k])
         e == [chain |-> chain, uri |-> uri, valid |-> ValidFrom(status)]
         entered == Entered(es, e)
         valid == entered[Min(Position(entered, chain))].valid
     IN /\ root' = [root EXCEPT ![k] = entered]
        /\ services' = IF k = "Ctlog" THEN services ELSE
             [services EXCEPT ![k] = Offer(Following(k, es, chain, e.valid.start),
                                           [url |-> uri, valid |-> valid, of |-> chain])]
        /\ newest' = IF status = "Active" THEN [newest EXCEPT ![k] = chain]
                     ELSE IF newest[k] = chain THEN [newest EXCEPT ![k] = None] ELSE newest
        /\ left' = [left EXCEPT ![k] = Lost(k, entered)]
  /\ target' = [target EXCEPT ![n] = chain]
  /\ set' = IF status = "Active" THEN set \cup {k} ELSE Kind
  /\ UNCHANGED <<now, pc, run>>

(* GetURIForTarget: of the first entry with the certificate and a URI.     *)
UriFor(es, c) ==
  LET found == {i \in DOMAIN es : c \in Range(es[i].chain) /\ es[i].uri # None}
  IN IF found = {} THEN None ELSE es[Min(found)].uri

(* DeleteTarget *)
Without(es, c) ==
  LET cleaned == Clean(es)
  IN Select(cleaned, {i \in DOMAIN cleaned : c \notin Range(cleaned[i].chain)})

(* UpdateSigningConfigTarget: the service is that of the last entry with   *)
(* the URI that is usable now.                                             *)
Backing(es, uri) == {i \in DOMAIN es : es[i].uri = uri /\ Usable(es[i].valid, now)}

(* Faulty Refreshed: a service without a usable entry stays. *)
RefreshedIfBacked(offers, es, uri) ==
  IF Backing(es, uri) = {} THEN offers
  ELSE LET e == es[Max(Backing(es, uri))]
       IN Offer(offers, [url |-> uri, valid |-> e.valid, of |-> e.chain])

Refreshed(offers, es, uri) ==
  IF Backing(es, uri) = {} THEN {o \in offers : o.url # uri}
  ELSE LET e == es[Max(Backing(es, uri))]
       IN Offer(offers, [url |-> uri, valid |-> e.valid, of |-> e.chain])

(* deleteTarget: by the first certificate of the file.  The kind is the    *)
(* one of the option, whatever the target was set as.                      *)
Delete(k, n) ==
  /\ pc = "run" /\ set = {} /\ target[n] # None
  /\ LET c == Head(target[n])
         uri == UriFor(root[k], c)
         es == Without(root[k], c)
         refresh == uri # None /\ k # "Ctlog"
     IN /\ root' = [root EXCEPT ![k] = es]
        /\ services' = IF refresh
                       THEN [services EXCEPT ![k] = Refreshed(@, es, uri)] ELSE services
        /\ newest' = [newest EXCEPT ![k] = IF @ # None /\ c \in Range(@) THEN None ELSE @]
        /\ left' = [left EXCEPT ![k] = Lost(k, Clean(root[k]))]
  /\ target' = [target EXCEPT ![n] = None]
  /\ UNCHANGED <<now, pc, run, set>>

(* The bundle is saved and published; the next run reads it from the file. *)
Save ==
  /\ pc = "run" /\ pc' = "idle"
  /\ services' = [k \in Kind |-> {[s EXCEPT !.of = None] : s \in services[k]}]
  /\ UNCHANGED <<now, target, root, run, set, history>>

Tick ==
  /\ now < MaxTime /\ now' = now + 1
  /\ UNCHANGED <<target, bundle, pc, run, set, history>>

Next ==
  \/ Begin \/ Save \/ Tick
  \/ \E k \in Kind, n \in Name : Delete(k, n)
  \/ \E k \in Kind, n \in Name, chain \in Chain, uri \in Uri \cup {None},
        status \in {"Active", "Expired"} : Set(k, n, chain, uri, status)

Spec == Init /\ [][Next]_vars

-----------------------------------------------------------------------------
(* No authority or log is ever listed twice once the entries that an       *)
(* earlier version stored as PEM text are cleaned: with two, a later set   *)
(* would update one of them and a client could still use the other.        *)
ListedOnce ==
  \A k \in Kind : LET es == Clean(root[k])
                  IN \A i, j \in DOMAIN es : es[i].chain = es[j].chain => i = j

(* Over all rotations, updates and deletions no validity period ends       *)
(* before it starts.                                                       *)
PeriodsInOrder ==
  \A k \in Kind : \A i \in DOMAIN root[k] :
    LET valid == root[k][i].valid
    IN valid.start # None /\ valid.end # None => valid.start <= valid.end

(* What was set Active last is open until it is deleted or set Expired,    *)
(* whatever is set, rotated or deleted beside it.                          *)
NewestStaysOpen ==
  \A k \in Kind : newest[k] # None =>
    \E i \in DOMAIN root[k] : root[k][i].chain = newest[k] /\ root[k][i].valid.end = None

(* A step never withdraws trust in what an authority or log that stays     *)
(* listed signed before now, nor does it move its start, unless it sets    *)
(* that very entry Active again.                                           *)
PastStaysTrusted ==
  [][\A k \in Kind : \A i \in DOMAIN root[k], j \in DOMAIN root'[k] :
       LET old == root[k][i].valid
           new == root'[k][j].valid
       IN root[k][i].chain = root'[k][j].chain =>
            \/ new = [start |-> now, end |-> None]
            \/ /\ new.start = old.start
               /\ \A t \in 0 .. now - 1 : Usable(old, t) => Usable(new, t)]_vars

(* Between runs a service that clients may sign with belongs to an entry   *)
(* of the trusted root, also when entries share the URI and some of them   *)
(* are deleted.  The exceptions are services without a URL, and URIs whose *)
(* entry was given another URI or was cleaned away.                        *)
ServicesBacked ==
  pc = "idle" => \A k \in Kind : \A s \in services[k] :
    s.url \in {None} \cup left[k] \cup UrisOf(root[k])
=============================================================================
