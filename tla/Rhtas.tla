------------------------------- MODULE Rhtas -------------------------------
(***************************************************************************)
(* The `rhtas' commands (internal/rhtas) on a repository of their own,     *)
(* without --metadata-url: certificates and keys of a Sigstore deployment  *)
(* are set and deleted as targets, and the trust bundle that lists them is *)
(* published beside them as one more target.                               *)
(*                                                                         *)
(* Abstractions.  The four kinds of target are treated alike, so one kind  *)
(* is modelled.  trusted_root.json stands for itself and for the signing   *)
(* configuration, which every step treats in the same way.  A bundle is    *)
(* the set of certificates it lists.  Validity periods are left out.       *)
(***************************************************************************)
EXTENDS Editor, FiniteSets

CONSTANTS Bundle,    \* the target name "trusted_root.json"
          CertOf,    \* the contents each certificate file may have
          Expires,   \* which --*-expires option a run may be given
          NoChange,  \* whether rhtas is also run with nothing to change
          Policies   \* the --target-path-exists values in use

Cert == UNION {CertOf[n] : n \in Name \ {Bundle}}
CertName == Name \ {Bundle}

ASSUME RhtasAssumption ==
  /\ Bundle \in Name
  /\ Cert \subseteq Digest /\ (SUBSET Cert) \subseteq Digest
  /\ Expires \subseteq {"none", "snapshot", "targets"}
  /\ NoChange \in BOOLEAN
  /\ Policies \subseteq Policy

VARIABLES bundle,    \* the TrustBundle in memory
          setting,   \* --set-*: a record of name and contents, or None
          pending    \* deletedTargetFiles: target files to be removed

command == <<bundle, setting, pending>>
vars == <<disk, run, pc, ed, copied, command>>

Setting == {s \in [name : CertName, cert : Cert] : s.cert \in CertOf[s.name]}

(* The variables keep their types; every metadata document that a run      *)
(* writes is one that a later run can load.                                *)
TypeOK ==
  /\ targetsMd \in [Version -> TargetsDoc \cup {None}]
  /\ snapshotMd \in [Version -> LinkDoc \cup {None}]
  /\ timestampMd \in LinkDoc \cup {None}
  /\ files \in [Name \X Digest -> Digest \cup {None, Torn}]
  /\ plain \in Targets /\ bundle \subseteq Cert
  /\ run \in 0 .. MaxRun /\ ed \in EditorRecord
  /\ pc \in {"idle", "set", "save", "signers", "targets", "snapshot", "timestamp",
             "copy", "written", "cleanup", "cleanonly", "failed"}
  /\ setting \in Setting \cup {None}
  /\ pending \subseteq CertName \X Cert

Init ==
  /\ targetsMd = [v \in Version |-> None] /\ snapshotMd = [v \in Version |-> None]
  /\ timestampMd = None
  /\ files = [k \in Name \X Digest |-> None] /\ plain = NoTargets
  /\ run = 0 /\ pc = "idle" /\ copied = {}
  /\ ed = [targets |-> NoTargets, tv |-> 1, sv |-> 1, tsv |-> 1,
           policy |-> "skip", reuse |-> FALSE]
  /\ bundle = {} /\ setting = None /\ pending = {}

-----------------------------------------------------------------------------
(* LoadTrustBundle: the file the targets refer to, else one left under the *)
(* plain name, else an empty bundle.                                       *)
BundleFile ==
  LET d == LoadLatest.targets[Bundle]
  IN IF d # None /\ files[<<Bundle, d>>] # None THEN files[<<Bundle, d>>]
     ELSE plain[Bundle]

LoadedBundle == IF BundleFile = None THEN {} ELSE BundleFile

(* findHistoricalTargetFile: what the newest targets metadata on disk that *)
(* still lists the target says of it.                                      *)
Listing(n) == {v \in Present(targetsMd) : targetsMd[v].targets[n] # None}

(* Faulty Historical: takes the oldest listing. *)
HistoricalOldest(n) ==
  IF Listing(n) = {} THEN None
  ELSE targetsMd[CHOOSE v \in Listing(n) : \A w \in Listing(n) : v <= w].targets[n]

Historical(n) ==
  IF Listing(n) = {} THEN None
  ELSE targetsMd[CHOOSE v \in Listing(n) : \A w \in Listing(n) : w <= v].targets[n]

(* deleteTarget of one name: what it expects to find in targets/. *)
Listed(n) == LoadLatest.targets[n] # None
Expected(n) == IF Listed(n) THEN LoadLatest.targets[n] ELSE Historical(n)

Deletable(n) ==
  /\ Expected(n) # None
  /\ files[<<n, Expected(n)>>] # Torn
  /\ Listed(n) => files[<<n, Expected(n)>>] # None

PendingFiles(names) ==
  {<<n, Expected(n)>> : n \in {m \in names : files[<<m, Expected(m)>>] # None}}

(* Run: load the repository, bump, deleteTargets.  When all that was asked *)
(* for are deletions of targets the newest metadata does not list, only    *)
(* the files are cleaned up.  A file that does not parse refuses the run.  *)
Begin(names, s, expires, p) ==
  LET listed == {n \in names : Listed(n)}
      cleanupOnly == names # {} /\ listed = {} /\ s = None /\ expires = "none"
      targetsModified == names # {} \/ s # None \/ expires = "targets"
      metadataModified == targetsModified \/ expires # "none"
      md == LoadLatest
      Bump(v, when) == IF when THEN v + 1 ELSE v
  IN /\ pc = "idle" /\ run < MaxRun
     /\ metadataModified \/ NoChange
     /\ BundleFile # Torn
     /\ \A n \in names : Deletable(n)
     /\ Bump(md.tv, targetsModified) \in Version
     /\ Bump(md.sv, metadataModified) \in Version
     /\ Bump(md.tsv, metadataModified) \in Version
     /\ run' = run + 1
     /\ ed' = [targets |-> [n \in Name |-> IF n \in listed THEN None ELSE md.targets[n]],
               tv |-> Bump(md.tv, targetsModified),
               sv |-> Bump(md.sv, metadataModified),
               tsv |-> Bump(md.tsv, metadataModified),
               policy |-> p, reuse |-> ~targetsModified]
     /\ bundle' = LoadedBundle \ {Expected(n) : n \in listed}
     /\ pending' = PendingFiles(names)
     /\ setting' = s
     /\ pc' = IF cleanupOnly THEN "cleanonly"
               ELSE IF s # None THEN "set" ELSE "save"
     /\ UNCHANGED <<disk, copied>>

(* setFulcioTarget and its like: AddTarget, CopyTargetToRepo and the entry *)
(* in the trust bundle.                                                    *)
Editing == [ed EXCEPT !.targets[setting.name] = setting.cert]
There == files[<<setting.name, setting.cert>>] # None

SetTarget ==
  /\ pc = "set" /\ ~(There /\ ed.policy = "fail")
  /\ ed' = Editing
  /\ files' = IF There /\ ed.policy = "skip" THEN files
              ELSE [files EXCEPT ![<<setting.name, setting.cert>>] = setting.cert]
  /\ bundle' = bundle \cup {setting.cert}
  /\ setting' = None /\ pc' = "save"
  /\ UNCHANGED <<metadata, plain, run, copied, pending>>

SetTargetFails ==
  /\ pc = "set"
  /\ \/ There /\ ed.policy = "fail" /\ UNCHANGED files
     \/ /\ "tear" \in Fault /\ (~There \/ ed.policy = "replace")
        /\ files' = [files EXCEPT ![<<setting.name, setting.cert>>] = Torn]
  /\ pc' = "idle"
  /\ UNCHANGED <<metadata, plain, run, ed, copied>>

(* Faulty SaveBundle: the targets keep the entry of the bundle before. *)
SaveBundleOnly ==
  /\ pc = "save"
  /\ plain' = [plain EXCEPT ![Bundle] = bundle]
  /\ pc' = "signers"
  /\ UNCHANGED <<metadata, files, run, ed, copied, command>>

(* The bundle is saved under its plain name and added to the targets. *)
SaveBundle ==
  /\ pc = "save"
  /\ plain' = [plain EXCEPT ![Bundle] = bundle]
  /\ ed' = [ed EXCEPT !.targets[Bundle] = bundle]
  /\ pc' = "signers"
  /\ UNCHANGED <<metadata, files, run, copied, command>>

(* SignAndWrite has returned nil. *)
StartCleanup ==
  /\ pc = "written" /\ pc' = "cleanup"
  /\ UNCHANGED <<disk, run, ed, copied, command>>

(* Faulty CleanUp: isReferencedBy is not asked. *)
CleanUpAnyway(n, d) ==
  /\ pc \in {"cleanup", "cleanonly"} /\ <<n, d>> \in pending
  /\ files' = [files EXCEPT ![<<n, d>>] = None]
  /\ pending' = pending \ {<<n, d>>}
  /\ UNCHANGED <<metadata, plain, run, pc, ed, copied, bundle, setting>>

(* cleanupPendingTargetFiles: a file that the new targets refer to stays. *)
CleanUp(n, d) ==
  /\ pc \in {"cleanup", "cleanonly"} /\ <<n, d>> \in pending
  /\ files' = IF ed.targets[n] = d THEN files ELSE [files EXCEPT ![<<n, d>>] = None]
  /\ pending' = pending \ {<<n, d>>}
  /\ UNCHANGED <<metadata, plain, run, pc, ed, copied, bundle, setting>>

CleanUpFails ==
  /\ pc \in {"cleanup", "cleanonly"} /\ "remove" \in Fault
  /\ \E k \in pending : ed.targets[k[1]] # k[2]
  /\ pc' = IF pc = "cleanup" THEN "failed" ELSE "idle"
  /\ UNCHANGED <<disk, run, ed, copied, command>>

(* Run returns.  Once the bundle has been saved a deferred call removes    *)
(* the plain file.                                                         *)
Return ==
  /\ pc = "failed" \/ (pc \in {"cleanup", "cleanonly"} /\ pending = {})
  /\ pc' = "idle"
  /\ plain' = IF pc = "cleanonly" THEN plain ELSE [plain EXCEPT ![Bundle] = None]
  /\ UNCHANGED <<metadata, files, run, ed, copied, command>>

Next ==
  \/ \E names \in SUBSET CertName, s \in Setting \cup {None}, e \in Expires, p \in Policies :
       Begin(names, s, e, p)
  \/ SetTarget \/ SaveBundle \/ StartCleanup
  \/ \E n \in CertName, d \in Cert : CleanUp(n, d)
  \/ CleanUpFails \/ Return
  \/ (SetTargetFails \/ SignAndWrite \/ Crash) /\ UNCHANGED command

Spec == Init /\ [][Next]_vars

-----------------------------------------------------------------------------
PublishedTargets == TargetsOf(timestampMd).targets
PublishedBundle == IF PublishedTargets[Bundle] = None THEN {} ELSE PublishedTargets[Bundle]

(* Between runs every certificate that is published as a target is listed  *)
(* in the published trust bundle, and the files of all published targets   *)
(* are there with their contents, whether or not the cleanup of an earlier *)
(* deletion failed and was retried.                                        *)
TrustFollowsTargets ==
  pc = "idle" /\ Published =>
    /\ \A n \in Name : Served(n)
    /\ \A n \in CertName : PublishedTargets[n] # None => PublishedTargets[n] \in PublishedBundle

(* The cleanup removes no file that the published targets refer to: also   *)
(* not one that was deleted and set again by the same run.                 *)
CleanupSparesPublished ==
  [][\A n \in CertName, d \in Cert :
       files[<<n, d>>] # None /\ files'[<<n, d>>] = None => PublishedTargets[n] # d]_vars

(* A deleted target whose file is still there can be deleted again, until  *)
(* its file is gone ("retrying cleanup after a deletion was published").   *)
CleanupIsRetryable ==
  pc = "idle" /\ Published =>
    \A k \in pending :
      files[k] # None /\ PublishedTargets[k[1]] = None =>
        ~Listed(k[1]) /\ Deletable(k[1]) /\ Historical(k[1]) = k[2]

(* "A failed signing operation must not leave published metadata pointing  *)
(* at a missing target."                                                   *)
FailureKeepsTargets ==
  pc = "idle" /\ Published =>
    \A n \in CertName : PublishedTargets[n] # None =>
      files[<<n, PublishedTargets[n]>>] # None
=============================================================================
