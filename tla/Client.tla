------------------------------- MODULE Client -------------------------------
(***************************************************************************)
(* The commands `clone' (internal/clone) and `download' (internal/download) *)
(* as processes that read a repository file by file, while the commands    *)
(* that publish write it: they refresh (the updater of go-tuf starts from  *)
(* timestamp.json and follows the chain), and copy what they accept to a   *)
(* directory of their own.  A module that composes a publishing command    *)
(* with readers extends both modules.                                      *)
(*                                                                         *)
(* Readers of one command are given the same output directories; those of  *)
(* clone are "metadata" and "targets", that of download is "outdir".  Two  *)
(* downloads may run at once.  Two clones into the same directories may    *)
(* not: clone takes a directory that has appeared since it looked.         *)
(* root.json does not change, and its copies are left out.                 *)
(***************************************************************************)
EXTENDS Editor

CONSTANTS Reader,    \* processes
          Commands,  \* the commands they may run
          Wanted     \* the lists of target names they may be given: {} asks
                     \* for all targets, None (clone) for metadata only

ASSUME ClientAssumption ==
  /\ Commands \subseteq {"clone", "download"}
  /\ \A w \in Wanted : w = None \/ w \subseteq Name
  /\ None \notin {"clone", "download"} /\ \A ns \in SUBSET Name : ns # None

VARIABLES rpc,       \* where each reader stands
          cmd,       \* the command it runs
          wanted,    \* the names it was given
          trusted,   \* the chain it has verified so far
          left,      \* targets it has still to download
          dirs,      \* the output directories that exist
          copyMd,    \* clone: the files of the metadata directory
          copyOf,    \* the files of the directories of targets
          current    \* history: the published targets when it began to read

reader == <<rpc, cmd, wanted, trusted, left, current>>
clientVars == <<reader, dirs, copyMd, copyOf>>

Nothing == [timestamp |-> None, snapshot |-> None, targets |-> None]
NoFiles == [timestamp |-> None,
            snapshot |-> [v \in Version |-> None],
            targets |-> [v \in Version |-> None]]

TargetsDir(r) == IF cmd[r] = "clone" THEN "targets" ELSE "outdir"

Active(r) == rpc[r] \notin {"idle", "refused", "missing", "done"}

ClientInit ==
  /\ rpc = [r \in Reader |-> "idle"] /\ cmd = [r \in Reader |-> None] /\ wanted = [r \in Reader |-> {}]
  /\ trusted = [r \in Reader |-> Nothing] /\ left = [r \in Reader |-> {}]
  /\ current = [r \in Reader |-> None]
  /\ dirs = {} /\ copyMd = NoFiles /\ copyOf = [d \in {"targets", "outdir"} |-> NoTargets]

Goto(r, step) == rpc' = [rpc EXCEPT ![r] = step]
Trust(r, chain) == trusted' = [trusted EXCEPT ![r] = chain]

(* The process returns, or dies, with what it knew.  What it has written   *)
(* stays.                                                                  *)
Forget(r) ==
  /\ cmd' = [cmd EXCEPT ![r] = None]
  /\ wanted' = [wanted EXCEPT ![r] = {}]
  /\ trusted' = [trusted EXCEPT ![r] = Nothing]
  /\ left' = [left EXCEPT ![r] = {}]
  /\ current' = [current EXCEPT ![r] = None]

End(r, outcome) == Goto(r, outcome) /\ Forget(r) /\ UNCHANGED <<dirs, copyMd, copyOf>>

(* Run, up to the refresh: the output directories must not exist. *)
Start(r) ==
  \E command \in Commands, w \in Wanted :
    /\ ~Active(r) /\ rpc[r] # "done"
    /\ IF command = "clone"
       THEN /\ \A other \in Reader : cmd[other] # "clone"
            /\ "metadata" \notin dirs
            /\ w # None => "targets" \notin dirs
       ELSE w # None /\ "outdir" \notin dirs
    /\ cmd' = [cmd EXCEPT ![r] = command] /\ wanted' = [wanted EXCEPT ![r] = w]
    /\ Goto(r, "timestamp")
    /\ UNCHANGED <<trusted, left, current, dirs, copyMd, copyOf>>

(* up.Refresh: the timestamp, and then the files it leads to, by version   *)
(* and with their hashes.                                                  *)
ReadTimestamp(r) ==
  /\ rpc[r] = "timestamp" /\ Published
  /\ Trust(r, [trusted[r] EXCEPT !.timestamp = timestampMd])
  /\ current' = [current EXCEPT ![r] =
       IF SnapshotOf(timestampMd) = None \/ TargetsOf(timestampMd) = None THEN None
       ELSE TargetsOf(timestampMd).targets]
  /\ Goto(r, "snapshot")
  /\ UNCHANGED <<cmd, wanted, left, dirs, copyMd, copyOf>>

Verified(md, ref) == md # None /\ RefTo(md) = ref

ReadSnapshot(r) ==
  /\ rpc[r] = "snapshot"
  /\ LET ref == trusted[r].timestamp.meta
         md == snapshotMd[ref.version]
     IN IF Verified(md, ref)
        THEN /\ Trust(r, [trusted[r] EXCEPT !.snapshot = md]) /\ Goto(r, "targets")
             /\ UNCHANGED <<cmd, wanted, left, current, dirs, copyMd, copyOf>>
        ELSE End(r, "refused")

ReadTargets(r) ==
  /\ rpc[r] = "targets"
  /\ LET ref == trusted[r].snapshot.meta
         md == targetsMd[ref.version]
     IN IF Verified(md, ref)
        THEN /\ Trust(r, [trusted[r] EXCEPT !.targets = md])
             /\ Goto(r, IF cmd[r] = "clone" THEN "cache" ELSE "resolve")
             /\ UNCHANGED <<cmd, wanted, left, current, dirs, copyMd, copyOf>>
        ELSE End(r, "refused")

(* The bytes of metadata serialised again: ToBytes(false) does not indent  *)
(* as the files of the repository are indented, so these are bytes that no *)
(* run has signed over or hashed.                                          *)
Compact(md) == [md EXCEPT !.by = 0]

CompactTargetsDoc == [version : Version, by : {0}, targets : Targets]
CompactLinkDoc == [version : Version, by : {0}, meta : Ref]

ASSUME CopyAssumption == None \notin CompactTargetsDoc /\ None \notin CompactLinkDoc

(* clone: MkdirAll and cacheMetadata, which writes file after file. *)
CacheTimestamp(r) ==
  /\ rpc[r] = "cache"
  /\ dirs' = dirs \cup {"metadata"}
  /\ copyMd' = [copyMd EXCEPT !.timestamp = Compact(trusted[r].timestamp)]
  /\ Goto(r, "cache2")
  /\ UNCHANGED <<cmd, wanted, trusted, left, current, copyOf>>

(* Faulty CacheSnapshot: named by the version of the timestamp. *)
CacheSnapshotByTimestamp(r) ==
  /\ rpc[r] = "cache2"
  /\ copyMd' = [copyMd EXCEPT !.snapshot[trusted[r].timestamp.version] =
                  Compact(trusted[r].snapshot)]
  /\ Goto(r, "cache3")
  /\ UNCHANGED <<cmd, wanted, trusted, left, current, dirs, copyOf>>

CacheSnapshot(r) ==
  /\ rpc[r] = "cache2"
  /\ copyMd' = [copyMd EXCEPT !.snapshot[trusted[r].snapshot.version] =
                  Compact(trusted[r].snapshot)]
  /\ Goto(r, "cache3")
  /\ UNCHANGED <<cmd, wanted, trusted, left, current, dirs, copyOf>>

CacheTargets(r) ==
  /\ rpc[r] = "cache3"
  /\ copyMd' = [copyMd EXCEPT !.targets[trusted[r].targets.version] =
                  Compact(trusted[r].targets)]
  /\ Goto(r, IF wanted[r] = None THEN "done" ELSE "resolve")
  /\ UNCHANGED <<cmd, wanted, trusted, left, current, dirs, copyOf>>

(* ResolveTargets: a name that is not a target, or no targets at all. *)
Offered(r) == {n \in Name : trusted[r].targets.targets[n] # None}

Resolve(r) ==
  /\ rpc[r] = "resolve"
  /\ IF Offered(r) # {} /\ wanted[r] \subseteq Offered(r)
     THEN /\ left' = [left EXCEPT ![r] = IF wanted[r] = {} THEN Offered(r) ELSE wanted[r]]
          /\ Goto(r, "mkdir")
          /\ UNCHANGED <<cmd, wanted, trusted, current, dirs, copyMd, copyOf>>
     ELSE End(r, "idle")

(* Faulty MakeDirectory: download, too, takes a directory that is there. *)
MakeDirectoryAll(r) ==
  /\ rpc[r] = "mkdir"
  /\ dirs' = dirs \cup {TargetsDir(r)} /\ Goto(r, "download")
  /\ UNCHANGED <<cmd, wanted, trusted, left, current, copyMd, copyOf>>

(* clone: MkdirAll, which takes a directory that is there; download: Mkdir. *)
MakeDirectory(r) ==
  /\ rpc[r] = "mkdir"
  /\ IF cmd[r] = "download" /\ TargetsDir(r) \in dirs
     THEN End(r, "idle")
     ELSE /\ dirs' = dirs \cup {TargetsDir(r)} /\ Goto(r, "download")
          /\ UNCHANGED <<cmd, wanted, trusted, left, current, copyMd, copyOf>>

(* A target is fetched under its digest, and compared with it. *)
Delivered(n, d) == files[<<n, d>>] = d

(* One iteration of the loop over the targets, in the arbitrary order of a *)
(* Go map: the file is fetched and written under the name of the target.   *)
Download(r, n) ==
  /\ rpc[r] = "download" /\ n \in left[r]
  /\ LET d == trusted[r].targets.targets[n]
     IN IF Delivered(n, d)
        THEN /\ copyOf' = [copyOf EXCEPT ![TargetsDir(r)][n] = d]
             /\ left' = [left EXCEPT ![r] = @ \ {n}]
             /\ UNCHANGED <<rpc, cmd, wanted, trusted, current, dirs, copyMd>>
        ELSE End(r, "missing")

Finish(r) ==
  /\ rpc[r] = "download" /\ left[r] = {}
  /\ Goto(r, "done")
  /\ UNCHANGED <<cmd, wanted, trusted, left, current, dirs, copyMd, copyOf>>

(* Reading or writing fails, or the process dies. *)
Stop(r) ==
  /\ Active(r)
  /\ End(r, "idle")

(* The operator moves the output away, whole or partial. *)
TakeAway ==
  /\ dirs # {} /\ \A r \in Reader : ~Active(r)
  /\ dirs' = {} /\ copyMd' = NoFiles /\ copyOf' = [d \in {"targets", "outdir"} |-> NoTargets]
  /\ rpc' = [r \in Reader |-> "idle"] /\ cmd' = [r \in Reader |-> None]
  /\ wanted' = [r \in Reader |-> {}]
  /\ trusted' = [r \in Reader |-> Nothing] /\ left' = [r \in Reader |-> {}]
  /\ current' = [r \in Reader |-> None]

Refresh(r) == ReadTimestamp(r) \/ ReadSnapshot(r) \/ ReadTargets(r)
CacheMetadata(r) == CacheTimestamp(r) \/ CacheSnapshot(r) \/ CacheTargets(r)
CopyTargets(r) ==
  Resolve(r) \/ MakeDirectory(r) \/ Finish(r) \/ \E n \in Name : Download(r, n)

ClientStep ==
  \/ TakeAway
  \/ \E r \in Reader : Start(r) \/ Refresh(r) \/ CacheMetadata(r) \/ CopyTargets(r) \/ Stop(r)

-----------------------------------------------------------------------------
(* A clone or download that succeeds has copied one publication, the one   *)
(* that was current when it began to read: whatever was published or was   *)
(* cut short meanwhile, and whoever else was given the same directory, no  *)
(* file of another publication is among its targets.                       *)
CopiesOnePublication ==
  \A r \in Reader : rpc[r] = "done" =>
    /\ trusted[r].targets.targets = current[r]
    /\ wanted[r] # None =>
         \A n \in Name : copyOf[TargetsDir(r)][n] =
           IF wanted[r] = {} \/ n \in wanted[r] THEN current[r][n] ELSE None

(* The cloned metadata is complete: starting from the cloned timestamp one *)
(* finds, by the versions recorded, the snapshot and the targets that were *)
(* published, with what they said.                                         *)
CloneIsComplete ==
  \A r \in Reader : cmd[r] = "clone" /\ rpc[r] = "done" =>
      LET s == copyMd.snapshot[copyMd.timestamp.meta.version]
          t == copyMd.targets[s.meta.version]
      IN copyMd.timestamp # None /\ s # None /\ t # None /\ t.targets = current[r]

(* "Clone copies both metadata and targets": a client of the clone finds   *)
(* the files whose hashes the cloned files record.                         *)
CloneIsRepository ==
  \A r \in Reader : cmd[r] = "clone" /\ rpc[r] = "done" =>
      LET s == copyMd.snapshot[copyMd.timestamp.meta.version]
      IN Verified(s, copyMd.timestamp.meta)

(* The refresh of a reader is never refused: a publication stays readable, *)
(* file by file, while later ones are written, fail or are cut short.      *)
NeverRefused == \A r \in Reader : rpc[r] # "refused"
=============================================================================
