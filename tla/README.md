# A TLA+ model of tufcli

`tufcli` creates, updates and mirrors TUF repositories for Sigstore deployments.
This directory holds TLA+ modules of its core logic, configurations with which
TLC checks them on small instances, and theorems about them that the TLA+ proof
system (TLAPS) checks for all instances. The code under `src/` is the reference
for every definition; `PROJECT.json` says which lines each one stands for.

    tlc -workers 4 -config UpdateBump.cfg MCUpdate     # model-check a run
    tlapm --threads 4 UpdateProofs.tla                 # check the proofs

## 1. The system

A repository is a directory: `<v>.targets.json`, `<v>.snapshot.json` and
`timestamp.json` form a chain (each names the version and the hash of the file
below it), `targets/<digest>.<name>` are the target files, `root.json` says which
keys may sign what. Clients start from `timestamp.json`. `tufcli` has no server
and no database: each command is a process that reads files, edits documents in
memory, signs and writes files, and may fail or be killed between any two writes.
The next command starts from whatever is on disk.

| Component | State | Operations | Interacts with | What is hard | What makes it correct |
|---|---|---|---|---|---|
| Commit of fetched metadata (`internal/editor/metadata.go`, `commitStagedMetadata`) | the output directory with its `.staged` and `.backup` files; lists of what was staged, backed up, swapped | stage, back up, swap, tidy; restore, roll back, clean up | called by the fetch | any call may fail, so may the rollback; death in between | all or nothing; no old file is lost; nothing left behind |
| Fetch and verification (`fetchMetadataFromURL`, `verifyMetadataChain`) | files fetched so far; the rollback floor in the output directory | fetch timestamp, snapshot, targets; verify; commit | a mirror over HTTP, go-tuf, the commit | the mirror changes between requests; caches answer with old files | one chain is committed, and never an older one |
| Editor (`editor.go`, `signing.go`) | three documents in memory with versions to write; the directory | `LoadRepository`, `AddTarget`, `CopyTargetToRepo`, bumps, `SignAndWrite` | signers; all publishing commands | partial publication, leftovers of failed runs, torn files, path policies | the published chain is whole at every moment, in its place or in `.backup` |
| `create`, `update`, `transfer-metadata` (`internal/create`, `update`, `transfer`) | the edits a run makes | one run per command, from options to exit | the editor, the fetch, the target scan | an update fetches and commits the repository it writes to; forced versions, re-signing under one version, incoming delegated metadata | what is published is the published state and the edits of this run; no file of it is lost |
| `rhtas` (`internal/rhtas`) | targets, the trust bundle, files pending removal | set and delete targets of four kinds; cleanup | the editor, the trust bundle | failure after publication and its retry; a bundle that is itself a target | the bundle follows the targets; cleanup spares published files |
| Trust bundle (`internal/sigstore`) | authorities and logs with validity periods; services | set (update or rotate), delete, refresh a service | edited by `rhtas`, read by clients | rotation, shared URIs, entries of earlier versions, shared objects | past signatures keep their authority; one entry each; services have an authority |
| `root` commands (`internal/root`) | `root.json` | init, edits, sign, cross-sign | signers; clients that follow roots | incremental signing, shared keys, integer conversions | a published successor of the next version is accepted under both roots |
| Clients (`internal/clone`, `download`, `tufclient`) | what the updater has verified; output directories | refresh, resolve, cache metadata, copy targets | go-tuf's updater; the publishers, who write meanwhile | reading file by file while a publisher writes; output directories that are there already | what is copied is one publication, all of it |
| Target scan (`internal/targetscan`) | the calls of `walk`, `visited`, a staging directory | discover, stage, hash, clean up | `create`, `update`; the operator, who edits the sources | cycles of symbolic links; edits between read and hash | every file once; the hash is that of what is copied; nothing stays behind |
| Signers (`internal/keys`, and `transfer` in its own way) | the signers loaded, open handles of the smart card | load, match, sign, close | key files, Vault, the card, `root.json` | errors after some were opened; a key given twice | as many different authorised keys as the threshold; every handle closed once |
| Signing configuration (`internal/signingconfig`) | lists of services in one file | init, add, remove | files | nothing: see section 6 | |
| Command line, public packages, helpers, scripts | none | | | | |

`PROJECT.json` lists the components with their status, and under `hazards` the
places in the code where something can go wrong that tests would hardly reach,
with the properties that watch them.

## 2. The modules

| Module | Models | Composes |
|---|---|---|
| `CommitStaged` | `commitStagedMetadata`, one step per system call | refines `AtomicCommit` |
| `AtomicCommit` | what it promises: one step or none; a death leaves each file old, new or missing | |
| `MetadataChain` | `LoadRepository --metadata-url`, run after run: requests, moving mirror, verification, commit, deaths; liveness | the mirror; the commit in the short form `CommitStaged` justifies |
| `Editor` | the repository on disk, loading, target copies, `SignAndWrite` one step per file | extended by the commands |
| `Update` | `create`, `transfer-metadata` and `update` on one directory, run after run | extends `Editor`; refines `Publication` |
| `Publication` | what clients are promised: atomic, monotone publications; the repository may go out of service, and comes back with the last of them | |
| `Rhtas` | `rhtas` with targets, pending removals and the bundle as a file | extends `Editor` |
| `TrustBundle` | the contents of the bundle over runs of `rhtas` and time | |
| `RootMeta` | the life of a `root.json` and its successors | |
| `Client` | `clone` and `download`: the refresh, the cached metadata, the copies of the targets; several processes | extends `Editor` for the repository they read |
| `RhtasClient` | readers beside runs of `rhtas` | `Rhtas` and `Client`, interleaved |
| `TargetScan` | `Scan`: the walk over links, staging, hashing | |
| `SignerSet` | `LoadSignerSetFromAll`, `SignForRole`, `Close`, and `signAndWriteTransfer` | the smart card |
| `PublishRun` | one run of `create`, `update` or `transfer-metadata` from its scan to its return | `TargetScan`, then the copies, then `SignerSet`; liveness |
| `CommitStagedProofs`, `MetadataChainProofs`, `EditorProofs`, `UpdateProofs`, `RhtasProofs`, `TrustBundleProofs`, `RootMetaProofs`, `PublishRunProofs` | theorems and proofs | `UpdateProofs` and `RhtasProofs` (which has the theorems of `RhtasClient` too) rest on `EditorProofs` |
| `MC*` | instances for TLC | |

How state and actions correspond to the code:

* **CommitStaged.** `dest`, `stg` and `bak` are the file, `<file>.staged` and
  `<file>.backup`; a place holds the number of the call that wrote it. `batch` is
  the result of `collectStagedFiles`, `staged` is `stagedPaths`, `seen` and
  `existed` are the `fileBackup` list with its flag, `swapped` the files renamed.
  `ReadDir(-1)` does not sort, so a phase takes its files in any order. Each
  phase is an action per file (`Stage`, `Backup`, `Swap`, `Tidy`), its
  failures are actions of their own, and `Rollback` and `Unstage` are the
  best-effort loops of the error path. `Crash` may come anywhere. `unhandled` is a
  history variable: the errors of this call that the code does not notice (a `stat`
  that fails, the directory sync after a rename) or can do nothing about (an undo, a
  removal), each with its file. The properties except those files, and no other.
* **MetadataChain.** The publisher's history is a constant sequence of chains. A
  file is the index of a chain it belongs to, 0 for none; contents are equal when
  version and signing run are. The mirror moves freely over the history, back
  as well (a cache). `Verify` follows go-tuf's `UpdateTimestamp`, `UpdateSnapshot`
  and `UpdateTargets` as the code calls them, with the prior files as floor. `Return`
  ends a run and forgets what it fetched, so that any number of runs is finite.
* **Editor.** A document is its version, what it says and `by`, the run that
  signed it: signatures are randomised, so the same content signed twice has two
  hashes. `ed` is the `Editor` value. `pc` names the next file of `SignAndWrite`.
  `files` are the digest-prefixed target files, `plain` those without prefix.
  `CopyTargetToRepo` and `copyTargetFile` write in place, so they can leave a torn
  file; metadata is written with `WriteFileAtomic`, which cannot.
* **Update.** `update` runs against the repository it writes to, as the tests do, so
  the fetched chain is the published one. A run of it begins with `BeginUpdate`: the fetch
  and its verification, which read the directory, and the staging, which if it fails
  leaves it as it was. Then `commitStagedMetadata` works on the live directory, file by
  file, in the three phases that change a file that clients know: `BackUp` takes the
  published files away to `.backup`, `Swap` puts the same bytes back, and when a rename
  fails (`CommitFails`) `Undo` restores what it can (`UndoFails`: the errors of a rollback
  are ignored). The process may die at each step. `todo` are the files of a phase, or
  later the targets of the loop, still to do; `fetched` is what was staged, `kept` the
  files with a `.backup`, which stays after a death. The `Update...` actions tidy up,
  edit and bump, in memory. `Create` and `Transfer` begin without a commit. Then a run
  copies added targets (`AddFile`) and takes the steps of `SignAndWrite`. A command that is
  refused before it changes anything is no step. `Held...` is the directory with each file
  that is under none but its `.backup` name moved back. Fetching from elsewhere is
  `MetadataChain`'s subject, the commit call by call, with contents that differ,
  `CommitStaged`'s.
* **Rhtas.** One kind of certificate stands for all four. A bundle is the set of
  certificates it lists and at the same time the contents of the target
  `trusted_root.json`. `pending` is the list of files to be removed after
  publication, which stays in the state after a failed run as the reminder of
  what the operator would retry.
* **Client.** `rpc` names the next step of a reader, `trusted` is the
  `TrustedMetadataSet` of its updater. `ReadTimestamp`, `ReadSnapshot` and `ReadTargets`
  are the requests of `Refresh`, each at a moment of its own, checked against version
  and hash; `Cache...` the writes of `cacheMetadata`; `Download` one iteration of the
  loop over a Go map, in any order. The output directories `metadata`, `targets` and
  `outdir` are shared: `clone` looks for its two at the start and takes what it finds
  later (`MkdirAll`), `download` fails (`Mkdir`). `Compact` is the new serialisation.
* **TargetScan.** `stack` holds the recursive calls of `walk`, each with its directory
  (by real path), its path from the root, which is the name of a target, and the
  entries still to come; `visited` is the map of that name. `edition` stands for the
  contents of the sources. `Abandon` is the cleanup on the paths that return an error.
* **SignerSet.** `entries` is the list of signers, `given` the flags not yet treated;
  `card` counts open handles of the smart card, which can be held once, and `Handles` the
  signers that have one. `Returns` closes
  a handle for each entry that is a card: `ReadCardFails` shows that the handle of the
  key that fails is not among the entries and is closed by `loadPIVSigner`.
* **PublishRun.** The order of `Run`: scan, copy, sign, return with the deferred calls.
  `NoScan` is a run without `--add-targets`.
* **TrustBundle.** `root[k]` is the list of a kind in the trusted root, in order;
  `services[k]` its service list. A service and an entry that were made by one run
  share their `TimeRange` object until the bundle is saved: a service's `of` names
  the chain it shares it with, and `Following` lets a rotation close it too.
  Lists are edited by position: `Select` keeps the elements at some of them, in order.
  `newest` and `left` are history variables for the properties.
* **RootMeta.** A signature is the content it was made over. `SignWith` is the loop
  over keys with the checks of `signRootWithKey` and `validateThreshold`; `checked`
  records which of them passed since the last edit. `Wrap` is 2^63: a threshold or version
  given that is not below it becomes negative when it is stored (`AsInt`), and so does the
  greatest version when it is bumped (`Succ`). `ClientAccepts` is what go-tuf asks of a
  new root: the version after the trusted one, and enough signatures under both, where a
  threshold below 1 is never reached.

Definitions introduced by a comment that begins "Faulty" are not the code: each is
a wrong variant of the definition after it, used to confirm that a property
notices it (`PROJECT.json`, `mutants`).

## 3. What the runs check

| Run | Instance | Shows |
|---|---|---|
| `CommitAtomic` | 3 files, 3 calls, every fault: failing writes, syncs, stats, renames, undos and removals, and death | a call that returns is all or nothing but for the files it could not inspect or restore (`AllOrNothing`), leaves no `.staged` or `.backup` of its own but those it could not remove (`NothingLeftBehind`); until the last rename each old file can be found (`OldCopySurvives`); and the phases implement `AtomicCommit` (`RefinesAtomicCommit`) |
| `UpdateBump` | 2 names, 2 contents, 4 runs; failing keys, disk (in the commit and its rollback too), torn files, death; three policies | at every moment the published chain and the published targets are in their places or in `.backup` (`ChainHeld`, `TargetsHeld`); clients are led to the last publication or to nothing (`RefinesPublication`); edits of failed runs are not published (`FailedEditsStayUnpublished`), and a torn file only where the skip policy let one stand that the run was to add (`DamageComesBySkipping`) |
| `UpdateForced` | 1 target, 3 runs, every use of the three commands, forced versions; failing keys, disk and stats | a run that succeeds leaves an intact chain (`SuccessIsConsistent`) |
| `RhtasCleanup` | 2 certificate files, 3 certificates, 4 runs, failing removals | `TrustFollowsTargets`, `CleanupIsRetryable`, `CleanupSparesPublished` |
| `RhtasClient` | 1 certificate file and the bundle, 2 runs of `rhtas` with every fault, expiry-only runs included; 2 readers, each a clone (all, or metadata only) or a download | `ChainIntact` at every moment; `NeverRefused`, `CopiesOnePublication`, `CloneIsComplete`; and a file is missing only for the reasons `MissesOnlyWithdrawn` lists |
| `ChainFetch` | a history of 4 chains, any number of fetches, deaths | `LocalChainIntact`, `NeverMixes`, `RollsBackOnlyWhenKilled`; `CatchesUp` under fairness |
| `PublishRun` | 686 trees of 3 directories with links, 5 lists of 2 or 3 keys, 3 roots | `FindsEveryFile`, `CopiesWhatItHashed`, `SignedByThreshold`; `EndsClean` under fairness |
| `RootSigning` | 2 keys, 2 roles; integers from -4 to 3, thresholds and versions that do not fit, a bump that overflows | `SignaturesMatch`, `KeysMapExact`; `RootsFollow`, for successors of the next version |
| `TrustRotation` | 2 authorities, 2 URIs, 4 runs, 3 moments, a legacy bundle | `ListedOnce`, `PeriodsInOrder`, `NewestStaysOpen`, `ServicesBacked`, `PastStaysTrusted` |
| `UpdateFailPolicy`, `RhtasDelete`, `CloneCopies` | | violations: section 7 |

The modules that write have a type invariant, `TypeOK`, checked by one of their runs.

**Bounds.** They are the constants `Max...`. Three calls of the commit let a call
meet what a killed one left and be followed by one that meets what it left itself.
Three files are a batch of which one is done, one is being treated and one is not.
Four runs of `update` are: create, a run that fails, a run that builds on its
leftovers, a run that builds on that. Two names and two contents are needed for a
target that is replaced beside one that is not, or that returns to its old
contents. `rhtas` needs four: set, delete with failing cleanup, retry, set again. Fetches are not
bounded; the history has a chain in which only the timestamp is
new, one with targets signed again under their version, one with new targets. Two
keys suffice to replace a key, and to sign with too few. Integers of 3 bits (`Wrap` is 4)
have a threshold and a version, 7, that turn negative. Versions are set to that or to 3, the
greatest, and bumped from 1, where `init` starts, and from 3, which overflows: the bound
`Bumped` names these two to keep versions few. A successor then has the next version, the
same or another one. Two authorities and two URIs are needed for a shared URI, a
rotation and a change of URI, and three moments for what was before, is now and
will be. A reader needs two publications, one that is current when it begins and one
that is written meanwhile, and two runs of `rhtas` are the first of them and a second
that changes, renews or withdraws; the operator may take the output away, so that a
reader also meets a repository in which the second has been cut short. Readers ask for
all targets or for none: one name is a part of all, and a run that allows it too has too
many states (`CloneCopies` has it, with one reader). Two readers are needed for an output directory that appears between look and use. Trees have
two directories below the root, side by side or one in the other, and in the three
free places a file, nothing, or a link to a file, nowhere, or any of the directories,
which gives cycles of length one, two and three, links upward, and directories that
are reached twice. The lists of keys have a key twice, a card beside a file
and Vault, two slots of the card, and keys root.json does not know. The counters that
are bounded (calls, runs, versions, editions) only stop a behaviour, which is why the
configurations switch the deadlock check off: reaching a bound is no deadlock of the
code. `ChainFetch` has no such counter, and checks deadlock. Symmetry is declared only
for constants that the module and its configuration use alike (files of a commit,
names, contents, keys, readers), and in no run with a liveness property.

**Faults.** The configurations name them; `CommitAtomic` has all nine of its module,
and `RhtasClient` all five of `Rhtas`. `RhtasCleanup` has only failing removals: its
properties do not hold of runs that fail before publication (section 7). In
`ChainFetch`, `PublishRun` and for readers, faults are actions that may always come:
`GiveUp` and `Crash`; `ScanFails`, `RunFails` and `SignStops`; `Stop`.

**Fairness.** Two specifications state it, and each for the program's own steps only.
`MetadataChain!FairSpec`: a run that can take its next step takes it (`Proceed`: a
command is one process, and nothing in it waits but for a request, which succeeds or
fails), and whoever keeps the mirror runs the command again (`FetchTimestamp`), as a
scheduled job does. `CatchesUp` has as premise, in the formula, that the mirror stays
at its newest publication and that failures and deaths stop. `PublishRun!Spec`:
`WF_vars(Proceed)`, the steps of one process; nothing is assumed of faults and of the
operator's edits, which may come or not, and `EndsClean` holds with them. Death is
not among them: a process that is killed runs no deferred calls. The other
specifications state no fairness, because their properties are safety properties: a
command may be killed at any time and nobody must run another.

## 4. What is proved

TLAPS checks these for every value of the constants that the named assumptions
allow; TLC evaluates the assumptions in every run.

* `CommitStagedProofs!TypeCorrect`: `Spec => []TypeOK`.
* `CommitStagedProofs!CommitAllOrNothing`: `Spec => []AllOrNothing`, for every set of
  faults, deaths included, and any number of calls and files. `AllOrNothing` speaks of
  a call that has returned and is not inductive. `IInv` adds how far each phase has
  come (`PhaseInv`), that the `.staged` files not yet renamed are this call's
  (`StagedInv`), and for each path what is on disk from where the call stands
  with it (`DiskInv`, `Place`): untouched paths are as before, a path that was
  seen has its old contents in `.backup` or had none, a swapped one is new. Of the
  paths in `Lost` it says only what they can still be (`LostPlace`).
* `CommitStagedProofs!CommitNeverLosesAFile`: `Spec => []OldCopySurvives`. Its
  invariant, `OldCopyInv`, follows one old file through the phases, the failing
  rollback and the removals.
* `CommitStagedProofs!CommitLeavesNothingBehind`: `Spec => []NothingLeftBehind`. The
  same invariants say of each phase which `.staged` and `.backup` files of this call there
  are; the theorem is what is left of that after the removals.
* `CommitStagedProofs!CommitIsAtomic`: `Spec => RefinesAtomicCommit`.
  The refinement mapping is `Recoverable`: what a rollback would restore until the
  last rename, and what is there afterwards. `IInv` shows that every step maps to
  a step of `AtomicCommit` or to a stutter; the last rename is `Commit`, the
  return after a rollback `Abort`, a crash `Die`, and a file that cannot be
  inspected or restored `Lose`.
* `UpdateProofs!TypeCorrect`: `Spec => []TypeOK` for every use of the commands.
* `UpdateProofs!UpdateChainHeld`: `Bumping => (Spec => []ChainHeld)`. `Bumping`
  says that repositories begin in a directory that publishes nothing, that
  updates modify their targets, and that a file that is there is seen by `stat` (one that
  is not seen is swapped without a `.backup`, and removed by a rollback: `CommitStaged`
  says so, and excepts it too); every other fault may happen. `ChainHeld` is not
  inductive. `CommitInv` describes the commit: while it goes on, and for good when it is
  stopped, each file of the published chain is under its name or, missing there, in
  its `.backup` (`Kept`), and what each phase has left to do agrees with that (`Phases`:
  a swap begins when all is backed up, so that an undo finds all that it is to restore).
  `CommitKeeps` goes through the steps of the commit, `CommitHolds` shows that none
  changes what is held, and `HeldIsDisk` that outside of a commit that is the disk. The
  rest is about the steps of `SignAndWrite`, which could overwrite a published file:
  `Ahead` (a run that has not published yet writes under versions that
  `timestamp.json` does not lead to), `Flow` (a file that is about to be written
  refers to one that was just written) and `Indexed` (the version in a file is the
  one in its name). `EditorProofs` proves once, for any command, that
  `SignAndWrite` preserves these and `ChainIntact`; `HighestVersion` that the highest-numbered
  file exists, by the finiteness of the versions.
* `UpdateProofs!UpdateSuccessIsConsistent`: `Spec => []SuccessIsConsistent` for every use,
  forced versions and signing in place included. Each file refers to the one written
  just before, so that the chain is whole once `timestamp.json` is there, and the steps
  after that leave metadata alone (`SuccessInv`).
* `UpdateProofs!UpdatePublishesItsOwnEdits`, `UpdateDamageComesBySkipping`,
  `UpdateRefinesPublication`: under `Bumping`, `FailedEditsStayUnpublished`,
  `DamageComesBySkipping` and `RefinesPublication`. `PublishInv` adds to `IInv`
  what a run is about to publish beside what is published (`Extends`: higher versions, and
  the published targets with those the run adds) and that of those files only one that
  the run adds can be torn, until it has come past it (`Undamaged`). The refinement maps
  to `View`, what clients are led to, and `Last`, what is held for them: writing
  `timestamp.json` is `Publish`, a step of the commit `Withdraw`, `Restore` or a stutter,
  every other step a stutter.
* `UpdateProofs!UpdateTargetsHeld`: `Copying => (Spec => []TargetsHeld)`. `Copying` says
  that the commands are `create` and `update` with target files of their own (with
  `transfer-metadata` or `--incoming-metadata` the operator brings the files), and that
  `stat` sees what is there. `ServedInv` says that the files of every `targets.json` are
  held, published or not, because any of them may be what the next `create` starts from.
* `RhtasProofs!RhtasTypes`: `Spec => []TypeOK`, with `BundleInv` (below): what a
  run loads is always a bundle, and what it deletes the file of a certificate.
* `RhtasProofs!RhtasChainIntact`: `~NoChange => (Spec => []ChainIntact)`. `NoChange`
  are runs with nothing to change, which sign snapshot and timestamp again under the
  versions they have. Runs that only renew expiry reuse the targets of an earlier
  run: `Ahead` then asks nothing of the targets version. Besides `ChainInv` the
  invariant has `BundleInv`: what is stored as `trusted_root.json` is always a bundle,
  whichever of the two names it is found under. Versions are higher than all on
  disk because those loaded are the highest (`LatestType`, `LoadedType`).
* `RhtasProofs!RhtasTrustFollowsTargets` (for certificates that belong to one target,
  `OwnCerts`), `RhtasCleanupIsRetryable`, `RhtasCleanupSparesPublished`: under `Undisturbed`,
  which says that only removals fail and that the policy is not `fail`, and with runs that
  change nothing included. With other faults they do not hold: `RhtasDelete` (section 7)
  has only a failing signature. `QuietInv` has three parts beside the types: `PlaceInv` (what is published
  is the newest on disk, and what a run writes is newer), `ContentInv` (a digest-prefixed
  file holds what its name says; those of the targets in memory are there; the bundle
  in memory, the plain file and the published one agree from phase to phase), and
  `RetryInv` (the newest metadata that lists a deleted target is the one its deletion went by).
* `RhtasProofs!RhtasNeverRefusesReaders`, `ReadersCopyOnePublication`, `ClonesAreComplete`:
  under `~NoChange`, `RhtasClientSpec => []NeverRefused`, `[]CopiesOnePublication` and
  `[]CloneIsComplete`, for any number of readers and runs, whatever fails. The heart is
  `Held`: the files that the timestamp in a reader's hands leads to are on disk with their
  recorded hashes, and the current run, if it has not published yet, is not to write
  them. A step of a run keeps `Held` because of `ChainInv`; a run that begins plans
  versions above all on disk. `AloneInv` says which directories a reader has to itself,
  `CopyInv` what it has written so far.
* `RhtasProofs!ReadersMissOnlyWithdrawn`: `RhtasClientSpec => MissesOnlyWithdrawn`, with every
  fault, any number of readers and runs, and no hypothesis: runs that change nothing
  included. `ListedOrTakenOut` is the heart: the file of a certificate that any
  metadata on disk lists is there, perhaps torn, unless metadata of a higher version
  says something else of it. It holds because a run has the files of what it is to
  list (`CertsPrepared`), and because the newest metadata says what the cleanup
  goes by (`NewestSays`); nobody writes over targets metadata that a reader trusts.
* `MetadataChainProofs!ChainTypes`, `LocalChainStaysIntact`, `CommitsNeverMix`: `TypeOK`, and
  under `TimestampsNumbered` (no two publications have the same timestamp version)
  `LocalChainIntact` and `NeverMixes`, for every history and with deaths. `CommitInv` says
  what stands under each name as far as the commit is, `IntactInv` that
  the chain is whole otherwise. With a history in which a snapshot is signed again and the
  timestamp too, both under their versions, TLC finds both violated:
  a fetched timestamp of the prior version is committed beside a snapshot verified
  against the prior one (section 7).
* `MetadataChainProofs!RunsGoForward`, `FloorHolds`: `RollsBackOnlyWhenKilled` when the
  publisher never goes back (`NeverBack`), with deaths; and, for every publisher that numbers
  its timestamps, when no process dies. `FloorInv` is the reason: `timestamp.json` is that
  of the chain accepted last. When the publisher goes back and processes die, TLC shows
  the targets going back in a later run: a snapshot that a killed commit left stands in
  the floor for that of the chain, if it has the higher number.
* `RootMetaProofs!RootTypes`, `RootSignaturesMatch`, `RootKeysMapExact`, `RootsFollowEachOther`: for any
  keys, roles, thresholds and versions given, and integers of any width. `RootsFollow` is not inductive: `StillVerifies` says that
  what `root sign` has checked stays true until the next edit, for which signatures must
  match (`SignaturesMatch`), signing again must not take any away, and sets of keys must
  be finite (`FiniteKeys`), so that more signatures are a higher count.
* `PublishRunProofs!RunCopiesWhatItHashed`, `RunSignsByThreshold`, `RunReturnsClean`: for any tree,
  list of keys and root. `StageInv`: the digests are those of the first staged
  copies, and the copies those of the first digests, in order, whatever the
  operator edits. `CardInv` counts the handles of the card against the signers and the one that
  is being opened. `RunReturnsClean` is the safety part of `EndsClean`: a run that has
  returned holds neither directory nor card; that it returns is left to TLC.
* `PublishRunProofs!RunFindsEveryFile`: `FindsEveryFile` for any finite set of directories and any
  trees, with links that lead anywhere. `Walks` describes the stack of calls: each is in the
  directory that the one around it has entered, none is in a directory twice, and `visited`
  is the set of their directories. `Searched` relates the files found to the reference
  definition `AllFiles`: a file is found, once, if and only if no call has an entry
  of its path still ahead. A way along a path that goes through the entry looked at
  leads through the directories of the calls (`WayFollows`), so that passing by an
  entry whose directory is being walked hides no file.
* `TrustBundleProofs!TrustBundleTypes`, `TrustNewestStaysOpen`: for whatever a repository
  starts with. `TrustListedOnce`, `TrustPeriodsInOrder`, `TrustInThePastStays`: under
  `LegacySound`, which says that the lists of earlier versions hold no chain twice, be
  it with PEM text or without, and no period that begins in the future or ends before it
  starts. `Listed` is the same of the lists at any time; each edit is described once by where
  an entry comes from (`CleansTo`, `DropsTo`, `EnteredFrom`), and the properties follow position
  by position. `TrustServicesBacked`: also under `Unshared`, no two chains have a
  certificate in common. It is needed: a deletion drops every entry that shares the
  certificate but refreshes one URI (section 7). The theorem is stronger than the run, since
  its invariant holds within runs too.

TLC confirms the inductive invariants on the instances of section 3: `IInv`, `ChainInv`,
`OldCopyInv`, `PublishInv`, `ServedInv`, `QuietInv`, `KeepInv`, `ReaderInv`, `FloorInv`, `ListInv`, `OpenInv`, `SharedInv`;
and `FindInv` on those trees of `PublishRun` whose first two free entries vary.

**Assumptions.** Beside the types of the constants: `None` is no document
(`NoneAssumption`, `CopyAssumption`), no view (`ViewAssumption`) and no command; the bytes of a
file of the history determine what it refers to (`ChainAssumption`), which is what a hash
is for; there are finitely many directories and `os.ReadDir` lists no name twice
(`ScanAssumption`). The hypotheses of single theorems (`Bumping`, `Copying`, `Undisturbed`, `OwnCerts`,
`TimestampsNumbered`, `NeverBack`, `LegacySound`, `Unshared`) are defined in the proof modules; the
run that checks a property satisfies the hypotheses of its theorem, so that they are
not empty.

**Only model-checked:** liveness (`CatchesUp`, and of `EndsClean` that a run
returns), which with `ENABLED` is out of reach of the prover; the violations of
section 7. There are no `RECURSIVE` operators in these modules.

## 5. Limits of the model

* Signatures hold or signing fails: cryptography and key formats are outside.
  `SignerSet` knows a key by its ID. Expiry of metadata is left out except as a reason
  to give up.
* One process writes to a directory at a time. Nothing in the code locks it.
* The readers' `root.json` is fixed, and the hash that go-tuf computes is right.
* Readers of a run with nothing to change (`NoChange`) are left out of `RhtasClient`: it signs
  a snapshot again under its version, so `ChainIntact` and `NeverRefused` do not hold.
* An update whose `--metadata-url` is the repository itself puts it out of service while it
  commits: it takes `timestamp.json`, the snapshot, the targets and every target file
  away to `.backup` before it puts them back (editor.go:150, metadata.go:419-447). So
  `ChainIntact` holds of no moment in between, and what `Update` shows of every moment is
  that nothing is lost. A death then, or a restore that fails, leaves the repository so;
  updates refuse it, and the operator has to move the `.backup` files back (the
  model has no action for that, `ChainHeld` and `TargetsHeld` say what it would yield).
  A file whose `stat` fails gets no `.backup`: `UpdateBump` and the theorems leave that
  fault out, `UpdateForced` and `CommitAtomic` have it.
* `ChainHeld` does not hold for an update that changes no targets:
  it signs `<v>.targets.json` again in place, and until `timestamp.json` is written the
  published snapshot has the hash of bytes that are gone (update.go:152). Likewise a
  forced version that names a published file. `UpdateForced` shows that success
  repairs it; a death in between leaves a repository that no client and no update
  accepts.
* The history of `ChainFetch` numbers its timestamps and never goes back. Section 4 says
  which of its properties need that. A forced version, or `rhtas` with nothing to change,
  makes a history that does not.
* `RefinesPublication` is checked for updates that modify targets. With
  `--incoming-metadata` alone the targets change under an unchanged version.
* `Rhtas` leaves out runs with `--metadata-url`, forced versions, and in
  `TrustFollowsTargets` certificates that are the contents of two files.
* `TrustBundle` treats a log as a chain of one certificate; a run that fails is no
  step there. `TrustRotation` has one kind (the four differ in where their lists
  are) and no chains that share certificates.
* `transfer-metadata` appears in `Update` as one more way to begin a repository, and in
  `SignerSet` with its signers. What it does to clients that follow from the old root
  is a matter of roots: `RootMeta!RootsFollow`.
* `TargetScan`: the kinds of entries and the links do not change during a scan, only
  the contents of files; the root is a directory, or a link to one.

## 6. Not modelled

* **Signing configuration** (`internal/signingconfig`). Each command loads one JSON file,
  edits one list and writes the file atomically. No step of it can be interrupted to
  an effect, no second actor takes part, and its unit tests reach every branch: a
  model would repeat the list operations line by line. What `rhtas` does to the signing
  configuration, where there is something to get wrong, is in `TrustBundle`.
* **Key encodings** (`pkcs8.go`, `passphrase.go`, most of `parse.go`, `vault_rsa_pss.go`):
  functions from bytes to keys without state.
* **Root download and the local fetcher** (`tufclient/root.go`, `fetcher.go`): one
  request, one file.
* **Command line and public packages**: flags to options, one call.
* **`gen-rsa-key`**: two writes in an order that can leave `root.json` with a key nobody
  has (modify.go:286); there is nothing beyond that sentence to model.
* **OIDC issuers, operators, key details, certificate parsing** (`internal/sigstore`): data
  that no property tells apart. `rhtas --metadata-url` is the fetch of `MetadataChain`
  followed by a run of `Rhtas`.
* **Script, packaging, smart card headers.**

## 7. Disagreements found

Each of these is a run in which TLC finds the property violated.

* **`UpdateFailPolicy`.** With `--target-path-exists fail`, `SignAndWrite` publishes
  targets, snapshot and timestamp and only then applies the policy to the target
  files (signing.go:183). A test is named
  `TestRun_TargetPathExistsFailLeavesRepositoryUnchanged`.
* **`RhtasDelete`.** A deletion run that fails after it wrote `<v>.targets.json` makes
  the next run with the same deletion believe that it was published: it removes the
  file of a target clients are still led to (rhtas.go:322, :488).
* **`CloneCopies`.** `clone` writes metadata with `ToBytes(false)`, un-indented, while the
  files of a repository are indented and hashed so (clone.go:190, signing.go:94). The
  snapshot and targets of a clone do not match the hashes its timestamp and snapshot
  record: a clone is complete (`CloneIsComplete`), but a client refuses it.

Met while modelling, without a run of their own:

* A process that dies between the backup and the swap of a commit leaves no
  `timestamp.json`, hence no floor: the next fetch accepts an older chain
  (metadata.go:424, against the comment at 177-179). So does, without a death, a rollback
  whose restore of `timestamp.json` fails: its error is ignored (metadata.go:468, :478).
  The short commit of `MetadataChain` cannot fail, so `RollsBackOnlyWhenKilled` shows
  that no sequence of fetches opens that way by itself; what a failing commit leaves is in
  `CommitStaged` (`Lost`) and `Update` (`UndoFails`).
* An update of a repository from itself makes it disappear for its clients for a
  moment, and for good when it dies there (editor.go:150; section 5). The commit guards
  against mixed versions, but here the bytes are the same.
* A published trust bundle may exist under no name that clients ask for. The loop that
  copies target files to their digest names runs after `timestamp.json` is written, so
  readers miss the bundle for a moment; and when that loop fails before it comes to the
  bundle, the deferred `os.Remove` of rhtas.go:299 deletes its only copy, and they miss
  it until another run publishes one. `MissesOnlyWithdrawn` excepts the bundle for this
  reason, and shows that no other file is missed so.
* Two clones into the same directories, started together, both pass the check that
  the directories are not there, and mix their files: `clone` uses `MkdirAll`, where
  `download` uses `Mkdir`. `CopiesOnePublication` is checked without that pair.
* A clone or download that fails leaves its output directory, which then stands in the
  way of the next; so does the directory of a transfer that failed.
* `transfer-metadata` signs twice with a key that is given twice (transfer.go:242-253),
  and go-tuf refuses metadata with two signatures of one key ID; `SignForRole` drops the
  repetition. `SignedByThreshold` promises distinct signatures of the latter only.
* Two slots of one smart card cannot be used by one run: the second `piv.Open` meets
  the handle of the first (`CardHeld`).
* With `--follow`, one broken link fails the whole scan (scan.go:109).
* The rollback floor is the highest-numbered snapshot on disk, also one that a
  failed run never published; the update in place is refused from then on, since
  the published snapshot refers to older targets (metadata.go:289, against the
  comment at 272-275).
* After a run of `rhtas` that failed between targets and timestamp, the newest targets
  name a trust bundle that exists under neither name, and the next run starts from an
  empty one (rhtas/editor.go:71).
* A fetched timestamp of the same version as the prior one is committed although
  the snapshot was verified against the prior one (metadata.go:198).
* Thresholds and versions of 2^63 and more become negative (modify.go:100, :141), and so
  does the version 2^63 - 1 when it is bumped (modify.go:118). Clients refuse such a root.
* `root sign --cross-sign` looks at signatures and thresholds, never at the version
  (sign.go:49-59, :138-174): a successor under the same version, a lower or a skipped one passes
  both checks, and the clients of the root before never accept it. `RootsFollow` shows
  that the version is all that can keep them from it.
* Trust bundle: setting an old authority Expired under the URI of a usable one
  replaces the usable service by one that has ended. A rotation to another URI ends
  the authority but leaves its service open, unless the service was refreshed in the
  same run, when both share one object. An authority that is given another URI
  leaves a service without an authority. A timestamp authority without a URI leaves
  a service with an empty URL that no deletion removes. Deleting a target under the
  option of another kind removes the target but not the authority. Deleting a chain
  drops every entry that shares its first certificate, but refreshes one URI only.
  An authority appended as Expired hides an open one from the next rotation. Setting
  Expired again moves the end of a period to now. `ServicesBacked` speaks of the URLs of
  services only; that a usable authority keeps a usable service, and that a service is
  closed with its authority, no property says, since neither holds.

## 8. Plan

Done in this order: `CommitStaged` and `AtomicCommit`; `Editor` and `Update` with
`Publication`; `MetadataChain`; `Rhtas`; `RootMeta`; `TrustBundle`; the proofs of
section 4; `Client` and `RhtasClient`; `TargetScan`, `SignerSet` and `PublishRun`; liveness.
Then the proofs of the other invariants and action properties, in the order of section 4.
What is left is the second half of what `UpdateForced` shows for `transfer-metadata`: which
files the operator has to bring for `TargetsHeld`.
