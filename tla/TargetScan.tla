----------------------------- MODULE TargetScan -----------------------------
(***************************************************************************)
(* Scan (internal/targetscan): find the files below the directory given by *)
(* --add-targets, following symbolic links when asked to, copy each to a   *)
(* private staging directory and hash the copy.  The operator may go on    *)
(* editing the files meanwhile; every call that touches a file may fail.   *)
(*                                                                         *)
(* A tree gives the entries of every directory.  A directory is known by   *)
(* its real path, a target by its path from the root.  The contents of all *)
(* source files are one value, the edition they are at.                    *)
(***************************************************************************)
EXTENDS Integers, Sequences, FiniteSets, SequencesExt

CONSTANTS Dir,         \* directories
          Root,        \* the one to be scanned, itself behind a link or not
          Order,       \* names of entries, as os.ReadDir sorts them
          Trees,       \* the trees that may be found there
          NoTree,      \* a tree that is looked at no more
          MaxEdition   \* bound: editions of the sources

EntryName == Range(Order)

(* Kinds of entry: links lead to a directory, to a file or nowhere. *)
Kind == {"none", "file", "dir", "link", "filelink", "broken"}
Link == {"link", "filelink", "broken"}
Item == [kind : Kind, to : Dir]
IsTree(t) == t \in [Dir -> [EntryName -> Item]]

(* os.ReadDir lists a name once, and a file system has finitely many       *)
(* directories.                                                            *)
ASSUME ScanAssumption ==
  /\ IsFiniteSet(Dir) /\ Root \in Dir /\ MaxEdition \in Nat \ {0}
  /\ Order \in Seq(EntryName) /\ IsInjective(Order)
  /\ \A t \in Trees : IsTree(t) /\ t # NoTree

VARIABLES tree,      \* the directories as they are
          follow,    \* the --follow option
          scan,      \* phase of Scan
          stack,     \* the calls of walk, innermost first
          visited,   \* real paths of the directories being walked
          found,     \* discover's result: paths from the root
          edition,   \* what a source file contains now
          stageDir,  \* whether the staging directory exists
          staged,    \* contents of the staged copies, in order
          targets    \* digests in the metadata of the targets, in order

walk == <<stack, visited, found>>
scanVars == <<tree, follow, scan, walk, edition, stageDir, staged, targets>>

Frame(dir, path) == [dir |-> dir, path |-> path, rest |-> Order]

ScanInit ==
  /\ tree \in Trees /\ follow \in BOOLEAN
  /\ scan = "walk" /\ stack = <<Frame(Root, <<>>)>> /\ visited = {Root}
  /\ found = <<>> /\ edition = 1 /\ stageDir = TRUE
  /\ staged = <<>> /\ targets = <<>>

-----------------------------------------------------------------------------
(* walk, one entry of the innermost call after the other. *)
Walking == scan = "walk" /\ stack # <<>> /\ Head(stack).rest # <<>>
Entry == tree[Head(stack).dir][Head(Head(stack).rest)]
EntryPath == Append(Head(stack).path, Head(Head(stack).rest))
Advanced == <<[Head(stack) EXCEPT !.rest = Tail(@)]>> \o Tail(stack)

Followed == Entry.kind \in Link => follow

Pass ==
  /\ Walking
  /\ \/ Entry.kind = "none" \/ ~Followed
     \/ Entry.kind \in {"dir", "link"} /\ Entry.to \in visited
  /\ stack' = Advanced
  /\ UNCHANGED <<tree, follow, scan, visited, found, edition, stageDir, staged, targets>>

Discover ==
  /\ Walking /\ Followed /\ Entry.kind \in {"file", "filelink"}
  /\ found' = Append(found, EntryPath)
  /\ stack' = Advanced
  /\ UNCHANGED <<tree, follow, scan, visited, edition, stageDir, staged, targets>>

Descend ==
  /\ Walking /\ Followed /\ Entry.kind \in {"dir", "link"} /\ Entry.to \notin visited
  /\ visited' = visited \cup {Entry.to}
  /\ stack' = <<Frame(Entry.to, EntryPath)>> \o Advanced
  /\ UNCHANGED <<tree, follow, scan, found, edition, stageDir, staged, targets>>

(* Faulty Leave: what has been walked once is not walked again. *)
LeaveMarked ==
  /\ scan = "walk" /\ stack # <<>> /\ Head(stack).rest = <<>>
  /\ stack' = Tail(stack)
  /\ scan' = IF stack' = <<>> THEN "stage" ELSE "walk"
  /\ UNCHANGED <<tree, follow, visited, found, edition, stageDir, staged, targets>>

Leave ==
  /\ scan = "walk" /\ stack # <<>> /\ Head(stack).rest = <<>>
  /\ stack' = Tail(stack)
  /\ visited' = visited \ {Head(stack).dir}
  /\ scan' = IF stack' = <<>> THEN "stage" ELSE "walk"
  /\ UNCHANGED <<tree, follow, found, edition, stageDir, staged, targets>>

(* Every error of Scan removes the staging directory. *)
Abandon ==
  /\ scan' = "returned" /\ stageDir' = FALSE
  /\ stack' = <<>> /\ visited' = {} /\ found' = <<>> /\ staged' = <<>> /\ targets' = <<>>
  /\ tree' = NoTree
  /\ UNCHANGED <<follow, edition>>

LinkBroken == Walking /\ Followed /\ Entry.kind = "broken" /\ Abandon
ScanFails == scan \in {"walk", "stage"} /\ Abandon

(* One iteration of the loop over the files found: ReadFile and WriteFile, *)
(* and FromFile on the copy.                                               *)
StageFile ==
  /\ scan = "stage" /\ Len(staged) < Len(found) /\ Len(staged) = Len(targets)
  /\ staged' = Append(staged, edition)
  /\ UNCHANGED <<tree, follow, scan, walk, edition, stageDir, targets>>

(* Faulty HashFile: hashes the source. *)
HashSource ==
  /\ scan = "stage" /\ Len(targets) < Len(staged)
  /\ targets' = Append(targets, edition)
  /\ UNCHANGED <<tree, follow, scan, walk, edition, stageDir, staged>>

HashFile ==
  /\ scan = "stage" /\ Len(targets) < Len(staged)
  /\ targets' = Append(targets, Last(staged))
  /\ UNCHANGED <<tree, follow, scan, walk, edition, stageDir, staged>>

(* Scan returns: what it has walked is gone, and nothing below the root is *)
(* read again.                                                             *)
ScanReturns ==
  /\ scan = "stage" /\ Len(targets) = Len(found)
  /\ scan' = "scanned" /\ tree' = NoTree /\ found' = <<>> /\ visited' = {}
  /\ UNCHANGED <<follow, stack, edition, stageDir, staged, targets>>

(* The operator changes the contents of files that are there. *)
EditSources ==
  /\ scan = "stage" /\ edition < MaxEdition
  /\ edition' = edition + 1
  /\ UNCHANGED <<tree, follow, scan, walk, stageDir, staged, targets>>

ScanProceeds ==
  Pass \/ Discover \/ Descend \/ Leave \/ LinkBroken \/ StageFile \/ HashFile \/ ScanReturns

-----------------------------------------------------------------------------
(* The reference definition.  A path leads to a file when there is a way   *)
(* along it, through directories and, if asked for, links, that enters no  *)
(* directory twice.                                                        *)
Leads(t, d, e) == t[d][e].kind = "dir" \/ (follow /\ t[d][e].kind = "link")
Holds(t, d, e) == t[d][e].kind = "file" \/ (follow /\ t[d][e].kind = "filelink")

Way(t, path, dirs) ==
  /\ dirs[1] = Root /\ IsInjective(dirs)
  /\ \A i \in 1 .. Len(path) - 1 :
       Leads(t, dirs[i], path[i]) /\ t[dirs[i]][path[i]].to = dirs[i + 1]
  /\ Holds(t, dirs[Len(path)], Last(path))

AllFiles(t) ==
  {path \in UNION {[1 .. n -> EntryName] : n \in 1 .. Cardinality(Dir)} :
     \E dirs \in [1 .. Len(path) -> Dir] : Way(t, path, dirs)}

(* The walk ends having found every such path, once: links that form       *)
(* cycles, or lead twice to one directory, hide no file and repeat none.   *)
FindsEveryFile ==
  scan = "stage" => Range(found) = AllFiles(tree) /\ IsInjective(found)
=============================================================================
