----------------------------- MODULE PublishRun -----------------------------
(***************************************************************************)
(* A run that publishes, from the sources of its targets to the signed     *)
(* roles: `create' and `update' with --add-targets scan a directory and    *)
(* copy the staged files, every command loads signers and signs, and the   *)
(* deferred calls give back what was acquired.  What the metadata says,    *)
(* and the files of the repository, are the subject of Update.             *)
(***************************************************************************)
EXTENDS TargetScan, SignerSet

VARIABLES copies     \* contents of the files copied into the repository

vars == <<scanVars, signVars, copies>>

(* update without --add-targets, and transfer-metadata. *)
NoScan ==
  /\ tree = NoTree /\ follow = FALSE /\ scan = "scanned"
  /\ stack = <<>> /\ visited = {} /\ found = <<>>
  /\ edition = 1 /\ stageDir = FALSE /\ staged = <<>> /\ targets = <<>>

Init == (ScanInit \/ NoScan) /\ SignInit /\ copies = <<>>

(* CopyTargetToRepo, from the staged copy. *)
CopyStaged ==
  /\ scan = "scanned" /\ sign = "off" /\ Len(copies) < Len(targets)
  /\ copies' = Append(copies, staged[Len(copies) + 1])
  /\ UNCHANGED <<scanVars, signVars>>

Sign ==
  /\ scan = "scanned" /\ Len(copies) = Len(targets)
  /\ SignStart(FALSE) \/ (~stageDir /\ SignStart(TRUE))
  /\ UNCHANGED <<scanVars, copies>>

(* Loading the repository or copying fails: no key is loaded. *)
RunFails ==
  /\ scan = "scanned" /\ sign = "off"
  /\ sign' = "returned"
  /\ UNCHANGED <<scanVars, transfer, given, entries, card, root, signed, sigs, copies>>

(* Run returns, and the deferred cleanup removes the staging directory. *)
Return ==
  /\ scan = "scanned" /\ sign = "returned"
  /\ scan' = "returned" /\ stageDir' = FALSE
  /\ staged' = <<>> /\ targets' = <<>> /\ copies' = <<>>
  /\ UNCHANGED <<tree, follow, walk, edition, signVars>>

Proceed ==
  \/ ScanProceeds /\ UNCHANGED <<signVars, copies>>
  \/ CopyStaged \/ Sign \/ Return
  \/ SignProceeds /\ UNCHANGED <<scanVars, copies>>

Next ==
  \/ Proceed \/ RunFails
  \/ (ScanFails \/ EditSources) /\ UNCHANGED <<signVars, copies>>
  \/ SignStops /\ UNCHANGED <<scanVars, copies>>

(* A run goes on to its end; nothing is assumed of faults and edits. *)
Spec == Init /\ [][Next]_vars /\ WF_vars(Proceed)

-----------------------------------------------------------------------------
(* The digest in the metadata of a target is that of the contents that are *)
(* copied under it, however the sources are edited while the run reads     *)
(* them.                                                                   *)
CopiesWhatItHashed == \A i \in DOMAIN copies : copies[i] = targets[i]

(* Every run ends - also the walk of a tree with links that form cycles -  *)
(* and has then removed the staging directory and closed the card, once:   *)
(* on every path that returns an error as on the one that succeeds.        *)
EndsClean == <>[](scan = "returned" /\ ~stageDir /\ card = 0)
=============================================================================
