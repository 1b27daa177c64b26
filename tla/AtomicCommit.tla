---------------------------- MODULE AtomicCommit ----------------------------
(***************************************************************************)
(* What commitStagedMetadata promises the commands that fetch metadata: a  *)
(* call replaces a set of files of the output directory in one step, or    *)
(* returns an error and has replaced none.  Only a process that dies leaves *)
(* something in between; a file the operating system refuses to inspect or *)
(* to restore is lost to the promise, alone, and no other file is touched. *)
(***************************************************************************)
EXTENDS Integers

CONSTANTS File,     \* paths of the output directory
          MaxGen    \* bound: calls in a behaviour

VARIABLES repo,     \* which call wrote each file; 0 when there is none
          gen,      \* number of the current (or last) call
          batch,    \* the files it is to replace
          lost,     \* those of them it cannot answer for
          outcome   \* "none", "running", "ok", "err" or "crashed"

vars == <<repo, gen, batch, lost, outcome>>

Init ==
  /\ repo = [f \in File |-> 0] /\ gen = 0 /\ outcome = "none"
  /\ batch = {} /\ lost = {}

Begin ==
  /\ outcome # "running" /\ gen < MaxGen
  /\ gen' = gen + 1 /\ outcome' = "running"
  /\ batch' \in (SUBSET File) \ {{}} /\ lost' = {}
  /\ UNCHANGED repo

(* A lost file may stay the old one, become the new one or go. *)
Lose ==
  /\ outcome = "running" /\ lost \subseteq lost' /\ lost' \subseteq batch
  /\ repo' = [f \in File |-> repo'[f]]
  /\ \A f \in File :
       repo'[f] \in IF f \in lost' THEN {repo[f], 0, gen} ELSE {repo[f]}
  /\ UNCHANGED <<gen, batch, outcome>>

Commit ==
  /\ outcome = "running" /\ outcome' = "ok"
  /\ repo' = [f \in File |-> IF f \in batch THEN gen ELSE repo[f]]
  /\ UNCHANGED <<gen, batch, lost>>

Abort ==
  /\ outcome = "running" /\ outcome' = "err"
  /\ UNCHANGED <<repo, gen, batch, lost>>

(* The process dies: a file it was to replace may be the old one, the new  *)
(* one or gone.  Once the commit has been made it stays.                   *)
Die ==
  /\ outcome \in {"running", "ok"} /\ outcome' = "crashed"
  /\ repo' = [f \in File |-> repo'[f]]
  /\ \A f \in File :
       repo'[f] \in IF outcome = "running" /\ f \in batch THEN {repo[f], 0, gen}
                   ELSE {repo[f]}
  /\ UNCHANGED <<gen, batch, lost>>

Next == Begin \/ Lose \/ Commit \/ Abort \/ Die

Spec == Init /\ [][Next]_vars
=============================================================================
