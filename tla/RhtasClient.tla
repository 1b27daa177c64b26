---------------------------- MODULE RhtasClient ----------------------------
(***************************************************************************)
(* Clones and downloads beside runs of rhtas on the repository they read:  *)
(* nothing orders the steps of one process and those of another.           *)
(***************************************************************************)
EXTENDS Rhtas, Client

RhtasClientInit == Init /\ ClientInit

RhtasClientNext ==
  \/ Next /\ UNCHANGED clientVars
  \/ ClientStep /\ UNCHANGED vars

RhtasClientSpec ==
  RhtasClientInit /\ [][RhtasClientNext]_<<vars, clientVars>>

-----------------------------------------------------------------------------
(* A download misses a file only when the file was torn by a write that    *)
(* failed, when a later run took the target out (the run, or one that      *)
(* retries its cleanup, removes the file), or when the run that published  *)
(* this trust bundle has not, or never, come to copy it to its place.  All *)
(* other files that a publication lists are there for a reader that        *)
(* follows it, whatever is run, fails or dies meanwhile.                   *)
TakenOut(n, md) ==
  \E v \in Present(targetsMd) :
    v > md.version /\ targetsMd[v].targets[n] # md.targets[n]

MissesOnlyWithdrawn ==
  [][\A r \in Reader : rpc'[r] = "missing" /\ rpc[r] = "download" =>
       \E n \in left[r] :
         LET file == files[<<n, trusted[r].targets.targets[n]>>]
         IN \/ file = Torn
            \/ file = None /\ (n = Bundle \/ TakenOut(n, trusted[r].targets))
    ]_<<vars, clientVars>>
=============================================================================
