------------------------------ MODULE MCUpdate ------------------------------
(* Small instances of Update. *)
EXTENDS Update, TLC

(* What an --add-targets directory holds: at most one file. *)
OneFile == {t \in Targets : \E m \in Name : \A n \in Name : n # m => t[n] = None}

Interchangeable == Permutations(Name) \cup Permutations(Digest)
=============================================================================
