----------------------------- MODULE MCRootMeta -----------------------------
(* Two keys, of which either may replace the other. *)
EXTENDS RootMeta, TLC

Interchangeable == Permutations(Key)
=============================================================================
