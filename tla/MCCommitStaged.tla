--------------------------- MODULE MCCommitStaged ---------------------------
(***************************************************************************)
(* Instances of CommitStaged: a timestamp, a snapshot and a targets file,  *)
(* and a bounded number of calls, so that a later call meets what a failed *)
(* or killed one left in the directory.                                    *)
(***************************************************************************)
EXTENDS CommitStaged, TLC

Interchangeable == Permutations(File)
=============================================================================
