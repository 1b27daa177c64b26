--------------------------- MODULE MCTrustBundle ---------------------------
(* Two certificates, each a chain of its own, and a trusted root written   *)
(* by an earlier version that holds PEM text beside DER.                   *)
EXTENDS TrustBundle, TLC

CONSTANTS a, b, pem, u, v

Interchangeable == Permutations(Name)
Single == {<<a>>, <<b>>}
Earlier == {<<>>, <<[chain |-> <<pem, a>>, uri |-> u, valid |-> [start |-> 0, end |-> None]]>>}
=============================================================================
