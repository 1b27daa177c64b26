--------------------------- MODULE MCRhtasClient ---------------------------
(* A small deployment, and processes that read it. *)
EXTENDS RhtasClient, TLC

CONSTANTS c1, c2, reader1, reader2

OneCert == [n \in Name \ {Bundle} |-> {c1}]
FewContents == {c1, c2} \cup {s : s \in SUBSET {c1, c2}}

(* What a reader asks for: all targets, one, or the metadata only. *)
AllOrNone == {{}, None}
OneOrNone == {{"ca"}, None}

Readers == Permutations(Reader)
=============================================================================
