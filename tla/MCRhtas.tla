------------------------------ MODULE MCRhtas ------------------------------
(* A small deployment: one or two certificate files and the trust bundle. *)
EXTENDS Rhtas, TLC

CONSTANTS c1, c2, c3

(* No certificate is the contents of two files: deleting one of them would *)
(* take the entry the other needs out of the bundle.                       *)
Rotating == [n \in Name \ {Bundle} |-> IF n = "ca" THEN {c1, c2} ELSE {c3}]
OneCert == [n \in Name \ {Bundle} |-> IF n = "ca" THEN {c1} ELSE {c2}]
Contents == {c1, c2, c3} \cup {s : s \in SUBSET {c1, c2, c3}}
FewContents == {c1, c2} \cup {s : s \in SUBSET {c1, c2}}
=============================================================================
