---------------------------- MODULE MCPublishRun ----------------------------
(* Small trees, and lists of keys with repetitions. *)
EXTENDS PublishRun

(* Two directories below the root, side by side or one in the other.  What *)
(* else is in them is free: a file, nothing, or a link to a file, to any   *)
(* of the directories or nowhere.                                          *)
An(kind) == [kind |-> kind, to |-> "root"]
To(kind, d) == [kind |-> kind, to |-> d]
Free == {An("none"), An("file"), An("filelink"), An("broken")} \cup {To("link", d) : d \in Dir}
Listing(first, second) == [e \in EntryName |-> IF e = "a" THEN first ELSE second]

SideBySide(p, q, r) ==
  [root |-> Listing(To("dir", "x"), To("dir", "y")), x |-> Listing(p, q), y |-> Listing(An("file"), r)]
Nested(p, q, r) ==
  [root |-> Listing(To("dir", "x"), p), x |-> Listing(q, To("dir", "y")), y |-> Listing(An("file"), r)]
SmallTrees == UNION {{SideBySide(p, q, r), Nested(p, q, r)} : p, q, r \in Free}

Names == <<"a", "b">>

K(kind, id) == [kind |-> kind, id |-> id]
Lists ==
  {<<K("file", 1), K("file", 1)>>, <<K("file", 2), K("card", 1)>>,
   <<K("card", 1), K("card", 2)>>, <<K("card", 1), K("file", 2), K("vault", 1)>>,
   <<K("card", 2), K("vault", 3), K("vault", 2)>>}

TwoOfTwo == [keys |-> {1, 2}, threshold |-> 2]
SomeRoots ==
  {[r \in Role |-> TwoOfTwo],
   [r \in Role |-> IF r = "snapshot" THEN [keys |-> {2, 3}, threshold |-> 1] ELSE TwoOfTwo],
   [r \in Role |-> IF r = "timestamp" THEN [keys |-> {3}, threshold |-> 0]
                   ELSE [keys |-> {1, 2, 3}, threshold |-> 1]]}
=============================================================================
