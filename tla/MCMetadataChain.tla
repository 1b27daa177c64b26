-------------------------- MODULE MCMetadataChain --------------------------
(* Histories of a publisher. *)
EXTENDS MetadataChain

Published(t, s, g) == [ts |-> [version |-> t[1], by |-> t[2]],
                       snapshot |-> [version |-> s[1], by |-> s[2]],
                       targets |-> [version |-> g[1], by |-> g[2]]]

(* Every publication has a timestamp version of its own.  The second       *)
(* renews only the timestamp; the third has the targets signed again under *)
(* their version (`update' without target changes).                        *)
Growing == << Published(<<1, 1>>, <<1, 1>>, <<1, 1>>),
              Published(<<2, 2>>, <<1, 1>>, <<1, 1>>),
              Published(<<3, 3>>, <<2, 3>>, <<1, 3>>),
              Published(<<4, 4>>, <<3, 4>>, <<2, 4>>) >>
=============================================================================
