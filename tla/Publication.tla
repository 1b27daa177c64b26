----------------------------- MODULE Publication -----------------------------
(***************************************************************************)
(* What a repository promises the clients that follow it: what is          *)
(* published changes in one step, the versions never go back, a version of *)
(* the targets never changes its meaning, and a name, once published,      *)
(* stays.  The repository may be out of service, but it comes back with    *)
(* what was published last, and what follows is only published in service. *)
(***************************************************************************)
EXTENDS Integers

CONSTANTS Name, None

VARIABLES view,    \* None, or the versions and the targets clients are led to
          last     \* what was published last, or None

vars == <<view, last>>

Init == view = None /\ last = None

Fresh(new) == new.timestamp > 0 /\ new.snapshot > 0 /\ new.targets > 0

Follows(new, old) ==
  /\ new.timestamp > old.timestamp
  /\ new.snapshot > old.snapshot
  /\ new.targets >= old.targets
  /\ new.targets = old.targets => new.names = old.names
  /\ \A n \in Name : old.names[n] # None => new.names[n] # None

Publish ==
  /\ view = last
  /\ last' # None /\ Fresh(last')
  /\ last # None => Follows(last', last)
  /\ view' = last'

Withdraw == view = last /\ view' = None /\ UNCHANGED last

Restore == view = None /\ view' = last /\ UNCHANGED last

Next == Publish \/ Withdraw \/ Restore

Spec == Init /\ [][Next]_vars
=============================================================================
