--------------------------- MODULE MCStatWatcher ----------------------------
(* Three listeners, one of which may throw, and two watchers one after the *)
(* other, so that a stat queued for the first can run beside the second.   *)
EXTENDS StatWatcher

(* Without is JavaScript's filter by what is not l. *)
ASSUME WithoutIsFilter ==
  \A q \in BoundedSeq(Listeners, MaxListeners + 1), l \in Listeners :
    Without(q, l) = SelectSeq(q, LAMBDA m : m # l)
=============================================================================
