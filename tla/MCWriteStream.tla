--------------------------- MODULE MCWriteStream ----------------------------
(* One stream with any of the options, or two on one file that append or   *)
(* truncate each other's file; write positions belong to one stream alone. *)
EXTENDS WriteStream, TLC

MCFds == {3, 4}
MCOptions == {[flags |-> "a", start |-> NoStart, autoClose |-> TRUE],
              [flags |-> "w", start |-> NoStart, autoClose |-> FALSE],
              [flags |-> "r+", start |-> 1, autoClose |-> TRUE]}
MCSharedOptions == {o \in MCOptions : o.start = NoStart}
MCSymmetry == Permutations(Streams)
=============================================================================
