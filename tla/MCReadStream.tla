---------------------------- MODULE MCReadStream ----------------------------
(* Two streams over a file of three bytes, read two at a time: one reads   *)
(* it all and closes itself, the other reads its second byte (through the *)
(* end option) and leaves the closing to the program.                      *)
EXTENDS ReadStream, TLC

CONSTANTS s1, s2

MCFds == {3, 4}
MCStart == (s1 :> 0) @@ (s2 :> 1)
MCEnd == (s1 :> NoEnd) @@ (s2 :> 1)
MCAutoClose == (s1 :> TRUE) @@ (s2 :> FALSE)
=============================================================================
