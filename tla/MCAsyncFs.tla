----------------------------- MODULE MCAsyncFs ------------------------------
(* Instances of AsyncFs for TLC: two descriptors, so that numbers are      *)
(* reused and the table runs full, and writes of two units, so that a      *)
(* short write can be told from a whole one.                               *)
EXTENDS AsyncFs, TLC

MCFds == {3, 4}

(* Three calls on one file: appends among writes in the middle and opens   *)
(* that empty the file.  Position 1 is inside the first write.             *)
MCFlags == {"r+", "w", "a"}
MCPlaces == {1}

(* Calls are interchangeable but for those made through promises.          *)
MCSymmetry == Permutations(Calls \ Promised)

(* Two calls, with everything a program may pass.                          *)
MCAllPlaces == {0, 1}
=============================================================================
