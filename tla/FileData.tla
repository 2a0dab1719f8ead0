------------------------------ MODULE FileData -------------------------------
(***************************************************************************)
(* What the kernel makes of the data of a file, which is a sequence of     *)
(* units, each the name of whoever wrote it or `hole' where nobody did.    *)
(***************************************************************************)
EXTENDS Naturals, Sequences

(* n units of w from place k on: what stood there is overwritten, and a    *)
(* file that did not reach that far has a hole before them.                *)
Put(s, w, k, n, hole) ==
  [i \in 1..(IF Len(s) < k + n THEN k + n ELSE Len(s)) |->
     IF i \in k + 1..k + n THEN w ELSE IF i <= Len(s) THEN s[i] ELSE hole]

(* A file that is given another length. *)
Resized(s, n, hole) == [i \in 1..n |-> IF i <= Len(s) THEN s[i] ELSE hole]
=============================================================================
