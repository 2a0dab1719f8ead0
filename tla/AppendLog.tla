------------------------------ MODULE AppendLog ------------------------------
(***************************************************************************)
(* What appendFile promises, without immediates or descriptors.            *)
(*                                                                         *)
(* A file is a log: the writer of each unit, in order.  A program asks for *)
(* appends; each lands whole or in part as one piece, at the end of its    *)
(* file if that was asked for, or does not land at all, and the program is *)
(* told which.  Appends land in the order in which they were asked for.    *)
(* Others may overwrite what landed, cut it off or leave holes, but what   *)
(* is left of an append stays where it landed and never comes back.        *)
(***************************************************************************)
EXTENDS Naturals, Sequences, FileData

CONSTANTS Writers,  \* who may ask for an append, each once
          Files, NoFile,
          NoWriter  \* the writer of a hole

VARIABLES asked,    \* the writers in the order in which they asked
          file,     \* the file each asked for
          atEnd,    \* the writers who asked for its end
          log,      \* the writer of each unit of a file
          status    \* where each writer's append stands

logVars == <<asked, file, atEnd, log, status>>

(* Neither told nor decided / decided but not told / told. *)
Undecided == {"asked"}
Decided == {"landed", "failed"}
Told == {"ok", "error"}

Init ==
  /\ asked = <<>>
  /\ file = [w \in Writers |-> NoFile]
  /\ atEnd = {}
  /\ log = [f \in Files |-> <<>>]
  /\ status = [w \in Writers |-> "idle"]

Wrote(w, f) == \E i \in DOMAIN log[f] : log[f][i] = w

Ask(w, f) ==
  /\ status[w] = "idle" /\ \A g \in Files : ~Wrote(w, g)
  /\ asked' = Append(asked, w)
  /\ file' = [file EXCEPT ![w] = f]
  /\ atEnd' \in {atEnd, atEnd \union {w}}
  /\ status' = [status EXCEPT ![w] = "asked"]
  /\ UNCHANGED log

(* Every append asked for before w's has landed or will not.               *)
Turn(w) ==
  \E i \in DOMAIN asked :
    asked[i] = w /\ \A j \in 1..i - 1 : status[asked[j]] \notin Undecided

Land(w) ==
  /\ status[w] = "asked" /\ Turn(w)
  /\ \E n \in 1..Len(log'[file[w]]), k \in 0..Len(log'[file[w]]) :
       /\ w \in atEnd => k = Len(log[file[w]])
       /\ log' = [log EXCEPT ![file[w]] = Put(@, w, k, n, NoWriter)]
  /\ status' = [status EXCEPT ![w] = "landed"]
  /\ UNCHANGED <<asked, file, atEnd>>

(* What does not land has no turn to wait for.                             *)
Fail(w) ==
  /\ status[w] = "asked"
  /\ status' = [status EXCEPT ![w] = "failed"]
  /\ UNCHANGED <<asked, file, atEnd, log>>

Tell(w) ==
  /\ \/ status[w] = "landed" /\ status' = [status EXCEPT ![w] = "ok"]
     \/ status[w] \in {"asked", "failed"} /\ status' = [status EXCEPT ![w] = "error"]
  /\ UNCHANGED <<asked, file, atEnd, log>>

(* Some other call changes a file: every unit of an append that is there   *)
(* afterwards was there before, at the same place.                         *)
Others(f) ==
  /\ \A i \in DOMAIN log'[f] :
       log'[f][i] \in Writers /\ status[log'[f][i]] # "idle" =>
         i \in DOMAIN log[f] /\ log[f][i] = log'[f][i]
  /\ log' = [log EXCEPT ![f] = log'[f]]
  /\ UNCHANGED <<asked, file, atEnd, status>>

Next ==
  \/ \E w \in Writers : Land(w) \/ Fail(w) \/ Tell(w)
  \/ \E w \in Writers, f \in Files : Ask(w, f)
  \/ \E f \in Files : Others(f)

Spec == Init /\ [][Next]_logVars
=============================================================================
