--------------------------------- MODULE Dir ---------------------------------
(***************************************************************************)
(* The Dir objects that opendir hands out, read by several loops at once.  *)
(*                                                                         *)
(* A Dir wraps a HybridDirIterator.  read() asks it for the next name      *)
(* within the call and hands the answer on through a promise, so that a    *)
(* `for await' loop over a Dir is suspended while it awaits each answer,   *)
(* and again while its body works; other loops over the same Dir, read()   *)
(* and close() of the program run in between.  On iOS opendir of a         *)
(* bookmark begins access to its URL, counted by the system, and closing   *)
(* the iterator ends it.  All Dirs here are of the same directory.         *)
(***************************************************************************)
EXTENDS Naturals, Sequences, FiniteSets

CONSTANTS Dirs, Loops,
          NoDir,
          Program,    \* who reads a Dir with read() and no loop
          Entries     \* how many names the directory has

ASSUME EntriesIsNat == Entries \in Nat
ASSUME DirsAreFinite == IsFiniteSet(Dirs)
ASSUME NoDirIsNoDir == NoDir \notin Dirs
ASSUME ProgramIsNoLoop == Program \notin Loops

VARIABLES
  iter,      \* the native iterator of a Dir
  takers,    \* who was given each of the names it has handed out
  token,     \* the access that closing it ends
  cut,       \* it was closed early, or a native read failed
  loop,      \* where a `for await' loop is
  over,      \* the Dir it reads
  answer,    \* the name it awaits or works on, 0 for null
  got,       \* the names its body was given
  granted,   \* the accesses to the URL that are under way
  others     \* those of them that no Dir began

loopVars == <<loop, over, answer, got>>
vars == <<iter, takers, token, cut, loopVars, granted, others>>

TypeOK ==
  /\ iter \in [Dirs -> {"none", "opening", "failed", "open", "closed", "gone"}]
  /\ takers \in [Dirs -> Seq(Loops \union {Program})]
  /\ token \in [Dirs -> {"none", "granted", "refused", "returned", "overreturned"}]
  /\ cut \in [Dirs -> BOOLEAN]
  /\ loop \in [Loops -> {"idle", "awaiting", "body", "done"}]
  /\ over \in [Loops -> Dirs \union {NoDir}]
  /\ answer \in [Loops -> 0..Entries]
  /\ got \in [Loops -> Seq(1..Entries)]
  /\ granted \in Nat /\ others \in Nat

Init ==
  /\ iter = [d \in Dirs |-> "none"]
  /\ takers = [d \in Dirs |-> <<>>]
  /\ token = [d \in Dirs |-> "none"]
  /\ cut = [d \in Dirs |-> FALSE]
  /\ loop = [l \in Loops |-> "idle"]
  /\ over = [l \in Loops |-> NoDir]
  /\ answer = [l \in Loops |-> 0]
  /\ got = [l \in Loops |-> <<>>]
  /\ others \in {0, 1}
  /\ granted = others

-----------------------------------------------------------------------------
(* Access to the URL of a bookmark.  startAccessingBookmark returns a      *)
(* token whether or not access was granted, and stopAccessingBookmark ends *)
(* an access in either case.                                               *)

OneLess == granted' = IF granted = 0 THEN 0 ELSE granted - 1

StopAccess(d, t) ==
  CASE t = "granted" -> OneLess /\ token' = [token EXCEPT ![d] = "returned"]
    [] t = "refused" -> OneLess /\ token' = [token EXCEPT ![d] = "overreturned"]
    [] OTHER -> UNCHANGED <<granted, token>>

(* Slip: the iterator keeps its cleanup after it has run it. *)
CloseIteratorKeepingCleanup(d, to) ==
  /\ iter' = [iter EXCEPT ![d] = to]
  /\ granted' = IF token[d] = "none" \/ granted = 0 THEN granted ELSE granted - 1
  /\ UNCHANGED token

CloseIterator(d, to) ==
  /\ iter' = [iter EXCEPT ![d] = to]
  /\ StopAccess(d, token[d])

Opendir(d) ==
  /\ iter[d] = "none"
  /\ iter' = [iter EXCEPT ![d] = "opening"]
  /\ UNCHANGED <<takers, token, cut, loopVars, granted, others>>

(* The immediate of opendir.  Access begins before the directory is opened *)
(* and ends again when it cannot be.                                       *)
RunOpendir(d) ==
  /\ iter[d] = "opening"
  /\ \/ /\ iter' = [iter EXCEPT ![d] = "open"]
        /\ \E t \in {"none", "granted", "refused"} :
             /\ token' = [token EXCEPT ![d] = t]
             /\ granted' = IF t = "granted" THEN granted + 1 ELSE granted
     \/ /\ iter' = [iter EXCEPT ![d] = "failed"]
        /\ \/ UNCHANGED <<token, granted>>
           \/ token' = [token EXCEPT ![d] = "returned"] /\ UNCHANGED granted
           \/ StopAccess(d, "refused")
  /\ UNCHANGED <<takers, cut, loopVars, others>>

-----------------------------------------------------------------------------
(* What next() of the iterator answers to who: a name, or null at the end, *)
(* after the iterator was closed, and when the native read fails.          *)
NextName(d, who, name) ==
  \/ /\ iter[d] = "open" /\ Len(takers[d]) < Entries
     /\ name = Len(takers[d]) + 1
     /\ takers' = [takers EXCEPT ![d] = Append(@, who)]
     /\ UNCHANGED cut
  \/ /\ name = 0
     /\ iter[d] = "open" => Len(takers[d]) = Entries
     /\ UNCHANGED <<takers, cut>>
  \/ /\ name = 0
     /\ iter[d] = "open" /\ Len(takers[d]) < Entries
     /\ cut' = [cut EXCEPT ![d] = TRUE]
     /\ UNCHANGED takers

Usable(d) == iter[d] \in {"open", "closed"}

(* read() with or without a callback, and readSync(); when the callback    *)
(* throws, the name is lost with it.                                       *)
Read(d) ==
  /\ Usable(d)
  /\ \E name \in 0..Entries : NextName(d, Program, name)
  /\ UNCHANGED <<iter, token, loopVars, granted, others>>

(* close() and closeSync(); a callback that throws makes close() report    *)
(* the failure of what has been done.                                      *)
Close(d) ==
  /\ Usable(d)
  /\ CloseIterator(d, "closed")
  /\ cut' = [cut EXCEPT ![d] = TRUE]
  /\ UNCHANGED <<takers, loopVars, others>>

(* The garbage collector destroys an iterator that nobody uses.            *)
Collect(d) ==
  /\ Usable(d)
  /\ \A l \in Loops : over[l] = d => loop[l] \in {"idle", "done"}
  /\ CloseIterator(d, "gone")
  /\ UNCHANGED <<takers, cut, loopVars, others>>

-----------------------------------------------------------------------------
(* The asynchronous iterator of a Dir.                                     *)

LoopReads(l, d) ==
  /\ \E name \in 0..Entries : /\ NextName(d, l, name)
                              /\ answer' = [answer EXCEPT ![l] = name]
  /\ loop' = [loop EXCEPT ![l] = "awaiting"]

StartLoop(l, d) ==
  /\ loop[l] = "idle" /\ Usable(d)
  /\ LoopReads(l, d)
  /\ over' = [over EXCEPT ![l] = d]
  /\ UNCHANGED <<iter, token, got, granted, others>>

(* The promise of read() resolves: a name is yielded to the body, null     *)
(* ends the loop, whose `finally' closes the Dir.                          *)
Yield(l) ==
  /\ loop[l] = "awaiting" /\ answer[l] # 0
  /\ loop' = [loop EXCEPT ![l] = "body"]
  /\ got' = [got EXCEPT ![l] = Append(@, answer[l])]
  /\ UNCHANGED <<iter, takers, token, cut, over, answer, granted, others>>

FinallyClose(l) ==
  /\ CloseIterator(over[l], "closed")
  /\ loop' = [loop EXCEPT ![l] = "done"]

EndLoop(l) ==
  /\ loop[l] = "awaiting" /\ answer[l] = 0
  /\ FinallyClose(l)
  /\ UNCHANGED <<takers, cut, over, answer, got, others>>

(* The body breaks, returns or throws; other loops over the Dir find it    *)
(* closed.                                                                 *)
BreakLoop(l) ==
  /\ loop[l] = "body"
  /\ FinallyClose(l)
  /\ cut' = [cut EXCEPT ![over[l]] = TRUE]
  /\ UNCHANGED <<takers, over, answer, got, others>>

(* Slip: the `finally' is inside the loop and closes before the next read. *)
CloseAndResume(l) ==
  /\ loop[l] = "body"
  /\ CloseIterator(over[l], "closed")
  /\ answer' = [answer EXCEPT ![l] = 0]
  /\ loop' = [loop EXCEPT ![l] = "awaiting"]
  /\ UNCHANGED <<takers, cut, over, got, others>>

(* The body is done and the loop reads again.                              *)
Resume(l) ==
  /\ loop[l] = "body"
  /\ LoopReads(l, over[l])
  /\ UNCHANGED <<iter, token, over, got, granted, others>>

-----------------------------------------------------------------------------
Next ==
  \/ \E d \in Dirs : Opendir(d) \/ RunOpendir(d) \/ Read(d) \/ Close(d) \/ Collect(d)
  \/ \E l \in Loops, d \in Dirs : StartLoop(l, d)
  \/ \E l \in Loops : Yield(l) \/ EndLoop(l) \/ BreakLoop(l) \/ Resume(l)

Spec == Init /\ [][Next]_vars

-----------------------------------------------------------------------------
(* Properties                                                              *)

Taken(l, d) == {i \in DOMAIN takers[d] : takers[d][i] = l}
Given(l) == {got[l][i] : i \in DOMAIN got[l]}

(* However many loops share a Dir, a loop works on the names it took, each *)
(* once and in order, all of them but the one it awaits; and a loop that   *)
(* ended without a name left the directory exhausted, unless a call or a   *)
(* `break' of another loop closed the Dir early, or a native read failed.  *)
(* No name is skipped between the loops or lost to a suspended one.        *)
LoopsShareTheNames ==
  \A l \in Loops, d \in Dirs : over[l] = d =>
    /\ \A i, j \in DOMAIN got[l] : i < j => got[l][i] < got[l][j]
    /\ Given(l) = Taken(l, d) \ (IF loop[l] = "awaiting" THEN {answer[l]} ELSE {})
    /\ answer[l] = 0 => Len(takers[d]) = Entries \/ cut[d]

(* A loop that is over, however it ended, has closed its Dir; closed Dirs  *)
(* have ended the access they began, each once, though several loops,      *)
(* close() and the garbage collector all close them.  An access that was   *)
(* not granted is ended all the same, at the cost of someone else's.       *)
ClosedDirsGiveBackAccess ==
  LET Having(t) == Cardinality({d \in Dirs : token[d] = t})
  IN /\ \A l \in Loops : loop[l] = "done" => iter[over[l]] \in {"closed", "gone"}
     /\ \A d \in Dirs : token[d] \in {"granted", "refused"} => iter[d] = "open"
     /\ granted <= others + Having("granted")
     /\ granted + Having("overreturned") >= others + Having("granted")

=============================================================================
