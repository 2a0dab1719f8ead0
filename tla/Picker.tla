------------------------------- MODULE Picker -------------------------------
(***************************************************************************)
(* The document pickers of Android: pickFiles and pickDirectory of         *)
(* NitroFileSystemUtils.java and the native callbacks in                   *)
(* HybridFileSystem.cpp that settle their promises.                        *)
(*                                                                         *)
(* Two threads: JavaScript calls pickFiles, which stores a pointer to the  *)
(* promise in a static field, registers ONE listener shared by all picks   *)
(* and starts an activity; the UI thread gives the activity's result to    *)
(* the listener, which takes the pointer from the field and removes        *)
(* itself.  Settling a promise frees its pointer.  The program need not    *)
(* wait for one pick before it makes the next.                             *)
(*                                                                         *)
(* The fields are read and written in program order, a result's pointer    *)
(* and mode in one step.  Every picked file has the same display name, the *)
(* worst case for the copies of an import.                                 *)
(***************************************************************************)
EXTENDS Integers, Sequences, FiniteSets

CONSTANTS Picks,     \* the picks a program may make
          NoPick,    \* a pointer of 0
          MaxItems   \* bound on the files chosen in one activity

ASSUME NoPickIsNoPick == NoPick \notin Picks
ASSUME ItemsAreCounted == MaxItems \in Nat

Kinds == {"files", "dir"}
Modes == {"open", "import"}
Original == -1   \* a file is left where it is: its path is a content:// URI
Nothing == <<>>
Partial == <<"partial">>
Items == Picks \X (1..MaxItems)
Slots == 0 .. Cardinality(Picks) * MaxItems

VARIABLES
  kind,         \* what each pick was called for, "none" before the call
  mode,
  calling,      \* the call JavaScript is in, and the statement it has come to
  pending,      \* pendingFilesPromisePtr and pendingDirPromisePtr
  pendingMode,  \* pendingFilesMode
  listening,    \* the shared listener is registered
  shown,        \* the picks whose activity has no result yet
  handling,     \* the result the UI thread is handling
  settled,      \* how each promise was settled, in order
  cache,        \* name, 1_name, 2_name, ... in the cache directory
  active,       \* the picks called whose activity is not over
  overlapped,   \* the picks that were active together with another
  startFailed   \* the picks whose activity could not be started

threads == <<calling, handling>>
fields == <<pending, pendingMode, listening>>
history == <<active, overlapped, startFailed>>
vars == <<kind, mode, threads, fields, shown, settled, cache, history>>

NoCall == [pick |-> NoPick, at |-> "none"]
NoResult == [of |-> NoPick, promise |-> NoPick, mode |-> "open", ok |-> FALSE,
             todo |-> 0, got |-> <<>>, cleared |-> FALSE]
Placed == [item : Items, at : Slots \union {Original}]
Answers == [by : Picks, ok : BOOLEAN, mode : Modes, files : Seq(Placed)]

TypeOK ==
  /\ kind \in [Picks -> Kinds \union {"none"}]
  /\ mode \in [Picks -> Modes]
  /\ calling \in [pick : Picks \union {NoPick}, at : {"none", "mode", "listen", "start"}]
  /\ pending \in [Kinds -> Picks \union {NoPick}]
  /\ pendingMode \in Modes
  /\ listening \in BOOLEAN
  /\ shown \subseteq Picks
  /\ handling \in [of : Picks \union {NoPick}, promise : Picks \union {NoPick}, mode : Modes,
                   ok : BOOLEAN, todo : 0..MaxItems, got : Seq(Placed), cleared : BOOLEAN]
  /\ settled \in [Picks -> Seq(Answers)]
  /\ cache \in [Slots -> Items \union {Nothing, Partial}]
  /\ {active, overlapped, startFailed} \subseteq SUBSET Picks

Init ==
  /\ kind = [p \in Picks |-> "none"]
  /\ mode = [p \in Picks |-> "open"]
  /\ calling = NoCall
  /\ pending = [k \in Kinds |-> NoPick]
  /\ pendingMode = "open"
  /\ listening = FALSE
  /\ shown = {}
  /\ handling = NoResult
  /\ settled = [p \in Picks |-> <<>>]
  /\ cache = [s \in Slots |-> Nothing]
  /\ active = {} /\ overlapped = {} /\ startFailed = {}

Answer(p, by, ok, m, files) ==
  [settled EXCEPT ![p] = Append(@, [by |-> by, ok |-> ok, mode |-> m, files |-> files])]
Refusal(p) == Answer(p, p, FALSE, mode'[p], <<>>)

-----------------------------------------------------------------------------
(* JavaScript calls pickFiles or pickDirectory                             *)

Called(p, k, m) ==
  /\ calling = NoCall /\ kind[p] = "none"
  /\ k = "dir" => m = "open"
  /\ kind' = [kind EXCEPT ![p] = k]
  /\ mode' = [mode EXCEPT ![p] = m]

(* No React context or no current activity: an error at once. *)
PickRefused(p, k, m) ==
  /\ Called(p, k, m)
  /\ settled' = Refusal(p)
  /\ UNCHANGED <<threads, fields, shown, cache, history>>

PickStored(p, k, m) ==
  /\ Called(p, k, m)
  /\ pending' = [pending EXCEPT ![k] = p]
  /\ calling' = [pick |-> p, at |-> IF k = "files" THEN "mode" ELSE "listen"]
  /\ active' = active \union {p}
  /\ overlapped' = IF active = {} THEN overlapped ELSE overlapped \union active'
  /\ UNCHANGED <<handling, pendingMode, listening, shown, settled, cache, startFailed>>

(* Slip: only the mode that is not the default is stored. *)
StoreModeSticky ==
  /\ calling.at = "mode"
  /\ pendingMode' = IF mode[calling.pick] = "import" THEN "import" ELSE pendingMode
  /\ calling' = [calling EXCEPT !.at = "listen"]
  /\ UNCHANGED <<kind, mode, handling, pending, listening, shown, settled, cache, history>>

StoreMode ==
  /\ calling.at = "mode"
  /\ pendingMode' = mode[calling.pick]
  /\ calling' = [calling EXCEPT !.at = "listen"]
  /\ UNCHANGED <<kind, mode, handling, pending, listening, shown, settled, cache, history>>

AddListener ==
  /\ calling.at = "listen"
  /\ listening' = TRUE
  /\ calling' = [calling EXCEPT !.at = "start"]
  /\ UNCHANGED <<kind, mode, handling, pending, pendingMode, shown, settled, cache, history>>

StartActivity ==
  /\ calling.at = "start"
  /\ shown' = shown \union {calling.pick}
  /\ calling' = NoCall
  /\ UNCHANGED <<kind, mode, handling, fields, settled, cache, history>>

(* Slip: the exception of startActivityForResult is only logged. *)
StartFailsQuietly ==
  LET p == calling.pick
  IN  /\ calling.at = "start"
      /\ pending' = [pending EXCEPT ![kind[p]] = NoPick]
      /\ listening' = FALSE
      /\ calling' = NoCall
      /\ active' = active \ {p}
      /\ startFailed' = startFailed \union {p}
      /\ UNCHANGED <<kind, mode, handling, pendingMode, shown, settled, cache, overlapped>>

(* startActivityForResult throws. *)
StartFails ==
  LET p == calling.pick
  IN  /\ calling.at = "start"
      /\ pending' = [pending EXCEPT ![kind[p]] = NoPick]
      /\ listening' = FALSE
      /\ calling' = NoCall
      /\ UNCHANGED <<kind, mode, handling, pendingMode, shown, cache, overlapped>>
      /\ settled' = Refusal(p)
      /\ active' = active \ {p}
      /\ startFailed' = startFailed \union {p}

-----------------------------------------------------------------------------
(* onActivityResult on the UI thread                                       *)

(* A result that no listener waits for is lost.  A cancelled activity, a   *)
(* directory and a pointer of 0 leave no files to look at.                 *)
ResultArrives(p) ==
  /\ handling = NoResult /\ p \in shown
  /\ shown' = shown \ {p}
  /\ IF listening
       THEN /\ UNCHANGED active
            /\ \E ok \in BOOLEAN, n \in 0..MaxItems :
                 /\ ~ok \/ kind[p] = "dir" \/ pending[kind[p]] = NoPick => n = 0
                 /\ handling' = [NoResult EXCEPT !.of = p, !.promise = pending[kind[p]],
                                   !.mode = pendingMode, !.ok = ok, !.todo = n]
       ELSE active' = active \ {p} /\ UNCHANGED handling
  /\ UNCHANGED <<kind, mode, calling, fields, settled, cache, overlapped, startFailed>>

(* Slip: the field keeps the pointer that is about to be freed. *)
ClearOnlyListener ==
  /\ handling.of # NoPick /\ ~handling.cleared
  /\ listening' = FALSE
  /\ handling' = [handling EXCEPT !.cleared = TRUE]
  /\ UNCHANGED <<kind, mode, calling, pending, pendingMode, shown, settled, cache, history>>

(* The field is zeroed and the listener removed before anything else. *)
ClearPending ==
  /\ handling.of # NoPick /\ ~handling.cleared
  /\ pending' = [pending EXCEPT ![kind[handling.of]] = NoPick]
  /\ listening' = FALSE
  /\ handling' = [handling EXCEPT !.cleared = TRUE]
  /\ UNCHANGED <<kind, mode, calling, pendingMode, shown, settled, cache, history>>

(* Slip: the files are counted from 0. *)
PickedFromZero(at) ==
  [item |-> <<handling.of, Len(handling.got)>>, at |-> at]

Picked(at) ==
  [item |-> <<handling.of, Len(handling.got) + 1>>, at |-> at]

FirstFree(s) == cache[s] = Nothing /\ \A t \in Slots : t < s => cache[t] # Nothing

(* Slip: the copy does not look for a name that is free. *)
CopyOverwriting(s) ==
  /\ s = 0
  /\ \/ /\ cache' = [cache EXCEPT ![s] = Picked(s).item]
        /\ handling' = [handling EXCEPT !.got = Append(@, Picked(s))]
     \/ /\ cache' = [cache EXCEPT ![s] = Partial]
        /\ handling' = [handling EXCEPT !.got = Append(@, Picked(Original))]

(* An import copies to the first name that does not exist; a copy that     *)
(* fails may leave a file behind, and the pick keeps the original URI.     *)
Copy(s) ==
  /\ FirstFree(s)
  /\ \/ /\ cache' = [cache EXCEPT ![s] = Picked(s).item]
        /\ handling' = [handling EXCEPT !.got = Append(@, Picked(s))]
     \/ /\ cache' \in {cache, [cache EXCEPT ![s] = Partial]}
        /\ handling' = [handling EXCEPT !.got = Append(@, Picked(Original))]

ProcessPickedFile ==
  /\ handling.cleared /\ Len(handling.got) < handling.todo
  /\ IF handling.mode = "import"
       THEN \E s \in Slots : Copy(s)
       ELSE /\ handling' = [handling EXCEPT !.got = Append(@, Picked(Original))]
            /\ UNCHANGED cache
  /\ UNCHANGED <<kind, mode, calling, fields, shown, settled, history>>

(* The promise is resolved or rejected and its pointer freed; a pointer of *)
(* 0 means that there is nobody to tell.                                   *)
Settle ==
  /\ handling.cleared /\ Len(handling.got) = handling.todo
  /\ settled' = IF handling.promise = NoPick THEN settled
                ELSE Answer(handling.promise, handling.of, handling.ok, handling.mode,
                            handling.got)
  /\ handling' = NoResult
  /\ active' = active \ {handling.of}
  /\ UNCHANGED <<kind, mode, calling, fields, shown, cache, overlapped, startFailed>>

-----------------------------------------------------------------------------
JavaScript == StoreMode \/ AddListener \/ StartActivity \/ StartFails
UiThread == ClearPending \/ ProcessPickedFile \/ Settle

Next ==
  \/ \E p \in Picks, k \in Kinds, m \in Modes : PickRefused(p, k, m) \/ PickStored(p, k, m)
  \/ JavaScript
  \/ \E p \in Picks : ResultArrives(p)
  \/ UiThread

(* Both threads go on with what they have begun.  No user need finish.     *)
Spec == Init /\ [][Next]_vars /\ WF_vars(JavaScript) /\ WF_vars(UiThread)

-----------------------------------------------------------------------------
(* Properties                                                              *)

(* A promise is settled at most once, and its pointer freed only once,     *)
(* except in one case: another pick was under way, its result took the     *)
(* pointer out of the field, and then the activity of this pick could not  *)
(* be started, which settles the promise through the pointer once more.    *)
OnlyFailedStartsSettleTwice ==
  \A p \in Picks :
    /\ Len(settled[p]) <= 2
    /\ Len(settled[p]) = 2 => p \in overlapped \intersect startFailed

(* A pick that is the only one under way gets the result of its own        *)
(* activity, in the mode it asked for, whatever earlier picks have left in *)
(* the fields and in the listener.                                         *)
LonePicksGetTheirOwn ==
  \A p \in Picks \ overlapped : \A i \in DOMAIN settled[p] :
    settled[p][i].by = p /\ (kind[p] = "files" => settled[p][i].mode = mode[p])

(* A pick that is the only one under way is settled once its activity is   *)
(* over: with a result, an error or a refusal.  (Two picks under way lose  *)
(* one another's result: the first removes the listener of both.)          *)
LonePicksAreSettled ==
  \A p \in Picks :
    kind[p] # "none" /\ p \notin shown
    ~> settled[p] # <<>> \/ p \in overlapped \/ p \in shown

(* The path an import hands over still holds that file: no later import    *)
(* copies another file of the same name over it.                           *)
ImportsKeepTheirFiles ==
  \A p \in Picks : \A i \in DOMAIN settled[p] :
    \A j \in DOMAIN settled[p][i].files :
      LET f == settled[p][i].files[j]
      IN  f.at # Original => cache[f.at] = f.item

(* "'import': Copy file to app cache and return local path." (README.md):  *)
(* what a pick in import mode is given is in the cache directory, at least *)
(* when no other pick is under way, whose mode it might be given.          *)
ImportsAreLocal ==
  \A p \in Picks \ overlapped : \A i \in DOMAIN settled[p] :
    \A j \in DOMAIN settled[p][i].files :
      mode[p] = "import" => settled[p][i].files[j].at # Original

=============================================================================
