------------------------------ MODULE FsWatcher ------------------------------
(***************************************************************************)
(* One FSWatcher, the HybridFileWatcher behind it and the library thread   *)
(* that notices changes.                                                   *)
(*                                                                         *)
(* The library tells HybridFileWatcher of a change on a thread of its own; *)
(* the JavaScript callback it calls there is posted to the JavaScript      *)
(* thread, where FSWatcher emits 'change', also after close().  The        *)
(* library may tell of several changes at once, and is assumed to be       *)
(* silent once rn_fs_unwatch has returned.                                 *)
(***************************************************************************)
EXTENDS Naturals

VARIABLES
  watcher,  \* the JavaScript object
  native,   \* the library watches for it
  noticed,  \* the library has noticed a change it has not told of
  posted    \* callbacks on their way to the JavaScript thread

watchVars == <<watcher, native, noticed, posted>>

WatchTypeOK ==
  /\ watcher \in {"none", "open", "refused", "failed", "closed"}
  /\ native \in BOOLEAN
  /\ noticed \in BOOLEAN
  /\ posted \in Nat

WatchInit ==
  /\ watcher = "none"
  /\ native = FALSE
  /\ noticed = FALSE
  /\ posted = 0

(* rn_fs_watch may return null, which nobody looks at: the watcher is open *)
(* and deaf.                                                               *)
Watch ==
  /\ watcher = "none"
  /\ watcher' = "open"
  /\ native' \in BOOLEAN
  /\ UNCHANGED <<noticed, posted>>

(* The native constructor throws; 'error' is emitted by an immediate.      *)
WatchRefused ==
  /\ watcher = "none"
  /\ watcher' = "refused"
  /\ UNCHANGED <<native, noticed, posted>>

EmitError ==
  /\ watcher = "refused"
  /\ watcher' = "failed"
  /\ UNCHANGED <<native, noticed, posted>>

(* A change of what is watched.                                            *)
Notice == noticed' = (noticed \/ native)

(* Slip: events in quick succession are told once, by the first. *)
PostDebounced ==
  /\ noticed
  /\ noticed' = FALSE
  /\ posted' \in {posted, posted + 1}
  /\ UNCHANGED <<watcher, native>>

(* onChange, on the thread of the library.                                 *)
Post ==
  /\ noticed
  /\ noticed' = FALSE
  /\ posted' = posted + 1
  /\ UNCHANGED <<watcher, native>>

Emit ==
  /\ posted > 0
  /\ posted' = posted - 1
  /\ UNCHANGED <<watcher, native, noticed>>

(* Slip: the native watcher is left to the garbage collector. *)
CloseHereOnly ==
  /\ watcher = "open"
  /\ watcher' = "closed"
  /\ UNCHANGED <<native, noticed, posted>>

(* Does nothing to a watcher that is closed already or was refused.        *)
Close ==
  /\ watcher = "open"
  /\ watcher' = "closed"
  /\ native' = FALSE
  /\ noticed' = FALSE
  /\ UNCHANGED posted

-----------------------------------------------------------------------------
ToCome == posted + (IF noticed THEN 1 ELSE 0)

(* A closed watcher learns nothing new: it may still emit 'change' for the *)
(* events that were on their way when close() was called, and no others,   *)
(* whatever happens to the directory afterwards.                           *)
ClosedWatcherLearnsNothing ==
  [][watcher = "closed" => ToCome' <= ToCome /\ (noticed' => noticed)]_watchVars

=============================================================================
