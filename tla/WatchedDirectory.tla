-------------------------- MODULE WatchedDirectory ---------------------------
(***************************************************************************)
(* A directory and a watcher on it: a program that lists the directory     *)
(* once after fs.watch, and again on every 'change'.                       *)
(***************************************************************************)
EXTENDS Directory, FsWatcher

vars == <<dirVars, watchVars>>

WatchedTypeOK == TypeOK /\ WatchTypeOK

Init == DirInit /\ WatchInit

NoticeChanges == UNCHANGED <<watcher, native, posted>>
                 /\ IF entries' = entries THEN UNCHANGED noticed ELSE Notice

(* Watching, the program asks for a listing unless one is queued.          *)
ListAnew == IF Queued(Listing) THEN UNCHANGED dirVars ELSE Readdir

RunDirectory == RunImmediate /\ NoticeChanges

Program ==
  \/ \E c \in Calls, j \in Jobs : Ask(c, j) /\ NoticeChanges
  \/ ~listing /\ Watch /\ ListAnew
  \/ ~listing /\ WatchRefused /\ UNCHANGED dirVars
  \/ ~listing /\ Close /\ UNCHANGED dirVars

RunEvents ==
  \/ ~listing /\ Emit /\ ListAnew
  \/ ~listing /\ EmitError /\ UNCHANGED dirVars

Others == \E n \in Names, k \in Contents : Elsewhere(n, k) /\ NoticeChanges

Next == RunDirectory \/ Program \/ RunEvents \/ Others
        \/ (Post /\ UNCHANGED dirVars)

(* The event loop runs its immediates and what is posted to it, and the    *)
(* library tells of what it has noticed.                                   *)
Spec ==
  /\ Init /\ [][Next]_vars
  /\ WF_vars(RunDirectory) /\ WF_vars(RunEvents)
  /\ WF_vars(Post /\ UNCHANGED dirVars)

(* A program that lists the directory again on every event comes to know   *)
(* it, as long as it watches and the library hears: neither a change that  *)
(* falls between the native calls of a readdir nor one the library tells   *)
(* of together with others leaves it with an old listing for good.  Only a *)
(* name whose lstat failed while it was there stays without its kind: no   *)
(* event tells that it can be looked at again.                             *)
UpToDate ==
  \A n \in Names :
    \/ seen[n] = entries[n]
    \/ seen[n] = "unknown" /\ n \in refused /\ entries[n] # "absent"

ListingCatchesUp ==
  native ~> (~native \/ (~listing /\ UpToDate))

=============================================================================
