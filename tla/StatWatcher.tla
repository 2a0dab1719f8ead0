---------------------------- MODULE StatWatcher -----------------------------
(***************************************************************************)
(* watchFile and unwatchFile of index.ts for one path.                     *)
(*                                                                         *)
(* The statWatchers map holds at most one watcher per path; a watcher that *)
(* lost its listeners is dropped and a later watchFile makes a new one,    *)
(* while the interval callback and the stat it has queued still refer to   *)
(* the old one.  Listeners run inside the stat's immediate, one after the  *)
(* other, and may themselves watch, unwatch or throw.                      *)
(*                                                                         *)
(* The file is its mtime, the only thing watchFile compares; 0 stands for  *)
(* an absent file, as in the empty Stats.  A modification always gives a   *)
(* new mtime.                                                              *)
(***************************************************************************)
EXTENDS Naturals, Sequences, SequencesExt

CONSTANTS Listeners,
          Throwing,      \* the listeners that may throw
          MaxWatchers,   \* bound on the watchers made for the path
          MaxListeners,  \* bound on the registrations of one watcher
          MaxChanges     \* bound on the changes to the file

Nobody == "nobody"

ASSUME ThrowingAreListeners == Throwing \subseteq Listeners
ASSUME NobodyIsNoListener == Nobody \notin Listeners
ASSUME BoundsAreNumbers == {MaxWatchers, MaxListeners, MaxChanges} \subseteq Nat

Watchers == 1..MaxWatchers
Times == 0..MaxChanges + 1

VARIABLES
  mtime,      \* the file
  changes,    \* how often it has changed
  made,       \* how many watchers have been made
  current,    \* the watcher in the map, 0 when there is none
  listeners,  \* of each watcher
  prev,       \* the stats each watcher compares with
  timer,      \* its interval is active
  polls,      \* the stat calls whose immediates are queued
  round,      \* the run through the listeners that is going on
  heard       \* what the watcher in the map told each listener last

statVars == <<mtime, changes, made, current, listeners, prev, timer, polls, round, heard>>

(* seen is what the stat found, curr what the listeners are given, caught  *)
(* whether they are called from the error branch; running has been called. *)
Idle == [watcher |-> 0, todo |-> <<>>, running |-> Nobody, curr |-> 0, seen |-> 0,
         caught |-> FALSE]
Rounds == [watcher: 0..MaxWatchers, todo: Seq(Listeners), running: Listeners \union {Nobody},
           curr: Times, seen: Times, caught: BOOLEAN]

StatTypeOK ==
  /\ mtime \in Times /\ changes \in 0..MaxChanges
  /\ made \in 0..MaxWatchers /\ current \in 0..made
  /\ listeners \in [Watchers -> Seq(Listeners)]
  /\ prev \in [Watchers -> Times]
  /\ timer \in [Watchers -> BOOLEAN]
  /\ polls \in Seq(Watchers)
  /\ round \in Rounds
  /\ heard \in [Listeners -> Times]

StatInit ==
  /\ mtime \in {0, 1} /\ changes = 0
  /\ made = 0 /\ current = 0
  /\ listeners = [w \in Watchers |-> <<>>]
  /\ prev = [w \in Watchers |-> 0]
  /\ timer = [w \in Watchers |-> FALSE]
  /\ polls = <<>>
  /\ round = Idle
  /\ heard = [l \in Listeners |-> 0]

(* Another process writes, creates or removes the file.                    *)
FileChanges ==
  /\ changes < MaxChanges
  /\ changes' = changes + 1
  /\ mtime' \in {0, changes + 2} \ {mtime}
  /\ UNCHANGED <<made, current, listeners, prev, timer, polls, round, heard>>

-----------------------------------------------------------------------------
(* watchFile and unwatchFile                                               *)

(* A listener that joins in the middle of a round is not part of it.       *)
Join(l, w) ==
  /\ Len(listeners[w]) < MaxListeners
  /\ listeners' = [listeners EXCEPT ![w] = Append(@, l)]
  /\ heard' = [heard EXCEPT ![l] = IF round.watcher = w THEN round.curr ELSE prev[w]]
  /\ UNCHANGED <<made, current, prev, timer>>

NewWatcher(l, w) ==
  /\ w = made + 1
  /\ made' = w /\ current' = w
  /\ listeners' = [listeners EXCEPT ![w] = <<l>>]
  /\ prev' = [prev EXCEPT ![w] = mtime]
  /\ timer' = [timer EXCEPT ![w] = TRUE]
  /\ heard' = [heard EXCEPT ![l] = mtime]

WatchFile(l) ==
  /\ IF current # 0 THEN Join(l, current) ELSE \E w \in Watchers : NewWatcher(l, w)
  /\ UNCHANGED <<mtime, changes, polls, round>>

(* Slip: the interval of a watcher without listeners keeps running.        *)
KeepIntervalRunning(w, left) ==
  /\ listeners' = [listeners EXCEPT ![w] = left]
  /\ current' = IF left = <<>> THEN 0 ELSE current
  /\ UNCHANGED timer

(* Slip: a watcher that is dropped keeps its listeners.                    *)
DropKeepingListeners(w, left) ==
  /\ listeners' = IF left = <<>> THEN listeners ELSE [listeners EXCEPT ![w] = left]
  /\ IF left = <<>>
       THEN current' = 0 /\ timer' = [timer EXCEPT ![w] = FALSE]
       ELSE UNCHANGED <<current, timer>>

(* The watcher keeps the listeners in left, or is dropped with the last.   *)
Leave(w, left) ==
  /\ listeners' = [listeners EXCEPT ![w] = left]
  /\ IF left = <<>>
       THEN current' = 0 /\ timer' = [timer EXCEPT ![w] = FALSE]
       ELSE UNCHANGED <<current, timer>>

(* What filter leaves of the registrations q when those of l are removed.  *)
Without(q, l) ==
  LET left[n \in 0..Len(q)] ==
        IF n = 0 THEN <<>>
        ELSE IF q[n] = l THEN left[n - 1] ELSE Append(left[n - 1], q[n])
  IN left[Len(q)]

UnwatchFile(l) ==
  /\ current # 0
  /\ Leave(current, Without(listeners[current], l))
  /\ UNCHANGED <<mtime, changes, made, prev, polls, round, heard>>

UnwatchAll ==
  /\ current # 0
  /\ Leave(current, <<>>)
  /\ UNCHANGED <<mtime, changes, made, prev, polls, round, heard>>

-----------------------------------------------------------------------------
(* The interval, the stat it queues and what the stat's callback does      *)

(* The interval's callback queues a stat; its immediate runs before the    *)
(* interval is due again.                                                  *)
Tick(w) ==
  /\ timer[w] /\ round = Idle
  /\ \A i \in DOMAIN polls : polls[i] # w
  /\ polls' = Append(polls, w)
  /\ UNCHANGED <<mtime, changes, made, current, listeners, prev, timer, round, heard>>

Tell(w, now, isError) ==
  [watcher |-> w, todo |-> listeners[w], running |-> Nobody, curr |-> now,
   seen |-> mtime, caught |-> isError]

(* Slip: a file that was absent is only noted when it comes into being.    *)
RoundMissingCreation(w) == IF prev[w] = mtime \/ prev[w] = 0 THEN Idle ELSE Tell(w, mtime, mtime = 0)

(* A change is an mtime that differs: modified, gone or created.           *)
RoundAfterStat(w) == IF prev[w] = mtime THEN Idle ELSE Tell(w, mtime, mtime = 0)

Poll ==
  /\ polls # <<>> /\ round = Idle
  /\ polls' = Tail(polls)
  /\ round' = RoundAfterStat(Head(polls))
  /\ UNCHANGED <<mtime, changes, made, current, listeners, prev, timer, heard>>

(* The listeners called are those of the array when the round began; the   *)
(* round goes on after unwatchFile, even when a new watcher has come.      *)
CallListener ==
  /\ round.todo # <<>>
  /\ round' = [round EXCEPT !.running = Head(round.todo), !.todo = Tail(round.todo)]
  /\ heard' = IF round.watcher = current
                THEN [heard EXCEPT ![Head(round.todo)] = round.curr] ELSE heard
  /\ UNCHANGED <<mtime, changes, made, current, listeners, prev, timer, polls>>

(* stat's own try is around the callback: a listener that throws makes it  *)
(* call the callback again, with the exception as the error of the stat.   *)
(* An exception out of the error branch leaves the immediate.              *)
RoundAfterThrow ==
  IF round.caught \/ prev[round.watcher] = 0 THEN Idle
  ELSE [Tell(round.watcher, 0, TRUE) EXCEPT !.seen = round.seen]

ListenerThrows ==
  /\ round.running \in Throwing
  /\ round' = RoundAfterThrow
  /\ UNCHANGED <<mtime, changes, made, current, listeners, prev, timer, polls, heard>>

(* Slip: what was reported is not kept for the next comparison.            *)
EndRoundForgetting ==
  /\ round # Idle /\ round.todo = <<>>
  /\ prev' = [prev EXCEPT ![round.watcher] = IF round.curr = 0 THEN @ ELSE round.curr]
  /\ round' = Idle
  /\ UNCHANGED <<mtime, changes, made, current, listeners, timer, polls, heard>>

(* Slip: a change to nothing is stored as one before any time.             *)
EndRoundBeforeTime ==
  /\ round # Idle /\ round.todo = <<>>
  /\ prev' = [prev EXCEPT ![round.watcher] = IF round.curr = 0 THEN MaxChanges + 2 ELSE round.curr]
  /\ round' = Idle
  /\ UNCHANGED <<mtime, changes, made, current, listeners, timer, polls, heard>>

(* Every listener has returned: watcher.prev takes the reported stats.     *)
EndRound ==
  /\ round # Idle /\ round.todo = <<>>
  /\ prev' = [prev EXCEPT ![round.watcher] = round.curr]
  /\ round' = Idle
  /\ UNCHANGED <<mtime, changes, made, current, listeners, timer, polls, heard>>

RunListeners == CallListener \/ ListenerThrows \/ EndRound

StatNext ==
  \/ FileChanges
  \/ \E l \in Listeners : WatchFile(l) \/ UnwatchFile(l)
  \/ UnwatchAll
  \/ \E w \in Watchers : Tick(w)
  \/ Poll
  \/ RunListeners

(* Intervals fire, queued immediates run, listeners return or throw.       *)
StatSpec ==
  /\ StatInit /\ [][StatNext]_statVars
  /\ \A w \in Watchers : WF_statVars(Tick(w))
  /\ WF_statVars(Poll) /\ WF_statVars(RunListeners)

-----------------------------------------------------------------------------
(* Properties                                                              *)

(* An interval runs exactly for the watcher in the map, which has somebody *)
(* to tell: none is left that unwatchFile can no longer reach.             *)
IntervalsAreReachable ==
  \A w \in Watchers : /\ timer[w] <=> w = current
                      /\ listeners[w] # <<>> <=> w = current

(* A stat that was queued for a watcher since dropped tells nobody, not    *)
(* even after the path is watched anew: a run through listeners begins     *)
(* only for the watcher in the map, with listeners registered there.       *)
OnlyTheWatchedAreTold ==
  [][round = Idle /\ round'.todo # <<>> =>
       round'.watcher = current /\ round'.todo = listeners[current]]_statVars

(* Where no listener ever throws, each hears in the end how the file is:   *)
(* one that stays registered has last been told of the file's last change  *)
(* by the watcher in the map, whoever else comes and goes and whatever     *)
(* polls are queued meanwhile.  (The rest of a round whose watcher has     *)
(* been dropped does not count: it may still bring old news.)              *)
ListenersHearTheLastChange ==
  \A l \in Listeners :
    /\ [](\A w \in Watchers : ToSet(listeners[w]) \intersect Throwing = {})
    /\ <>[](current # 0 /\ l \in ToSet(listeners[current]))
    => <>[](heard[l] = mtime)

(* A watcher rid of throwing listeners catches up with the file, whatever  *)
(* their exceptions have done to its idea of it.                           *)
WatchersCatchUp ==
  \A w \in Watchers :
    <>[](current = w /\ ToSet(listeners[w]) \intersect Throwing = {})
    => <>[](prev[w] = mtime)

(* A listener is told that the file is gone only when the stat before it   *)
(* did not find the file ("It was there, now gone.", index.ts).            *)
GoneMeansGone ==
  round.running # Nobody /\ round.curr = 0 => round.seen = 0

=============================================================================
