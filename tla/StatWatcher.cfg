CONSTANTS
  Listeners = {l1, l2, l3}
  Throwing = {l3}
  MaxWatchers = 2
  MaxListeners = 2
  MaxChanges = 2
SPECIFICATION StatSpec
INVARIANTS
  StatTypeOK
  IntervalsAreReachable
PROPERTIES
  OnlyTheWatchedAreTold
  ListenersHearTheLastChange
  WatchersCatchUp
\* A path nobody watches and nobody changes.
CHECK_DEADLOCK FALSE
