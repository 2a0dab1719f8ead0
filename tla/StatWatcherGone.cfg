CONSTANTS
  Listeners = {l1, l2}
  Throwing = {l2}
  MaxWatchers = 2
  MaxListeners = 2
  MaxChanges = 2
SPECIFICATION StatSpec
INVARIANT GoneMeansGone
\* A path nobody watches and nobody changes.
CHECK_DEADLOCK FALSE
