CONSTANTS
  Calls = {c1}
  Names = {a, b}
  Listing = Listing
  NoJob = NoJob
  Done = Done
  MaxElsewhere = 2
SPECIFICATION Spec
INVARIANTS
  WatchedTypeOK
  ReaddirTellsWhatItSaw
PROPERTIES
  ClosedWatcherLearnsNothing
  ListingCatchesUp
\* A program may stop making calls.
CHECK_DEADLOCK FALSE
