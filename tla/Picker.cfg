CONSTANTS
  Picks = {p1, p2, p3}
  NoPick = NoPick
  MaxItems = 1
SPECIFICATION Spec
INVARIANTS
  TypeOK
  OnlyFailedStartsSettleTwice
  LonePicksGetTheirOwn
  ImportsKeepTheirFiles
PROPERTY LonePicksAreSettled
\* No pick left to make, or a user who does not finish.
CHECK_DEADLOCK FALSE
