CONSTANTS
  Picks = {p1, p2}
  NoPick = NoPick
  MaxItems = 1
SPECIFICATION Spec
INVARIANT ImportsAreLocal
\* No pick left to make, or a user who does not finish.
CHECK_DEADLOCK FALSE
