CONSTANTS
  Calls = {c1, c2, c3}
  Paths = {p1}
  Plain = {p1}
  Promised = {c3}
  NoCall = NoCall
  NoPath = NoPath
  ChunkLen = 2
  Fds <- MCFds
  Places <- MCPlaces
  OpenFlags <- MCFlags
SPECIFICATION Spec
INVARIANTS
  TypeOK
  NoDescriptorLeak
  OneOwner
  QueuedOpsKeepTheirFile
  SuccessIsToldOnceAndFirst
PROPERTY AppendLogSpec
SYMMETRY MCSymmetry
\* A program may stop making calls.
CHECK_DEADLOCK FALSE
