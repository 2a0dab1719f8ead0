CONSTANTS
  Calls = {c1, c2}
  Paths = {p1, p2}
  Plain = {p1}
  Promised = {c2}
  NoCall = NoCall
  NoPath = NoPath
  ChunkLen = 2
  Fds <- MCFds
  Places <- MCAllPlaces
  OpenFlags <- Flags
SPECIFICATION Spec
PROPERTIES
  EveryCallIsAnswered
  AppendLogSpec
\* A program may stop making calls.
CHECK_DEADLOCK FALSE
