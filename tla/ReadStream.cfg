CONSTANTS
  s1 = s1
  s2 = s2
  Streams = {s1, s2}
  Nobody = Nobody
  Fds <- MCFds
  Size = 3
  Start <- MCStart
  End <- MCEnd
  AutoClose <- MCAutoClose
  HighWaterMark = 2
SPECIFICATION Spec
INVARIANTS
  TypeOK
  PushedIsARangeOfTheFile
  EndMeansComplete
  EndReleasesTheFile
PROPERTY EveryOpenedStreamEnds
\* A program may leave its streams alone.
CHECK_DEADLOCK FALSE
