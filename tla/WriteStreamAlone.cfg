CONSTANTS
  Streams = {s1}
  Nobody = Nobody
  Fds <- MCFds
  Options <- MCOptions
  ChunkLen = 2
  MaxChunks = 3
SPECIFICATION Spec
INVARIANTS
  TypeOK
  LoneStreamWritesInSequence
  FinishMeansWritten
  FinishReleasesTheFile
PROPERTIES
  EveryEndedStreamFinishes
\* A program may leave its streams alone.
CHECK_DEADLOCK FALSE
