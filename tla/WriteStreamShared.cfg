CONSTANTS
  Streams = {s1, s2}
  Nobody = Nobody
  Fds <- MCFds
  Options <- MCSharedOptions
  ChunkLen = 2
  MaxChunks = 2
SPECIFICATION Spec
SYMMETRY MCSymmetry
INVARIANTS
  
  StreamsUseTheirOwnFd
  NoFdForgotten
  StrandedOnlyByEarlyCloseOrThrow
\* A program may leave its streams alone.
CHECK_DEADLOCK FALSE
