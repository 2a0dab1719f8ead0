CONSTANTS
  Dirs = {d1, d2}
  Loops = {l1, l2}
  NoDir = NoDir
  Program = Program
  Entries = 2
SPECIFICATION Spec
INVARIANTS
  LoopsShareTheNames
  ClosedDirsGiveBackAccess
\* A program may stop.
CHECK_DEADLOCK FALSE
