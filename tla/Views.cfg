CONSTANTS
  StoreSize = 4
  MaxViews = 3
  Absent = Absent
SPECIFICATION Spec
INVARIANT CallsKeepToTheirViews
\* The call has been made.
CHECK_DEADLOCK FALSE
