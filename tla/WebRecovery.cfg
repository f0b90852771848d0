SPECIFICATION FairSpec
CONSTANTS
  Absent = Absent
  MaxId = 4
  MaxEdit = 2
  MaxInput = 4
  MaxClose = 1
  MaxFault = 1
  MaxWaiting = 2
INVARIANTS TypeOK ListedIsReadable UnsavedIsKept SavedIsCleared
PROPERTIES ShelfSpec DirtyEventuallyKept
CHECK_DEADLOCK FALSE
