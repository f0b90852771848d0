SPECIFICATION FairSpec
CONSTANTS
  s1 = s1
  s2 = s2
  s3 = s3
  e1 = e1
  None = None
  Absent = Absent
  Corrupt = Corrupt
  Unreadable = Unreadable
  Session = {s1, s2}
  Edit = {e1}
  Stamp = {1}
  Legacy <- NoLegacy
  MaxLen = 1
  MaxId = 2
  MaxLive = 2
  MaxCrash = 0
  MaxFault = 1
  MaxDamage = 0
  MaxRestore = 0
  MaxDiscard = 0
  MaxLate = 0
PROPERTIES DirtyEventuallySafe
CHECK_DEADLOCK FALSE
