SPECIFICATION Spec
CONSTANTS
  s1 = s1
  s2 = s2
  s3 = s3
  e1 = e1
  None = None
  Absent = Absent
  Corrupt = Corrupt
  Unreadable = Unreadable
  Session = {s1, s2, s3}
  Edit = {e1}
  Stamp = {1}
  Legacy <- NoLegacy
  MaxLen = 1
  MaxId = 3
  MaxLive = 2
  MaxCrash = 1
  MaxFault = 0
  MaxDamage = 0
  MaxRestore = 1
  MaxDiscard = 1
  MaxLate = 0
SYMMETRY Sessions
INVARIANTS NoWorkLost
CHECK_DEADLOCK FALSE
