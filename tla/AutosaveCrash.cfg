SPECIFICATION Spec
CONSTANTS
  s1 = s1
  s2 = s2
  s3 = s3
  e1 = e1
  None = None
  Absent = Absent
  Corrupt = Corrupt
  Unreadable = Unreadable
  Session = {s1, s2, s3}
  Edit = {e1}
  Stamp = {1}
  Legacy <- OneLegacy
  MaxLen = 1
  MaxId = 3
  MaxLive = 1
  MaxCrash = 2
  MaxFault = 0
  MaxDamage = 1
  MaxRestore = 1
  MaxDiscard = 1
  MaxLate = 0
CONSTRAINT FewMishaps
SYMMETRY Sessions
INVARIANTS TypeOK NoWorkLost OwedIsOffered SavedIsNotOffered
PROPERTIES CandidateLeavesOnlyByUser
CHECK_DEADLOCK FALSE
