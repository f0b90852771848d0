SPECIFICATION Spec
CONSTANTS
  s1 = s1
  s2 = s2
  s3 = s3
  e1 = e1
  None = None
  Absent = Absent
  Corrupt = Corrupt
  Unreadable = Unreadable
  Session = {s1, s2}
  Edit = {e1}
  Stamp = {1}
  Legacy <- NoLegacy
  MaxLen = 1
  MaxId = 3
  MaxLive = 2
  MaxCrash = 1
  MaxFault = 1
  MaxDamage = 1
  MaxRestore = 1
  MaxDiscard = 0
  MaxLate = 0
SYMMETRY Sessions
INVARIANTS NoWorkLost AutosaveNeverWedged IndexSound
PROPERTIES OverwriteOnlyBySource
CHECK_DEADLOCK FALSE
