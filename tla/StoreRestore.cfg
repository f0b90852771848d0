SPECIFICATION Spec
CONSTANTS
  p1 = p1
  p2 = p2
  f1 = f1
  f2 = f2
  n1 = n1
  n2 = n2
  n3 = n3
  None = None
  Absent = Absent
  NoLines = NoLines
  Pattern = {p1, p2}
  Unfolded = p1
  Path = {n1, n2, n3}
  File = {f1, f2}
  Real <- TwoNames
  Foreign <- Texts
  Imported <- NoFold
  Numbering <- NoProposal
  MaxUndo = 1
  MaxId = 1
  MaxBorn = 0
  MaxEdit = 2
  MaxOther = 1
  MaxCrash = 1
  MaxLag = 0
  MaxLate = 0
PROPERTIES OnlySeenIsOverwritten
