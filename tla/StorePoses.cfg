SPECIFICATION Spec
CONSTANTS
  p1 = p1
  p2 = p2
  f1 = f1
  f2 = f2
  n1 = n1
  n2 = n2
  n3 = n3
  None = None
  Absent = Absent
  NoLines = NoLines
  Pattern = {p1, p2}
  Unfolded = p1
  Path = {}
  File = {}
  Real <- NoPath
  Foreign <- NoText
  Imported <- NoFold
  Numbering <- NoProposal
  MaxUndo = 2
  MaxId = 3
  MaxBorn = 2
  MaxEdit = 4
  MaxOther = 0
  MaxCrash = 0
  MaxLag = 1
  MaxLate = 1
INVARIANTS CreasesOfTheStep
