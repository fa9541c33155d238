SPECIFICATION Spec
CONSTANTS
  Layout <- OneProgram
  Type = {dint, real}
  Value = {0, 1}
  Zero = 0
  Torn = 2
  Session = {s1}
  MaxWrites = 2
  MaxSaves = 2
  MaxRestarts = 1
  dint = dint
  real = real
  s1 = s1
SYMMETRY Symmetric
CHECK_DEADLOCK FALSE
INVARIANTS
  NoEventLost
  SnapshotHonest
  LoadRestores
  CutsAreNoticed
