SPECIFICATION Spec
CONSTANTS
  Thread = {t1, t2}
  Name = {a, b, c}
  Program = {p}
  PageEntries = 1
  PseudoBase = 9
  Prebuilt = {1, 2}
  MaxOps = 6
  None = None
  t1 = t1
  t2 = t2
  a = a
  b = b
  c = c
  p = p
SYMMETRY Symmetric
CHECK_DEADLOCK FALSE
INVARIANTS
  TablesAgree
  AddedIsReachable
  BrowseComplete
  CachedRootSame
  TemplatesAlive
PROPERTY
  IdsStable
