SPECIFICATION Spec
CONSTANTS
  Session = {s1, s2}
  Transfers <- AllTransfers
  Shape <- MCShape
  Templates <- MCTemplates
  NaturalAlignment <- MCAlignment
  NameLength = 4
  MaxTemplateChunk = 40
  AtomicSize <- MCAtomicSize
  ByteBits = 2
  WordBytes = 4
  MaxReplyData = 6
  AtomicPrefix = 2
  StructPrefix = 4
  ChunkBytes = 3
  LaterStrip = 4
  NoTemplate = NoTemplate
  NoBit = NoBit
CHECK_DEADLOCK FALSE
INVARIANTS
  TypeOK
  ReadsTile
  ServedIffLegal
  WritesLand
PROPERTIES
  OnlyAddressed
  TransfersEnd
