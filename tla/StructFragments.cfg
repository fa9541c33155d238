SPECIFICATION Spec
CONSTANTS
  Session = {s1}
  Transfers <- Reads
  Shape <- MCShape
  Templates <- MCTemplates
  NaturalAlignment <- MCAlignment
  NameLength = 4
  MaxTemplateChunk = 40
  AtomicSize <- MCAtomicSize
  ByteBits = 2
  WordBytes = 4
  MaxReplyData = 6
  AtomicPrefix = 2
  StructPrefix = 4
  ChunkBytes = 3
  LaterStrip = 2
  NoTemplate = NoTemplate
  NoBit = NoBit
CHECK_DEADLOCK FALSE
INVARIANT
  ReadsTile
