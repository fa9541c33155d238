SPECIFICATION PairSpec
CONSTANTS
  Lengths = {1, 3}
  Stamps = {1}
  Initials = {0, 1}
  Word = 16
  Corrections = {0}
  InstantThreshold = 1
  MaxInFlight = 1
  MaxPing = 1
  DamagedBits = {0, 4, 7}
  MaxDamage = 1
CHECK_DEADLOCK FALSE
INVARIANTS
  OnlyGenuine
  
PROPERTY
  HandshakeCompletes
