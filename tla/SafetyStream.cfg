SPECIFICATION Spec
CONSTANTS
  Word = 16
  Directions = {"server", "client"}
  Initials <- SomeInitials
  SendTicks = 5
  MaxElapse = 3
  MaxCorrection = 2
  BootTicks = {20, 37}
  MaxTicks = 60
  MaxInFlight = 2
  MaxLost = 1
CHECK_DEADLOCK FALSE
INVARIANT
  RolloverAgrees
PROPERTY
  WrapsCountedAlike
