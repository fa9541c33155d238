SPECIFICATION Spec
CONSTANTS
  Client = {a}
  Thread = {a1, a2}
  Owner <- Threads
  Main = {a1}
  Connected = {a}
  MaxConns = 2
  MaxEvents = 4
  MaxBreaks = 1
  Nobody = Nobody
  a = a
  a1 = a1
  a2 = a2
CHECK_DEADLOCK FALSE
INVARIANTS
  SessionsAccounted
  HandleOfConnection
  ReplyIsOwn
PROPERTIES
  CallsEnd
  StopEnds
