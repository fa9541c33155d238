SPECIFICATION FairSpec
CONSTANTS
  Clients = {c1, c2}
  Watchdog = wd
  UdpThread = udp
  App = app
  NoThread = none
  Triads = {t1}
  Profiles <- OneIo
  Ports <- TwoPorts
  MaxOpens = 1
INVARIANTS
  TypeOK
  ProducerAccounted
  TimeoutCountsFromFirstFrame
PROPERTIES
  SilentConnectionRemoved
  CloseReturns
  ImplementsLifecycle
