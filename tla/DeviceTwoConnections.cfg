SPECIFICATION Spec
SYMMETRY Symmetry
CONSTANTS
  Clients = {c1, c2}
  Watchdog = wd
  UdpThread = udp
  App = app
  NoThread = none
  Triads = {t1, t2}
  Profiles <- ListenOrExplicit
  Ports <- OnePort
  MaxOpens = 2
INVARIANTS
  ProducerAccounted
  SingleForwardClose
