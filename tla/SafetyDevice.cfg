SPECIFICATION Spec
SYMMETRY Symmetry
CONSTANTS
  Clients = {c1, c2}
  Watchdog = wd
  UdpThread = udp
  App = app
  Triads = {t1}
  Profiles <- OneProfile
  MaxOpens = 2
  Configurations = {s1, s2}
  NoConfiguration = zero
  NotSafety = standard
  Nobody = nobody
INVARIANTS
  ConfigurationAccounted
  NoDanglingValidator
