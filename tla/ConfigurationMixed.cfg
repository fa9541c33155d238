SPECIFICATION Spec
SYMMETRY Symmetry
CONSTANTS
  Clients = {c1, c2}
  Watchdog = wd
  UdpThread = udp
  App = app
  Triads = {t1, t2}
  Profiles <- OneProfile
  MaxOpens = 3
  Configurations = {s1, s2}
  NoConfiguration = zero
  NotSafety = standard
  Nobody = nobody
INVARIANT
  OneConfiguration
