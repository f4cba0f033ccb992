SPECIFICATION FairSpec
CONSTANTS
  Savers = {a1}
  Boot = boot
  Servers = {v1, v2}
  Ports = {p1, p2}
  Busy = {p2}
  None = None
  a1 = a1
  v1 = v1
  v2 = v2
  boot = boot
  p1 = p1
  p2 = p2
PROPERTIES ShutdownReachesSessions
CHECK_DEADLOCK FALSE
