SPECIFICATION FairSpec
CONSTANTS
  Savers = {a1, a2}
  Boot = boot
  Servers = {v1, v2}
  Ports = {p1, p2}
  Busy = {p2}
  None = None
  a1 = a1
  a2 = a2
  v1 = v1
  v2 = v2
  boot = boot
  p1 = p1
  p2 = p2
INVARIANTS NoStrayExporter ExporterInv
PROPERTIES ExporterComesUp ShutdownGetsPast
CHECK_DEADLOCK FALSE
