SPECIFICATION FairSpec
CONSTANTS
  Backends = {b1}
  Ports = {p1}
  LastDisplay = 1
  None = None
  Inherited = {None}
  Engines = {"chromedp"}
  UserDataDir = FALSE
  DebugLogging = TRUE
PROPERTIES EveryConstructionReturns
