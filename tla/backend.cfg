SPECIFICATION MCSpec
CONSTANTS
  Backends = {b1, b2}
  Ports = {p1, p2}
  LastDisplay = 2
  None = None
  Inherited = {None, Host}
  Engines = {"webdriver", "geckodriver", "chromedp"}
  UserDataDir = FALSE
  DebugLogging = TRUE
INVARIANTS NothingLeftBehind OwnedMeansUnreaped BrowserKeepsItsGround IInv NoNeedlessOrphan
PROPERTIES DisplayVariableKept ConstructionReturns CloseReturns KeepsPromise
