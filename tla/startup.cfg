SPECIFICATION MCSpec
CONSTANTS
  Keys <- AllKeys
  ProxyKey = "proxy"
  Values <- KeyValues
  Defaults <- KeyDefaults
  HandWritten <- UsualFiles
  Outside <- SomeOutside
  NotSet = NotSet
  MaxEvents = 3
  Saved <- Settings
  Callers = {c1, c2}
  Dirs = {"", "data"}
  MaxVersion = 2
  Free = Free
  Missing = Missing
  Unparsable = Unparsable
INVARIANTS DriverInv DriverFitsBrowser SavedSurvivesRestart
CHECK_DEADLOCK FALSE
