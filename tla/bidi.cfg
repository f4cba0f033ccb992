SPECIFICATION Spec
CONSTANTS
  Callers = {0, 1, 2, 3}
  Methods = {"addIntercept", "subscribe", "provideCredentials", "cancel"}
  MaxId = 5
  None = None
  Requests = {r1, r2}
  MaxChallenges = 3
  MaxTracked = 1
INVARIANTS AuthInv NoRequestForgotten
CHECK_DEADLOCK FALSE
PROPERTIES ReportedIsAnswered PausedGoesOn ConnectionEnds
