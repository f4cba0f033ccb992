SPECIFICATION Spec
CONSTANTS
  MaxRequests = 1
  NoDoc = NoDoc
  NoResult = NoResult
  MaxAttempts = 4
  Requests <- PlainOnly
INVARIANTS ReadyMeansParsed
CHECK_DEADLOCK FALSE
