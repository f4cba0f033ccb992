SPECIFICATION Spec
CONSTANTS
  MaxRequests = 2
  NoDoc = NoDoc
  NoResult = NoResult
  MaxAttempts = 4
  Requests <- SomeRequests
INVARIANTS PipelineInv  ResultIsOfRequest
PROPERTIES ResolveReturns EndedWindsDown
CHECK_DEADLOCK FALSE
