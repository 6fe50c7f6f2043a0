SPECIFICATION RateSpec
CONSTANTS
  Requests = {"a", "b"}
  MaxRequests = 1
  MaxTries = 2
  FailClosed = FALSE
INVARIANTS AtMostMax ExpiryIsComing
CHECK_DEADLOCK FALSE
