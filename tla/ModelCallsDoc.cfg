SPECIFICATION Spec
CONSTANTS
  Callers = {"turn"}
  RetryAttempts = 2
  MaxAttempts = 3
  Rounds = 4
  Texts = {"question"}
  MaxIterations = 2
  Consolidations = 1
  Others = 1
  MaxMessages = 1
INVARIANT AlwaysResponds
CHECK_DEADLOCK FALSE
