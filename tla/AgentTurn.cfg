SPECIFICATION FairSpec
CONSTANTS
  Callers = {"turn"}
  RetryAttempts = 2
  MaxAttempts = 2
  Rounds = 2
  Texts = {"question"}
  MaxIterations = 2
  Consolidations = 2
  Others = 1
  MaxMessages = 2
INVARIANTS RetriesBounded GivesUpLast RoutingSettles
PROPERTIES TurnEnds
CHECK_DEADLOCK FALSE
