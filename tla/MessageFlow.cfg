SPECIFICATION Spec
CONSTANTS
  r1 = r1
  r2 = r2
  p1 = p1
  Requests = {r1, r2}
  Posts = {p1}
  ChatOf <- MCChatOf
  MaxInbound = 2
  MaxOutbound = 1
  MaxProgress = 1
INVARIANTS PendingIsAwaited
PROPERTIES HandledOnce QuietOnceEnded Handled TurnAnswered
CHECK_DEADLOCK FALSE
