\* Two calls, one whose context may end, over two connections; the context
\* of the client may be cancelled.
CONSTANTS
  c1 = c1
  c2 = c2
  Calls <- CallSet
  RetryCalls <- NoCalls
  CtxCalls <- OneCall
  MaxAttempts = 1
  MaxGen = 2
  WriteCap = 3
  FrameCap = 2
  NoReconnect = FALSE
  CtxCancellable = TRUE
  SleepSettles = TRUE
  NoCall = NoCall
SPECIFICATION Spec
INVARIANT SendersHaveReceivers
PROPERTY NoConnectionAfterExiting
CHECK_DEADLOCK FALSE
