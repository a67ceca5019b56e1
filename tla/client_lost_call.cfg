\* W takes a request after closeInFlight has run.
CONSTANTS
  c1 = c1
  c2 = c2
  Calls <- OneCall
  RetryCalls <- NoCalls
  CtxCalls <- NoCalls
  MaxAttempts = 1
  MaxGen = 1
  WriteCap = 3
  FrameCap = 2
  NoReconnect = TRUE
  CtxCancellable = FALSE
  SleepSettles = TRUE
  NoCall = NoCall
SPECIFICATION FairSpec
PROPERTY AllPendingReturnOnClose
CHECK_DEADLOCK FALSE
