\* What must happen in the end, for a retried call over two connections.
CONSTANTS
  c1 = c1
  c2 = c2
  Calls <- OneCall
  RetryCalls <- OneCall
  CtxCalls <- NoCalls
  MaxAttempts = 2
  MaxGen = 2
  WriteCap = 3
  FrameCap = 2
  NoReconnect = FALSE
  CtxCancellable = FALSE
  SleepSettles = TRUE
  NoCall = NoCall
SPECIFICATION FairSpec
PROPERTIES
  PendingReturnsOnClose
  CloserReturns
  ReaderLeaves
CHECK_DEADLOCK FALSE
