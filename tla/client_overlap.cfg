\* One retried call over two connections whose goroutines overlap freely.
CONSTANTS
  c1 = c1
  c2 = c2
  Calls <- OneCall
  RetryCalls <- OneCall
  CtxCalls <- NoCalls
  MaxAttempts = 2
  MaxGen = 2
  WriteCap = 1
  FrameCap = 1
  NoReconnect = FALSE
  CtxCancellable = FALSE
  SleepSettles = FALSE
  NoCall = NoCall
SPECIFICATION Spec
INVARIANTS
  TypeOK
  OneOwner
  OnePlace
PROPERTY RefinesRpcCall
CHECK_DEADLOCK FALSE
