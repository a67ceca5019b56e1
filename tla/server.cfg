\* Any two of: a call whose handler waits for its context, one of a method with
\* a channel result, a notification under an alias; pings; queues of one.
CONSTANTS
  wait = wait
  sub = sub
  note = note
  Calls <- CallSet
  Req <- Requests
  Methods <- Table
  Aliases <- AliasTable
  UntilCtx <- Waiting
  Returns <- Outcomes
  WriteCap = 1
  FrameCap = 1
  PongCap = 1
  MaxWire = 1
  MaxPings = 1
  MaxCalls = 2
  CtxCancellable = TRUE
  NoCall = NoCall
SPECIFICATION FairSpec
INVARIANTS TypeOK OnlyNamedCancelled HandlingAgrees OneAnswer
PROPERTIES CancelReaches CallAnswered ContextsEnd
CHECK_DEADLOCK FALSE
