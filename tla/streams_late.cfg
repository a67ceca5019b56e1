\* A response taken after closeChans has closed the streams.
CONSTANTS
  s1 = s1
  s2 = s2
  Streams <- First
  Readers <- First
  CtxStreams <- Nobody
  MaxValues <- OneEach
  Lossy = TRUE
  WriteCap = 1
  FrameCap = 3
  InCap = 1
  None = None
SPECIFICATION FairSpec
CHECK_DEADLOCK FALSE
PROPERTY StreamsEndWithConnection
