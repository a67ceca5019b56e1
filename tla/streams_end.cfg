\* One stream; the connection may end and the context may be done at any point.
CONSTANTS
  s1 = s1
  s2 = s2
  Streams <- First
  Readers <- First
  CtxStreams <- First
  MaxValues <- ThreeEach
  Lossy = TRUE
  WriteCap = 1
  FrameCap = 5
  InCap = 1
  None = None
SPECIFICATION FairSpec
CHECK_DEADLOCK FALSE
INVARIANT TypeOK
PROPERTIES
  RefinesStream
  HeldStreamsEnd
