\* Two streams over a connection that stays up; nobody receives from s2.
CONSTANTS
  s1 = s1
  s2 = s2
  Streams <- Both
  Readers <- First
  CtxStreams <- First
  MaxValues <- OneAndThree
  Lossy = FALSE
  WriteCap = 1
  FrameCap = 1
  InCap = 1
  None = None
SPECIFICATION FairSpec
CHECK_DEADLOCK FALSE
INVARIANT TablesAgree
PROPERTIES
  RefinesStream
  StreamsComplete
