\* Three goroutines that register, one call over HTTP; result sets of up to two
\* rows of three columns, two of which have the same name in lower case.
\* Integers of 6 and 3 bits, floats of 4 or 2 significant bits; pauses of 4 to 20,
\* of which the exponential passes 31, the largest Duration, at the sixth.
CONSTANTS
  g1 = g1
  g2 = g2
  g3 = g3
  c1 = c1
  ToLower <- LowerMethod
  Registrars <- RegistrarSet
  Rcvr <- ReceiverOf
  GivenName <- NameGiven
  HttpCalls <- CallSet
  Requests <- RequestSet
  Answers <- AnswerSet
  MaxDone = 2
  NoRegistrar = NoRegistrar
  Columns <- ColumnSeq
  Lower <- LowerCase
  CellsOf <- CellsOfColumn
  FieldLists <- FieldListSet
  MaxRows = 2
  Mant = 4
  SingleMant = 2
  Short = 3
  Long = 6
  MinDelay = 4
  MaxDelay = 20
  Jitters = 4
  MaxAttempts = 10
SPECIFICATION Spec
INVARIANTS WinnerServes NilMeansDone TableHoldsRows NilMeansFilled WholeKept
PROPERTY PausesGrow
CHECK_DEADLOCK FALSE
