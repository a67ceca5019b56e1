\* Up to five requests in all, over one connection; the client handles the
\* responses it gets.
CONSTANTS
  ToLower <- LowerMethod
  Services <- AllServices
  Special <- SpecialNames
  Failing <- FailingNames
  Sends <- SendSet
  MaxSends = 5
SPECIFICATION FairSpec
INVARIANTS CloseCount TableHoldsOpen
PROPERTIES BothEnd AnswersEnd
CHECK_DEADLOCK FALSE
