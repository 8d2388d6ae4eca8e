\* One error condition and reviews, two events in one batch, over three units of time.
SPECIFICATION NotifyFairSpec
CONSTANTS
  e1 = e1
  Codes <- OneCode
  Window = 1
  MaxTime = 2
  MaxEvents = 2
  Batch = 2
  Never = Never
  NoCursor = NoCursor
INVARIANTS
  NothingLost
PROPERTIES
  InOrder
  AllDealtWith
\* With every event of the bound dealt with the worker waits.
CHECK_DEADLOCK FALSE
