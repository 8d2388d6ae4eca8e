\* One episode whose mapping changes, the loop, one request and two fair workers.
SPECIFICATION FairSpec
CONSTANTS
  k1 = k1
  h1 = h1
  w1 = w1
  w2 = w2
  Loop = Loop
  Free = Free
  NoRow = NoRow
  Keys <- OneKey
  Requests <- OneRequest
  Workers <- TwoWorkers
  MaxRevision = 1
INVARIANTS
  SubmittedIsOutstanding
  OneFlight
PROPERTIES
  TriedAgain
