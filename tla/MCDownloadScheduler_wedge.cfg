\* The loop alone, with one worker.
SPECIFICATION FairSpec
CONSTANTS
  k1 = k1
  h1 = h1
  w1 = w1
  w2 = w2
  Loop = Loop
  Free = Free
  NoRow = NoRow
  Keys <- OneKey
  Requests <- NoRequests
  Workers <- OneWorker
  MaxRevision = 1
PROPERTIES
  PollsOn
