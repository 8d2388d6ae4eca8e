\* Three scans asked for by the scheduler and two requests, across crashes and restarts.
SPECIFICATION JobsFairSpec
CONSTANTS
  Loop = Loop
  h1 = h1
  h2 = h2
  Requests <- TwoRequests
  Worker = Worker
  Free = Free
  NoJob = NoJob
  MaxJobs = 3
INVARIANTS
  OneActive
  FailedIsReported
  ActiveIsHeld
PROPERTIES
  ScanEnds
\* Once the jobs of the bound are used up a start finds nothing to insert.
CHECK_DEADLOCK FALSE
