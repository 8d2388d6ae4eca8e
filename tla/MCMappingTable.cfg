SPECIFICATION Spec
CONSTANTS
  Titles <- MCTitles
  Key <- MCKey
  Urls <- MCUrls
  Valid <- MCValid
  Norm <- MCNorm
  Part <- MCPart
  Wanted <- MCWanted
  FoundUrls = {1, 3}
  FormUrls = {2, 4}
  Files <- MCFiles
  Uploads <- MCUploads
  StartTables <- MCStartTables
  StartReviews = {{1}}
  MaxOps = 2
INVARIANTS SavedIsSafe PageRoundTrip
PROPERTIES NothingLostUnasked
CHECK_DEADLOCK FALSE
