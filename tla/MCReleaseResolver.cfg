SPECIFICATION Spec
CONSTANTS
  Cases <- MCCases
  StateLimit = 7
CHECK_DEADLOCK FALSE
INVARIANTS MatchedIsExact SourceHasOneSeason CoverIsBest PartsAgree
