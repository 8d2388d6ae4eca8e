\* Two executions of one key of two files and one worker, one operator request, under fair scheduling.
SPECIFICATION FairSpec
CONSTANTS
  Keys = {k1}
  Artifacts = {a1, a2}
  Series = {s1}
  Contents = {c1}
  NoFile = NoFile
  EmptyFolder = EmptyFolder
  Workers = {w1}
  Main = Main
  Operators = {o1}
  NoKey = NoKey
  Permits <- OneOrAll
  MaxStarts = 2
PROPERTIES
  RecoveryEnds
  ExecutionEnds
  DecisionsStand
\* With no start left and nothing to execute the runtime waits.
CHECK_DEADLOCK FALSE
