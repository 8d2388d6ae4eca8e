\* Two executions of two files and two series by two workers, killed and restarted.
SPECIFICATION Spec
CONSTANTS
  Keys = {k1, k2}
  Artifacts = {a1, a2}
  Series = {s1, s2}
  Contents = {c1, c2}
  NoFile = NoFile
  EmptyFolder = EmptyFolder
  Workers = {w1, w2}
  Main = Main
  Operators = {}
  NoKey = NoKey
  Permits <- OneOrAll
  MaxStarts = 3
SYMMETRY Symmetric
INVARIANTS
  RescanAtMostOnce
  OutcomeMatchesEffect
  DispatchedNeverLost
  PublishedIsJournaled
PROPERTIES
  ImplementsContract
\* With no start left and nothing to execute the runtime waits.
CHECK_DEADLOCK FALSE
