SPECIFICATION Spec
CONSTANTS
  Items = {i1, i2, i3}
  Targets = {t1, t2}
  Contents = {c1}
  Outcomes = {"proposed"}
  ReviewActions = {"approve"}
  Audios = {}
  Clients = {a}
  V3 = V3
  V4 = V4
  Claimers = {}
  Editable = {}
  NoItem = NoItem
  NoSnapshot = NoSnapshot
  NoAudio = NoAudio
  NoApproval = NoApproval
  NoOne = NoOne
  Idle = Idle
  Whole = Whole
  Preclaimed = TRUE
  MaxRevision = 1
  MaxAttempts = 0
SYMMETRY Symmetry
INVARIANT CurrentIsWhole
PROPERTY PreservedIsKept
