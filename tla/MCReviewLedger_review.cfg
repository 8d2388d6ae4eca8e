SPECIFICATION Spec
CONSTANTS
  Items = {i1}
  Targets = {t1}
  Contents = {c1}
  Outcomes = {"proposed"}
  ReviewActions = {"approve", "dismiss", "reopen"}
  Audios = {SUB}
  Clients = {a, b}
  V3 = V3
  V4 = V4
  Claimers = {V3, V4}
  Editable = {t1}
  NoItem = NoItem
  NoSnapshot = NoSnapshot
  NoAudio = NoAudio
  NoApproval = NoApproval
  NoOne = NoOne
  Idle = Idle
  Whole = Whole
  Preclaimed = FALSE
  MaxRevision = 2
  MaxAttempts = 1
SYMMETRY Symmetry
INVARIANTS
  StatesAgree
  RevisionIsToken
  ApprovalIsBound
  ReservedKeepsOwner
PROPERTY
  ActsAsSeen
