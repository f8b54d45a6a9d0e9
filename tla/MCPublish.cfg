SPECIFICATION Spec
CONSTANTS
  w1 = w1
  w2 = w2
  Writers = {w1, w2}
  Script <- PublishScript
  InitialVersions <- OneVersion
  Store = "object"
  LosesReplies = {w1}
  GivesUp = {w2}
  Checkouts = TRUE
  Tries = 2
  Attempts = 2
INVARIANTS StorageTypeOK VersionsComplete
PROPERTY PublishesOnce
CHECK_DEADLOCK FALSE
