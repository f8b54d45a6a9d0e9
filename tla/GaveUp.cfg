SPECIFICATION Spec
CONSTANTS
  w1 = w1
  w2 = w2
  Writers = {w1, w2}
  Script <- IndexScript
  InitialVersions <- OneVersion
  Store = "object"
  LosesReplies = {w1}
  GivesUp = {w1}
  Checkouts = TRUE
  Tries = 2
  Attempts = 2
INVARIANT FailedIsUnreferenced
CHECK_DEADLOCK FALSE
