SPECIFICATION CleanupSpec
CONSTANTS
  w1 = w1
  w2 = w2
  k1 = k1
  Writers = {w1, w2}
  Script <- CheckoutScript
  InitialVersions <- ThreeVersions
  Store = "local"
  LosesReplies = {}
  GivesUp = {}
  Checkouts = TRUE
  Tries = 1
  Attempts = 2
  Cleaners = {k1}
  Cleanups = 1
  OlderThan = 2
  Retain = 1
  DeleteUnverified = FALSE
  Tagged = {1}
  Threshold = 3
  MaxTime = 3
  Deadline = 1
INVARIANT OneCommitPerVersion
CHECK_DEADLOCK FALSE
