SPECIFICATION CleanupSpec
CONSTANTS
  w1 = w1
  w2 = w2
  k1 = k1
  Writers = {w1, w2}
  Script <- CleanupScript
  InitialVersions <- TwoVersions
  Store = "local"
  LosesReplies = {}
  GivesUp = {}
  Checkouts = FALSE
  Tries = 1
  Attempts = 2
  Cleaners = {k1}
  Cleanups = 1
  OlderThan = 2
  Retain = 1
  DeleteUnverified = FALSE
  Tagged = {1}
  Threshold = 3
  MaxTime = 3
  Deadline = 1
INVARIANTS  VersionsComplete OneCommitPerVersion CommitsSurvive
PROPERTY KeepsLatestAndTagged
CHECK_DEADLOCK FALSE
