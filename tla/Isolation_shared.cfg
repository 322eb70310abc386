\* Two runs in every pair of modes, the user, interrupts and rejected commits.
CONSTANTS
  r1 = r1
  r2 = r2
  user = user
  s1 = s1
  u1 = u1
  u2 = u2
  a1 = a1
  a2 = a2
  Runs <- TwoRuns
  User = user
  Changes <- All
  Author <- Authors
  FileOf <- Mixed
  NewFile <- Created
  Staged0 <- TheStaged
  Unstaged0 <- TheUnstaged
  Modes <- AllModes
  MaxClock = 2
  Interrupts = TRUE
  Rejects = TRUE
  UserStashes = 1
SPECIFICATION Spec
INVARIANTS UserWorkIsSafe WorktreesAreExclusive RestoredWhenAlone
PROPERTY UncommittedWorkIsKept
CHECK_DEADLOCK FALSE
