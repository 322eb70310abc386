\* One run that nobody disturbs: the base of the claims about isolation.
CONSTANTS
  r1 = r1
  r2 = r2
  user = user
  s1 = s1
  u1 = u1
  u2 = u2
  a1 = a1
  a2 = a2
  Runs <- OneRun
  User = user
  Changes <- Few
  Author <- Authors
  FileOf <- Apart
  NewFile <- Created
  Staged0 <- TheStaged
  Unstaged0 <- TheUnstaged
  Modes <- JustStaged
  MaxClock = 1
  Interrupts = FALSE
  Rejects = FALSE
  UserStashes = 0
SPECIFICATION Spec
INVARIANTS TypeOK RestoredAfterRun
CHECK_DEADLOCK FALSE
