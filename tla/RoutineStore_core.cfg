\* Two edits of two routines or of the registry, two reloads at a time, a channel of one event, a restart.
CONSTANTS
  Routines <- Two
  Global = "global"
  Repos = {"api"}
  Home <- Homes
  Contents <- Says
  Absent = "absent"
  Enabled <- On
  Relevant <- Parts
  Buffer = 1
  MaxReloads = 2
  MaxEdits = 2
  MaxStarts = 2
SPECIFICATION FairSpec
CHECK_DEADLOCK FALSE
INVARIANTS StoreFollowsDisk JobsFollowStore
PROPERTY ComesToRest
