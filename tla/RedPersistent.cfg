SPECIFICATION Spec
CONSTANTS
  u1 = u1  c1 = c1  c2 = c2  s1 = s1  s2 = s2  A = A  B = B
  Users = {u1}
  Checkers = {c1, c2}
  Sessions = {s1, s2}
  Profiles = {A}
  BackupProfile <- NoBackup
  FirstProfile = A
  None = None
  Modes = {"persistent"}
  Lines <- StayLines
  MaxRetries = 1
  MaxConfigure = 1
  MaySyncFail = TRUE
  Timely = FALSE
  SchedJobs = {}
  MaxCommands <- Two
  MaxUpdates = 2
  MaxBoots = 0
SYMMETRY Symmetry
INVARIANTS TypeOK ActiveHasSession RedialHeld
CHECK_DEADLOCK FALSE
