SPECIFICATION Spec
CONSTANTS
  u1 = u1  c1 = c1  c2 = c2  s1 = s1  s2 = s2  A = A  B = B
  Users = {u1}
  Checkers = {c1, c2}
  Sessions = {s1, s2}
  Profiles = {A}
  BackupProfile <- NoBackup
  FirstProfile = A
  None = None
  Modes = {"dialondemand"}
  Lines <- DslOnly
  MaxRetries = 1
  MaxConfigure = 1
  MaySyncFail = TRUE
  Timely = FALSE
  SchedJobs = {}
  MaxCommands <- One
  MaxUpdates = 2
  MaxBoots = 0
PROPERTIES DemandNotCut
CHECK_DEADLOCK FALSE
