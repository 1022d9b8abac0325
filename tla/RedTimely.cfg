SPECIFICATION FairSpec
CONSTANTS
  u1 = u1  c1 = c1  c2 = c2  s1 = s1  s2 = s2  A = A  B = B
  Users = {u1}
  Checkers = {c1, c2}
  Sessions = {s1, s2}
  Profiles = {A, B}
  BackupProfile <- ToBackup
  FirstProfile = A
  None = None
  Modes = {"persistent", "dialondemand"}
  Lines <- AllLines
  MaxRetries = 3
  MaxConfigure = 3
  MaySyncFail = TRUE
  Timely = TRUE
  SchedJobs = {}
  MaxCommands <- One
  MaxUpdates = 2
  MaxBoots = 0
INVARIANTS SingleSession NoOrphan
PROPERTIES LostLinkRedialled BackupTried
CHECK_DEADLOCK FALSE
