SPECIFICATION FairSpec
CONSTANTS
  u1 = u1  c1 = c1  c2 = c2  s1 = s1  s2 = s2  A = A  B = B
  Users = {u1}
  Checkers = {c1, c2}
  Sessions = {s1, s2}
  Profiles = {A, B}
  BackupProfile <- RoundRobin
  FirstProfile = A
  None = None
  Modes = {"manual"}
  Lines <- ManualLines
  MaxRetries = 1
  MaxConfigure = 1
  MaySyncFail = TRUE
  Timely = FALSE
  SchedJobs = {"dial", "hangup", "reconnect", "profile"}
  MaxCommands <- Three
  MaxUpdates = 2
  MaxBoots = 1
INVARIANTS SingleSession NoOrphan UpIsActive
PROPERTIES DisconnectIsFinal DisconnectTakesEffect ScheduledJobEnds
CHECK_DEADLOCK FALSE
