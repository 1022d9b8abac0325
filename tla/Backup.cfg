SPECIFICATION USpec
CONSTANTS
  Procs = {q1, q2}
  Media = {disk, stick}
  Local = disk
  Configs = {c1, c2, c3}
  PortOf <- MCPortOf
  DefaultPorts = p1
  Hardware = {h1, h2}
  FirstConfig = c1
  FirstHardware = h1
  Preloaded <- MCPreloaded
  Uploads <- MCUploads
  FirstRelease <- MCFirst
  Releases <- MCReleases
  Previous <- MCPrevious
  Start = 2
  None = None
  Torn = Torn
  c1 = c1
  c2 = c2
  c3 = c3
  h1 = h1
  h2 = h2
  p1 = p1
  p2 = p2
  MaxTime = 3
  MaxRequests = 3
  MaxDownloads = 1
  MaxEdits = 1
  MaxCuts = 1
INVARIANTS
  ListedIsTrue
  Cleaned
  PortFollows
  InstalledIsListed
PROPERTIES
  Implements
CHECK_DEADLOCK FALSE
