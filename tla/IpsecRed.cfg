SPECIFICATION FairSpec
CONSTANTS
  Conns = {office, road}
  Net = {office}
  Dynamic = {office}
  OnBlue = {road}
  Admins = {}
  Jobs = {j1, j2}
  Watchers = {w1, w2}
  Addrs = {a1, a2}
  NoAddr = NoAddr
  None = None
  GuiOps = {}
  RedDevice = FALSE
  MaxClicks = 0
  MaxRed = 3
  MaxDns = 2
  MaxSetup = 0
PROPERTIES
  PeerFollows
  StoppedWithRed
  StartedWithRed
