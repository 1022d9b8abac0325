SPECIFICATION Spec
CONSTANTS
  Conns = {office, road}
  Net = {office}
  Dynamic = {office}
  OnBlue = {road}
  Admins = {p1}
  Jobs = {j1}
  Watchers = {w1, w2}
  Addrs = {a1}
  NoAddr = NoAddr
  None = None
  GuiOps = {"save", "disable"}
  RedDevice = TRUE
  MaxClicks = 2
  MaxRed = 0
  MaxDns = 0
  MaxSetup = 0
INVARIANT OffIsUnloaded
