SPECIFICATION Spec
CONSTANTS
  Conns = {office, road}
  Net = {office}
  Dynamic = {office}
  OnBlue = {road}
  Admins = {p1}
  Jobs = {j1}
  Watchers = {w1, w2}
  Addrs = {a1}
  NoAddr = NoAddr
  None = None
  GuiOps = {"save", "toggle", "restart", "remove", "edit"}
  RedDevice = TRUE
  MaxClicks = 2
  MaxRed = 2
  MaxDns = 1
  MaxSetup = 1
INVARIANTS
  TypeOK
  OffIsUnloaded
  OnIsLoaded
  DisabledIsStopped
  FwMatches
  OneWatcher
  DynamicWatched
SYMMETRY SlotSymmetry
