SPECIFICATION TSpec
CONSTANTS
  p1 = p1  p2 = p2  g1 = g1  g2 = g2  None = None  Blank = Blank
  Services = {"squid", "ntpd", "openvpn", "sshd", "rsyslogd", "dnsmasq", "shaping", "aliases", "email", "accounting"}
  Saveable <- MCSaveable
  Messages = {"m1", "m2"}
  IpsecNets = {"net1"}
  IpsecOn = {"RED"}
  Addresses = {"a1", "a2"}
  Procs = {p1, p2}
  MaxCalls <- MCCalls
  MaxWorld <- MCWorld
  MaxCuts <- MCCuts
  Aggregators = {g1, g2}
  MaxPackets = 1
  MaxAborts = 1
SYMMETRY Symmetry
INVARIANTS EachApplies LockReleased CountedOnce
CHECK_DEADLOCK FALSE
