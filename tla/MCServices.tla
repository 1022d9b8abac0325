----------------------------- MODULE MCServices -----------------------------
(* Services and Traffic with the settings of the pages reduced to the      *)
(* cases the helpers tell apart.                                           *)
EXTENDS Traffic, TLC

CONSTANTS p1, p2, g1, g2

Symmetry == Permutations(Procs) \cup Permutations(Aggregators)

MCCalls == [s \in Services |-> CASE s = "squid" -> 4 [] s = "accounting" -> 2 [] OTHER -> 3]
MCWorld == [s \in Services |-> IF s = "accounting" THEN 0 ELSE 1]
MCCuts  == [s \in Services |-> IF s = "squid" THEN 0 ELSE 1]   \* it leaves nothing on disk

Set(on, via) == [on |-> on, via |-> via]
Line(kind, on, name) == [kind |-> kind, on |-> on, name |-> name]

MCSaveable ==
  [s \in Services |->
    CASE s = "squid"    -> {Set({}, {"GREEN"}), Set({"GREEN", "BLUE"}, {"GREEN", "BLUE"}), Set({"GREEN", "OVPN"}, {"OVPN"})}
      [] s = "ntpd"     -> {Set({}, {}), Set({"GREEN"}, {}), Set({"GREEN"}, {"GREEN"})}
      [] s = "openvpn"  -> {Set({}, {}), Set({"RED"}, {}), Set({"RED", "BLUE"}, {})}
      [] s = "sshd"     -> {Set({}, {}), Set({"GREEN"}, {}), Set({"GREEN"}, {"keys"})}
      [] s = "rsyslogd" -> {Set({"GREEN"}, {}), Set({"GREEN"}, {"remote"})}
      [] s = "dnsmasq"  -> {Set({"GREEN"}, {}), Set({"GREEN", "BLUE"}, {"host"})}
      [] s = "shaping"  -> {[on |-> {}, via |-> {}, up |-> 512, down |-> 0, lines |-> <<>>],
                            [on |-> {"RED"}, via |-> {}, up |-> 512, down |-> 2000,
                             lines |-> <<Line("ok", TRUE, "a"), Line("ok", FALSE, "b"), Line("short", TRUE, "c")>>],
                            [on |-> {"RED"}, via |-> {}, up |-> 2, down |-> 2, lines |-> <<Line("ok", TRUE, "a"), Line("bad", TRUE, "b")>>],
                            [on |-> {"RED"}, via |-> {}, up |-> 0, down |-> 0, lines |-> <<>>]}
      [] s = "aliases"  -> {[on |-> {}, via |-> {}, lines |-> <<>>],
                            [on |-> {}, via |-> {}, lines |-> <<Line("ok", TRUE, "a"), Line("ok", FALSE, "b"), Line("ok", TRUE, "c")>>],
                            [on |-> {}, via |-> {}, lines |-> <<Line("ok", TRUE, "c"), Line("bad", TRUE, "b"), Line("ok", TRUE, "a")>>]}
      [] s = "accounting" -> {Set({}, {"High"}), Set({"GREEN"}, {"High"}), Set({"GREEN"}, {})}
      [] s = "email"    -> {Set({}, {}), Set({"server"}, {})}]
=============================================================================
