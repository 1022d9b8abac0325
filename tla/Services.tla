------------------------------ MODULE Services ------------------------------
(***************************************************************************)
(* The setuid helpers the web pages, the boot scripts and rc.updatered run *)
(* to make a saved setting take effect: restartsquid, restartntpd,         *)
(* openvpnctrl, restartssh, restartsyslogd, restartdhcp, rebuildhosts,     *)
(* restartshaping, setaliases and emailhelper.                             *)
(*                                                                         *)
(* A helper reads the settings, stops what runs by its pid file, starts it *)
(* again and sets its rules.  Nothing but an O_EXCL file of two of them    *)
(* keeps two copies apart: rc.updatered calls helpers, one of them in the  *)
(* background, whenever RED comes up, while pages call them as well.  A    *)
(* step of the model is one command or the look at one file.               *)
(*                                                                         *)
(* The services share nothing but the card settings and RED, so a          *)
(* behaviour is about one of them, svc.                                    *)
(***************************************************************************)
EXTENDS Integers, SequencesExt

CONSTANTS
  Services,     \* the services there are
  Saveable,      \* the settings a page may save, per service
  Messages,     \* texts that may be mailed
  IpsecNets,    \* remote networks of the enabled net-to-net connections
  IpsecOn,      \* cards IPsec is enabled on, RED_1 and BLUE_1
  Addresses,    \* addresses RED may get
  Procs,        \* helpers that may run at once
  None, Blank,  \* no value; a settings file that is truncated
  MaxCalls,     \* bound: calls of helpers, per service
  MaxWorld,     \* bound: daemons that fail and cards removed, per service
  MaxCuts       \* bound: power failures, per service

ASSUME ServicesAssumption ==
  /\ Services \subseteq {"squid", "ntpd", "openvpn", "sshd", "rsyslogd", "dnsmasq", "shaping", "aliases",
                          "email", "accounting"}
  /\ DOMAIN Saveable = Services
  /\ IsFiniteSet(IpsecNets)                  \* lines of ipsec's config
  /\ None \notin Addresses \cup IpsecNets \cup Messages \cup {"rednet", "any"}
  /\ "any" \notin Addresses \cup IpsecNets
  /\ \A s \in Services : None \notin Saveable[s] /\ Blank \notin Saveable[s]
  /\ {MaxCalls, MaxWorld, MaxCuts} \subseteq [Services -> Nat]

VARIABLES
  svc,       \* the service this behaviour is about
  settings,  \* its settings file
  eth,       \* ethernet/settings and red/: [cards, static, red]
  daemon,    \* "off", "on", or "stopping": it got SIGTERM and has not ended
  pid,       \* its pid file is there
  loaded,    \* the configuration it runs with; for mail, the text sent
  chain,     \* what is set in the kernel, in order
  file,      \* the file the helper writes: sshd_config, hosts, the mail
  lock,      \* the O_EXCL copy next to it is there
  once,      \* /var/run/ntpdate-red
  pc, arg, cfg, net, \* per helper: where it is, its option, what it has read
  clean,     \* history: nothing disturbed it and it began in no trap
  calls, world, cuts

files  == <<settings, eth>>
kernel == <<daemon, pid, loaded, chain>>
disk   == <<file, lock, once>>
own    == <<arg, cfg, net>>
bounds == <<calls, world, cuts>>
vars   == <<svc, files, kernel, disk, pc, own, clean, bounds>>

Busy(p)  == pc[p] # "idle"
Disturb  == clean' = [p \in Procs |-> FALSE]
Spoil(p) == clean' = [clean EXCEPT ![p] = FALSE]
Go(p, next) == pc' = [pc EXCEPT ![p] = next]
At(p, s, here) == svc = s /\ pc[p] = here

\* test_kv(kv, "ENABLED...", "on"); in a truncated file no key is found.
Enabled(s) == s # Blank /\ s.on # {}
Via(s)     == IF s = Blank THEN {} ELSE s.via

-----------------------------------------------------------------------------
(* Calls *)

\* What the helpers cannot put right: a stale pid file makes openvpnctrl and
\* restartntpd give up and accountingctrl believe vnstatd runs, rules without
\* a pid file are never flushed, a daemon without one never stopped nor waited
\* for, and a leftover .new file refuses every run.
Trap ==
  \/ svc \in {"openvpn", "ntpd", "accounting"} /\ pid /\ daemon # "on"
  \/ svc \in {"squid", "ntpd"} /\ ~pid /\ chain # <<>>
  \/ ~pid /\ daemon # "off"
  \/ lock

Init ==
  /\ svc \in Services
  /\ settings \in Saveable[svc]
  /\ eth \in [cards : {{"GREEN", "BLUE"}}, static : IF svc \in {"squid", "aliases"} THEN BOOLEAN ELSE {FALSE},
             red : {None}]                \* others do not look at RED's type
  /\ daemon = "off" /\ pid = FALSE /\ loaded = None /\ chain = <<>>
  /\ file = None /\ lock = FALSE /\ once = TRUE
  /\ pc = [p \in Procs |-> "idle"]
  /\ arg = [p \in Procs |-> None] /\ cfg = arg /\ net = arg
  /\ clean = [p \in Procs |-> FALSE]
  /\ calls = 0 /\ world = 0 /\ cuts = 0

Enter(p, a) ==
  /\ Go(p, "begin")
  /\ arg' = [arg EXCEPT ![p] = a]
  /\ clean' = [q \in Procs |-> q = p /\ ~Trap /\ \A r \in Procs \ {p} : ~Busy(r)]

\* The options of the calls in the pages, in rc.sysinit and at the console.
Options ==
  CASE svc = "openvpn" -> {"start", "stop", "restart"}
    [] svc = "dnsmasq" -> {"restart", "sighup", "boot", "hosts", "hostsrestart"}
    [] svc = "email"   -> Messages
    [] svc = "accounting" -> {"restart", "emptyulogd", "emptyall"}
    [] OTHER           -> {"restart"}

Counted == calls < MaxCalls[svc] /\ calls' = calls + 1 /\ UNCHANGED <<world, cuts>>

Call(p, a) ==
  /\ ~Busy(p) /\ Counted /\ a \in Options
  /\ Enter(p, a)
  /\ UNCHANGED <<svc, files, kernel, disk, cfg, net>>

\* writehash: open truncates the file, then the lock is taken and the lines
\* written.
Save(p, s) ==
  /\ ~Busy(p) /\ Counted /\ svc # "email"
  /\ settings' = Blank
  /\ cfg' = [cfg EXCEPT ![p] = s]
  /\ Go(p, "save") /\ Disturb
  /\ UNCHANGED <<svc, eth, kernel, disk, arg, net>>

Saved(p) ==
  /\ pc[p] = "save"
  /\ settings' = cfg[p]
  /\ \E a \in Options \ {"boot", "emptyulogd", "emptyall"} : Enter(p, a)
  /\ UNCHANGED <<svc, eth, kernel, disk, cfg, net, bounds>>

\* rc.updatered up: the address is in red/local-ipaddress, then the helpers.
RedOption == [squid |-> "test", ntpd |-> "red", shaping |-> "restart", aliases |-> "restart",
              accounting |-> "restart"]

RedUp(p, a) ==
  /\ ~Busy(p) /\ Counted /\ a # eth.red
  /\ svc \in DOMAIN RedOption
  /\ eth' = [eth EXCEPT !.red = a]
  /\ chain' = IF svc = "shaping" THEN <<>> ELSE chain   \* a new interface
  /\ Enter(p, RedOption[svc])
  /\ UNCHANGED <<svc, settings, daemon, pid, loaded, disk, cfg, net>>

\* rc.updatered down calls setaliases only.
RedDown(p) ==
  /\ ~Busy(p) /\ Counted /\ eth.red # None
  /\ eth' = [eth EXCEPT !.red = None]
  /\ chain' = IF svc = "shaping" THEN <<>> ELSE chain
  /\ IF svc = "aliases" THEN Enter(p, "restart") ELSE UNCHANGED <<pc, arg>> /\ Disturb
  /\ UNCHANGED <<svc, settings, daemon, pid, loaded, disk, cfg, net>>

\* exit or return; what calls the helper goes on.
Done(p) == Go(p, "done")

Return(p) ==
  /\ pc[p] = "done"
  /\ Go(p, "idle") /\ Spoil(p)
  /\ arg' = [arg EXCEPT ![p] = None] /\ cfg' = [cfg EXCEPT ![p] = None]
  /\ net' = [net EXCEPT ![p] = None]
  /\ UNCHANGED <<svc, files, kernel, disk, bounds>>

\* read_kv_from_file and read_ethernet_settings.
Read(p) == cfg' = [cfg EXCEPT ![p] = settings] /\ net' = [net EXCEPT ![p] = eth] /\ UNCHANGED arg

\* mysignalpidfile(SIGTERM): FAILURE without a process of that number.
Signalled == pid /\ daemon # "off"

\* The signal is sent, nobody waits for what it does.
Terminate == daemon' = IF Signalled THEN "stopping" ELSE daemon

\* A daemon keeps its port until it has ended; a second copy gives up.
Launch(with) ==
  IF daemon = "off" THEN daemon' = "on" /\ pid' = TRUE /\ loaded' = with
  ELSE UNCHANGED <<daemon, pid, loaded>>

\* A helper that starts a daemon, and one that finds the old one ending.
Started(p, with) ==
  /\ Launch(with)
  /\ IF daemon = "stopping" THEN Spoil(p) ELSE UNCHANGED clean
NotStarted == UNCHANGED <<daemon, pid, loaded, clean>>

-----------------------------------------------------------------------------
(* restartsquid *)

restartsquid(p) ==
  /\ At(p, "squid", "begin")
  /\ IF pid
     THEN /\ chain' = <<>>
          /\ daemon' = IF daemon = "on" THEN "stopping" ELSE daemon
          /\ Go(p, "wait")
     ELSE Go(p, IF arg[p] = "test" THEN "done" ELSE "read") /\ UNCHANGED <<chain, daemon>>
  /\ UNCHANGED <<svc, files, pid, loaded, disk, own, clean, bounds>>

squidGone(p) ==
  /\ At(p, "squid", "wait") /\ ~pid
  /\ Go(p, "read")
  /\ UNCHANGED <<svc, files, kernel, disk, own, clean, bounds>>

\* Fifteen seconds later: killall -9.
squidKill(p) ==
  /\ At(p, "squid", "wait") /\ pid
  /\ daemon' = "off"
  /\ Go(p, "unlink")
  /\ UNCHANGED <<svc, files, pid, loaded, chain, disk, own, clean, bounds>>

squidUnlink(p) ==
  /\ At(p, "squid", "unlink")
  /\ pid' = FALSE
  /\ Go(p, "read")
  /\ UNCHANGED <<svc, files, daemon, loaded, chain, disk, own, clean, bounds>>

\* The cache is emptied or repaired, then the settings are read.
squidRead(p) ==
  /\ At(p, "squid", "read")
  /\ Read(p)
  /\ Go(p, IF Enabled(settings) THEN "start" ELSE "done")
  /\ UNCHANGED <<svc, files, kernel, disk, clean, bounds>>

\* squid.conf is missing, or ethernet/settings cannot be read.
squidReadFails(p) ==
  /\ At(p, "squid", "read") /\ world < MaxWorld[svc]
  /\ world' = world + 1 /\ Spoil(p)
  /\ Read(p) /\ Done(p)
  /\ UNCHANGED <<svc, files, kernel, disk, calls, cuts>>

\* Cards of transparent colours have to exist; tun0 is not looked for.
Missing(p) == (cfg[p].on \cap cfg[p].via \cap {"GREEN", "BLUE"}) \ net[p].cards # {}

\* setfwrules --ipcop, swap directories, squid -s.
squidStart(p) ==
  /\ At(p, "squid", "start")
  /\ Launch(settings)
  /\ Go(p, IF Missing(p) THEN "done" ELSE "rules")
  /\ UNCHANGED <<svc, files, chain, disk, own, clean, bounds>>

\* A bad squid.conf: squid ends at once, the helper goes on.
squidStartFails(p) ==
  /\ At(p, "squid", "start") /\ daemon = "off" /\ world < MaxWorld[svc]
  /\ world' = world + 1 /\ Spoil(p)
  /\ Go(p, IF Missing(p) THEN "done" ELSE "rules")
  /\ UNCHANGED <<svc, files, kernel, disk, own, calls, cuts>>

Rule(from, to, what) == [from |-> from, to |-> to, what |-> what]

\* RED's network if its type is STATIC, else its address if it has one.
Destination(e) == IF e.static THEN "rednet" ELSE e.red

Direct(c, dests) == SetToSeq({Rule(c, d, "direct") : d \in dests \ {None}})

\* RED's own network is reached directly, everything else is redirected.
Transparent(p, c) ==
  IF c \in cfg[p].on \cap cfg[p].via
  THEN Direct(c, {Destination(net[p])}) \o <<Rule(c, "any", "redirect")>> ELSE <<>>

\* Remote IPsec networks are reached directly, if IPsec is enabled at all.
Tunnelled == IF IpsecOn = {} THEN {} ELSE IpsecNets
setdirectipsec(p, c) == IF c \in cfg[p].on \cap cfg[p].via THEN Direct(c, Tunnelled) ELSE <<>>

squidRulesLast(p) ==                       \* mutant: bypass after the redirect
  /\ At(p, "squid", "rules")
  /\ chain' = chain \o Transparent(p, "GREEN") \o Transparent(p, "BLUE")
                    \o Transparent(p, "OVPN") \o setdirectipsec(p, "GREEN") \o setdirectipsec(p, "BLUE")
  /\ Done(p)
  /\ UNCHANGED <<svc, files, daemon, pid, loaded, disk, own, clean, bounds>>

squidRules(p) ==
  /\ At(p, "squid", "rules")
  /\ chain' = chain \o setdirectipsec(p, "GREEN") \o setdirectipsec(p, "BLUE")
                    \o Transparent(p, "GREEN") \o Transparent(p, "BLUE") \o Transparent(p, "OVPN")
  /\ Done(p)
  /\ UNCHANGED <<svc, files, daemon, pid, loaded, disk, own, clean, bounds>>

\* ipsec/settings cannot be read: no rules at all.
squidRulesFail(p) ==
  /\ At(p, "squid", "rules") /\ world < MaxWorld[svc]
  /\ world' = world + 1 /\ Spoil(p)
  /\ Done(p)
  /\ UNCHANGED <<svc, files, kernel, disk, own, calls, cuts>>

-----------------------------------------------------------------------------
(* restartntpd *)

\* Everything is read before ntpd is stopped; --red runs once per boot.
restartntpd(p) ==
  /\ At(p, "ntpd", "begin")
  /\ IF arg[p] = "red" /\ ~once THEN Done(p) /\ UNCHANGED own ELSE Go(p, "stop") /\ Read(p)
  /\ once' = (once /\ arg[p] # "red")
  /\ UNCHANGED <<svc, files, kernel, file, lock, clean, bounds>>

\* The chain is flushed and ntpd signalled if its pid file is there, the file
\* removed; a signal that fails ends the helper and keeps the file.  A second
\* is slept before ntpd is started, whether the old one has ended or not.
ntpdStop(p) ==
  /\ At(p, "ntpd", "stop")
  /\ chain' = IF pid THEN <<>> ELSE chain
  /\ Terminate
  /\ pid' = (pid /\ ~Signalled)
  /\ Go(p, IF pid /\ ~Signalled THEN "done" ELSE "start")
  /\ UNCHANGED <<svc, files, loaded, disk, own, clean, bounds>>

\* ntpdate with --red or --force, then ntpd, then the redirect rules.
ntpdStart(p) ==
  /\ At(p, "ntpd", "start")
  /\ IF Enabled(cfg[p]) THEN Started(p, settings) ELSE NotStarted
  /\ chain' = IF Enabled(cfg[p]) /\ Via(cfg[p]) # {}
              THEN chain \o SetToSeq({Rule(c, "any", "redirect") : c \in net[p].cards}) ELSE chain
  /\ Done(p)
  /\ UNCHANGED <<svc, files, disk, own, bounds>>

-----------------------------------------------------------------------------
(* openvpnctrl *)

\* As restartntpd does, with a second slept before a start.
openvpnctrl(p) ==
  /\ At(p, "openvpn", "begin")
  /\ Terminate
  /\ pid' = (pid /\ ~Signalled)
  /\ Go(p, IF pid /\ ~Signalled THEN "done" ELSE "read")
  /\ UNCHANGED <<svc, files, loaded, chain, disk, own, clean, bounds>>

\* An enabled card that is missing ends the helper, RED may be a modem.
openvpnRead(p) ==
  /\ At(p, "openvpn", "read")
  /\ Read(p)
  /\ Go(p, IF Enabled(settings) /\ settings.on \ ({"RED"} \cup eth.cards) # {} THEN "done" ELSE "start")
  /\ UNCHANGED <<svc, files, kernel, disk, clean, bounds>>

\* openvpn unless --stop, then setfwrules --ipcop.
openvpnStart(p) ==
  /\ At(p, "openvpn", "start")
  /\ IF Enabled(cfg[p]) /\ arg[p] # "stop" THEN Started(p, settings) ELSE NotStarted
  /\ Done(p)
  /\ UNCHANGED <<svc, files, chain, disk, own, bounds>>

-----------------------------------------------------------------------------
(* restartssh and restartsyslogd *)

Edited == {"sshd", "rsyslogd"}

\* open(".new", O_CREAT | O_EXCL); restartsyslogd looks for its keys first.
Open(p) ==
  /\ svc \in Edited /\ pc[p] = "begin"
  /\ Read(p)
  /\ LET refused == lock \/ (svc = "rsyslogd" /\ settings = Blank)
     IN  lock' = (lock \/ ~refused) /\ Go(p, IF refused THEN "done" ELSE "sed")
  /\ UNCHANGED <<svc, files, kernel, file, once, clean, bounds>>

\* sed writes the copy, rename puts it in place.
Sed(p) ==
  /\ svc \in Edited /\ pc[p] = "sed"
  /\ file' = Via(cfg[p]) /\ lock' = FALSE
  /\ Go(p, "stop")
  /\ UNCHANGED <<svc, files, kernel, once, own, clean, bounds>>

SedKeeps(p) ==                             \* mutant: the copy is not removed
  /\ svc \in Edited /\ pc[p] = "sed" /\ world < MaxWorld[svc]
  /\ world' = world + 1
  /\ Done(p) /\ Spoil(p)
  /\ UNCHANGED <<svc, files, kernel, disk, own, calls, cuts>>

\* sed or rename fails: the copy is removed.
SedFails(p) ==
  /\ svc \in Edited /\ pc[p] = "sed" /\ world < MaxWorld[svc]
  /\ world' = world + 1 /\ lock' = FALSE
  /\ Done(p) /\ Spoil(p)
  /\ UNCHANGED <<svc, files, kernel, file, once, own, calls, cuts>>

\* restartssh keeps the pid file when the signal fails, restartsyslogd does
\* not look at the result.  Both go on at once.
Stop(p) ==
  /\ svc \in Edited /\ pc[p] = "stop"
  /\ Terminate
  /\ pid' = (pid /\ ~Signalled /\ svc = "sshd")
  /\ Go(p, "start")
  /\ UNCHANGED <<svc, files, loaded, chain, disk, own, clean, bounds>>

StartEdited(p) ==
  /\ svc \in Edited /\ pc[p] = "start"
  /\ IF svc = "rsyslogd" \/ Enabled(cfg[p]) THEN Started(p, file) ELSE NotStarted
  /\ Done(p)
  /\ UNCHANGED <<svc, files, chain, disk, own, bounds>>

-----------------------------------------------------------------------------
(* restartdhcp and rebuildhosts *)

\* restartdhcp: a card enabled and missing ends it.
restartdhcp(p) ==
  /\ At(p, "dnsmasq", "begin") /\ arg[p] \in {"restart", "sighup", "boot"}
  /\ Read(p)
  /\ Go(p, IF arg[p] = "boot" \/ (Enabled(settings) /\ settings.on \ eth.cards # {}) THEN "done" ELSE "tell")
  /\ UNCHANGED <<svc, files, kernel, disk, clean, bounds>>

\* rebuildhosts: /etc/hosts is truncated, then written line by line.
rebuildhosts(p) ==
  /\ At(p, "dnsmasq", "begin") /\ arg[p] \in {"hosts", "hostsrestart"}
  /\ Read(p)
  /\ file' = Blank
  /\ Go(p, "write")
  /\ UNCHANGED <<svc, files, kernel, lock, once, clean, bounds>>

hostsWritten(p) ==
  /\ At(p, "dnsmasq", "write")
  /\ file' = Via(cfg[p])
  /\ Go(p, "tell")
  /\ UNCHANGED <<svc, files, kernel, lock, once, own, clean, bounds>>

\* rc.dnsmasq --restart, or --sighup to one that runs: /etc/hosts is read.
dnsmasqTold(p) ==
  /\ At(p, "dnsmasq", "tell")
  /\ IF arg[p] \in {"restart", "hostsrestart"}
     THEN daemon' = "on" /\ pid' = TRUE /\ loaded' = file
     ELSE loaded' = (IF Signalled THEN file ELSE loaded) /\ UNCHANGED <<daemon, pid>>
  /\ Done(p)
  /\ UNCHANGED <<svc, files, chain, disk, own, clean, bounds>>

-----------------------------------------------------------------------------
(* restartshaping *)

\* Lines up to the first that ends the loop.
Before(lines, ends) == SelectInSeq(lines, LAMBDA l : l.kind \in ends)
Upto(lines, ends) ==
  IF Before(lines, ends) = 0 THEN lines ELSE SubSeq(lines, 1, Before(lines, ends) - 1)

\* Rates in kbit: 1:1 has the whole, 1:10, 1:20 and 1:30 eight, six and four
\* tenths of it.
Classes(s) ==
  LET up == (s.up * 100) \div 101
  IN  << Rule("root", "r2q", (s.up * 1024) \div 16384), Rule("1:1", "rate", up),
         Rule("1:10", "rate", (8 * up) \div 10), Rule("1:20", "rate", (6 * up) \div 10),
         Rule("1:30", "rate", (4 * up) \div 10) >>

\* Enabled rules up to a short line; a bad line ends the program.
Filters(s) ==
  LET lines == SelectSeq(Upto(s.lines, {"short", "bad"}), LAMBDA l : l.on)
      down  == (s.down * 200) \div 201
      bad   == \E i \in 1 .. Len(s.lines) :
                  s.lines[i].kind = "bad" /\ \A j \in 1 .. i - 1 : s.lines[j].kind = "ok"
  IN  [i \in 1 .. Len(lines) |-> Rule("filter", lines[i].name, 1)]
      \o IF bad THEN <<>>
         ELSE <<Rule("filter", "default", 20)>> \o IF down > 0 THEN <<Rule("ingress", "police", down)>> ELSE <<>>

\* VALID=yes and an interface of RED are needed.
restartshaping(p) ==
  /\ At(p, "shaping", "begin")
  /\ Read(p)
  /\ Go(p, IF settings = Blank \/ eth.red = None THEN "done" ELSE "delete")
  /\ UNCHANGED <<svc, files, kernel, disk, clean, bounds>>

\* UPLINK is a number above 0, DOWNLINK one that is not below.
Rated(s) == Enabled(s) /\ s.up > 0 /\ s.down >= 0

\* The old classes go first, then ENABLE and the rates are looked at.
shapingDelete(p) ==
  /\ At(p, "shaping", "delete")
  /\ chain' = <<>>
  /\ Go(p, IF Rated(cfg[p]) THEN "add" ELSE "done")
  /\ UNCHANGED <<svc, files, daemon, pid, loaded, disk, own, clean, bounds>>

\* A root that is there already is not replaced.
shapingAdd(p) ==
  /\ At(p, "shaping", "add")
  /\ chain' = IF chain = <<>> THEN Classes(cfg[p]) ELSE chain
  /\ Go(p, "filters")
  /\ UNCHANGED <<svc, files, daemon, pid, loaded, disk, own, clean, bounds>>

shapingFilters(p) ==
  /\ At(p, "shaping", "filters")
  /\ chain' = chain \o Filters(cfg[p])
  /\ Done(p)
  /\ UNCHANGED <<svc, files, daemon, pid, loaded, disk, own, clean, bounds>>

-----------------------------------------------------------------------------
(* setaliases *)

Aliased(s, e) ==
  IF s = Blank \/ e.red = None \/ ~e.static THEN <<>>
  ELSE SelectSeq(Upto(s.lines, {"bad"}), LAMBDA l : l.on)

setaliases(p) ==
  /\ At(p, "aliases", "begin")
  /\ Read(p)
  /\ chain' = <<>>
  /\ Go(p, "add")
  /\ UNCHANGED <<svc, files, daemon, pid, loaded, disk, clean, bounds>>

\* ip addr add refuses an address that is there.
aliasesAdd(p) ==
  /\ At(p, "aliases", "add")
  /\ chain' = IF chain = <<>> THEN Aliased(settings, net[p])
              ELSE chain \o SelectSeq(Aliased(settings, net[p]), LAMBDA l : ~Contains(chain, l))
  /\ Done(p)
  /\ UNCHANGED <<svc, files, daemon, pid, loaded, disk, own, clean, bounds>>

-----------------------------------------------------------------------------
(* emailhelper *)

\* Server, port, user, password, sender and receiver are all valid; the model
\* has one bit for them.
Mailable(s) == Enabled(s)

\* Placeholders are replaced by sed, into /tmp/email.msg.tmp for every message.
emailhelper(p) ==
  /\ At(p, "email", "begin")
  /\ file' = IF Mailable(settings) THEN arg[p] ELSE file
  /\ Go(p, IF Mailable(settings) THEN "send" ELSE "done")
  /\ UNCHANGED <<svc, files, kernel, lock, once, own, clean, bounds>>

emailSent(p) ==
  /\ At(p, "email", "send") /\ file # None
  /\ loaded' = file
  /\ Go(p, "unlink")
  /\ UNCHANGED <<svc, files, daemon, pid, chain, disk, own, clean, bounds>>

\* The file has gone, or the server does not answer: it stays behind.
emailNotSent(p) ==
  /\ At(p, "email", "send")
  /\ file = None \/ world < MaxWorld[svc]
  /\ world' = IF file = None THEN world ELSE world + 1
  /\ Done(p) /\ Spoil(p)
  /\ UNCHANGED <<svc, files, kernel, disk, own, calls, cuts>>

emailUnlink(p) ==
  /\ At(p, "email", "unlink")
  /\ file' = None
  /\ Done(p)
  /\ UNCHANGED <<svc, files, kernel, lock, once, own, clean, bounds>>

-----------------------------------------------------------------------------
(* The world *)

\* A daemon that was told to stop ends and removes its pid file, if nobody has.
Ends ==
  /\ daemon = "stopping"
  /\ daemon' = "off" /\ pid' = FALSE
  /\ UNCHANGED <<svc, files, loaded, chain, disk, pc, own, clean, bounds>>

\* A daemon dies and leaves its pid file.
Dies ==
  /\ world < MaxWorld[svc] /\ daemon = "on"
  /\ world' = world + 1
  /\ daemon' = "off" /\ Disturb
  /\ UNCHANGED <<svc, files, pid, loaded, chain, disk, pc, own, calls, cuts>>

\* setup takes the BLUE card out.
CardGone ==
  /\ world < MaxWorld[svc] /\ "BLUE" \in eth.cards
  /\ world' = world + 1
  /\ eth' = [eth EXCEPT !.cards = {"GREEN"}] /\ Disturb
  /\ UNCHANGED <<svc, settings, kernel, disk, pc, own, calls, cuts>>

\* Power failure and boot: pid files are removed, files on disk stay.
PowerFails ==
  /\ cuts < MaxCuts[svc] /\ cuts' = cuts + 1
  /\ daemon' = "off" /\ pid' = FALSE /\ loaded' = None /\ chain' = <<>>
  /\ eth' = [eth EXCEPT !.red = None] /\ once' = TRUE
  /\ pc' = [p \in Procs |-> "idle"] /\ Disturb
  /\ arg' = [p \in Procs |-> None] /\ cfg' = arg' /\ net' = arg'
  /\ UNCHANGED <<svc, settings, file, lock, calls, world>>

Squid(p)   == \/ restartsquid(p) \/ squidGone(p) \/ squidKill(p) \/ squidUnlink(p)
              \/ squidRead(p) \/ squidReadFails(p) \/ squidStart(p) \/ squidStartFails(p)
              \/ squidRules(p) \/ squidRulesFail(p)
Ntpd(p)    == restartntpd(p) \/ ntpdStop(p) \/ ntpdStart(p)
Openvpn(p) == openvpnctrl(p) \/ openvpnRead(p) \/ openvpnStart(p)
Editing(p) == Open(p) \/ Sed(p) \/ SedFails(p) \/ Stop(p) \/ StartEdited(p)
Dnsmasq(p) == restartdhcp(p) \/ rebuildhosts(p) \/ hostsWritten(p) \/ dnsmasqTold(p)
Shaping(p) == restartshaping(p) \/ shapingDelete(p) \/ shapingAdd(p) \/ shapingFilters(p)
Aliases(p) == setaliases(p) \/ aliasesAdd(p)
Email(p)   == emailhelper(p) \/ emailSent(p) \/ emailNotSent(p) \/ emailUnlink(p)

\* Everything but a power failure.
Quiet ==
  \/ \E p \in Procs :
       \/ \E a \in Options : Call(p, a)
       \/ \E s \in Saveable[svc] : Save(p, s)
       \/ Saved(p) \/ RedDown(p) \/ Return(p)
       \/ \E a \in Addresses : RedUp(p, a)
       \/ Squid(p) \/ Ntpd(p) \/ Openvpn(p) \/ Editing(p)
       \/ Dnsmasq(p) \/ Shaping(p) \/ Aliases(p) \/ Email(p)
  \/ Ends \/ Dies \/ CardGone

Next == Quiet \/ PowerFails

Spec == Init /\ [][Next]_vars

-----------------------------------------------------------------------------
(* Properties *)

\* What the first rule that fits does with a packet.
Verdict(from, to) ==
  LET fits == {i \in 1 .. Len(chain) : chain[i].from = from /\ chain[i].to \in {to, "any"}}
  IN  IF fits = {} THEN "direct" ELSE chain[CHOOSE i \in fits : \A j \in fits : i <= j].what

Redirected(from, to) ==
  /\ from \in settings.on \cap settings.via
  /\ (settings.on \cap settings.via \cap {"GREEN", "BLUE"}) \subseteq eth.cards
  /\ to # Destination(eth)
  /\ ~(from # "OVPN" /\ to \in Tunnelled)

SquidApplied ==
  /\ daemon = IF Enabled(settings) THEN "on" ELSE "off"
  /\ Enabled(settings) => loaded = settings
  /\ \A from \in {"GREEN", "BLUE", "OVPN"}, to \in Addresses \cup IpsecNets \cup {"rednet", "any"} :
        (Verdict(from, to) = "redirect") <=> Enabled(settings) /\ Redirected(from, to)

\* A daemon that is not wanted has ended or was told to.
NtpdApplied ==
  /\ daemon = "on" <=> Enabled(settings)
  /\ Enabled(settings) => loaded = settings
  /\ \A c \in {"GREEN", "BLUE"} :
        (Verdict(c, "any") = "redirect") <=> Enabled(settings) /\ settings.via # {} /\ c \in eth.cards

OpenvpnApplied(a) ==
  LET starts == Enabled(settings) /\ a # "stop" /\ settings.on \subseteq {"RED"} \cup eth.cards
  IN  (daemon = "on" <=> starts) /\ (starts => loaded = settings)

Applied(p) ==
  CASE svc = "squid"    -> IF cfg[p] = None THEN daemon = "off" /\ chain = <<>> ELSE SquidApplied
    [] svc = "ntpd"     -> cfg[p] # None => NtpdApplied
    [] svc = "openvpn"  -> OpenvpnApplied(arg[p])
    [] svc = "sshd"     -> /\ file = settings.via /\ (daemon = "on" <=> Enabled(settings))
                           /\ daemon = "on" => loaded = file
    [] svc = "rsyslogd" -> file = settings.via /\ daemon = "on" /\ loaded = file
    [] svc = "dnsmasq"  -> /\ arg[p] \in {"hosts", "hostsrestart"} => file = settings.via
                           /\ daemon = "on" /\ arg[p] # "boot" /\ settings.on \subseteq eth.cards => loaded = file
    [] svc = "shaping"  -> eth.red # None => chain = IF Rated(settings)
                                                    THEN Classes(settings) \o Filters(settings) ELSE <<>>
    [] svc = "aliases"  -> chain = Aliased(settings, eth)
    [] svc = "email"    -> Mailable(settings) => loaded = arg[p]
    [] svc = "accounting" -> TRUE       \* see module Traffic

\* When a helper returns that nothing disturbed while it ran - no other
\* helper, change of settings, of RED or of the cards, no daemon that failed,
\* none that was still ending when the helper started the next - the system is
\* as the settings say: the daemon runs, or not, with the configuration that was
\* saved, and packets are redirected as they should.  This holds from whatever
\* earlier helpers that overlapped, daemons that died and power failures have
\* left, except for the four leftovers of Trap.
Applies ==
  \A p \in Procs : pc[p] = "done" /\ clean[p] /\ settings # Blank => Applied(p)

\* Every way out of restartssh and restartsyslogd removes the copy that keeps
\* others out: it is there only while one of them, and only one, edits, or
\* after a power failure.
LockReleased ==
  svc \in Edited /\ cuts = 0 =>
    /\ lock <=> \E p \in Procs : pc[p] = "sed"
    /\ \A p, q \in Procs : pc[p] = "sed" /\ pc[q] = "sed" => p = q

=============================================================================
