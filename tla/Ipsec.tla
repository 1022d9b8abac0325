------------------------------- MODULE Ipsec -------------------------------
(***************************************************************************)
(* IPsec: the web page ipsec.cgi, the setuid helper ipsecctrl, the watch   *)
(* script vpn-watch and the background calls of rc.updatered.              *)
(*                                                                         *)
(* Nothing here takes a lock.  The page edits /var/ipcop/ipsec/config,     *)
(* writes ipsec.conf from it and runs ipsecctrl in the foreground; a RED   *)
(* line that goes up or down runs ipsecctrl in the background.  ipsecctrl  *)
(* stops the watchers, looks at settings and config, talks to pluto, and   *)
(* starts the watchers again.  A process is one browser request or one     *)
(* background job; each file or daemon it touches is a step of its own.    *)
(*                                                                         *)
(* pluto is external: it loads the connections of ipsec.conf when it is    *)
(* started, it resolves the name of a peer when it loads a connection, and *)
(* it forgets everything when it is stopped.                               *)
(***************************************************************************)
EXTENDS Integers, FiniteSets

CONSTANTS
  Conns,      \* keys of /var/ipcop/ipsec/config
  Net,        \* those of type net (the others are of type host)
  Dynamic,    \* those whose peer is given by a name
  OnBlue,     \* those with INTERFACE = BLUE (the others: RED)
  Admins,     \* browser requests that may run at once
  Jobs,       \* background runs of ipsecctrl that may exist at once
  Watchers,   \* slots for the children of vpn-watch
  Addrs,      \* addresses a name can resolve to
  NoAddr,     \* no answer from the name server
  None,
  GuiOps,     \* what the administrator does
  RedDevice,  \* TRUE: RED has been up before, red/iface is there
  MaxClicks,  \* bound: clicks
  MaxRed,     \* bound: RED going up or down
  MaxDns,     \* bound: changes of the name service
  MaxSetup    \* bound: runs of setup that remove the BLUE card

ASSUME IpsecAssumption ==
  /\ Net \subseteq Conns /\ Dynamic \subseteq Conns /\ OnBlue \subseteq Conns
  /\ Admins \cap Jobs = {}
  /\ NoAddr \notin Addrs /\ Addrs # {}
  /\ None \notin Conns
  /\ GuiOps \subseteq {"save", "toggle", "restart", "remove", "edit", "disable"}
  /\ RedDevice \in BOOLEAN
  /\ {MaxClicks, MaxRed, MaxDns, MaxSetup} \subseteq Nat

Colours == {"RED", "BLUE"}
Procs   == Admins \cup Jobs
Rows    == {"none", "off", "on"}

VARIABLES
  config,     \* /var/ipcop/ipsec/config: row of each key
  conf,       \* connections written to ipsec.conf
  enabled,    \* settings: interfaces with ENABLED_x_1=on
  vpnwatch,   \* settings: VPN_WATCH=on
  cards,      \* ethernet/settings: colours with a card
  fw,         \* colours the rules of FW_IPCOP were made to accept IPsec on
  opened,     \* those a puzzleFwRules.pl has read and still has to open
  after,      \* what its ipsecctrl does next: exit, or launch
  pluto,      \* /var/run/pluto/pluto.pid exists
  loaded,     \* connections pluto knows
  peer,       \* address pluto resolved for each of them
  pipe,       \* /var/run/vpn-watch exists
  wconn,      \* connection each child of vpn-watch watches, or None
  wold,       \* its REMOTE_IP_OLD
  wnew,       \* its REMOTE_IP_NEW
  wpc,        \* where it is
  red,        \* the RED line is up
  iface,      \* red/iface names a device
  dns,        \* what the name service answers for each peer
  pc,         \* where each process is
  op,         \* how it called ipsecctrl
  key,        \* the key it works on
  row,        \* the row its page will write for that key
  copy,       \* the config its page has read
  overlap,    \* a call has begun before the last one was done (history)
  missed,     \* a peer has changed address while ipsecctrl ran (history)
  mixed,      \* the last to read the settings met another one that was
              \* replacing the rules, or was met by one (history)
  clicks, flips, moves, setups    \* counts (bounds)

files   == <<config, conf, enabled, vpnwatch, cards>>
firewall == <<fw, opened, after, mixed>>
daemon  == <<pluto, loaded, peer>>
watch   == <<pipe, wconn, wold, wnew, wpc>>
line    == <<red, iface, dns>>
request == <<op, key, row, copy>>
bounds  == <<overlap, missed, clicks, flips, moves, setups>>
vars    == <<files, firewall, daemon, watch, line, pc, request, bounds>>

\* Where a process is: in the page (write, conf), asleep in rc.updatered
\* (delay), or in ipsecctrl.
ProcPC  == {"idle", "write", "conf", "delay", "unwatch", "unpipe", "scan",
            "halt", "fwread", "fwflush", "fwadd", "launch", "keyed", "watchtest",
            "watchfork"}
WatchPC == {"free", "first", "sleep", "restart"}
CtrlOps == {"none", "start", "stop", "startkey", "stopkey"}

TypeOK ==
  /\ config \in [Conns -> Rows]
  /\ conf \subseteq Conns
  /\ enabled \subseteq Colours
  /\ vpnwatch \in BOOLEAN
  /\ cards \subseteq Colours
  /\ fw \subseteq Colours
  /\ opened \in [Procs -> SUBSET Colours]
  /\ after \in [Procs -> {"exit", "launch"}]
  /\ mixed \in BOOLEAN
  /\ pluto \in BOOLEAN
  /\ loaded \subseteq Conns
  /\ peer \in [Conns -> Addrs \cup {NoAddr}]
  /\ pipe \in BOOLEAN
  /\ wconn \in [Watchers -> Conns \cup {None}]
  /\ wold \in [Watchers -> Addrs \cup {NoAddr}]
  /\ wnew \in [Watchers -> Addrs \cup {NoAddr}]
  /\ wpc \in [Watchers -> WatchPC]
  /\ red \in BOOLEAN
  /\ iface \in BOOLEAN
  /\ dns \in [Conns -> Addrs \cup {NoAddr}]
  /\ pc \in [Procs -> ProcPC]
  /\ op \in [Procs -> CtrlOps]
  /\ key \in [Procs -> Conns \cup {None}]
  /\ row \in [Procs -> Rows]
  /\ copy \in [Procs -> [Conns -> Rows]]
  /\ overlap \in BOOLEAN
  /\ missed \in BOOLEAN
  /\ clicks \in 0 .. MaxClicks
  /\ flips \in 0 .. MaxRed
  /\ moves \in 0 .. MaxDns
  /\ setups \in 0 .. MaxSetup

NoRows == [c \in Conns |-> "none"]
Init ==
  /\ config \in [Conns -> {"off", "on"}]
  /\ conf = {c \in Conns : config[c] = "on"}
  /\ enabled \in SUBSET Colours
  /\ vpnwatch = TRUE
  /\ cards = Colours
  /\ fw = enabled
  /\ opened = [p \in Procs |-> {}]
  /\ after = [p \in Procs |-> "exit"]
  /\ mixed = FALSE
  /\ pluto = FALSE
  /\ loaded = {}
  /\ peer = [c \in Conns |-> NoAddr]
  /\ pipe = FALSE
  /\ wconn = [w \in Watchers |-> None]
  /\ wold = [w \in Watchers |-> NoAddr]
  /\ wnew = [w \in Watchers |-> NoAddr]
  /\ wpc = [w \in Watchers |-> "free"]
  /\ red = FALSE
  /\ iface = RedDevice
  /\ dns \in [Conns -> Addrs]
  /\ pc = [p \in Procs |-> "idle"]
  /\ op = [p \in Procs |-> "none"]
  /\ key = [p \in Procs |-> None]
  /\ row = [p \in Procs |-> "none"]
  /\ copy = [p \in Procs |-> NoRows]
  /\ overlap = FALSE /\ missed = FALSE
  /\ clicks = 0 /\ flips = 0 /\ moves = 0 /\ setups = 0

-----------------------------------------------------------------------------
(* What the programs look at.                                              *)

On      == {c \in Conns : config[c] = "on"}
Resolve(c) == IF red THEN dns[c] ELSE NoAddr

\* A connection vpn-watch forks a child for.
ToWatch == On \cap Net \cap Dynamic

\* ps finds a "vpn-watch conn:".
WatchRuns == \E w \in Watchers : wpc[w] # "free"

\* The page asks ipsecctrl to do something only when IPsec is enabled.
ipsecenabled == enabled # {}

\* An interface enabled without a card, or a BLUE connection without one.
BadSettings == ~(enabled \subseteq cards)
BadRows     == "BLUE" \notin cards /\ On \cap OnBlue # {}
NothingToDo == On \cap OnBlue = {} /\ (~iface \/ On \ OnBlue = {})

Quiet == \A p \in Procs : pc[p] = "idle"

\* The request of p is over: its locals are gone.
Idle(p) ==
  /\ pc' = [pc EXCEPT ![p] = "idle"]
  /\ op' = [op EXCEPT ![p] = "none"]
  /\ key' = [key EXCEPT ![p] = None]
  /\ row' = [row EXCEPT ![p] = "none"]
  /\ copy' = [copy EXCEPT ![p] = NoRows]

\* A page that stops a connection writes the row when ipsecctrl is done.
WritesLater(p) == op[p] = "stopkey"

\* ipsecctrl of p exits.
CtrlExit(p) ==
  IF WritesLater(p)
    THEN pc' = [pc EXCEPT ![p] = "write"] /\ UNCHANGED request
    ELSE Idle(p)

Goto(p, l) == pc' = [pc EXCEPT ![p] = l] /\ UNCHANGED request

\* ipsecctrl of p runs setfwrules --ipcop, which runs puzzleFwRules.pl -i,
\* and goes on with l.
setfwrules(p, l) ==
  /\ Goto(p, "fwread")
  /\ after' = [after EXCEPT ![p] = l]
  /\ UNCHANGED <<fw, opened, mixed>>

-----------------------------------------------------------------------------
(* ipsec.cgi.                                                              *)

\* A request reads the config and goes to point l, ipsecctrl to be called
\* as o, row r to be written for key k.
Request(p, l, o, k, r) ==
  /\ pc[p] = "idle"
  /\ clicks < MaxClicks
  /\ clicks' = clicks + 1
  /\ overlap' = (overlap \/ ~Quiet)
  /\ pc' = [pc EXCEPT ![p] = l]
  /\ op' = [op EXCEPT ![p] = o]
  /\ key' = [key EXCEPT ![p] = k]
  /\ row' = [row EXCEPT ![p] = r]
  /\ copy' = [copy EXCEPT ![p] = IF l = "write" \/ o = "stopkey" THEN config ELSE NoRows]
  /\ UNCHANGED <<firewall, daemon, watch, line, missed, flips, moves, setups>>

StartKey == IF ipsecenabled THEN "startkey" ELSE "none"

\* Mutant: the page takes ENABLED_x for every colour.
SaveAnyColour(p) ==
  /\ "save" \in GuiOps
  /\ \E e \in SUBSET (cards \cup {"GREEN"}) : \E on \in BOOLEAN :
       /\ enabled' = e
       /\ vpnwatch' = on
       /\ Request(p, "conf", IF e # {} THEN "start" ELSE "stop", None, "none")
  /\ UNCHANGED <<config, conf, cards>>

\* Save main settings: write settings, write ipsec.conf, start or stop.
Save(p) ==
  /\ "save" \in GuiOps
  /\ \E e \in SUBSET cards : \E on \in BOOLEAN :
       /\ enabled' = e
       /\ vpnwatch' = on
       /\ Request(p, "conf", IF e # {} THEN "start" ELSE "stop", None, "none")
  /\ UNCHANGED <<config, conf, cards>>

ToggleOn(p, k) ==
  /\ "toggle" \in GuiOps
  /\ config[k] = "off"
  /\ Request(p, "write", StartKey, k, "on")
  /\ UNCHANGED files

\* Mutant: the row is written before ipsecctrl is called.
ToggleOffEarly(p, k) ==
  /\ "toggle" \in GuiOps
  /\ config[k] = "on"
  /\ IF ipsecenabled THEN Request(p, "write", "startkey", k, "off")
                     ELSE Request(p, "write", "none", k, "off")
  /\ UNCHANGED files

\* Toggle off: the row is written after ipsecctrl --stop=key.
ToggleOff(p, k) ==
  /\ "toggle" \in GuiOps
  /\ config[k] = "on"
  /\ IF ipsecenabled THEN Request(p, "unwatch", "stopkey", k, "off")
                     ELSE Request(p, "write", "none", k, "off")
  /\ UNCHANGED files

RestartConn(p, k) ==
  /\ "restart" \in GuiOps
  /\ config[k] # "none"
  /\ ipsecenabled
  /\ Request(p, "unwatch", "startkey", k, "none")
  /\ UNCHANGED files

\* Remove connection, and each connection removed with its certificate.
Remove(p, k) ==
  /\ "remove" \in GuiOps
  /\ config[k] # "none"
  /\ IF ipsecenabled THEN Request(p, "unwatch", "stopkey", k, "none")
                     ELSE Request(p, "write", "none", k, "none")
  /\ UNCHANGED files

\* Add a connection, edit one or its advanced page: the form is saved with
\* Enabled ticked, or not.
Edit(p, k) ==
  /\ \E r \in {"on", "off"} :
       /\ \/ "edit" \in GuiOps /\ (r = "on" \/ config[k] # "on")
          \/ "disable" \in GuiOps /\ r = "off" /\ config[k] = "on"
       /\ Request(p, "write", StartKey, k, r)
  /\ UNCHANGED files

\* writehasharray: the whole file, as this request read it.
WriteConfig(p) ==
  /\ pc[p] = "write"
  /\ config' = [copy[p] EXCEPT ![key[p]] = row[p]]
  /\ Goto(p, "conf")
  /\ UNCHANGED <<conf, enabled, vpnwatch, cards, firewall, daemon, watch, line, bounds>>

\* Mutant: ipsec.conf is not written again.
writeipsecfilesStale(p) ==
  /\ pc[p] = "conf"
  /\ conf' = conf
  /\ IF op[p] \in {"none", "stopkey"} THEN Idle(p) ELSE Goto(p, "unwatch")
  /\ UNCHANGED <<config, enabled, vpnwatch, cards, firewall, daemon, watch, line, bounds>>

\* writeipsecfiles, and ipsecctrl after it unless it has been called before.
writeipsecfiles(p) ==
  /\ pc[p] = "conf"
  /\ conf' = On
  /\ IF op[p] \in {"none", "stopkey"} THEN Idle(p) ELSE Goto(p, "unwatch")
  /\ UNCHANGED <<config, enabled, vpnwatch, cards, firewall, daemon, watch, line, bounds>>

-----------------------------------------------------------------------------
(* ipsecctrl.                                                              *)

\* Mutant: the children do not get the signal.
UnwatchedNobody == UNCHANGED <<wconn, wold, wnew, wpc>>

\* vpn-watch --stop signals every process named vpn-watch but itself: the
\* children, and a --start or a --stop another ipsecctrl is waiting for.
Unwatched ==
  /\ wconn' = [w \in Watchers |-> None]
  /\ wold' = [w \in Watchers |-> NoAddr]
  /\ wnew' = [w \in Watchers |-> NoAddr]
  /\ wpc' = [w \in Watchers |-> "free"]
AfterUnpipe(p) == IF op[p] = "stop" THEN "halt" ELSE "scan"
Hit(q) == pc[q] \in {"unpipe", "watchfork"}
Struck(q) == IF pc[q] = "unpipe" THEN AfterUnpipe(q)
             ELSE IF WritesLater(q) THEN "write" ELSE "idle"

\* After the signal: where everybody is when p goes to l.
Strike(p, l) ==
  LET done == {q \in Procs \ {p} : Hit(q) /\ Struck(q) = "idle"}
  IN  /\ pc' = [q \in Procs |-> IF q = p THEN l ELSE IF Hit(q) THEN Struck(q) ELSE pc[q]]
      /\ op' = [q \in Procs |-> IF q \in done THEN "none" ELSE op[q]]
      /\ key' = [q \in Procs |-> IF q \in done THEN None ELSE key[q]]
      /\ row' = [q \in Procs |-> IF q \in done THEN "none" ELSE row[q]]
      /\ copy' = [q \in Procs |-> IF q \in done THEN NoRows ELSE copy[q]]

\* The SIGTERM; one second later the SIGKILL and the pipe removed.
WatchStop(p) ==
  /\ pc[p] = "unwatch"
  /\ Unwatched
  /\ Strike(p, "unpipe")
  /\ UNCHANGED <<files, firewall, daemon, pipe, line, bounds>>
WatchKill(p) ==
  /\ pc[p] = "unpipe"
  /\ Unwatched
  /\ pipe' = FALSE
  /\ Strike(p, AfterUnpipe(p))
  /\ UNCHANGED <<files, firewall, daemon, line, bounds>>

\* Mutant: pluto is left running.
HaltRunning(p) ==
  /\ pc[p] = "halt"
  /\ IF op[p] = "stop" THEN UNCHANGED watch ELSE Unwatched /\ pipe' = FALSE
  /\ setfwrules(p, "exit")
  /\ UNCHANGED <<files, daemon, line, bounds>>

\* Mutant: the firewall rules are not reset.
HaltNoRules(p) ==
  /\ pc[p] = "halt"
  /\ pluto' = FALSE
  /\ loaded' = {}
  /\ IF op[p] = "stop" THEN UNCHANGED watch ELSE Unwatched /\ pipe' = FALSE
  /\ CtrlExit(p)
  /\ UNCHANGED <<files, firewall, peer, line, bounds>>

\* Stop pluto if it runs, reset the firewall rules, exit.
Halt(p) ==
  /\ pc[p] = "halt"
  /\ pluto' = FALSE
  /\ loaded' = {}
  /\ IF op[p] = "stop" THEN UNCHANGED watch ELSE Unwatched /\ pipe' = FALSE
  /\ setfwrules(p, "exit")
  /\ UNCHANGED <<files, peer, line, bounds>>

\* Read the settings and the config: refuse, halt, or reset the firewall
\* rules and go on unless there is nothing to do.
Scan(p) ==
  /\ pc[p] = "scan"
  /\ \/ BadSettings /\ CtrlExit(p) /\ UNCHANGED firewall
     \/ ~BadSettings /\ ~ipsecenabled /\ Goto(p, "halt") /\ UNCHANGED firewall
     \/ ~BadSettings /\ ipsecenabled /\ BadRows /\ CtrlExit(p) /\ UNCHANGED firewall
     \/ /\ ~BadSettings /\ ipsecenabled /\ ~BadRows
        /\ setfwrules(p, IF NothingToDo THEN "exit" ELSE "launch")
  /\ UNCHANGED <<files, daemon, watch, line, bounds>>

-----------------------------------------------------------------------------
(* puzzleFwRules.pl -i: no lock between two of them.                       *)

\* Its iptables commands have begun.
Rewriting(p) == pc[p] \in {"fwflush", "fwadd"}

\* Read ipsec/settings and prepare the rules.
RulesRead(p) ==
  /\ pc[p] = "fwread"
  /\ opened' = [opened EXCEPT ![p] = enabled]
  /\ mixed' = \E q \in Procs \ {p} : Rewriting(q)
  /\ Goto(p, "fwflush")
  /\ UNCHANGED <<files, fw, after, daemon, watch, line, bounds>>

\* The last command has run: ipsecctrl exits or launches pluto.
RulesDone(p) ==
  /\ after' = [after EXCEPT ![p] = "exit"]
  /\ IF after[p] = "launch" THEN Goto(p, "launch") ELSE CtrlExit(p)

\* iptables -F FW_IPCOP.
RulesFlush(p) ==
  /\ pc[p] = "fwflush"
  /\ fw' = {}
  /\ IF opened[p] = {} THEN RulesDone(p) ELSE Goto(p, "fwadd") /\ UNCHANGED after
  /\ UNCHANGED <<files, opened, mixed, daemon, watch, line, bounds>>

\* iptables -A FW_IPCOP for one interface after the other.
RulesAdd(p) ==
  /\ pc[p] = "fwadd"
  /\ \E c \in opened[p] :
       /\ fw' = fw \cup {c}
       /\ opened' = [opened EXCEPT ![p] = @ \ {c}]
       /\ IF opened[p] = {c} THEN RulesDone(p) ELSE UNCHANGED <<after, pc, request>>
  /\ UNCHANGED <<files, mixed, daemon, watch, line, bounds>>

-----------------------------------------------------------------------------
(* ipsecctrl again: pluto, and the watchers.                               *)

\* pluto reads what ipsec.conf says of the connections of C, and looks up
\* their peers.
Load(C) ==
  /\ loaded' = (loaded \ C) \cup (C \cap conf)
  /\ peer' = [c \in Conns |-> IF c \in C \cap conf THEN Resolve(c) ELSE peer[c]]

\* Mutant: only a start of one connection starts pluto.
LaunchKeyOnly(p) ==
  /\ pc[p] = "launch"
  /\ IF op[p] = "startkey" /\ ~pluto
       THEN pluto' = TRUE /\ Load(Conns)
       ELSE UNCHANGED daemon
  /\ Goto(p, IF op[p] = "start" THEN "watchtest" ELSE "keyed")
  /\ UNCHANGED <<files, firewall, watch, line, bounds>>

\* ipsec restart, unless only one connection is to be started and pluto runs.
Launch(p) ==
  /\ pc[p] = "launch"
  /\ IF op[p] = "start" \/ (op[p] = "startkey" /\ ~pluto)
       THEN pluto' = TRUE /\ Load(Conns)
       ELSE UNCHANGED daemon
  /\ Goto(p, IF op[p] = "start" THEN "watchtest" ELSE "keyed")
  /\ UNCHANGED <<files, firewall, watch, line, bounds>>

\* The rows that are on are searched for the key.
turn_connection_on(k) == IF pluto THEN Load({k}) ELSE UNCHANGED <<loaded, peer>>
turn_connection_off(k) == loaded' = loaded \ {k} /\ UNCHANGED peer
\* Mutant: the watchers are not started again.
KeyedUnwatched(p) ==
  /\ pc[p] = "keyed"
  /\ IF key[p] \notin On THEN UNCHANGED <<loaded, peer>>
     ELSE IF op[p] = "startkey" THEN turn_connection_on(key[p])
     ELSE turn_connection_off(key[p])
  /\ CtrlExit(p)
  /\ UNCHANGED <<files, firewall, pluto, watch, line, bounds>>

Keyed(p) ==
  /\ pc[p] = "keyed"
  /\ IF key[p] \notin On THEN UNCHANGED <<loaded, peer>>
     ELSE IF op[p] = "startkey" THEN turn_connection_on(key[p])
     ELSE turn_connection_off(key[p])
  /\ Goto(p, "watchtest")
  /\ UNCHANGED <<files, firewall, pluto, watch, line, bounds>>

\* vpn-watch --start: not activated, or already running.
WatchTest(p) ==
  /\ pc[p] = "watchtest"
  /\ IF ~vpnwatch \/ (pipe /\ WatchRuns)
       THEN CtrlExit(p) /\ UNCHANGED pipe
       ELSE Goto(p, "watchfork") /\ pipe' = FALSE
  /\ UNCHANGED <<files, firewall, daemon, wconn, wold, wnew, wpc, line, bounds>>

\* vpn-watch --start: make the pipe, fork a child for each connection.
Free == {w \in Watchers : wpc[w] = "free"}
WatchFork(p) ==
  /\ pc[p] = "watchfork"
  /\ pipe' = TRUE
  /\ \E child \in [ToWatch -> Free] :
       /\ \A c, d \in ToWatch : child[c] = child[d] => c = d
       /\ wconn' = [w \in Watchers |->
                      IF \E c \in ToWatch : child[c] = w
                        THEN CHOOSE c \in ToWatch : child[c] = w ELSE wconn[w]]
       /\ wpc' = [w \in Watchers |->
                      IF \E c \in ToWatch : child[c] = w THEN "first" ELSE wpc[w]]
  /\ CtrlExit(p)
  /\ UNCHANGED <<files, firewall, daemon, wold, wnew, line, bounds>>

-----------------------------------------------------------------------------
(* The children of vpn-watch.                                              *)

\* The child sleeps with REMOTE_IP_OLD = a, or ends when that is 'stop'.
Watched(w, a) ==
  IF a = NoAddr
    THEN /\ wpc' = [wpc EXCEPT ![w] = "free"]
         /\ wconn' = [wconn EXCEPT ![w] = None]
         /\ wold' = [wold EXCEPT ![w] = NoAddr]
         /\ wnew' = [wnew EXCEPT ![w] = NoAddr]
    ELSE /\ wpc' = [wpc EXCEPT ![w] = "sleep"]
         /\ wold' = [wold EXCEPT ![w] = a]
         /\ wnew' = [wnew EXCEPT ![w] = NoAddr]
         /\ UNCHANGED wconn

WatchFirst(w) ==
  /\ wpc[w] = "first"
  /\ Watched(w, Resolve(wconn[w]))
  /\ UNCHANGED <<files, firewall, daemon, pipe, line, pc, request, bounds>>

\* CHECK_INTERVAL is over: pluto is down, or the answer has changed.
WatchCheck(w) ==
  /\ wpc[w] = "sleep"
  /\ LET a == Resolve(wconn[w]) IN
       IF ~pluto THEN a # wold[w] /\ Watched(w, a)
       ELSE /\ a # wold[w]
            /\ wnew' = [wnew EXCEPT ![w] = a]
            /\ wpc' = [wpc EXCEPT ![w] = "restart"]
            /\ UNCHANGED <<wconn, wold>>
  /\ UNCHANGED <<files, firewall, daemon, pipe, line, pc, request, bounds>>

\* Mutant: the connection is not replaced.
WatchRestartOld(w) ==
  /\ wpc[w] = "restart"
  /\ UNCHANGED <<loaded, peer>>
  /\ Watched(w, wnew[w])
  /\ UNCHANGED <<files, firewall, pluto, pipe, line, pc, request, bounds>>

\* --down, --replace, --rereadsecrets, --up.
WatchRestart(w) ==
  /\ wpc[w] = "restart"
  /\ IF pluto THEN Load({wconn[w]}) ELSE UNCHANGED <<loaded, peer>>
  /\ Watched(w, wnew[w])
  /\ UNCHANGED <<files, firewall, pluto, pipe, line, pc, request, bounds>>

-----------------------------------------------------------------------------
(* The world around.                                                       *)

\* rc.updatered up: sleep VPN_DELAYED_START && ipsecctrl --start &
RedUp(j) ==
  /\ ~red /\ flips < MaxRed /\ pc[j] = "idle"
  /\ overlap' = (overlap \/ ~Quiet)
  /\ red' = TRUE /\ iface' = TRUE /\ flips' = flips + 1
  /\ pc' = [pc EXCEPT ![j] = "delay"]
  /\ op' = [op EXCEPT ![j] = "start"]
  /\ UNCHANGED <<files, firewall, daemon, watch, dns, key, row, copy, missed, clicks, moves,
                 setups>>

Delayed(j) ==
  /\ pc[j] = "delay"
  /\ Goto(j, "unwatch")
  /\ UNCHANGED <<files, firewall, daemon, watch, line, bounds>>

\* Mutant: a RED that goes down starts IPsec.
RedDownStart(j) ==
  /\ red /\ flips < MaxRed /\ pc[j] = "idle"
  /\ overlap' = (overlap \/ ~Quiet)
  /\ red' = FALSE /\ flips' = flips + 1
  /\ pc' = [pc EXCEPT ![j] = "unwatch"]
  /\ op' = [op EXCEPT ![j] = "start"]
  /\ UNCHANGED <<files, firewall, daemon, watch, iface, dns, key, row, copy, missed, clicks,
                 moves, setups>>

\* rc.updatered down: ipsecctrl --stop &
RedDown(j) ==
  /\ red /\ flips < MaxRed /\ pc[j] = "idle"
  /\ overlap' = (overlap \/ ~Quiet)
  /\ red' = FALSE /\ flips' = flips + 1
  /\ pc' = [pc EXCEPT ![j] = "unwatch"]
  /\ op' = [op EXCEPT ![j] = "stop"]
  /\ UNCHANGED <<files, firewall, daemon, watch, iface, dns, key, row, copy, missed, clicks,
                 moves, setups>>

\* The address of a peer changes, or its name stops resolving.
Renamed(c) ==
  /\ moves < MaxDns
  /\ missed' = (missed \/ ~Quiet \/ \E w \in Watchers : wpc[w] = "first")
  /\ \E a \in Addrs \cup {NoAddr} : a # dns[c] /\ dns' = [dns EXCEPT ![c] = a]
  /\ moves' = moves + 1
  /\ UNCHANGED <<files, firewall, daemon, watch, red, iface, pc, request, overlap, clicks,
                 flips, setups>>

\* setup changes ethernet/settings and runs rc.net --reconfigure.
BlueRemoved ==
  /\ setups < MaxSetup
  /\ "BLUE" \in cards
  /\ cards' = cards \ {"BLUE"}
  /\ setups' = setups + 1
  /\ UNCHANGED <<config, conf, enabled, vpnwatch, firewall, daemon, watch, line, pc, request,
                 overlap, missed, clicks, flips, moves>>

Page(p) ==
  \/ Save(p)
  \/ \E k \in Conns :
       \/ ToggleOn(p, k) \/ ToggleOff(p, k) \/ RestartConn(p, k)
       \/ Remove(p, k) \/ Edit(p, k)
Step(p) ==
  \/ WriteConfig(p) \/ writeipsecfiles(p) \/ WatchStop(p) \/ WatchKill(p)
  \/ Halt(p) \/ Scan(p) \/ RulesRead(p) \/ RulesFlush(p) \/ RulesAdd(p)
  \/ Launch(p) \/ Keyed(p) \/ WatchTest(p) \/ WatchFork(p) \/ Delayed(p)
Child(w) == WatchFirst(w) \/ WatchCheck(w) \/ WatchRestart(w)

\* Nothing is left to do.
Resting ==
  /\ \A p \in Procs : pc[p] = "idle"
  /\ UNCHANGED vars

Next ==
  \/ \E p \in Admins : Page(p)
  \/ \E p \in Procs : Step(p)
  \/ \E w \in Watchers : Child(w)
  \/ \E j \in Jobs : RedUp(j) \/ RedDown(j)
  \/ \E c \in Dynamic : Renamed(c)
  \/ BlueRemoved
  \/ Resting

Spec == Init /\ [][Next]_vars

\* A process that can go on does, and a watcher does wake up.
Fairness ==
  /\ \A p \in Procs : WF_vars(Step(p))
  /\ \A w \in Watchers : WF_vars(Child(w))
FairSpec == Spec /\ Fairness

-----------------------------------------------------------------------------
(* Properties.                                                             *)

\* No card has been removed: ipsecctrl does not give up half-way.
Sound == cards = Colours

\* A connection the administrator disabled or removed is not left in pluto
\* once the page has been served: every path of ipsecctrl and of the page
\* that takes a row away has also unloaded it, as long as requests and RED
\* changes follow one another.  Two exits do leave one: before RED has a
\* device ipsecctrl has "nothing to do" for a RED connection pluto knows,
\* and a name that moves while the page has not yet rewritten ipsec.conf
\* has a watcher load the connection again.
OffIsUnloaded ==
  Quiet /\ pluto /\ Sound /\ RedDevice /\ ~overlap /\ ~missed => loaded \subseteq On

\* A connection that is on is known to a running pluto once the page has
\* been served, however RED changes overlapped with it.  (ipsecctrl does not
\* look at RED connections before RED has a device.  Two requests at once
\* are another matter: the later one writes back the config it read.)
OnIsLoaded == Quiet /\ pluto /\ Sound /\ iface /\ enabled # {} => On \subseteq loaded

\* An IPsec switched off on every interface is not left running.
DisabledIsStopped == Quiet /\ ~overlap /\ enabled = {} => ~pluto

\* The firewall is open for IPsec on exactly the enabled interfaces once
\* the page has been served, however calls overlapped, as long as the last
\* puzzleFwRules.pl to read the settings replaced the rules alone: no exit
\* of ipsecctrl forgets setfwrules, no call is lost with a vpn-watch that is
\* killed, and a Save after that reading has a reading of its own.  (Two that
\* replace the rules at the same time leave what their commands happen to.)
FwMatches == Quiet /\ Sound /\ ~mixed => fw = enabled

\* A connection never has two children of vpn-watch, which would both
\* restart it: every vpn-watch --start follows a --stop or finds the pipe.
OneWatcher ==
  ~overlap =>
    \A v, w \in Watchers :
      wpc[v] # "free" /\ wpc[w] # "free" /\ wconn[v] = wconn[w] => v = w

\* While pluto runs every connection that is to be watched is: each path
\* of ipsecctrl that stops the watchers starts them again.  (As long as the
\* names resolve: a child ends when its name does not, and nobody starts
\* another when it does again.)
WatchedNow(c) == \E w \in Watchers : wpc[w] # "free" /\ wconn[w] = c
DynamicWatched ==
  Quiet /\ ~overlap /\ moves = 0 /\ pluto /\ Sound /\ enabled # {} /\ vpnwatch /\ red =>
    \A c \in ToWatch : WatchedNow(c)

\* A watched connection ends up at the address its name stands for ("checks,
\* whether the IP of FQDN has changed"), unless the name moved between the
\* load of the connection and the first look of its watcher, or RED went
\* down between the two while calls overlapped.
PeerFollows ==
  \A c \in Dynamic :
    WatchedNow(c) /\ pluto /\ c \in loaded
      ~> \/ peer[c] = dns[c] \/ dns[c] = NoAddr \/ ~red \/ missed \/ overlap
         \/ ~pluto \/ c \notin loaded \/ ~WatchedNow(c)

\* When RED is down for good pluto is stopped for good, provided no delayed
\* start was overtaken by the stop.
StoppedWithRed == <>[](~red /\ ~overlap) => <>[](~pluto)

\* When RED is up for good, an IPsec that is enabled and has a connection
\* to offer runs in the end, provided no stop was still under way.
CanRun == red /\ enabled # {} /\ Sound /\ On \ OnBlue # {}
StartedWithRed == <>[](CanRun /\ ~overlap) => <>[]pluto
=============================================================================
