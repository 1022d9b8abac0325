---------------------------- MODULE IpsecProofs ----------------------------
(***************************************************************************)
(* Theorems about Ipsec, for any connections, requests, background jobs    *)
(* and watchers, and every interleaving of them.                           *)
(*                                                                         *)
(* The properties speak of quiet states and are not inductive.  Each rests *)
(* on an invariant that says who still owes what: whenever the firewall,   *)
(* pluto or the watchers do not match the files, some call is on its way   *)
(* to the step that will make them (FwOwed, LoadOwed, StopOwed,            *)
(* WatchOwed), and no exit of ipsecctrl, no signal of another's vpn-watch  *)
(* --stop takes it off that way.  Below them are Places (which call gets   *)
(* where), Alone (calls that have not overlapped follow one another) and   *)
(* PageInv (the config a page holds is the one in the file, ipsec.conf     *)
(* lacks only what that page has just turned on).                          *)
(***************************************************************************)
EXTENDS Ipsec, TLAPS

USE IpsecAssumption DEF Procs, Colours, Rows, ProcPC, WatchPC, CtrlOps

\* The type invariant by groups of variables.
FilesOK ==
  /\ config \in [Conns -> Rows] /\ conf \subseteq Conns /\ enabled \subseteq Colours
  /\ vpnwatch \in BOOLEAN /\ cards \subseteq Colours
FirewallOK ==
  /\ fw \subseteq Colours /\ opened \in [Procs -> SUBSET Colours]
  /\ after \in [Procs -> {"exit", "launch"}] /\ mixed \in BOOLEAN
DaemonOK ==
  /\ pluto \in BOOLEAN /\ loaded \subseteq Conns /\ peer \in [Conns -> Addrs \cup {NoAddr}]
ChildOK ==
  /\ wconn \in [Watchers -> Conns \cup {None}]
  /\ wold \in [Watchers -> Addrs \cup {NoAddr}]
  /\ wnew \in [Watchers -> Addrs \cup {NoAddr}]
  /\ wpc \in [Watchers -> WatchPC]
LineOK ==
  /\ red \in BOOLEAN /\ iface \in BOOLEAN /\ dns \in [Conns -> Addrs \cup {NoAddr}]
ProcOK ==
  /\ pc \in [Procs -> ProcPC] /\ op \in [Procs -> CtrlOps]
  /\ key \in [Procs -> Conns \cup {None}] /\ row \in [Procs -> Rows]
  /\ copy \in [Procs -> [Conns -> Rows]]
BoundsOK ==
  /\ overlap \in BOOLEAN /\ missed \in BOOLEAN
  /\ clicks \in 0 .. MaxClicks /\ flips \in 0 .. MaxRed
  /\ moves \in 0 .. MaxDns /\ setups \in 0 .. MaxSetup

\* The groups make up the type invariant, before and after a step.
LEMMA Groups ==
  /\ TypeOK <=> FilesOK /\ FirewallOK /\ DaemonOK /\ pipe \in BOOLEAN /\ ChildOK
               /\ LineOK /\ ProcOK /\ BoundsOK
  /\ TypeOK' <=> FilesOK' /\ FirewallOK' /\ DaemonOK' /\ pipe' \in BOOLEAN /\ ChildOK'
                /\ LineOK' /\ ProcOK' /\ BoundsOK'
  BY Zenon DEF TypeOK, FilesOK, FirewallOK, DaemonOK, ChildOK, LineOK, ProcOK, BoundsOK

\* A group no variable of which changes stays well typed.
LEMMA Same ==
  ASSUME TypeOK
  PROVE  /\ UNCHANGED files => FilesOK'
         /\ UNCHANGED firewall => FirewallOK'
         /\ UNCHANGED daemon => DaemonOK'
         /\ UNCHANGED pipe => pipe' \in BOOLEAN
         /\ UNCHANGED watch => pipe' \in BOOLEAN /\ ChildOK'
         /\ UNCHANGED line => LineOK'
         /\ UNCHANGED <<pc, request>> => ProcOK'
         /\ UNCHANGED bounds => BoundsOK'
  <1>1. UNCHANGED files => FilesOK'
    BY Groups DEF FilesOK, files
  <1>2. UNCHANGED daemon => DaemonOK'
    BY Groups DEF DaemonOK, daemon
  <1>3. UNCHANGED watch => pipe' \in BOOLEAN /\ ChildOK'
    BY Groups DEF ChildOK, watch
  <1>4. UNCHANGED line => LineOK'
    BY Groups DEF LineOK, line
  <1>5. UNCHANGED <<pc, request>> => ProcOK'
    BY Groups DEF ProcOK, request
  <1>6. UNCHANGED bounds => BoundsOK'
    BY Groups DEF BoundsOK, bounds
  <1>7. UNCHANGED pipe => pipe' \in BOOLEAN
    BY Groups
  <1>8. UNCHANGED firewall => FirewallOK'
    BY Groups DEF FirewallOK, firewall
  <1> QED BY <1>1, <1>2, <1>3, <1>4, <1>5, <1>6, <1>7, <1>8

\* The locals of a request keep their types when it ends or goes on.
LEMMA IdleType ==
  ASSUME TypeOK, NEW p \in Procs, Idle(p)
  PROVE  ProcOK'
  BY Groups DEF ProcOK, Idle, NoRows

LEMMA GotoType ==
  ASSUME TypeOK, NEW p \in Procs, NEW l \in ProcPC, Goto(p, l)
  PROVE  ProcOK'
  BY Groups DEF ProcOK, Goto, request

LEMMA CtrlExitType ==
  ASSUME TypeOK, NEW p \in Procs, CtrlExit(p)
  PROVE  ProcOK'
  <1>1. CASE WritesLater(p)
    BY <1>1, Groups DEF ProcOK, CtrlExit, request
  <1>2. CASE ~WritesLater(p)
    BY <1>2, IdleType DEF CtrlExit
  <1> QED BY <1>1, <1>2

\* setfwrules is called with a place to go on at.
LEMMA SetfwrulesType ==
  ASSUME TypeOK, NEW p \in Procs, NEW l \in {"exit", "launch"}, setfwrules(p, l)
  PROVE  ProcOK' /\ FirewallOK'
  <1>1. ProcOK'
    BY GotoType DEF setfwrules
  <1>2. FirewallOK'
    BY Groups DEF setfwrules, FirewallOK
  <1> QED BY <1>1, <1>2

LEMMA RulesDoneType ==
  ASSUME TypeOK, NEW p \in Procs, RulesDone(p)
  PROVE  ProcOK' /\ after' \in [Procs -> {"exit", "launch"}]
  <1>1. ProcOK'
    BY GotoType, CtrlExitType DEF RulesDone
  <1>2. after' \in [Procs -> {"exit", "launch"}]
    BY Groups DEF RulesDone, FirewallOK
  <1> QED BY <1>1, <1>2

LEMMA StrikeType ==
  ASSUME TypeOK, NEW p \in Procs, NEW l \in ProcPC, Strike(p, l)
  PROVE  ProcOK'
  BY Groups DEF ProcOK, Strike, Struck, AfterUnpipe, NoRows

\* vpn-watch --stop leaves no child.
LEMMA UnwatchedType ==
  ASSUME Unwatched
  PROVE  ChildOK'
  BY DEF Unwatched, ChildOK

\* A name resolves to an address or not at all.
LEMMA ResolveType ==
  ASSUME TypeOK, NEW c \in Conns
  PROVE  Resolve(c) \in Addrs \cup {NoAddr}
  BY DEF TypeOK, Resolve

\* What pluto loads are connections, at addresses.
LEMMA LoadType ==
  ASSUME TypeOK, NEW C \in SUBSET Conns, Load(C)
  PROVE  /\ loaded' \subseteq Conns
         /\ peer' \in [Conns -> Addrs \cup {NoAddr}]
  BY ResolveType DEF TypeOK, Load

\* A child of vpn-watch that sleeps or ends.
LEMMA WatchedType ==
  ASSUME TypeOK, NEW w \in Watchers, NEW a \in Addrs \cup {NoAddr}, Watched(w, a)
  PROVE  ChildOK'
  <1>1. CASE a = NoAddr
    BY <1>1, Groups DEF ChildOK, Watched
  <1>2. CASE a # NoAddr
    BY <1>2, Groups DEF ChildOK, Watched
  <1> QED BY <1>1, <1>2

\* A request begins: only the settings file may have changed beside it.
LEMMA RequestType ==
  ASSUME TypeOK, NEW p \in Procs, NEW l \in ProcPC, NEW o \in CtrlOps,
         NEW k \in Conns \cup {None}, NEW r \in Rows, Request(p, l, o, k, r), FilesOK'
  PROVE  TypeOK'
  <1> DEFINE c == IF l = "write" \/ o = "stopkey" THEN config ELSE NoRows
  <1>0. c \in [Conns -> Rows]
    BY Groups DEF FilesOK, NoRows
  <1>1. ProcOK'
    BY <1>0, Groups DEF ProcOK, Request
  <1>2. BoundsOK'
    <2>1. overlap' \in BOOLEAN
      BY DEF Request
    <2> QED BY <2>1, Groups DEF BoundsOK, Request
  <1>3. UNCHANGED <<firewall, daemon, watch, line>>
    BY DEF Request
  <1> QED BY <1>1, <1>2, <1>3, Same, Groups

LEMMA PageType ==
  ASSUME TypeOK, NEW p \in Admins, Page(p)
  PROVE  TypeOK'
  <1> p \in Procs OBVIOUS
  <1>1. CASE Save(p)
    <2>1. PICK e \in SUBSET cards, on \in BOOLEAN :
            /\ enabled' = e /\ vpnwatch' = on
            /\ Request(p, "conf", IF e # {} THEN "start" ELSE "stop", None, "none")
      BY <1>1 DEF Save
    <2>2. vpnwatch' \in BOOLEAN
      BY <2>1
    <2>3. enabled' \subseteq Colours
      BY <2>1 DEF TypeOK
    <2> DEFINE o == IF e # {} THEN "start" ELSE "stop"
    <2>4. o \in CtrlOps /\ "conf" \in ProcPC /\ "none" \in Rows
      OBVIOUS
    <2> HIDE DEF o
    <2>5. Request(p, "conf", o, None, "none")
      BY <2>1 DEF o
    <2>6. FilesOK'
      BY <1>1, <2>2, <2>3, Groups DEF FilesOK, Save
    <2> QED BY <2>4, <2>5, <2>6, RequestType
  <1>2. ASSUME NEW k \in Conns, ToggleOn(p, k) PROVE TypeOK'
    <2>1. StartKey \in CtrlOps BY DEF StartKey
    <2>2. Request(p, "write", StartKey, k, "on") /\ UNCHANGED files
      BY <1>2 DEF ToggleOn
    <2> QED BY <2>1, <2>2, RequestType, Same
  <1>3. ASSUME NEW k \in Conns, ToggleOff(p, k) PROVE TypeOK'
    <2>1. CASE ipsecenabled
      <3>1. Request(p, "unwatch", "stopkey", k, "off") /\ UNCHANGED files
        BY <1>3, <2>1 DEF ToggleOff
      <3> QED BY <3>1, RequestType, Same
    <2>2. CASE ~ipsecenabled
      <3>1. Request(p, "write", "none", k, "off") /\ UNCHANGED files
        BY <1>3, <2>2 DEF ToggleOff
      <3> QED BY <3>1, RequestType, Same
    <2> QED BY <2>1, <2>2
  <1>4. ASSUME NEW k \in Conns, RestartConn(p, k) PROVE TypeOK'
    <2>1. Request(p, "unwatch", "startkey", k, "none") /\ UNCHANGED files
      BY <1>4 DEF RestartConn
    <2> QED BY <2>1, RequestType, Same
  <1>5. ASSUME NEW k \in Conns, Remove(p, k) PROVE TypeOK'
    <2>1. CASE ipsecenabled
      <3>1. Request(p, "unwatch", "stopkey", k, "none") /\ UNCHANGED files
        BY <1>5, <2>1 DEF Remove
      <3> QED BY <3>1, RequestType, Same
    <2>2. CASE ~ipsecenabled
      <3>1. Request(p, "write", "none", k, "none") /\ UNCHANGED files
        BY <1>5, <2>2 DEF Remove
      <3> QED BY <3>1, RequestType, Same
    <2> QED BY <2>1, <2>2
  <1>6. ASSUME NEW k \in Conns, Edit(p, k) PROVE TypeOK'
    <2>1. PICK r \in {"on", "off"} : Request(p, "write", StartKey, k, r)
      BY <1>6 DEF Edit
    <2>2. UNCHANGED files BY <1>6 DEF Edit
    <2>3. StartKey \in CtrlOps BY DEF StartKey
    <2> QED BY <2>1, <2>2, <2>3, RequestType, Same
  <1> QED BY <1>1, <1>2, <1>3, <1>4, <1>5, <1>6 DEF Page

LEMMA StepType ==
  ASSUME TypeOK, NEW p \in Procs, Step(p)
  PROVE  TypeOK'
  <1>1. CASE WriteConfig(p)
    <2>1. ProcOK'
      BY <1>1, GotoType DEF WriteConfig
    <2>2. FilesOK'
      BY <1>1, Groups DEF WriteConfig, FilesOK, ProcOK
    <2> QED BY <1>1, <2>1, <2>2, Same, Groups DEF WriteConfig
  <1>2. CASE writeipsecfiles(p)
    <2>1. ProcOK'
      BY <1>2, GotoType, IdleType DEF writeipsecfiles
    <2>2. FilesOK'
      BY <1>2, Groups DEF writeipsecfiles, FilesOK, On
    <2> QED BY <1>2, <2>1, <2>2, Same, Groups DEF writeipsecfiles
  <1>3. CASE WatchStop(p)
    BY <1>3, UnwatchedType, StrikeType, Same, Groups DEF WatchStop
  <1>4. CASE WatchKill(p)
    <2>1. pipe' \in BOOLEAN
      BY <1>4 DEF WatchKill
    <2>2. AfterUnpipe(p) \in ProcPC
      BY DEF AfterUnpipe
    <2> QED BY <1>4, <2>1, <2>2, UnwatchedType, StrikeType, Same, Groups DEF WatchKill
  <1>5. CASE Halt(p)
    <2>1. pluto' \in BOOLEAN /\ loaded' = {} /\ peer' = peer
      BY <1>5 DEF Halt
    <2>2. DaemonOK'
      BY <2>1, Groups DEF DaemonOK
    <2>3. pipe' \in BOOLEAN /\ ChildOK'
      <3>1. CASE op[p] = "stop"
        BY <1>5, <3>1, Same DEF Halt
      <3>2. CASE op[p] # "stop"
        BY <1>5, <3>2, UnwatchedType DEF Halt
      <3> QED BY <3>1, <3>2
    <2>4. ProcOK' /\ FirewallOK'
      BY <1>5, SetfwrulesType DEF Halt
    <2> QED BY <1>5, <2>2, <2>3, <2>4, Same, Groups DEF Halt
  <1>6. CASE Scan(p)
    <2>1. CASE UNCHANGED firewall
      <3>1. ProcOK'
        BY <1>6, <2>1, CtrlExitType, GotoType, SetfwrulesType DEF Scan
      <3> QED BY <1>6, <2>1, <3>1, Same, Groups DEF Scan
    <2>2. CASE ~UNCHANGED firewall
      <3>1. ProcOK' /\ FirewallOK'
        BY <1>6, <2>2, SetfwrulesType DEF Scan
      <3> QED BY <1>6, <3>1, Same, Groups DEF Scan
    <2> QED BY <2>1, <2>2
  <1>12. CASE RulesRead(p)
    <2>1. mixed' \in BOOLEAN
      BY <1>12 DEF RulesRead
    <2>2. FirewallOK'
      BY <1>12, <2>1, Groups DEF RulesRead, FirewallOK, FilesOK
    <2>3. ProcOK'
      BY <1>12, GotoType DEF RulesRead
    <2> QED BY <1>12, <2>2, <2>3, Same, Groups DEF RulesRead
  <1>13. CASE RulesFlush(p)
    <2>1. ProcOK' /\ after' \in [Procs -> {"exit", "launch"}]
      BY <1>13, RulesDoneType, GotoType, Groups DEF RulesFlush, FirewallOK
    <2>2. FirewallOK'
      BY <1>13, <2>1, Groups DEF RulesFlush, FirewallOK
    <2> QED BY <1>13, <2>1, <2>2, Same, Groups DEF RulesFlush
  <1>14. CASE RulesAdd(p)
    <2>1. PICK c \in opened[p] :
            /\ fw' = fw \cup {c}
            /\ opened' = [opened EXCEPT ![p] = opened[p] \ {c}]
            /\ IF opened[p] = {c} THEN RulesDone(p) ELSE UNCHANGED <<after, pc, request>>
      BY <1>14 DEF RulesAdd
    <2>2. c \in Colours /\ opened[p] \subseteq Colours
      BY Groups DEF FirewallOK
    <2>3. ProcOK' /\ after' \in [Procs -> {"exit", "launch"}]
      <3>1. CASE opened[p] = {c}
        BY <2>1, <3>1, RulesDoneType
      <3>2. CASE opened[p] # {c}
        <4>1. UNCHANGED <<pc, request>> /\ after' = after
          BY <2>1, <3>2
        <4> QED BY <4>1, Same, Groups DEF FirewallOK
      <3> QED BY <3>1, <3>2
    <2>4. opened' \in [Procs -> SUBSET Colours] /\ fw' \subseteq Colours /\ mixed' = mixed
      BY <1>14, <2>1, <2>2, Groups DEF RulesAdd, FirewallOK
    <2>5. FirewallOK'
      BY <2>3, <2>4, Groups DEF FirewallOK
    <2> QED BY <1>14, <2>3, <2>5, Same, Groups DEF RulesAdd
  <1>7. CASE Launch(p)
    <2>1. DaemonOK'
      <3>1. CASE op[p] = "start" \/ (op[p] = "startkey" /\ ~pluto)
        <4>1. pluto' \in BOOLEAN /\ Load(Conns)
          BY <1>7, <3>1 DEF Launch
        <4> QED BY <4>1, LoadType DEF DaemonOK
      <3>2. CASE ~(op[p] = "start" \/ (op[p] = "startkey" /\ ~pluto))
        BY <1>7, <3>2, Same DEF Launch
      <3> QED BY <3>1, <3>2
    <2>2. ProcOK'
      BY <1>7, GotoType DEF Launch
    <2> QED BY <1>7, <2>1, <2>2, Same, Groups DEF Launch
  <1>8. CASE Keyed(p)
    <2>1. loaded' \subseteq Conns /\ peer' \in [Conns -> Addrs \cup {NoAddr}]
      <3>1. CASE key[p] \notin On
        BY <1>8, <3>1, Groups DEF Keyed, DaemonOK
      <3>2. CASE key[p] \in On /\ op[p] = "startkey"
        <4>1. turn_connection_on(key[p]) /\ {key[p]} \in SUBSET Conns
          BY <1>8, <3>2 DEF Keyed, On
        <4> QED BY <4>1, LoadType, Groups DEF turn_connection_on, DaemonOK
      <3>3. CASE key[p] \in On /\ op[p] # "startkey"
        BY <1>8, <3>3, Groups DEF Keyed, turn_connection_off, DaemonOK
      <3> QED BY <3>1, <3>2, <3>3
    <2>2. pluto' = pluto /\ ProcOK'
      BY <1>8, GotoType DEF Keyed
    <2>3. DaemonOK'
      BY <2>1, <2>2, Groups DEF DaemonOK
    <2> QED BY <1>8, <2>2, <2>3, Same, Groups DEF Keyed
  <1>9. CASE WatchTest(p)
    <2>1. pipe' \in BOOLEAN
      BY <1>9, Groups DEF WatchTest
    <2>2. ProcOK'
      BY <1>9, CtrlExitType, GotoType DEF WatchTest
    <2>3. ChildOK'
      BY <1>9, Groups DEF WatchTest, ChildOK
    <2> QED BY <1>9, <2>1, <2>2, <2>3, Same, Groups DEF WatchTest
  <1>10. CASE WatchFork(p)
    <2>1. pipe' \in BOOLEAN
      BY <1>10 DEF WatchFork
    <2>2. PICK child \in [ToWatch -> Free] :
            /\ wconn' = [w \in Watchers |->
                            IF \E c \in ToWatch : child[c] = w
                              THEN CHOOSE c \in ToWatch : child[c] = w ELSE wconn[w]]
            /\ wpc' = [w \in Watchers |->
                            IF \E c \in ToWatch : child[c] = w THEN "first" ELSE wpc[w]]
      BY <1>10 DEF WatchFork
    <2>3. ASSUME NEW w \in Watchers, \E c \in ToWatch : child[c] = w
          PROVE  (CHOOSE c \in ToWatch : child[c] = w) \in Conns
      <3>1. (CHOOSE c \in ToWatch : child[c] = w) \in ToWatch
        BY <2>3
      <3> QED BY <3>1 DEF ToWatch, On
    <2>4. wconn' \in [Watchers -> Conns \cup {None}]
      BY <2>2, <2>3, Groups DEF ChildOK
    <2>5. wpc' \in [Watchers -> WatchPC]
      BY <2>2, Groups DEF ChildOK
    <2>6. ChildOK'
      BY <1>10, <2>4, <2>5, Groups DEF WatchFork, ChildOK
    <2> QED BY <1>10, <2>1, <2>6, CtrlExitType, Same, Groups DEF WatchFork
  <1>11. CASE Delayed(p)
    <2>1. ProcOK'
      BY <1>11, GotoType DEF Delayed
    <2> QED BY <1>11, <2>1, Same, Groups DEF Delayed
  <1> QED BY <1>1, <1>2, <1>3, <1>4, <1>5, <1>6, <1>7, <1>8, <1>9, <1>10, <1>11,
              <1>12, <1>13, <1>14 DEF Step

LEMMA ChildType ==
  ASSUME TypeOK, NEW w \in Watchers, wconn[w] \in Conns \/ wpc[w] = "free", Child(w)
  PROVE  TypeOK'
  <1>0. ASSUME wpc[w] # "free" PROVE Resolve(wconn[w]) \in Addrs \cup {NoAddr}
    BY <1>0, ResolveType
  <1>1. CASE WatchFirst(w)
    BY <1>0, <1>1, WatchedType, Same, Groups DEF WatchFirst
  <1>2. CASE WatchCheck(w)
    <2>1. CASE ~pluto
      BY <1>0, <1>2, <2>1, WatchedType, Same, Groups DEF WatchCheck
    <2>2. CASE pluto
      <3>1. ChildOK'
        BY <1>0, <1>2, <2>2, Groups DEF WatchCheck, ChildOK
      <3> QED BY <1>2, <3>1, Same, Groups DEF WatchCheck
    <2> QED BY <2>1, <2>2
  <1>3. CASE WatchRestart(w)
    <2>1. loaded' \subseteq Conns /\ peer' \in [Conns -> Addrs \cup {NoAddr}]
      <3>1. CASE pluto
        <4>1. Load({wconn[w]}) /\ {wconn[w]} \in SUBSET Conns
          BY <1>3, <3>1 DEF WatchRestart
        <4> QED BY <4>1, LoadType
      <3>2. CASE ~pluto
        BY <1>3, <3>2, Groups DEF WatchRestart, DaemonOK
      <3> QED BY <3>1, <3>2
    <2>2. DaemonOK'
      BY <1>3, <2>1, Groups DEF WatchRestart, DaemonOK
    <2>3. ChildOK'
      BY <1>3, WatchedType, Groups DEF WatchRestart, ChildOK
    <2> QED BY <1>3, <2>2, <2>3, Same, Groups DEF WatchRestart
  <1> QED BY <1>1, <1>2, <1>3 DEF Child

\* RED, the name service, setup.
LEMMA WorldType ==
  ASSUME TypeOK,
         \/ \E j \in Jobs : RedUp(j) \/ RedDown(j)
         \/ \E c \in Dynamic : Renamed(c)
         \/ BlueRemoved
  PROVE  TypeOK'
  <1>1. ASSUME NEW j \in Jobs, RedUp(j) PROVE TypeOK'
    <2>1. red' \in BOOLEAN /\ iface' \in BOOLEAN
      BY <1>1 DEF RedUp
    <2>2. LineOK'
      BY <1>1, <2>1, Groups DEF RedUp, LineOK
    <2>3. ProcOK'
      BY <1>1, Groups DEF RedUp, ProcOK
    <2>4. overlap' \in BOOLEAN
      BY <1>1 DEF RedUp
    <2>5. BoundsOK'
      BY <1>1, <2>4, Groups DEF RedUp, BoundsOK
    <2> QED BY <1>1, <2>2, <2>3, <2>5, Same, Groups DEF RedUp
  <1>2. ASSUME NEW j \in Jobs, RedDown(j) PROVE TypeOK'
    <2>1. red' \in BOOLEAN
      BY <1>2 DEF RedDown
    <2>2. LineOK'
      BY <1>2, <2>1, Groups DEF RedDown, LineOK
    <2>3. ProcOK'
      BY <1>2, Groups DEF RedDown, ProcOK
    <2>4. overlap' \in BOOLEAN
      BY <1>2 DEF RedDown
    <2>5. BoundsOK'
      BY <1>2, <2>4, Groups DEF RedDown, BoundsOK
    <2> QED BY <1>2, <2>2, <2>3, <2>5, Same, Groups DEF RedDown
  <1>3. ASSUME NEW c \in Dynamic, Renamed(c) PROVE TypeOK'
    <2>1. dns' \in [Conns -> Addrs \cup {NoAddr}]
      BY <1>3, Groups DEF Renamed, LineOK
    <2>2. LineOK'
      BY <1>3, <2>1, Groups DEF Renamed, LineOK
    <2>3. missed' \in BOOLEAN
      BY <1>3 DEF Renamed
    <2>4. BoundsOK'
      BY <1>3, <2>3, Groups DEF Renamed, BoundsOK
    <2> QED BY <1>3, <2>2, <2>4, Same, Groups DEF Renamed
  <1>4. CASE BlueRemoved
    <2>1. FilesOK'
      BY <1>4, Groups DEF BlueRemoved, FilesOK
    <2>2. BoundsOK'
      BY <1>4, Groups DEF BlueRemoved, BoundsOK
    <2> QED BY <1>4, <2>1, <2>2, Same, Groups DEF BlueRemoved
  <1> QED BY <1>1, <1>2, <1>3, <1>4

\* A child watches a connection: needed to type what it resolves.
ChildHasConn == \A w \in Watchers : wconn[w] \in Conns \/ wpc[w] = "free"

LEMMA ChildHasConnKept ==
  ASSUME TypeOK, ChildHasConn, [Next]_vars
  PROVE  ChildHasConn'
  <1> SUFFICES ASSUME NEW v \in Watchers PROVE wconn'[v] \in Conns \/ wpc'[v] = "free"
    BY DEF ChildHasConn
  <1>0. wconn[v] \in Conns \/ wpc[v] = "free"
    BY DEF ChildHasConn
  <1>1. CASE UNCHANGED <<wconn, wpc>>
    BY <1>0, <1>1
  <1>2. CASE Unwatched
    BY <1>2 DEF Unwatched
  <1>3. ASSUME NEW p \in Procs, WatchFork(p) PROVE wconn'[v] \in Conns \/ wpc'[v] = "free"
    <2>1. PICK child \in [ToWatch -> Free] :
            /\ wconn' = [w \in Watchers |->
                            IF \E c \in ToWatch : child[c] = w
                              THEN CHOOSE c \in ToWatch : child[c] = w ELSE wconn[w]]
            /\ wpc' = [w \in Watchers |->
                            IF \E c \in ToWatch : child[c] = w THEN "first" ELSE wpc[w]]
      BY <1>3 DEF WatchFork
    <2>2. CASE \E c \in ToWatch : child[c] = v
      <3>1. (CHOOSE c \in ToWatch : child[c] = v) \in ToWatch
        BY <2>2
      <3>2. wconn'[v] = CHOOSE c \in ToWatch : child[c] = v
        BY <2>1, <2>2
      <3> QED BY <3>1, <3>2 DEF ToWatch, On
    <2>3. CASE ~\E c \in ToWatch : child[c] = v
      BY <1>0, <2>1, <2>3
    <2> QED BY <2>2, <2>3
  <1>4. ASSUME NEW w \in Watchers, NEW a, Watched(w, a)
        PROVE  wconn'[v] \in Conns \/ wpc'[v] = "free" \/ (v = w /\ wconn'[v] = wconn[v])
    BY <1>0, <1>4 DEF Watched, TypeOK
  <1>5. ASSUME NEW w \in Watchers, Child(w) PROVE wconn'[v] \in Conns \/ wpc'[v] = "free"
    <2>1. wpc[w] # "free"
      BY <1>5 DEF Child, WatchFirst, WatchCheck, WatchRestart
    <2>2. wconn[w] \in Conns
      BY <2>1 DEF ChildHasConn
    <2>3. CASE \E a : Watched(w, a)
      BY <1>4, <2>2, <2>3
    <2>4. CASE ~\E a : Watched(w, a)
      BY <1>0, <1>5, <2>2, <2>4 DEF Child, WatchFirst, WatchCheck, WatchRestart, TypeOK
    <2> QED BY <2>3, <2>4
  <1>6. ASSUME NEW p \in Admins, Page(p) PROVE UNCHANGED <<wconn, wpc>>
    BY <1>6 DEF Page, Save, ToggleOn, ToggleOff, RestartConn, Remove, Edit, Request, watch
  <1>7. ASSUME NEW p \in Procs, Step(p), ~WatchFork(p), ~Unwatched PROVE UNCHANGED <<wconn, wpc>>
    BY <1>7 DEF Step, WriteConfig, writeipsecfiles, WatchStop, WatchKill, Halt, Scan,
       RulesRead, RulesFlush, RulesAdd, RulesDone, setfwrules, Launch, Keyed, WatchTest, Delayed,
       watch
  <1>8. ASSUME NEW j \in Jobs, RedUp(j) \/ RedDown(j) PROVE UNCHANGED <<wconn, wpc>>
    BY <1>8 DEF RedUp, RedDown, watch
  <1>9. CASE (\E c \in Dynamic : Renamed(c)) \/ BlueRemoved \/ Resting \/ UNCHANGED vars
    BY <1>1, <1>9 DEF Renamed, BlueRemoved, Resting, vars, watch
  <1> QED BY <1>1, <1>2, <1>3, <1>5, <1>6, <1>7, <1>8, <1>9 DEF Next

\* Every reachable state is well typed (ipsec.cgi, ipsecctrl, vpn-watch and
\* rc.updatered together), for all constants.
THEOREM TypeCorrect == Spec => []TypeOK
  <1>1. Init => TypeOK /\ ChildHasConn
    <2> SUFFICES ASSUME Init PROVE TypeOK /\ ChildHasConn
      OBVIOUS
    <2>1. FilesOK
      BY DEF Init, FilesOK
    <2>2. DaemonOK /\ ChildOK /\ LineOK /\ pipe \in BOOLEAN
      BY DEF Init, DaemonOK, ChildOK, LineOK
    <2>3. ProcOK
      BY DEF Init, ProcOK, NoRows
    <2>4. BoundsOK
      <3>1. overlap \in BOOLEAN /\ missed \in BOOLEAN
        BY DEF Init
      <3> QED BY <3>1 DEF Init, BoundsOK
    <2>5. FirewallOK
      <3>1. mixed \in BOOLEAN
        BY DEF Init
      <3> QED BY <3>1 DEF Init, FirewallOK
    <2> QED BY <2>1, <2>2, <2>3, <2>4, <2>5, Groups DEF Init, ChildHasConn
  <1>2. TypeOK /\ ChildHasConn /\ [Next]_vars => TypeOK' /\ ChildHasConn'
    <2> SUFFICES ASSUME TypeOK, ChildHasConn, [Next]_vars PROVE TypeOK'
      BY ChildHasConnKept
    <2>1. CASE UNCHANGED vars
      <3>1. UNCHANGED <<files, firewall, daemon, watch, line, pc, request, bounds>>
        BY <2>1 DEF vars
      <3>2. UNCHANGED <<pc, request>>
        BY <3>1
      <3> QED BY <3>1, <3>2, Same, Groups
    <2>2. ASSUME NEW w \in Watchers, Child(w) PROVE TypeOK'
      BY <2>2, ChildType DEF ChildHasConn
    <2> QED BY <2>1, <2>2, PageType, StepType, WorldType DEF Next, Resting
  <1> QED BY <1>1, <1>2, PTL DEF Spec

-----------------------------------------------------------------------------
\* The request of p has not read the settings for its setfwrules.
Pending(p) ==
  /\ op[p] \in {"start", "stop"}
  /\ pc[p] \in {"conf", "delay", "unwatch", "unpipe", "scan", "halt", "fwread"}

\* What the commands of p leave open when nobody else runs any.
Outcome(p) == IF pc[p] = "fwflush" THEN opened[p] ELSE fw \cup opened[p]

FwOwed ==
  Sound /\ ~mixed =>
    \/ \E p \in Procs : Pending(p)
    \/ \E p \in Procs : Rewriting(p) /\ Outcome(p) = enabled
    \/ fw = enabled /\ \A p \in Procs : ~Rewriting(p)
OneRewrites ==
  ~mixed => \A p, q \in Procs : Rewriting(p) /\ Rewriting(q) => p = q

\* A request on its way to its reading of the settings stays on it whatever
\* the others do.
LEMMA PendingKept ==
  ASSUME TypeOK, NEW p \in Procs, Pending(p), NEW q \in Procs, Step(q), ~RulesRead(q), Sound
  PROVE  Pending(p)'
  <1> USE DEF Pending, TypeOK, files, request
  <1>1. CASE WriteConfig(q)
    BY <1>1 DEF WriteConfig, Goto
  <1>2. CASE writeipsecfiles(q)
    BY <1>2 DEF writeipsecfiles, Goto, Idle
  <1>3. CASE WatchStop(q)
    BY <1>3 DEF WatchStop, Strike, Struck, AfterUnpipe, Hit
  <1>4. CASE WatchKill(q)
    BY <1>4 DEF WatchKill, Strike, Struck, AfterUnpipe, Hit
  <1>5. CASE Halt(q)
    BY <1>5 DEF Halt, setfwrules, Goto
  <1>6. CASE Scan(q)
    <2>1. ~BadSettings /\ ~BadRows
      BY DEF BadSettings, BadRows, Sound
    <2> QED BY <1>6, <2>1 DEF Scan, setfwrules, Goto
  <1>7. CASE RulesFlush(q) \/ RulesAdd(q)
    BY <1>7 DEF RulesFlush, RulesAdd, RulesDone, CtrlExit, Goto, Idle
  <1>8. CASE Launch(q) \/ Keyed(q) \/ Delayed(q)
    BY <1>8 DEF Launch, Keyed, Delayed, Goto
  <1>9. CASE WatchTest(q) \/ WatchFork(q)
    BY <1>9 DEF WatchTest, WatchFork, CtrlExit, Goto, Idle
  <1> QED BY <1>1, <1>2, <1>3, <1>4, <1>5, <1>6, <1>7, <1>8, <1>9 DEF Step

\* Only puzzleFwRules.pl touches the rules, and only its own copy.
LEMMA OthersRules ==
  ASSUME TypeOK, NEW q \in Procs, Step(q)
  PROVE  /\ UNCHANGED <<enabled, cards>>
         /\ \A p \in Procs : p # q =>
              (Rewriting(p)' <=> Rewriting(p)) /\ opened'[p] = opened[p]
              /\ (Rewriting(p) => pc'[p] = pc[p])
         /\ ~RulesRead(q) => mixed' = mixed
         /\ ~RulesRead(q) /\ ~RulesFlush(q) /\ ~RulesAdd(q) =>
              ~Rewriting(q) /\ ~Rewriting(q)' /\ fw' = fw
  <1> USE DEF TypeOK, Rewriting
  <1>1. CASE WatchStop(q) \/ WatchKill(q)
    <2>1. PICK l \in {"unpipe", "scan", "halt"} : Strike(q, l)
      BY <1>1 DEF WatchStop, WatchKill, AfterUnpipe
    <2>2. \A p \in Procs : p # q => (Rewriting(p)' <=> Rewriting(p)) /\ (Rewriting(p) => pc'[p] = pc[p])
      BY <2>1 DEF Strike, Hit, Struck, AfterUnpipe, WritesLater
    <2>3. pc'[q] = l /\ pc[q] \in {"unwatch", "unpipe"}
      BY <1>1, <2>1 DEF Strike, WatchStop, WatchKill
    <2> QED BY <1>1, <2>2, <2>3 DEF WatchStop, WatchKill, files, firewall
  <1>2. CASE Halt(q) \/ Scan(q)
    BY <1>2 DEF Halt, Scan, setfwrules, Goto, CtrlExit, Idle, files, firewall
  <1>3. CASE RulesRead(q)
    BY <1>3 DEF RulesRead, Goto, files
  <1>4. ASSUME RulesDone(q) PROVE \A p \in Procs : p # q => pc'[p] = pc[p]
    BY <1>4 DEF RulesDone, Goto, CtrlExit, Idle
  <1>5. CASE RulesFlush(q) \/ RulesAdd(q)
    BY <1>4, <1>5 DEF RulesFlush, RulesAdd, Goto, files
  <1>6. CASE WriteConfig(q) \/ writeipsecfiles(q) \/ Delayed(q)
    BY <1>6 DEF WriteConfig, writeipsecfiles, Delayed, Goto, Idle, files, firewall
  <1>7. CASE Launch(q) \/ Keyed(q) \/ WatchTest(q) \/ WatchFork(q)
    BY <1>7 DEF Launch, Keyed, WatchTest, WatchFork, CtrlExit, Goto, Idle, WritesLater, files,
       firewall
  <1> QED BY <1>1, <1>2, <1>3, <1>5, <1>6, <1>7 DEF Step

\* One that runs its commands alone leaves what it read.
LEMMA OutcomeKept ==
  ASSUME TypeOK, NEW q \in Procs, RulesFlush(q) \/ RulesAdd(q)
  PROVE  IF Rewriting(q)' THEN Outcome(q)' = Outcome(q) ELSE fw' = Outcome(q)
  <1> USE DEF TypeOK
  <1>1. ASSUME RulesDone(q), ~(pc'[q] \notin {"fwflush", "fwadd"}) PROVE FALSE
    BY <1>1 DEF RulesDone, Goto, CtrlExit, Idle
  <1>2. CASE RulesFlush(q)
    <2>1. CASE opened[q] = {}
      BY <1>1, <1>2, <2>1 DEF RulesFlush, Outcome, Rewriting
    <2>2. CASE opened[q] # {}
      <3>1. pc'[q] = "fwadd" /\ fw' = {} /\ opened' = opened /\ pc[q] = "fwflush"
        BY <1>2, <2>2 DEF RulesFlush, Goto
      <3> QED BY <3>1 DEF Outcome, Rewriting
    <2> QED BY <2>1, <2>2
  <1>3. CASE RulesAdd(q)
    <2>1. PICK c \in opened[q] :
            /\ fw' = fw \cup {c}
            /\ opened' = [opened EXCEPT ![q] = opened[q] \ {c}]
            /\ IF opened[q] = {c} THEN RulesDone(q) ELSE UNCHANGED <<after, pc, request>>
      BY <1>3 DEF RulesAdd
    <2>2. opened'[q] = opened[q] \ {c} /\ pc[q] = "fwadd"
      BY <1>3, <2>1 DEF RulesAdd
    <2>3. CASE opened[q] = {c}
      BY <1>1, <2>1, <2>2, <2>3 DEF Outcome, Rewriting
    <2>4. CASE opened[q] # {c}
      <3>1. pc' = pc
        BY <2>1, <2>4
      <3>2. fw' \cup opened'[q] = fw \cup opened[q]
        BY <2>1, <2>2
      <3> QED BY <2>2, <3>1, <3>2 DEF Outcome, Rewriting
    <2> QED BY <2>3, <2>4
  <1> QED BY <1>2, <1>3

\* The firewall is never left open, or shut, against the settings: when
\* every request has been served setfwrules has read them after the last
\* Save, and its rules are in place if it was alone, for any number of
\* overlapping requests and RED changes.  (As long as no card is removed:
\* then ipsecctrl gives up before it gets there.)
THEOREM FwIsCurrent == Spec => []FwMatches
  <1>1. Init => FwOwed /\ OneRewrites
    BY DEF Init, FwOwed, OneRewrites, Rewriting
  <1>2. TypeOK /\ FwOwed /\ OneRewrites /\ [Next]_vars => FwOwed' /\ OneRewrites'
    <2> SUFFICES ASSUME TypeOK, FwOwed, OneRewrites, [Next]_vars PROVE FwOwed' /\ OneRewrites'
      OBVIOUS
    <2>1. ASSUME NEW q \in Procs, Step(q) PROVE FwOwed' /\ OneRewrites'
      <3>1. CASE RulesRead(q)
        <4>1. /\ pc'[q] = "fwflush" /\ opened'[q] = enabled /\ enabled' = enabled
              /\ mixed' = (\E p \in Procs \ {q} : Rewriting(p))
          BY <3>1 DEF RulesRead, Goto, TypeOK, files
        <4>2. \A p \in Procs : p # q => (Rewriting(p)' <=> Rewriting(p))
          BY <2>1, OthersRules
        <4> QED BY <4>1, <4>2 DEF FwOwed, OneRewrites, Rewriting, Outcome
      <3>2. CASE RulesFlush(q) \/ RulesAdd(q)
        <4>0. ~RulesRead(q) /\ Rewriting(q)
          BY <3>2 DEF RulesRead, RulesFlush, RulesAdd, Rewriting
        <4>1. OneRewrites'
          BY <2>1, <4>0, OthersRules DEF OneRewrites
        <4>2. SUFFICES ASSUME Sound, ~mixed, \A p \in Procs : ~Pending(p)'
                       PROVE  FwOwed'
          BY <2>1, <4>0, <4>1, OthersRules DEF FwOwed, Sound
        <4>3. \A p \in Procs : ~Pending(p)
          BY <2>1, <4>0, <4>2, PendingKept
        <4>4. Outcome(q) = enabled
          BY <4>0, <4>2, <4>3 DEF FwOwed, OneRewrites
        <4>5. \A p \in Procs : p # q => ~Rewriting(p)'
          BY <2>1, <4>0, <4>2, OthersRules DEF OneRewrites
        <4> QED BY <2>1, <3>2, <4>4, <4>5, OutcomeKept, OthersRules DEF FwOwed
      <3>3. CASE ~RulesRead(q) /\ ~RulesFlush(q) /\ ~RulesAdd(q)
        <4>1. /\ ~Rewriting(q) /\ ~Rewriting(q)' /\ fw' = fw /\ mixed' = mixed
              /\ UNCHANGED <<enabled, cards>>
              /\ \A p \in Procs : p # q => (Rewriting(p)' <=> Rewriting(p)) /\ opened'[p] = opened[p]
                                       /\ (Rewriting(p) => pc'[p] = pc[p])
          BY <2>1, <3>3, OthersRules
        <4>2. \A p \in Procs : /\ Rewriting(p)' <=> Rewriting(p)
                               /\ Rewriting(p) => Outcome(p)' = Outcome(p)
          BY <4>1 DEF Outcome
        <4>3. OneRewrites'
          BY <4>1, <4>2 DEF OneRewrites
        <4>4. Sound /\ (\E p \in Procs : Pending(p)) => \E p \in Procs : Pending(p)'
          BY <2>1, <3>3, PendingKept
        <4>5. Sound' = Sound
          BY <4>1 DEF Sound
        <4> QED BY <4>1, <4>2, <4>3, <4>4, <4>5 DEF FwOwed
      <3> QED BY <3>1, <3>2, <3>3
    <2>2. ASSUME UNCHANGED <<firewall, enabled, cards>>,
                 \A p \in Procs : /\ Pending(p) => Pending(p)'
                                  /\ Rewriting(p)' <=> Rewriting(p)
                                  /\ Rewriting(p) => pc'[p] = pc[p]
          PROVE  FwOwed' /\ OneRewrites'
      <3>1. UNCHANGED <<fw, opened, mixed, enabled, cards>>
        BY <2>2 DEF firewall
      <3>2. \A p \in Procs : Rewriting(p) => Outcome(p)' = Outcome(p)
        BY <2>2, <3>1 DEF Outcome
      <3>3. OneRewrites'
        BY <2>2, <3>1 DEF OneRewrites
      <3>4. Sound' = Sound
        BY <3>1 DEF Sound
      <3> QED BY <2>2, <3>1, <3>2, <3>3, <3>4 DEF FwOwed
    <2>3. ASSUME NEW q \in Admins, NEW l \in {"conf", "write", "unwatch"}, NEW o, NEW k, NEW r,
                 Request(q, l, o, k, r)
          PROVE  \A p \in Procs : /\ Pending(p) => Pending(p)'
                                  /\ Rewriting(p)' <=> Rewriting(p)
                                  /\ Rewriting(p) => pc'[p] = pc[p]
      BY <2>3 DEF Request, Pending, Rewriting, TypeOK
    <2>4. ASSUME NEW q \in Admins, Save(q) PROVE FwOwed' /\ OneRewrites'
      <3>1. PICK o, k, r : o \in {"start", "stop"} /\ Request(q, "conf", o, k, r)
        BY <2>4 DEF Save
      <3>2. Pending(q)' /\ mixed' = mixed
        BY <3>1 DEF Request, Pending, TypeOK, firewall
      <3>3. OneRewrites'
        BY <2>3, <3>1, <3>2 DEF OneRewrites
      <3> QED BY <3>2, <3>3 DEF FwOwed
    <2>5. ASSUME NEW q \in Admins, Page(q), ~Save(q) PROVE FwOwed' /\ OneRewrites'
      <3>1. PICK l, o, k, r :
               /\ l \in {"conf", "write", "unwatch"}
               /\ Request(q, l, o, k, r) /\ UNCHANGED files
        BY <2>5 DEF Page, ToggleOn, ToggleOff, RestartConn, Remove, Edit
      <3>2. UNCHANGED <<firewall, enabled, cards>>
        BY <3>1 DEF Request, files
      <3> QED BY <2>2, <2>3, <3>1, <3>2
    <2>6. ASSUME NEW w \in Watchers, Child(w) PROVE FwOwed' /\ OneRewrites'
      BY <2>2, <2>6 DEF Child, WatchFirst, WatchCheck, WatchRestart, Pending, Rewriting, files,
         request
    <2>7. ASSUME NEW j \in Jobs, RedUp(j) \/ RedDown(j) PROVE FwOwed' /\ OneRewrites'
      BY <2>2, <2>7 DEF RedUp, RedDown, Pending, Rewriting, TypeOK, files
    <2>8. CASE (\E c \in Dynamic : Renamed(c)) \/ UNCHANGED vars
      BY <2>2, <2>8 DEF Renamed, vars, Pending, Rewriting, files, request
    <2>9. CASE BlueRemoved
      <3>1. ~Sound' /\ UNCHANGED <<firewall, pc>>
        BY <2>9 DEF BlueRemoved, Sound
      <3> QED BY <3>1 DEF FwOwed, OneRewrites, Rewriting, firewall
    <2> QED BY <2>1, <2>4, <2>5, <2>6, <2>7, <2>8, <2>9 DEF Next, Resting
  <1>3. FwOwed => FwMatches
    BY DEF FwOwed, FwMatches, Pending, Rewriting, Quiet
  <1> QED BY <1>1, <1>2, <1>3, TypeCorrect, PTL DEF Spec

-----------------------------------------------------------------------------
(* What each process is doing where it is, and who is alone.               *)

\* The points of ipsecctrl, and of a job that will call it.
FwPoints == {"fwread", "fwflush", "fwadd"}
InCtrl == {"delay", "unwatch", "unpipe", "scan", "halt", "launch", "keyed", "watchtest", "watchfork"}
            \cup FwPoints

\* setfwrules was called on the way to launching pluto.
WillLaunch(p) == pc[p] = "launch" \/ (pc[p] \in FwPoints /\ after[p] = "launch")

\* Which call of ipsecctrl gets where, and what its page has set for it.
Places ==
  \A p \in Procs :
    /\ p \notin Admins => pc[p] \notin {"write", "conf"}
    /\ p \notin Admins => op[p] \in {"none", "start", "stop"}
    /\ pc[p] = "idle" => op[p] = "none"
    /\ pc[p] \in InCtrl => op[p] # "none"
    /\ pc[p] \in {"scan", "keyed", "watchtest", "watchfork"} \/ WillLaunch(p) => op[p] # "stop"
    /\ pc[p] = "keyed" => op[p] \in {"startkey", "stopkey"}
    /\ pc[p] = "write" => op[p] \in {"none", "startkey", "stopkey"} /\ key[p] \in Conns
    /\ op[p] \in {"startkey", "stopkey"} => key[p] \in Conns
    /\ op[p] = "stopkey" => row[p] # "on"

\* Calls that have not overlapped follow one another.
Alone == ~overlap => \A p, q \in Procs : pc[p] # "idle" /\ pc[q] # "idle" => p = q

\* Pages follow one another: the calls have, or there is only one page.
OnePage == ~overlap \/ \A p, q \in Admins : p = q

\* The config a page read is still the one in the file, ipsec.conf lacks a
\* connection that is on only until the page that turned it on writes it,
\* and a page that does not call ipsecctrl finds IPsec disabled throughout.
PageInv ==
  OnePage =>
    /\ \A p \in Admins : pc[p] = "write" \/ (op[p] = "stopkey" /\ pc[p] # "conf")
                           => copy[p] = config
    /\ \A c \in On \ conf : \E p \in Admins :
          pc[p] = "conf" /\ key[p] = c /\ op[p] \in {"startkey", "none"}
    /\ \A p \in Admins : pc[p] \in {"write", "conf"} /\ op[p] = "none" => enabled = {}

\* The call of p will have connection c loaded, or taken out of the config.
Owes(p, c) ==
  \/ /\ op[p] = "start"
     /\ pc[p] \in {"conf", "delay", "unwatch", "unpipe", "scan"} \/ WillLaunch(p)
  \/ /\ op[p] = "startkey" /\ key[p] = c
     /\ pc[p] \in {"conf", "unwatch", "unpipe", "scan", "keyed"} \/ WillLaunch(p)
  \/ op[p] = "stopkey" /\ key[p] = c /\ pc[p] \in {"watchtest", "watchfork", "write"}
LoadOwed ==
  pluto /\ Sound /\ iface /\ enabled # {} =>
    \A c \in On \ loaded : \E p \in Procs : Owes(p, c)

\* A disabled IPsec still runs only while its stop is under way.
StopOwed ==
  ~overlap =>
    /\ \A p \in Procs : WillLaunch(p) => enabled # {}
    /\ pluto /\ enabled = {} =>
         \E p \in Procs : op[p] = "stop" /\ pc[p] \in {"conf", "unwatch", "unpipe", "halt"}

\* No child is left between vpn-watch --stop and vpn-watch --start.
NoChild ==
  ~overlap =>
    \A p \in Procs :
      pc[p] \in {"unpipe", "scan", "halt", "launch", "keyed", "watchtest", "watchfork"} \cup FwPoints
        => \A w \in Watchers : wpc[w] = "free"

\* What ipsec.conf has and the config does not is about to be rewritten; a
\* page that writes a row off has unloaded it, or found it off, or found
\* IPsec disabled.
ConfKept ==
  ~overlap =>
    conf \subseteq On \/ \E p \in Procs : pc[p] = "conf" /\ op[p] \in {"stopkey", "none"}
RowIsOff ==
  ~overlap =>
    \A p \in Procs : pc[p] = "write" /\ row[p] # "on" =>
      op[p] \in {"stopkey", "none"} \/ config[key[p]] # "on"

\* While a connection is being stopped no child is about to restart it: its
\* name has not moved since the child looked.
StillNames ==
  ~overlap /\ ~missed =>
    \A p \in Procs : op[p] = "stopkey" /\ pc[p] # "unwatch" =>
      \A w \in Watchers : /\ wpc[w] # "restart"
                          /\ wpc[w] = "sleep" => wold[w] = Resolve(wconn[w])

\* What pluto has is on, and what is being stopped is gone before its row is.
Unloaded ==
  pluto /\ Sound /\ iface /\ ~overlap /\ ~missed =>
    /\ loaded \subseteq On
    /\ \A p \in Procs : op[p] = "stopkey" /\ pc[p] \in {"watchtest", "watchfork", "write"}
                          => key[p] \notin loaded

\* A call that exits after setfwrules has stopped pluto, or has nothing to
\* offer.
ExitsRightly ==
  ~overlap =>
    \A p \in Procs : pc[p] \in FwPoints /\ after[p] = "exit" => ~pluto \/ NothingToDo

\* The call of p will start the watchers, or stop pluto.
WillWatch(p) ==
  \/ pc[p] \in InCtrl
  \/ pc[p] = "conf" /\ op[p] \in {"start", "startkey", "stop"}
WatchOwed ==
  ~overlap /\ moves = 0 /\ pluto /\ Sound /\ enabled # {} /\ vpnwatch /\ red =>
    \A c \in ToWatch : WatchedNow(c) \/ \E p \in Procs : WillWatch(p)
NamesResolve ==
  moves = 0 =>
    /\ dns \in [Conns -> Addrs]
    /\ red => iface
    /\ red /\ ~overlap => \A w \in Watchers : wpc[w] = "restart" /\ wnew[w] = NoAddr =>
                             \E p \in Procs : pc[p] \in {"delay", "unwatch"}

-----------------------------------------------------------------------------
\* A step of puzzleFwRules.pl: the call goes on in it, or leaves it for what
\* its ipsecctrl had set for it.
Ruling(p) == RulesRead(p) \/ RulesFlush(p) \/ RulesAdd(p)
LEMMA RulesStep ==
  ASSUME TypeOK, NEW p \in Procs, Ruling(p)
  PROVE  /\ pc[p] \in FwPoints /\ UNCHANGED <<files, daemon, watch, line, bounds>>
         /\ \/ pc'[p] \in FwPoints /\ UNCHANGED <<request, after>>
            \/ after[p] = "launch" /\ pc'[p] = "launch" /\ UNCHANGED request
            \/ after[p] = "exit" /\ op[p] = "stopkey" /\ pc'[p] = "write" /\ UNCHANGED request
            \/ after[p] = "exit" /\ op[p] # "stopkey" /\ pc'[p] = "idle" /\ op'[p] = "none"
  <1> USE DEF TypeOK, FwPoints
  <1>1. pc[p] \in FwPoints /\ UNCHANGED <<files, daemon, watch, line, bounds>>
    BY DEF Ruling, RulesRead, RulesFlush, RulesAdd
  <1>2. CASE RulesDone(p)
    <2>1. CASE after[p] = "launch"
      BY <1>1, <1>2, <2>1 DEF RulesDone, Goto
    <2>2. CASE after[p] = "exit" /\ op[p] = "stopkey"
      BY <1>1, <1>2, <2>2 DEF RulesDone, CtrlExit, WritesLater
    <2>3. CASE after[p] = "exit" /\ op[p] # "stopkey"
      BY <1>1, <1>2, <2>3 DEF RulesDone, CtrlExit, WritesLater, Idle
    <2> QED BY <2>1, <2>2, <2>3
  <1>3. CASE ~RulesDone(p)
    <2>1. CASE RulesAdd(p)
      <3>1. UNCHANGED <<pc, request, after>>
        BY <1>3, <2>1 DEF RulesAdd
      <3> QED BY <1>1, <3>1
    <2>2. CASE RulesRead(p) \/ RulesFlush(p)
      <3>1. (\E l \in {"fwflush", "fwadd"} : Goto(p, l)) /\ after' = after
        BY <1>3, <2>2 DEF RulesRead, RulesFlush
      <3> QED BY <1>1, <3>1 DEF Goto
    <2> QED BY <2>1, <2>2 DEF Ruling
  <1> QED BY <1>2, <1>3

\* Every way a request begins.
LEMMA PageIs ==
  ASSUME TypeOK, NEW p \in Admins, Page(p)
  PROVE  \E l \in {"conf", "write", "unwatch"}, o \in CtrlOps, k \in Conns \cup {None}, r \in Rows :
           /\ Request(p, l, o, k, r)
           /\ l = "conf" => o \in {"start", "stop"} /\ (o = "stop" <=> enabled' = {})
           /\ l = "conf" => UNCHANGED <<config, conf, cards>>
           /\ l # "conf" => k \in Conns /\ UNCHANGED files
           /\ l = "write" => o \in {"none", "startkey"} /\ (o = "none" <=> enabled = {})
           /\ l = "unwatch" => o \in {"startkey", "stopkey"}
           /\ o = "stopkey" => r # "on"
           /\ l = "write" /\ r # "on" /\ "disable" \notin GuiOps => config[k] # "on" \/ enabled = {}
  <1>1. CASE Save(p)
    <2>1. PICK e \in SUBSET cards, on \in BOOLEAN :
            /\ enabled' = e
            /\ Request(p, "conf", IF e # {} THEN "start" ELSE "stop", None, "none")
      BY <1>1 DEF Save
    <2>2. CASE e = {}
      <3>1. Request(p, "conf", "stop", None, "none") BY <2>1, <2>2
      <3> QED BY <1>1, <2>1, <2>2, <3>1 DEF Save
    <2>3. CASE e # {}
      <3>1. Request(p, "conf", "start", None, "none") BY <2>1, <2>3
      <3> QED BY <1>1, <2>1, <2>3, <3>1 DEF Save
    <2> QED BY <2>2, <2>3
  <1>2. ASSUME NEW k \in Conns, ToggleOn(p, k) PROVE Request(p, "write", StartKey, k, "on") /\ UNCHANGED files
    BY <1>2 DEF ToggleOn
  <1>3. ASSUME NEW k \in Conns, ToggleOff(p, k)
        PROVE  /\ UNCHANGED files
               /\ \/ enabled # {} /\ Request(p, "unwatch", "stopkey", k, "off")
                  \/ enabled = {} /\ Request(p, "write", "none", k, "off")
    BY <1>3 DEF ToggleOff, ipsecenabled
  <1>4. ASSUME NEW k \in Conns, RestartConn(p, k)
        PROVE Request(p, "unwatch", "startkey", k, "none") /\ UNCHANGED files
    BY <1>4 DEF RestartConn
  <1>5. ASSUME NEW k \in Conns, Remove(p, k)
        PROVE  /\ UNCHANGED files
               /\ \/ enabled # {} /\ Request(p, "unwatch", "stopkey", k, "none")
                  \/ enabled = {} /\ Request(p, "write", "none", k, "none")
    BY <1>5 DEF Remove, ipsecenabled
  <1>6. ASSUME NEW k \in Conns, Edit(p, k)
        PROVE  /\ UNCHANGED files
               /\ \E r \in {"on", "off"} :
                    /\ Request(p, "write", StartKey, k, r)
                    /\ "disable" \notin GuiOps => r = "on" \/ config[k] # "on"
    BY <1>6 DEF Edit
  <1>7. StartKey \in {"none", "startkey"} /\ (StartKey = "none" <=> enabled = {})
    BY DEF StartKey, ipsecenabled
  <1> QED BY <1>1, <1>2, <1>3, <1>4, <1>5, <1>6, <1>7 DEF Page

\* What has overlapped, moved or been removed stays so.
LEMMA History ==
  ASSUME TypeOK, [Next]_vars
  PROVE  /\ overlap => overlap'
         /\ missed => missed'
         /\ moves' = 0 => moves = 0 /\ dns' = dns
         /\ Sound' => Sound
         /\ iface => iface'
  <1>1. ASSUME NEW p \in Admins, Page(p)
        PROVE  overlap' = (overlap \/ ~Quiet) /\ missed' = missed /\ moves' = moves /\ cards' = cards
               /\ dns' = dns /\ iface' = iface
    BY <1>1, PageIs DEF Request, files, line
  <1>2. ASSUME NEW j \in Jobs, RedUp(j) \/ RedDown(j)
        PROVE  /\ overlap' = (overlap \/ ~Quiet) /\ missed' = missed /\ moves' = moves /\ cards' = cards
               /\ dns' = dns /\ (iface => iface')
    BY <1>2 DEF RedUp, RedDown, files
  <1>3. ASSUME NEW p \in Procs, Step(p)
        PROVE  UNCHANGED <<overlap, missed, moves, cards, dns, iface>>
    BY <1>3 DEF Step, WriteConfig, writeipsecfiles, WatchStop, WatchKill, Halt, Scan,
       RulesRead, RulesFlush, RulesAdd, RulesDone, setfwrules, Launch, Keyed, WatchTest,
       WatchFork, Delayed, bounds, files, line
  <1>4. ASSUME NEW w \in Watchers, Child(w)
        PROVE  UNCHANGED <<overlap, missed, moves, cards, dns, iface>>
    BY <1>4 DEF Child, WatchFirst, WatchCheck, WatchRestart, bounds, files, line
  <1>5. ASSUME NEW c \in Dynamic, Renamed(c)
        PROVE  /\ overlap' = overlap /\ moves' # 0 /\ cards' = cards /\ iface' = iface
               /\ missed' = (missed \/ ~Quiet \/ \E w \in Watchers : wpc[w] = "first")
    BY <1>5 DEF Renamed, files, TypeOK
  <1>6. CASE BlueRemoved
    BY <1>6 DEF BlueRemoved, Sound, line
  <1>7. CASE UNCHANGED vars
    BY <1>7 DEF vars, Sound, bounds, files, line
  <1> QED BY <1>1, <1>2, <1>3, <1>4, <1>5, <1>6, <1>7 DEF Next, Resting, Sound

\* Calls that follow one another are not struck by each other's signal.
LEMMA StrikeAlone ==
  ASSUME TypeOK, Alone, ~overlap, NEW p \in Procs, pc[p] # "idle", NEW l \in ProcPC, Strike(p, l)
  PROVE  Goto(p, l)
  <1>1. \A q \in Procs : q # p => pc[q] = "idle"
    BY DEF Alone
  <1>2. \A q \in Procs : q # p => ~Hit(q)
    BY <1>1 DEF Hit
  <1>3. pc' = [pc EXCEPT ![p] = l]
    BY <1>2 DEF Strike, TypeOK
  <1>4. op' = [q \in Procs |-> op[q]] /\ key' = [q \in Procs |-> key[q]]
         /\ row' = [q \in Procs |-> row[q]] /\ copy' = [q \in Procs |-> copy[q]]
    BY <1>2 DEF Strike
  <1>5. op = [q \in Procs |-> op[q]] /\ key = [q \in Procs |-> key[q]]
         /\ row = [q \in Procs |-> row[q]] /\ copy = [q \in Procs |-> copy[q]]
    BY DEF TypeOK
  <1> QED BY <1>3, <1>4, <1>5 DEF Goto, request

\* Two processes are at work only after calls have overlapped.
LEMMA AloneKept ==
  ASSUME TypeOK, Alone, [Next]_vars
  PROVE  Alone'
  <1>1. ASSUME NEW p \in Procs, Step(p) PROVE Alone'
    <2>1. overlap' = overlap /\ pc[p] # "idle"
      BY <1>1 DEF Step, WriteConfig, writeipsecfiles, WatchStop, WatchKill, Halt, Scan,
         RulesRead, RulesFlush, RulesAdd, RulesDone, setfwrules, Launch, Keyed, WatchTest,
         WatchFork, Delayed, bounds
    <2>2. SUFFICES ASSUME ~overlap PROVE \A q \in Procs : q # p => pc'[q] = "idle"
      BY <2>1 DEF Alone
    <2>3. \A q \in Procs : q # p => pc[q] = "idle"
      BY <2>1, <2>2 DEF Alone
    <2>4. \A l : Goto(p, l) => pc' = [pc EXCEPT ![p] = l]
      BY DEF Goto
    <2>5. \A l \in ProcPC : Strike(p, l) => pc' = [pc EXCEPT ![p] = l]
      BY <2>1, <2>2, StrikeAlone DEF Goto
    <2>7. pc' = pc => pc' = [pc EXCEPT ![p] = pc[p]]
      BY DEF TypeOK
    <2>6. \E l : pc' = [pc EXCEPT ![p] = l]
      BY <1>1, <2>4, <2>5, <2>7 DEF Step, WriteConfig, writeipsecfiles, WatchStop, WatchKill,
         Halt, Scan, RulesRead, RulesFlush, RulesAdd, RulesDone, setfwrules, Launch, Keyed,
         WatchTest, WatchFork, Delayed, CtrlExit, Idle, AfterUnpipe
    <2> QED BY <2>3, <2>6 DEF TypeOK
  <1>2. ASSUME NEW p \in Procs, NEW l, pc' = [pc EXCEPT ![p] = l], overlap' = (overlap \/ ~Quiet)
        PROVE Alone'
    BY <1>2 DEF Alone, Quiet, TypeOK
  <1>3. ASSUME NEW p \in Admins, Page(p) PROVE Alone'
    <2>1. \E l : pc' = [pc EXCEPT ![p] = l] /\ overlap' = (overlap \/ ~Quiet)
      BY <1>3, PageIs DEF Request
    <2> QED BY <1>2, <2>1
  <1>4. ASSUME NEW j \in Jobs, RedUp(j) \/ RedDown(j) PROVE Alone'
    <2>1. \E l : pc' = [pc EXCEPT ![j] = l] /\ overlap' = (overlap \/ ~Quiet)
      BY <1>4 DEF RedUp, RedDown
    <2> QED BY <1>2, <2>1
  <1>5. CASE UNCHANGED <<pc, overlap>>
    BY <1>5 DEF Alone
  <1>6. CASE (\E w \in Watchers : Child(w)) \/ (\E c \in Dynamic : Renamed(c)) \/ BlueRemoved
             \/ Resting \/ UNCHANGED vars
    BY <1>5, <1>6 DEF Child, WatchFirst, WatchCheck, WatchRestart, Renamed, BlueRemoved, Resting,
                      vars, bounds
  <1> QED BY <1>1, <1>3, <1>4, <1>6 DEF Next

\* No step takes a call where it cannot get: not the signal of another's
\* vpn-watch --stop either.
LEMMA PlacesKept ==
  ASSUME TypeOK, Places, [Next]_vars
  PROVE  Places'
  <1>0. ASSUME NEW p \in Admins, Page(p)
        PROVE  \E l \in {"conf", "write", "unwatch"}, o \in CtrlOps, k \in Conns \cup {None}, r \in Rows :
           /\ Request(p, l, o, k, r)
           /\ l = "conf" => o \in {"start", "stop"}
           /\ l # "conf" => k \in Conns
           /\ l = "write" => o \in {"none", "startkey"}
           /\ l = "unwatch" => o \in {"startkey", "stopkey"}
           /\ o = "stopkey" => r # "on"
    BY <1>0, PageIs
  <1> USE DEF TypeOK, Places, InCtrl, FwPoints, WillLaunch
  <1>1. ASSUME NEW p \in Admins, Page(p) PROVE Places'
    <2>1. PICK l \in {"conf", "write", "unwatch"}, o \in CtrlOps, k \in Conns \cup {None}, r \in Rows :
           /\ Request(p, l, o, k, r)
           /\ l = "conf" => o \in {"start", "stop"}
           /\ l # "conf" => k \in Conns
           /\ l = "write" => o \in {"none", "startkey"}
           /\ l = "unwatch" => o \in {"startkey", "stopkey"}
           /\ o = "stopkey" => r # "on"
      BY <1>0, <1>1
    <2>2. \A q \in Procs : q # p => UNCHANGED <<pc[q], op[q], key[q], row[q], after[q]>>
      BY <2>1 DEF Request, firewall
    <2>3. pc'[p] = l /\ op'[p] = o /\ key'[p] = k /\ row'[p] = r
      BY <2>1 DEF Request
    <2> QED BY <2>1, <2>2, <2>3
  <1> DEFINE Kept(p) == \A q \in Procs : q # p => after'[q] = after[q]
  <1>2. ASSUME NEW p \in Procs, Idle(p), Kept(p) PROVE Places'
    BY <1>2 DEF Idle
  <1>3. ASSUME NEW p \in Procs, CtrlExit(p), pc[p] # "idle", Kept(p) PROVE Places'
    BY <1>2, <1>3 DEF CtrlExit, WritesLater, request
  <1>4. ASSUME NEW p \in Procs, WriteConfig(p) \/ writeipsecfiles(p) \/ Delayed(p) PROVE Places'
    BY <1>2, <1>4 DEF WriteConfig, writeipsecfiles, Delayed, Goto, request, firewall
  <1>5. ASSUME NEW p \in Procs, WatchStop(p) \/ WatchKill(p) PROVE Places'
    <2>1. PICK l \in {"unpipe", "scan", "halt"} :
            /\ Strike(p, l)
            /\ l = "scan" => op[p] # "stop"
            /\ op[p] # "none"
            /\ after' = after
      BY <1>5 DEF WatchStop, WatchKill, AfterUnpipe, firewall
    <2>2. ASSUME NEW q \in Procs, q # p, Hit(q), Struck(q) = "idle"
          PROVE  pc'[q] = "idle" /\ op'[q] = "none" /\ key'[q] = None /\ row'[q] = "none"
      BY <2>1, <2>2 DEF Strike
    <2>3. ASSUME NEW q \in Procs, q # p, ~Hit(q)
          PROVE  pc'[q] = pc[q] /\ op'[q] = op[q] /\ key'[q] = key[q] /\ row'[q] = row[q]
      BY <2>1, <2>3 DEF Strike
    <2>4. ASSUME NEW q \in Procs, q # p, Hit(q), Struck(q) # "idle"
          PROVE  pc'[q] = Struck(q) /\ op'[q] = op[q] /\ key'[q] = key[q] /\ row'[q] = row[q]
      BY <2>1, <2>4 DEF Strike
    <2>5. pc'[p] = l /\ op'[p] = op[p] /\ key'[p] = key[p] /\ row'[p] = row[p]
      BY <2>1 DEF Strike
    <2> QED BY <2>1, <2>2, <2>3, <2>4, <2>5 DEF Hit, Struck, AfterUnpipe, WritesLater
  <1>6. ASSUME NEW p \in Procs, Halt(p) \/ Scan(p) PROVE Places'
    <2>1. CASE setfwrules(p, "exit")
      BY <1>6, <2>1 DEF Halt, Scan, setfwrules, Goto, request
    <2>2. CASE Scan(p) /\ setfwrules(p, "launch")
      BY <2>2 DEF Scan, setfwrules, Goto, request
    <2>3. CASE Scan(p) /\ UNCHANGED firewall
      BY <1>3, <2>3 DEF Scan, setfwrules, Goto, request, firewall
    <2> QED BY <1>6, <2>1, <2>2, <2>3 DEF Halt, Scan
  <1>12. ASSUME NEW p \in Procs, RulesDone(p), pc[p] \in FwPoints PROVE Places'
    <2>1. Kept(p)
      BY <1>12 DEF RulesDone
    <2>2. CASE after[p] = "launch"
      BY <1>12, <2>1, <2>2 DEF RulesDone, Goto, request
    <2>3. CASE after[p] # "launch"
      BY <1>3, <1>12, <2>1, <2>3 DEF RulesDone
    <2> QED BY <2>2, <2>3
  <1>13. ASSUME NEW p \in Procs, RulesRead(p) \/ RulesFlush(p) \/ RulesAdd(p) PROVE Places'
    <2>1. CASE RulesDone(p)
      BY <1>12, <1>13, <2>1 DEF RulesRead, RulesFlush, RulesAdd
    <2>2. CASE UNCHANGED <<pc, request, after>>
      BY <2>2 DEF request
    <2>3. CASE (\E l \in {"fwflush", "fwadd"} : Goto(p, l)) /\ after' = after
      <3>1. PICK l \in {"fwflush", "fwadd"} : pc' = [pc EXCEPT ![p] = l]
        BY <2>3 DEF Goto
      <3>2. UNCHANGED <<op, key, row, after>> /\ pc[p] \in FwPoints
        BY <1>13, <2>3 DEF RulesRead, RulesFlush, RulesAdd, Goto, request
      <3>3. \A q \in Procs : pc'[q] = pc[q] \/ (q = p /\ pc[q] \in FwPoints /\ pc'[q] \in FwPoints)
        BY <3>1, <3>2
      <3> QED BY <3>2, <3>3
    <2> QED BY <1>13, <2>1, <2>2, <2>3 DEF RulesRead, RulesFlush, RulesAdd
  <1>7. ASSUME NEW p \in Procs, Launch(p) \/ Keyed(p) PROVE Places'
    BY <1>7 DEF Launch, Keyed, Goto, request, firewall
  <1>8. ASSUME NEW p \in Procs, WatchTest(p) \/ WatchFork(p) PROVE Places'
    BY <1>3, <1>8 DEF WatchTest, WatchFork, Goto, request, firewall
  <1>9. ASSUME NEW j \in Jobs, RedUp(j) \/ RedDown(j) PROVE Places'
    BY <1>9 DEF RedUp, RedDown, firewall
  <1>10. CASE UNCHANGED <<pc, request, firewall>>
    BY <1>10 DEF request, firewall
  <1>11. CASE (\E w \in Watchers : Child(w)) \/ (\E c \in Dynamic : Renamed(c)) \/ BlueRemoved
             \/ Resting \/ UNCHANGED vars
    BY <1>10, <1>11 DEF Child, WatchFirst, WatchCheck, WatchRestart, Renamed, BlueRemoved, Resting,
                      vars
  <1> QED BY <1>1, <1>4, <1>5, <1>6, <1>7, <1>8, <1>9, <1>11, <1>13 DEF Next, Step

\* The lines on which each request is: facts used by every proof below.
Lines == TypeOK /\ ChildHasConn /\ Places /\ Alone

\* Who does what is known in every reachable state.
LEMMA LinesKept == Spec => []Lines
  <1>1. Init => Places /\ Alone /\ ChildHasConn
    BY DEF Init, Places, Alone, InCtrl, FwPoints, WillLaunch, ChildHasConn
  <1>2. TypeOK /\ ChildHasConn /\ Places /\ Alone /\ [Next]_vars => ChildHasConn' /\ Places' /\ Alone'
    BY ChildHasConnKept, PlacesKept, AloneKept
  <1> QED BY <1>1, <1>2, TypeCorrect, PTL DEF Spec, Lines

-----------------------------------------------------------------------------
\* The step of a call that is alone: it alone moves, and the record of
\* overlaps stays clear.
LEMMA StepAlone ==
  ASSUME Lines, ~overlap, NEW p \in Procs, Step(p)
  PROVE  /\ pc[p] # "idle" /\ ~overlap' /\ missed' = missed
         /\ UNCHANGED <<enabled, vpnwatch, cards, line, moves>>
         /\ \A q \in Procs : q # p => pc[q] = "idle" /\ pc'[q] = "idle" /\ op'[q] = "none"
         /\ pc'[p] # "idle" => UNCHANGED request
         /\ op'[p] = "none" \/ (pc'[p] # "idle" /\ op'[p] = op[p])
  <1> USE DEF Lines
  <1>1. /\ overlap' = overlap /\ pc[p] # "idle" /\ missed' = missed
        /\ UNCHANGED <<enabled, vpnwatch, cards, line, moves>>
    BY DEF Step, WriteConfig, writeipsecfiles, WatchStop, WatchKill, Halt, Scan, RulesRead,
       RulesFlush, RulesAdd, RulesDone, setfwrules, Launch, Keyed, WatchTest, WatchFork, Delayed,
       bounds, files
  <1>2. \A q \in Procs : q # p => pc[q] = "idle" /\ op[q] = "none"
    BY <1>1 DEF Alone, Places
  <1>3. \A l \in ProcPC : Strike(p, l) => Goto(p, l)
    BY <1>1, StrikeAlone
  <1>4. (\E l \in ProcPC \ {"idle"} : Goto(p, l)) \/ Idle(p) \/ UNCHANGED <<pc, request>>
    BY <1>3 DEF Step, WriteConfig, writeipsecfiles, WatchStop, WatchKill, Halt, Scan,
       RulesRead, RulesFlush, RulesAdd, RulesDone, setfwrules, Launch, Keyed, WatchTest,
       WatchFork, Delayed, CtrlExit, Goto, AfterUnpipe
  <1>5. CASE Idle(p)
    BY <1>1, <1>2, <1>5 DEF Idle, TypeOK
  <1>6. ASSUME NEW l \in ProcPC \ {"idle"}, Goto(p, l)
        PROVE  /\ pc'[p] = l /\ UNCHANGED request
               /\ \A q \in Procs : q # p => pc'[q] = "idle" /\ op'[q] = "none"
    BY <1>2, <1>6 DEF Goto, TypeOK, request
  <1>7. UNCHANGED request => op'[p] = op[p]
    BY DEF request
  <1>8. CASE UNCHANGED <<pc, request>>
    BY <1>1, <1>2, <1>7, <1>8 DEF request
  <1> QED BY <1>1, <1>2, <1>4, <1>5, <1>6, <1>7, <1>8

\* No child of vpn-watch outlives the vpn-watch --stop of a call.
LEMMA NoChildKept ==
  ASSUME Lines, NoChild, [Next]_vars
  PROVE  NoChild'
  <1> USE DEF Lines, FwPoints
  <1> DEFINE After == {"unpipe", "scan", "halt", "launch", "keyed", "watchtest", "watchfork"}
                        \cup FwPoints
  <1>1. ASSUME NEW p \in Procs, Step(p) PROVE NoChild'
    <2>1. CASE overlap
      BY <1>1, <2>1 DEF NoChild, Step, WriteConfig, writeipsecfiles, WatchStop, WatchKill, Halt,
             Scan, RulesRead, RulesFlush, RulesAdd, RulesDone, setfwrules, Launch,
             Keyed, WatchTest, WatchFork, Delayed, bounds
    <2>2. CASE ~overlap /\ Unwatched
      BY <2>2 DEF NoChild, Unwatched
    <2>3. CASE ~overlap /\ ~Unwatched
      <3>1. \A q \in Procs : q # p => pc'[q] = "idle"
        BY <1>1, <2>3, StepAlone
      <3>2. SUFFICES ASSUME pc'[p] \in After PROVE \A w \in Watchers : wpc'[w] = "free"
        BY <3>1 DEF NoChild
      <3>3. pc[p] \in After /\ wpc' = wpc
        <4>1. CASE Ruling(p)
          BY <4>1, RulesStep DEF watch
        <4>2. CASE Halt(p) \/ Scan(p)
          BY <2>3, <4>2 DEF Halt, Scan, watch
        <4>3. CASE ~Ruling(p) /\ ~Halt(p) /\ ~Scan(p)
          BY <1>1, <2>3, <3>2, <4>3 DEF Step, WriteConfig, writeipsecfiles, WatchStop, WatchKill,
             Ruling, Launch, Keyed, WatchTest, WatchFork, Delayed, watch, Goto, CtrlExit, Idle, TypeOK,
             WritesLater
        <4> QED BY <4>1, <4>2, <4>3
      <3> QED BY <2>3, <3>3 DEF NoChild
    <2> QED BY <2>1, <2>2, <2>3
  <1>2. ASSUME NEW p \in Procs, NEW l \in {"conf", "write", "unwatch", "delay"},
               pc' = [pc EXCEPT ![p] = l], overlap' = (overlap \/ ~Quiet), wpc' = wpc
        PROVE NoChild'
    BY <1>2 DEF NoChild, TypeOK
  <1>3. ASSUME NEW p \in Admins, Page(p) PROVE NoChild'
    <2>1. PICK l \in {"conf", "write", "unwatch"} : \E o, k, r : Request(p, l, o, k, r)
      BY <1>3, PageIs
    <2> QED BY <1>2, <2>1 DEF Request, watch
  <1>4. ASSUME NEW j \in Jobs, RedUp(j) \/ RedDown(j) PROVE NoChild'
    BY <1>2, <1>4 DEF RedUp, RedDown, watch
  <1>5. ASSUME NEW w \in Watchers, Child(w) PROVE NoChild'
    <2>1. wpc[w] # "free" /\ UNCHANGED <<pc, overlap>>
      BY <1>5 DEF Child, WatchFirst, WatchCheck, WatchRestart, bounds
    <2> QED BY <2>1 DEF NoChild
  <1>6. CASE UNCHANGED <<pc, overlap, wpc>>
    BY <1>6 DEF NoChild
  <1>7. CASE (\E c \in Dynamic : Renamed(c)) \/ BlueRemoved \/ Resting \/ UNCHANGED vars
    BY <1>6, <1>7 DEF Renamed, BlueRemoved, Resting, vars, bounds, watch
  <1> QED BY <1>1, <1>3, <1>4, <1>5, <1>7 DEF Next

\* A child watches the same connection until it ends.
LEMMA ChildConn ==
  ASSUME TypeOK, NEW w \in Watchers, Child(w)
  PROVE  /\ \A v \in Watchers : wpc'[v] # "free" => wconn'[v] = wconn[v] /\ wpc[v] # "free"
         /\ \A v \in Watchers : v # w => wpc'[v] = wpc[v] /\ wconn'[v] = wconn[v] /\ wold'[v] = wold[v]
                                         /\ wnew'[v] = wnew[v]
         /\ UNCHANGED <<files, firewall, pluto, pipe, line, pc, request, bounds>>
  <1>0. wpc[w] # "free" /\ UNCHANGED <<files, firewall, pluto, pipe, line, pc, request, bounds>>
    BY DEF Child, WatchFirst, WatchCheck, WatchRestart, daemon
  <1>1. ASSUME NEW a, Watched(w, a)
        PROVE  /\ wpc'[w] # "free" => wconn'[w] = wconn[w]
               /\ \A v \in Watchers : v # w => wpc'[v] = wpc[v] /\ wconn'[v] = wconn[v]
                                        /\ wold'[v] = wold[v] /\ wnew'[v] = wnew[v]
    <2>1. CASE a = NoAddr BY <1>1, <2>1 DEF Watched, TypeOK
    <2>2. CASE a # NoAddr BY <1>1, <2>2 DEF Watched, TypeOK
    <2> QED BY <2>1, <2>2
  <1>2. CASE \E a : Watched(w, a)
    BY <1>0, <1>1, <1>2
  <1>3. CASE ~\E a : Watched(w, a)
    <2>1. wnew' = [wnew EXCEPT ![w] = Resolve(wconn[w])] /\ wpc' = [wpc EXCEPT ![w] = "restart"]
           /\ UNCHANGED <<wconn, wold>>
      BY <1>3 DEF Child, WatchFirst, WatchCheck, WatchRestart
    <2> QED BY <1>0, <2>1 DEF TypeOK
  <1> QED BY <1>2, <1>3

\* A connection never has two watchers: what vpn-watch --start forks it
\* forks once for each connection, and it finds no child of an earlier one.
THEOREM OneWatcherEach == Spec => []OneWatcher
  <1>1. Init => NoChild /\ OneWatcher
    BY DEF Init, NoChild, OneWatcher
  <1>2. Lines /\ Lines' /\ NoChild /\ OneWatcher /\ [Next]_vars => NoChild' /\ OneWatcher'
    <2> SUFFICES ASSUME Lines, Lines', NoChild, OneWatcher, [Next]_vars PROVE OneWatcher'
      BY NoChildKept
    <2> USE DEF Lines
    <2>1. CASE overlap'
      BY <2>1 DEF OneWatcher
    <2>2. CASE ~overlap'
      <3>0. ~overlap
        BY <2>2, History
      <3>1. CASE UNCHANGED <<wpc, wconn>>
        BY <3>0, <3>1 DEF OneWatcher
      <3>2. CASE Unwatched
        BY <3>2 DEF Unwatched, OneWatcher
      <3>3. ASSUME NEW p \in Procs, WatchFork(p) PROVE OneWatcher'
        <4>1. \A w \in Watchers : wpc[w] = "free"
          BY <3>0, <3>3 DEF NoChild, WatchFork
        <4>2. PICK child \in [ToWatch -> Free] :
                /\ wconn' = [w \in Watchers |->
                                IF \E c \in ToWatch : child[c] = w
                                  THEN CHOOSE c \in ToWatch : child[c] = w ELSE wconn[w]]
                /\ wpc' = [w \in Watchers |->
                                IF \E c \in ToWatch : child[c] = w THEN "first" ELSE wpc[w]]
          BY <3>3 DEF WatchFork
        <4>3. ASSUME NEW w \in Watchers, wpc'[w] # "free"
              PROVE  wconn'[w] \in ToWatch /\ child[wconn'[w]] = w
          <5>1. \E c \in ToWatch : child[c] = w
            BY <4>1, <4>2, <4>3
          <5>2. wconn'[w] = CHOOSE c \in ToWatch : child[c] = w
            BY <4>2, <5>1
          <5> QED BY <5>1, <5>2
        <4> QED BY <4>3 DEF OneWatcher
      <3>4. ASSUME NEW w \in Watchers, Child(w) PROVE OneWatcher'
        BY <3>0, <3>4, ChildConn DEF OneWatcher
      <3>5. ASSUME NEW p \in Procs, Step(p), ~WatchFork(p), ~Unwatched PROVE UNCHANGED <<wpc, wconn>>
        BY <3>5 DEF Step, WriteConfig, writeipsecfiles, WatchStop, WatchKill, Halt, Scan,
           RulesRead, RulesFlush, RulesAdd, RulesDone, setfwrules, Launch, Keyed, WatchTest,
           Delayed, watch
      <3>6. ASSUME NEW p \in Admins, Page(p) PROVE UNCHANGED <<wpc, wconn>>
        BY <3>6, PageIs DEF Request, watch
      <3>7. CASE \/ (\E j \in Jobs : RedUp(j) \/ RedDown(j)) \/ (\E c \in Dynamic : Renamed(c))
                 \/ BlueRemoved \/ Resting \/ UNCHANGED vars
        BY <3>1, <3>7 DEF RedUp, RedDown, Renamed, BlueRemoved, Resting, vars, watch
      <3> QED BY <3>1, <3>2, <3>3, <3>4, <3>5, <3>6, <3>7 DEF Next
    <2> QED BY <2>1, <2>2
  <1> QED BY <1>1, <1>2, LinesKept, PTL DEF Spec

\* A step of a process: it keeps its request or is done with it, and gets
\* to a point of the page only from where the page had called ipsecctrl.
LEMMA OwnStep ==
  ASSUME TypeOK, NEW p \in Procs, Step(p)
  PROVE  /\ pc[p] # "idle"
         /\ \/ op'[p] = op[p] /\ key'[p] = key[p] /\ row'[p] = row[p] /\ copy'[p] = copy[p]
            \/ pc'[p] = "idle" /\ op'[p] = "none"
         /\ pc'[p] = "idle" => pc[p] = "conf" \/ op[p] # "stopkey"
         /\ pc'[p] = "write" => op[p] = "stopkey" /\ pc[p] \notin {"conf", "write"}
         /\ pc'[p] = "conf" => WriteConfig(p)
  <1> USE DEF TypeOK
  <1>1. pc[p] # "idle"
    BY DEF Step, WriteConfig, writeipsecfiles, WatchStop, WatchKill, Halt, Scan, RulesRead,
           RulesFlush, RulesAdd, Launch, Keyed, WatchTest, WatchFork, Delayed
  <1> DEFINE Stays(l) == /\ pc'[p] = l /\ op'[p] = op[p] /\ key'[p] = key[p] /\ row'[p] = row[p]
                        /\ copy'[p] = copy[p]
  <1>2. \A l \in ProcPC : Goto(p, l) => Stays(l)
    BY DEF Goto, request
  <1>3. \A l \in ProcPC : Strike(p, l) => Stays(l)
    BY DEF Strike
  <1>4. ASSUME CtrlExit(p)
        PROVE  IF op[p] = "stopkey" THEN Stays("write") ELSE pc'[p] = "idle" /\ op'[p] = "none"
    BY <1>4 DEF CtrlExit, WritesLater, Idle, request
  <1>5. CASE WriteConfig(p)
    BY <1>1, <1>2, <1>5 DEF WriteConfig, ProcPC
  <1>6. CASE writeipsecfiles(p)
    <2>1. Stays("unwatch") \/ (pc'[p] = "idle" /\ op'[p] = "none")
      BY <1>2, <1>6 DEF writeipsecfiles, Idle, ProcPC
    <2> QED BY <1>1, <1>6, <2>1 DEF writeipsecfiles
  <1>7. CASE ~WriteConfig(p) /\ ~writeipsecfiles(p)
    <2>1. pc[p] \notin {"conf", "write"}
      BY <1>7 DEF Step, WriteConfig, writeipsecfiles, WatchStop, WatchKill, Halt, Scan, RulesRead,
             RulesFlush, RulesAdd, Launch, Keyed, WatchTest, WatchFork, Delayed
    <2>2. \/ \E l \in ProcPC \ {"idle", "write", "conf"} : Goto(p, l) \/ Strike(p, l)
          \/ CtrlExit(p)
          \/ UNCHANGED <<pc, request>>
      BY <1>7 DEF Step, WatchStop, WatchKill, Halt, Scan, RulesRead, RulesFlush, RulesAdd,
         RulesDone, setfwrules, Launch, Keyed, WatchTest, WatchFork, Delayed, AfterUnpipe, ProcPC
    <2>3. CASE \E l \in ProcPC \ {"idle", "write", "conf"} : Goto(p, l) \/ Strike(p, l)
      <3>1. \E l \in ProcPC \ {"idle", "write", "conf"} : Stays(l)
        BY <1>2, <1>3, <2>3
      <3> QED BY <1>1, <3>1
    <2>4. CASE CtrlExit(p)
      BY <1>1, <1>4, <2>1, <2>4
    <2>5. CASE UNCHANGED <<pc, request>>
      BY <1>1, <2>1, <2>5 DEF request
    <2> QED BY <2>2, <2>3, <2>4, <2>5
  <1> QED BY <1>5, <1>6, <1>7

-----------------------------------------------------------------------------
LEMMA StopOwedKept ==
  ASSUME Lines, StopOwed, [Next]_vars
  PROVE  StopOwed'
  <1> USE DEF Lines, FwPoints, WillLaunch
  <1>0. SUFFICES ASSUME ~overlap', ~overlap PROVE StopOwed'
    BY History DEF StopOwed
  <1>1. ASSUME NEW p \in Procs, Step(p) PROVE StopOwed'
    <2>1. /\ \A q \in Procs : q # p => pc[q] = "idle" /\ pc'[q] = "idle"
          /\ enabled' = enabled
      BY <1>0, <1>1, StepAlone
    <2>2. ASSUME WillLaunch(p)' PROVE enabled # {}
      <3>1. CASE Scan(p)
        BY <2>2, <3>1 DEF Scan, setfwrules, Goto, CtrlExit, Idle, TypeOK, ipsecenabled, firewall
      <3>2. ASSUME RulesDone(p), pc[p] \in FwPoints PROVE WillLaunch(p)
        BY <2>2, <3>2 DEF RulesDone, Goto, CtrlExit, Idle, TypeOK
      <3>3. CASE RulesRead(p) \/ RulesFlush(p) \/ RulesAdd(p)
        <4>1. WillLaunch(p)
          BY <2>2, <3>2, <3>3 DEF RulesRead, RulesFlush, RulesAdd, Goto, TypeOK
        <4> QED BY <1>0, <4>1 DEF StopOwed
      <3>4. CASE Halt(p)
        BY <2>2, <3>4 DEF Halt, setfwrules, Goto, TypeOK
      <3> QED BY <1>1, <2>2, <3>1, <3>3, <3>4 DEF Step, WriteConfig, writeipsecfiles, WatchStop,
             WatchKill, Launch, Keyed, WatchTest, WatchFork, Delayed, Goto, CtrlExit, Idle, TypeOK,
             Strike, AfterUnpipe
    <2>3. ASSUME pluto', enabled = {}
          PROVE  op'[p] = "stop" /\ pc'[p] \in {"conf", "unwatch", "unpipe", "halt"}
      <3>1. pluto
        BY <1>0, <1>1, <2>3 DEF Step, WriteConfig, writeipsecfiles, WatchStop, WatchKill, Halt,
             Scan, RulesRead, RulesFlush, RulesAdd, RulesDone, setfwrules, Launch,
             Keyed, WatchTest, WatchFork, Delayed, daemon, StopOwed
      <3>2. op[p] = "stop" /\ pc[p] \in {"conf", "unwatch", "unpipe", "halt"}
        BY <1>0, <2>1, <2>3, <3>1 DEF StopOwed
      <3>3. ~Ruling(p) /\ ~Halt(p) /\ ~Scan(p)
        BY <2>3, <3>2 DEF Ruling, RulesRead, RulesFlush, RulesAdd, Halt, Scan
      <3>4. op'[p] = op[p] \/ pc'[p] = "idle"
        BY <1>1, OwnStep
      <3>5. CASE WatchStop(p) \/ WatchKill(p)
        BY <2>3, <3>2, <3>4, <3>5 DEF WatchStop, WatchKill, Strike, AfterUnpipe, TypeOK
      <3>6. CASE writeipsecfiles(p)
        BY <2>3, <3>2, <3>4, <3>6 DEF writeipsecfiles, Goto, TypeOK
      <3>7. WatchStop(p) \/ WatchKill(p) \/ writeipsecfiles(p)
        BY <1>1, <3>2, <3>3 DEF Step, Ruling, WriteConfig, Launch, Keyed, WatchTest, WatchFork,
           Delayed
      <3> QED BY <3>5, <3>6, <3>7
    <2> QED BY <1>0, <2>1, <2>2, <2>3 DEF StopOwed
  <1>2. ASSUME Quiet, enabled' = enabled, pluto' = pluto, \A p \in Procs : ~WillLaunch(p)'
        PROVE  StopOwed'
    BY <1>0, <1>2 DEF StopOwed, Quiet
  <1>3. ASSUME NEW p \in Admins, Page(p) PROVE StopOwed'
    <2>1. PICK l \in {"conf", "write", "unwatch"}, o \in CtrlOps, k \in Conns \cup {None}, r \in Rows :
           /\ Request(p, l, o, k, r)
           /\ l = "conf" => (o = "stop" <=> enabled' = {})
           /\ l # "conf" => UNCHANGED files
      BY <1>3, PageIs
    <2>2. Quiet /\ pluto' = pluto /\ \A q \in Procs : ~WillLaunch(q)'
      BY <1>0, <2>1 DEF Request, daemon, Quiet, TypeOK
    <2>3. pc'[p] = l /\ op'[p] = o
      BY <2>1 DEF Request, TypeOK
    <2>4. CASE l = "conf"
      BY <1>0, <2>1, <2>2, <2>3, <2>4 DEF StopOwed
    <2>5. CASE l # "conf"
      BY <1>2, <2>1, <2>2, <2>5 DEF files
    <2> QED BY <2>4, <2>5
  <1>4. ASSUME NEW j \in Jobs, RedUp(j) \/ RedDown(j) PROVE StopOwed'
    <2>1. Quiet /\ enabled' = enabled /\ pluto' = pluto
      BY <1>0, <1>4 DEF RedUp, RedDown, files, daemon
    <2>2. \E l \in {"delay", "unwatch"} : pc' = [pc EXCEPT ![j] = l]
      BY <1>4 DEF RedUp, RedDown
    <2>3. \A p \in Procs : pc'[p] \in {"idle", "delay", "unwatch"}
      BY <2>1, <2>2 DEF Quiet, TypeOK
    <2> QED BY <1>2, <2>1, <2>3
  <1>5. CASE UNCHANGED <<pc, op, after, enabled, pluto, overlap>>
    BY <1>5 DEF StopOwed
  <1>6. CASE (\E w \in Watchers : Child(w)) \/ (\E c \in Dynamic : Renamed(c)) \/ BlueRemoved
             \/ Resting \/ UNCHANGED vars
    BY <1>5, <1>6 DEF Child, WatchFirst, WatchCheck, WatchRestart, Renamed, BlueRemoved, Resting,
                      vars, bounds, files, daemon, request, firewall
  <1> QED BY <1>1, <1>3, <1>4, <1>6 DEF Next

\* An IPsec that was switched off on every interface does not run once the
\* page has been served: ipsecctrl --stop halts pluto before it returns.
THEOREM DisabledStops == Spec => []DisabledIsStopped
  <1>1. Init => StopOwed
    BY DEF Init, StopOwed, WillLaunch, FwPoints
  <1>2. Lines /\ StopOwed /\ [Next]_vars => StopOwed'
    BY StopOwedKept
  <1>3. StopOwed => DisabledIsStopped
    BY DEF StopOwed, DisabledIsStopped, Quiet
  <1> QED BY <1>1, <1>2, <1>3, LinesKept, PTL DEF Spec

-----------------------------------------------------------------------------
\* A step of a process: the other pages stay where they were, or go on in
\* ipsecctrl as struck, with what they hold.
LEMMA StepOthers ==
  ASSUME TypeOK, NEW p \in Procs, Step(p), NEW q \in Procs, q # p
  PROVE  /\ after'[q] = after[q]
         /\ \/ UNCHANGED <<pc[q], op[q], key[q], row[q], copy[q]>>
            \/ /\ pc[q] \in {"unpipe", "watchfork"} /\ pc'[q] = Struck(q) /\ Struck(q) # "idle"
               /\ UNCHANGED <<op[q], key[q], row[q], copy[q]>>
            \/ pc[q] = "watchfork" /\ op[q] # "stopkey" /\ pc'[q] = "idle" /\ op'[q] = "none"
  <1> USE DEF TypeOK
  <1>1. ASSUME NEW l, Strike(p, l)
        PROVE  \/ UNCHANGED <<pc[q], op[q], key[q], row[q], copy[q]>>
               \/ /\ pc[q] \in {"unpipe", "watchfork"} /\ pc'[q] = Struck(q) /\ Struck(q) # "idle"
                  /\ UNCHANGED <<op[q], key[q], row[q], copy[q]>>
               \/ pc[q] = "watchfork" /\ op[q] # "stopkey" /\ pc'[q] = "idle" /\ op'[q] = "none"
    <2>1. CASE ~Hit(q)
      BY <1>1, <2>1 DEF Strike
    <2>2. CASE Hit(q) /\ Struck(q) # "idle"
      BY <1>1, <2>2 DEF Strike, Hit
    <2>3. CASE Hit(q) /\ Struck(q) = "idle"
      <3>1. pc[q] = "watchfork" /\ op[q] # "stopkey"
        BY <2>3 DEF Hit, Struck, AfterUnpipe, WritesLater
      <3>2. pc'[q] = "idle" /\ op'[q] = "none"
        BY <1>1, <2>3 DEF Strike
      <3> QED BY <3>1, <3>2
    <2> QED BY <2>1, <2>2, <2>3
  <1>2. ASSUME (\E l : Goto(p, l)) \/ Idle(p) \/ UNCHANGED <<pc, request>>
        PROVE  UNCHANGED <<pc[q], op[q], key[q], row[q], copy[q]>>
    BY <1>2 DEF Goto, Idle, request
  <1>4. after'[q] = after[q]
    <2>1. UNCHANGED firewall \/ after' = after \/ (\E x : after' = [after EXCEPT ![p] = x])
      BY DEF Step, WriteConfig, writeipsecfiles, WatchStop, WatchKill, Halt, Scan, RulesRead,
         RulesFlush, RulesAdd, RulesDone, setfwrules, Launch, Keyed, WatchTest, WatchFork, Delayed
    <2> QED BY <2>1 DEF firewall
  <1>3. (\E l : Strike(p, l)) \/ (\E l : Goto(p, l)) \/ Idle(p) \/ UNCHANGED <<pc, request>>
    BY DEF Step, WriteConfig, writeipsecfiles, WatchStop, WatchKill, Halt, Scan, RulesRead,
       RulesFlush, RulesAdd, RulesDone, setfwrules, Launch, Keyed, WatchTest, WatchFork, Delayed,
       CtrlExit, Goto
  <1> QED BY <1>1, <1>2, <1>3, <1>4

\* One page at a time.
LEMMA OneAtWork ==
  ASSUME Lines, OnePage
  PROVE  \A p, q \in Admins : pc[p] # "idle" /\ pc[q] # "idle" => p = q
  BY DEF Lines, Alone, OnePage

LEMMA PageInvKept ==
  ASSUME Lines, Lines', PageInv, [Next]_vars
  PROVE  PageInv'
  <1> USE DEF Lines
  <1>0. SUFFICES ASSUME OnePage, OnePage' PROVE PageInv'
    BY History DEF PageInv, OnePage
  <1> DEFINE Holds(p) == pc[p] = "write" \/ (op[p] = "stopkey" /\ pc[p] # "conf")
  <1>1. ASSUME NEW p \in Procs, Step(p) PROVE PageInv'
    <2>1. enabled' = enabled
      BY <1>1 DEF Step, WriteConfig, writeipsecfiles, WatchStop, WatchKill, Halt, Scan,
         RulesRead, RulesFlush, RulesAdd, RulesDone, setfwrules, Launch, Keyed, WatchTest,
         WatchFork, Delayed, files
    <2>2. CASE WriteConfig(p)
      <3>1. p \in Admins /\ \A q \in Admins : q # p => pc[q] = "idle" /\ op[q] = "none"
        BY <1>0, <2>2, OneAtWork DEF WriteConfig, Places
      <3>2. config' = [config EXCEPT ![key[p]] = row[p]] /\ On \ conf = {} /\ conf' = conf
        BY <1>0, <2>2, <3>1 DEF WriteConfig, PageInv, Holds
      <3>3. /\ \A q \in Admins : q # p => pc'[q] = "idle" /\ op'[q] = "none"
            /\ pc'[p] = "conf" /\ op'[p] = op[p] /\ key'[p] = key[p]
        BY <2>2, <3>1 DEF WriteConfig, Goto, request, TypeOK
      <3>4. ASSUME NEW c \in On' \ conf' PROVE c = key[p] /\ op[p] \in {"startkey", "none"}
        <4>1. c = key[p] /\ row[p] = "on"
          BY <3>2, <3>4 DEF On, TypeOK
        <4> QED BY <2>2, <4>1 DEF WriteConfig, Places
      <3>5. op[p] = "none" => enabled = {}
        BY <1>0, <2>2, <3>1 DEF PageInv, WriteConfig
      <3> QED BY <2>1, <3>1, <3>3, <3>4, <3>5 DEF PageInv
    <2>3. CASE ~WriteConfig(p)
      <3>1. config' = config /\ (conf' = conf \/ (writeipsecfiles(p) /\ conf' = On))
        BY <1>1, <2>3 DEF Step, writeipsecfiles, WatchStop, WatchKill, Halt, Scan, RulesRead,
           RulesFlush, RulesAdd, RulesDone, setfwrules, Launch, Keyed, WatchTest, WatchFork,
           Delayed, files
      <3>2. ASSUME p \in Admins, Holds(p)'
            PROVE  Holds(p) /\ copy'[p] = copy[p]
        <4>0. ~(pc'[p] = "idle" /\ op'[p] = "none")
          BY <3>2
        <4>3. (op'[p] = op[p] /\ copy'[p] = copy[p]) \/ (pc'[p] = "idle" /\ op'[p] = "none")
          BY <1>1, OwnStep
        <4>4. pc'[p] = "write" => op[p] = "stopkey"
          BY <1>1, OwnStep
        <4>1. op'[p] = op[p] /\ copy'[p] = copy[p]
          BY ONLY <4>0, <4>3
        <4>5. pc[p] = "conf" => writeipsecfiles(p)
          BY <1>1 DEF Step, WatchStop, WatchKill, Halt, Scan, RulesRead, RulesFlush, RulesAdd,
             Launch, Keyed, WatchTest, WatchFork, Delayed, WriteConfig
        <4>6. writeipsecfiles(p) /\ op[p] = "stopkey" => op'[p] = "none"
          BY DEF writeipsecfiles, Idle, TypeOK
        <4>2. pc[p] # "conf" \/ op[p] # "stopkey"
          BY <4>1, <4>5, <4>6
        <4> QED BY <2>3, <3>2, <4>1, <4>2, <4>4
      <3>3. ASSUME NEW q \in Admins, q # p, Holds(q)'
            PROVE  Holds(q) /\ copy'[q] = copy[q]
        <4>1. CASE pc'[q] = Struck(q) /\ pc[q] \in {"unpipe", "watchfork"} /\ op'[q] = op[q]
                   /\ copy'[q] = copy[q]
          BY <3>3, <4>1 DEF Struck, AfterUnpipe, WritesLater
        <4> QED BY <1>1, <3>3, <4>1, StepOthers
      <3>4. ASSUME NEW q \in Admins, pc'[q] \in {"write", "conf"}, op'[q] = "none"
            PROVE  pc[q] \in {"write", "conf"} /\ op[q] = "none"
        <4>1. CASE q = p
          BY <1>1, <2>3, <3>4, <4>1, OwnStep
        <4>2. CASE q # p
          BY <1>1, <3>4, <4>2, StepOthers DEF Struck, AfterUnpipe, WritesLater
        <4> QED BY <4>1, <4>2
      <3>5. ASSUME NEW c \in On' \ conf'
            PROVE  \E q \in Admins : pc'[q] = "conf" /\ key'[q] = c /\ op'[q] \in {"startkey", "none"}
        <4>1. c \in On \ conf /\ ~writeipsecfiles(p)
          BY <3>1, <3>5 DEF On, writeipsecfiles
        <4>2. PICK q \in Admins : pc[q] = "conf" /\ key[q] = c /\ op[q] \in {"startkey", "none"}
          BY <1>0, <4>1 DEF PageInv
        <4>3. q # p
          BY <1>1, <2>3, <4>1, <4>2 DEF Step, WatchStop, WatchKill, Halt, Scan, RulesRead,
             RulesFlush, RulesAdd, RulesDone, setfwrules, Launch, Keyed, WatchTest, WatchFork,
             Delayed
        <4> QED BY <1>1, <4>2, <4>3, StepOthers
      <3> QED BY <1>0, <2>1, <3>1, <3>2, <3>3, <3>4, <3>5 DEF PageInv
    <2> QED BY <2>2, <2>3
  <1>2. ASSUME NEW p \in Admins, Page(p) PROVE PageInv'
    <2>1. PICK l \in {"conf", "write", "unwatch"}, o \in CtrlOps, k \in Conns \cup {None}, r \in Rows :
           /\ Request(p, l, o, k, r)
           /\ l = "conf" => o \in {"start", "stop"} /\ UNCHANGED <<config, conf, cards>>
           /\ l # "conf" => UNCHANGED files
           /\ l = "write" => (o = "none" <=> enabled = {})
      BY <1>2, PageIs
    <2>2. \A q \in Admins : q # p => pc[q] = "idle" /\ op[q] = "none"
      BY <1>0, <2>1 DEF Request, OnePage, Quiet, Places
    <2>3. /\ \A q \in Admins : q # p => pc'[q] = "idle" /\ op'[q] = "none"
          /\ pc'[p] = l /\ op'[p] = o /\ pc[p] = "idle"
          /\ copy'[p] = IF l = "write" \/ o = "stopkey" THEN config ELSE NoRows
      BY <2>1, <2>2 DEF Request, TypeOK
    <2>4. config' = config /\ conf' = conf
      BY <2>1 DEF files
    <2>5. On' \ conf' = {}
      BY <1>0, <2>2, <2>3, <2>4 DEF PageInv, On
    <2>6. l = "write" => enabled' = enabled
      BY <2>1 DEF files
    <2> QED BY <2>1, <2>3, <2>4, <2>5, <2>6 DEF PageInv
  <1>3. ASSUME UNCHANGED files, \A q \in Admins : UNCHANGED <<pc[q], op[q], key[q], copy[q]>>
        PROVE  PageInv'
    <2>1. UNCHANGED <<On, conf, config, enabled>>
      BY <1>3 DEF files, On
    <2> QED BY <1>0, <1>3, <2>1 DEF PageInv
  <1>4. ASSUME NEW j \in Jobs, RedUp(j) \/ RedDown(j) PROVE PageInv'
    <2>1. \A q \in Admins : q # j
      OBVIOUS
    <2> QED BY <1>3, <1>4, <2>1 DEF RedUp, RedDown, TypeOK
  <1>5. CASE (\E w \in Watchers : Child(w)) \/ (\E c \in Dynamic : Renamed(c))
             \/ Resting \/ UNCHANGED vars
    BY <1>3, <1>5 DEF Child, WatchFirst, WatchCheck, WatchRestart, Renamed, Resting, vars, request
  <1>6. CASE BlueRemoved
    <2>1. UNCHANGED <<On, conf, config, enabled, pc, request>>
      BY <1>6 DEF BlueRemoved, On
    <2> QED BY <1>0, <2>1 DEF PageInv, request
  <1> QED BY <1>1, <1>2, <1>4, <1>5, <1>6 DEF Next

\* A process that owes a connection and is not the one that moves still
\* owes it.
LEMMA OwesOthers ==
  ASSUME Lines, NEW p \in Procs, Step(p), NEW q \in Procs, q # p, NEW c, Owes(q, c)
  PROVE  Owes(q, c)'
  <1> USE DEF Lines, Owes, WillLaunch, FwPoints
  <1>1. CASE UNCHANGED <<pc[q], op[q], key[q], row[q], copy[q]>>
    BY <1>1, StepOthers
  <1>2. CASE /\ pc[q] \in {"unpipe", "watchfork"} /\ pc'[q] = Struck(q) /\ Struck(q) # "idle"
             /\ UNCHANGED <<op[q], key[q], row[q], copy[q]>>
    BY <1>2 DEF Struck, AfterUnpipe, WritesLater
  <1>3. CASE pc[q] = "watchfork" /\ op[q] # "stopkey"
    BY <1>3
  <1>4. after'[q] = after[q]
    BY StepOthers
  <1> QED BY <1>1, <1>2, <1>3, <1>4, StepOthers

\* A connection that is on and not in ipsec.conf is owed by the page that
\* is about to write it.
LEMMA ConfOwed ==
  ASSUME Lines, PageInv, OnePage, enabled # {}, NEW c \in On \ conf
  PROVE  \E q \in Admins : pc[q] = "conf" /\ Owes(q, c)
  BY DEF PageInv, Owes

LEMMA LoadOwedKept ==
  ASSUME Lines, Lines', PageInv, LoadOwed, [Next]_vars, \A p, q \in Admins : p = q
  PROVE  LoadOwed'
  <1> USE DEF Lines, WillLaunch, FwPoints
  <1>0. OnePage /\ OnePage'
    BY DEF OnePage
  <1>1. ASSUME NEW p \in Procs, Step(p), pluto', Sound', iface', enabled' # {}, NEW c \in On' \ loaded'
        PROVE  \E q \in Procs : Owes(q, c)'
    <2>0. enabled # {} /\ Sound /\ iface
      BY <1>1, History DEF Step, WriteConfig, writeipsecfiles, WatchStop, WatchKill, Halt,
         Scan, RulesRead, RulesFlush, RulesAdd, RulesDone, setfwrules, Launch, Keyed, WatchTest,
         WatchFork, Delayed, files, line
    <2>1. ASSUME pluto, c \in On \ loaded, \A d : Owes(p, d) /\ d = c => Owes(p, d)'
          PROVE  \E q \in Procs : Owes(q, c)'
      <3>1. PICK q \in Procs : Owes(q, c)
        BY <2>0, <2>1 DEF LoadOwed
      <3> QED BY <1>1, <2>1, <3>1, OwesOthers
    <2>2. CASE WriteConfig(p)
      <3>1. p \in Admins /\ config' = [config EXCEPT ![key[p]] = row[p]] /\ key[p] \in Conns
             /\ op[p] # "none"
        BY <1>0, <2>0, <2>2 DEF WriteConfig, PageInv, Places
      <3>2. CASE c = key[p]
        <4>1. row[p] = "on"
          BY <1>1, <3>1, <3>2 DEF On, TypeOK
        <4>2. op[p] = "startkey"
          BY <2>2, <3>1, <4>1 DEF WriteConfig, Places
        <4> QED BY <2>2, <3>2, <4>2 DEF Owes, WriteConfig, Goto, request, TypeOK
      <3>3. CASE c # key[p]
        <4>1. c \in On \ loaded /\ pluto
          BY <1>1, <2>2, <3>1, <3>3 DEF On, WriteConfig, daemon, TypeOK
        <4>2. ~Owes(p, c)
          BY <2>2, <3>3 DEF Owes, WriteConfig
        <4> QED BY <2>1, <4>1, <4>2
      <3> QED BY <3>2, <3>3
    <2>3. CASE writeipsecfiles(p) \/ WatchStop(p) \/ WatchKill(p) \/ Delayed(p)
      <3>1. c \in On \ loaded /\ pluto
        BY <1>1, <2>3 DEF writeipsecfiles, WatchStop, WatchKill, Delayed, files, daemon, On
      <3>2. Owes(p, c) => Owes(p, c)'
        BY <2>3 DEF Owes, writeipsecfiles, WatchStop, WatchKill, Delayed, Goto, Idle, Strike,
           AfterUnpipe, request, TypeOK
      <3> QED BY <2>1, <3>1, <3>2
    <2>4. CASE Halt(p)
      BY <1>1, <2>4 DEF Halt
    <2>5. CASE Scan(p)
      <3>1. c \in On \ loaded /\ pluto
        BY <1>1, <2>5 DEF Scan, files, daemon, On
      <3>2. ~BadSettings /\ ipsecenabled /\ ~BadRows /\ ~NothingToDo
        BY <2>0, <3>1 DEF BadSettings, BadRows, Sound, ipsecenabled, NothingToDo, TypeOK
      <3>3. Owes(p, c) => Owes(p, c)'
        BY <2>5, <3>2 DEF Owes, Scan, setfwrules, Goto, request, TypeOK
      <3> QED BY <2>1, <3>1, <3>3
    <2>6. CASE Launch(p)
      <3>0. On' = On
        BY <2>6 DEF Launch, files, On
      <3>1. CASE op[p] = "start" \/ (op[p] = "startkey" /\ ~pluto)
        <4>1. loaded' = conf
          <5>1. loaded' = (loaded \ Conns) \cup (Conns \cap conf)
            BY <2>6, <3>1 DEF Launch, Load
          <5> QED BY <5>1 DEF TypeOK
        <4>2. PICK q \in Admins : pc[q] = "conf" /\ Owes(q, c)
          BY <1>0, <1>1, <2>0, <3>0, <4>1, ConfOwed
        <4>3. q # p
          BY <2>6, <4>2 DEF Launch
        <4> QED BY <1>1, <4>2, <4>3, OwesOthers
      <3>2. CASE ~(op[p] = "start" \/ (op[p] = "startkey" /\ ~pluto))
        <4>1. c \in On \ loaded /\ pluto
          BY <1>1, <2>6, <3>0, <3>2 DEF Launch, daemon
        <4>2. Owes(p, c) => Owes(p, c)'
          BY <2>6, <3>2 DEF Owes, Launch, Goto, request, TypeOK
        <4> QED BY <2>1, <4>1, <4>2
      <3> QED BY <3>1, <3>2
    <2>7. CASE Keyed(p)
      <3>0. On' = On /\ pluto /\ p \in Admins /\ op[p] \in {"startkey", "stopkey"}
        BY <1>1, <2>7 DEF Keyed, files, On, Places
      <3>1. c \in conf
        BY <1>0, <1>1, <2>0, <2>7, <3>0, ConfOwed DEF Keyed
      <3>2. CASE c = key[p] /\ op[p] = "startkey"
        BY <1>1, <2>7, <3>0, <3>1, <3>2 DEF Keyed, turn_connection_on, Load
      <3>3. CASE c = key[p] /\ op[p] = "stopkey"
        <4>1. Owes(p, c)'
          BY <2>7, <3>3 DEF Owes, Keyed, Goto, request, TypeOK
        <4> QED BY <4>1
      <3>4. CASE c # key[p]
        <4>1. c \in On \ loaded
          BY <1>1, <2>7, <3>0, <3>4 DEF Keyed, turn_connection_on, turn_connection_off, Load
        <4>2. ~Owes(p, c)
          BY <2>7, <3>0, <3>4 DEF Owes, Keyed
        <4> QED BY <2>1, <3>0, <4>1, <4>2
      <3> QED BY <3>0, <3>2, <3>3, <3>4
    <2>8. CASE WatchTest(p) \/ WatchFork(p)
      <3>1. c \in On \ loaded /\ pluto
        BY <1>1, <2>8 DEF WatchTest, WatchFork, files, daemon, On
      <3>2. ASSUME Owes(p, c) PROVE Owes(p, c)'
        <4>1. op[p] = "stopkey" /\ key[p] = c
          BY <2>8, <3>2 DEF Owes, WatchTest, WatchFork
        <4>2. pc'[p] \in {"write", "watchfork"} /\ UNCHANGED request
          BY <2>8, <4>1 DEF WatchTest, WatchFork, Goto, CtrlExit, WritesLater, TypeOK
        <4> QED BY <4>1, <4>2 DEF Owes, request
      <3> QED BY <2>1, <3>1, <3>2
    <2>9. CASE Ruling(p)
      <3>1. c \in On \ loaded /\ pluto
        BY <1>1, <2>9, RulesStep DEF files, daemon, On
      <3>2. Owes(p, c) => WillLaunch(p)'
        BY <2>9, RulesStep DEF Owes
      <3>3. Owes(p, c) => op'[p] = op[p] /\ key'[p] = key[p] /\ op[p] # "stopkey"
        BY <2>9, RulesStep DEF Owes, request
      <3>4. Owes(p, c) => Owes(p, c)'
        BY <3>2, <3>3 DEF Owes
      <3> QED BY <2>1, <3>1, <3>4
    <2> QED BY <1>1, <2>2, <2>3, <2>4, <2>5, <2>6, <2>7, <2>8, <2>9 DEF Step, Ruling
  <1>2. ASSUME NEW p \in Procs, Step(p) PROVE LoadOwed'
    BY <1>1, <1>2 DEF LoadOwed
  <1>3. ASSUME NEW p \in Admins, Page(p) PROVE LoadOwed'
    <2>1. PICK l \in {"conf", "write", "unwatch"}, o \in CtrlOps, k \in Conns \cup {None}, r \in Rows :
           /\ Request(p, l, o, k, r)
           /\ l = "conf" => o \in {"start", "stop"} /\ (o = "stop" <=> enabled' = {})
           /\ l # "conf" => UNCHANGED files
      BY <1>3, PageIs
    <2>2. pc'[p] = l /\ op'[p] = o
      BY <2>1 DEF Request, TypeOK
    <2>3. CASE l = "conf"
      <3>1. enabled' # {} => \A c : Owes(p, c)'
        BY <2>1, <2>2, <2>3 DEF Owes
      <3> QED BY <3>1 DEF LoadOwed
    <2>4. CASE l # "conf"
      <3>1. \A q \in Procs : \A c : Owes(q, c) => Owes(q, c)'
        BY <2>1 DEF Owes, Request, TypeOK, firewall
      <3>2. UNCHANGED <<pluto, loaded, cards, iface, enabled, On>>
        BY <2>1, <2>4 DEF files, Request, daemon, line, On
      <3> QED BY <3>1, <3>2 DEF LoadOwed, Sound
    <2> QED BY <2>3, <2>4
  <1>4. ASSUME NEW j \in Jobs, RedUp(j) PROVE LoadOwed'
    <2>1. \A c : Owes(j, c)'
      BY <1>4 DEF RedUp, Owes, TypeOK
    <2> QED BY <2>1 DEF LoadOwed
  <1>5. ASSUME NEW j \in Jobs, RedDown(j) PROVE LoadOwed'
    <2>1. \A q \in Procs : \A c : Owes(q, c) => Owes(q, c)'
      BY <1>5 DEF RedDown, Owes, TypeOK, Places, firewall
    <2>2. UNCHANGED <<pluto, loaded, cards, iface, enabled, On>>
      BY <1>5 DEF RedDown, files, daemon, On
    <2> QED BY <2>1, <2>2 DEF LoadOwed, Sound
  <1>6. ASSUME NEW w \in Watchers, Child(w) PROVE LoadOwed'
    <2>1. UNCHANGED <<pluto, cards, iface, enabled, On, pc, op, key, after>>
      BY <1>6, ChildConn DEF files, On, line, request, Child, WatchFirst, WatchCheck, WatchRestart,
                             firewall
    <2>2. \A q \in Procs : \A c : Owes(q, c) => Owes(q, c)'
      BY <2>1 DEF Owes
    <2>3. ASSUME NEW c \in On \ loaded' PROVE c \notin loaded \/ c \notin conf
      BY <1>6, <2>3 DEF Child, WatchFirst, WatchCheck, WatchRestart, Load, daemon
    <2>4. ASSUME pluto, Sound, iface, enabled # {}, NEW c \in On \ loaded' PROVE \E q \in Procs : Owes(q, c)'
      <3>1. CASE c \in conf
        BY <2>2, <2>3, <2>4, <3>1 DEF LoadOwed
      <3>2. CASE c \notin conf
        <4>1. PICK q \in Admins : Owes(q, c)
          BY <1>0, <2>4, <3>2, ConfOwed
        <4> QED BY <2>2, <4>1
      <3> QED BY <3>1, <3>2
    <2> QED BY <2>1, <2>4 DEF LoadOwed, Sound
  <1>7. CASE UNCHANGED <<pluto, loaded, cards, iface, enabled, config, pc, op, key, after>>
    BY <1>7 DEF LoadOwed, Owes, Sound, On
  <1>8. CASE (\E c \in Dynamic : Renamed(c)) \/ Resting \/ UNCHANGED vars
    BY <1>7, <1>8 DEF Renamed, Resting, vars, files, daemon, line, request, firewall
  <1>9. CASE BlueRemoved
    BY <1>9 DEF BlueRemoved, LoadOwed, Sound
  <1> QED BY <1>2, <1>3, <1>4, <1>5, <1>6, <1>8, <1>9 DEF Next

\* A connection that is on is known to a running pluto once everybody has
\* finished, for any RED changes that overlap with the page, as long as one
\* page is served at a time: a load that is undone, struck or too early for
\* ipsec.conf is owed again by a call still under way.
THEOREM OnStaysLoaded ==
  ASSUME \A p, q \in Admins : p = q
  PROVE  Spec => []OnIsLoaded
  <1>1. Init => PageInv /\ LoadOwed
    <2> SUFFICES ASSUME Init PROVE PageInv /\ LoadOwed
      OBVIOUS
    <2>1. On \ conf = {} /\ \A p \in Procs : pc[p] = "idle" /\ op[p] = "none"
      BY DEF Init, On
    <2>2. ~pluto
      BY DEF Init
    <2> QED BY <2>1, <2>2 DEF PageInv, LoadOwed
  <1>2. Lines /\ Lines' /\ PageInv /\ LoadOwed /\ [Next]_vars => PageInv' /\ LoadOwed'
    BY PageInvKept, LoadOwedKept
  <1>3. LoadOwed => OnIsLoaded
    BY DEF LoadOwed, OnIsLoaded, Owes, Quiet, WillLaunch, FwPoints
  <1> QED BY <1>1, <1>2, <1>3, LinesKept, PTL DEF Spec

-----------------------------------------------------------------------------
\* A call that is alone writes back the config as it stands.
LEMMA WriteAlone ==
  ASSUME Lines, ~overlap, PageInv, NEW p \in Procs, WriteConfig(p)
  PROVE  /\ config' = [config EXCEPT ![key[p]] = row[p]] /\ key[p] \in Conns
         /\ op[p] = "none" => enabled = {}
         /\ \A q \in Procs : pc[q] # "conf"
  <1>1. p \in Admins /\ key[p] \in Conns /\ pc[p] = "write"
    BY DEF Lines, Places, WriteConfig
  <1>2. copy[p] = config /\ (op[p] = "none" => enabled = {})
    BY <1>1 DEF PageInv, OnePage
  <1>3. \A q \in Procs : pc[q] # "conf"
    BY <1>1 DEF Lines, Alone
  <1> QED BY <1>1, <1>2, <1>3 DEF WriteConfig

LEMMA ConfKeptKept ==
  ASSUME Lines, Lines', PageInv, RowIsOff, ConfKept, [Next]_vars
  PROVE  ConfKept'
  <1> USE DEF Lines
  <1>0. SUFFICES ASSUME ~overlap', ~overlap PROVE ConfKept'
    BY History DEF ConfKept
  <1>1. ASSUME NEW p \in Procs, Step(p) PROVE ConfKept'
    <2>1. CASE WriteConfig(p)
      <3>1. conf \subseteq On /\ conf' = conf
        BY <1>0, <2>1, WriteAlone DEF ConfKept, WriteConfig
      <3>2. config' = [config EXCEPT ![key[p]] = row[p]] /\ key[p] \in Conns
        BY <1>0, <2>1, WriteAlone
      <3>3. CASE row[p] = "on" \/ config[key[p]] # "on"
        <4>1. On \subseteq On'
          BY <3>2, <3>3 DEF On, TypeOK
        <4> QED BY <3>1, <4>1 DEF ConfKept
      <3>4. CASE op[p] \in {"stopkey", "none"}
        <4>1. pc'[p] = "conf" /\ op'[p] = op[p]
          BY <2>1 DEF WriteConfig, Goto, request, TypeOK
        <4> QED BY <3>4, <4>1 DEF ConfKept
      <3> QED BY <1>0, <2>1, <3>3, <3>4 DEF RowIsOff, WriteConfig
    <2>2. CASE writeipsecfiles(p)
      <3>1. conf' = On'
        BY <2>2 DEF writeipsecfiles, On
      <3> QED BY <3>1 DEF ConfKept
    <2>3. CASE ~WriteConfig(p) /\ ~writeipsecfiles(p)
      <3>1. UNCHANGED <<conf, config>> /\ pc[p] # "conf" /\ pc[p] # "idle"
        BY <1>1, <2>3 DEF Step, WatchStop, WatchKill, Halt, Scan, RulesRead, RulesFlush,
           RulesAdd, RulesDone, setfwrules, Launch, Keyed, WatchTest, WatchFork, Delayed, files
      <3>2. \A q \in Procs : pc[q] # "conf"
        BY <1>0, <3>1 DEF Alone
      <3> QED BY <1>0, <3>1, <3>2 DEF ConfKept, On
    <2> QED BY <2>1, <2>2, <2>3
  <1>2. ASSUME Quiet, UNCHANGED <<conf, config>> PROVE ConfKept'
    BY <1>0, <1>2 DEF ConfKept, Quiet, On
  <1>3. ASSUME NEW p \in Admins, Page(p) PROVE ConfKept'
    <2>1. PICK l \in {"conf", "write", "unwatch"} :
            /\ \E o, k, r : Request(p, l, o, k, r)
            /\ l = "conf" => UNCHANGED <<config, conf, cards>>
            /\ l # "conf" => UNCHANGED files
      BY <1>3, PageIs
    <2>2. Quiet /\ UNCHANGED <<conf, config>>
      BY <1>0, <2>1 DEF Request, files
    <2> QED BY <1>2, <2>2
  <1>4. ASSUME NEW j \in Jobs, RedUp(j) \/ RedDown(j) PROVE ConfKept'
    <2>1. Quiet /\ UNCHANGED <<conf, config>>
      BY <1>0, <1>4 DEF RedUp, RedDown, files
    <2> QED BY <1>2, <2>1
  <1>5. CASE UNCHANGED <<conf, config, pc, op, overlap>>
    BY <1>5 DEF ConfKept, On
  <1>6. CASE (\E w \in Watchers : Child(w)) \/ (\E c \in Dynamic : Renamed(c)) \/ BlueRemoved
             \/ Resting \/ UNCHANGED vars
    BY <1>5, <1>6 DEF Child, WatchFirst, WatchCheck, WatchRestart, Renamed, BlueRemoved, Resting,
                      vars, files, request, bounds
  <1> QED BY <1>1, <1>3, <1>4, <1>6 DEF Next

LEMMA RowIsOffKept ==
  ASSUME Lines, Lines', RowIsOff, [Next]_vars, "disable" \notin GuiOps
  PROVE  RowIsOff'
  <1> USE DEF Lines
  <1>0. SUFFICES ASSUME ~overlap', ~overlap PROVE RowIsOff'
    BY History DEF RowIsOff
  <1>1. ASSUME NEW p \in Procs, Step(p) PROVE RowIsOff'
    <2>1. \A q \in Procs : q # p => pc'[q] = "idle"
      BY <1>0, <1>1, StepAlone
    <2>2. pc'[p] = "write" => op'[p] = "stopkey"
      BY <1>1, OwnStep
    <2> QED BY <2>1, <2>2 DEF RowIsOff
  <1>2. ASSUME NEW p \in Admins, Page(p) PROVE RowIsOff'
    <2>1. PICK l \in {"conf", "write", "unwatch"}, o \in CtrlOps, k \in Conns \cup {None}, r \in Rows :
           /\ Request(p, l, o, k, r)
           /\ l = "write" => (o = "none" <=> enabled = {})
           /\ l # "conf" => UNCHANGED files
           /\ l = "write" /\ r # "on" => config[k] # "on" \/ enabled = {}
      BY <1>2, PageIs
    <2>2. /\ pc'[p] = l /\ op'[p] = o /\ key'[p] = k /\ row'[p] = r
          /\ \A q \in Procs : q # p => pc'[q] = "idle"
      BY <1>0, <2>1 DEF Request, Quiet, TypeOK
    <2> QED BY <2>1, <2>2 DEF RowIsOff, files
  <1>3. ASSUME NEW j \in Jobs, RedUp(j) \/ RedDown(j) PROVE RowIsOff'
    <2>1. \A q \in Procs : pc'[q] # "write"
      BY <1>0, <1>3 DEF RedUp, RedDown, Quiet, TypeOK
    <2> QED BY <2>1 DEF RowIsOff
  <1>4. CASE UNCHANGED <<config, pc, request, overlap>>
    BY <1>4 DEF RowIsOff, request
  <1>5. CASE (\E w \in Watchers : Child(w)) \/ (\E c \in Dynamic : Renamed(c)) \/ BlueRemoved
             \/ Resting \/ UNCHANGED vars
    BY <1>4, <1>5 DEF Child, WatchFirst, WatchCheck, WatchRestart, Renamed, BlueRemoved, Resting,
                      vars, files, bounds
  <1> QED BY <1>1, <1>2, <1>3, <1>5 DEF Next

LEMMA StillNamesKept ==
  ASSUME Lines, Lines', StillNames, [Next]_vars
  PROVE  StillNames'
  <1> USE DEF Lines
  <1>0. SUFFICES ASSUME ~overlap', ~overlap, ~missed', ~missed PROVE StillNames'
    BY History DEF StillNames
  <1> DEFINE Still(w) == wpc[w] # "restart" /\ (wpc[w] = "sleep" => wold[w] = Resolve(wconn[w]))
  <1>1. ASSUME NEW p \in Procs, Step(p) PROVE StillNames'
    <2>1. /\ \A q \in Procs : q # p => op'[q] = "none"
          /\ op'[p] = "none" \/ op'[p] = op[p]
          /\ UNCHANGED <<red, dns>>
      BY <1>0, <1>1, StepAlone DEF line
    <2>2. SUFFICES ASSUME op'[p] = "stopkey", pc'[p] # "unwatch", NEW w \in Watchers PROVE Still(w)'
      BY <2>1 DEF StillNames
    <2>3. CASE Unwatched
      BY <2>3 DEF Unwatched
    <2>4. CASE ~Unwatched
      <3>1. pc[p] # "unwatch" /\ op[p] = "stopkey"
        BY <1>1, <2>1, <2>2, <2>4 DEF Step, WriteConfig, writeipsecfiles, WatchStop, WatchKill,
           Halt, Scan, RulesRead, RulesFlush, RulesAdd, RulesDone, setfwrules, Launch, Keyed,
           WatchTest, WatchFork, Delayed
      <3>2. Still(w)
        BY <1>0, <3>1 DEF StillNames
      <3>3. CASE UNCHANGED <<wpc, wold, wconn>>
        BY <2>1, <3>2, <3>3 DEF Resolve
      <3>4. CASE WatchFork(p)
        <4>1. wpc'[w] = "first" \/ UNCHANGED <<wpc[w], wold[w], wconn[w]>>
          BY <3>4 DEF WatchFork
        <4> QED BY <2>1, <3>2, <4>1 DEF Resolve
      <3> QED BY <1>1, <2>4, <3>3, <3>4 DEF Step, WriteConfig, writeipsecfiles, WatchStop,
         WatchKill, Halt, Scan, RulesRead, RulesFlush, RulesAdd, RulesDone, setfwrules, Launch,
         Keyed, WatchTest, Delayed, watch
    <2> QED BY <2>3, <2>4
  <1>2. ASSUME \A p \in Procs : op'[p] = "stopkey" => pc'[p] = "unwatch" PROVE StillNames'
    BY <1>2 DEF StillNames
  <1>3. ASSUME NEW p \in Admins, Page(p) PROVE StillNames'
    <2>1. PICK l \in {"conf", "write", "unwatch"}, o \in CtrlOps, k \in Conns \cup {None}, r \in Rows :
           /\ Request(p, l, o, k, r)
           /\ l = "conf" => o \in {"start", "stop"}
           /\ l = "write" => o \in {"none", "startkey"}
      BY <1>3, PageIs
    <2>2. \A q \in Procs : op[q] = "none"
      BY <1>0, <2>1 DEF Request, Quiet, Places
    <2> QED BY <1>2, <2>1, <2>2 DEF Request, TypeOK
  <1>4. ASSUME NEW j \in Jobs, RedUp(j) \/ RedDown(j) PROVE StillNames'
    <2>2. \A q \in Procs : op[q] = "none"
      BY <1>0, <1>4 DEF RedUp, RedDown, Quiet, Places
    <2>3. \A q \in Procs : op'[q] # "stopkey"
      BY <1>4, <2>2 DEF RedUp, RedDown, TypeOK
    <2> QED BY <1>2, <2>3
  <1>5. ASSUME NEW c \in Dynamic, Renamed(c) PROVE StillNames'
    <2>1. Quiet /\ UNCHANGED request
      BY <1>0, <1>5 DEF Renamed
    <2> QED BY <1>2, <2>1 DEF Quiet, Places, request
  <1>6. ASSUME NEW w \in Watchers, Child(w) PROVE StillNames'
    <2>1. /\ UNCHANGED <<pc, op, red, dns>>
          /\ \A v \in Watchers : v # w => wpc'[v] = wpc[v] /\ wconn'[v] = wconn[v] /\ wold'[v] = wold[v]
      BY <1>6, ChildConn DEF request, line
    <2>2. SUFFICES ASSUME NEW p \in Procs, op[p] = "stopkey", pc[p] # "unwatch"
                   PROVE  \A v \in Watchers : Still(v)'
      BY <2>1 DEF StillNames
    <2>3. \A v \in Watchers : Still(v)
      BY <1>0, <2>2 DEF StillNames
    <2>4. WatchFirst(w)
      BY <1>6, <2>3 DEF Child, WatchCheck, WatchRestart, Watched, TypeOK
    <2>5. Still(w)'
      <3> DEFINE a == Resolve(wconn[w])
      <3>1. Watched(w, a)
        BY <2>4 DEF WatchFirst
      <3>2. CASE a = NoAddr
        <4>1. wpc'[w] = "free"
          BY <3>1, <3>2 DEF Watched, TypeOK
        <4> QED BY <4>1
      <3>3. CASE a # NoAddr
        <4>1. wpc'[w] = "sleep" /\ wold'[w] = a /\ wconn'[w] = wconn[w]
          <5>1. /\ wpc' = [wpc EXCEPT ![w] = "sleep"]
                /\ wold' = [wold EXCEPT ![w] = a] /\ wconn' = wconn
            BY <3>1, <3>3 DEF Watched
          <5> HIDE DEF a
          <5> QED BY <5>1 DEF TypeOK
        <4>2. Resolve(wconn[w])' = Resolve(wconn[w])
          BY <2>1, <4>1 DEF Resolve
        <4> QED BY <4>1, <4>2
      <3> QED BY <3>2, <3>3
    <2>6. ASSUME NEW v \in Watchers, v # w PROVE Still(v)'
      BY <2>1, <2>3, <2>6 DEF Resolve
    <2> QED BY <2>5, <2>6
  <1>7. CASE BlueRemoved \/ Resting \/ UNCHANGED vars
    <2>1. UNCHANGED <<pc, op, wpc, wold, wconn, red, dns>>
      BY <1>7 DEF BlueRemoved, Resting, vars, watch, line, request
    <2> QED BY <1>0, <2>1 DEF StillNames, Resolve
  <1> QED BY <1>1, <1>3, <1>4, <1>5, <1>6, <1>7 DEF Next

\* A call that leaves ipsecctrl with setfwrules goes on owing nothing.
LEMMA ExitsRightlyKept ==
  ASSUME Lines, Lines', ExitsRightly, [Next]_vars
  PROVE  ExitsRightly'
  <1> USE DEF Lines, FwPoints
  <1>0. SUFFICES ASSUME ~overlap', ~overlap PROVE ExitsRightly'
    BY History DEF ExitsRightly
  <1>1. ASSUME NEW p \in Procs, Step(p) PROVE ExitsRightly'
    <2>1. \A q \in Procs : q # p => pc'[q] = "idle"
      BY <1>0, <1>1, StepAlone
    <2>2. SUFFICES ASSUME pc'[p] \in FwPoints, after'[p] = "exit" PROVE ~pluto' \/ NothingToDo'
      BY <2>1 DEF ExitsRightly
    <2>3. CASE Halt(p)
      BY <2>3 DEF Halt
    <2>4. CASE Scan(p)
      <3>1. UNCHANGED <<config, iface>>
        BY <2>4 DEF Scan, files, line
      <3>2. setfwrules(p, IF NothingToDo THEN "exit" ELSE "launch")
        BY <2>2, <2>4 DEF Scan, CtrlExit, Idle, Goto, WritesLater, TypeOK
      <3>3. NothingToDo
        BY <2>2, <3>2 DEF setfwrules, TypeOK
      <3> QED BY <3>1, <3>3 DEF NothingToDo, On
    <2>5. CASE Ruling(p)
      <3>1. pc[p] \in FwPoints /\ after'[p] = after[p]
        BY <2>2, <2>5, RulesStep
      <3>2. UNCHANGED <<config, iface, pluto>>
        BY <2>5, RulesStep DEF files, line, daemon
      <3>3. ~pluto \/ NothingToDo
        BY <1>0, <2>2, <3>1 DEF ExitsRightly
      <3> QED BY <3>2, <3>3 DEF NothingToDo, On
    <2>6. CASE ~Halt(p) /\ ~Scan(p) /\ ~Ruling(p)
      <3>1. pc \in [Procs -> ProcPC]
        BY DEF TypeOK
      <3>2. /\ \A l : Goto(p, l) => pc'[p] = l
            /\ Idle(p) => pc'[p] = "idle"
            /\ CtrlExit(p) => pc'[p] \in {"write", "idle"}
        BY <3>1 DEF Goto, Idle, CtrlExit
      <3>3. \A l : Strike(p, l) => pc'[p] = l
        BY DEF Strike
      <3>4. ~WatchStop(p) /\ ~WatchKill(p)
        BY <2>2, <3>3 DEF WatchStop, WatchKill, AfterUnpipe
      <3>5. WriteConfig(p) \/ writeipsecfiles(p) \/ Launch(p) \/ Keyed(p) \/ WatchTest(p)
            \/ WatchFork(p) \/ Delayed(p)
        BY <1>1, <2>6, <3>4 DEF Step, Ruling
      <3>6. ~WriteConfig(p) /\ ~writeipsecfiles(p) /\ ~Delayed(p)
        BY <2>2, <3>2 DEF WriteConfig, writeipsecfiles, Delayed
      <3>7. ~Launch(p) /\ ~Keyed(p)
        BY <2>2, <3>2 DEF Launch, Keyed
      <3>8. ~WatchTest(p) /\ ~WatchFork(p)
        BY <2>2, <3>2 DEF WatchTest, WatchFork
      <3> QED BY <3>5, <3>6, <3>7, <3>8
    <2> QED BY <2>3, <2>4, <2>5, <2>6
  <1>2. ASSUME \A p \in Procs : pc'[p] \notin FwPoints PROVE ExitsRightly'
    BY <1>2 DEF ExitsRightly
  <1>3. ASSUME NEW p \in Admins, Page(p) PROVE ExitsRightly'
    <2>1. PICK l \in {"conf", "write", "unwatch"} : \E o, k, r : Request(p, l, o, k, r)
      BY <1>3, PageIs
    <2>2. Quiet /\ pc' = [pc EXCEPT ![p] = l]
      BY <1>0, <2>1 DEF Request
    <2> QED BY <1>2, <2>2 DEF Quiet, TypeOK
  <1>4. ASSUME NEW j \in Jobs, RedUp(j) \/ RedDown(j) PROVE ExitsRightly'
    <2>1. Quiet /\ \E l \in {"delay", "unwatch"} : pc' = [pc EXCEPT ![j] = l]
      BY <1>0, <1>4 DEF RedUp, RedDown
    <2> QED BY <1>2, <2>1 DEF Quiet, TypeOK
  <1>5. CASE UNCHANGED <<pc, after, pluto, config, iface>>
    BY <1>0, <1>5 DEF ExitsRightly, NothingToDo, On
  <1>6. CASE (\E w \in Watchers : Child(w)) \/ (\E c \in Dynamic : Renamed(c)) \/ BlueRemoved
             \/ Resting \/ UNCHANGED vars
    BY <1>5, <1>6 DEF Child, WatchFirst, WatchCheck, WatchRestart, Renamed, BlueRemoved, Resting,
                      vars, files, firewall, daemon, line
  <1> QED BY <1>1, <1>3, <1>4, <1>6 DEF Next

LEMMA UnloadedKept ==
  ASSUME Lines, Lines', PageInv, StopOwed, RowIsOff, ConfKept, StillNames, Unloaded,
         ExitsRightly, iface, [Next]_vars
  PROVE  Unloaded'
  <1> USE DEF Lines
  <1>0. SUFFICES ASSUME ~overlap', ~overlap, ~missed', ~missed, Sound', Sound, pluto' PROVE Unloaded'
    BY History DEF Unloaded
  <1> DEFINE Gone(p) == op[p] = "stopkey" /\ pc[p] \in {"watchtest", "watchfork", "write"}
                          => key[p] \notin loaded
  <1>1. ASSUME NEW p \in Procs, Step(p) PROVE Unloaded'
    <2>0. pc[p] # "idle" /\ enabled' = enabled /\ \A q \in Procs : q # p => pc[q] = "idle" /\ op'[q] = "none"
      BY <1>0, <1>1, StepAlone
    <2>1. SUFFICES loaded' \subseteq On' /\ Gone(p)'
      BY <2>0 DEF Unloaded
    <2>2. ASSUME pluto PROVE loaded \subseteq On /\ Gone(p)
      BY <1>0, <2>2 DEF Unloaded
    <2>3. CASE WriteConfig(p)
      <3>1. pluto /\ loaded' = loaded /\ pc'[p] = "conf"
        BY <1>0, <2>3 DEF WriteConfig, daemon, Goto, TypeOK
      <3>2. config' = [config EXCEPT ![key[p]] = row[p]] /\ key[p] \in Conns /\ op[p] # "none"
        <4>1. op[p] = "none" => enabled = {}
          BY <1>0, <2>3, WriteAlone
        <4>2. enabled = {} => op[p] = "stop"
          BY <1>0, <2>0, <3>1 DEF StopOwed
        <4> QED BY <1>0, <2>3, <4>1, <4>2, WriteAlone
      <3>3. row[p] # "on" => key[p] \notin loaded
        BY <1>0, <2>2, <2>3, <3>1, <3>2 DEF RowIsOff, WriteConfig, On
      <3> QED BY <2>2, <3>1, <3>2, <3>3 DEF On, TypeOK
    <2>4. CASE writeipsecfiles(p) \/ WatchStop(p) \/ WatchKill(p) \/ Delayed(p)
      <3>1. pluto /\ loaded' = loaded /\ On' = On
        BY <1>0, <2>4 DEF writeipsecfiles, WatchStop, WatchKill, Delayed, files, daemon, On
      <3>2. pc'[p] \in {"idle", "unwatch", "unpipe", "scan", "halt"}
        BY <2>4 DEF writeipsecfiles, WatchStop, WatchKill, Delayed, Goto, Idle, Strike,
           AfterUnpipe, TypeOK
      <3> QED BY <2>2, <3>1, <3>2
    <2>5. CASE Halt(p)
      BY <1>0, <2>5 DEF Halt
    <2>6. CASE Scan(p)
      <3>1. pluto /\ loaded' = loaded /\ On' = On
        BY <1>0, <2>6 DEF Scan, files, daemon, On
      <3>2. ~BadSettings /\ ~BadRows
        BY <1>0 DEF BadSettings, BadRows, Sound, TypeOK
      <3>3. pc'[p] \in {"halt", "fwread"}
        <4>1. Goto(p, "halt") \/ Goto(p, "fwread")
          BY <2>6, <3>2 DEF Scan, setfwrules
        <4> QED BY <4>1 DEF Goto, TypeOK
      <3> QED BY <2>2, <3>1, <3>3
    <2>7. CASE Launch(p)
      <3>0. /\ On' = On /\ pc'[p] \in {"watchtest", "keyed"} /\ op'[p] = op[p]
            /\ pc'[p] = "watchtest" => op[p] = "start"
        BY <2>7 DEF Launch, files, On, Goto, request, TypeOK
      <3>1. CASE op[p] = "start" \/ (op[p] = "startkey" /\ ~pluto)
        <4>1. loaded' = (loaded \ Conns) \cup (Conns \cap conf)
          BY <2>7, <3>1 DEF Launch, Load
        <4>2. conf \subseteq On
          BY <1>0, <2>0, <2>7 DEF ConfKept, Launch
        <4> QED BY <3>0, <4>1, <4>2 DEF TypeOK
      <3>2. CASE ~(op[p] = "start" \/ (op[p] = "startkey" /\ ~pluto))
        <4>1. pluto /\ loaded' = loaded
          BY <1>0, <2>7, <3>2 DEF Launch, daemon
        <4> QED BY <2>2, <3>0, <4>1
      <3> QED BY <3>1, <3>2
    <2>8. CASE Keyed(p)
      <3>0. On' = On /\ pluto /\ op'[p] = op[p] /\ key'[p] = key[p] /\ op[p] \in {"startkey", "stopkey"}
        BY <1>0, <2>8 DEF Keyed, files, On, Goto, request, TypeOK, Places
      <3>1. conf \subseteq On
        BY <1>0, <2>0, <2>8 DEF ConfKept, Keyed
      <3>2. CASE key[p] \notin On
        <4>1. loaded' = loaded
          BY <2>8, <3>2 DEF Keyed
        <4> QED BY <2>2, <3>0, <3>2, <4>1
      <3>3. CASE key[p] \in On /\ op[p] = "startkey"
        <4>1. loaded' \subseteq loaded \cup conf
          BY <2>8, <3>0, <3>3 DEF Keyed, turn_connection_on, Load
        <4> QED BY <2>2, <3>0, <3>1, <3>3, <4>1
      <3>4. CASE key[p] \in On /\ op[p] = "stopkey"
        <4>1. loaded' = loaded \ {key[p]}
          BY <2>8, <3>4 DEF Keyed, turn_connection_off
        <4> QED BY <2>2, <3>0, <4>1
      <3> QED BY <3>0, <3>2, <3>3, <3>4
    <2>9. CASE WatchTest(p) \/ WatchFork(p)
      <3>1. pluto /\ loaded' = loaded /\ On' = On
        <4>1. UNCHANGED <<pluto, loaded, config>>
          BY <2>9 DEF WatchTest, WatchFork, files, daemon
        <4> QED BY <1>0, <4>1 DEF On
      <3>2. pc'[p] = "idle" \/ (pc[p] \in {"watchtest", "watchfork"} /\ UNCHANGED request)
        <4>1. CtrlExit(p) => pc'[p] = "idle" \/ UNCHANGED request
          BY DEF CtrlExit, Idle, TypeOK
        <4> QED BY <2>9, <4>1 DEF WatchTest, WatchFork, Goto
      <3> QED BY <2>2, <3>1, <3>2 DEF request
    <2>10. CASE Ruling(p)
      <3>1. pluto /\ loaded' = loaded /\ On' = On
        <4>1. UNCHANGED <<pluto, loaded, config>>
          BY <2>10, RulesStep DEF files, daemon
        <4> QED BY <1>0, <4>1 DEF On
      <3>2. CASE pc'[p] = "write"
        <4>1. pc[p] \in FwPoints /\ after[p] = "exit"
          BY <2>10, <3>2, RulesStep DEF FwPoints
        <4>2. On = {}
          BY <1>0, <3>1, <4>1 DEF ExitsRightly, NothingToDo
        <4> QED BY <2>2, <3>1, <4>2
      <3>3. CASE pc'[p] # "write"
        <4>1. pc'[p] \notin {"watchtest", "watchfork", "write"}
          BY <2>10, <3>3, RulesStep DEF FwPoints
        <4> QED BY <2>2, <3>1, <4>1
      <3> QED BY <3>2, <3>3
    <2> QED BY <1>1, <2>3, <2>4, <2>5, <2>6, <2>7, <2>8, <2>9, <2>10 DEF Step, Ruling
  <1>2. ASSUME UNCHANGED <<pluto, loaded, config>>,
               \A p \in Procs : op'[p] = "stopkey" =>
                 pc'[p] = "unwatch" \/ UNCHANGED <<pc[p], op[p], key[p]>>
        PROVE  Unloaded'
    BY <1>0, <1>2 DEF Unloaded, On
  <1>3. ASSUME NEW p \in Admins, Page(p) PROVE Unloaded'
    <2>1. PICK l \in {"conf", "write", "unwatch"}, o \in CtrlOps, k \in Conns \cup {None}, r \in Rows :
           /\ Request(p, l, o, k, r)
           /\ l = "conf" => o \in {"start", "stop"} /\ UNCHANGED <<config, conf, cards>>
           /\ l # "conf" => UNCHANGED files
           /\ l = "write" => o \in {"none", "startkey"}
      BY <1>3, PageIs
    <2>2. UNCHANGED <<pluto, loaded, config>>
      BY <2>1 DEF Request, daemon, files
    <2>3. /\ pc'[p] = l /\ op'[p] = o
          /\ \A q \in Procs : q # p => UNCHANGED <<pc[q], op[q], key[q]>>
      BY <2>1 DEF Request, TypeOK
    <2> QED BY <1>2, <2>1, <2>2, <2>3
  <1>4. ASSUME NEW j \in Jobs, RedUp(j) \/ RedDown(j) PROVE Unloaded'
    <2>1. UNCHANGED <<pluto, loaded, config>>
      BY <1>4 DEF RedUp, RedDown, daemon, files
    <2>2. PICK l, o : /\ pc' = [pc EXCEPT ![j] = l] /\ op' = [op EXCEPT ![j] = o] /\ key' = key
                      /\ o # "stopkey"
      BY <1>4 DEF RedUp, RedDown
    <2>3. /\ op'[j] # "stopkey"
          /\ \A q \in Procs : q # j => UNCHANGED <<pc[q], op[q], key[q]>>
      BY <2>2 DEF TypeOK
    <2> QED BY <1>2, <2>1, <2>3
  <1>5. ASSUME NEW w \in Watchers, Child(w) PROVE Unloaded'
    <2>1. UNCHANGED <<pluto, config, pc, op, key, enabled>>
      BY <1>5, ChildConn DEF files, request
    <2>2. CASE loaded' = loaded
      BY <1>2, <2>1, <2>2
    <2>3. CASE loaded' # loaded
      <3>1. wpc[w] = "restart" /\ loaded' \subseteq loaded \cup conf
        BY <1>5, <2>3 DEF Child, WatchFirst, WatchCheck, WatchRestart, Load, daemon
      <3>2. \A p \in Procs : op[p] = "stopkey" => pc[p] = "unwatch"
        BY <1>0, <3>1 DEF StillNames
      <3>3. conf \subseteq On
        <4>1. SUFFICES ASSUME NEW p \in Procs, pc[p] = "conf", op[p] = "none" PROVE FALSE
          BY <1>0, <3>2 DEF ConfKept
        <4>2. p \in Admins /\ enabled = {}
          BY <1>0, <4>1 DEF Places, PageInv, OnePage
        <4>3. PICK q \in Procs : op[q] = "stop" /\ pc[q] # "idle"
          BY <1>0, <2>1, <4>2 DEF StopOwed
        <4> QED BY <1>0, <4>1, <4>3 DEF Alone
      <3>4. loaded \subseteq On
        BY <1>0, <2>1 DEF Unloaded
      <3> QED BY <2>1, <3>1, <3>2, <3>3, <3>4 DEF Unloaded, On
    <2> QED BY <2>2, <2>3
  <1>6. CASE (\E c \in Dynamic : Renamed(c)) \/ BlueRemoved \/ Resting \/ UNCHANGED vars
    BY <1>2, <1>6 DEF Renamed, BlueRemoved, Resting, vars, files, daemon, request
  <1> QED BY <1>1, <1>3, <1>4, <1>5, <1>6 DEF Next

\* A connection that was toggled off or removed is not left in pluto: for
\* every sequence of requests and RED changes that do not overlap, once RED
\* has a device.  The one page that does leave it is the edit form with
\* Enabled cleared, which the assumption on GuiOps excludes.
THEOREM OffStaysUnloaded ==
  ASSUME "disable" \notin GuiOps
  PROVE  Spec => []OffIsUnloaded
  <1> DEFINE Inv == PageInv /\ StopOwed /\ RowIsOff /\ ConfKept /\ StillNames
                      /\ ExitsRightly /\ (RedDevice => iface /\ Unloaded)
  <1>1. Init => Inv
    <2> SUFFICES ASSUME Init PROVE Inv
      OBVIOUS
    <2>1. On = conf /\ \A p \in Procs : pc[p] = "idle" /\ op[p] = "none"
      BY DEF Init, On
    <2>2. ~pluto /\ iface = RedDevice
      BY DEF Init
    <2> QED BY <2>1, <2>2 DEF PageInv, StopOwed, RowIsOff, ConfKept, StillNames, Unloaded,
                  ExitsRightly, WillLaunch, FwPoints
  <1>2. Lines /\ Lines' /\ Inv /\ [Next]_vars => Inv'
    <2> SUFFICES ASSUME Lines, Lines', Inv, [Next]_vars PROVE Inv'
      OBVIOUS
    <2>1. PageInv' /\ StopOwed' /\ RowIsOff' /\ ConfKept' /\ StillNames' /\ ExitsRightly'
      BY PageInvKept, StopOwedKept, RowIsOffKept, ConfKeptKept, StillNamesKept, ExitsRightlyKept
    <2>2. RedDevice => iface' /\ Unloaded'
      BY UnloadedKept, History DEF Lines
    <2> QED BY <2>1, <2>2
  <1>3. Inv => OffIsUnloaded
    BY DEF Unloaded, OffIsUnloaded
  <1> QED BY <1>1, <1>2, <1>3, LinesKept, PTL DEF Spec

-----------------------------------------------------------------------------
LEMMA NamesResolveKept ==
  ASSUME Lines, NamesResolve, [Next]_vars
  PROVE  NamesResolve'
  <1> USE DEF Lines
  <1>0. SUFFICES ASSUME moves' = 0, moves = 0, dns' = dns, dns \in [Conns -> Addrs], red => iface,
                        iface => iface'
                 PROVE  NamesResolve'
    BY History DEF NamesResolve
  <1> DEFINE Ends(w) == wpc[w] = "restart" /\ wnew[w] = NoAddr
             Later == \E p \in Procs : pc[p] \in {"delay", "unwatch"}
  <1>1. ASSUME red' => iface', red' /\ ~overlap' => red /\ ~overlap, Later => Later',
               \A w \in Watchers : red /\ Ends(w)' => Ends(w)
        PROVE  NamesResolve'
    BY <1>0, <1>1 DEF NamesResolve
  <1>2. ASSUME NEW p \in Procs, Step(p) PROVE NamesResolve'
    <2>1. red' = red /\ iface' = iface /\ overlap' = overlap
      BY <1>2 DEF Step, WriteConfig, writeipsecfiles, WatchStop, WatchKill, Halt, Scan,
         RulesRead, RulesFlush, RulesAdd, RulesDone, setfwrules, Launch, Keyed, WatchTest,
         WatchFork, Delayed, line, bounds
    <2>2. CASE Unwatched
      <3>1. \A w \in Watchers : ~Ends(w)'
        BY <2>2 DEF Unwatched
      <3> QED BY <1>0, <2>1, <3>1 DEF NamesResolve
    <2>3. CASE ~Unwatched
      <3>1. \A w \in Watchers : Ends(w)' => Ends(w)
        BY <1>2, <2>3 DEF Step, WriteConfig, writeipsecfiles, WatchStop, WatchKill, Halt, Scan,
           RulesRead, RulesFlush, RulesAdd, RulesDone, setfwrules, Launch, Keyed, WatchTest,
           WatchFork, Delayed, watch
      <3>2. ASSUME NEW q \in Procs, pc[q] \in {"delay", "unwatch"} PROVE pc'[q] \in {"delay", "unwatch"}
        <4>1. CASE q = p
          BY <1>2, <2>3, <3>2, <4>1 DEF Step, WriteConfig, writeipsecfiles, WatchStop,
             WatchKill, Halt, Scan, RulesRead, RulesFlush, RulesAdd, RulesDone, setfwrules,
             Launch, Keyed, WatchTest, WatchFork, Delayed, Goto, TypeOK
        <4>2. CASE q # p
          BY <1>2, <3>2, <4>2, StepOthers
        <4> QED BY <4>1, <4>2
      <3> QED BY <1>0, <1>1, <2>1, <3>1, <3>2
    <2> QED BY <2>2, <2>3
  <1>3. ASSUME NEW p \in Admins, Page(p) PROVE NamesResolve'
    <2>1. PICK l, o, k, r : Request(p, l, o, k, r)
      BY <1>3, PageIs
    <2>2. UNCHANGED <<red, iface, wpc, wnew>> /\ (overlap => overlap')
      BY <2>1 DEF Request, line, watch
    <2>3. Later => Later'
      BY <2>1 DEF Request, TypeOK
    <2> QED BY <1>0, <1>1, <2>2, <2>3
  <1>4. ASSUME NEW j \in Jobs, RedUp(j) PROVE NamesResolve'
    <2>1. iface' /\ pc'[j] = "delay"
      BY <1>4 DEF RedUp, TypeOK
    <2> QED BY <1>0, <2>1 DEF NamesResolve
  <1>5. ASSUME NEW j \in Jobs, RedDown(j) PROVE NamesResolve'
    <2>1. ~red'
      BY <1>5 DEF RedDown
    <2> QED BY <1>0, <2>1 DEF NamesResolve
  <1>6. ASSUME NEW w \in Watchers, Child(w) PROVE NamesResolve'
    <2>1. UNCHANGED <<red, iface, overlap, pc>>
      BY <1>6, ChildConn DEF line, bounds
    <2>2. \A v \in Watchers : v # w => (Ends(v)' <=> Ends(v))
      BY <1>6, ChildConn
    <2>3. ASSUME red PROVE ~Ends(w)'
      <3>1. wconn[w] \in Conns
        BY <1>6 DEF Child, WatchFirst, WatchCheck, WatchRestart, ChildHasConn
      <3>2. Resolve(wconn[w]) # NoAddr
        BY <1>0, <2>3, <3>1 DEF Resolve
      <3>3. ASSUME NEW a, Watched(w, a) PROVE wpc'[w] # "restart"
        BY <3>3 DEF Watched, TypeOK
      <3>4. CASE WatchCheck(w) /\ pluto
        <4> DEFINE a == Resolve(wconn[w])
        <4>1. wnew' = [wnew EXCEPT ![w] = a]
          BY <3>4 DEF WatchCheck
        <4> HIDE DEF a
        <4>2. wnew'[w] = a
          BY <4>1 DEF TypeOK
        <4> QED BY <3>2, <4>2 DEF a
      <3> QED BY <1>6, <3>3, <3>4 DEF Child, WatchFirst, WatchCheck, WatchRestart
    <2> QED BY <1>0, <1>1, <2>1, <2>2, <2>3
  <1>7. ASSUME NEW c \in Dynamic, Renamed(c) PROVE NamesResolve'
    <2>1. moves' # 0
      BY <1>7 DEF Renamed, TypeOK
    <2> QED BY <1>0, <2>1
  <1>8. CASE BlueRemoved \/ Resting \/ UNCHANGED vars
    <2>1. UNCHANGED <<red, iface, overlap, pc, wpc, wnew>>
      BY <1>8 DEF BlueRemoved, Resting, vars, line, bounds, watch
    <2> QED BY <1>0, <1>1, <2>1
  <1> QED BY <1>2, <1>3, <1>4, <1>5, <1>6, <1>7, <1>8 DEF Next

LEMMA WatchOwedKept ==
  ASSUME Lines, Lines', PageInv, NoChild, NamesResolve, ExitsRightly, WatchOwed, [Next]_vars
  PROVE  WatchOwed'
  <1> USE DEF Lines, FwPoints
  <1>0. SUFFICES ASSUME ~overlap', ~overlap, moves' = 0, moves = 0, pluto', Sound', Sound,
                        enabled' # {}, vpnwatch', red', NEW c \in ToWatch',
                        \A p \in Procs : ~WillWatch(p)'
                 PROVE  WatchedNow(c)'
    BY History DEF WatchOwed
  <1>1. ASSUME pluto, enabled # {}, vpnwatch, red, c \in ToWatch, \A p \in Procs : ~WillWatch(p)
        PROVE  WatchedNow(c)
    BY <1>0, <1>1 DEF WatchOwed
  <1>2. ASSUME NEW p \in Procs, Step(p) PROVE WatchedNow(c)'
    <2>1. /\ UNCHANGED <<enabled, vpnwatch, red, iface>>
          /\ \A q \in Procs : q # p => pc[q] = "idle"
      BY <1>0, <1>2, StepAlone DEF line
    <2>2. iface
      BY <1>0, <2>1 DEF NamesResolve
    <2>3. ASSUME ~WillWatch(p), pluto, c \in ToWatch, UNCHANGED <<wpc, wconn>> PROVE WatchedNow(c)'
      <3>1. \A q \in Procs : ~WillWatch(q)
        BY <2>1, <2>3 DEF WillWatch, InCtrl
      <3>2. WatchedNow(c)
        BY <1>0, <1>1, <2>1, <2>3, <3>1
      <3> QED BY <2>3, <3>2 DEF WatchedNow
    <2>4. pc'[p] \notin InCtrl /\ ~(pc'[p] = "conf" /\ op'[p] \in {"start", "startkey", "stop"})
      BY <1>0 DEF WillWatch
    <2>5. CASE WriteConfig(p)
      <3>1. pc'[p] = "conf" /\ op'[p] = op[p]
        BY <2>5 DEF WriteConfig, Goto, request, TypeOK
      <3>2. op[p] = "stopkey"
        BY <1>0, <2>1, <2>4, <2>5, <3>1, WriteAlone DEF Places, WriteConfig
      <3>3. row[p] # "on" /\ config' = [config EXCEPT ![key[p]] = row[p]] /\ key[p] \in Conns
        BY <1>0, <2>5, <3>2, WriteAlone DEF Places
      <3>4. c \in ToWatch
        BY <1>0, <3>3 DEF ToWatch, On, TypeOK
      <3>5. ~WillWatch(p)
        BY <2>5 DEF WillWatch, WriteConfig, InCtrl
      <3> QED BY <1>0, <2>3, <2>5, <3>4, <3>5 DEF WriteConfig, daemon, watch
    <2>6. CASE writeipsecfiles(p)
      <3>1. op[p] \in {"none", "stopkey"}
        BY <2>4, <2>6 DEF writeipsecfiles, Goto, InCtrl, TypeOK
      <3>2. ~WillWatch(p) /\ UNCHANGED <<pluto, config, wpc, wconn>>
        BY <2>6, <3>1 DEF WillWatch, writeipsecfiles, InCtrl, daemon, watch
      <3>3. c \in ToWatch
        BY <1>0, <3>2 DEF ToWatch, On
      <3> QED BY <1>0, <2>3, <3>2, <3>3
    <2>7. CASE WatchStop(p) \/ WatchKill(p) \/ Launch(p) \/ Keyed(p) \/ Delayed(p)
      BY <2>4, <2>7 DEF WatchStop, WatchKill, Launch, Keyed, Delayed, Goto, Strike,
         AfterUnpipe, InCtrl, TypeOK
    <2>8. CASE Halt(p)
      BY <1>0, <2>8 DEF Halt
    <2>9. CASE Scan(p)
      <3>1. ~BadSettings /\ ~BadRows
        BY <1>0 DEF BadSettings, BadRows, Sound, TypeOK
      <3>2. Goto(p, "halt") \/ Goto(p, "fwread")
        BY <2>9, <3>1 DEF Scan, setfwrules
      <3> QED BY <2>4, <3>2 DEF Goto, InCtrl, TypeOK
    <2>12. CASE Ruling(p)
      <3>1. pc[p] \in FwPoints /\ after[p] = "exit"
        BY <2>4, <2>12, RulesStep DEF InCtrl
      <3>2. UNCHANGED <<pluto, config>>
        BY <2>12, RulesStep DEF files, daemon
      <3>3. NothingToDo
        BY <1>0, <3>1, <3>2 DEF ExitsRightly
      <3>4. c \in On
        BY <1>0, <3>2 DEF ToWatch, On
      <3> QED BY <2>2, <3>3, <3>4 DEF NothingToDo
    <2>10. CASE WatchTest(p)
      <3>1. ~WatchRuns
        BY <1>0, <2>10 DEF NoChild, WatchTest, WatchRuns
      <3> QED BY <1>0, <2>1, <2>4, <2>10, <3>1 DEF WatchTest, Goto, InCtrl, TypeOK
    <2>11. CASE WatchFork(p)
      <3>1. c \in ToWatch
        BY <1>0, <2>11 DEF WatchFork, ToWatch, On, files
      <3>2. PICK child \in [ToWatch -> Free] :
              /\ \A b, d \in ToWatch : child[b] = child[d] => b = d
              /\ wconn' = [w \in Watchers |->
                              IF \E b \in ToWatch : child[b] = w
                                THEN CHOOSE b \in ToWatch : child[b] = w ELSE wconn[w]]
              /\ wpc' = [w \in Watchers |->
                              IF \E b \in ToWatch : child[b] = w THEN "first" ELSE wpc[w]]
        BY <2>11 DEF WatchFork
      <3>3. PICK w \in Watchers : w = child[c]
        BY <3>1, <3>2 DEF Free
      <3>4. (CHOOSE b \in ToWatch : child[b] = w) = c
        BY <3>1, <3>2, <3>3
      <3>5. wpc'[w] = "first" /\ wconn'[w] = c
        BY <3>1, <3>2, <3>3, <3>4
      <3> QED BY <3>5 DEF WatchedNow
    <2> QED BY <1>2, <2>5, <2>6, <2>7, <2>8, <2>9, <2>10, <2>11, <2>12 DEF Step, Ruling
  <1>3. ASSUME NEW p \in Admins, Page(p) PROVE WatchedNow(c)'
    <2>1. PICK l \in {"conf", "write", "unwatch"}, o \in CtrlOps, k \in Conns \cup {None}, r \in Rows :
           /\ Request(p, l, o, k, r)
           /\ l = "conf" => o \in {"start", "stop"}
           /\ l # "conf" => UNCHANGED files
      BY <1>3, PageIs
    <2>2. pc'[p] = l /\ op'[p] = o
      BY <2>1 DEF Request, TypeOK
    <2>3. l = "write"
      BY <1>0, <2>1, <2>2 DEF WillWatch, InCtrl
    <2>4. Quiet /\ UNCHANGED <<config, enabled, vpnwatch, pluto, red, wpc, wconn>>
      BY <1>0, <2>1, <2>3 DEF Request, files, daemon, line, watch
    <2>5. \A q \in Procs : ~WillWatch(q)
      BY <2>4 DEF WillWatch, InCtrl, Quiet
    <2>6. c \in ToWatch
      BY <1>0, <2>4 DEF ToWatch, On
    <2> QED BY <1>0, <1>1, <2>4, <2>5, <2>6 DEF WatchedNow
  <1>4. ASSUME NEW j \in Jobs, RedUp(j) \/ RedDown(j) PROVE WatchedNow(c)'
    <2>1. red' => pc'[j] = "delay"
      BY <1>4 DEF RedUp, RedDown, TypeOK
    <2> QED BY <1>0, <2>1 DEF WillWatch, InCtrl
  <1>5. ASSUME NEW w \in Watchers, Child(w) PROVE WatchedNow(c)'
    <2>1. UNCHANGED <<config, enabled, vpnwatch, pluto, red, dns, pc, op>>
      BY <1>5, ChildConn DEF files, line, request
    <2>2. (\A q \in Procs : ~WillWatch(q)) /\ c \in ToWatch
      BY <1>0, <2>1 DEF WillWatch, ToWatch, On
    <2>3. PICK v \in Watchers : wpc[v] # "free" /\ wconn[v] = c
      BY <1>0, <1>1, <2>1, <2>2 DEF WatchedNow
    <2>4. CASE v # w
      BY <1>5, <2>3, <2>4, ChildConn DEF WatchedNow
    <2>5. CASE v = w
      <3>1. Resolve(c) # NoAddr
        BY <1>0, <2>1, <2>2 DEF NamesResolve, Resolve, ToWatch, On
      <3>2. wpc[w] = "restart" => wnew[w] # NoAddr
        BY <1>0, <2>1, <2>2 DEF NamesResolve, WillWatch, InCtrl
      <3>3. ASSUME NEW a, a # NoAddr, Watched(w, a) PROVE wpc'[w] = "sleep"
        BY <3>3 DEF Watched, TypeOK
      <3>4. wpc'[w] # "free"
        <4>1. CASE WatchFirst(w)
          BY <2>3, <2>5, <3>1, <3>3, <4>1 DEF WatchFirst
        <4>2. CASE WatchCheck(w)
          BY <1>0, <2>1, <4>2 DEF WatchCheck, TypeOK
        <4>3. CASE WatchRestart(w)
          BY <3>2, <3>3, <4>3 DEF WatchRestart
        <4> QED BY <1>5, <4>1, <4>2, <4>3 DEF Child
      <3> QED BY <1>5, <2>3, <2>5, <3>4, ChildConn DEF WatchedNow
    <2> QED BY <2>4, <2>5
  <1>6. ASSUME NEW d \in Dynamic, Renamed(d) PROVE FALSE
    BY <1>0, <1>6 DEF Renamed, TypeOK
  <1>7. CASE BlueRemoved
    BY <1>0, <1>7 DEF BlueRemoved, Sound
  <1>8. CASE UNCHANGED vars
    <2>1. UNCHANGED <<config, enabled, vpnwatch, pluto, red, pc, op, wpc, wconn>>
      BY <1>8 DEF vars, files, daemon, line, request, watch
    <2>2. (\A q \in Procs : ~WillWatch(q)) /\ c \in ToWatch
      BY <1>0, <2>1 DEF WillWatch, ToWatch, On
    <2> QED BY <1>0, <1>1, <2>1, <2>2 DEF WatchedNow
  <1> QED BY <1>2, <1>3, <1>4, <1>5, <1>6, <1>7, <1>8 DEF Next, Resting

\* While pluto runs and RED is up, every connection to a peer with a name
\* is watched once the page has been served: for every sequence of requests
\* and RED changes that do not overlap, as long as the names resolve.
THEOREM DynamicIsWatched == Spec => []DynamicWatched
  <1> DEFINE Inv == PageInv /\ NoChild /\ NamesResolve /\ ExitsRightly /\ WatchOwed
  <1>1. Init => Inv
    <2> SUFFICES ASSUME Init PROVE Inv
      OBVIOUS
    <2>1. On = conf /\ \A p \in Procs : pc[p] = "idle" /\ op[p] = "none"
      BY DEF Init, On
    <2>2. ~pluto /\ ~red /\ dns \in [Conns -> Addrs]
      BY DEF Init
    <2> QED BY <2>1, <2>2 DEF PageInv, NoChild, NamesResolve, ExitsRightly, WatchOwed, FwPoints
  <1>2. Lines /\ Lines' /\ Inv /\ [Next]_vars => Inv'
    BY PageInvKept, NoChildKept, NamesResolveKept, ExitsRightlyKept, WatchOwedKept
  <1>3. Inv => DynamicWatched
    BY DEF WatchOwed, DynamicWatched, WillWatch, InCtrl, Quiet, FwPoints
  <1> QED BY <1>1, <1>2, <1>3, LinesKept, PTL DEF Spec
=============================================================================
