-------------------------------- MODULE Red --------------------------------
(***************************************************************************)
(* The dial-up (PPP) half of the RED connection.                           *)
(*                                                                         *)
(* A RED connection has no daemon of its own.  It is run by short-lived    *)
(* scripts that never hold a lock and that talk through flag files:        *)
(*                                                                         *)
(*   rc.red start|stop        dials, and hangs up                          *)
(*   rc.connectioncheck start watches one dial attempt, redials it         *)
(*   rc.connectioncheck reconnect   redials after a lost link              *)
(*   ip-up, ip-down           run by pppd when the link changes            *)
(*   rc.updatered             tells the rest of the firewall (background)  *)
(*   red, scheduler.pl        what the GUI and the schedule order          *)
(*                                                                         *)
(* Each script is a process with a program counter, each file operation    *)
(* that another script can observe is a step.  pppd is external: it is     *)
(* modelled from what rc.red, ip-up, ip-down and rc.connectioncheck rely   *)
(* on (a pid file for its life, ip-down only after ip-up, both in order).  *)
(***************************************************************************)
EXTENDS Integers

CONSTANTS
  Users,          \* browser sessions that press Connect or Disconnect
  Checkers,       \* slots for running "rc.connectioncheck start" processes
  Sessions,       \* slots for running pppd processes
  Profiles,       \* the dial profiles /var/ipcop/ppp/settings-N
  BackupProfile,  \* BACKUPPROFILE of each profile, None when it is 0
  FirstProfile,   \* the profile selected when the system boots
  None,           \* no session, no profile
  Modes,          \* what RECONNECTION of the profiles may be
  Lines,          \* what kinds of line the profiles may be for
  MaxRetries,     \* MAXRETRIES
  MaxConfigure,   \* MAXCONFIGURE, in polls of the checker's watch loop
  MaySyncFail,    \* TRUE: a driver, the line or the profile can stop rc.red start
  Timely,         \* TRUE: links change only where no script is in a hurry
  SchedJobs,      \* what the schedule may order
  MaxCommands,    \* bound: Connect and Disconnect clicks and scheduled
                  \* jobs, per kind of line
  MaxUpdates,     \* bound: rc.updatered processes running at once
  MaxBoots        \* bound: power failures

ASSUME RedAssumption ==
  /\ Modes \subseteq {"manual", "persistent", "dialondemand"}
  /\ Lines \subseteq [isdn : BOOLEAN, watched : BOOLEAN, static : BOOLEAN]
  /\ MaxRetries \in Nat \ {0}
  /\ MaxConfigure \in Nat \ {0}
  /\ MaySyncFail \in BOOLEAN
  /\ Timely \in BOOLEAN
  /\ SchedJobs \subseteq {"dial", "hangup", "reconnect", "profile"}
  /\ MaxCommands \in [Lines -> Nat]
  /\ MaxUpdates \in Nat \ {0}
  /\ MaxBoots \in Nat
  /\ FirstProfile \in Profiles
  /\ BackupProfile \in [Profiles -> Profiles \cup {None}]
  /\ None \notin Sessions
  /\ None \notin Profiles

\* The file keepconnected holds an attempt count; Absent: it does not exist.
Absent == -1

\* The two processes there is at most one of.
Sched   == "scheduler"
Reconn  == "reconnect"

ASSUME ProcAssumption ==
  /\ Sched \notin Users \cup Checkers \cup Sessions
  /\ Reconn \notin Users \cup Checkers \cup Sessions
  /\ Users \cap Checkers = {}
  /\ Sessions \cap (Users \cup Checkers) = {}

\* Every process that can run rc.red; a session stands for its ip-down.
Procs == Users \cup Checkers \cup Sessions \cup {Sched, Reconn}

VARIABLES
  active,     \* /var/ipcop/red/active exists
  keep,       \* /var/ipcop/red/keepconnected: Absent or the count in it
  redial,     \* /var/ipcop/red/redial exists
  dod,        \* /var/ipcop/red/dial-on-demand exists
  pidfile,    \* /var/run/ppp-ipcop.pid: the session named in it, or None
  profile,    \* the profile /var/ipcop/ppp/settings is linked to
  sess,       \* life of each pppd
  killed,     \* pppd processes sent a SIGTERM they have not yet obeyed
  updatered,  \* number of rc.updatered processes in the background
  red,        \* where each process is inside rc.red ("none": not in it)
  pc,         \* where each process is outside rc.red
  att,        \* $attempts of each checker
  cnt,        \* $count of each checker
  waited,     \* $timetostart of each checker
  prof,       \* profile whose settings each checker has read
  job,        \* what the scheduler is doing
  spid,       \* pppd the scheduler's hangup waits for
  reconnection, \* RECONNECTION of the profiles, settled before the start
  line,       \* the kind of line, settled too: TYPE is isdn; rc.red start
              \* starts the checker (PPPoE, PPTP, RFC2364); METHOD is STATIC
  want,       \* what the user last asked for (history variable)
  overlap,    \* a command was given while another was carried out (history)
  commands,   \* commands issued so far (bound)
  boots       \* power failures so far (bound)

files  == <<active, keep, redial, dod, pidfile, profile>>
ppp    == <<sess, killed, updatered>>
locals == <<att, cnt, waited, prof>>
sched  == <<job, spid>>
ghost  == <<reconnection, line, want, overlap, commands, boots>>
vars   == <<files, ppp, red, pc, locals, sched, ghost>>

\* Points of rc.red start, and of rc.red stop.
StartPC == {"start", "spawn", "dial", "updating"}
StopPC  == {"stop", "testredial", "unlinkkeep", "unlinkredial", "kill"}
RedPC   == StartPC \cup StopPC \cup {"none"}

\* Points of rc.connectioncheck and of scheduler.pl outside rc.red.
ChkPC   == {"free", "init", "waitpppd", "resync", "watch", "fail", "waitexit",
            "count", "holdoff", "last", "waitupd"}
SchedPC == {"free", "hangup", "waitdown", "waitupd", "select", "dial", "waitactive"}

\* Life of a pppd: not running; waiting for traffic; negotiating; running
\* ip-up; connected; running ip-down (three steps); about to exit.
SessPC  == {"free", "demand", "dialing", "ipup", "up", "ipdown", "respawn",
            "reconnect", "exit"}

TypeOK ==
  /\ active \in BOOLEAN
  /\ keep \in {Absent} \cup (0 .. MaxRetries - 1)
  /\ redial \in BOOLEAN
  /\ dod \in BOOLEAN
  /\ pidfile \in Sessions \cup {None}
  /\ profile \in Profiles
  /\ sess \in [Sessions -> SessPC]
  /\ killed \in [Sessions -> BOOLEAN]
  /\ updatered \in 0 .. MaxUpdates
  /\ red \in [Procs -> RedPC]
  /\ pc \in [Procs -> ChkPC \cup SchedPC]
  /\ att \in [Checkers -> 0 .. MaxRetries - 1]
  /\ cnt \in [Checkers -> 0 .. MaxConfigure]
  /\ waited \in [Checkers -> BOOLEAN]
  /\ prof \in [Checkers -> Profiles]
  /\ job \in SchedJobs \cup {"none"}
  /\ spid \in Sessions \cup {None}
  /\ reconnection \in Modes
  /\ line \in Lines
  /\ want \in {"none", "up", "down"}
  /\ overlap \in BOOLEAN
  /\ commands \in 0 .. MaxCommands[line]
  /\ boots \in 0 .. MaxBoots

Init ==
  /\ active = FALSE
  /\ keep = Absent
  /\ redial = FALSE
  /\ dod = FALSE
  /\ pidfile = None
  /\ profile = FirstProfile
  /\ sess = [s \in Sessions |-> "free"]
  /\ killed = [s \in Sessions |-> FALSE]
  /\ updatered = 0
  /\ red = [p \in Procs |-> "none"]
  /\ pc = [p \in Procs |-> "free"]
  /\ att = [c \in Checkers |-> 0]
  /\ cnt = [c \in Checkers |-> 0]
  /\ waited = [c \in Checkers |-> FALSE]
  /\ prof = [c \in Checkers |-> FirstProfile]
  /\ job = "none"
  /\ spid = None
  /\ reconnection \in Modes
  /\ line \in Lines
  /\ want = "none"
  /\ overlap = FALSE
  /\ commands = 0
  /\ boots = 0
-----------------------------------------------------------------------------
(* What the scripts learn from "ps ax".                                    *)

PppdRunning     == \E s \in Sessions : sess[s] # "free"
RcRedStartRuns  == \E p \in Procs : red[p] \in StartPC
UpdateRunning   == updatered > 0 \/ \E p \in Procs : red[p] = "updating"
ReconnectRuns   == pc[Reconn] # "free"

\* Process p is between two calls of rc.red, at point l.
At(p, l) == pc[p] = l /\ red[p] = "none"

\* A pppd that waits for traffic holds the address 10.64.64.64 until its
\* link is up; ISDN uses another address, and no interface called ppp.
TemporaryAddress ==
  /\ reconnection = "dialondemand"
  /\ ~line.isdn
  /\ \E s \in Sessions : sess[s] \in {"demand", "dialing"}
-----------------------------------------------------------------------------
(* rc.red start                                                            *)

\* Mutant: rc.red start does not look for the pid file.
StartGuardNoPidfile(p) ==
  /\ red[p] = "start"
  /\ red' = [red EXCEPT ![p] =
               IF active \/ UpdateRunning THEN "none" ELSE "spawn"]
  /\ UNCHANGED <<files, ppp, pc, locals, sched, ghost>>

\* Refused while RED is active, has a pppd, or is still being announced.
StartGuard(p) ==
  /\ red[p] = "start"
  /\ red' = [red EXCEPT ![p] =
               IF active \/ pidfile # None \/ UpdateRunning THEN "none" ELSE "spawn"]
  /\ UNCHANGED <<files, ppp, pc, locals, sched, ghost>>

\* The checker, for the lines that have one, is put in the background and
\* only gets going later.
StartSpawn(p) ==
  /\ red[p] = "spawn"
  /\ IF reconnection # "manual" /\ line.watched
       THEN \E c \in Checkers : pc[c] = "free" /\ pc' = [pc EXCEPT ![c] = "init"]
       ELSE UNCHANGED pc
  /\ dod' = (dod \/ reconnection = "dialondemand")
  /\ red' = [red EXCEPT ![p] = "dial"]
  /\ UNCHANGED <<active, keep, redial, pidfile, profile, ppp, locals, sched, ghost>>

\* The modem driver does not load, the line does not synchronise, or the
\* profile is not valid: rc.red gives up before it has run pppd.
StartNoSync(p) ==
  /\ MaySyncFail
  /\ red[p] = "dial"
  /\ red' = [red EXCEPT ![p] = "none"]
  /\ UNCHANGED <<files, ppp, pc, locals, sched, ghost>>

\* A link dialled on demand, or with a static address, is announced by
\* rc.updatered red up at once.
StartDial(p) ==
  /\ red[p] = "dial"
  /\ \E s \in Sessions :
       /\ sess[s] = "free"
       /\ sess' = [sess EXCEPT ![s] =
                     IF reconnection = "dialondemand" THEN "demand" ELSE "dialing"]
       /\ pidfile' = s
  /\ red' = [red EXCEPT ![p] =
               IF reconnection = "dialondemand" \/ line.static THEN "updating" ELSE "none"]
  /\ UNCHANGED <<active, keep, redial, dod, profile, killed, updatered, pc, locals, sched, ghost>>

StartUpdated(p) ==
  /\ red[p] = "updating"
  /\ red' = [red EXCEPT ![p] = "none"]
  /\ UNCHANGED <<files, ppp, pc, locals, sched, ghost>>

RedStart(p) ==
  \/ StartGuard(p)
  \/ StartSpawn(p)
  \/ StartNoSync(p)
  \/ StartDial(p)
  \/ StartUpdated(p)
-----------------------------------------------------------------------------
(* rc.red stop                                                             *)

StopFiles(p) ==
  /\ red[p] = "stop"
  /\ active' = FALSE
  /\ dod' = FALSE
  /\ red' = [red EXCEPT ![p] = "testredial"]
  /\ UNCHANGED <<keep, redial, pidfile, profile, ppp, pc, locals, sched, ghost>>

\* A stop ordered by the checker keeps keepconnected: the checker left redial.
StopTest(p) ==
  /\ red[p] = "testredial"
  /\ red' = [red EXCEPT ![p] = IF redial THEN "unlinkredial" ELSE "unlinkkeep"]
  /\ UNCHANGED <<files, ppp, pc, locals, sched, ghost>>

StopKeep(p) ==
  /\ red[p] = "unlinkkeep"
  /\ keep' = Absent
  /\ red' = [red EXCEPT ![p] = "unlinkredial"]
  /\ UNCHANGED <<active, redial, dod, pidfile, profile, ppp, pc, locals, sched, ghost>>

StopRedial(p) ==
  /\ red[p] = "unlinkredial"
  /\ redial' = FALSE
  /\ red' = [red EXCEPT ![p] = "kill"]
  /\ UNCHANGED <<active, keep, dod, pidfile, profile, ppp, pc, locals, sched, ghost>>

\* Mutant: pppd is not signalled.
StopKillNobody(p) ==
  /\ red[p] = "kill"
  /\ killed' = killed
  /\ red' = [red EXCEPT ![p] = "none"]
  /\ UNCHANGED <<files, sess, updatered, pc, locals, sched, ghost>>

\* The pppd of the pid file; for ISDN, by rc.isdn stop, every ipppd.
StopKill(p) ==
  /\ red[p] = "kill"
  /\ killed' = [s \in Sessions |->
                  killed[s] \/ s = pidfile \/ (line.isdn /\ sess[s] # "free")]
  /\ red' = [red EXCEPT ![p] = "none"]
  /\ UNCHANGED <<files, sess, updatered, pc, locals, sched, ghost>>

RedStop(p) ==
  \/ StopFiles(p)
  \/ StopTest(p)
  \/ StopKeep(p)
  \/ StopRedial(p)
  \/ StopKill(p)
-----------------------------------------------------------------------------
(* pppd (external) and its scripts ip-up and ip-down                       *)

\* What Timely means: a link comes up with a poll to spare (Patient), ip-up
\* takes less than a poll, a failing pppd lasts until the checker has seen it
\* (Noticed), and a link outlives the scripts of its dial (Settled).
Patient == \A c \in Checkers : pc[c] \in {"free", "init", "waitpppd", "watch"}
                                /\ cnt[c] < MaxConfigure
Noticed == \A c \in Checkers : pc[c] \notin {"init", "waitpppd"}
IpUpRuns == \E s \in Sessions : sess[s] = "ipup"
Settled == updatered = 0 /\ \A p \in Procs : At(p, "free")

\* Where a pppd goes when its link is gone: it exits, or is an ipppd that
\* stays ("it stays even on disconnect") until it is told to go.
Leaves(s) == IF line.isdn /\ ~killed[s] THEN {"demand", "exit"} ELSE {"exit"}

\* Traffic wakes a dial-on-demand pppd, or an ipppd that has stayed.
Demand(s) ==
  /\ sess[s] = "demand"
  /\ ~killed[s]
  /\ sess' = [sess EXCEPT ![s] = "dialing"]
  /\ UNCHANGED <<files, killed, updatered, red, pc, locals, sched, ghost>>

LinkUp(s) ==
  /\ sess[s] = "dialing"
  /\ ~killed[s]
  /\ Timely => Patient
  /\ sess' = [sess EXCEPT ![s] = "ipup"]
  /\ UNCHANGED <<files, killed, updatered, red, pc, locals, sched, ghost>>

\* The peer does not answer, or the pppd was killed before the link was up.
LinkFail(s) ==
  /\ \/ sess[s] = "dialing"
     \/ sess[s] = "demand" /\ killed[s]
  /\ Timely => killed[s] \/ Noticed
  /\ \E l \in Leaves(s) : sess' = [sess EXCEPT ![s] = l]
  /\ UNCHANGED <<files, killed, updatered, red, pc, locals, sched, ghost>>

\* Mutant: ip-up forgets to touch active.
IpUpSilent(s) ==
  /\ sess[s] = "ipup"
  /\ updatered < MaxUpdates
  /\ active' = active
  /\ updatered' = updatered + 1
  /\ sess' = [sess EXCEPT ![s] = "up"]
  /\ UNCHANGED <<keep, redial, dod, pidfile, profile, killed, red, pc, locals, sched, ghost>>

\* ip-up: RED is active, rc.updatered announces it in the background.
IpUp(s) ==
  /\ sess[s] = "ipup"
  /\ updatered < MaxUpdates
  /\ active' = TRUE
  /\ updatered' = updatered + 1
  /\ sess' = [sess EXCEPT ![s] = "up"]
  /\ UNCHANGED <<keep, redial, dod, pidfile, profile, killed, red, pc, locals, sched, ghost>>

\* The peer hangs up, the idle timeout expires, or rc.red stop's signal.
LinkDown(s) ==
  /\ sess[s] = "up"
  /\ Timely => killed[s] \/ Settled
  /\ sess' = [sess EXCEPT ![s] = "ipdown"]
  /\ UNCHANGED <<files, killed, updatered, red, pc, locals, sched, ghost>>

\* Mutant: ip-down forgets to unlink active.
IpDownSilent(s) ==
  /\ sess[s] = "ipdown"
  /\ updatered < MaxUpdates
  /\ active' = active
  /\ updatered' = updatered + 1
  /\ sess' = [sess EXCEPT ![s] = "respawn"]
  /\ UNCHANGED <<keep, redial, dod, pidfile, profile, killed, red, pc, locals, sched, ghost>>

IpDown(s) ==
  /\ sess[s] = "ipdown"
  /\ updatered < MaxUpdates
  /\ active' = FALSE
  /\ updatered' = updatered + 1
  /\ sess' = [sess EXCEPT ![s] = "respawn"]
  /\ UNCHANGED <<keep, redial, dod, pidfile, profile, killed, red, pc, locals, sched, ghost>>

\* Mutant: ip-down leaves the ipppd of an ISDN line running.
IpDownKeepStays(s) ==
  /\ sess[s] = "respawn"
  /\ IF keep = Absent
       THEN \E l \in Leaves(s) : sess' = [sess EXCEPT ![s] = l]
       ELSE sess' = [sess EXCEPT ![s] = "reconnect"]
  /\ UNCHANGED <<files, killed, updatered, red, pc, locals, sched, ghost>>

\* Mutant: ip-down leaves redial but does not run rc.red stop.
IpDownKeepTouches(s) ==
  /\ sess[s] = "respawn"
  /\ IF keep = Absent
       THEN /\ \E l \in Leaves(s) : sess' = [sess EXCEPT ![s] = l]
            /\ UNCHANGED redial
       ELSE /\ sess' = [sess EXCEPT ![s] = "reconnect"]
            /\ redial' = (redial \/ line.isdn)
  /\ UNCHANGED <<active, keep, dod, pidfile, profile, killed, updatered, red, pc, locals, sched, ghost>>

\* Mutant: ip-down does not look at keepconnected.
IpDownKeepAlways(s) ==
  /\ sess[s] = "respawn"
  /\ sess' = [sess EXCEPT ![s] = "reconnect"]
  /\ UNCHANGED <<files, killed, updatered, red, pc, locals, sched, ghost>>

\* ip-down, second part: where RED is to stay connected, an ipppd, which would
\* stay, is hung up by rc.red stop, with redial left for it first.
IpDownKeep(s) ==
  /\ sess[s] = "respawn"
  /\ IF keep = Absent
       THEN /\ \E l \in Leaves(s) : sess' = [sess EXCEPT ![s] = l]
            /\ UNCHANGED <<redial, red>>
       ELSE /\ sess' = [sess EXCEPT ![s] = "reconnect"]
            /\ redial' = (redial \/ line.isdn)
            /\ red' = [red EXCEPT ![s] = IF line.isdn THEN "stop" ELSE "none"]
  /\ UNCHANGED <<active, keep, dod, pidfile, profile, killed, updatered, pc, locals, sched, ghost>>

\* ip-down, third part: redial unless a redial is already under way.
IpDownReconnect(s) ==
  /\ sess[s] = "reconnect"
  /\ red[s] = "none"
  /\ pc' = IF ReconnectRuns THEN pc ELSE [pc EXCEPT ![Reconn] = "init"]
  /\ \E l \in Leaves(s) : sess' = [sess EXCEPT ![s] = l]
  /\ UNCHANGED <<files, killed, updatered, red, locals, sched, ghost>>

\* Every pppd runs with the same link name: whichever exits removes the file.
Exit(s) ==
  /\ sess[s] = "exit"
  /\ sess' = [sess EXCEPT ![s] = "free"]
  /\ killed' = [killed EXCEPT ![s] = FALSE]
  /\ pidfile' = None
  /\ UNCHANGED <<active, keep, redial, dod, profile, updatered, red, pc, locals, sched, ghost>>

Pppd(s) ==
  \/ Demand(s)
  \/ LinkUp(s)
  \/ LinkFail(s)
  \/ IpUp(s)
  \/ LinkDown(s)
  \/ IpDown(s)
  \/ IpDownKeep(s)
  \/ IpDownReconnect(s)
  \/ Exit(s)

UpdateEnds ==
  /\ updatered > 0
  /\ updatered' = updatered - 1
  /\ UNCHANGED <<files, sess, killed, red, pc, locals, sched, ghost>>
-----------------------------------------------------------------------------
(* rc.connectioncheck start                                                *)

\* The process continues at l, or calls rc.red with command r from there.
Goto(p, l)    == pc' = [pc EXCEPT ![p] = l] /\ UNCHANGED red
Call(p, r, l) == pc' = [pc EXCEPT ![p] = l] /\ red' = [red EXCEPT ![p] = r]

\* A checker exits; its variables die with it.
Quit(c) ==
  /\ Goto(c, "free")
  /\ att' = [att EXCEPT ![c] = 0]
  /\ prof' = [prof EXCEPT ![c] = FirstProfile]
  /\ cnt' = [cnt EXCEPT ![c] = 0]
  /\ waited' = [waited EXCEPT ![c] = FALSE]

\* Both forms of the script begin so: the file is made if it is not there.
KeepFile == keep' = IF keep = Absent THEN 0 ELSE keep

ChkInit(c) ==
  /\ At(c, "init")
  /\ KeepFile
  /\ att' = [att EXCEPT ![c] = IF keep = Absent THEN 0 ELSE keep]
  /\ prof' = [prof EXCEPT ![c] = profile]
  /\ Goto(c, "waitpppd")
  /\ UNCHANGED <<active, redial, dod, pidfile, profile, ppp, cnt, waited, sched, ghost>>

ChkSeesPppd(c) ==
  /\ At(c, "waitpppd")
  /\ PppdRunning
  /\ Goto(c, "watch")
  /\ waited' = [waited EXCEPT ![c] = FALSE]
  /\ UNCHANGED <<files, ppp, att, cnt, prof, sched, ghost>>

\* Mutant: the checker does not wait for rc.red start to end.
ChkNoPppdHasty(c) ==
  /\ At(c, "waitpppd")
  /\ ~PppdRunning
  /\ keep # Absent
  /\ ~waited[c]
  /\ waited' = [waited EXCEPT ![c] = TRUE]
  /\ UNCHANGED <<files, ppp, red, pc, att, cnt, prof, sched, ghost>>

\* No pppd yet: one more poll after rc.red start has ended, then again.
ChkNoPppd(c) ==
  /\ At(c, "waitpppd")
  /\ ~PppdRunning
  /\ keep # Absent
  /\ ~waited[c]
  /\ waited' = [waited EXCEPT ![c] = ~RcRedStartRuns]
  /\ UNCHANGED <<files, ppp, red, pc, att, cnt, prof, sched, ghost>>

ChkNoSync(c) ==
  /\ At(c, "waitpppd")
  /\ ~PppdRunning
  /\ keep # Absent
  /\ waited[c]
  /\ Call(c, "stop", "resync")
  /\ waited' = [waited EXCEPT ![c] = FALSE]
  /\ UNCHANGED <<files, ppp, att, cnt, prof, sched, ghost>>

ChkResync(c) ==
  /\ At(c, "resync")
  /\ Call(c, "start", "last")
  /\ UNCHANGED <<files, ppp, locals, sched, ghost>>

\* "Disconnect via GUI": the file is gone where the script looks for it.
ChkDisconnected(c) ==
  /\ keep = Absent
  /\ \/ At(c, "waitpppd") /\ ~PppdRunning
     \/ At(c, "watch") /\ cnt[c] < MaxConfigure
     \/ At(c, "count")
     \/ At(c, "holdoff")
  /\ Quit(c)
  /\ UNCHANGED <<files, ppp, sched, ghost>>

ChkConnected(c) ==
  /\ At(c, "watch")
  /\ cnt[c] < MaxConfigure
  /\ keep # Absent
  /\ active
  /\ keep' = 0
  /\ Quit(c)
  /\ UNCHANGED <<active, redial, dod, pidfile, profile, ppp, sched, ghost>>

\* The poll that is not counted: dial-on-demand, and ip addr does not show
\* the temporary address.
NotCounted == dod /\ ~TemporaryAddress

ChkPoll(c) ==
  /\ At(c, "watch")
  /\ cnt[c] < MaxConfigure
  /\ keep # Absent
  /\ ~active
  /\ Timely => ~IpUpRuns
  /\ cnt' = [cnt EXCEPT ![c] = IF ~PppdRunning THEN MaxConfigure
                               ELSE IF NotCounted THEN @ ELSE @ + 1]
  /\ UNCHANGED <<files, ppp, red, pc, att, waited, prof, sched, ghost>>

ChkTimeout(c) ==
  /\ At(c, "watch")
  /\ cnt[c] = MaxConfigure
  /\ Goto(c, "fail")
  /\ cnt' = [cnt EXCEPT ![c] = 0]
  /\ UNCHANGED <<files, ppp, att, waited, prof, sched, ghost>>

\* "kill" of every rc.red start that ps shows.  The pid is cut out as the
\* first blank-separated field, which is empty for a pid narrower than the
\* column: which processes K are hit is left open.
ChkFail(c) ==
  /\ At(c, "fail")
  /\ \E K \in SUBSET {p \in Procs : red[p] \in StartPC} :
       /\ red' = [p \in Procs |-> IF p = c THEN "stop"
                                  ELSE IF p \in K THEN "none" ELSE red[p]]
       /\ updatered' = IF /\ \E p \in K : red[p] = "updating"
                          /\ updatered < MaxUpdates
                         THEN updatered + 1 ELSE updatered
  /\ redial' = TRUE
  /\ pc' = [pc EXCEPT ![c] = "waitexit"]
  /\ UNCHANGED <<active, keep, dod, pidfile, profile, sess, killed, locals, sched, ghost>>

ChkPppdGone(c) ==
  /\ At(c, "waitexit")
  /\ ~PppdRunning
  /\ Goto(c, "count")
  /\ UNCHANGED <<files, ppp, locals, sched, ghost>>

\* Mutant: one attempt more than MAXRETRIES is counted.
ChkRetryOffByOne(c) ==
  /\ At(c, "count")
  /\ keep # Absent
  /\ att[c] < MaxRetries
  /\ keep' = att[c] + 1
  /\ Goto(c, "holdoff")
  /\ UNCHANGED <<active, redial, dod, pidfile, profile, ppp, locals, sched, ghost>>

ChkRetry(c) ==
  /\ At(c, "count")
  /\ keep # Absent
  /\ att[c] + 1 < MaxRetries
  /\ keep' = att[c] + 1
  /\ Goto(c, "holdoff")
  /\ UNCHANGED <<active, redial, dod, pidfile, profile, ppp, locals, sched, ghost>>

\* Mutant: the count is reset but the profile is not switched.
ChkExhaustedStays(c) ==
  /\ At(c, "count")
  /\ keep # Absent
  /\ att[c] + 1 >= MaxRetries
  /\ keep' = 0
  /\ IF BackupProfile[prof[c]] # None
       THEN profile' = profile /\ Goto(c, "holdoff") /\ UNCHANGED locals
       ELSE profile' = profile /\ Quit(c)
  /\ UNCHANGED <<active, redial, dod, pidfile, ppp, sched, ghost>>

\* MAXRETRIES reached: on to the backup profile, or no further.
ChkExhausted(c) ==
  /\ At(c, "count")
  /\ keep # Absent
  /\ att[c] + 1 >= MaxRetries
  /\ keep' = 0
  /\ IF BackupProfile[prof[c]] # None
       THEN profile' = BackupProfile[prof[c]] /\ Goto(c, "holdoff") /\ UNCHANGED locals
       ELSE profile' = profile /\ Quit(c)
  /\ UNCHANGED <<active, redial, dod, pidfile, ppp, sched, ghost>>

ChkHoldoffEnds(c) ==
  /\ At(c, "holdoff")
  /\ keep # Absent
  /\ Call(c, "start", "last")
  /\ UNCHANGED <<files, ppp, locals, sched, ghost>>

ChkEnds(c) ==
  /\ At(c, "last")
  /\ Quit(c)
  /\ UNCHANGED <<files, ppp, sched, ghost>>

Checker(c) ==
  \/ ChkInit(c)
  \/ ChkSeesPppd(c)
  \/ ChkNoPppd(c)
  \/ ChkNoSync(c)
  \/ ChkResync(c)
  \/ ChkDisconnected(c)
  \/ ChkConnected(c)
  \/ ChkPoll(c)
  \/ ChkTimeout(c)
  \/ ChkFail(c)
  \/ ChkPppdGone(c)
  \/ ChkRetry(c)
  \/ ChkExhausted(c)
  \/ ChkHoldoffEnds(c)
  \/ ChkEnds(c)
-----------------------------------------------------------------------------
(* rc.connectioncheck reconnect                                            *)

RecInit ==
  /\ At(Reconn, "init")
  /\ KeepFile
  /\ Goto(Reconn, "waitpppd")
  /\ UNCHANGED <<active, redial, dod, pidfile, profile, ppp, locals, sched, ghost>>

RecPppdGone ==
  /\ At(Reconn, "waitpppd")
  /\ ~PppdRunning
  /\ Goto(Reconn, "waitupd")
  /\ UNCHANGED <<files, ppp, locals, sched, ghost>>

RecUpdated ==
  /\ At(Reconn, "waitupd")
  /\ ~UpdateRunning
  /\ Call(Reconn, "start", "last")
  /\ UNCHANGED <<files, ppp, locals, sched, ghost>>

RecEnds ==
  /\ At(Reconn, "last")
  /\ Goto(Reconn, "free")
  /\ UNCHANGED <<files, ppp, locals, sched, ghost>>

Reconnecting == RecInit \/ RecPppdGone \/ RecUpdated \/ RecEnds
-----------------------------------------------------------------------------
\* One more command, from a user or the schedule.
Busy == \E p \in Users \cup {Sched} : ~At(p, "free")
Command ==
  /\ commands < MaxCommands[line]
  /\ commands' = commands + 1
  /\ overlap' = (overlap \/ Busy)

(* The GUI's Connect and Disconnect: dial.cgi and red                      *)

UserStart(u) ==
  /\ At(u, "free")
  /\ Command
  /\ want' = "up"
  /\ Call(u, "start", "free")
  /\ UNCHANGED <<files, ppp, locals, sched, reconnection, line, boots>>

UserStop(u) ==
  /\ At(u, "free")
  /\ Command
  /\ want' = "down"
  /\ Call(u, "stop", "free")
  /\ UNCHANGED <<files, ppp, locals, sched, reconnection, line, boots>>
-----------------------------------------------------------------------------
(* scheduler.pl                                                            *)

SchedBegin(j) ==
  /\ At(Sched, "free")
  /\ Command
  /\ job' = j
  /\ Goto(Sched, IF j = "dial" THEN "dial" ELSE "hangup")
  /\ UNCHANGED <<files, ppp, locals, spid, reconnection, line, want, boots>>

\* Where a job goes on after its hangup.
AfterHangup == CASE job = "reconnect" -> "dial"
                 [] job = "profile"   -> "select"
                 [] OTHER             -> "free"

SchedHangup ==
  /\ At(Sched, "hangup")
  /\ active
  /\ pidfile # None
  /\ spid' = pidfile
  /\ want' = IF job = "hangup" THEN "down" ELSE want
  /\ Call(Sched, "stop", "waitdown")
  /\ UNCHANGED <<files, ppp, locals, job, reconnection, line, overlap, commands, boots>>

\* Nothing to hang up.  A change of profile then does not dial either.
SchedNoHangup ==
  /\ At(Sched, "hangup")
  /\ ~active \/ pidfile = None
  /\ Goto(Sched, AfterHangup)
  /\ job' = IF job = "profile" /\ ~active THEN "none" ELSE job
  /\ UNCHANGED <<files, ppp, locals, spid, ghost>>

SchedDown ==
  /\ At(Sched, "waitdown")
  /\ ~active
  /\ sess[spid] = "free"
  /\ Goto(Sched, "waitupd")
  /\ UNCHANGED <<files, ppp, locals, sched, ghost>>

SchedUpdated ==
  /\ At(Sched, "waitupd")
  /\ ~UpdateRunning
  /\ Goto(Sched, AfterHangup)
  /\ spid' = None
  /\ UNCHANGED <<files, ppp, locals, job, ghost>>

SchedSelect ==
  /\ At(Sched, "select")
  /\ profile' \in Profiles
  /\ Goto(Sched, IF job = "profile" THEN "dial" ELSE "free")
  /\ UNCHANGED <<active, keep, redial, dod, pidfile, ppp, locals, sched, ghost>>

SchedDial ==
  /\ At(Sched, "dial")
  /\ IF active
       THEN Goto(Sched, "free") /\ UNCHANGED want
       ELSE Call(Sched, "start", "waitactive") /\ want' = "up"
  /\ UNCHANGED <<files, ppp, locals, sched, reconnection, line, overlap, commands, boots>>

\* Connected, refused, or 60 seconds have passed.
SchedDialled ==
  /\ At(Sched, "waitactive")
  /\ Goto(Sched, "free")
  /\ UNCHANGED <<files, ppp, locals, sched, ghost>>

SchedStep ==
  \/ SchedHangup
  \/ SchedNoHangup
  \/ SchedDown
  \/ SchedUpdated
  \/ SchedSelect
  \/ SchedDial
  \/ SchedDialled
-----------------------------------------------------------------------------
\* A power failure and the boot after it: the boot removes the leftovers it
\* knows of; keepconnected and redial stay on the disk.
PowerFail ==
  /\ boots < MaxBoots
  /\ boots' = boots + 1
  /\ active' = FALSE
  /\ dod' = FALSE
  /\ pidfile' = None
  /\ sess' = [s \in Sessions |-> "free"]
  /\ killed' = [s \in Sessions |-> FALSE]
  /\ updatered' = 0
  /\ red' = [p \in Procs |-> "none"]
  /\ pc' = [p \in Procs |-> "free"]
  /\ job' = "none"
  /\ spid' = None
  /\ want' = "none"
  /\ UNCHANGED <<keep, redial, profile, locals, reconnection, line, overlap, commands>>

ScriptStep ==
  \/ \E p \in Procs : RedStart(p) \/ RedStop(p)
  \/ \E s \in Sessions : Pppd(s)
  \/ UpdateEnds
  \/ \E c \in Checkers : Checker(c)
  \/ Reconnecting
  \/ SchedStep

Next ==
  \/ ScriptStep
  \/ \E u \in Users : UserStart(u) \/ UserStop(u)
  \/ \E j \in SchedJobs : SchedBegin(j)
  \/ PowerFail

Spec == Init /\ [][Next]_vars

\* The kernel runs every script; a pppd that was told to go, or whose peer
\* is silent, ends; scripts end.  Only links, users and the schedule do as
\* they please.
Fairness ==
  /\ \A p \in Procs : WF_vars(RedStart(p) \/ RedStop(p))
  /\ \A c \in Checkers : WF_vars(Checker(c))
  /\ WF_vars(Reconnecting)
  /\ WF_vars(SchedStep)
  /\ WF_vars(UpdateEnds)
  /\ \A s \in Sessions :
       /\ WF_vars(LinkUp(s) \/ LinkFail(s))
       /\ WF_vars(killed[s] /\ LinkDown(s))
       /\ WF_vars(IpUp(s))
       /\ WF_vars(IpDown(s))
       /\ WF_vars(IpDownKeep(s))
       /\ WF_vars(IpDownReconnect(s))
       /\ WF_vars(Exit(s))

FairSpec == Spec /\ Fairness
-----------------------------------------------------------------------------
(* Properties                                                              *)

\* RED is never shown active without a pppd behind it: whatever ip-up,
\* ip-down and any number of rc.red stop do to the file, a session that has
\* passed ip-up and not finished ip-down exists.
ActiveHasSession == active => \E s \in Sessions : sess[s] \in {"up", "ipdown"}

\* redial exists only while a script that left it is on its way through its
\* own rc.red stop ("stay with keepconnected during transitional rc.red stop
\* ordered by rc.connectioncheck"): a checker, or the ip-down of an ipppd.
Holds(p) ==
  /\ red[p] \in {"stop", "testredial", "unlinkkeep", "unlinkredial"}
  /\ p \in Sessions \/ (p \in Checkers /\ pc[p] = "waitexit")
RedialHeld == redial => \E p \in Procs : Holds(p)

\* rc.red start never adds a pppd to one that runs ("Can't start RED when
\* it's still active"), unless two commands overlapped.
SingleSession ==
  ~overlap => \A s, t \in Sessions : sess[s] # "free" /\ sess[t] # "free" => s = t

\* Every running pppd can be hung up: the pid file names it.
NoOrphan ==
  ~overlap => \A s \in Sessions : sess[s] \notin {"free", "exit"} => pidfile = s

\* An established link that nobody is hanging up is shown as active, while
\* commands come one at a time.
UpIsActive ==
  \A s \in Sessions :
    (/\ sess[s] = "up"
     /\ ~killed[s]
     /\ ~overlap
     /\ \A p \in Procs : red[p] \notin StopPC) => active

\* Once the last command was a hangup and it has run, nothing dials until
\* the next command: rc.connectioncheck goes by "user pressed disconnect in
\* gui".
Disconnected == want = "down" /\ ~overlap /\ \A p \in Users \cup {Sched} : red[p] = "none"
Dials == \E s \in Sessions : sess[s] = "free" /\ sess'[s] # "free"
DisconnectIsFinal == [][~(Disconnected /\ Dials)]_vars

\* A dial-on-demand pppd is not hung up while it waits for traffic, unless a
\* hangup was ordered ("Don't count in this case").
DemandNotCut ==
  [][\A s \in Sessions :
       sess[s] = "demand" /\ ~killed[s] /\ killed'[s] => want = "down"]_vars

\* Disconnect ends every pppd, unless a dial is ordered meanwhile.
DisconnectTakesEffect == want = "down" ~> (want # "down" \/ ~PppdRunning \/ overlap)

\* A link that drops while it is to stay connected is dialled again.
LostLinkRedialled ==
  \A s \in Sessions :
    (sess[s] = "respawn" /\ keep # Absent)
      ~> (want # "up" \/ \E p \in Procs : red[p] = "dial")

\* Where no dial of a persistent, watched profile succeeds, but rc.red start
\* gets as far as running pppd from some time on, and the profile names a
\* backup profile, the backup is tried ("In case reconnection fails, switch to
\* profile").  Not with a static address: rc.red start announces that one
\* itself, and the next rc.red start is refused while rc.updatered runs.
Undialled == \E p \in Procs : StartNoSync(p)
BackupTried ==
  (/\ reconnection = "persistent"
   /\ line.watched
   /\ ~line.static
   /\ []~active
   /\ <>[](want = "up")
   /\ <>[][~Undialled]_vars) => <>(profile # FirstProfile)

\* The schedule's job comes to an end, its waits for RED to go down included,
\* unless a user's command crossed it.
ScheduledJobEnds == pc[Sched] # "free" ~> (pc[Sched] = "free" \/ overlap)
=============================================================================
