# eFive / IPCop: a TLA+ verification project

eFive is a firewall distribution (a fork of IPCop 2). Its own code is a set of
short programs that run as root: setuid C helpers called by the web interface
(`src/src/misc-progs`), Perl and shell scripts for boot, dialling and cron
(`src/src/rc.d`, `src/src/scripts`), Perl libraries (`src/src/libs`), the CGI
pages (`src/html/cgi-bin`), an ISDN bandwidth daemon (`src/src/ibod`) and the
installer (`src/src/installer`). None of them holds a lock on what it shares
with the others. They communicate through flag files, pid files and
`key=value` settings files, through signals, and through what `ps` shows. That
is what this project models.

Contents: [inventory](#inventory), [plan](#plan), one section per module
([Red](#red), [Ipsec](#ipsec), [Ibod](#ibod),
[Backup, Updates and Vault](#backup-updates-and-vault),
[Services and Traffic](#services-and-traffic),
[Setup and Install](#setup-and-install)), [what is proved](#what-is-proved),
[what is not modelled](#what-is-not-modelled), [how to run it](#how-to-run-it).

## Inventory

| part | state it keeps | operations | interacts with | what is hard | what makes it correct |
|---|---|---|---|---|---|
| RED dial-up: `rc.red`, `rc.connectioncheck`, `ip-up`, `ip-down`, `red.c`, `dial.cgi` | `red/active`, `red/keepconnected`, `red/redial`, `red/dial-on-demand`, the pppd pid file, the selected profile | connect, disconnect, watch a dial, redial, go over to the backup profile | pppd runs `ip-up` and `ip-down`; `rc.updatered` tells everything else | six kinds of script interleave; retries, timeouts, power failure | one pppd, `active` tells the truth, Disconnect is final, a lost link is redialled |
| Scheduler: `scheduler.pl` | none of its own | dial, hangup, reconnect, profile (also dyndns, update, reboot) | runs `red` and waits for its files | waits without a limit | every job ends |
| IPsec: `ipsec.cgi`, `ipsecctrl.c`, `vpn-watch`, `vpn-functions.pl`, part of `rc.updatered` | `ipsec/config`, `ipsec/settings`, `ipsec.conf`, pluto's pid file, the pipe of `vpn-watch`, its children | save, toggle, restart, remove, edit; start and stop, with and without a key; watch dynamic peers | the page calls `ipsecctrl`, RED calls it in the background, it calls `vpn-watch` and `setfwrules` | overlapping calls kill one another's `vpn-watch`, stale reads, delayed starts | pluto, firewall and watchers match what is saved |
| ibod: `ibod.c` | last time, last byte counts, last number of channels, filtered throughput, stay-up time | measure, add the slave channel, remove it, reread `ibod.cf` | kernel ISDN; started by `rc.red` | SIGHUP at any moment, unsigned differences, truncating division, a clock that is set | throughput within what the line carries, no fault, slave added under load, kept for the minimum time, given back |
| Updates: `installpackage.c`, `updates.cgi`, `updatelists.pl`, `general-functions.pl` | `/var/patches`, `available.xml`, `installed.xml` | refresh the list, download, test, install | page and cron write the same lists | package removed before setup ran, lists truncated before they are locked | what is installed is listed, nothing is installed twice, a failure can be retried |
| Backup and restore: `ipcopbkcfg.c`, `ipcoprestore.c`, `ipcopbackup.c`, `installer/restore.c`, `helper_backup.c` | `/home/httpd/html/backup`, the key, temporary files with fixed names | write, import, restore, version test | page, cron, installer | exit handlers remove what another run made | an archive matches its tag, a refused archive changes nothing |
| Traffic accounting: `aggregatetraffic.pl`, `monitorTraffic.pl`, `traffic-lib.pl`, `accountingctrl.c` | `ulogd.db`, `aggregate.db`, ulogd | aggregate, warn, start and stop | cron, page | two databases, two commits | every byte is counted once |
| Installer and setup: `installer.c`, `networking.c`, `partition.c`, `hardware.c`, `helper.c` ... | known cards, `ethernet/settings`, `dhcp/settings`, partition table | assign cards, set addresses, partition, copy, restore | `setup` changes what all others read | cards shared between colours, sizes at their limits | only chosen disks are written, each colour has one card, partitions fit |
| Service helpers: `openvpnctrl.c`, `restart*.c`, `rebuildhosts.c`, `setaliases.c` | pid files | stop, read settings, start | page, `rc.updatered` | a stale pid file | an undisturbed run leaves daemon and rules as the settings say |
| Firewall rules: `puzzleFwRules.pl`, `setfwrules.c`, `rc.firewall` | iptables chains | rebuild one group of chains | everybody | text generation | out of scope, see below |
| Settings files: `readhash`, `writehash`, `read_kv_from_file` | every `settings` file | read, write | everybody | truncate, then lock; readers do not lock | a reader sees a whole file |
| Dynamic DNS: `setddns.pl` | cache of addresses | update | RED, cron | provider protocols | out of scope |
| Web interface, languages | - | forms | the helpers | - | out of scope but for requests that act on a modelled part |
| Boot, shutdown, drivers: `rc.sysinit`, `rc.net`, `rc.halt`, `rc.*adsl` | leftovers of the last run | straight-line scripts | RED | leftovers after a power failure | in Red where it concerns RED |
| Build system: `make.sh`, `lfs`, `config/rootfiles` | - | - | - | - | out of scope |

`PROJECT.json` lists the same parts under `components`, and under `hazards`
what is hard to test in each, at its line.

## Plan

Modules in the order of what the system is for: a firewall is useless without
its line (Red) and its tunnels (Ipsec).

| | module | composes | abstract specification | run | theorems |
|---|---|---|---|---|---|
| 1 | Red | - | - | `red_*` | RedProofs |
| 2 | Ipsec | page, helper, watcher, RED | - | `ipsec_*` | IpsecProofs |
| 3 | Ibod | - | - | `ibod` | IbodProofs |
| 4 | Backup | page, three programs, power | Vault, as the property Implements | `backup`, `backup_refused` | BackupProofs |
| 5 | Updates | EXTENDS Backup: an update changes the release the version test of a restore compares with | - | `backup` | UpdatesProofs |
| 6 | Services, Traffic | Traffic EXTENDS Services: one more service, with a cron job beside it | - | `services` | ServicesProofs, TrafficProofs |
| 7 | Setup, Install | Install EXTENDS Setup: setup runs in the chroot the installer made, then on the machine it left | - | `install` | InstallProofs |

All of them are written and checked, and each has its theorems. Left to prove:
Red for persistent and dial-on-demand profiles under `Timely`, where the
theorems of manual profiles need a checker that never crosses a user's command.

## Red

`Red.tla` models the dial-up half of RED: profiles that run pppd.

**State.** The flag files are variables (`active`, `keep`, `redial`, `dod`,
`pidfile`, `profile`). A script is a process with two program counters: `red`
says where it is inside `rc.red`, `pc` where it is in `rc.connectioncheck` or
`scheduler.pl` when it is not. `sess` is the life of each pppd (ipppd on ISDN),
`killed` the SIGTERMs not obeyed yet, `updatered` the number of `rc.updatered`
in the background. A session that runs `rc.red` itself stands for the `ip-down`
of its ipppd. `line` is what the scripts tell apart of the kind of line: `isdn`,
`watched` (PPPOE, PPTP and RFC2364, for which `rc.red start` starts the checker)
and `static` (METHOD STATIC, for which `rc.red` itself runs `rc.updatered`). One
step is one file operation or one look at `ps` that another script can observe.

**Actions.**

| code | actions |
|---|---|
| `rc.red start` | StartGuard (refusals), StartSpawn (checker in the background for a watched line, dial-on-demand flag), StartNoSync, StartDial, StartUpdated (a static address only) |
| `rc.red stop` | StopFiles, StopTest, StopKeep, StopRedial, StopKill: test and unlinks are separate steps; `rc.isdn stop` signals every ipppd, the others the pppd of the pid file |
| `rc.connectioncheck start` | ChkInit ... ChkEnds, one per poll, test or call of `rc.red` |
| `rc.connectioncheck reconnect` | RecInit, RecPppdGone, RecUpdated, RecEnds |
| pppd with `ip-up` and `ip-down` | Demand, LinkUp, LinkFail, IpUp, LinkDown, IpDown, IpDownKeep (ISDN that is to stay connected: `touch redial`, then `rc.red stop`), IpDownReconnect (`rc.connectioncheck reconnect`), Exit |
| `red`, `dial.cgi` | UserStart, UserStop |
| `scheduler.pl` | SchedBegin, SchedHangup, SchedNoHangup, SchedDown, SchedUpdated, SchedSelect, SchedDial, SchedDialled |
| `rc.net` after a power failure | PowerFail |

pppd itself is external: a pid file for its life, `ip-up` before `ip-down`, both
finished before it exits. An ipppd stays when its link is down and dials again
on traffic (`Leaves`, Demand). Both are taken to run their scripts in `/`, which
is where the relative path in the `touch` of `ip-down:41` names `redial`. The
driver scripts, the options of each dial routine and the checks of the profile
are one choice, StartNoSync or StartDial. All profiles of a behaviour share one
RECONNECTION and one kind of line, chosen at the start (`reconnection`, `line`).
The attempt counter and the poll counter are kept.

**History variables.** `want` is what was last asked for. `overlap` becomes
TRUE when a command is given while another is still carried out; properties
the code does not keep across that are conditional on it.

**`Timely`** is an assumption about the line, not about the code: a link comes
up or fails with a poll of the checker to spare and lives until the scripts
of its dial have ended. Without it, the behaviours listed below are reachable.

| run | bounds | shows |
|---|---|---|
| `red_manual` | manual profiles, a PPTP line with a static address or an ISDN line, 1 user and the schedule, 3 commands, 1 power failure, 2 profiles; fair | while commands come one at a time: at most one pppd (SingleSession), the pid file names it (NoOrphan), an established link is shown (UpIsActive), nothing dials after a Disconnect that has run (DisconnectIsFinal); Disconnect works (DisconnectTakesEffect) and every scheduled job ends (ScheduledJobEnds) |
| `red_persistent` | persistent profile on DSL, on ISDN, and on ISDN that was left on RFC2364 and so has a checker too; 2 commands by 1 user (1 on that last line, which interleaves most), 2 checkers, 2 pppd, no restriction on timing | in every interleaving, overlapping commands included: TypeOK, ActiveHasSession, RedialHeld |
| `red_timely` | persistent and dial-on-demand on all eight kinds of line, 1 command, MAXRETRIES 3, MAXCONFIGURE 3 polls, 2 profiles with a backup; `Timely`; fair | SingleSession, NoOrphan; a lost link is redialled (LostLinkRedialled); where no dial succeeds the backup profile is tried (BackupTried) |
| `red_demand_cut` | dial-on-demand, 1 command | DemandNotCut is violated: the checker counts exactly the polls its comment says are not counted |

Two pppd and two checkers are enough for each script to meet another instance
of itself; a third checker would need a third dial under way, which needs a
third command. MAXRETRIES 3 makes two counted attempts before the switch.

**Fairness.** Weak fairness of every script (the kernel schedules it), of
pppd obeying a signal and of a dial succeeding or failing (LCP and chat
timeouts), of `rc.updatered` ending. Links going down by themselves, traffic
and commands are not fair.

**What the conditions hide.** These sequences are reachable in the code and
are the reason for the conditions above; each was seen in a trace:

- A Disconnect that runs while `rc.red start` is still loading drivers kills
  nobody, and the pppd that follows stays: DisconnectIsFinal is only claimed
  for manual profiles without overlap.
- With persistent and dial-on-demand profiles the `rc.red start` of a checker
  may cross that of a user, which no history of commands shows: SingleSession,
  NoOrphan and UpIsActive are claimed, and proved, for manual profiles, and
  checked for the others only under `Timely`.
- A persistent link that lives shorter than the polls of its checker gets a
  checker's redial and a reconnect redial, which can end in two pppd.
- A lost link is not redialled when `ps` still shows the reconnect script of
  the loss before.
- A dial that fails before pppd runs resets the attempt count, so such
  failures never lead to the backup profile: hence the last condition of
  BackupTried. Nor does a line that has no checker. With a static address the
  `rc.updatered` of `rc.red start` may refuse the very redial that would change
  the profile.
- A power failure inside a checker's `rc.red stop` leaves `redial` behind, and
  the next Disconnect then keeps `keepconnected`: hence `MaxBoots = 0` for
  RedialHeld.

## Ipsec

`Ipsec.tla` models the page, the helper `ipsecctrl`, `vpn-watch` and the calls
from RED.

**State.** `config` is a row (absent, off, on) per connection; `conf` what was
last written to `ipsec.conf`; `enabled`, `vpnwatch`, `cards` the settings;
`fw` the interfaces the rules of `setfwrules --ipcop` were made for, `opened`
what a `puzzleFwRules.pl` under way has read and not put in place yet; `pluto`,
`loaded`, `peer` what pluto has; `pipe`, `wconn`, `wold`, `wnew`, `wpc` the
pipe and the children of `vpn-watch`. A process (`pc`, `op`, `key`, `row`,
`copy`) is one request of the page or one background job. `copy` is the config
as this request read it, which is what it writes back.

**Actions.** Page: Save, ToggleOn, ToggleOff, RestartConn, Remove, Edit, then
WriteConfig and writeipsecfiles. ToggleOff and Remove call `ipsecctrl` before
they write, the others after. `ipsecctrl`: WatchStop and WatchKill (the
`vpn-watch --stop` it begins with, which also kills a `--start` or `--stop`
another `ipsecctrl` waits for), Halt, Scan (settings, rows, refusals), Launch
(`ipsec restart`), Keyed (one connection), WatchTest and WatchFork (`vpn-watch
--start`). Halt and Scan run `setfwrules --ipcop`, that is `puzzleFwRules.pl
-i`, in three kinds of steps: RulesRead (it reads the settings), RulesFlush (the
chain is emptied) and RulesAdd (one interface after the other). Nothing locks
the chain, so that two of them may read older settings and mix their rules;
`after` is where `ipsecctrl` goes on. Children: WatchFirst, WatchCheck,
WatchRestart. World: RedUp, Delayed, RedDown, Renamed, BlueRemoved.

What is inside a connection, certificates, secrets, KLIPS aliases, `--status`
and `--reload` are left out. A connection is of type net or host, has a name
or an address as its peer, and is on RED or on BLUE. pluto is external: it
loads `ipsec.conf` when it starts, resolves a name when it loads a connection.

**History variables.** `overlap`: a call began while another was under way.
`missed`: a peer changed its address while `ipsecctrl` or a new child had not
looked yet. `mixed`: the last `puzzleFwRules.pl` to read the settings found
another one between its first and its last command.

| run | bounds | shows |
|---|---|---|
| `ipsec_requests` | a net connection to a dynamic peer on RED, a road warrior on BLUE; 2 clicks of any kind, 2 changes of RED, 1 change of the name service, BLUE removed once; one page and one job at a time, interleaved freely | whatever RED changes overlap with the page: what is on is loaded (OnIsLoaded), the firewall matches unless two rewritings met (FwMatches). While calls follow one another: what is off is unloaded (OffIsUnloaded), disabled means stopped (DisabledIsStopped), one watcher each (OneWatcher), every dynamic peer watched while its name does not change (DynamicWatched) |
| `ipsec_red` | RED changing 3 times under 2 jobs, 2 changes of the name service; fair | PeerFollows, StoppedWithRed, StartedWithRed |
| `ipsec_edit_off` | save and edit | OffIsUnloaded is violated: a connection saved with Enabled unticked stays in pluto |

Two clicks make every pair of requests; RED going down and up makes a stop and
a delayed start that can fall anywhere between them. Two watcher slots are
what two connections, or one watched twice, need. Deadlock is checked: a state
without a successor other than Resting would be a process that cannot go on.

**Fairness.** Processes and children go on; changes of RED and of names do not
have to happen.

**What the conditions hide**, seen in traces: a start delayed by
`VPN_DELAYED_START` that is applied after the stop of a later RED down; two
`vpn-watch --start` past their test at once, so two children for a
connection; `vpn-watch` switched off in the settings while a `--start` has
passed its test; a peer that moves between the load and its child's first
look, which is then never noticed; an enabled interface whose card is gone,
on which `ipsecctrl` gives up after it has stopped the watchers (`Sound`); two
`puzzleFwRules.pl` at once, of which the one that read the older settings runs
its last command last, or whose rules come to lie in one chain (`mixed`).
The search for inductive invariants showed four more, which the conditions now
name: before RED has a device `ipsecctrl` has "nothing to do" for a RED
connection that is turned off, and pluto keeps it (`RedDevice` in
OffIsUnloaded); a peer that moves between the `ipsec auto --delete` of a toggle
and the rewriting of `ipsec.conf` has its watcher load the connection again
(`missed` there); the child of a name that stops resolving ends, and when the
name resolves again nobody starts another (`moves = 0` in DynamicWatched); two
requests at once each write back the config they read, so the one can turn on in
the file what the other has just unloaded (OnIsLoaded is for one page at a
time).

## Ibod

`Ibod.tla` models the whole daemon. Time is in ticks, `Second` of them to the
second; two times, or two byte counts, that the code only subtracts are kept
as their difference (`ms`, `grown`, `upsecs`). The arithmetic is that of the
build: differences are `unsigned long` (`Unsigned`, modulo `Word`), divisions
truncate. `pc` names the points between which SIGHUP (`reread`) can change the
configuration: asleep, before the division without filter, before the one
with it, before the decision. A division by zero is the state `fault`.

`Tick`, `TimeSet`, `Opened`, `Closed` and `Traffic` are the clock and the
kernel. They happen while ibod sleeps: the loop itself takes no measurable
time. When a channel is closed its counter starts again, so the sum falls by
at most what was counted (`MaxLoss`). `Dial` is `rc.red`, which kills the
running ibod and starts another.

**History variables.** `lost` and `swapped`: a channel was closed, and the
next measurement found as many channels as before. `upticks`: real time since
this ibod added the slave.

| run | bounds | shows |
|---|---|---|
| `ibod` | half-second ticks, 2 channels, the built-in configuration (scaled), one without filter and one that is disabled and sleeps whole seconds; one SIGHUP, change of time or dial; fair | TypeOK; RateIsCarried unless disturbed; NoFault unless disturbed; StaysUp; LoadAnswered; IdleReleased |

One direction of traffic: the two are computed alike and only meet in `Above`,
which is why the theorems, for any set of directions, cover the rest. A word
of 16 is the smallest that holds a measurement and still wraps on a swapped
channel. Deadlock is not checked: ibod exits when the device refuses.

**Fairness.** The loop is scheduled and time passes. Nothing is assumed of
traffic and channels: LoadAnswered and IdleReleased assume, in the property,
that the load or the idleness lasts.

What NoFault and RateIsCarried exclude is reachable: a SIGHUP that cuts the
sleep short, an INTERVAL of whole seconds (the loop passes only the
microseconds to `usleep`) and a filter set to 0 between test and division end
the daemon; a channel replaced between two polls gives a huge throughput, and
with the filter it takes several polls to forget it.

## Backup, Updates and Vault

`Backup.tla` models `ipcopbkcfg`, `ipcoprestore`, `ipcopbackup` and the
requests of `backup.cgi`; `Updates.tla` adds `installpackage` and
`updates.cgi`; `Vault.tla` says what backup and restore promise.

**State.** The list of archives (`dat`, `tag`) and the upload, per medium that
can be mounted; the files with fixed names (`inner` is
`/var/ipcop/backup.dat.time`, `tgz` and `tar` the decrypted archive in `/tmp`);
the running configuration, hardware settings and release; the ports
`main/settings` holds (`written`) and those httpd and sshd were last set to
(`listen`). An untar that stops half-way leaves the old settings, the new ones,
settings that end before the ports (which then have their defaults) or none. The
servers look at their own configuration only when `setreservedports.pl` is run.
A program has a point `pc`, the date it works for and its private copy. An
archive is the record of what is told apart: configuration, hardware settings,
release, the newest date in it and the tag inside it. `Torn` is an incomplete
archive or configuration. `Start` is the second the model begins in: archives
made here are dated from then on, those uploaded are older.

**Actions.** One per command that another program can observe.

| code | actions |
|---|---|
| `ipcopbkcfg --write` | Write (tag), TarArchive, Encrypt, TagArchive; TarFails, EncryptFails |
| `ipcoprestore --import` | Import, Decrypt, Test, DateImport, MoveImport; DecryptFails, TestFails, TestRefuses |
| `ipcoprestore --restore` | Restore, Decrypt, Test, Gunzip, Untar, SetPorts; UntarFails |
| `ipcopbackup` | Floppy, VerifyFloppy |
| `backup.cgi` | Remove, Mount and the requests above |
| `installpackage`, `updates.cgi` | Upload, Apply, Gpg, Merge, Setup, ReadList, WriteList, DeletePackage; GpgFails, SetupFails |
| world | Edit (other pages), Tick (the clock, in seconds), PowerFail |

The version test is the arithmetic of `getbackupversion` and
`testbackupversion`; Vault states the comment above it in words of releases
(`Accepted`), so the refinement also compares the two on every release of the
instance.

**History variables.** `tangled`: a request began while a program ran, or in a
second that already has its archive. `refused`: an archive was refused for its
release. `halfway`: an untar that failed left other ports in `main/settings`, and
none were set since.

| run | bounds | shows |
|---|---|---|
| `backup` | 2 programs at once, 2 media, 3 configurations (two on the same ports), 4 releases, 4 uploads (accepted, too old, too new, damaged), 3 requests, 1 edit, 1 upload of a package, 1 power failure, 3 seconds | ListedIsTrue, PortFollows (but for `halfway`), InstalledIsListed while requests come one at a time; Cleaned in every interleaving; Implements: every step of Backup and Updates is a step of Vault, or changes nothing Vault sees, until requests overlap |
| `backup_refused` | as `backup`, with 1 program and 2 requests | AnswerIsTrue is violated: a refused release ends `ipcoprestore` with SIGSEGV, and the page shows success |

Three requests are enough for a write, a restore and an update in any order,
or for two that overlap and one that meets what they left. Deadlock is not
checked: when the requests are used up nothing need happen.

**What the conditions hide**, seen in traces: the exit handler of one
`ipcopbkcfg` removes the tag of another, whose archive then carries none; two
restores unpack one another's archive; an import moves the upload of another; a
medium mounted under a running program gets its files; after a restore that
failed with the new `main/settings` in place, the next one takes those ports for
the ones in force, finds no difference and leaves the servers where they were
(`halfway`); a power failure leaves the decrypted archive in `/tmp` when that is
on disk, and a release that has been installed but is not listed.

Two things are simpler here than in the code. What a program has written
survives a power failure, although `ipcopbkcfg` never syncs (the call is
commented out at its line 366). And a setup of an update that a signal kills,
which `installpackage.c:251` takes for one that succeeded because it looks at
the exit status without the signal, is not a step of `Updates`.

## Services and Traffic

`Services.tla` models ten setuid helpers that make saved settings take effect
(`restartsquid`, `restartntpd`, `openvpnctrl`, `restartssh`, `restartsyslogd`,
`restartdhcp`, `rebuildhosts`, `restartshaping`, `setaliases`, `emailhelper`);
`Traffic.tla` adds `accountingctrl`, ulogd, vnstatd and `aggregatetraffic.pl`.

**State.** The services share only `ethernet/settings` and RED, so a behaviour
is about one service, `svc`, chosen in Init. It has a settings file, a daemon
(off, on, or stopping: SIGTERM was sent and it has not ended), a pid file, the
configuration the daemon was started with (`loaded`), what is set in the kernel
in its order (`chain`: iptables rules, classes, addresses), the file the helper
edits and its O_EXCL copy (`lock`). A helper (`pc`, `arg`, `cfg`, `net`) keeps
what it has read. Traffic adds the two databases as numbers of packets, and the
aggregators.

**Actions.** Call (a page or boot script runs the helper), Save and Saved
(`writehash`: truncated, then written, then the helper), RedUp and RedDown
(`rc.updatered`), one action per command of each helper, and the world: Ends (of
a daemon that was told to), Dies, CardGone, PowerFails. A helper sends SIGTERM
and goes on (`Terminate`), restartssh and restartsyslogd at once, restartntpd and
openvpnctrl a second later; only restartsquid waits. A copy that is started while
the old one still has its port gives up (`Launch`). A daemon is taken to remove
its pid file, if it does, before it lets go of its port. rc.dnsmasq waits for its
daemon itself. In Traffic: Packet, Cron and the steps of an
aggregation, each commit by itself, with Abort (rollback) and CommitFails.

**Condition.** `clean[p]`: nothing disturbed helper `p` while it ran, and it
did not begin in one of the leftovers of `Trap`, which the helpers cannot put
right: a stale pid file (openvpn, ntpd, vnstatd), rules without a pid file
(squid, ntpd), a daemon without a pid file, a leftover `.new`. A helper that
starts its daemon while the old one is still ending counts as disturbed
(`Started`): that helper may leave the service off. What earlier helpers left by
overlapping is not excluded otherwise: Applies says that the next undisturbed
run puts it right.

| run | bounds | shows |
|---|---|---|
| `services` | 10 services, 2 helpers at once, 3 calls (4 for squid, 2 for accounting), 2 addresses of RED, 2 or 3 saved settings each, 1 daemon that dies or card that goes, 1 power failure; 2 aggregators, 1 packet, 1 failed transaction | EachApplies; LockReleased; CountedOnce unless something fails exactly between the two commits or the databases are emptied under an aggregator |

Two calls overlap and a third meets the result; squid has a fourth because its
start and stop interleave longest. Helpers and aggregators are symmetric.
Deadlock is not checked: calls run out.

**What the conditions hide**, seen in traces or while reading: a daemon that
takes longer to end than its helper sleeps stays off after a restart; two
restarts of squid that overlap double its rules; an `ipsec/settings` that cannot
be read leaves squid without its redirects, a `squid.conf` that is missing
leaves it off; squid's chain is not flushed when there is no pid file; a BLUE
card that is missing also takes the transparency of GREEN; an uplink of 2 to 15
kbit gives `r2q 0`; a new vnstat database stops vnstatd and nothing starts it
again, although the comment of `accountingctrl.c` expects that;
`aggregatetraffic.pl` waits for ever when ulogd is started under it, and starts
it by the ENABLED it read before; two mails share `/tmp/email.msg.tmp`;
`time.cgi` calls `restartntpd` with an option it does not have.

## Setup and Install

`Setup.tla` models the setup program, `Install.tla` the installer, the setup it
runs in the chroot and a session of setup on the machine it leaves.

**State of Setup.** `dialogs` is the stack of open dialogs: in the chroot all
dialogs of `setup.c` in a row, later a menu that pushes one. `proc` is the
memory of the process: the list of cards with their colours, the keys of
`ethernet/settings` as read and changed, the RED type. `eth` is that file on
disk, `rules` udev's rules, `names` the names the devices have now, which follow
the rules at the next boot or when the drivers are loaded again. Of the settings
only the keys are kept that a dialog tests. A colour's `_DEV` is empty, the name
the device has now, or the colour's own name. An address is its number inside a
network and the size of the network, which is what the DHCP range is computed
from.

**State of Install.** `at` is the dialog or the step of `main`; `hw` the list of
drives in the order of the scan; `picked`, `target` what was chosen, with the
sizes of `make_partitions`; `todo` and `done` the commands of `make_ipcop_disk`
left and finished; `mounted` the backup stick; `written` every drive a command
has written to; `died` that setup in the chroot could not be run. The scan reads
at most 26 sd drives (`hardware.c:276`), and drives are few enough here.

`disk-partition.sh` is part of the model: for each disk it takes raid arrays
apart and zeroes their superblocks, erases the table, makes a label, the root and
the log partition in the sizes of `make_partitions`, and sets the flags boot and
raid; parted refuses a partition that has no room (`Fits`).

**Actions.** One per dialog, named as the function (`redconfigtype`,
`cardconfig`, `cardlistDone`, `changeaddress`, `handledomainname`, ...), each
with its way back; `scan_hardware`, `findsource`, `source_network`,
`selectdestination`, `selecttarget`, MakeStep (the next command succeeds, or
fails after it has written, which ends the installation), `handlerestore`,
RunSetup (or setup cannot be run: a message, and on to the congratulation),
Boot. An address form can be left with F12, without an address
(`changeaddress`); udev's rules may not be written, which setup does not notice
(`udevconfig`). World: PowerCut while setup runs, SwapCard while the machine is
off.

| run | bounds | shows |
|---|---|---|
| `install` | 10 machines: a plain one, one whose cards are an ISA card and a card without driver, RAID from two disks booted from a stick with a second stick holding a backup, network with and without an address from the boot, disks at and below the minimum and of another kind, a disk behind a module, a stick alone; 4 cards, 3 colours, 3 RED types, 2 addresses for GREEN; 1 session of setup of 3 choices, 1 event (a card swapped, a power failure or rules that cannot be written), 1 password that cannot be set, 1 form left with F12 | OnlyChosenDisks; Installed; ColoursHaveCards |

Three choices are the network menu and two of its dialogs, or the dialogs of
another section. RED types are one of each kind the code tells apart (modem,
address typed in, address from DHCP). Deadlock is not checked: the installer
ends.

**Left out.** Writing one settings file is a step that does not fail; Boot
forgets what no later dialog reads (the memory of the installer,
`dhcp/settings`, a password not set); the story of a restored machine ends with
the reboot. PCMCIA, modules loaded by hand before the scan, languages, device
names (`usbnames.c`), other architectures than x86.

**What the conditions hide.** Each is an exception named in a property or an
outcome (`crashed`, `died`) of the model:

- `find_kv_default` copies a value it finds over the string constant
  `DEFAULT_IP` (`networking.c:1122`): when the installer had an address on eth0
  by DHCP, setup is killed.
- OK without choosing a RED type leaves `RED_TYPE` empty, although the comment
  says "we must make a decision" (`networking.c:450`).
- `host_domain.c` reads `/tmp/dhcp.params`, which nobody writes; a domain that
  was refused and then skipped goes to the hosts files.
- The address typed in for a network installation is not the one configured.
- A colour whose card is gone, or an ISA card, keeps `COUNT=1`; RED that
  becomes a modem and a card again is counted without a card; a power failure
  between udev's rules and the settings leaves the two apart.
- A machine whose only disk is the stick it was booted from, and an IDE drive of
  another kind behind a disk, end the installer with a null pointer.
- `swapfilesize=256` on a disk of 514 to 523 MB leaves no room for the log
  partition: parted then refuses, so such a disk is never called installed.
- A `system(setup)` that fails is shown, and the installer congratulates on a
  machine with no cards, addresses or passwords (`installer.c:1097`); so
  Installed then only says that the disks are bootable.
- F12 leaves the form of an address without one, also in the chroot, where the
  form has no way back (`helper_newt.c:242`).
- Rules that cannot be written are not reported (`networking.c:632`): the
  settings then count cards that have no names.
- A failing `htpasswd` or `chpasswd` is shown and ignored; a DHCP range typed in
  is not compared with the network; `restore_success` starts as SUCCESS, so the
  message about a cancelled restore is never shown; a wrong backup password
  leaves a useless `backup.key`.

## What is proved

All theorems hold for every value of the constants that satisfies the named
assumption of the module, which TLC evaluates in the runs. What the assumptions
say beyond distinct names and natural bounds, and why the code justifies it:

- `IbodAssumption`: a word holds the largest measurement (32 bits and an ISDN
  line).
- `BackupAssumption`: minor and revision of a release are below 256
  (`getbackupversion` packs them into a byte each); an archive from outside is
  older than the machine's own and its inner tag is its date or missing (that is
  what `ipcopbkcfg` writes); a complete configuration names the ports.
- `UpdatesAssumption`: an update belongs to an earlier release than it makes.
- `ServicesAssumption`: the services are the ten that have a helper here; the
  lines of ipsec's config are finitely many; no address or network of a line is
  the word `any`; a settings file a page has saved is not a truncated one.
- `InstallAssumption`: the kernel gives each drive a name of its own, and none
  is `md` or `network`.
- `SetupAssumption`: GREEN and RED are colours of every machine, the dead cards
  are among its cards, and a network (the block of its netmask) has at least one address.

Some theorems have a hypothesis besides, each because the code does not have the
property otherwise: OneSession, NoneOrphaned, UpIsShown and NothingDials are
about manual profiles (`Modes = {"manual"}`),
OnStaysLoaded about one administrator at a time, OffStaysUnloaded about all
requests but the edit form with Enabled cleared (`"disable" \notin GuiOps`; run
`ipsec_edit_off` is that violation), RedialIsHeld about the time between power
failures.

| theorem | states | argument |
|---|---|---|
| `RedProofs!TypeCorrect` | `[]TypeOK` | per action; the interesting conjunct is `keep \in 0 .. MaxRetries - 1`, which needs `att` to have the same range |
| `RedProofs!ActiveIsJustified` | `[]ActiveHasSession` | only `ip-up` creates `active`, and the same session is `up`; only its LinkDown and IpDown leave that, and IpDown removes `active` |
| `RedProofs!RedialIsHeld` | `[]RedialHeld`, without power failures | inductive with TypeOK: only ChkFail and IpDownKeep make the file, and the checker, or the `ip-down`, that made it then `Holds` it; nobody else moves a holder inside its own `rc.red stop` (`HolderStays`), and it unlinks the file before it leaves |
| `RedProofs!OneSession`, `NoneOrphaned` | `[]SingleSession`, `[]NoOrphan`, manual profiles | `Unchecked`: nothing redials; `OneCommand`: commands that have not overlapped leave at most one script in `rc.red`; `Named` with `Clear`: the pid file names every pppd, and there is none behind the guard of `rc.red start`, which looks at that file |
| `RedProofs!UpIsShown` | `[]UpIsActive`, manual profiles | `Hanging`: a link that is up and not shown has an `rc.red stop` between its unlink of `active` and its kill |
| `RedProofs!NothingDials` | `DisconnectIsFinal`, manual profiles | from `Unchecked`: only `rc.red start` runs a pppd, and only a command that has not ended runs that |
| `IpsecProofs!TypeCorrect` | `[]TypeOK` | per action, the variables in groups |
| `IpsecProofs!FwIsCurrent` | `[]FwMatches` | `FwOwed`: as long as the rules differ from the settings some process is still before its reading of them, or, unless two rewritings met, the one that rewrites has read the settings as they are and what it has put in place and what it has left make them up. `ExitsRightly`: a call goes on, or ends, only after its rules. The step that ends a process, the strike of a `vpn-watch --stop`, RulesRead beside another rewriting and Save are the cases that matter |
| `IpsecProofs!OnStaysLoaded` | `[]OnIsLoaded` | `LoadOwed`: a connection that is on and not in pluto has a call that `Owes` it, before its scan, its restart or its own load; `PageInv`: the config a page holds is the file, and `ipsec.conf` lacks only what that page has just turned on. A background restart may load an old `ipsec.conf`: the page that has yet to write it owes the load |
| `IpsecProofs!OffStaysUnloaded` | `[]OffIsUnloaded` | `Unloaded`: what pluto has is on, or the one call under way is stopping it, and that is gone before its row is written (`RowIsOff`: what the row then says); `ConfKept`: what `ipsec.conf` has beyond the config is about to be rewritten; `StillNames`: no child is about to restart a connection that is being stopped |
| `IpsecProofs!DisabledStops` | `[]DisabledIsStopped` | `StopOwed`: a pluto that runs with nothing enabled has its one call before the halt; `Alone`: calls that have not overlapped follow one another |
| `IpsecProofs!OneWatcherEach` | `[]OneWatcher` | `NoChild`: between the `--stop` a call begins with and its fork there is no child, and the fork makes one for each connection |
| `IpsecProofs!DynamicIsWatched` | `[]DynamicWatched` | `WatchOwed`: a connection to be watched has its child, or the one call under way `WillWatch`; `NamesResolve`: no child ends before a name changes |
| `IbodProofs!TypeCorrect` | `[]TypeOK` | quotients of natural numbers, divisor not zero modulo the word |
| `IbodProofs!RateBounded` | `[]RateIsCarried` | `Counted`: the bytes not measured yet were sent in the time not measured yet; then the product does not overflow, the quotient is within the line speed, and so is the average |
| `IbodProofs!SlaveStays` | `StaysUp` | `TimerBehind`: the truncated seconds the code compares are less than a second ahead of the ticks since the slave was added |
| `IbodProofs!NeverFaults` | `[]NoFault` | `Timed`: when the loop wakes the sleep of the configuration has passed, so the divisor is positive and below the word, and the filter that was tested is the one divided by |
| `BackupProofs!NothingLeft` | `[]Cleaned` | `Owed`: as long as a decrypted file is there, some `ipcoprestore`, not necessarily the one that made it, is between openssl and its exit handler, which removes both |
| `BackupProofs!ListIsTrue` | `[]ListedIsTrue` | `Orderly`: without overlap at most one program runs (`Alone`), every archive of the list is as it should be (`Stored`), and what each command of the running program relies on is still there (`Writing`: the tag it wrote is the one it archives, its second has no archive yet; `Restoring`: the file in `/tmp` is the archive that was tested) |
| `BackupProofs!PortsFollow` | `[]PortFollows` | `Ports`: unless `halfway`, the servers listen where the settings say or the settings cannot be read, or the one restore between untar and its comparison remembers where they listen |
| `UpdatesProofs!ListIsComplete` | `[]InstalledIsListed` | `Listed`: the list is the way to the running release, or to the one before it while the one installation under way is between setup and its writing of the list. The way (`Path`) is the least set closed under Previous, so that it can be reasoned about without induction |
| `UpdatesProofs!BackupIsVault` | `Implements` | from Orderly, per command: MoveImport, TagArchive, Encrypt, Untar and the ways they fail map to a step of Vault, every other command leaves what Vault sees. The version test in packed numbers is shown equal to the words of Vault for all releases |
| `ServicesProofs!LockIsReleased` | `[]LockReleased` | `Held` and `One`: exactly one helper is at its sed while the copy exists. O_EXCL gives the entry, rename and every error the exit; helpers of other services are never there |
| `TrafficProofs!EachHelperApplies` | `[]EachApplies` | `Stage` and `AccountingStage`: what an undisturbed helper has achieved at each of its commands, and that what it has read is still so (`Known`); `Lone`: no other helper runs beside an undisturbed one; `Pids`: which daemons have their pid file whatever has overlapped before, so that outside a Trap the helper finds what it must stop; that a helper which has signalled finds the old daemon gone, or is not undisturbed any more, is the step of its start. For squid, that the chain as a whole (the first rule that fits, `VerdictOf`) redirects what it should follows from the rules being there and every bypass before the redirect of its card (`Bypassed`), kept when chains are joined |
| `TrafficProofs!PacketsCountedOnce` | `[]CountedOnce` | `Alone` and `Took`: the one aggregator that has the lock on `ulogd.db` has taken exactly the rows that are there, so its first commit adds what its second removes; the history `torn` covers the faults between them |
| `InstallProofs!OnlyTheChosen` | `[]OnlyChosenDisks` | `DiskInv`: the scan lists a drive once (`Listed`), so that making the source a cdrom takes it off the destinations; the choice is made from those (`Destined`); the commands name only the choice or the array of it, and a backup stick is mounted read only (`Given`) |
| `InstallProofs!DisksBootable` | `[](at = "done" => Bootable)`, the first half of Installed | `BootInv`: every command a disk needs is done or still to come, those done did fit (`Fits`, for root and log partition alike), and the sizes of `make_partitions` add up for every disk of at least the minimum (`LayoutSizes`, with C's division of negative numbers) |
| `InstallProofs!ColoursAgree` | `[]ColoursHaveCards` | `CardInv`, by the dialogs that are open (`Shape`): before the network nothing is written (`Blank`); in it the settings in memory count what the list has (`InCounts`), and what is counted or listed has its rule or is lost (`Agrees`, `InRules`), but while the list is open (`Edited`); after it the same holds of the file (`Settled`). No colour is given twice (`CardsOnce`), because a colour that a card has is not offered |
| `InstallProofs!InstallIsComplete` | `[]Installed` | DisksBootable, CardInv and `ConfInv`: of an installation under way whose setup was run, and no form of which was left with F12 as far as addresses go, a user without password, host files that differ, and a colour without address each have their dialog still to come (`Pending`); the range for the DHCP server is made of the address that stays, and is free of it (`RangeIsFree`, for every size of network) |

Only model-checked: every liveness property (the prover has no fairness
reasoning beyond propositional temporal logic); SingleSession and NoOrphan of
Red for persistent and dial-on-demand profiles, which rest on `Timely`, an
assumption about the order of whole sequences.

## What is not modelled

- `puzzleFwRules.pl` and the other generators of configuration text: what
  they must get right is the semantics of iptables, squid and dnsmasq.
- Probing of PCI, USB and PCMCIA devices and their names, and the forms of the
  pages: input validation without state over time.
- Dynamic DNS clients, graphs, log handling: one external call each.
- Fetching lists and packages from the server (one choice in Updates), the
  reports of traffic and the sums of vnstat.
- Settings files as a component: Ipsec has the read, edit and write back of its
  config, Services the truncation and the write of a settings file, Setup the
  keys of `ethernet/settings`.
- The build system, translations, patches and root file lists.
- RED without pppd or ipppd (static, DHCP): `rc.red` runs it straight through,
  without the scripts that race here.
- The other callers of `puzzleFwRules.pl`: `restartsquid.c:363`,
  `openvpnctrl.c:157`, `setreservedports.pl`, the firewall pages and
  `rc.firewall`. One of them beside `ipsecctrl` is the case `mixed` excludes.
  What a rule looks at besides the settings of IPsec is not modelled either: RED
  has to be active for RED's, a policy has to be open for BLUE's.
- Several administrators: requests of the page write back the config they
  read, so two at once undo each other; the model has `copy` for it, the runs
  have one administrator.

## How to run it

In this directory, with the modules on the library path:

    tlc -config RedManual.cfg MCRed
    tlc -config IpsecRequests.cfg MCIpsec
    tlc -config Ibod.cfg MCIbod
    tlc -config Backup.cfg MCBackup
    tlc -config Services.cfg MCServices
    tlc -config Install.cfg MCInstall
    tlapm RedProofs.tla        (and Ipsec-, Ibod-, Backup-, Services-, Traffic-,
                               Updates- and InstallProofs)

The largest are `services` and `install`, with three to five million states and
about two minutes each. The other cfg files go with the module their name
begins with.

`PROJECT.json` gives for every run the module, the cfg and the properties; for
every property a mutated definition that breaks it; and for every definition the
lines it models.
