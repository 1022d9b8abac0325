--------------------------- MODULE ServicesProofs ---------------------------
(***************************************************************************)
(* The O_EXCL copy of restartssh and restartsyslogd is a lock: it is held  *)
(* by one helper at a time and every way out gives it back, for any number *)
(* of helpers and whatever else the system does between their steps.       *)
(*                                                                         *)
(* And a helper that nothing disturbs leaves the system as its settings    *)
(* say.  The invariant says what such a helper has achieved by the time it *)
(* is at each of its steps, that no other helper runs beside it, and which *)
(* daemons have their pid files whatever has overlapped before.            *)
(***************************************************************************)
EXTENDS Services, FiniteSetTheorems, TLAPS

\* The shapes the argument needs: pc is a function on Procs.
Shape == pc = [p \in Procs |-> pc[p]] /\ lock \in BOOLEAN /\ cuts \in Nat

Holds(p) == pc[p] = "sed"

\* LockReleased, in the parts the steps keep.
Held == (\E p \in Procs : Holds(p)) <=> lock
One  == \A p, q \in Procs : Holds(p) /\ Holds(q) => p = q

LockInv == Shape /\ (svc \in Edited /\ cuts = 0 => Held /\ One)

\* Where a helper goes, the others stay (Go).
LEMMA GoMoves ==
  ASSUME Shape, NEW p \in Procs, NEW next, Go(p, next)
  PROVE  /\ pc' = [q \in Procs |-> pc'[q]]
         /\ pc'[p] = next
         /\ \A q \in Procs : q # p => pc'[q] = pc[q]
<1>1. pc' = [pc EXCEPT ![p] = next] /\ pc = [q \in Procs |-> pc[q]]
  BY DEF Shape, Go
<1> QED
  BY <1>1

\* A step in which nobody begins or ends editing keeps the invariant.
LEMMA Neutral ==
  ASSUME LockInv, UNCHANGED <<svc, lock, cuts>>, pc' = [q \in Procs |-> pc'[q]],
         \A q \in Procs : Holds(q)' <=> Holds(q)
  PROVE  LockInv'
<1>1. Shape'
  BY DEF LockInv, Shape
<1>2. Held => Held'
  BY DEF Held
<1>3. One => One'
  BY DEF One
<1> QED
  BY <1>1, <1>2, <1>3 DEF LockInv

\* The same for a helper that goes on outside the edit.
LEMMA NeutralGo ==
  ASSUME LockInv, NEW p \in Procs, NEW next, Go(p, next), ~Holds(p), next # "sed",
         UNCHANGED <<svc, lock, cuts>>
  PROVE  LockInv'
<1>1. Shape
  BY DEF LockInv
<1>2. \A q \in Procs : Holds(q)' <=> Holds(q)
  BY <1>1, GoMoves DEF Holds
<1> QED
  BY <1>1, <1>2, GoMoves, Neutral

\* Steps that leave the helpers alone (Ends, Dies, CardGone).
LEMMA Still ==
  ASSUME LockInv, UNCHANGED <<svc, lock, cuts, pc>>
  PROVE  LockInv'
<1>1. \A q \in Procs : Holds(q)' <=> Holds(q)
  BY DEF Holds
<1> QED
  BY <1>1, Neutral DEF LockInv, Shape

\* Helpers of the other services have no such copy.
LEMMA Elsewhere ==
  ASSUME LockInv, svc \notin Edited, UNCHANGED <<svc, lock, cuts>>,
         NEW p \in Procs, NEW next, Go(p, next)
  PROVE  LockInv'
<1>1. Shape
  BY DEF LockInv
<1>2. Shape'
  BY <1>1, GoMoves DEF Shape
<1> QED
  BY <1>2 DEF LockInv

\* Calls, saves, RED and returns begin and end no edit.
LEMMA CallsKeep ==
  ASSUME LockInv, NEW p \in Procs,
         \/ \E a \in Options : Call(p, a)
         \/ \E s \in Saveable[svc] : Save(p, s)
         \/ Saved(p) \/ RedDown(p) \/ Return(p)
         \/ \E a \in Addresses : RedUp(p, a)
  PROVE  LockInv'
<1>1. CASE \E a \in Options : Call(p, a)
  <2>1. Go(p, "begin") /\ pc[p] = "idle" /\ UNCHANGED <<svc, lock, cuts>>
    BY <1>1 DEF Call, Busy, Enter, Counted, disk
  <2> QED
    BY <2>1, NeutralGo DEF Holds
<1>2. CASE \E s \in Saveable[svc] : Save(p, s)
  <2>1. Go(p, "save") /\ pc[p] = "idle" /\ UNCHANGED <<svc, lock, cuts>>
    BY <1>2 DEF Save, Busy, Counted, disk
  <2> QED
    BY <2>1, NeutralGo DEF Holds
<1>3. CASE Saved(p)
  <2>1. Go(p, "begin") /\ pc[p] = "save" /\ UNCHANGED <<svc, lock, cuts>>
    BY <1>3 DEF Saved, Enter, disk, bounds
  <2> QED
    BY <2>1, NeutralGo DEF Holds
<1>4. CASE RedDown(p)
  <2>1. pc[p] = "idle" /\ UNCHANGED <<svc, lock, cuts>>
    BY <1>4 DEF RedDown, Busy, Counted, disk
  <2>2. CASE svc = "aliases"
    <3>1. Go(p, "begin")
      BY <1>4, <2>2 DEF RedDown, Enter
    <3> QED
      BY <2>1, <3>1, NeutralGo DEF Holds
  <2>3. CASE svc # "aliases"
    <3>1. UNCHANGED pc
      BY <1>4, <2>3 DEF RedDown
    <3> QED
      BY <2>1, <3>1, Still
  <2> QED
    BY <2>2, <2>3
<1>5. CASE Return(p)
  <2>1. Go(p, "idle") /\ pc[p] = "done" /\ UNCHANGED <<svc, lock, cuts>>
    BY <1>5 DEF Return, disk, bounds
  <2> QED
    BY <2>1, NeutralGo DEF Holds
<1>6. CASE \E a \in Addresses : RedUp(p, a)
  <2>1. Go(p, "begin") /\ pc[p] = "idle" /\ UNCHANGED <<svc, lock, cuts>>
    BY <1>6 DEF RedUp, Busy, Enter, Counted, disk
  <2> QED
    BY <2>1, NeutralGo DEF Holds
<1> QED
  BY <1>1, <1>2, <1>3, <1>4, <1>5, <1>6

\* O_EXCL: the copy is made only where there is none.
LEMMA OpenKeeps ==
  ASSUME LockInv, NEW p \in Procs, Open(p)
  PROVE  LockInv'
<1> DEFINE refused == lock \/ (svc = "rsyslogd" /\ settings = Blank)
<1>1. /\ pc[p] = "begin" /\ UNCHANGED <<svc, cuts>>
      /\ lock' = (lock \/ ~refused)
      /\ Go(p, IF refused THEN "done" ELSE "sed")
  BY Zenon DEF Open, bounds
<1>2. CASE refused
  <2>1. Go(p, "done")
    BY <1>1, <1>2
  <2>2. lock' = lock
    BY <1>1, <1>2, Zenon DEF LockInv, Shape
  <2> QED
    BY <1>1, <2>1, <2>2, NeutralGo DEF Holds
<1>3. CASE ~refused
  <2>1. Go(p, "sed") /\ ~lock
    BY <1>1, <1>3
  <2>2. lock' = TRUE
    BY <1>1, <1>3, Zenon
  <2>3. /\ pc' = [q \in Procs |-> pc'[q]] /\ pc'[p] = "sed"
        /\ \A q \in Procs : q # p => pc'[q] = pc[q]
    BY <2>1, GoMoves DEF LockInv
  <2>4. Shape'
    BY <1>1, <2>2, <2>3 DEF LockInv, Shape
  <2>5. Held'
    BY <2>2, <2>3 DEF Held, Holds
  <2>6. Held => One'
    BY <2>1, <2>3 DEF Held, One, Holds
  <2> QED
    BY <1>1, <2>4, <2>5, <2>6 DEF LockInv
<1> QED
  BY <1>2, <1>3

\* The rename and every failure give the copy back.
LEMMA EditEnds ==
  ASSUME LockInv, NEW p \in Procs, Sed(p) \/ SedFails(p)
  PROVE  LockInv'
<1>1. pc[p] = "sed" /\ lock' = FALSE /\ UNCHANGED <<svc, cuts>>
  BY DEF Sed, SedFails, bounds
<1>2. PICK next \in {"stop", "done"} : Go(p, next)
  BY DEF Sed, SedFails, Done
<1>3. /\ pc' = [q \in Procs |-> pc'[q]] /\ pc'[p] # "sed"
      /\ \A q \in Procs : q # p => pc'[q] = pc[q]
  BY <1>2, GoMoves DEF LockInv
<1>4. Shape'
  BY <1>1, <1>3 DEF LockInv, Shape
<1>5. One => \A q \in Procs : ~Holds(q)'
  BY <1>1, <1>3 DEF One, Holds
<1>6. One => Held' /\ One'
  BY <1>1, <1>5 DEF Held, One
<1> QED
  BY <1>1, <1>4, <1>6 DEF LockInv

\* Every step of restartssh and restartsyslogd.
LEMMA EditingKeeps ==
  ASSUME LockInv, NEW p \in Procs, Editing(p)
  PROVE  LockInv'
<1>1. CASE Stop(p)
  <2>1. Go(p, "start") /\ pc[p] = "stop" /\ UNCHANGED <<svc, lock, cuts>>
    BY <1>1 DEF Stop, disk, bounds
  <2> QED
    BY <2>1, NeutralGo DEF Holds
<1>2. CASE StartEdited(p)
  <2>1. Go(p, "done") /\ pc[p] = "start" /\ UNCHANGED <<svc, lock, cuts>>
    BY <1>2 DEF StartEdited, Done, disk, bounds
  <2> QED
    BY <2>1, NeutralGo DEF Holds
<1> QED
  BY <1>1, <1>2, OpenKeeps, EditEnds DEF Editing

\* Every step of the other helpers.
LEMMA OthersKeep ==
  ASSUME LockInv, NEW p \in Procs,
         \/ Squid(p) \/ Ntpd(p) \/ Openvpn(p)
         \/ Dnsmasq(p) \/ Shaping(p) \/ Aliases(p) \/ Email(p)
  PROVE  LockInv'
<1>1. CASE Squid(p)
  <2>1. svc \notin Edited /\ UNCHANGED <<svc, lock, cuts>>
    BY <1>1 DEF Squid, restartsquid, squidGone, squidKill, squidUnlink, squidRead, squidReadFails,
                squidStart, squidStartFails, squidRules, squidRulesFail, At, Edited, disk, bounds
  <2>2. \E next : Go(p, next)
    BY <1>1 DEF Squid, restartsquid, squidGone, squidKill, squidUnlink, squidRead, squidReadFails,
                squidStart, squidStartFails, squidRules, squidRulesFail, Done
  <2> QED
    BY <2>1, <2>2, Elsewhere
<1>2. CASE Ntpd(p)
  <2>1. svc \notin Edited /\ UNCHANGED <<svc, lock, cuts>>
    BY <1>2 DEF Ntpd, restartntpd, ntpdStop, ntpdStart, At, Edited, disk, bounds
  <2>2. \E next : Go(p, next)
    BY <1>2 DEF Ntpd, restartntpd, ntpdStop, ntpdStart, Done
  <2> QED
    BY <2>1, <2>2, Elsewhere
<1>3. CASE Openvpn(p)
  <2>1. svc \notin Edited /\ UNCHANGED <<svc, lock, cuts>>
    BY <1>3 DEF Openvpn, openvpnctrl, openvpnRead, openvpnStart, At, Edited, disk, bounds
  <2>2. \E next : Go(p, next)
    BY <1>3 DEF Openvpn, openvpnctrl, openvpnRead, openvpnStart, Done
  <2> QED
    BY <2>1, <2>2, Elsewhere
<1>4. CASE Dnsmasq(p)
  <2>1. svc \notin Edited /\ UNCHANGED <<svc, lock, cuts>>
    BY <1>4 DEF Dnsmasq, restartdhcp, rebuildhosts, hostsWritten, dnsmasqTold, At, Edited, disk, bounds
  <2>2. \E next : Go(p, next)
    BY <1>4 DEF Dnsmasq, restartdhcp, rebuildhosts, hostsWritten, dnsmasqTold, Done
  <2> QED
    BY <2>1, <2>2, Elsewhere
<1>5. CASE Shaping(p)
  <2>1. svc \notin Edited /\ UNCHANGED <<svc, lock, cuts>>
    BY <1>5 DEF Shaping, restartshaping, shapingDelete, shapingAdd, shapingFilters, At, Edited, disk, bounds
  <2>2. \E next : Go(p, next)
    BY <1>5 DEF Shaping, restartshaping, shapingDelete, shapingAdd, shapingFilters, Done
  <2> QED
    BY <2>1, <2>2, Elsewhere
<1>6. CASE Aliases(p)
  <2>1. svc \notin Edited /\ UNCHANGED <<svc, lock, cuts>>
    BY <1>6 DEF Aliases, setaliases, aliasesAdd, At, Edited, disk, bounds
  <2>2. \E next : Go(p, next)
    BY <1>6 DEF Aliases, setaliases, aliasesAdd, Done
  <2> QED
    BY <2>1, <2>2, Elsewhere
<1>7. CASE Email(p)
  <2>1. svc \notin Edited /\ UNCHANGED <<svc, lock, cuts>>
    BY <1>7 DEF Email, emailhelper, emailSent, emailNotSent, emailUnlink, At, Edited, disk, bounds
  <2>2. \E next : Go(p, next)
    BY <1>7 DEF Email, emailhelper, emailSent, emailNotSent, emailUnlink, Done
  <2> QED
    BY <2>1, <2>2, Elsewhere
<1> QED
  BY <1>1, <1>2, <1>3, <1>4, <1>5, <1>6, <1>7

\* Every step keeps the invariant.
LEMMA LockKept ==
  ASSUME LockInv, [Next]_vars
  PROVE  LockInv'
<1>1. CASE Ends \/ Dies \/ CardGone
  <2>1. UNCHANGED <<svc, lock, cuts, pc>>
    BY <1>1 DEF Ends, Dies, CardGone, disk, bounds
  <2> QED
    BY <2>1, Still
<1>2. CASE PowerFails
  <2>1. cuts' = cuts + 1 /\ lock' = lock /\ pc' = [p \in Procs |-> "idle"]
    BY <1>2 DEF PowerFails
  <2>2. Shape' /\ cuts' # 0
    BY <2>1 DEF LockInv, Shape
  <2> QED
    BY <2>2 DEF LockInv
<1>3. CASE UNCHANGED vars
  BY <1>3, Still DEF vars, disk, bounds
<1> QED
  BY <1>1, <1>2, <1>3, CallsKeep, EditingKeeps, OthersKeep DEF Next, Quiet

\* For any number of helpers: the copy that keeps others out is there exactly
\* while one helper, and only one, edits; a power failure excepted (restartssh
\* and restartsyslogd, open with O_EXCL, unlink on every error).
THEOREM LockIsReleased == Spec => []LockReleased
<1>1. Init => LockInv
  <2> SUFFICES ASSUME Init PROVE LockInv
    OBVIOUS
  <2>1. pc = [p \in Procs |-> "idle"] /\ lock = FALSE /\ cuts = 0
    BY DEF Init
  <2>2. Shape /\ \A p \in Procs : ~Holds(p)
    BY <2>1 DEF Shape, Holds
  <2> QED
    BY <2>1, <2>2 DEF LockInv, Held, One
<1>2. LockInv /\ [Next]_vars => LockInv'
  BY LockKept
<1>3. LockInv => LockReleased
  BY DEF LockInv, Held, One, Holds, LockReleased
<1> QED
  BY <1>1, <1>2, <1>3, PTL DEF Spec
-----------------------------------------------------------------------------
(* What a helper that nothing disturbs leaves behind *)

\* ethernet/settings and red/.
Machines == [cards : {{"GREEN"}, {"GREEN", "BLUE"}}, static : BOOLEAN, red : Addresses \cup {None}]

\* The types the argument needs.
Types ==
  /\ svc \in Services
  /\ pc = [p \in Procs |-> pc[p]] /\ arg = [p \in Procs |-> arg[p]]
  /\ cfg = [p \in Procs |-> cfg[p]] /\ net = [p \in Procs |-> net[p]]
  /\ clean \in [Procs -> BOOLEAN] /\ pid \in BOOLEAN /\ lock \in BOOLEAN
  /\ settings \in Saveable[svc] \cup {Blank}
  /\ eth \in Machines
  /\ daemon \in {"off", "on", "stopping"}
  /\ \A p \in Procs : pc[p] = "save" => cfg[p] \in Saveable[svc]
  /\ \A p \in Procs : pc[p] = "idle" => cfg[p] = None

\* While a helper is undisturbed, no other runs.
Lone ==
  \A p \in Procs : clean[p] =>
    pc[p] \notin {"idle", "save"} /\ \A q \in Procs : q # p => pc[q] = "idle"

\* Whatever overlaps, a daemon that runs has its pid file and one told to stop
\* has not, except squid and vnstatd; a squid told to stop is waited for by the
\* helper that told it, or has lost its pid file.
Pids ==
  /\ svc \notin {"squid", "accounting"} => (daemon = "on" => pid) /\ (daemon = "stopping" => ~pid)
  /\ svc = "squid" /\ daemon = "stopping" /\ pid => \E q \in Procs : pc[q] = "wait"
  /\ svc = "accounting" /\ daemon # "off" => pid

\* What has been read is still so; what ran has stopped and has no rules.
Known(p) == cfg[p] = settings /\ net[p] = eth
Down     == daemon = "off" /\ chain = <<>>
Owned    == daemon # "off" => pid

\* What an undisturbed helper has achieved, by where it is.
SquidStage(p) ==
  /\ pc[p] = "begin" /\ arg[p] = "test" => cfg[p] = None
  /\ pc[p] = "wait" => chain = <<>> /\ daemon # "on" /\ (~pid => daemon = "off")
  /\ pc[p] \in {"unlink", "read"} => Down
  /\ pc[p] = "start" => Down /\ Known(p) /\ Enabled(settings)
  /\ pc[p] = "rules" => /\ daemon = "on" /\ loaded = settings /\ chain = <<>>
                        /\ Known(p) /\ Enabled(settings) /\ ~Missing(p)
  /\ pc[p] = "done" => daemon # "stopping"

NtpdStage(p) ==
  /\ pc[p] = "begin" /\ arg[p] = "red" => cfg[p] = None
  /\ pc[p] = "stop" => Known(p) /\ ~Trap
  /\ pc[p] = "start" => Known(p) /\ daemon # "on" /\ chain = <<>>

OpenvpnStage(p) ==
  /\ pc[p] = "read" => daemon # "on"
  /\ pc[p] = "start" => /\ Known(p) /\ daemon # "on"
                        /\ Enabled(settings) => settings.on \subseteq {"RED"} \cup eth.cards

EditedStage(p) ==
  /\ pc[p] = "sed" => Known(p) /\ Owned
  /\ pc[p] = "stop" => Known(p) /\ Owned /\ file = Via(settings)
  /\ pc[p] = "start" => Known(p) /\ file = Via(settings) /\ daemon # "on"

DnsmasqStage(p) ==
  /\ pc[p] = "write" => Known(p) /\ arg[p] \in {"hosts", "hostsrestart"}
  /\ pc[p] = "tell" => /\ Known(p) /\ arg[p] # "boot"
                       /\ arg[p] \in {"hosts", "hostsrestart"} => file = Via(settings)

ShapingStage(p) ==
  /\ pc[p] = "delete" => Known(p)
  /\ pc[p] = "add" => Known(p) /\ Rated(settings) /\ chain = <<>>
  /\ pc[p] = "filters" => Known(p) /\ Rated(settings) /\ chain = Classes(settings)

AliasesStage(p) == pc[p] = "add" => Known(p) /\ chain = <<>>

EmailStage(p) ==
  /\ pc[p] = "send" => file = arg[p]
  /\ pc[p] = "unlink" => loaded = arg[p]

Stage(p) ==
  /\ pc[p] = "begin" => ~Trap
  /\ svc = "squid" => SquidStage(p)
  /\ svc = "ntpd" => NtpdStage(p)
  /\ svc = "openvpn" => OpenvpnStage(p)
  /\ svc \in Edited => EditedStage(p)
  /\ svc = "dnsmasq" => DnsmasqStage(p)
  /\ svc = "shaping" => ShapingStage(p)
  /\ svc = "aliases" => AliasesStage(p)
  /\ svc = "email" => EmailStage(p)
  /\ pc[p] = "done" /\ settings # Blank => Applied(p)

Staged == \A p \in Procs : clean[p] => Stage(p)

ApplyInv == Types /\ Lone /\ Pids /\ Staged

\* A step of p moves p only, to next, and no other is undisturbed.
Moves(p, next) ==
  /\ Types' /\ Lone'
  /\ pc'[p] = next /\ (clean'[p] => clean[p])
  /\ \A q \in Procs : q # p => pc'[q] = pc[q] /\ ~clean'[q]

\* Every step of a helper is of that kind.
LEMMA HelperMoves ==
  ASSUME ApplyInv, NEW p \in Procs, NEW next, Go(p, next),
         pc[p] \notin {"idle", "save"}, next \notin {"idle", "save"},
         UNCHANGED <<svc, files>>, UNCHANGED own \/ Read(p), UNCHANGED clean \/ Spoil(p),
         daemon' \in {"off", "on", "stopping"}, pid' \in BOOLEAN, lock' \in BOOLEAN
  PROVE  Moves(p, next)
<1> USE DEF ApplyInv
<1>1. pc'[p] = next /\ pc' = [q \in Procs |-> pc'[q]] /\ \A q \in Procs : q # p => pc'[q] = pc[q]
  BY DEF Types, Go
<1>2. clean' \in [Procs -> BOOLEAN] /\ \A q \in Procs : clean'[q] => clean[q]
  BY DEF Types, Spoil
<1>3. \A q \in Procs : q # p => ~clean'[q]
  BY <1>2 DEF Lone
<1>4. /\ arg' = [q \in Procs |-> arg'[q]] /\ cfg' = [q \in Procs |-> cfg'[q]]
      /\ net' = [q \in Procs |-> net'[q]]
      /\ \A q \in Procs : q # p => cfg'[q] = cfg[q]
  BY DEF Types, own, Read
<1>5. Types'
  BY <1>1, <1>2, <1>4 DEF Types, files
<1>6. Lone'
  BY <1>1, <1>2, <1>3 DEF Lone
<1> QED
  BY <1>1, <1>2, <1>3, <1>5, <1>6 DEF Moves

\* So the invariant is kept if the stage of that helper is.
LEMMA StageIsEnough ==
  ASSUME ApplyInv, NEW p \in Procs, NEW next, Moves(p, next), Pids', clean'[p] => Stage(p)'
  PROVE  ApplyInv'
  BY DEF ApplyInv, Staged, Moves

\* read_kv_from_file and read_ethernet_settings give what is saved.
LEMMA ReadKnows ==
  ASSUME Types, NEW p \in Procs, Read(p), UNCHANGED files
  PROVE  Known(p)' /\ arg'[p] = arg[p]
  BY DEF Types, Read, files, Known

\* A start leaves the pid file with the daemon that runs; a helper that stays
\* undisturbed has started it.
LEMMA Starts ==
  ASSUME Types, Pids, svc \notin {"squid", "accounting"}, UNCHANGED svc,
         NEW p \in Procs, NEW with, Started(p, with) \/ NotStarted
  PROVE  /\ Pids' /\ daemon' \in {"off", "on", "stopping"} /\ pid' \in BOOLEAN
         /\ UNCHANGED clean \/ Spoil(p)
         /\ clean'[p] => clean[p]
         /\ Started(p, with) /\ clean'[p] /\ daemon # "on" => daemon' = "on" /\ loaded' = with
<1>1. \/ daemon' = "on" /\ pid'
      \/ daemon' = daemon /\ (pid' <=> pid) /\ pid' \in BOOLEAN
  <2>1. CASE daemon = "off" /\ Started(p, with)
    BY <2>1, Zenon DEF Started, Launch
  <2>2. CASE ~(daemon = "off" /\ Started(p, with))
    <3>1. daemon' = daemon /\ pid' = pid
      BY <2>2 DEF Started, Launch, NotStarted
    <3> QED
      BY <3>1, Zenon DEF Types
  <2> QED
    BY <2>1, <2>2
<1>2. UNCHANGED clean \/ Spoil(p)
  BY DEF Started, NotStarted
<1>3. Pids' /\ daemon' \in {"off", "on", "stopping"} /\ pid' \in BOOLEAN
  <2>1. pid' \in BOOLEAN
    BY <1>1, Zenon
  <2>2. Pids'
    BY <1>1 DEF Pids
  <2>3. daemon' \in {"off", "on", "stopping"}
    BY <1>1 DEF Types
  <2> QED
    BY <2>1, <2>2, <2>3
<1>4. clean'[p] => clean[p]
  BY <1>2 DEF Spoil, Types
<1>5. ASSUME Started(p, with), clean'[p], daemon # "on" PROVE daemon' = "on" /\ loaded' = with
  <2>1. daemon # "stopping"
    BY <1>5 DEF Started, Spoil, Types
  <2> QED
    BY <1>5, <2>1 DEF Started, Launch, Types
<1> QED
  BY <1>2, <1>3, <1>4, <1>5

\* openvpnctrl.
LEMMA OpenvpnApplies ==
  ASSUME ApplyInv, NEW p \in Procs, Openvpn(p)
  PROVE  ApplyInv'
<1> USE DEF ApplyInv
<1>0. /\ svc = "openvpn" /\ UNCHANGED <<svc, files, lock>>
      /\ (daemon = "on" => pid) /\ (daemon = "stopping" => ~pid)
  BY DEF Openvpn, openvpnctrl, openvpnRead, openvpnStart, At, Pids, disk
<1>1. CASE openvpnctrl(p)
  <2>1. /\ pc[p] = "begin" /\ UNCHANGED own /\ UNCHANGED clean
        /\ daemon' = IF Signalled THEN "stopping" ELSE daemon
        /\ (pid' <=> pid /\ ~Signalled) /\ pid' \in BOOLEAN
        /\ Go(p, IF pid /\ ~Signalled THEN "done" ELSE "read")
    BY <1>1, Zenon DEF openvpnctrl, Terminate, At
  <2>2. PICK next \in {"done", "read"} : Go(p, next) /\ (next = "done" <=> pid /\ ~Signalled)
    BY <2>1
  <2>3. Moves(p, next)
    BY <1>0, <2>1, <2>2, HelperMoves DEF Types
  <2>4. Pids' /\ daemon' # "on"
    BY <1>0, <2>1 DEF Pids, Signalled, Types
  <2>5. ASSUME clean[p] PROVE next = "read"
    BY <1>0, <2>1, <2>2, <2>5 DEF Staged, Stage, Trap, Signalled
  <2>6. clean'[p] => Stage(p)'
    BY <1>0, <2>3, <2>4, <2>5 DEF Moves, Stage, OpenvpnStage, Edited
  <2> QED
    BY <2>3, <2>4, <2>6, StageIsEnough
<1>2. CASE openvpnRead(p)
  <2>1. pc[p] = "read" /\ Read(p) /\ UNCHANGED <<daemon, pid, clean>>
    BY <1>2 DEF openvpnRead, At, kernel
  <2>2. PICK next \in {"done", "start"} :
          /\ Go(p, next)
          /\ next = "done" <=> Enabled(settings) /\ settings.on \ ({"RED"} \cup eth.cards) # {}
    BY <1>2 DEF openvpnRead
  <2>3. Moves(p, next)
    BY <1>0, <2>1, <2>2, HelperMoves DEF Types
  <2>4. Pids' /\ Known(p)'
    BY <1>0, <2>1, ReadKnows DEF Pids
  <2>5. clean[p] => daemon' # "on"
    BY <1>0, <2>1 DEF Staged, Stage, OpenvpnStage
  <2>6. ASSUME clean[p], next = "done" PROVE OpenvpnApplied(arg[p])'
    BY <1>0, <2>2, <2>5, <2>6 DEF OpenvpnApplied, files
  <2>7. ASSUME clean[p] PROVE Stage(p)'
    BY <1>0, <2>2, <2>3, <2>4, <2>5, <2>6, <2>7 DEF Moves, Stage, OpenvpnStage, Edited, Applied, files
  <2> QED
    BY <2>3, <2>4, <2>7, StageIsEnough DEF Moves
<1>3. CASE openvpnStart(p)
  <2> DEFINE starts == Enabled(cfg[p]) /\ arg[p] # "stop"
  <2>1. /\ pc[p] = "start" /\ Go(p, "done") /\ UNCHANGED own
        /\ IF starts THEN Started(p, settings) ELSE NotStarted
    BY <1>3 DEF openvpnStart, At, Done
  <2>2. /\ Pids' /\ daemon' \in {"off", "on", "stopping"} /\ pid' \in BOOLEAN
        /\ UNCHANGED clean \/ Spoil(p)
        /\ clean'[p] => clean[p]
        /\ starts /\ clean'[p] /\ daemon # "on" => daemon' = "on" /\ loaded' = settings
    BY <1>0, <2>1, Starts
  <2>3. Moves(p, "done")
    BY <1>0, <2>1, <2>2, HelperMoves DEF Types
  <2>4. ASSUME clean'[p] PROVE OpenvpnApplied(arg[p])'
    <3>1. /\ daemon # "on" /\ Known(p)
          /\ Enabled(settings) => settings.on \subseteq {"RED"} \cup eth.cards
      BY <1>0, <2>1, <2>2, <2>4 DEF Staged, Stage, OpenvpnStage
    <3>2. starts <=> Enabled(settings) /\ arg[p] # "stop" /\ settings.on \subseteq {"RED"} \cup eth.cards
      BY <3>1 DEF Known
    <3>3. daemon' = "on" <=> starts
      BY <2>1, <2>2, <2>4, <3>1 DEF NotStarted
    <3> QED
      BY <1>0, <2>1, <2>2, <2>4, <3>1, <3>2, <3>3 DEF OpenvpnApplied, files, own
  <2>5. ASSUME clean'[p] PROVE Stage(p)'
    BY <1>0, <2>3, <2>4, <2>5 DEF Moves, Stage, OpenvpnStage, Edited, Applied
  <2> QED
    BY <2>2, <2>3, <2>5, StageIsEnough
<1> QED
  BY <1>1, <1>2, <1>3 DEF Openvpn

\* restartssh and restartsyslogd.
LEMMA EditingApplies ==
  ASSUME ApplyInv, NEW p \in Procs, Editing(p)
  PROVE  ApplyInv'
<1> USE DEF ApplyInv
<1>0. /\ svc \in Edited /\ UNCHANGED <<svc, files>>
      /\ (daemon = "on" => pid) /\ (daemon = "stopping" => ~pid)
  BY DEF Editing, Open, Sed, SedFails, Stop, StartEdited, Edited, Pids
<1>1. CASE Open(p)
  <2> DEFINE refused == lock \/ (svc = "rsyslogd" /\ settings = Blank)
  <2>1. pc[p] = "begin" /\ Read(p) /\ UNCHANGED <<daemon, pid, clean>> /\ lock' \in BOOLEAN
    BY <1>1, Zenon DEF Open, kernel
  <2>2. PICK next \in {"done", "sed"} : Go(p, next) /\ (next = "done" <=> refused)
    BY <1>1 DEF Open
  <2>3. Moves(p, next)
    BY <1>0, <2>1, <2>2, HelperMoves DEF Types
  <2>4. Pids' /\ Known(p)'
    BY <1>0, <2>1, ReadKnows DEF Pids, Edited
  <2>5. clean[p] => ~lock /\ Owned'
    BY <2>1 DEF Staged, Stage, Trap, Owned
  <2>6. ASSUME clean[p] PROVE Stage(p)'
    BY <1>0, <2>2, <2>3, <2>4, <2>5, <2>6 DEF Moves, Stage, EditedStage, Edited, files
  <2> QED
    BY <2>3, <2>4, <2>6, StageIsEnough DEF Moves
<1>2. CASE Sed(p)
  <2>1. /\ pc[p] = "sed" /\ Go(p, "stop") /\ UNCHANGED <<own, daemon, pid, clean>>
        /\ file' = Via(cfg[p]) /\ lock' = FALSE
    BY <1>2 DEF Sed, kernel
  <2>2. Moves(p, "stop")
    BY <1>0, <2>1, HelperMoves DEF Types
  <2>3. Pids'
    BY <1>0, <2>1 DEF Pids, Edited
  <2>4. ASSUME clean[p] PROVE Known(p)' /\ Owned' /\ file' = Via(settings)
    BY <1>0, <2>1, <2>4 DEF Staged, Stage, EditedStage, Known, Owned, own, files
  <2>5. ASSUME clean[p] PROVE Stage(p)'
    BY <1>0, <2>2, <2>4, <2>5 DEF Moves, Stage, EditedStage, Edited, files
  <2> QED
    BY <2>2, <2>3, <2>5, StageIsEnough DEF Moves
<1>3. CASE SedFails(p)
  <2>1. /\ pc[p] = "sed" /\ Go(p, "done") /\ UNCHANGED <<own, daemon, pid>>
        /\ lock' = FALSE /\ Spoil(p)
    BY <1>3 DEF SedFails, Done, kernel
  <2>2. Moves(p, "done")
    BY <1>0, <2>1, HelperMoves DEF Types
  <2>3. Pids' /\ ~clean'[p]
    BY <1>0, <2>1 DEF Pids, Edited, Spoil, Types
  <2> QED
    BY <2>2, <2>3, StageIsEnough
<1>4. CASE Stop(p)
  <2>1. /\ pc[p] = "stop" /\ Go(p, "start") /\ UNCHANGED own /\ UNCHANGED <<file, lock, clean>>
        /\ daemon' = IF Signalled THEN "stopping" ELSE daemon
        /\ (pid' <=> pid /\ ~Signalled /\ svc = "sshd") /\ pid' \in BOOLEAN
    BY <1>4, Zenon DEF Stop, Terminate, disk
  <2>2. daemon' \in {"off", "stopping"} /\ (daemon' = "stopping" => ~pid')
    BY <1>0, <2>1 DEF Signalled, Types
  <2>3. Moves(p, "start")
    BY <1>0, <2>1, <2>2, HelperMoves DEF Types
  <2>4. Pids'
    BY <1>0, <2>2 DEF Pids, Edited
  <2>5. ASSUME clean[p] PROVE Known(p)' /\ file' = Via(settings)
    BY <1>0, <2>1, <2>5 DEF Staged, Stage, EditedStage, Known, own, files
  <2>6. ASSUME clean[p] PROVE Stage(p)'
    BY <1>0, <2>2, <2>3, <2>5, <2>6 DEF Moves, Stage, EditedStage, Edited, files
  <2> QED
    BY <2>3, <2>4, <2>6, StageIsEnough DEF Moves
<1>5. CASE StartEdited(p)
  <2> DEFINE starts == svc = "rsyslogd" \/ Enabled(cfg[p])
  <2>1. /\ pc[p] = "start" /\ Go(p, "done") /\ UNCHANGED <<own, file, lock>>
        /\ IF starts THEN Started(p, file) ELSE NotStarted
    BY <1>5 DEF StartEdited, Done, disk
  <2>2. /\ Pids' /\ daemon' \in {"off", "on", "stopping"} /\ pid' \in BOOLEAN
        /\ UNCHANGED clean \/ Spoil(p)
        /\ clean'[p] => clean[p]
        /\ starts /\ clean'[p] /\ daemon # "on" => daemon' = "on" /\ loaded' = file
    BY <1>0, <2>1, Starts DEF Edited
  <2>3. Moves(p, "done")
    BY <1>0, <2>1, <2>2, HelperMoves DEF Types
  <2>4. ASSUME clean'[p], settings # Blank PROVE Applied(p)'
    <3>1. daemon # "on" /\ cfg[p] = settings /\ file = settings.via
      BY <1>0, <2>1, <2>2, <2>4 DEF Staged, Stage, EditedStage, Known, Via
    <3>2. daemon' = "on" <=> starts
      BY <2>1, <2>2, <2>4, <3>1 DEF NotStarted
    <3> QED
      BY <1>0, <2>1, <2>2, <2>4, <3>1, <3>2 DEF Applied, Edited, files
  <2>5. ASSUME clean'[p] PROVE Stage(p)'
    BY <1>0, <2>3, <2>4, <2>5 DEF Moves, Stage, EditedStage, Edited, files
  <2> QED
    BY <2>2, <2>3, <2>5, StageIsEnough
<1> QED
  BY <1>1, <1>2, <1>3, <1>4, <1>5 DEF Editing

\* restartdhcp and rebuildhosts.
LEMMA DnsmasqApplies ==
  ASSUME ApplyInv, NEW p \in Procs, Dnsmasq(p)
  PROVE  ApplyInv'
<1> USE DEF ApplyInv
<1>0. /\ svc = "dnsmasq" /\ UNCHANGED <<svc, files, lock, clean>>
      /\ (daemon = "on" => pid) /\ (daemon = "stopping" => ~pid)
  BY DEF Dnsmasq, restartdhcp, rebuildhosts, hostsWritten, dnsmasqTold, At, Pids, disk
<1>1. CASE restartdhcp(p)
  <2>1. /\ pc[p] = "begin" /\ Read(p) /\ UNCHANGED <<daemon, pid>>
        /\ arg[p] \in {"restart", "sighup", "boot"}
    BY <1>1 DEF restartdhcp, At, kernel
  <2>2. PICK next \in {"done", "tell"} :
          /\ Go(p, next)
          /\ next = "done" <=> (arg[p] = "boot" \/ (Enabled(settings) /\ settings.on \ eth.cards # {}))
    BY <1>1 DEF restartdhcp
  <2>3. Moves(p, next)
    BY <1>0, <2>1, <2>2, HelperMoves DEF Types
  <2>4. Pids' /\ Known(p)' /\ arg'[p] = arg[p]
    BY <1>0, <2>1, ReadKnows DEF Pids
  <2>5. ASSUME next = "done" PROVE Applied(p)'
    BY <1>0, <2>1, <2>2, <2>4, <2>5 DEF Applied, files
  <2>6. Stage(p)'
    BY <1>0, <2>1, <2>2, <2>3, <2>4, <2>5 DEF Moves, Stage, DnsmasqStage, Edited, files
  <2> QED
    BY <2>3, <2>4, <2>6, StageIsEnough
<1>2. CASE rebuildhosts(p)
  <2>1. /\ pc[p] = "begin" /\ Read(p) /\ Go(p, "write") /\ UNCHANGED <<daemon, pid>>
        /\ arg[p] \in {"hosts", "hostsrestart"}
    BY <1>2 DEF rebuildhosts, At, kernel
  <2>2. Moves(p, "write")
    BY <1>0, <2>1, HelperMoves DEF Types
  <2>3. Pids' /\ Known(p)' /\ arg'[p] = arg[p]
    BY <1>0, <2>1, ReadKnows DEF Pids
  <2>4. Stage(p)'
    BY <1>0, <2>1, <2>2, <2>3 DEF Moves, Stage, DnsmasqStage, Edited
  <2> QED
    BY <2>2, <2>3, <2>4, StageIsEnough
<1>3. CASE hostsWritten(p)
  <2>1. /\ pc[p] = "write" /\ Go(p, "tell") /\ UNCHANGED <<own, daemon, pid>>
        /\ file' = Via(cfg[p])
    BY <1>3 DEF hostsWritten, At, kernel
  <2>2. Moves(p, "tell")
    BY <1>0, <2>1, HelperMoves DEF Types
  <2>3. Pids'
    BY <1>0, <2>1 DEF Pids
  <2>4. ASSUME clean[p] PROVE Known(p)' /\ file' = Via(settings) /\ arg'[p] # "boot"
    BY <1>0, <2>1, <2>4 DEF Staged, Stage, DnsmasqStage, Known, own, files
  <2>5. ASSUME clean[p] PROVE Stage(p)'
    BY <1>0, <2>2, <2>4, <2>5 DEF Moves, Stage, DnsmasqStage, Edited, files
  <2> QED
    BY <2>2, <2>3, <2>5, StageIsEnough DEF Moves
<1>4. CASE dnsmasqTold(p)
  <2>1. /\ pc[p] = "tell" /\ Go(p, "done") /\ UNCHANGED <<own, file>>
        /\ IF arg[p] \in {"restart", "hostsrestart"}
           THEN daemon' = "on" /\ pid' = TRUE /\ loaded' = file
           ELSE loaded' = (IF Signalled THEN file ELSE loaded) /\ UNCHANGED <<daemon, pid>>
    BY <1>4 DEF dnsmasqTold, At, Done, disk
  <2>2. /\ daemon' \in {daemon, "on"} /\ pid' \in {pid, TRUE} /\ (daemon' = "on" => pid' /\ loaded' = file)
        /\ (daemon' = "stopping" => ~pid')
    BY <1>0, <2>1 DEF Signalled
  <2>3. Moves(p, "done")
    BY <1>0, <2>1, <2>2, HelperMoves DEF Types
  <2>4. Pids'
    BY <1>0, <2>2 DEF Pids
  <2>5. ASSUME clean[p], settings # Blank PROVE Applied(p)'
    <3>1. arg[p] \in {"hosts", "hostsrestart"} => file = settings.via
      BY <1>0, <2>1, <2>5 DEF Staged, Stage, DnsmasqStage, Via
    <3> QED
      BY <1>0, <2>1, <2>2, <3>1 DEF Applied, own, files
  <2>6. ASSUME clean[p] PROVE Stage(p)'
    BY <1>0, <2>3, <2>5, <2>6 DEF Moves, Stage, DnsmasqStage, Edited, files
  <2> QED
    BY <2>3, <2>4, <2>6, StageIsEnough DEF Moves
<1> QED
  BY <1>1, <1>2, <1>3, <1>4 DEF Dnsmasq

-----------------------------------------------------------------------------
(* Chains of rules *)

\* A set of indices has a least one: the initial segments are well-founded.
LEMMA LeastIndex ==
  ASSUME NEW n \in Nat, NEW T \in SUBSET (1 .. n), T # {}
  PROVE  \E m \in T : \A k \in T : m <= k
<1> DEFINE F == {1 .. k : k \in T}
<1>1. F # {} /\ F \subseteq FiniteSubsetsOf(Nat)
  <2>1. \A k \in T : 1 .. k \in SUBSET Nat /\ IsFiniteSet(1 .. k)
    BY FS_Interval
  <2> QED
    BY <2>1 DEF FiniteSubsetsOf
<1>2. IsWellFoundedOn(StrictSubsetOrdering(Nat), FiniteSubsetsOf(Nat))
  BY FS_StrictSubsetOrderingWellFounded
<1>3. PICK X \in F : \A Y \in F : <<Y, X>> \notin StrictSubsetOrdering(Nat)
  <2> HIDE DEF F
  <2> QED
    BY <1>1, <1>2, WFMin
<1>4. PICK m \in T : X = 1 .. m
  BY <1>3
<1>5. ASSUME NEW k \in T, k < m PROVE FALSE
  <2>1. k \in Nat /\ m \in Nat /\ m \in 1 .. m /\ m \notin 1 .. k /\ 1 .. k \subseteq 1 .. m
    BY <1>5
  <2>2. 1 .. k \in SUBSET Nat /\ 1 .. m \in SUBSET Nat /\ 1 .. k # 1 .. m
    BY <2>1
  <2>3. <<1 .. k, 1 .. m>> \in StrictSubsetOrdering(Nat)
    BY <2>1, <2>2 DEF StrictSubsetOrdering
  <2> QED
    BY <1>3, <1>4, <2>3
<1> QED
  BY <1>4, <1>5

\* A sequence of a subset is one of the set.
LEMMA SeqGrows ==
  ASSUME NEW S, NEW T, S \subseteq T, NEW s \in Seq(S)
  PROVE  s \in Seq(T) /\ \A i \in 1 .. Len(s) : s[i] \in S
  OBVIOUS

\* SetToSeq lists every element once.
LEMMA SetToSeqLists ==
  ASSUME NEW S, IsFiniteSet(S)
  PROVE  /\ SetToSeq(S) \in Seq(S) /\ Len(SetToSeq(S)) = Cardinality(S) /\ Cardinality(S) \in Nat
         /\ \A x \in S : \E i \in 1 .. Len(SetToSeq(S)) : SetToSeq(S)[i] = x
<1> DEFINE n == Cardinality(S)
           f == SetToSeq(S)
<1>1. n \in Nat /\ ExistsBijection(1 .. n, S)
  BY FS_CardinalityType
<1>2. \E g \in [1 .. n -> S] : IsInjective(g)
  BY <1>1 DEF ExistsBijection, Bijection, Injection
<1>3. f \in [1 .. n -> S] /\ IsInjective(f)
  BY <1>2 DEF SetToSeq
<1>4. f \in Injection(1 .. n, S) /\ Cardinality(1 .. n) = n
  BY <1>1, <1>3, FS_Interval DEF Injection
<1>5. f \in Surjection(1 .. n, S)
  BY <1>4, FS_Injection
<1>6. f \in Seq(S) /\ Len(f) = n
  <2> HIDE DEF f, n
  <2> QED
    BY <1>1, <1>3
<1> QED
  BY <1>1, <1>5, <1>6 DEF Surjection

Has(c, r) == \E i \in 1 .. Len(c) : c[i] = r

\* Of the rules of one interface, those past squid come first.
Bypassed(c) ==
  \A i, j \in 1 .. Len(c) : i < j /\ c[i].what = "redirect" /\ c[j].what = "direct" => c[i].from # c[j].from

RuleSet == {Rule(f, t, w) : f \in {"GREEN", "BLUE", "OVPN"},
                            t \in Addresses \cup IpsecNets \cup {"rednet", "any"},
                            w \in {"direct", "redirect"}}

\* Verdict, of any chain.
VerdictOf(c, from, to) ==
  LET fits == {i \in 1 .. Len(c) : c[i].from = from /\ c[i].to \in {to, "any"}}
  IN  IF fits = {} THEN "direct" ELSE c[CHOOSE i \in fits : \A j \in fits : i <= j].what

\* Some rule that fits says what.
Says(c, from, to, what) ==
  \E r \in RuleSet : Has(c, r) /\ r.from = from /\ r.to \in {to, "any"} /\ r.what = what

\* In such a chain a packet is redirected if a rule says so and none lets it past.
LEMMA FirstRule ==
  ASSUME NEW c \in Seq(RuleSet), Bypassed(c), NEW from, NEW to
  PROVE  VerdictOf(c, from, to) = "redirect" <=> Says(c, from, to, "redirect") /\ ~Says(c, from, to, "direct")
<1> DEFINE fits == {i \in 1 .. Len(c) : c[i].from = from /\ c[i].to \in {to, "any"}}
           least == CHOOSE i \in fits : \A j \in fits : i <= j
<1>1. \A i \in 1 .. Len(c) : c[i] \in RuleSet /\ c[i].what \in {"direct", "redirect"}
  BY DEF RuleSet, Rule
<1>2. \A w : Says(c, from, to, w) <=> \E i \in fits : c[i].what = w
  BY <1>1 DEF Has, Says
<1>3. fits = {} => VerdictOf(c, from, to) = "direct"
  BY DEF VerdictOf
<1>4. ASSUME fits # {} PROVE VerdictOf(c, from, to) = "redirect" <=> ~\E i \in fits : c[i].what = "direct"
  <2>1. Len(c) \in Nat /\ fits \in SUBSET (1 .. Len(c))
    OBVIOUS
  <2>2. \E m \in fits : \A k \in fits : m <= k
    <3> HIDE DEF fits
    <3> QED
      BY <1>4, <2>1, LeastIndex
  <2>3. least \in fits /\ \A j \in fits : least <= j
    <3> HIDE DEF fits
    <3> QED
      BY <2>2
  <2>4. VerdictOf(c, from, to) = c[least].what
    BY <1>4 DEF VerdictOf
  <2>5. c[least].what \in {"direct", "redirect"} /\ c[least].from = from
    BY <1>1, <2>3
  <2> HIDE DEF least
  <2>6. ASSUME NEW j \in fits, c[j].what = "direct" PROVE c[least].what = "direct"
    <3>1. CASE least = j
      BY <2>6, <3>1
    <3>2. CASE least # j
      <4>1. least < j
        BY <2>1, <2>3, <3>2
      <4> QED
        BY <2>3, <2>5, <2>6, <4>1 DEF Bypassed
    <3> QED
      BY <3>1, <3>2
  <2> QED
    BY <2>3, <2>4, <2>5, <2>6
<1>5. ASSUME fits # {} PROVE (~\E i \in fits : c[i].what = "direct") => \E i \in fits : c[i].what = "redirect"
  BY <1>1, <1>5
<1> QED
  BY <1>2, <1>3, <1>4, <1>5

\* What a longer chain has, and when it keeps that order.
LEMMA Joined ==
  ASSUME NEW s \in Seq(RuleSet), NEW t \in Seq(RuleSet)
  PROVE  /\ s \o t \in Seq(RuleSet)
         /\ \A r : Has(s \o t, r) <=> Has(s, r) \/ Has(t, r)
         /\ /\ Bypassed(s) /\ Bypassed(t)
            /\ \A q, r \in RuleSet : Has(s, q) /\ Has(t, r) /\ q.what = "redirect" /\ r.what = "direct" => q.from # r.from
            => Bypassed(s \o t)
<1>1. /\ s \o t \in Seq(RuleSet) /\ Len(s \o t) = Len(s) + Len(t) /\ Len(s) \in Nat /\ Len(t) \in Nat
      /\ \A i \in 1 .. Len(s) : (s \o t)[i] = s[i]
      /\ \A i \in 1 .. Len(t) : (s \o t)[Len(s) + i] = t[i]
  OBVIOUS
<1>2. \A i \in 1 .. Len(s) + Len(t) : i \in 1 .. Len(s) \/ \E k \in 1 .. Len(t) : i = Len(s) + k
  <2> SUFFICES ASSUME NEW i \in 1 .. Len(s) + Len(t), i \notin 1 .. Len(s)
               PROVE  \E k \in 1 .. Len(t) : i = Len(s) + k
    OBVIOUS
  <2> WITNESS i - Len(s) \in 1 .. Len(t)
  <2> QED
    BY <1>1
<1>3. \A r : Has(s \o t, r) <=> Has(s, r) \/ Has(t, r)
  <2> TAKE r
  <2>1. Has(s, r) => Has(s \o t, r)
    BY <1>1 DEF Has
  <2>2. ASSUME Has(t, r) PROVE Has(s \o t, r)
    <3>1. PICK i \in 1 .. Len(t) : t[i] = r
      BY <2>2 DEF Has
    <3>2. Len(s) + i \in 1 .. Len(s \o t) /\ (s \o t)[Len(s) + i] = r
      BY <1>1, <3>1
    <3> QED
      BY <3>2 DEF Has
  <2>3. Has(s \o t, r) => Has(s, r) \/ Has(t, r)
    BY <1>1, <1>2 DEF Has
  <2> QED
    BY <2>1, <2>2, <2>3
<1>4. ASSUME Bypassed(s), Bypassed(t),
             \A q, r \in RuleSet : Has(s, q) /\ Has(t, r) /\ q.what = "redirect" /\ r.what = "direct" => q.from # r.from
      PROVE  Bypassed(s \o t)
  <2> DEFINE u == s \o t
  <2> SUFFICES ASSUME NEW i \in 1 .. Len(u), NEW j \in 1 .. Len(u), i < j,
                      u[i].what = "redirect", u[j].what = "direct"
               PROVE  u[i].from # u[j].from
    BY DEF Bypassed
  <2>1. CASE j \in 1 .. Len(s)
    <3>1. i \in 1 .. Len(s) /\ u[i] = s[i] /\ u[j] = s[j]
      BY <1>1, <2>1
    <3> HIDE DEF u
    <3> QED
      BY <1>4, <2>1, <3>1 DEF Bypassed
  <2>2. CASE i \in 1 .. Len(s) /\ j \notin 1 .. Len(s)
    <3>1. PICK k \in 1 .. Len(t) : j = Len(s) + k
      BY <1>1, <1>2, <2>2
    <3>2. u[i] = s[i] /\ u[j] = t[k] /\ s[i] \in RuleSet /\ t[k] \in RuleSet
      BY <1>1, <2>2, <3>1
    <3> HIDE DEF u
    <3> QED
      BY <1>4, <2>2, <3>2 DEF Has
  <2>3. CASE i \notin 1 .. Len(s)
    <3>1. j \notin 1 .. Len(s)
      BY <1>1, <2>3
    <3>2. PICK k \in 1 .. Len(t) : i = Len(s) + k
      BY <1>1, <1>2, <2>3
    <3>3. PICK l \in 1 .. Len(t) : j = Len(s) + l
      BY <1>1, <1>2, <3>1
    <3>4. k < l /\ u[i] = t[k] /\ u[j] = t[l]
      BY <1>1, <3>2, <3>3
    <3> HIDE DEF u
    <3> QED
      BY <1>4, <3>4 DEF Bypassed
  <2> QED
    BY <2>1, <2>2, <2>3
<1> QED
  BY <1>1, <1>3, <1>4

Colours3 == {"GREEN", "BLUE", "OVPN"}

\* Rules past squid to some destinations.
LEMMA DirectHas ==
  ASSUME NEW c \in Colours3, NEW D, IsFiniteSet(D), D \subseteq Addresses \cup IpsecNets \cup {"rednet", None}
  PROVE  /\ Direct(c, D) \in Seq(RuleSet) /\ Bypassed(Direct(c, D))
         /\ \A r : Has(Direct(c, D), r) <=> \E d \in D \ {None} : r = Rule(c, d, "direct")
<1> DEFINE E == D \ {None}
           R == {Rule(c, d, "direct") : d \in E}
           f == [d \in E |-> Rule(c, d, "direct")]
<1>1. IsFiniteSet(E)
  BY FS_Subset
<1>2. f \in Surjection(E, R)
  BY DEF Surjection
<1>3. IsFiniteSet(R)
  <2> HIDE DEF f, R, E
  <2> QED
    BY <1>1, <1>2, FS_Surjection
<1>4. /\ SetToSeq(R) \in Seq(R)
      /\ \A x \in R : \E i \in 1 .. Len(SetToSeq(R)) : SetToSeq(R)[i] = x
  <2> HIDE DEF R
  <2> QED
    BY <1>3, SetToSeqLists
<1>5. R \subseteq RuleSet /\ \A r \in R : r.what = "direct"
  BY DEF RuleSet, Rule, Colours3
<1>6. Direct(c, D) = SetToSeq(R)
  BY DEF Direct
<1>7. \A r : Has(SetToSeq(R), r) <=> r \in R
  <2> HIDE DEF R
  <2> QED
    BY <1>4 DEF Has
<1>8. SetToSeq(R) \in Seq(RuleSet) /\ Bypassed(SetToSeq(R))
  <2> HIDE DEF R
  <2> QED
    BY <1>4, <1>5 DEF Bypassed
<1> QED
  BY <1>6, <1>7, <1>8

\* A single redirect.
LEMMA RedirectHas ==
  ASSUME NEW c \in Colours3
  PROVE  /\ <<Rule(c, "any", "redirect")>> \in Seq(RuleSet) /\ Bypassed(<<Rule(c, "any", "redirect")>>)
         /\ \A r : Has(<<Rule(c, "any", "redirect")>>, r) <=> r = Rule(c, "any", "redirect")
<1>1. Rule(c, "any", "redirect") \in RuleSet
  BY DEF RuleSet, Colours3
<1> QED
  BY <1>1 DEF Bypassed, Has

\* No rules at all.
LEMMA EmptyHas == <<>> \in Seq(RuleSet) /\ Bypassed(<<>>) /\ \A r : ~Has(<<>>, r)
  BY DEF Bypassed, Has

\* The rules of one interface that is transparent.
LEMMA TransparentHas ==
  ASSUME NEW p \in Procs, NEW c \in Colours3, Destination(net[p]) \in Addresses \cup {"rednet", None}
  PROVE  /\ Transparent(p, c) \in Seq(RuleSet) /\ Bypassed(Transparent(p, c))
         /\ \A r : Has(Transparent(p, c), r) <=>
              /\ c \in cfg[p].on \cap cfg[p].via
              /\ \/ r = Rule(c, "any", "redirect")
                 \/ Destination(net[p]) # None /\ r = Rule(c, Destination(net[p]), "direct")
<1> DEFINE d == Destination(net[p])
           D == {d}
           s == Direct(c, D)
           t == <<Rule(c, "any", "redirect")>>
<1>1. CASE c \in cfg[p].on \cap cfg[p].via
  <2>1. Transparent(p, c) = s \o t
    BY <1>1 DEF Transparent
  <2>2. IsFiniteSet(D) /\ D \subseteq Addresses \cup IpsecNets \cup {"rednet", None}
    BY FS_Singleton
  <2>3. /\ s \in Seq(RuleSet) /\ Bypassed(s)
        /\ \A r : Has(s, r) <=> \E e \in D \ {None} : r = Rule(c, e, "direct")
    <3> HIDE DEF D
    <3> QED
      BY <2>2, DirectHas
  <2>4. t \in Seq(RuleSet) /\ Bypassed(t) /\ \A r : Has(t, r) <=> r = Rule(c, "any", "redirect")
    BY RedirectHas
  <2> HIDE DEF s, t, d
  <2>5. \A r : Has(s, r) => r.what = "direct"
    BY <2>3 DEF Rule
  <2>6. /\ s \o t \in Seq(RuleSet) /\ Bypassed(s \o t)
        /\ \A r : Has(s \o t, r) <=> Has(s, r) \/ Has(t, r)
    <3>1. \A q, r \in RuleSet : Has(s, q) /\ Has(t, r) /\ q.what = "redirect" /\ r.what = "direct" => q.from # r.from
      BY <2>5
    <3> QED
      BY <2>3, <2>4, <3>1, Joined
  <2>7. \A r : Has(s, r) <=> d # None /\ r = Rule(c, d, "direct")
    BY <2>3
  <2>8. \A r : Has(Transparent(p, c), r) <=>
                 r = Rule(c, "any", "redirect") \/ (d # None /\ r = Rule(c, d, "direct"))
    BY <2>1, <2>4, <2>6, <2>7
  <2> QED
    BY <1>1, <2>1, <2>6, <2>8 DEF d
<1>2. CASE c \notin cfg[p].on \cap cfg[p].via
  BY <1>2, EmptyHas DEF Transparent
<1> QED
  BY <1>1, <1>2

\* The rules for remote IPsec networks.
LEMMA IpsecHas ==
  ASSUME NEW p \in Procs, NEW c \in Colours3
  PROVE  /\ setdirectipsec(p, c) \in Seq(RuleSet) /\ Bypassed(setdirectipsec(p, c))
         /\ \A r : Has(setdirectipsec(p, c), r) <=>
              c \in cfg[p].on \cap cfg[p].via /\ \E d \in Tunnelled : r = Rule(c, d, "direct")
<1>1. IsFiniteSet(Tunnelled) /\ None \notin Tunnelled
  BY ServicesAssumption, FS_EmptySet DEF Tunnelled
<1>2. /\ Direct(c, Tunnelled) \in Seq(RuleSet) /\ Bypassed(Direct(c, Tunnelled))
      /\ \A r : Has(Direct(c, Tunnelled), r) <=> \E d \in Tunnelled : r = Rule(c, d, "direct")
  BY <1>1, DirectHas DEF Tunnelled
<1> QED
  BY <1>2, EmptyHas DEF setdirectipsec

RulesOf(p) ==
  <<>> \o setdirectipsec(p, "GREEN") \o setdirectipsec(p, "BLUE")
       \o Transparent(p, "GREEN") \o Transparent(p, "BLUE") \o Transparent(p, "OVPN")

SquidRule(p, r) ==
  \E c \in Colours3 :
    /\ c \in cfg[p].on \cap cfg[p].via
    /\ \/ r = Rule(c, "any", "redirect")
       \/ Destination(net[p]) # None /\ r = Rule(c, Destination(net[p]), "direct")
       \/ c # "OVPN" /\ \E d \in Tunnelled : r = Rule(c, d, "direct")

\* The chain restartsquid sets: rules past squid to IPsec networks for the two
\* cards, then per interface to RED's own network and the redirect.
LEMMA SquidChain ==
  ASSUME NEW p \in Procs, Destination(net[p]) \in Addresses \cup {"rednet", None}, NEW ch,
         ch = RulesOf(p)
  PROVE  /\ ch \in Seq(RuleSet) /\ Bypassed(ch)
         /\ \A r : Has(ch, r) <=> SquidRule(p, r)
<1> DEFINE on(c) == c \in cfg[p].on \cap cfg[p].via
           dest == Destination(net[p])
           ig == setdirectipsec(p, "GREEN")
           ib == setdirectipsec(p, "BLUE")
           tg == Transparent(p, "GREEN")
           tb == Transparent(p, "BLUE")
           to == Transparent(p, "OVPN")
           c1 == <<>> \o ig
           c2 == c1 \o ib
           c3 == c2 \o tg
           c4 == c3 \o tb
           c5 == c4 \o to
<1>1. /\ ig \in Seq(RuleSet) /\ Bypassed(ig)
      /\ \A r : Has(ig, r) <=> on("GREEN") /\ \E d \in Tunnelled : r = Rule("GREEN", d, "direct")
  BY IpsecHas DEF Colours3
<1>2. /\ ib \in Seq(RuleSet) /\ Bypassed(ib)
      /\ \A r : Has(ib, r) <=> on("BLUE") /\ \E d \in Tunnelled : r = Rule("BLUE", d, "direct")
  BY IpsecHas DEF Colours3
<1>3. /\ tg \in Seq(RuleSet) /\ Bypassed(tg)
      /\ \A r : Has(tg, r) <=> /\ on("GREEN")
                               /\ \/ r = Rule("GREEN", "any", "redirect")
                                  \/ dest # None /\ r = Rule("GREEN", dest, "direct")
  BY TransparentHas DEF Colours3
<1>4. /\ tb \in Seq(RuleSet) /\ Bypassed(tb)
      /\ \A r : Has(tb, r) <=> /\ on("BLUE")
                               /\ \/ r = Rule("BLUE", "any", "redirect")
                                  \/ dest # None /\ r = Rule("BLUE", dest, "direct")
  BY TransparentHas DEF Colours3
<1>5. /\ to \in Seq(RuleSet) /\ Bypassed(to)
      /\ \A r : Has(to, r) <=> /\ on("OVPN")
                               /\ \/ r = Rule("OVPN", "any", "redirect")
                                  \/ dest # None /\ r = Rule("OVPN", dest, "direct")
  BY TransparentHas DEF Colours3
<1>6. \A f, t, w : Rule(f, t, w).from = f /\ Rule(f, t, w).what = w
  BY DEF Rule
<1> HIDE DEF on, dest, ig, ib, tg, tb, to
<1>7. c1 \in Seq(RuleSet) /\ Bypassed(c1) /\ \A r : Has(c1, r) <=> Has(ig, r)
  BY <1>1, EmptyHas, Joined
<1> HIDE DEF c1
<1>8. c2 \in Seq(RuleSet) /\ Bypassed(c2) /\ \A r : Has(c2, r) <=> Has(ig, r) \/ Has(ib, r)
  <2>1. \A r : Has(c1, r) => r.what = "direct"
    BY <1>1, <1>6, <1>7
  <2> QED
    BY <1>2, <1>7, <2>1, Joined
<1> HIDE DEF c2
<1>9. c3 \in Seq(RuleSet) /\ Bypassed(c3) /\ \A r : Has(c3, r) <=> Has(ig, r) \/ Has(ib, r) \/ Has(tg, r)
  <2>1. \A r : Has(c2, r) => r.what = "direct"
    BY <1>1, <1>2, <1>6, <1>8
  <2> QED
    BY <1>3, <1>8, <2>1, Joined
<1> HIDE DEF c3
<1>10. c4 \in Seq(RuleSet) /\ Bypassed(c4)
       /\ \A r : Has(c4, r) <=> Has(ig, r) \/ Has(ib, r) \/ Has(tg, r) \/ Has(tb, r)
  <2>1. \A r : Has(c3, r) /\ r.what = "redirect" => r.from = "GREEN"
    <3>1. \A r : Has(ig, r) \/ Has(ib, r) => r.what = "direct"
      BY <1>1, <1>2, <1>6
    <3>2. \A r : Has(tg, r) => r.from = "GREEN"
      BY <1>3, <1>6
    <3> QED
      BY <1>9, <3>1, <3>2
  <2>2. \A r : Has(tb, r) => r.from = "BLUE"
    BY <1>4, <1>6
  <2>3. \A q, r \in RuleSet : Has(c3, q) /\ Has(tb, r) /\ q.what = "redirect" /\ r.what = "direct" => q.from # r.from
    BY <2>1, <2>2
  <2>4. c4 \in Seq(RuleSet) /\ Bypassed(c4) /\ \A r : Has(c4, r) <=> Has(c3, r) \/ Has(tb, r)
    BY <1>4, <1>9, <2>3, Joined
  <2> QED
    BY <1>9, <2>4
<1> HIDE DEF c4
<1>11. c5 \in Seq(RuleSet) /\ Bypassed(c5)
       /\ \A r : Has(c5, r) <=> Has(ig, r) \/ Has(ib, r) \/ Has(tg, r) \/ Has(tb, r) \/ Has(to, r)
  <2>1. \A r : Has(c4, r) /\ r.what = "redirect" => r.from \in {"GREEN", "BLUE"}
    <3>1. \A r : Has(ig, r) \/ Has(ib, r) => r.what = "direct"
      BY <1>1, <1>2, <1>6
    <3>2. \A r : Has(tg, r) => r.from = "GREEN"
      BY <1>3, <1>6
    <3>3. \A r : Has(tb, r) => r.from = "BLUE"
      BY <1>4, <1>6
    <3> QED
      BY <1>10, <3>1, <3>2, <3>3
  <2>2. \A r : Has(to, r) => r.from = "OVPN"
    BY <1>5, <1>6
  <2>3. \A q, r \in RuleSet : Has(c4, q) /\ Has(to, r) /\ q.what = "redirect" /\ r.what = "direct" => q.from # r.from
    BY <2>1, <2>2
  <2>4. c5 \in Seq(RuleSet) /\ Bypassed(c5) /\ \A r : Has(c5, r) <=> Has(c4, r) \/ Has(to, r)
    BY <1>5, <1>10, <2>3, Joined
  <2> QED
    BY <1>10, <2>4
<1>12. ch = c5
  BY DEF ig, ib, tg, tb, to, c1, c2, c3, c4, RulesOf
<1>13. \A r : Has(c5, r) <=>
          \E c \in Colours3 : /\ on(c)
                              /\ \/ r = Rule(c, "any", "redirect")
                                 \/ dest # None /\ r = Rule(c, dest, "direct")
                                 \/ c # "OVPN" /\ \E d \in Tunnelled : r = Rule(c, d, "direct")
  <2> HIDE DEF c5
  <2> QED
    BY <1>1, <1>2, <1>3, <1>4, <1>5, <1>11 DEF Colours3
<1> QED
  BY <1>11, <1>12, <1>13 DEF on, dest, SquidRule

\* In that chain exactly the packets of transparent interfaces are redirected
\* that go neither to RED's own network nor from a card to an IPsec network.
LEMMA SquidVerdict ==
  ASSUME NEW p \in Procs, Destination(net[p]) \in Addresses \cup {"rednet", None}, NEW ch,
         ch = RulesOf(p),
         NEW from \in Colours3, NEW to \in Addresses \cup IpsecNets \cup {"rednet", "any"}
  PROVE  VerdictOf(ch, from, to) = "redirect" <=>
           /\ from \in cfg[p].on \cap cfg[p].via
           /\ to # Destination(net[p])
           /\ ~(from # "OVPN" /\ to \in Tunnelled)
<1> DEFINE on(c) == c \in cfg[p].on \cap cfg[p].via
           dest == Destination(net[p])
<1>0. ch \in Seq(RuleSet) /\ Bypassed(ch) /\ \A r : Has(ch, r) <=> SquidRule(p, r)
  BY SquidChain
<1>1. /\ ch \in Seq(RuleSet) /\ Bypassed(ch)
      /\ \A r : Has(ch, r) <=>
              \E c \in Colours3 : /\ on(c)
                                  /\ \/ r = Rule(c, "any", "redirect")
                                     \/ dest # None /\ r = Rule(c, dest, "direct")
                                     \/ c # "OVPN" /\ \E d \in Tunnelled : r = Rule(c, d, "direct")
  BY <1>0 DEF SquidRule
<1>2. None \notin Addresses \cup IpsecNets \cup {"rednet"} /\ "any" \notin Addresses \cup IpsecNets
      /\ dest \in Addresses \cup {"rednet", None} /\ "any" # None
  BY ServicesAssumption
<1>3. VerdictOf(ch, from, to) = "redirect" <=> Says(ch, from, to, "redirect") /\ ~Says(ch, from, to, "direct")
  BY <1>1, FirstRule
<1>4. \A f, t, w : Rule(f, t, w).from = f /\ Rule(f, t, w).to = t /\ Rule(f, t, w).what = w
  BY DEF Rule
<1> HIDE DEF on, dest
<1>5. Says(ch, from, to, "redirect") => on(from)
  <2> SUFFICES ASSUME NEW r \in RuleSet, Has(ch, r), r.from = from, r.what = "redirect" PROVE on(from)
    BY DEF Says
  <2>1. PICK c \in Colours3 : /\ on(c)
                              /\ \/ r = Rule(c, "any", "redirect")
                                 \/ dest # None /\ r = Rule(c, dest, "direct")
                                 \/ c # "OVPN" /\ \E d \in Tunnelled : r = Rule(c, d, "direct")
    BY <1>1
  <2>2. r.from = c
    BY <1>4, <2>1
  <2> QED
    BY <2>1, <2>2
<1>6. ASSUME on(from) PROVE Says(ch, from, to, "redirect")
  <2>1. Rule(from, "any", "redirect") \in RuleSet
    BY DEF RuleSet, Colours3
  <2>2. Has(ch, Rule(from, "any", "redirect"))
    BY <1>1, <1>6
  <2> QED
    BY <1>4, <2>1, <2>2 DEF Says
<1>7. Says(ch, from, to, "direct") => to = dest \/ (from # "OVPN" /\ to \in Tunnelled)
  <2> SUFFICES ASSUME NEW r \in RuleSet, Has(ch, r), r.from = from, r.to \in {to, "any"}, r.what = "direct"
               PROVE  to = dest \/ (from # "OVPN" /\ to \in Tunnelled)
    BY DEF Says
  <2>1. PICK c \in Colours3 : \/ r = Rule(c, "any", "redirect")
                              \/ dest # None /\ r = Rule(c, dest, "direct")
                              \/ c # "OVPN" /\ \E d \in Tunnelled : r = Rule(c, d, "direct")
    BY <1>1
  <2>2. r # Rule(c, "any", "redirect")
    BY <1>4
  <2>3. CASE dest # None /\ r = Rule(c, dest, "direct")
    <3>1. r.to = dest /\ dest # "any"
      BY <1>2, <1>4, <2>3
    <3> QED
      BY <3>1
  <2>4. CASE c # "OVPN" /\ \E d \in Tunnelled : r = Rule(c, d, "direct")
    <3>1. PICK d \in Tunnelled : r = Rule(c, d, "direct")
      BY <2>4
    <3>2. r.to = d /\ r.from = c /\ d # "any"
      BY <1>2, <1>4, <3>1, ServicesAssumption DEF Tunnelled
    <3> QED
      BY <2>4, <3>2
  <2> QED
    BY <2>1, <2>2, <2>3, <2>4
<1>8. ASSUME on(from), to = dest PROVE Says(ch, from, to, "direct")
  <2>1. dest # None /\ Rule(from, dest, "direct") \in RuleSet
    BY <1>2, <1>8 DEF RuleSet, Colours3
  <2>2. Has(ch, Rule(from, dest, "direct"))
    BY <1>1, <1>8, <2>1
  <2> QED
    BY <1>4, <1>8, <2>1, <2>2 DEF Says
<1>9. ASSUME on(from), from # "OVPN", to \in Tunnelled PROVE Says(ch, from, to, "direct")
  <2>1. Rule(from, to, "direct") \in RuleSet
    BY DEF RuleSet, Colours3
  <2>2. Has(ch, Rule(from, to, "direct"))
    BY <1>1, <1>9
  <2> QED
    BY <1>4, <2>1, <2>2 DEF Says
<1>10. VerdictOf(ch, from, to) = "redirect" <=> on(from) /\ to # dest /\ ~(from # "OVPN" /\ to \in Tunnelled)
  BY <1>3, <1>5, <1>6, <1>7, <1>8, <1>9
<1> QED
  BY <1>10 DEF on, dest

\* Without rules nothing is redirected.
LEMMA EmptyVerdict == \A from, to : VerdictOf(<<>>, from, to) = "direct"
  BY DEF VerdictOf

\* ntpd's redirects: one for each card there is.
LEMMA NtpdVerdict ==
  ASSUME NEW C \in {{"GREEN"}, {"GREEN", "BLUE"}}, NEW c \in {"GREEN", "BLUE"}, NEW ch,
         ch = <<>> \o SetToSeq({Rule(d, "any", "redirect") : d \in C})
  PROVE  VerdictOf(ch, c, "any") = "redirect" <=> c \in C
<1> DEFINE R == {Rule(d, "any", "redirect") : d \in C}
           g == {Rule("GREEN", "any", "redirect")}
           b == {Rule("BLUE", "any", "redirect")}
<1>1. R = g \/ R = g \cup b
  OBVIOUS
<1>2. IsFiniteSet(R)
  <2>1. IsFiniteSet(g) /\ IsFiniteSet(b)
    BY FS_Singleton
  <2> HIDE DEF R, g, b
  <2>2. IsFiniteSet(g \cup b)
    BY <2>1, FS_Union
  <2> QED
    BY <1>1, <2>1, <2>2
<1>3. R \subseteq RuleSet /\ \A r \in R : r.what = "redirect" /\ r.to = "any" /\ r.from \in C
  BY DEF RuleSet, Rule
<1>4. Rule(c, "any", "redirect") \in R <=> c \in C
  BY DEF Rule
<1>5. Rule(c, "any", "redirect").from = c /\ Rule(c, "any", "redirect").to = "any"
      /\ Rule(c, "any", "redirect").what = "redirect"
  BY DEF Rule
<1>6. ch = <<>> \o SetToSeq(R)
  OBVIOUS
<1> HIDE DEF R
<1>7. /\ SetToSeq(R) \in Seq(R)
      /\ \A x \in R : \E i \in 1 .. Len(SetToSeq(R)) : SetToSeq(R)[i] = x
  BY <1>2, SetToSeqLists
<1>8. ch = SetToSeq(R) /\ ch \in Seq(R)
  BY <1>6, <1>7
<1>9. ch \in Seq(RuleSet) /\ Bypassed(ch) /\ \A r : Has(ch, r) <=> r \in R
  <2>1. ch \in Seq(RuleSet) /\ \A i \in 1 .. Len(ch) : ch[i] \in R
    <3>1. R \subseteq RuleSet
      BY <1>3
    <3> QED
      BY <1>8, <3>1, SeqGrows
  <2>2. Bypassed(ch)
    BY <1>3, <2>1 DEF Bypassed
  <2>3. \A x \in R : \E i \in 1 .. Len(ch) : ch[i] = x
    BY <1>7, <1>8
  <2> QED
    BY <2>1, <2>2, <2>3 DEF Has
<1>10. VerdictOf(ch, c, "any") = "redirect" <=> Says(ch, c, "any", "redirect") /\ ~Says(ch, c, "any", "direct")
  BY <1>9, FirstRule
<1>11. ~Says(ch, c, "any", "direct")
  BY <1>3, <1>9 DEF Says
<1>12. Says(ch, c, "any", "redirect") <=> c \in C
  BY <1>3, <1>4, <1>5, <1>9 DEF Says
<1> QED
  BY <1>10, <1>11, <1>12

-----------------------------------------------------------------------------
(* The helpers that set rules *)

\* Verdict is VerdictOf the chain there is.
LEMMA VerdictIsOf == /\ \A from, to : Verdict(from, to) = VerdictOf(chain, from, to)
                     /\ \A from, to : Verdict(from, to)' = VerdictOf(chain', from, to)
  BY DEF Verdict, VerdictOf

\* RED's destination, by its type and address.
LEMMA DestinationType ==
  ASSUME Types
  PROVE  Destination(eth) \in Addresses \cup {"rednet", None}
  BY DEF Types, Destination, Machines

\* squid runs and its rules are set, or it is off and has none.
LEMMA SquidOff ==
  ASSUME Down', ~Enabled(settings')
  PROVE  SquidApplied'
<1>1. \A from, to : Verdict(from, to)' = "direct"
  BY VerdictIsOf, EmptyVerdict DEF Down
<1> QED
  BY <1>1 DEF SquidApplied, Down

\* A helper that does not wait leaves alone whom squid's end is waited for by.
LEMMA SquidElsewhere ==
  ASSUME ApplyInv, svc = "squid", UNCHANGED svc, NEW p \in Procs, NEW next, Moves(p, next), pc[p] # "wait",
         UNCHANGED <<daemon, pid>> \/ daemon' = "on"
  PROVE  Pids'
  BY DEF ApplyInv, Pids, Moves

\* restartsquid up to the start of squid.
LEMMA SquidStops ==
  ASSUME ApplyInv, NEW p \in Procs,
         restartsquid(p) \/ squidGone(p) \/ squidKill(p) \/ squidUnlink(p) \/ squidRead(p)
  PROVE  ApplyInv'
<1> USE DEF ApplyInv
<1>0. svc = "squid" /\ UNCHANGED <<svc, files, lock, clean>>
  BY DEF restartsquid, squidGone, squidKill, squidUnlink, squidRead, At, disk
<1>1. CASE restartsquid(p)
  <2>1. /\ pc[p] = "begin" /\ UNCHANGED <<own, pid>>
        /\ IF pid
           THEN /\ chain' = <<>>
                /\ daemon' = IF daemon = "on" THEN "stopping" ELSE daemon
                /\ Go(p, "wait")
           ELSE Go(p, IF arg[p] = "test" THEN "done" ELSE "read") /\ UNCHANGED <<chain, daemon>>
    BY <1>1 DEF restartsquid, At
  <2>2. ASSUME clean[p] PROVE daemon # "stopping" /\ (~pid => Down) /\ (arg[p] = "test" => cfg[p] = None)
    <3>1. ~Trap /\ SquidStage(p) /\ \A q \in Procs : pc[q] # "wait"
      BY <1>0, <2>1, <2>2 DEF Staged, Stage, Lone
    <3> QED
      BY <1>0, <2>1, <3>1 DEF Trap, SquidStage, Pids, Down, Types
  <2>3. CASE pid
    <3>1. Go(p, "wait") /\ chain' = <<>> /\ daemon' = IF daemon = "on" THEN "stopping" ELSE daemon
      BY <2>1, <2>3
    <3>2. Moves(p, "wait")
      BY <1>0, <2>1, <3>1, HelperMoves DEF Types
    <3>3. Pids'
      BY <1>0, <3>2 DEF Pids, Moves
    <3>4. ASSUME clean[p] PROVE Stage(p)'
      BY <1>0, <2>1, <2>3, <3>1, <3>2 DEF Moves, Stage, SquidStage, Edited
    <3> QED
      BY <3>2, <3>3, <3>4, StageIsEnough DEF Moves
  <2>4. CASE ~pid
    <3>1. PICK next \in {"done", "read"} : Go(p, next) /\ (next = "done" <=> arg[p] = "test")
      BY <2>1, <2>4
    <3>2. UNCHANGED <<chain, daemon>>
      BY <2>1, <2>4
    <3>3. Moves(p, next)
      BY <1>0, <2>1, <3>1, <3>2, HelperMoves DEF Types
    <3>4. Pids'
      BY <1>0, <2>1, <2>4 DEF Pids
    <3>5. ASSUME clean[p] PROVE Down' /\ (next = "done" => Applied(p)')
      BY <1>0, <2>1, <2>2, <2>4, <3>1, <3>2, <3>5 DEF Down, Applied, own
    <3>6. ASSUME clean[p] PROVE Stage(p)'
      BY <1>0, <3>1, <3>3, <3>5, <3>6 DEF Moves, Stage, SquidStage, Edited, Down
    <3> QED
      BY <3>3, <3>4, <3>6, StageIsEnough DEF Moves
  <2> QED
    BY <2>3, <2>4
<1>2. CASE squidGone(p)
  <2>1. pc[p] = "wait" /\ ~pid /\ Go(p, "read") /\ UNCHANGED <<own, daemon, pid, chain>>
    BY <1>2 DEF squidGone, At, kernel
  <2>2. Moves(p, "read")
    BY <1>0, <2>1, HelperMoves DEF Types
  <2>3. Pids'
    BY <1>0, <2>1 DEF Pids
  <2>4. ASSUME clean[p] PROVE Down'
    BY <1>0, <2>1, <2>4 DEF Staged, Stage, SquidStage, Down
  <2>5. ASSUME clean[p] PROVE Stage(p)'
    BY <1>0, <2>2, <2>4, <2>5 DEF Moves, Stage, SquidStage, Edited
  <2> QED
    BY <2>2, <2>3, <2>5, StageIsEnough DEF Moves
<1>3. CASE squidKill(p)
  <2>1. pc[p] = "wait" /\ Go(p, "unlink") /\ UNCHANGED <<own, pid, chain>> /\ daemon' = "off"
    BY <1>3 DEF squidKill, At
  <2>2. Moves(p, "unlink")
    BY <1>0, <2>1, HelperMoves DEF Types
  <2>3. Pids'
    BY <1>0, <2>1 DEF Pids
  <2>4. ASSUME clean[p] PROVE Down'
    BY <1>0, <2>1, <2>4 DEF Staged, Stage, SquidStage, Down
  <2>5. ASSUME clean[p] PROVE Stage(p)'
    BY <1>0, <2>2, <2>4, <2>5 DEF Moves, Stage, SquidStage, Edited
  <2> QED
    BY <2>2, <2>3, <2>5, StageIsEnough DEF Moves
<1>4. CASE squidUnlink(p)
  <2>1. pc[p] = "unlink" /\ Go(p, "read") /\ UNCHANGED <<own, daemon, chain>> /\ pid' = FALSE
    BY <1>4 DEF squidUnlink, At
  <2>2. Moves(p, "read")
    BY <1>0, <2>1, HelperMoves DEF Types
  <2>3. Pids'
    BY <1>0, <2>1 DEF Pids
  <2>4. ASSUME clean[p] PROVE Down'
    BY <1>0, <2>1, <2>4 DEF Staged, Stage, SquidStage, Down
  <2>5. ASSUME clean[p] PROVE Stage(p)'
    BY <1>0, <2>2, <2>4, <2>5 DEF Moves, Stage, SquidStage, Edited
  <2> QED
    BY <2>2, <2>3, <2>5, StageIsEnough DEF Moves
<1>5. CASE squidRead(p)
  <2>1. pc[p] = "read" /\ Read(p) /\ UNCHANGED <<daemon, pid, chain>>
    BY <1>5 DEF squidRead, At, kernel
  <2>2. PICK next \in {"start", "done"} : Go(p, next) /\ (next = "start" <=> Enabled(settings))
    BY <1>5 DEF squidRead
  <2>3. Moves(p, next)
    BY <1>0, <2>1, <2>2, HelperMoves DEF Types
  <2>4. Pids' /\ Known(p)' /\ settings' = settings
    BY <1>0, <2>1, <2>3, SquidElsewhere, ReadKnows DEF files
  <2>5. ASSUME clean[p] PROVE Down'
    BY <1>0, <2>1, <2>5 DEF Staged, Stage, SquidStage, Down
  <2>6. ASSUME clean[p], next = "done", settings # Blank PROVE Applied(p)'
    <3>1. ~Enabled(settings') /\ cfg'[p] # None
      BY <2>2, <2>4, <2>6, ServicesAssumption DEF Known, Types
    <3>2. SquidApplied'
      BY <2>5, <2>6, <3>1, SquidOff
    <3> QED
      BY <1>0, <3>1, <3>2 DEF Applied
  <2>7. ASSUME clean[p] PROVE Stage(p)'
    BY <1>0, <2>2, <2>3, <2>4, <2>5, <2>6, <2>7 DEF Moves, Stage, SquidStage, Edited, Down
  <2> QED
    BY <2>3, <2>4, <2>7, StageIsEnough DEF Moves
<1> QED
  BY <1>1, <1>2, <1>3, <1>4, <1>5


\* squid's start, and what keeps it from being transparent.
LEMMA SquidStarts ==
  ASSUME ApplyInv, NEW p \in Procs, squidStart(p) \/ squidStartFails(p)
  PROVE  ApplyInv'
<1> USE DEF ApplyInv
<1>0. /\ svc = "squid" /\ UNCHANGED <<svc, files, lock, own, chain>> /\ pc[p] = "start"
  BY DEF squidStart, squidStartFails, At, disk, kernel
<1>1. CASE squidStart(p)
  <2>1. Launch(settings) /\ UNCHANGED clean
    BY <1>1 DEF squidStart
  <2>2. PICK next \in {"done", "rules"} : Go(p, next) /\ (next = "done" <=> Missing(p))
    BY <1>1 DEF squidStart
  <2>3. UNCHANGED <<daemon, pid>> \/ (daemon' = "on" /\ pid' = TRUE)
    BY <2>1 DEF Launch
  <2>4. Moves(p, next)
    BY <1>0, <2>1, <2>2, <2>3, HelperMoves DEF Types
  <2>5. Pids'
    BY <1>0, <2>3, <2>4, SquidElsewhere
  <2>6. ASSUME clean[p]
        PROVE  /\ daemon' = "on" /\ loaded' = settings' /\ chain' = <<>> /\ Known(p)' /\ Known(p)
               /\ Enabled(settings) /\ UNCHANGED <<settings, eth>>
    BY <1>0, <2>1, <2>6 DEF Staged, Stage, SquidStage, Down, Known, Launch, files, own
  <2>7. Missing(p)' <=> Missing(p)
    BY <1>0 DEF Missing, own
  <2>8. ASSUME clean[p], next = "done", settings # Blank PROVE Applied(p)'
    <3>1. \A from, to : Verdict(from, to)' = "direct"
      BY <2>6, <2>8, VerdictIsOf, EmptyVerdict
    <3>2. \A from, to : ~Redirected(from, to)'
      BY <2>2, <2>6, <2>8 DEF Redirected, Missing, Known
    <3>3. SquidApplied'
      BY <2>6, <2>8, <3>1, <3>2 DEF SquidApplied
    <3>4. cfg'[p] # None
      BY <2>6, <2>8, ServicesAssumption DEF Known, Types
    <3> QED
      BY <1>0, <3>3, <3>4 DEF Applied
  <2>9. ASSUME clean[p] PROVE Stage(p)'
    BY <1>0, <2>2, <2>4, <2>6, <2>7, <2>8, <2>9 DEF Moves, Stage, SquidStage, Edited
  <2> QED
    BY <2>4, <2>5, <2>9, StageIsEnough DEF Moves
<1>2. CASE squidStartFails(p)
  <2>1. Spoil(p) /\ UNCHANGED <<daemon, pid>>
    BY <1>2 DEF squidStartFails, kernel
  <2>2. PICK next \in {"done", "rules"} : Go(p, next)
    BY <1>2 DEF squidStartFails
  <2>3. Moves(p, next)
    BY <1>0, <2>1, <2>2, HelperMoves DEF Types
  <2>4. Pids' /\ ~clean'[p]
    BY <1>0, <2>1, <2>3, SquidElsewhere DEF Spoil, Types
  <2> QED
    BY <2>3, <2>4, StageIsEnough
<1> QED
  BY <1>1, <1>2

\* What keeps squid from being started, or from its rules.
LEMMA SquidFails ==
  ASSUME ApplyInv, NEW p \in Procs, squidReadFails(p) \/ squidRulesFail(p)
  PROVE  ApplyInv'
<1> USE DEF ApplyInv
<1>1. /\ svc = "squid" /\ pc[p] \in {"read", "rules"} /\ Go(p, "done") /\ Spoil(p)
      /\ UNCHANGED <<svc, files>> /\ UNCHANGED <<daemon, pid, lock>>
      /\ UNCHANGED own \/ Read(p)
  BY DEF squidReadFails, squidRulesFail, At, Done, disk, kernel
<1>2. Moves(p, "done")
  BY <1>1, HelperMoves DEF Types
<1>3. Pids' /\ ~clean'[p]
  BY <1>1, <1>2, SquidElsewhere DEF Spoil, Types
<1> QED
  BY <1>2, <1>3, StageIsEnough

\* The rules, in the order of SquidChain.
LEMMA SquidRedirects ==
  ASSUME ApplyInv, NEW p \in Procs, squidRules(p)
  PROVE  ApplyInv'
<1> USE DEF ApplyInv
<1>1. /\ svc = "squid" /\ pc[p] = "rules" /\ Go(p, "done")
      /\ UNCHANGED <<svc, files, daemon, pid, loaded, lock, own, clean>>
  BY DEF squidRules, At, Done, disk
<1>2. chain' = chain \o setdirectipsec(p, "GREEN") \o setdirectipsec(p, "BLUE")
                     \o Transparent(p, "GREEN") \o Transparent(p, "BLUE") \o Transparent(p, "OVPN")
  BY DEF squidRules
<1>3. Moves(p, "done")
  BY <1>1, HelperMoves DEF Types
<1>4. Pids'
  BY <1>1, <1>3, SquidElsewhere
<1>5. ASSUME clean[p]
      PROVE  /\ daemon' = "on" /\ loaded' = settings' /\ chain = <<>> /\ Known(p)
             /\ Enabled(settings) /\ UNCHANGED <<settings, eth, cfg>> /\ ~Missing(p)
  BY <1>1, <1>5 DEF Staged, Stage, SquidStage, files, own
<1>6. ASSUME clean[p], settings # Blank PROVE Applied(p)'
  <2>1. Destination(net[p]) \in Addresses \cup {"rednet", None}
    BY <1>5, <1>6, DestinationType DEF Known
  <2>2. chain' = RulesOf(p)
    BY <1>2, <1>5, <1>6 DEF RulesOf
  <2>3. \A from \in Colours3, to \in Addresses \cup IpsecNets \cup {"rednet", "any"} :
          Verdict(from, to)' = "redirect" <=>
             /\ from \in cfg[p].on \cap cfg[p].via
             /\ to # Destination(net[p])
             /\ ~(from # "OVPN" /\ to \in Tunnelled)
    <3> TAKE from \in Colours3, to \in Addresses \cup IpsecNets \cup {"rednet", "any"}
    <3>1. Verdict(from, to)' = VerdictOf(chain', from, to)
      BY VerdictIsOf
    <3>2. VerdictOf(chain', from, to) = "redirect" <=>
             /\ from \in cfg[p].on \cap cfg[p].via
             /\ to # Destination(net[p])
             /\ ~(from # "OVPN" /\ to \in Tunnelled)
      BY <2>1, <2>2, SquidVerdict
    <3> QED
      BY <3>1, <3>2
  <2>4. \A from, to : Redirected(from, to)' <=>
             /\ from \in cfg[p].on \cap cfg[p].via
             /\ to # Destination(net[p])
             /\ ~(from # "OVPN" /\ to \in Tunnelled)
    BY <1>5, <1>6 DEF Redirected, Missing, Known
  <2>5. SquidApplied'
    BY <1>5, <1>6, <2>3, <2>4 DEF SquidApplied, Colours3
  <2>6. cfg'[p] # None
    BY <1>5, <1>6, ServicesAssumption DEF Known, Types
  <2> QED
    BY <1>1, <2>5, <2>6 DEF Applied
<1>7. ASSUME clean[p] PROVE Stage(p)'
  BY <1>1, <1>3, <1>5, <1>6, <1>7 DEF Moves, Stage, SquidStage, Edited
<1> QED
  BY <1>3, <1>4, <1>7, StageIsEnough DEF Moves

\* Every step of restartsquid.
LEMMA SquidApplies ==
  ASSUME ApplyInv, NEW p \in Procs, Squid(p)
  PROVE  ApplyInv'
  BY SquidStops, SquidStarts, SquidFails, SquidRedirects DEF Squid

\* restartntpd.
LEMMA NtpdApplies ==
  ASSUME ApplyInv, NEW p \in Procs, Ntpd(p)
  PROVE  ApplyInv'
<1> USE DEF ApplyInv
<1>0. /\ svc = "ntpd" /\ UNCHANGED <<svc, files, lock>>
      /\ (daemon = "on" => pid) /\ (daemon = "stopping" => ~pid)
  BY DEF Ntpd, restartntpd, ntpdStop, ntpdStart, At, Pids, disk
<1>1. CASE restartntpd(p)
  <2>1. /\ pc[p] = "begin" /\ UNCHANGED <<daemon, pid, chain, clean>>
        /\ IF arg[p] = "red" /\ ~once THEN Go(p, "done") /\ UNCHANGED own ELSE Go(p, "stop") /\ Read(p)
    BY <1>1 DEF restartntpd, At, kernel, Done
  <2>2. Pids'
    BY <1>0, <2>1 DEF Pids
  <2>3. CASE arg[p] = "red" /\ ~once
    <3>1. Moves(p, "done")
      BY <1>0, <2>1, <2>3, HelperMoves DEF Types
    <3>2. ASSUME clean[p] PROVE cfg'[p] = None
      BY <1>0, <2>1, <2>3, <3>2 DEF Staged, Stage, NtpdStage, own
    <3>3. ASSUME clean[p] PROVE Stage(p)'
      BY <1>0, <3>1, <3>2, <3>3 DEF Moves, Stage, NtpdStage, Edited, Applied
    <3> QED
      BY <2>2, <3>1, <3>3, StageIsEnough DEF Moves
  <2>4. CASE ~(arg[p] = "red" /\ ~once)
    <3>1. Moves(p, "stop") /\ Known(p)'
      BY <1>0, <2>1, <2>4, HelperMoves, ReadKnows DEF Types
    <3>2. ASSUME clean[p] PROVE ~Trap'
      BY <1>0, <2>1, <3>2 DEF Staged, Stage, Trap
    <3>3. ASSUME clean[p] PROVE Stage(p)'
      BY <1>0, <3>1, <3>2, <3>3 DEF Moves, Stage, NtpdStage, Edited
    <3> QED
      BY <2>2, <3>1, <3>3, StageIsEnough DEF Moves
  <2> QED
    BY <2>3, <2>4
<1>2. CASE ntpdStop(p)
  <2>1. /\ pc[p] = "stop" /\ UNCHANGED own /\ UNCHANGED clean
        /\ chain' = IF pid THEN <<>> ELSE chain
        /\ daemon' = IF Signalled THEN "stopping" ELSE daemon
        /\ (pid' <=> pid /\ ~Signalled) /\ pid' \in BOOLEAN
        /\ Go(p, IF pid /\ ~Signalled THEN "done" ELSE "start")
    BY <1>2, Zenon DEF ntpdStop, Terminate, At
  <2>2. PICK next \in {"done", "start"} : Go(p, next) /\ (next = "done" <=> pid /\ ~Signalled)
    BY <2>1
  <2>3. daemon' \in {"off", "stopping"} /\ (daemon' = "stopping" => ~pid')
    BY <1>0, <2>1 DEF Signalled, Types
  <2>4. Moves(p, next) /\ Pids'
    BY <1>0, <2>1, <2>2, <2>3, HelperMoves DEF Types, Pids
  <2>5. ASSUME clean[p] PROVE next = "start" /\ chain' = <<>> /\ Known(p)'
    BY <1>0, <2>1, <2>2, <2>5 DEF Staged, Stage, NtpdStage, Trap, Signalled, Known, own, files
  <2>6. ASSUME clean[p] PROVE Stage(p)'
    BY <1>0, <2>3, <2>4, <2>5, <2>6 DEF Moves, Stage, NtpdStage, Edited, Down
  <2> QED
    BY <2>4, <2>6, StageIsEnough DEF Moves
<1>3. CASE ntpdStart(p)
  <2>1. /\ pc[p] = "start" /\ Go(p, "done") /\ UNCHANGED own
        /\ IF Enabled(cfg[p]) THEN Started(p, settings) ELSE NotStarted
    BY <1>3 DEF ntpdStart, At, Done
  <2>2. chain' = IF Enabled(cfg[p]) /\ Via(cfg[p]) # {}
                 THEN chain \o SetToSeq({Rule(c, "any", "redirect") : c \in net[p].cards}) ELSE chain
    BY <1>3 DEF ntpdStart
  <2>3. /\ Pids' /\ daemon' \in {"off", "on", "stopping"} /\ pid' \in BOOLEAN
        /\ UNCHANGED clean \/ Spoil(p)
        /\ clean'[p] => clean[p]
        /\ Enabled(cfg[p]) /\ clean'[p] /\ daemon # "on" => daemon' = "on" /\ loaded' = settings
    BY <1>0, <2>1, Starts
  <2>4. Moves(p, "done")
    BY <1>0, <2>1, <2>3, HelperMoves DEF Types
  <2>5. ASSUME clean'[p], settings # Blank PROVE NtpdApplied'
    <3>1. Known(p) /\ daemon # "on" /\ chain = <<>> /\ UNCHANGED <<settings, eth>>
      BY <1>0, <2>1, <2>3, <2>5 DEF Staged, Stage, NtpdStage, files
    <3>2. /\ daemon' = "on" <=> Enabled(settings)
          /\ Enabled(settings) => loaded' = settings
      BY <2>1, <2>3, <2>5, <3>1 DEF Known, NotStarted
    <3>3. eth.cards \in {{"GREEN"}, {"GREEN", "BLUE"}} /\ Via(settings) = settings.via
      BY <2>5 DEF Types, Via, Machines
    <3>4. CASE Enabled(settings) /\ settings.via # {}
      <4>1. chain' = <<>> \o SetToSeq({Rule(c, "any", "redirect") : c \in eth.cards})
        BY <2>2, <3>1, <3>3, <3>4 DEF Known
      <4>2. \A c \in {"GREEN", "BLUE"} : VerdictOf(chain', c, "any") = "redirect" <=> c \in eth.cards
        BY <3>3, <4>1, NtpdVerdict
      <4> QED
        BY <3>1, <3>2, <3>4, <4>2, VerdictIsOf DEF NtpdApplied
    <3>5. CASE ~(Enabled(settings) /\ settings.via # {})
      <4>1. chain' = <<>>
        BY <2>2, <3>1, <3>3, <3>5 DEF Known
      <4>2. \A c : Verdict(c, "any")' = "direct"
        BY <4>1, VerdictIsOf, EmptyVerdict
      <4> QED
        BY <3>1, <3>2, <3>5, <4>2 DEF NtpdApplied
    <3> QED
      BY <3>4, <3>5
  <2>6. ASSUME clean'[p] PROVE Stage(p)'
    BY <1>0, <2>4, <2>5, <2>6 DEF Moves, Stage, NtpdStage, Edited, Applied, files
  <2> QED
    BY <2>3, <2>4, <2>6, StageIsEnough
<1> QED
  BY <1>1, <1>2, <1>3 DEF Ntpd

\* restartshaping.
LEMMA ShapingApplies ==
  ASSUME ApplyInv, NEW p \in Procs, Shaping(p)
  PROVE  ApplyInv'
<1> USE DEF ApplyInv
<1>0. svc = "shaping" /\ UNCHANGED <<svc, settings, eth, files, daemon, pid, lock, clean>>
  BY DEF Shaping, restartshaping, shapingDelete, shapingAdd, shapingFilters, At, disk, kernel, files
<1>1. Pids'
  BY <1>0 DEF Pids
<1>2. CASE restartshaping(p)
  <2>1. pc[p] = "begin" /\ Read(p)
    BY <1>2 DEF restartshaping, At
  <2>2. PICK next \in {"done", "delete"} : Go(p, next) /\ (next = "done" <=> settings = Blank \/ eth.red = None)
    BY <1>2 DEF restartshaping
  <2>3. Moves(p, next) /\ Known(p)'
    BY <1>0, <2>1, <2>2, HelperMoves, ReadKnows DEF Types
  <2>4. Stage(p)'
    BY <1>0, <2>2, <2>3 DEF Moves, Stage, ShapingStage, Edited, Applied
  <2> QED
    BY <1>1, <2>3, <2>4, StageIsEnough
<1>3. CASE shapingDelete(p)
  <2>1. pc[p] = "delete" /\ UNCHANGED own /\ chain' = <<>>
    BY <1>3 DEF shapingDelete, At
  <2>2. PICK next \in {"done", "add"} : Go(p, next) /\ (next = "add" <=> Rated(cfg[p]))
    BY <1>3 DEF shapingDelete
  <2>3. Moves(p, next)
    BY <1>0, <2>1, <2>2, HelperMoves DEF Types
  <2>4. ASSUME clean[p] PROVE Known(p)' /\ (next = "add" <=> Rated(settings))
    BY <1>0, <2>1, <2>2, <2>4 DEF Staged, Stage, ShapingStage, Known, own
  <2>5. ASSUME clean[p] PROVE Stage(p)'
    BY <1>0, <2>1, <2>2, <2>3, <2>4, <2>5 DEF Moves, Stage, ShapingStage, Edited, Applied
  <2> QED
    BY <1>1, <2>3, <2>5, StageIsEnough DEF Moves
<1>4. CASE shapingAdd(p)
  <2>1. /\ pc[p] = "add" /\ Go(p, "filters") /\ UNCHANGED own
        /\ chain' = IF chain = <<>> THEN Classes(cfg[p]) ELSE chain
    BY <1>4 DEF shapingAdd, At
  <2>2. Moves(p, "filters")
    BY <1>0, <2>1, HelperMoves DEF Types
  <2>3. ASSUME clean[p] PROVE Known(p)' /\ Rated(settings) /\ chain' = Classes(settings)
    BY <1>0, <2>1, <2>3 DEF Staged, Stage, ShapingStage, Known, own
  <2>4. ASSUME clean[p] PROVE Stage(p)'
    BY <1>0, <2>2, <2>3, <2>4 DEF Moves, Stage, ShapingStage, Edited
  <2> QED
    BY <1>1, <2>2, <2>4, StageIsEnough DEF Moves
<1>5. CASE shapingFilters(p)
  <2>1. pc[p] = "filters" /\ Go(p, "done") /\ UNCHANGED own /\ chain' = chain \o Filters(cfg[p])
    BY <1>5 DEF shapingFilters, At, Done
  <2>2. Moves(p, "done")
    BY <1>0, <2>1, HelperMoves DEF Types
  <2>3. ASSUME clean[p] PROVE Rated(settings) /\ chain' = Classes(settings) \o Filters(settings)
    BY <1>0, <2>1, <2>3 DEF Staged, Stage, ShapingStage, Known
  <2>4. ASSUME clean[p] PROVE Stage(p)'
    BY <1>0, <2>2, <2>3, <2>4 DEF Moves, Stage, ShapingStage, Edited, Applied
  <2> QED
    BY <1>1, <2>2, <2>4, StageIsEnough DEF Moves
<1> QED
  BY <1>2, <1>3, <1>4, <1>5 DEF Shaping

\* setaliases.
LEMMA AliasesApply ==
  ASSUME ApplyInv, NEW p \in Procs, Aliases(p)
  PROVE  ApplyInv'
<1> USE DEF ApplyInv
<1>0. svc = "aliases" /\ UNCHANGED <<svc, settings, eth, files, daemon, pid, lock, clean>>
  BY DEF Aliases, setaliases, aliasesAdd, At, disk, files
<1>1. Pids'
  BY <1>0 DEF Pids
<1>2. CASE setaliases(p)
  <2>1. pc[p] = "begin" /\ Read(p) /\ Go(p, "add") /\ chain' = <<>>
    BY <1>2 DEF setaliases, At
  <2>2. Moves(p, "add") /\ Known(p)'
    BY <1>0, <2>1, HelperMoves, ReadKnows DEF Types
  <2>3. Stage(p)'
    BY <1>0, <2>1, <2>2 DEF Moves, Stage, AliasesStage, Edited
  <2> QED
    BY <1>1, <2>2, <2>3, StageIsEnough
<1>3. CASE aliasesAdd(p)
  <2>1. /\ pc[p] = "add" /\ Go(p, "done") /\ UNCHANGED own
        /\ chain = <<>> => chain' = Aliased(settings, net[p])
    BY <1>3 DEF aliasesAdd, At, Done
  <2>2. Moves(p, "done")
    BY <1>0, <2>1, HelperMoves DEF Types
  <2>3. ASSUME clean[p] PROVE chain' = Aliased(settings', eth')
    BY <1>0, <2>1, <2>3 DEF Staged, Stage, AliasesStage, Known
  <2>4. ASSUME clean[p] PROVE Stage(p)'
    BY <1>0, <2>2, <2>3, <2>4 DEF Moves, Stage, AliasesStage, Edited, Applied
  <2> QED
    BY <1>1, <2>2, <2>4, StageIsEnough DEF Moves
<1> QED
  BY <1>2, <1>3 DEF Aliases

\* emailhelper.
LEMMA EmailApplies ==
  ASSUME ApplyInv, NEW p \in Procs, Email(p)
  PROVE  ApplyInv'
<1> USE DEF ApplyInv
<1>0. svc = "email" /\ UNCHANGED <<svc, settings, files, daemon, pid, lock, own>>
  BY DEF Email, emailhelper, emailSent, emailNotSent, emailUnlink, At, disk, kernel, files
<1>1. Pids' /\ UNCHANGED arg
  BY <1>0 DEF Pids, own
<1>2. CASE emailhelper(p)
  <2>1. /\ pc[p] = "begin" /\ UNCHANGED clean
        /\ file' = IF Mailable(settings) THEN arg[p] ELSE file
    BY <1>2 DEF emailhelper, At
  <2>2. PICK next \in {"send", "done"} : Go(p, next) /\ (next = "send" <=> Mailable(settings))
    BY <1>2 DEF emailhelper
  <2>3. Moves(p, next)
    BY <1>0, <2>1, <2>2, HelperMoves DEF Types
  <2>4. Stage(p)'
    BY <1>0, <1>1, <2>1, <2>2, <2>3 DEF Moves, Stage, EmailStage, Edited, Applied
  <2> QED
    BY <1>1, <2>3, <2>4, StageIsEnough
<1>3. CASE emailSent(p)
  <2>1. pc[p] = "send" /\ Go(p, "unlink") /\ loaded' = file /\ UNCHANGED clean
    BY <1>3 DEF emailSent, At
  <2>2. Moves(p, "unlink")
    BY <1>0, <2>1, HelperMoves DEF Types
  <2>3. ASSUME clean[p] PROVE loaded' = arg[p]
    BY <1>0, <2>1, <2>3 DEF Staged, Stage, EmailStage
  <2>4. ASSUME clean[p] PROVE Stage(p)'
    BY <1>0, <1>1, <2>2, <2>3, <2>4 DEF Moves, Stage, EmailStage, Edited
  <2> QED
    BY <1>1, <2>2, <2>4, StageIsEnough DEF Moves
<1>4. CASE emailNotSent(p)
  <2>1. pc[p] = "send" /\ Go(p, "done") /\ Spoil(p)
    BY <1>4 DEF emailNotSent, At, Done
  <2>2. Moves(p, "done") /\ ~clean'[p]
    BY <1>0, <2>1, HelperMoves DEF Types, Spoil
  <2> QED
    BY <1>1, <2>2, StageIsEnough
<1>5. CASE emailUnlink(p)
  <2>1. pc[p] = "unlink" /\ Go(p, "done") /\ UNCHANGED <<clean, loaded>>
    BY <1>5 DEF emailUnlink, At, Done, kernel
  <2>2. Moves(p, "done")
    BY <1>0, <2>1, HelperMoves DEF Types
  <2>3. ASSUME clean[p] PROVE loaded' = arg[p]
    BY <1>0, <2>1, <2>3 DEF Staged, Stage, EmailStage
  <2>4. ASSUME clean[p] PROVE Stage(p)'
    BY <1>0, <1>1, <2>2, <2>3, <2>4 DEF Moves, Stage, EmailStage, Edited, Applied
  <2> QED
    BY <1>1, <2>2, <2>4, StageIsEnough DEF Moves
<1> QED
  BY <1>2, <1>3, <1>4, <1>5 DEF Email

-----------------------------------------------------------------------------
(* Calls, the world, and the theorem *)

\* A helper begins: undisturbed only if it is alone and in no trap.
LEMMA Begins ==
  ASSUME ApplyInv, NEW p \in Procs, NEW a, Enter(p, a), pc[p] \in {"idle", "save"},
         UNCHANGED <<svc, daemon, pid, lock, cfg, net>>, Trap' <=> Trap,
         settings' \in Saveable[svc] \cup {Blank}, eth' \in Machines,
         svc \in {"squid", "ntpd"} /\ a \in {"test", "red"} => cfg[p] = None
  PROVE  ApplyInv'
<1> USE DEF ApplyInv
<1>1. /\ pc' = [q \in Procs |-> pc'[q]] /\ pc'[p] = "begin" /\ \A q \in Procs : q # p => pc'[q] = pc[q]
      /\ arg' = [q \in Procs |-> arg'[q]] /\ arg'[p] = a
  BY DEF Enter, Go, Types
<1>2. /\ clean' \in [Procs -> BOOLEAN]
      /\ \A q \in Procs : clean'[q] => q = p /\ ~Trap /\ \A r \in Procs \ {p} : pc[r] = "idle"
  BY DEF Enter, Busy
<1>3. Types'
  BY <1>1, <1>2 DEF Types
<1>4. Lone'
  BY <1>1, <1>2 DEF Lone
<1>5. Pids'
  BY <1>1 DEF Pids
<1>6. ASSUME clean'[p] PROVE Stage(p)'
  BY <1>1, <1>2, <1>6 DEF Stage, SquidStage, NtpdStage, OpenvpnStage, EditedStage, DnsmasqStage, ShapingStage,
                          AliasesStage, EmailStage
<1>7. Staged'
  BY <1>2, <1>6 DEF Staged
<1> QED
  BY <1>3, <1>4, <1>5, <1>7

\* Where nobody is undisturbed, only types and pid files matter.
LEMMA Disturbed ==
  ASSUME Types', Pids', \A p \in Procs : ~clean'[p]
  PROVE  ApplyInv'
  BY DEF ApplyInv, Lone, Staged

\* Calls, saved settings, RED and returns.
LEMMA CallsApply ==
  ASSUME ApplyInv, NEW p \in Procs,
         \/ \E a \in Options : Call(p, a)
         \/ \E s \in Saveable[svc] : Save(p, s)
         \/ Saved(p) \/ RedDown(p) \/ Return(p)
         \/ \E a \in Addresses : RedUp(p, a)
  PROVE  ApplyInv'
<1> USE DEF ApplyInv
<1>0. svc \in {"squid", "ntpd"} => "test" \notin Options /\ "red" \notin Options
  BY DEF Options
<1>1. ASSUME NEW a \in Options, Call(p, a) PROVE ApplyInv'
  <2>1. /\ Enter(p, a) /\ pc[p] = "idle"
        /\ UNCHANGED <<svc, daemon, pid, chain, lock, cfg, net, settings, eth>>
    BY <1>1 DEF Call, Busy, files, kernel, disk
  <2>2. Trap' <=> Trap
    BY <2>1 DEF Trap
  <2> QED
    BY <1>0, <2>1, <2>2, Begins DEF Types
<1>2. ASSUME NEW s \in Saveable[svc], Save(p, s) PROVE ApplyInv'
  <2>1. /\ settings' = Blank /\ cfg' = [cfg EXCEPT ![p] = s] /\ Go(p, "save") /\ Disturb /\ pc[p] = "idle"
        /\ UNCHANGED <<svc, eth, daemon, pid, lock, arg, net>>
    BY <1>2 DEF Save, Busy, kernel, disk
  <2>2. \A q \in Procs : ~clean'[q]
    BY <2>1 DEF Disturb
  <2>3. /\ pc' = [q \in Procs |-> pc'[q]] /\ pc'[p] = "save" /\ \A q \in Procs : q # p => pc'[q] = pc[q]
        /\ cfg' = [q \in Procs |-> cfg'[q]] /\ cfg'[p] = s /\ \A q \in Procs : q # p => cfg'[q] = cfg[q]
        /\ clean' \in [Procs -> BOOLEAN]
    BY <2>1 DEF Go, Types, Disturb
  <2>4. Types' /\ Pids'
    BY <2>1, <2>3 DEF Types, Pids
  <2> QED
    BY <2>2, <2>4, Disturbed
<1>3. CASE Saved(p)
  <2>1. PICK a \in Options : Enter(p, a)
    BY <1>3 DEF Saved
  <2>2. /\ pc[p] = "save" /\ settings' = cfg[p]
        /\ UNCHANGED <<svc, daemon, pid, chain, lock, cfg, net, eth>>
    BY <1>3 DEF Saved, kernel, disk
  <2>3. Trap' <=> Trap
    BY <2>2 DEF Trap
  <2>4. settings' \in Saveable[svc]
    BY <2>2 DEF Types
  <2> QED
    BY <1>0, <2>1, <2>2, <2>3, <2>4, Begins DEF Types
<1>4. CASE RedDown(p)
  <2>1. /\ pc[p] = "idle" /\ eth' = [eth EXCEPT !.red = None]
        /\ UNCHANGED <<svc, settings, daemon, pid, lock, cfg, net>>
        /\ chain' = IF svc = "shaping" THEN <<>> ELSE chain
    BY <1>4 DEF RedDown, Busy, disk
  <2>2. eth' \in Machines
    BY <2>1 DEF Types, Machines
  <2>3. CASE svc = "aliases"
    <3>1. Enter(p, "restart")
      BY <1>4, <2>3 DEF RedDown
    <3>2. Trap' <=> Trap
      BY <2>1, <2>3 DEF Trap
    <3> QED
      BY <2>1, <2>2, <2>3, <3>1, <3>2, Begins DEF Types
  <2>4. CASE svc # "aliases"
    <3>1. UNCHANGED <<pc, arg>> /\ Disturb
      BY <1>4, <2>4 DEF RedDown
    <3>2. Types' /\ Pids' /\ \A q \in Procs : ~clean'[q]
      BY <2>1, <2>2, <3>1 DEF Types, Pids, Disturb
    <3> QED
      BY <3>2, Disturbed
  <2> QED
    BY <2>3, <2>4
<1>5. CASE Return(p)
  <2>1. /\ pc[p] = "done" /\ Go(p, "idle") /\ Spoil(p) /\ UNCHANGED <<svc, settings, eth, daemon, pid, lock>>
        /\ arg' = [arg EXCEPT ![p] = None] /\ cfg' = [cfg EXCEPT ![p] = None]
        /\ net' = [net EXCEPT ![p] = None]
    BY <1>5 DEF Return, files, kernel, disk
  <2>2. /\ clean' \in [Procs -> BOOLEAN] /\ ~clean'[p] /\ \A q \in Procs : q # p => clean'[q] = clean[q]
        /\ pc' = [q \in Procs |-> pc'[q]] /\ pc'[p] = "idle" /\ \A q \in Procs : q # p => pc'[q] = pc[q]
    BY <2>1 DEF Spoil, Go, Types
  <2>3. \A q \in Procs : ~clean'[q]
    BY <2>1, <2>2 DEF Lone
  <2>4. /\ arg' = [q \in Procs |-> arg'[q]] /\ net' = [q \in Procs |-> net'[q]]
        /\ cfg' = [q \in Procs |-> cfg'[q]] /\ cfg'[p] = None /\ \A q \in Procs : q # p => cfg'[q] = cfg[q]
    BY <2>1 DEF Types
  <2>5. Types' /\ Pids'
    BY <2>1, <2>2, <2>4 DEF Types, Pids
  <2> QED
    BY <2>3, <2>5, Disturbed
<1>6. ASSUME NEW a \in Addresses, RedUp(p, a) PROVE ApplyInv'
  <2>1. /\ pc[p] = "idle" /\ eth' = [eth EXCEPT !.red = a] /\ Enter(p, RedOption[svc])
        /\ UNCHANGED <<svc, settings, daemon, pid, lock, cfg, net>>
        /\ chain' = IF svc = "shaping" THEN <<>> ELSE chain
    BY <1>6 DEF RedUp, Busy, disk
  <2>2. eth' \in Machines
    BY <2>1 DEF Types, Machines
  <2>3. cfg[p] = None
    BY <2>1 DEF Types
  <2>4. Trap' <=> Trap
    BY <2>1 DEF Trap
  <2> QED
    BY <2>1, <2>2, <2>3, <2>4, Begins DEF Types
<1> QED
  BY <1>1, <1>2, <1>3, <1>4, <1>5, <1>6

\* A daemon that was told to stop ends: a helper of squid waits for that, the
\* others only know that it does not run.
LEMMA EndsApplies ==
  ASSUME ApplyInv, Ends
  PROVE  ApplyInv'
<1> USE DEF ApplyInv
<1>1. /\ daemon = "stopping" /\ daemon' = "off" /\ pid' = FALSE
      /\ UNCHANGED <<svc, settings, eth, loaded, chain, file, lock, pc, arg, cfg, net, clean>>
  BY DEF Ends, files, disk, own
<1>2. Types' /\ Lone' /\ Pids'
  BY <1>1 DEF Types, Lone, Pids
<1>3. svc \notin {"squid", "accounting"} => ~pid
  BY <1>1 DEF Pids
<1>4. ASSUME NEW p \in Procs, clean[p], svc = "squid" \/ svc = "accounting" \/ ~pid PROVE pc[p] # "begin"
  <2>1. ASSUME pc[p] = "begin" PROVE FALSE
    <3>1. ~Trap /\ \A q \in Procs : pc[q] # "wait"
      BY <1>4, <2>1 DEF Staged, Stage, Lone
    <3> QED
      BY <1>1, <1>4, <3>1 DEF Trap, Pids
  <2> QED
    BY <2>1
<1>5. ASSUME NEW p \in Procs, clean[p], svc = "squid" PROVE Stage(p)'
  <2>1. SquidStage(p)
    BY <1>5 DEF Staged, Stage
  <2>2. pc[p] \notin {"begin", "unlink", "read", "start", "rules", "done"}
    BY <1>1, <1>4, <1>5, <2>1 DEF SquidStage, Down
  <2> QED
    BY <1>1, <1>5, <2>1, <2>2 DEF Stage, SquidStage, Edited
<1>6. ASSUME NEW p \in Procs, clean[p], svc # "squid" PROVE Stage(p)'
  <2>1. Stage(p) /\ pc[p] # "begin"
    BY <1>3, <1>4, <1>6 DEF Staged
  <2>2. Applied(p) => Applied(p)'
    <3>1. /\ svc \in {"ntpd", "openvpn", "sshd", "rsyslogd", "dnsmasq", "shaping", "aliases",
                      "email", "accounting"}
          /\ svc' = svc
      BY <1>1, <1>6, ServicesAssumption DEF Types
    <3>2. NtpdApplied => NtpdApplied'
      <4>1. \A c \in {"GREEN", "BLUE"} : Verdict(c, "any")' = Verdict(c, "any")
        BY <1>1 DEF Verdict
      <4> QED
        BY <1>1, <4>1 DEF NtpdApplied
    <3>3. OpenvpnApplied(arg[p]) => OpenvpnApplied(arg[p])'
      BY <1>1 DEF OpenvpnApplied
    <3>4. CASE svc \in {"ntpd", "openvpn"}
      BY <1>1, <3>1, <3>2, <3>3, <3>4 DEF Applied
    <3>5. CASE svc \in {"sshd", "rsyslogd", "dnsmasq"}
      BY <1>1, <3>1, <3>5 DEF Applied
    <3>6. CASE svc \in {"shaping", "aliases", "email", "accounting"}
      BY <1>1, <3>1, <3>6 DEF Applied
    <3> QED
      BY <3>1, <3>4, <3>5, <3>6
  <2>3. svc = "ntpd" => NtpdStage(p)'
    BY <1>1, <1>3, <2>1 DEF Stage, NtpdStage, Known, Trap
  <2>4. svc = "openvpn" => OpenvpnStage(p)'
    BY <1>1, <2>1 DEF Stage, OpenvpnStage, Known
  <2>5. svc \in Edited => EditedStage(p)'
    BY <1>1, <1>3, <2>1 DEF Stage, EditedStage, Known, Owned, Edited
  <2>6. /\ svc = "dnsmasq" => DnsmasqStage(p)'
        /\ svc = "shaping" => ShapingStage(p)'
        /\ svc = "aliases" => AliasesStage(p)'
        /\ svc = "email" => EmailStage(p)'
    BY <1>1, <2>1 DEF Stage, DnsmasqStage, ShapingStage, AliasesStage, EmailStage, Known
  <2>7. pc'[p] = "done" /\ settings' # Blank => Applied(p)'
    BY <1>1, <2>1, <2>2 DEF Stage
  <2>8. svc' # "squid" /\ pc'[p] # "begin" /\ svc' = svc
    BY <1>1, <1>6, <2>1
  <2> QED
    BY <2>3, <2>4, <2>5, <2>6, <2>7, <2>8 DEF Stage, Edited
<1> QED
  BY <1>1, <1>2, <1>5, <1>6 DEF Staged

\* Daemons that die, cards that go and power failures disturb everybody.
LEMMA WorldApplies ==
  ASSUME ApplyInv, Dies \/ CardGone \/ PowerFails
  PROVE  ApplyInv'
<1> USE DEF ApplyInv
<1>1. Disturb /\ UNCHANGED <<svc, settings, lock>>
  BY DEF Dies, CardGone, PowerFails, files, kernel, disk
<1>2. clean' \in [Procs -> BOOLEAN] /\ \A p \in Procs : ~clean'[p]
  BY <1>1 DEF Disturb
<1>3. CASE Dies
  <2>1. daemon' = "off" /\ UNCHANGED <<eth, pid, pc, arg, cfg, net>>
    BY <1>3 DEF Dies, files, own
  <2>2. Types' /\ Pids'
    BY <1>1, <1>2, <2>1 DEF Types, Pids
  <2> QED
    BY <1>2, <2>2, Disturbed
<1>4. CASE CardGone
  <2>1. eth' = [eth EXCEPT !.cards = {"GREEN"}] /\ UNCHANGED <<daemon, pid, pc, arg, cfg, net>>
    BY <1>4 DEF CardGone, kernel, own
  <2>2. eth' \in Machines
    BY <2>1 DEF Types, Machines
  <2>3. Types' /\ Pids'
    BY <1>1, <1>2, <2>1, <2>2 DEF Types, Pids
  <2> QED
    BY <1>2, <2>3, Disturbed
<1>5. CASE PowerFails
  <2>1. /\ daemon' = "off" /\ pid' = FALSE /\ eth' = [eth EXCEPT !.red = None]
        /\ pc' = [p \in Procs |-> "idle"] /\ arg' = [p \in Procs |-> None] /\ cfg' = arg' /\ net' = arg'
    BY <1>5 DEF PowerFails
  <2>2. eth' \in Machines
    BY <2>1 DEF Types, Machines
  <2>3. Types' /\ Pids'
    BY <1>1, <1>2, <2>1, <2>2 DEF Types, Pids
  <2> QED
    BY <1>2, <2>3, Disturbed
<1> QED
  BY <1>3, <1>4, <1>5

\* Every step keeps the invariant.
LEMMA StepsApply ==
  ASSUME ApplyInv, [Next]_vars
  PROVE  ApplyInv'
<1>1. CASE UNCHANGED vars
  <2>1. UNCHANGED <<svc, settings, eth, daemon, pid, loaded, chain, file, lock, pc, arg, cfg, net, clean>>
    BY <1>1 DEF vars, files, kernel, disk, own
  <2>2. Types' /\ Lone' /\ Pids'
    BY <2>1 DEF ApplyInv, Types, Lone, Pids
  <2>3. ASSUME NEW p \in Procs PROVE Stage(p)' <=> Stage(p)
    BY <2>1 DEF Stage, SquidStage, NtpdStage, OpenvpnStage, EditedStage, DnsmasqStage, ShapingStage,
                AliasesStage, EmailStage, Known, Down, Owned, Trap, Missing, Applied, SquidApplied, NtpdApplied,
                OpenvpnApplied, Verdict, Redirected
  <2> QED
    BY <2>1, <2>2, <2>3 DEF ApplyInv, Staged
<1> QED
  BY <1>1, CallsApply, SquidApplies, NtpdApplies, OpenvpnApplies, EditingApplies, DnsmasqApplies, ShapingApplies,
     AliasesApply, EmailApplies, EndsApplies, WorldApplies DEF Next, Quiet

\* It holds in the beginning.
LEMMA ApplyInit ==
  ASSUME Init
  PROVE  ApplyInv
<1>1. /\ svc \in Services /\ settings \in Saveable[svc] /\ daemon = "off" /\ pid = FALSE /\ lock = FALSE
      /\ pc = [p \in Procs |-> "idle"] /\ arg = [p \in Procs |-> None] /\ cfg = arg /\ net = arg
      /\ clean = [p \in Procs |-> FALSE]
  BY DEF Init
<1>2. eth \in Machines
  BY DEF Init, Machines
<1>3. Types /\ Pids
  BY <1>1, <1>2 DEF Types, Pids
<1> QED
  BY <1>1, <1>3 DEF ApplyInv, Lone, Staged

\* For any settings, number of helpers, addresses and IPsec networks: when a
\* helper returns that nothing disturbed, the system is as the settings say,
\* whatever earlier helpers that overlapped, daemons that died and power
\* failures have left, the four leftovers of Trap excepted.
THEOREM HelpersApply == Spec => []Applies
<1>1. Init => ApplyInv
  BY ApplyInit
<1>2. ApplyInv /\ [Next]_vars => ApplyInv'
  BY StepsApply
<1>3. ApplyInv => Applies
  BY DEF ApplyInv, Staged, Stage, Applies
<1> QED
  BY <1>1, <1>2, <1>3, PTL DEF Spec
=============================================================================
