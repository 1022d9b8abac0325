------------------------------ MODULE Traffic ------------------------------
(***************************************************************************)
(* Traffic accounting, one more service of module Services: accountingctrl *)
(* starts ulogd (detail High) or vnstatd (Low) and sets the ACCOUNT rules; *)
(* every five minutes cron runs aggregatetraffic.pl, which stops ulogd,    *)
(* moves its rows to aggregate.db and starts it again.  daemon and pid of  *)
(* Services are vnstatd's here.                                            *)
(***************************************************************************)
EXTENDS Services, FiniteSets

CONSTANTS
  Aggregators,  \* runs of aggregatetraffic.pl that may overlap
  MaxPackets,   \* bound: packets that are counted
  MaxAborts     \* bound: transactions that fail

VARIABLES
  ulogd,     \* it runs
  dbs,       \* interfaces vnstat has a database for
  rows,      \* packets in ulogd.db
  total,     \* packets in aggregate.db
  counted,   \* packets ulogd has written
  step, took, enabled, \* per aggregator: where it is, the rows it has read,
             \* ENABLED as it was when it began
  aborts,
  torn       \* history: something failed between the two commits, or the
             \* databases were emptied under an aggregator

base    == vars
books   == <<rows, total, counted>>
agg     == <<step, took, enabled, aborts, torn>>
traffic == <<ulogd, dbs, books, agg>>
allVars == <<base, traffic>>

TInit ==
  /\ Init
  /\ ulogd = FALSE /\ dbs = {} /\ rows = 0 /\ total = 0 /\ counted = 0
  /\ step = [g \in Aggregators |-> "idle"] /\ took = [g \in Aggregators |-> 0]
  /\ enabled = [g \in Aggregators |-> FALSE]
  /\ aborts = 0 /\ torn = FALSE

\* A write of ulogd.db is open: nobody else gets the lock.
Locked == \E g \in Aggregators : step[g] \in {"commit", "delete"}
Move(g, next) == step' = [step EXCEPT ![g] = next]

-----------------------------------------------------------------------------
(* accountingctrl *)

High(s) == Enabled(s) /\ s.via # {}
Low(s)  == Enabled(s) /\ s.via = {}

accountingctrl(p) ==
  /\ At(p, "accounting", "begin")
  /\ Read(p)
  /\ Go(p, IF arg[p] \in {"emptyulogd", "emptyall"} THEN "empty" ELSE "rules")
  /\ UNCHANGED <<svc, files, kernel, disk, clean, bounds, traffic>>

\* Empty databases are copied over, with ulogd stopped.
Empty(p) ==
  /\ At(p, "accounting", "empty")
  /\ total' = IF arg[p] = "emptyall" THEN 0 ELSE total
  /\ rows' = 0 /\ counted' = total'
  /\ ulogd' = High(cfg[p])
  /\ torn' = (torn \/ \E g \in Aggregators : step[g] \in {"read", "commit", "delete"})
  /\ Done(p) /\ Spoil(p)
  /\ UNCHANGED <<svc, files, kernel, disk, own, bounds, dbs, step, took, enabled, aborts>>

Interfaces(e) == e.cards \cup (IF e.red = None THEN {} ELSE {"RED"})

\* The chains are flushed; each interface gets its rules, or its database.  A
\* new database stops vnstatd, which removes its pid file when it ends.
Rules(p) ==
  LET new == IF Low(cfg[p]) THEN Interfaces(net[p]) \ dbs ELSE {}
  IN  /\ At(p, "accounting", "rules")
      /\ chain' = IF High(cfg[p]) THEN SetToSeq({Rule(i, "any", "count") : i \in Interfaces(net[p])}) ELSE <<>>
      /\ dbs' = dbs \cup new
      /\ daemon' = IF new # {} /\ pid /\ daemon = "on" THEN "stopping" ELSE daemon
      /\ IF daemon' # daemon THEN Spoil(p) ELSE UNCHANGED clean
      /\ Go(p, "start")
      /\ UNCHANGED <<svc, files, pid, loaded, disk, own, bounds, ulogd, books, agg>>

StartDaemon(p) ==
  /\ At(p, "accounting", "start")
  /\ ulogd' = (ulogd \/ High(cfg[p]))
  /\ IF Low(cfg[p]) /\ ~pid THEN Launch("vnstat") ELSE UNCHANGED <<daemon, pid, loaded>>
  /\ Go(p, "stop")
  /\ UNCHANGED <<svc, files, chain, disk, own, clean, bounds, dbs, books, agg>>

StopDaemon(p) ==
  /\ At(p, "accounting", "stop")
  /\ ulogd' = (ulogd /\ High(cfg[p]))
  /\ daemon' = IF Signalled /\ ~Low(cfg[p]) THEN "stopping" ELSE daemon
  /\ Done(p)
  /\ UNCHANGED <<svc, files, pid, loaded, chain, disk, own, clean, bounds, dbs, books, agg>>

-----------------------------------------------------------------------------
(* ulogd and aggregatetraffic.pl *)

\* ulogd writes a row; while the database is locked the packet is lost.
Packet ==
  /\ svc = "accounting" /\ counted < MaxPackets
  /\ ulogd /\ chain # <<>> /\ ~Locked
  /\ rows' = rows + 1 /\ counted' = counted + 1
  /\ UNCHANGED <<base, ulogd, dbs, total, agg>>

\* Detail Low copies vnstat's own sums and is not about rows.
Cron(g) ==
  /\ svc = "accounting" /\ step[g] = "idle" /\ settings # Blank /\ settings.via # {}
  /\ ulogd' = FALSE
  /\ enabled' = [enabled EXCEPT ![g] = Enabled(settings)]
  /\ Move(g, "wait")
  /\ clean' = [p \in Procs |-> FALSE]
  /\ UNCHANGED <<svc, files, kernel, disk, pc, own, bounds, dbs, books, took, aborts, torn>>

\* while (ps | grep ulogd) sleep: somebody else may have started it again.
Waited(g) ==
  /\ step[g] = "wait" /\ ~ulogd
  /\ Move(g, "read")
  /\ UNCHANGED <<base, ulogd, dbs, books, took, enabled, aborts, torn>>

\* Rows are summed into aggregate.db and deleted, both uncommitted.
Sum(g) ==
  /\ step[g] = "read" /\ ~Locked
  /\ took' = [took EXCEPT ![g] = rows]
  /\ Move(g, "commit")
  /\ UNCHANGED <<base, ulogd, dbs, books, enabled, aborts, torn>>

AbortDeleted(g) ==             \* mutant: the delete is not rolled back
  /\ step[g] \in {"read", "commit"} /\ aborts < MaxAborts
  /\ aborts' = aborts + 1
  /\ rows' = 0
  /\ Move(g, "restart")
  /\ UNCHANGED <<base, ulogd, dbs, total, counted, took, enabled, torn>>

\* die anywhere in the eval, a lock that is not granted included: rollback.
Abort(g) ==
  /\ step[g] \in {"read", "commit"} /\ aborts < MaxAborts
  /\ aborts' = aborts + 1
  /\ Move(g, "restart")
  /\ UNCHANGED <<base, ulogd, dbs, books, took, enabled, torn>>

CommitSum(g) ==
  /\ step[g] = "commit"
  /\ total' = total + took[g]
  /\ Move(g, "delete")
  /\ UNCHANGED <<base, ulogd, dbs, rows, counted, took, enabled, aborts, torn>>

CommitDelete(g) ==
  /\ step[g] = "delete"
  /\ rows' = 0
  /\ Move(g, "restart")
  /\ UNCHANGED <<base, ulogd, dbs, total, counted, took, enabled, aborts, torn>>

\* The second commit fails: what the first one wrote stays.
CommitFails(g) ==
  /\ step[g] = "delete" /\ aborts < MaxAborts
  /\ aborts' = aborts + 1
  /\ torn' = (torn \/ took[g] > 0)
  /\ Move(g, "restart")
  /\ UNCHANGED <<base, ulogd, dbs, books, took, enabled>>

\* VACUUM, then ulogd by the ENABLED of the beginning.
RestartUlogd(g) ==
  /\ step[g] = "restart"
  /\ ulogd' = (ulogd \/ enabled[g])
  /\ took' = [took EXCEPT ![g] = 0] /\ enabled' = [enabled EXCEPT ![g] = FALSE]
  /\ Move(g, "idle")
  /\ clean' = [p \in Procs |-> FALSE]
  /\ UNCHANGED <<svc, files, kernel, disk, pc, own, bounds, dbs, books, aborts, torn>>

\* sqlite rolls back what was not committed.
TPowerFails ==
  /\ PowerFails
  /\ ulogd' = FALSE
  /\ torn' = (torn \/ \E g \in Aggregators : step[g] = "delete" /\ took[g] > 0)
  /\ step' = [g \in Aggregators |-> "idle"] /\ took' = [g \in Aggregators |-> 0]
  /\ enabled' = [g \in Aggregators |-> FALSE]
  /\ UNCHANGED <<dbs, books, aborts>>

TNext ==
  \/ Quiet /\ UNCHANGED traffic
  \/ TPowerFails \/ Packet
  \/ \E p \in Procs : accountingctrl(p) \/ Empty(p) \/ Rules(p) \/ StartDaemon(p) \/ StopDaemon(p)
  \/ \E g \in Aggregators : \/ Cron(g) \/ Waited(g) \/ Sum(g) \/ Abort(g) \/ CommitSum(g)
                             \/ CommitDelete(g) \/ CommitFails(g) \/ RestartUlogd(g)

TSpec == TInit /\ [][TNext]_allVars

-----------------------------------------------------------------------------
(* Properties *)

\* However runs of aggregatetraffic.pl, accountingctrl, failing transactions
\* and power failures interleave, every packet ulogd wrote is in exactly one of
\* the two databases - in both only between the two commits - unless something
\* failed just there or the databases were emptied under an aggregator.
CountedOnce ==
  ~torn => total + rows = counted + (IF \E g \in Aggregators : step[g] = "delete" THEN rows ELSE 0)

\* Undisturbed, accountingctrl leaves exactly the daemon the settings ask for;
\* the exception is a new vnstat database, after which vnstatd is not started
\* again unless it ended before its pid file was looked for.
AccountingApplies ==
  \A p \in Procs : svc = "accounting" /\ pc[p] = "done" /\ clean[p] /\ settings # Blank =>
    /\ ulogd <=> High(settings)
    /\ Low(settings) => daemon = "on"
    /\ High(settings) => Len(chain) = Cardinality(Interfaces(eth))

\* Applies for the services of both modules: an undisturbed helper, whichever
\* it is, leaves the system as its settings say.
EachApplies == Applies /\ AccountingApplies

=============================================================================
