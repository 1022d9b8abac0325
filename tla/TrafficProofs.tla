--------------------------- MODULE TrafficProofs ---------------------------
(***************************************************************************)
(* Every packet is counted once, for any number of overlapping runs of     *)
(* aggregatetraffic.pl and accountingctrl, failing transactions and power  *)
(* failures.                                                               *)
(*                                                                         *)
(* The invariant: sqlite's lock keeps ulogd.db as it was read until both   *)
(* commits are done, so the one aggregator that has the lock has taken     *)
(* exactly the rows that are there.                                        *)
(*                                                                         *)
(* And an undisturbed accountingctrl leaves what the settings ask for: the *)
(* invariant of ServicesProofs, with one more helper's stages.             *)
(***************************************************************************)
EXTENDS Traffic, ServicesProofs

Points == {"idle", "wait", "read", "commit", "delete", "restart"}
Locking ==  {"commit", "delete"}

\* The types the argument needs.
Numbers ==
  /\ rows \in Nat /\ total \in Nat /\ counted \in Nat
  /\ step \in [Aggregators -> Points] /\ took \in [Aggregators -> Nat]

\* One aggregator at a time has the lock on ulogd.db.
Alone ==
  \A g, h \in Aggregators : step[g] \in Locking /\ step[h] \in Locking => g = h

\* It has read all rows, and nobody has added or removed one since.
Took == \A g \in Aggregators : step[g] \in Locking => took[g] = rows

Summed == \E g \in Aggregators : step[g] = "delete"

\* The books, in the two situations CountedOnce tells apart.
Balance == /\ ~Summed => total + rows = counted
           /\ Summed => total = counted

BookInv == Numbers /\ Alone /\ (~torn => Took /\ Balance)

\* Balance is what CountedOnce says (aggregatetraffic.pl, the two commits).
LEMMA BalanceCounts ==
  ASSUME BookInv
  PROVE  CountedOnce
<1>1. CASE torn
  BY <1>1 DEF CountedOnce
<1>2. CASE ~torn /\ Summed
  <2>1. total = counted /\ total \in Nat /\ rows \in Nat
    BY <1>2 DEF BookInv, Balance, Numbers
  <2> QED
    BY <2>1, <1>2 DEF CountedOnce, Summed
<1>3. CASE ~torn /\ ~Summed
  <2>1. total + rows = counted /\ counted \in Nat
    BY <1>3 DEF BookInv, Balance, Numbers
  <2> QED
    BY <2>1, <1>3 DEF CountedOnce, Summed
<1> QED
  BY <1>1, <1>2, <1>3

\* A step that changes neither books nor aggregators keeps the invariant.
LEMMA Untouched ==
  ASSUME BookInv, UNCHANGED <<books, step, took, torn>>
  PROVE  BookInv'
  BY DEF BookInv, Numbers, Alone, Took, Balance, Summed, books

\* An aggregator that moves between points without the lock changes no books
\* (Cron, Waited, RestartUlogd).
LEMMA MoveOutside ==
  ASSUME BookInv, NEW g \in Aggregators, NEW next \in Points \ Locking, step[g] \notin Locking,
         step' = [step EXCEPT ![g] = next], UNCHANGED <<books, torn>>,
         took' = took \/ took' = [took EXCEPT ![g] = 0]
  PROVE  BookInv'
<1>1. Numbers'
  BY DEF BookInv, Numbers, books
<1>2. \A h \in Aggregators : step'[h] \in Locking => h # g /\ step'[h] = step[h] /\ took'[h] = took[h]
  BY DEF BookInv, Numbers
<1>3. Alone'
  BY <1>2 DEF BookInv, Alone
<1>4. Took => Took'
  BY <1>2 DEF Took, books
<1>5. Summed' <=> Summed
  BY DEF BookInv, Numbers, Summed, Locking
<1>6. Balance => Balance'
  BY <1>5 DEF Balance, books
<1> QED
  BY <1>1, <1>3, <1>4, <1>6 DEF BookInv

\* ulogd writes only while nobody has the lock.
LEMMA PacketKeeps ==
  ASSUME BookInv, Packet
  PROVE  BookInv'
<1>1. /\ rows' = rows + 1 /\ counted' = counted + 1 /\ total' = total
      /\ UNCHANGED <<step, took, torn>> /\ ~Locked
  BY DEF Packet, agg
<1>2. \A g \in Aggregators : step[g] \notin Locking
  BY <1>1 DEF Locked, Locking
<1>3. Numbers' /\ Alone'
  BY <1>1 DEF BookInv, Numbers, Alone
<1>4. Took'
  BY <1>1, <1>2 DEF Took
<1>5. ~Summed /\ ~Summed'
  BY <1>1, <1>2 DEF Summed, Locking
<1>6. Balance => Balance'
  BY <1>1, <1>5 DEF Balance, BookInv, Numbers
<1> QED
  BY <1>1, <1>3, <1>4, <1>6 DEF BookInv

\* An emptied database adds nothing to the sum.
LEMMA AddNothing == \A n, m \in Nat : m = 0 => n + m = n
  OBVIOUS

\* accountingctrl empties the databases: the history says whether it did so
\* under an aggregator.
LEMMA EmptyKeeps ==
  ASSUME BookInv, NEW p \in Procs, Empty(p)
  PROVE  BookInv'
<1>1. /\ rows' = 0 /\ counted' = total' /\ total' \in {0, total}
      /\ UNCHANGED <<step, took>>
  BY DEF Empty
<1>2. torn' <=> (torn \/ \E g \in Aggregators : step[g] \in {"read", "commit", "delete"})
  <2>1. torn' = (torn \/ \E g \in Aggregators : step[g] \in {"read", "commit", "delete"})
    BY Zenon DEF Empty
  <2> QED
    BY <2>1, Zenon
<1>3. Numbers' /\ Alone'
  BY <1>1 DEF BookInv, Numbers, Alone
<1>4. ~torn' => Took'
  BY <1>1, <1>2 DEF Took, Locking
<1>5. Balance'
  <2>1. total' \in Nat /\ rows' = 0 /\ counted' = total'
    BY <1>1, <1>3 DEF Numbers
  <2>2. total' + rows' = counted'
    BY <2>1, AddNothing
  <2> QED
    BY <1>1, <2>2 DEF Balance
<1> QED
  BY <1>3, <1>4, <1>5 DEF BookInv

\* The lock is granted when nobody has it, and the rows are read under it.
LEMMA SumKeeps ==
  ASSUME BookInv, NEW g \in Aggregators, Sum(g)
  PROVE  BookInv'
<1>1. /\ step' = [step EXCEPT ![g] = "commit"] /\ took' = [took EXCEPT ![g] = rows]
      /\ UNCHANGED <<rows, total, counted, torn>> /\ ~Locked /\ step[g] = "read"
  BY DEF Sum, Move, books
<1>2. \A h \in Aggregators : step[h] \notin Locking
  BY <1>1 DEF Locked, Locking
<1>3. \A h \in Aggregators : step'[h] \in Locking => h = g
  BY <1>1, <1>2 DEF BookInv, Numbers
<1>4. Numbers'
  BY <1>1 DEF BookInv, Numbers, Points
<1>5. Alone'
  BY <1>3 DEF Alone
<1>6. Took'
  BY <1>1, <1>3 DEF Took, BookInv, Numbers
<1>7. ~Summed
  BY <1>2 DEF Summed, Locking
<1>8. ~Summed'
  BY <1>1, <1>7 DEF Summed, BookInv, Numbers
<1>9. Balance => Balance'
  BY <1>1, <1>7, <1>8 DEF Balance
<1> QED
  BY <1>1, <1>4, <1>5, <1>6, <1>9 DEF BookInv

\* The lock is given up: nobody has it afterwards.
LEMMA Released ==
  ASSUME BookInv, NEW g \in Aggregators, step[g] \in Locking,
         step' = [step EXCEPT ![g] = "restart"]
  PROVE  \A h \in Aggregators : step'[h] \notin Locking
  BY DEF BookInv, Numbers, Alone, Locking

\* Rollback before the first commit leaves both databases as they were.
LEMMA AbortKeeps ==
  ASSUME BookInv, NEW g \in Aggregators, Abort(g)
  PROVE  BookInv'
<1>1. /\ step' = [step EXCEPT ![g] = "restart"] /\ step[g] \in {"read", "commit"}
      /\ UNCHANGED <<books, took, torn>>
  BY DEF Abort, Move
<1>2. CASE step[g] = "read"
  BY <1>1, <1>2, MoveOutside DEF Points, Locking
<1>3. CASE step[g] = "commit"
  <2>1. \A h \in Aggregators : step'[h] \notin Locking
    BY <1>1, <1>3, Released DEF Locking
  <2>2. Numbers' /\ Alone' /\ Took'
    BY <1>1, <2>1 DEF BookInv, Numbers, Points, Alone, Took, books
  <2>3. ~Summed /\ ~Summed'
    BY <1>3, <2>1 DEF Summed, BookInv, Alone, Locking
  <2>4. Balance => Balance'
    BY <1>1, <2>3 DEF Balance, books
  <2> QED
    BY <1>1, <2>2, <2>4 DEF BookInv
<1> QED
  BY <1>1, <1>2, <1>3

\* The first commit adds exactly the rows that are still there.
LEMMA CommitSumKeeps ==
  ASSUME BookInv, NEW g \in Aggregators, CommitSum(g)
  PROVE  BookInv'
<1>1. /\ step' = [step EXCEPT ![g] = "delete"] /\ step[g] = "commit"
      /\ total' = total + took[g] /\ UNCHANGED <<rows, counted, took, torn>>
  BY DEF CommitSum, Move
<1>2. Numbers'
  BY <1>1 DEF BookInv, Numbers, Points
<1>3. \A h \in Aggregators : step'[h] \in Locking => step[h] \in Locking
  BY <1>1 DEF BookInv, Numbers, Locking
<1>4. Alone' /\ (Took => Took')
  BY <1>1, <1>3 DEF BookInv, Alone, Took
<1>5. ~Summed
  BY <1>1 DEF Summed, BookInv, Alone, Locking
<1>6. Summed'
  BY <1>1 DEF Summed, BookInv, Numbers
<1>7. Took => took[g] = rows
  BY <1>1 DEF Took, Locking
<1>8. Took /\ Balance => Balance'
  BY <1>1, <1>5, <1>6, <1>7 DEF Balance, BookInv, Numbers
<1> QED
  BY <1>1, <1>2, <1>4, <1>8 DEF BookInv

\* The second commit removes them from the other database.
LEMMA CommitDeleteKeeps ==
  ASSUME BookInv, NEW g \in Aggregators, CommitDelete(g)
  PROVE  BookInv'
<1>1. /\ step' = [step EXCEPT ![g] = "restart"] /\ step[g] = "delete"
      /\ rows' = 0 /\ UNCHANGED <<total, counted, took, torn>>
  BY DEF CommitDelete, Move
<1>2. \A h \in Aggregators : step'[h] \notin Locking
  BY <1>1, Released DEF Locking
<1>3. Numbers' /\ Alone' /\ Took'
  BY <1>1, <1>2 DEF BookInv, Numbers, Points, Alone, Took
<1>4. Summed /\ ~Summed'
  BY <1>1, <1>2 DEF Summed, Locking
<1>5. Balance => Balance'
  BY <1>1, <1>4 DEF Balance, BookInv, Numbers
<1> QED
  BY <1>1, <1>3, <1>5 DEF BookInv

\* The second commit fails: harmless if there was nothing to move, else the
\* history says so.
LEMMA CommitFailsKeeps ==
  ASSUME BookInv, NEW g \in Aggregators, CommitFails(g)
  PROVE  BookInv'
<1>1. /\ step' = [step EXCEPT ![g] = "restart"] /\ step[g] = "delete"
      /\ UNCHANGED <<rows, total, counted, took>>
  BY DEF CommitFails, Move, books
<1>2. torn' <=> (torn \/ took[g] > 0)
  BY DEF CommitFails
<1>3. \A h \in Aggregators : step'[h] \notin Locking
  BY <1>1, Released DEF Locking
<1>4. Numbers' /\ Alone' /\ Took'
  BY <1>1, <1>3 DEF BookInv, Numbers, Points, Alone, Took
<1>5. Summed /\ ~Summed'
  BY <1>1, <1>3 DEF Summed, Locking
<1>6. ~(took[g] > 0) => took[g] = 0
  BY DEF BookInv, Numbers
<1>7. Took => took[g] = rows
  BY <1>1 DEF Took, Locking
<1>8. Took /\ Balance /\ took[g] = 0 => Balance'
  BY <1>1, <1>5, <1>7 DEF Balance, BookInv, Numbers
<1> QED
  BY <1>2, <1>4, <1>6, <1>8 DEF BookInv

\* A power failure rolls back what is not committed; between the commits the
\* history says so.
LEMMA PowerKeeps ==
  ASSUME BookInv, TPowerFails
  PROVE  BookInv'
<1>1. /\ step' = [g \in Aggregators |-> "idle"] /\ took' = [g \in Aggregators |-> 0]
      /\ UNCHANGED <<rows, total, counted>>
  BY DEF TPowerFails, books
<1>2. torn' <=> (torn \/ \E g \in Aggregators : step[g] = "delete" /\ took[g] > 0)
  BY DEF TPowerFails
<1>3. Numbers' /\ Alone' /\ Took'
  BY <1>1 DEF BookInv, Numbers, Points, Alone, Took, Locking
<1>4. ~Summed'
  BY <1>1 DEF Summed
<1>5. ASSUME Took, Balance, ~torn' PROVE Balance'
  <2>1. CASE ~Summed
    BY <1>1, <1>4, <1>5, <2>1 DEF Balance
  <2>2. CASE Summed
    <3>1. PICK g \in Aggregators : step[g] = "delete"
      BY <2>2 DEF Summed
    <3>2. ~(took[g] > 0) /\ took[g] = rows /\ rows \in Nat
      BY <1>2, <1>5, <3>1 DEF Took, Locking, BookInv, Numbers
    <3>3. rows = 0
      BY <3>2
    <3> QED
      BY <1>1, <1>4, <1>5, <2>2, <3>3 DEF Balance, BookInv, Numbers
  <2> QED
    BY <2>1, <2>2
<1> QED
  BY <1>2, <1>3, <1>5 DEF BookInv

\* Every step keeps the invariant.
LEMMA BooksKept ==
  ASSUME BookInv, [TNext]_allVars
  PROVE  BookInv'
<1>1. CASE Quiet /\ UNCHANGED traffic
  BY <1>1, Untouched DEF traffic, agg
<1>2. CASE TPowerFails
  BY <1>2, PowerKeeps
<1>3. CASE Packet
  BY <1>3, PacketKeeps
<1>4. ASSUME NEW p \in Procs, Empty(p) PROVE BookInv'
  BY <1>4, EmptyKeeps
<1>5. ASSUME NEW p \in Procs, accountingctrl(p) \/ Rules(p) \/ StartDaemon(p) \/ StopDaemon(p) PROVE BookInv'
  <2>1. UNCHANGED <<books, step, took, torn>>
    <3>1. CASE accountingctrl(p)
      BY <3>1 DEF accountingctrl, traffic, agg
    <3>2. CASE Rules(p)
      BY <3>2 DEF Rules, agg
    <3>3. CASE StartDaemon(p)
      BY <3>3 DEF StartDaemon, agg
    <3>4. CASE StopDaemon(p)
      BY <3>4 DEF StopDaemon, agg
    <3> QED
      BY <1>5, <3>1, <3>2, <3>3, <3>4
  <2> QED
    BY <2>1, Untouched
<1>6. ASSUME NEW g \in Aggregators, Cron(g) PROVE BookInv'
  <2>1. /\ step' = [step EXCEPT ![g] = "wait"] /\ step[g] = "idle"
        /\ UNCHANGED <<books, took, torn>>
    BY <1>6 DEF Cron, Move
  <2> QED
    BY <2>1, MoveOutside DEF Points, Locking
<1>7. ASSUME NEW g \in Aggregators, Waited(g) PROVE BookInv'
  <2>1. /\ step' = [step EXCEPT ![g] = "read"] /\ step[g] = "wait"
        /\ UNCHANGED <<books, took, torn>>
    BY <1>7 DEF Waited, Move
  <2> QED
    BY <2>1, MoveOutside DEF Points, Locking
<1>8. ASSUME NEW g \in Aggregators, RestartUlogd(g) PROVE BookInv'
  <2>1. /\ step' = [step EXCEPT ![g] = "idle"] /\ step[g] = "restart"
        /\ UNCHANGED <<books, torn>> /\ took' = [took EXCEPT ![g] = 0]
    BY <1>8 DEF RestartUlogd, Move
  <2> QED
    BY <2>1, MoveOutside DEF Points, Locking
<1>9. ASSUME NEW g \in Aggregators,
             Sum(g) \/ Abort(g) \/ CommitSum(g) \/ CommitDelete(g) \/ CommitFails(g)
      PROVE  BookInv'
  BY <1>9, SumKeeps, AbortKeeps, CommitSumKeeps, CommitDeleteKeeps, CommitFailsKeeps
<1>10. CASE UNCHANGED allVars
  BY <1>10, Untouched DEF allVars, traffic, agg
<1> QED
  BY <1>1, <1>2, <1>3, <1>4, <1>5, <1>6, <1>7, <1>8, <1>9, <1>10 DEF TNext

\* For any number of aggregators, helpers, packets and faults: every packet
\* ulogd wrote is in exactly one of the two databases, in both only between the
\* two commits, unless something failed just there or the databases were
\* emptied under an aggregator (aggregatetraffic.pl).
THEOREM PacketsCountedOnce == TSpec => []CountedOnce
<1>1. TInit => BookInv
  <2> SUFFICES ASSUME TInit PROVE BookInv
    OBVIOUS
  <2>1. Numbers /\ Alone /\ Took
    BY DEF TInit, Numbers, Points, Alone, Took, Locking
  <2>2. Balance
    BY DEF TInit, Balance, Summed
  <2> QED
    BY <2>1, <2>2 DEF BookInv
<1>2. BookInv /\ [TNext]_allVars => BookInv'
  BY BooksKept
<1>3. BookInv => CountedOnce
  BY BalanceCounts
<1> QED
  BY <1>1, <1>2, <1>3, PTL DEF TSpec

-----------------------------------------------------------------------------
(* accountingctrl *)

\* What an undisturbed accountingctrl has achieved, by where it is.
AccountingStage(p) ==
  /\ pc[p] \in {"rules", "start", "stop"} => Known(p)
  /\ pc[p] \in {"rules", "start"} => ~Trap
  /\ pc[p] \in {"start", "stop", "done"} /\ High(settings) => Len(chain) = Cardinality(Interfaces(eth))
  /\ pc[p] = "stop" => (High(settings) => ulogd) /\ (Low(settings) => daemon = "on")
  /\ pc[p] = "done" => (ulogd <=> High(settings)) /\ (Low(settings) => daemon = "on")

Accounted == \A p \in Procs : svc = "accounting" /\ clean[p] => AccountingStage(p)

EachInv == ApplyInv /\ Accounted

\* Every interface has one ACCOUNT rule.
LEMMA RuleEach ==
  ASSUME NEW e \in Machines
  PROVE  Len(SetToSeq({Rule(i, "any", "count") : i \in Interfaces(e)})) = Cardinality(Interfaces(e))
<1> DEFINE I == Interfaces(e)
           R == {Rule(i, "any", "count") : i \in I}
           f == [i \in I |-> Rule(i, "any", "count")]
<1>1. IsFiniteSet(I)
  <2>1. IsFiniteSet({"GREEN"}) /\ IsFiniteSet({"BLUE"}) /\ IsFiniteSet({"RED"}) /\ IsFiniteSet({})
    BY FS_Singleton, FS_EmptySet
  <2>2. IsFiniteSet({"GREEN"} \cup {"BLUE"})
    BY <2>1, FS_Union
  <2>3. {"GREEN"} \cup {"BLUE"} = {"GREEN", "BLUE"}
    OBVIOUS
  <2>4. IsFiniteSet(e.cards) /\ IsFiniteSet(IF e.red = None THEN {} ELSE {"RED"})
    BY <2>1, <2>2, <2>3 DEF Machines
  <2> QED
    BY <2>4, FS_Union DEF Interfaces
<1>2. f \in Bijection(I, R)
  <2>1. f \in [I -> R]
    OBVIOUS
  <2>2. \A i, j \in I : Rule(i, "any", "count") = Rule(j, "any", "count") => i = j
    BY DEF Rule
  <2>3. \A r \in R : \E i \in I : f[i] = r
    OBVIOUS
  <2> QED
    BY <2>1, <2>2, <2>3 DEF Bijection, Injection, Surjection, IsInjective
<1>3. ExistsBijection(I, R)
  BY <1>2 DEF ExistsBijection
<1> HIDE DEF I, R, f
<1>4. IsFiniteSet(R) /\ Cardinality(R) = Cardinality(I)
  BY <1>1, <1>3, FS_Bijection
<1>5. Len(SetToSeq(R)) = Cardinality(I)
  BY <1>4, SetToSeqLists
<1> QED
  BY <1>5 DEF I, R

\* The steps of Services: accountingctrl begins, or is disturbed, or a vnstatd
\* ends that was told to while it was not looked at.
LEMMA QuietAccounts ==
  ASSUME EachInv, Quiet, UNCHANGED ulogd
  PROVE  Accounted'
<1> SUFFICES ASSUME NEW p \in Procs, svc' = "accounting", clean'[p]
             PROVE  AccountingStage(p)'
  BY DEF Accounted
<1> USE DEF EachInv, ApplyInv
<1>1. ASSUME NEW q \in Procs, NEW a, Enter(q, a) PROVE AccountingStage(p)'
  <2>1. p = q
    BY <1>1 DEF Enter
  <2>2. pc'[p] = "begin"
    BY <1>1, <2>1 DEF Enter, Go, Types
  <2> QED
    BY <2>2 DEF AccountingStage
<1>2. ASSUME Disturb PROVE FALSE
  BY <1>2 DEF Disturb
<1>3. ASSUME NEW q \in Procs, NEW a, Call(q, a) \/ RedUp(q, a) PROVE AccountingStage(p)'
  BY <1>1, <1>3 DEF Call, RedUp
<1>4. ASSUME NEW q \in Procs, Saved(q) PROVE AccountingStage(p)'
  BY <1>1, <1>4 DEF Saved
<1>5. ASSUME NEW q \in Procs, NEW s, Save(q, s) PROVE FALSE
  BY <1>2, <1>5 DEF Save
<1>6. ASSUME NEW q \in Procs, RedDown(q) PROVE FALSE
  BY <1>2, <1>6 DEF RedDown
<1>7. ASSUME NEW q \in Procs, Return(q) PROVE FALSE
  <2>1. pc[q] = "done" /\ Spoil(q)
    BY <1>7 DEF Return
  <2>2. p # q /\ clean[p]
    BY <2>1 DEF Spoil, Types
  <2> QED
    BY <2>1, <2>2 DEF Lone
<1>8. ASSUME NEW q \in Procs,
             \/ Squid(q) \/ Ntpd(q) \/ Openvpn(q) \/ Editing(q)
             \/ Dnsmasq(q) \/ Shaping(q) \/ Aliases(q) \/ Email(q)
      PROVE  FALSE
  <2>1. CASE Squid(q)
    BY <2>1 DEF Squid, restartsquid, squidGone, squidKill, squidUnlink, squidRead, squidReadFails, squidStart,
                squidStartFails, squidRules, squidRulesFail, At
  <2>2. CASE Ntpd(q) \/ Openvpn(q)
    BY <2>2 DEF Ntpd, restartntpd, ntpdStop, ntpdStart, Openvpn, openvpnctrl, openvpnRead, openvpnStart, At
  <2>3. CASE Editing(q)
    BY <2>3 DEF Editing, Open, Sed, SedFails, Stop, StartEdited, Edited
  <2>4. CASE Dnsmasq(q)
    BY <2>4 DEF Dnsmasq, restartdhcp, rebuildhosts, hostsWritten, dnsmasqTold, At
  <2>5. CASE Shaping(q) \/ Aliases(q)
    BY <2>5 DEF Shaping, restartshaping, shapingDelete, shapingAdd, shapingFilters, Aliases, setaliases, aliasesAdd, At
  <2>6. CASE Email(q)
    BY <2>6 DEF Email, emailhelper, emailSent, emailNotSent, emailUnlink, At
  <2> QED
    BY <1>8, <2>1, <2>2, <2>3, <2>4, <2>5, <2>6
<1>9. CASE Ends
  <2>1. /\ daemon = "stopping" /\ svc = "accounting" /\ clean[p]
        /\ UNCHANGED <<settings, eth, chain, lock, pc, cfg, net>>
    BY <1>9 DEF Ends, files, disk, own
  <2>2. AccountingStage(p) /\ Trap
    BY <2>1 DEF Accounted, Pids, Trap
  <2>3. pc[p] \notin {"rules", "start"} /\ (pc[p] \in {"stop", "done"} => ~Low(settings))
    BY <2>1, <2>2 DEF AccountingStage
  <2> QED
    BY <2>1, <2>2, <2>3 DEF AccountingStage, Known
<1>10. CASE Dies \/ CardGone
  BY <1>2, <1>10 DEF Dies, CardGone
<1> QED
  BY <1>3, <1>4, <1>5, <1>6, <1>7, <1>8, <1>9, <1>10 DEF Quiet

\* A step of accountingctrl keeps the invariant if it keeps its stage: Applied
\* of module Services asks nothing of it.
LEMMA AccountingIsEnough ==
  ASSUME EachInv, NEW p \in Procs, NEW next \in {"empty", "rules", "start", "stop", "done"}, Moves(p, next),
         svc = "accounting", UNCHANGED svc, daemon' # "off" => pid',
         clean'[p] => AccountingStage(p)'
  PROVE  EachInv'
<1>1. Pids'
  BY DEF Pids
<1>2. Stage(p)'
  BY DEF Moves, Stage, Edited, Applied
<1>3. ApplyInv'
  BY <1>1, <1>2, StageIsEnough DEF EachInv
<1>4. Accounted'
  BY DEF Accounted, Moves
<1> QED
  BY <1>3, <1>4 DEF EachInv

\* accountingctrl.c.
LEMMA AccountingSteps ==
  ASSUME EachInv, NEW p \in Procs,
         accountingctrl(p) \/ Empty(p) \/ Rules(p) \/ StartDaemon(p) \/ StopDaemon(p)
  PROVE  EachInv'
<1> USE DEF EachInv, ApplyInv
<1>0. /\ svc = "accounting" /\ UNCHANGED <<svc, files, settings, eth, lock>>
      /\ daemon # "off" => pid
      /\ clean[p] => AccountingStage(p) /\ Stage(p)
  <2>1. svc = "accounting" /\ UNCHANGED <<svc, files, lock>>
    BY DEF accountingctrl, Empty, Rules, StartDaemon, StopDaemon, At, disk
  <2> QED
    BY <2>1 DEF files, Pids, Accounted, Staged
<1>1. CASE accountingctrl(p)
  <2>1. pc[p] = "begin" /\ Read(p) /\ UNCHANGED <<daemon, pid, clean>>
    BY <1>1 DEF accountingctrl, At, kernel
  <2>2. PICK next \in {"empty", "rules"} : Go(p, next)
    BY <1>1 DEF accountingctrl
  <2>3. Moves(p, next)
    BY <1>0, <2>1, <2>2, HelperMoves DEF Types
  <2>4. Known(p)'
    BY <1>0, <2>1, ReadKnows
  <2>5. ASSUME clean[p] PROVE ~Trap'
    BY <1>0, <2>1, <2>5 DEF Stage, Trap
  <2>6. ASSUME clean'[p] PROVE AccountingStage(p)'
    BY <2>1, <2>3, <2>4, <2>5, <2>6 DEF Moves, AccountingStage
  <2> QED
    BY <1>0, <2>1, <2>3, <2>6, AccountingIsEnough
<1>2. CASE Empty(p)
  <2>1. pc[p] = "empty" /\ Go(p, "done") /\ Spoil(p) /\ UNCHANGED <<daemon, pid, own>>
    BY <1>2 DEF Empty, At, kernel, Done
  <2>2. Moves(p, "done") /\ ~clean'[p]
    BY <1>0, <2>1, HelperMoves DEF Types, Spoil
  <2> QED
    BY <1>0, <2>1, <2>2, AccountingIsEnough
<1>3. CASE Rules(p)
  <2>1. /\ pc[p] = "rules" /\ Go(p, "start") /\ UNCHANGED <<pid, own, cfg, net>>
        /\ chain' = IF High(cfg[p]) THEN SetToSeq({Rule(i, "any", "count") : i \in Interfaces(net[p])}) ELSE <<>>
        /\ IF daemon' # daemon THEN Spoil(p) ELSE UNCHANGED clean
    BY <1>3 DEF Rules, At, own
  <2>2. daemon' = daemon \/ (daemon = "on" /\ daemon' = "stopping")
    BY <1>3 DEF Rules
  <2>3. Moves(p, "start") /\ (clean'[p] => clean[p] /\ daemon' = daemon)
    BY <1>0, <2>1, <2>2, HelperMoves DEF Types, Spoil, Moves
  <2>4. ASSUME clean'[p] PROVE AccountingStage(p)'
    <3>1. Known(p) /\ ~Trap
      BY <1>0, <2>1, <2>3, <2>4 DEF AccountingStage
    <3>2. Known(p)' /\ ~Trap'
      BY <1>0, <2>1, <2>3, <2>4, <3>1 DEF Known, Trap
    <3>3. ASSUME High(settings) PROVE Len(chain') = Cardinality(Interfaces(eth))
      BY <2>1, <3>1, <3>3, RuleEach DEF Known, Types
    <3>4. (High(settings) => Len(chain) = Cardinality(Interfaces(eth)))'
      BY <1>0, <3>3 DEF High
    <3> QED
      BY <2>3, <3>2, <3>4 DEF AccountingStage, Moves
  <2> QED
    BY <1>0, <2>1, <2>2, <2>3, <2>4, AccountingIsEnough
<1>4. CASE StartDaemon(p)
  <2>1. /\ pc[p] = "start" /\ Go(p, "stop") /\ UNCHANGED <<chain, own, cfg, net, clean>>
        /\ IF Low(cfg[p]) /\ ~pid THEN Launch("vnstat") ELSE UNCHANGED <<daemon, pid, loaded>>
    BY <1>4 DEF StartDaemon, At, own
  <2>2. ulogd' <=> ulogd \/ High(cfg[p])
    BY <1>4, Zenon DEF StartDaemon
  <2>3. /\ daemon' \in {"off", "on", "stopping"} /\ pid' \in BOOLEAN /\ (daemon' # "off" => pid')
        /\ Low(cfg[p]) /\ (pid => daemon = "on") => daemon' = "on"
    BY <1>0, <2>1 DEF Types, Launch
  <2>4. Moves(p, "stop")
    BY <1>0, <2>1, <2>3, HelperMoves DEF Types
  <2>5. ASSUME clean'[p] PROVE AccountingStage(p)'
    <3>1. Known(p) /\ ~Trap /\ (High(settings) => Len(chain) = Cardinality(Interfaces(eth)))
      BY <1>0, <2>1, <2>5 DEF AccountingStage
    <3>2. pid => daemon = "on"
      BY <1>0, <3>1 DEF Trap
    <3>3. Known(p)' /\ (High(settings) => ulogd') /\ (Low(settings) => daemon' = "on")
      BY <1>0, <2>1, <2>2, <2>3, <3>1, <3>2 DEF Known
    <3> QED
      BY <1>0, <2>1, <2>4, <3>1, <3>3 DEF AccountingStage, Moves, High, Low
  <2> QED
    BY <1>0, <2>3, <2>4, <2>5, AccountingIsEnough
<1>5. CASE StopDaemon(p)
  <2>1. /\ pc[p] = "stop" /\ Go(p, "done") /\ UNCHANGED <<pid, chain, own, cfg, net, clean>>
        /\ daemon' = IF Signalled /\ ~Low(cfg[p]) THEN "stopping" ELSE daemon
    BY <1>5 DEF StopDaemon, At, own, Done
  <2>2. ulogd' <=> ulogd /\ High(cfg[p])
    BY <1>5, Zenon DEF StopDaemon
  <2>3. Moves(p, "done") /\ (daemon' # "off" => pid')
    BY <1>0, <2>1, HelperMoves DEF Types, Signalled
  <2>4. ASSUME clean'[p] PROVE AccountingStage(p)'
    <3>1. /\ Known(p) /\ (High(settings) => Len(chain) = Cardinality(Interfaces(eth)))
          /\ (High(settings) => ulogd) /\ (Low(settings) => daemon = "on")
      BY <1>0, <2>1, <2>4 DEF AccountingStage
    <3>2. (ulogd' <=> High(settings)) /\ (Low(settings) => daemon' = "on")
      BY <2>1, <2>2, <3>1 DEF Known
    <3> QED
      BY <1>0, <2>1, <2>3, <3>1, <3>2 DEF AccountingStage, Moves, High, Low
  <2> QED
    BY <1>0, <2>3, <2>4, AccountingIsEnough
<1> QED
  BY <1>1, <1>2, <1>3, <1>4, <1>5

\* Where nobody is undisturbed, or nothing it looks at has changed.
LEMMA AggregatorsApply ==
  ASSUME EachInv, UNCHANGED <<svc, files, kernel, disk, pc, own, bounds>>,
         clean' = [p \in Procs |-> FALSE] \/ UNCHANGED <<clean, ulogd>>
  PROVE  EachInv'
<1>1. CASE clean' = [p \in Procs |-> FALSE]
  <2>1. UNCHANGED <<svc, settings, eth, daemon, pid, lock, pc, arg, cfg, net>>
    BY DEF files, kernel, disk, own
  <2>2. Types' /\ Pids'
    BY <1>1, <2>1 DEF EachInv, ApplyInv, Types, Pids
  <2>3. \A p \in Procs : ~clean'[p]
    BY <1>1
  <2> QED
    BY <2>2, <2>3, Disturbed DEF EachInv, Accounted
<1>2. CASE UNCHANGED <<clean, ulogd>>
  <2>1. UNCHANGED vars
    BY <1>2 DEF vars
  <2>2. ApplyInv'
    BY <2>1, StepsApply DEF EachInv
  <2>3. UNCHANGED <<svc, settings, eth, daemon, pid, chain, lock, pc, cfg, net>>
    BY DEF files, kernel, disk, own
  <2>4. Accounted'
    BY <1>2, <2>3 DEF EachInv, Accounted, AccountingStage, Known, Trap, High, Low, Interfaces
  <2> QED
    BY <2>2, <2>4 DEF EachInv
<1> QED
  BY <1>1, <1>2

\* Every step keeps the invariant.
LEMMA EachKept ==
  ASSUME EachInv, [TNext]_allVars
  PROVE  EachInv'
<1>1. CASE Quiet /\ UNCHANGED traffic
  <2>1. ApplyInv'
    BY <1>1, StepsApply DEF EachInv, Next
  <2>2. Accounted'
    BY <1>1, QuietAccounts DEF traffic
  <2> QED
    BY <2>1, <2>2 DEF EachInv
<1>2. CASE TPowerFails
  <2>1. PowerFails /\ Disturb
    BY <1>2 DEF TPowerFails, PowerFails
  <2>2. ApplyInv'
    BY <2>1, StepsApply DEF EachInv, Next
  <2>3. Accounted'
    BY <2>1 DEF Disturb, Accounted
  <2> QED
    BY <2>2, <2>3 DEF EachInv
<1>3. CASE Packet
  BY <1>3, AggregatorsApply DEF Packet, base, vars
<1>4. ASSUME NEW p \in Procs,
             accountingctrl(p) \/ Empty(p) \/ Rules(p) \/ StartDaemon(p) \/ StopDaemon(p)
      PROVE  EachInv'
  BY <1>4, AccountingSteps
<1>5. ASSUME NEW g \in Aggregators, Cron(g) \/ RestartUlogd(g) PROVE EachInv'
  BY <1>5, AggregatorsApply DEF Cron, RestartUlogd
<1>6. ASSUME NEW g \in Aggregators,
             \/ Waited(g) \/ Sum(g) \/ Abort(g) \/ CommitSum(g) \/ CommitDelete(g) \/ CommitFails(g)
      PROVE  EachInv'
  <2>1. UNCHANGED <<base, ulogd>>
    BY <1>6 DEF Waited, Sum, Abort, CommitSum, CommitDelete, CommitFails
  <2> QED
    BY <2>1, AggregatorsApply DEF base, vars
<1>7. CASE UNCHANGED allVars
  BY <1>7, AggregatorsApply DEF allVars, traffic, base, vars
<1> QED
  BY <1>1, <1>2, <1>3, <1>4, <1>5, <1>6, <1>7 DEF TNext

\* For any settings, number of helpers and aggregators, addresses and IPsec
\* networks: when one of the helpers returns that nothing disturbed, the
\* system is as its settings say, whatever earlier helpers that overlapped,
\* daemons that died and power failures have left, the leftovers of Trap
\* excepted (restartsquid.c ... emailhelper.c, accountingctrl.c).
THEOREM EachHelperApplies == TSpec => []EachApplies
<1>1. TInit => EachInv
  <2> SUFFICES ASSUME TInit PROVE EachInv
    OBVIOUS
  <2>1. Init
    BY DEF TInit
  <2>2. Accounted
    BY <2>1 DEF Init, Accounted
  <2> QED
    BY <2>1, <2>2, ApplyInit DEF EachInv
<1>2. EachInv /\ [TNext]_allVars => EachInv'
  BY EachKept
<1>3. EachInv => EachApplies
  <2> SUFFICES ASSUME EachInv PROVE EachApplies
    OBVIOUS
  <2>1. Applies
    BY DEF EachInv, ApplyInv, Staged, Stage, Applies
  <2>2. AccountingApplies
    BY DEF EachInv, Accounted, AccountingStage, AccountingApplies
  <2> QED
    BY <2>1, <2>2 DEF EachApplies
<1> QED
  BY <1>1, <1>2, <1>3, PTL DEF TSpec
=============================================================================
