----------------------------- MODULE RedProofs -----------------------------
(***************************************************************************)
(* Proofs about Red, for every set of users, checkers, pppd processes and  *)
(* profiles and every bound.                                               *)
(*                                                                         *)
(* The last part is about manual profiles, where nothing dials by itself:  *)
(* no checker ever runs rc.red (Unchecked), commands that follow one       *)
(* another leave at most one script in rc.red (OneCommand), and so the pid *)
(* file names every pppd there is (Named).                                 *)
(***************************************************************************)
EXTENDS Red, TLAPS

\* What every leaf needs: the shape of the state and the grouped variables.
USE RedAssumption, ProcAssumption
USE DEF Procs, Sched, Reconn, Absent, RedPC, StartPC, StopPC, ChkPC, SchedPC, SessPC,
        files, ppp, locals, sched, ghost
-----------------------------------------------------------------------------


\* rc.red start keeps the state well typed.
LEMMA StartType ==
  ASSUME TypeOK, NEW p \in Procs, RedStart(p)
  PROVE  TypeOK'
<1>1. CASE StartGuard(p)
  BY <1>1, SMTT(30) DEF StartGuard, TypeOK
<1>2. CASE StartSpawn(p)
  BY <1>2, SMTT(30) DEF StartSpawn, TypeOK
<1>3. CASE StartNoSync(p)
  BY <1>3, SMTT(30) DEF StartNoSync, TypeOK
<1>4. CASE StartDial(p)
  BY <1>4, SMTT(30) DEF StartDial, TypeOK
<1>5. CASE StartUpdated(p)
  BY <1>5, SMTT(30) DEF StartUpdated, TypeOK
<1> QED
  BY <1>1, <1>2, <1>3, <1>4, <1>5 DEF RedStart

\* rc.red stop keeps the state well typed.
LEMMA StopType ==
  ASSUME TypeOK, NEW p \in Procs, RedStop(p)
  PROVE  TypeOK'
<1>1. CASE StopFiles(p)
  <2>1. active' \in BOOLEAN /\ dod' \in BOOLEAN
    BY <1>1 DEF StopFiles, TypeOK
  <2> QED
    BY <1>1, <2>1, SMTT(30) DEF StopFiles, TypeOK
<1>2. CASE StopTest(p)
  BY <1>2, SMTT(30) DEF StopTest, TypeOK
<1>3. CASE StopKeep(p)
  BY <1>3, SMTT(30) DEF StopKeep, TypeOK
<1>4. CASE StopRedial(p)
  <2>1. redial' \in BOOLEAN
    BY <1>4 DEF StopRedial, TypeOK
  <2> QED
    BY <1>4, <2>1, SMTT(30) DEF StopRedial, TypeOK
<1>5. CASE StopKill(p)
  BY <1>5, SMTT(30) DEF StopKill, TypeOK
<1> QED
  BY <1>1, <1>2, <1>3, <1>4, <1>5 DEF RedStop

\* pppd, ip-up and ip-down keep the state well typed.
LEMMA PppdType ==
  ASSUME TypeOK, NEW s \in Sessions, Pppd(s)
  PROVE  TypeOK'
<1>1. CASE Demand(s)
  BY <1>1, SMTT(30) DEF Demand, TypeOK
<1>2. CASE LinkUp(s)
  BY <1>2, SMTT(30) DEF LinkUp, TypeOK
<1>3. CASE LinkFail(s)
  BY <1>3, SMTT(30) DEF LinkFail, Leaves, TypeOK
<1>4. CASE IpUp(s)
  <2>1. active' \in BOOLEAN
    BY <1>4 DEF IpUp, TypeOK
  <2> QED
    BY <1>4, <2>1, SMTT(30) DEF IpUp, TypeOK
<1>5. CASE LinkDown(s)
  BY <1>5, SMTT(30) DEF LinkDown, TypeOK
<1>6. CASE IpDown(s)
  <2>1. active' \in BOOLEAN
    BY <1>6 DEF IpDown, TypeOK
  <2> QED
    BY <1>6, <2>1, SMTT(30) DEF IpDown, TypeOK
<1>7. CASE IpDownReconnect(s)
  BY <1>7, SMTT(30) DEF IpDownReconnect, Leaves, TypeOK
<1>8. CASE Exit(s)
  BY <1>8, SMTT(30) DEF Exit, TypeOK
<1>9. CASE IpDownKeep(s)
  <2>1. redial' \in BOOLEAN
    BY <1>9, Zenon DEF IpDownKeep, TypeOK
  <2> QED
    BY <1>9, <2>1, SMTT(30) DEF IpDownKeep, Leaves, TypeOK
<1> QED
  BY <1>1, <1>2, <1>3, <1>4, <1>5, <1>6, <1>7, <1>8, <1>9 DEF Pppd

\* The checker keeps the state well typed; in particular the attempt count
\* it writes stays below MAXRETRIES.
LEMMA CheckerType ==
  ASSUME TypeOK, NEW c \in Checkers, Checker(c)
  PROVE  TypeOK'
<1>1. CASE ChkInit(c)
  BY <1>1, SMTT(30) DEF ChkInit, TypeOK, At, Goto, Call, Quit, KeepFile
<1>2. CASE ChkSeesPppd(c)
  BY <1>2, SMTT(30) DEF ChkSeesPppd, TypeOK, At, Goto, Call, Quit, KeepFile
<1>3. CASE ChkNoPppd(c)
  BY <1>3, SMTT(30) DEF ChkNoPppd, TypeOK, At, Goto, Call, Quit, KeepFile
<1>4. CASE ChkNoSync(c)
  BY <1>4, SMTT(30) DEF ChkNoSync, TypeOK, At, Goto, Call, Quit, KeepFile
<1>5. CASE ChkResync(c)
  BY <1>5, SMTT(30) DEF ChkResync, TypeOK, At, Goto, Call, Quit, KeepFile
<1>6. CASE ChkDisconnected(c)
  BY <1>6, SMTT(30) DEF ChkDisconnected, TypeOK, At, Goto, Call, Quit, KeepFile
<1>7. CASE ChkConnected(c)
  BY <1>7, SMTT(30) DEF ChkConnected, TypeOK, At, Goto, Call, Quit, KeepFile
<1>8. CASE ChkPoll(c)
  BY <1>8, SMTT(30) DEF ChkPoll, TypeOK, At, Goto, Call, Quit, KeepFile
<1>9. CASE ChkTimeout(c)
  BY <1>9, SMTT(30) DEF ChkTimeout, TypeOK, At, Goto, Call, Quit, KeepFile
<1>10. CASE ChkFail(c)
  <2>1. red' \in [Procs -> RedPC] /\ updatered' \in 0 .. MaxUpdates
    <3>1. PICK K \in SUBSET {p \in Procs : red[p] \in StartPC} :
            /\ red' = [p \in Procs |-> IF p = c THEN "stop"
                                       ELSE IF p \in K THEN "none" ELSE red[p]]
            /\ updatered' = IF /\ \E p \in K : red[p] = "updating"
                               /\ updatered < MaxUpdates
                              THEN updatered + 1 ELSE updatered
      BY <1>10, Zenon DEF ChkFail
    <3>2. red' \in [Procs -> RedPC]
      BY <3>1 DEF TypeOK
    <3>3. updatered' = updatered \/ (updatered < MaxUpdates /\ updatered' = updatered + 1)
      BY <3>1
    <3> QED
      BY <3>2, <3>3 DEF TypeOK
  <2>2. pc' \in [Procs -> ChkPC \cup SchedPC]
    BY <1>10 DEF ChkFail, TypeOK
  <2>3. /\ redial' = TRUE
        /\ UNCHANGED <<active, keep, dod, pidfile, profile, sess, killed, locals, sched, ghost>>
    BY <1>10 DEF ChkFail
  <2> QED
    BY <2>1, <2>2, <2>3 DEF TypeOK
<1>11. CASE ChkPppdGone(c)
  BY <1>11, SMTT(30) DEF ChkPppdGone, TypeOK, At, Goto, Call, Quit, KeepFile
<1>12. CASE ChkRetry(c)
  BY <1>12, SMTT(30) DEF ChkRetry, TypeOK, At, Goto, Call, Quit, KeepFile
<1>13. CASE ChkExhausted(c)
  <2>1. CASE BackupProfile[prof[c]] # None
    BY <1>13, <2>1, SMTT(30) DEF ChkExhausted, TypeOK, At, Goto
  <2>2. CASE BackupProfile[prof[c]] = None
    <3>1. waited' = [waited EXCEPT ![c] = FALSE]
      BY <1>13, <2>2 DEF ChkExhausted, Quit
    <3>2. waited' \in [Checkers -> BOOLEAN]
      BY <3>1, Zenon DEF TypeOK
    <3>3. keep' = 0 /\ profile' = profile
      BY <1>13, <2>2 DEF ChkExhausted
    <3>4. pc' = [pc EXCEPT ![c] = "free"] /\ red' = red
      BY <1>13, <2>2 DEF ChkExhausted, Quit, Goto
    <3>5. /\ att' = [att EXCEPT ![c] = 0]
          /\ prof' = [prof EXCEPT ![c] = FirstProfile]
          /\ cnt' = [cnt EXCEPT ![c] = 0]
      BY <1>13, <2>2 DEF ChkExhausted, Quit
    <3>6. UNCHANGED <<active, redial, dod, pidfile, ppp, sched, ghost>>
      BY <1>13 DEF ChkExhausted
    <3> QED
      BY <3>2, <3>3, <3>4, <3>5, <3>6, SMTT(30) DEF TypeOK
  <2> QED
    BY <2>1, <2>2
<1>14. CASE ChkHoldoffEnds(c)
  BY <1>14, SMTT(30) DEF ChkHoldoffEnds, TypeOK, At, Goto, Call, Quit, KeepFile
<1>15. CASE ChkEnds(c)
  BY <1>15, SMTT(30) DEF ChkEnds, TypeOK, At, Goto, Call, Quit, KeepFile
<1> QED
  BY <1>1, <1>2, <1>3, <1>4, <1>5, <1>6, <1>7, <1>8, <1>9, <1>10, <1>11, <1>12, <1>13, <1>14, <1>15 DEF Checker

\* The reconnect script keeps the state well typed.
LEMMA ReconnectType ==
  ASSUME TypeOK, Reconnecting
  PROVE  TypeOK'
<1>1. CASE RecInit
  BY <1>1, SMTT(30) DEF RecInit, TypeOK, At, Goto, Call, KeepFile
<1>2. CASE RecPppdGone
  BY <1>2, SMTT(30) DEF RecPppdGone, TypeOK, At, Goto, Call, KeepFile
<1>3. CASE RecUpdated
  BY <1>3, SMTT(30) DEF RecUpdated, TypeOK, At, Goto, Call, KeepFile
<1>4. CASE RecEnds
  BY <1>4, SMTT(30) DEF RecEnds, TypeOK, At, Goto, Call, KeepFile
<1> QED
  BY <1>1, <1>2, <1>3, <1>4 DEF Reconnecting

\* The scheduler keeps the state well typed.
LEMMA SchedType ==
  ASSUME TypeOK, SchedStep
  PROVE  TypeOK'
<1>1. CASE SchedHangup
  BY <1>1, SMTT(30) DEF SchedHangup, TypeOK, At, Goto, Call, AfterHangup
<1>2. CASE SchedNoHangup
  BY <1>2, SMTT(30) DEF SchedNoHangup, TypeOK, At, Goto, Call, AfterHangup
<1>3. CASE SchedDown
  BY <1>3, SMTT(30) DEF SchedDown, TypeOK, At, Goto, Call, AfterHangup
<1>4. CASE SchedUpdated
  BY <1>4, SMTT(30) DEF SchedUpdated, TypeOK, At, Goto, Call, AfterHangup
<1>5. CASE SchedSelect
  BY <1>5, SMTT(30) DEF SchedSelect, TypeOK, At, Goto, Call, AfterHangup
<1>6. CASE SchedDial
  BY <1>6, SMTT(30) DEF SchedDial, TypeOK, At, Goto, Call, AfterHangup
<1>7. CASE SchedDialled
  BY <1>7, SMTT(30) DEF SchedDialled, TypeOK, At, Goto, Call, AfterHangup
<1> QED
  BY <1>1, <1>2, <1>3, <1>4, <1>5, <1>6, <1>7 DEF SchedStep

\* Red is type correct: no interleaving writes an attempt count of MAXRETRIES
\* or more to keepconnected, or leaves a script outside its program.
THEOREM TypeCorrect == Spec => []TypeOK
<1>1. Init => TypeOK
  <2> SUFFICES ASSUME Init PROVE TypeOK
    OBVIOUS
  <2>1. active \in BOOLEAN /\ redial \in BOOLEAN /\ dod \in BOOLEAN /\ overlap \in BOOLEAN
    BY DEF Init
  <2>2. /\ killed \in [Sessions -> BOOLEAN]
        /\ waited \in [Checkers -> BOOLEAN]
    BY Zenon DEF Init
  <2> QED
    BY <2>1, <2>2, SMTT(30) DEF Init, TypeOK
<1>2. TypeOK /\ [Next]_vars => TypeOK'
  <2> SUFFICES ASSUME TypeOK, [Next]_vars PROVE TypeOK'
    OBVIOUS
  <2>1. CASE ScriptStep
    <3>1. CASE UpdateEnds
      BY <3>1, SMTT(30) DEF UpdateEnds, TypeOK
    <3> QED
      BY <2>1, <3>1, StartType, StopType, PppdType, CheckerType, ReconnectType,
         SchedType DEF ScriptStep
  <2>2. ASSUME NEW u \in Users, UserStart(u) \/ UserStop(u) PROVE TypeOK'
    <3>1. overlap' \in BOOLEAN
      BY <2>2 DEF UserStart, UserStop, Command
    <3> QED
      BY <2>2, <3>1, SMTT(30) DEF UserStart, UserStop, Command, TypeOK, At, Call
  <2>3. ASSUME NEW j \in SchedJobs, SchedBegin(j) PROVE TypeOK'
    <3>1. overlap' \in BOOLEAN
      BY <2>3 DEF SchedBegin, Command
    <3> QED
      BY <2>3, <3>1, SMTT(30) DEF SchedBegin, Command, TypeOK, At, Goto
  <2>4. CASE PowerFail
    <3>1. /\ active' \in BOOLEAN
          /\ dod' \in BOOLEAN
          /\ killed' \in [Sessions -> BOOLEAN]
      BY <2>4, Zenon DEF PowerFail
    <3> QED
      BY <2>4, <3>1, SMTT(30) DEF PowerFail, TypeOK
  <2>5. CASE UNCHANGED vars
    BY <2>5 DEF vars, TypeOK
  <2> QED
    BY <2>1, <2>2, <2>3, <2>4, <2>5 DEF Next
<1> QED
  BY <1>1, <1>2, PTL DEF Spec
-----------------------------------------------------------------------------
\* No script but rc.red, ip-up and ip-down touches active, and only rc.red
\* start and pppd itself change the life of a pppd.
LEMMA Bystanders ==
  ASSUME \/ \E c \in Checkers : Checker(c)
         \/ Reconnecting
         \/ SchedStep
         \/ UpdateEnds
         \/ \E u \in Users : UserStart(u) \/ UserStop(u)
         \/ \E j \in SchedJobs : SchedBegin(j)
         \/ UNCHANGED vars
  PROVE  UNCHANGED <<active, sess>>
<1>1. ASSUME NEW c \in Checkers, Checker(c) PROVE UNCHANGED <<active, sess>>
  BY <1>1 DEF Checker, ChkInit, ChkSeesPppd, ChkNoPppd, ChkNoSync, ChkResync,
     ChkDisconnected, ChkConnected, ChkPoll, ChkTimeout, ChkFail, ChkPppdGone,
     ChkRetry, ChkExhausted, ChkHoldoffEnds, ChkEnds
<1>2. ASSUME Reconnecting PROVE UNCHANGED <<active, sess>>
  BY <1>2 DEF Reconnecting, RecInit, RecPppdGone, RecUpdated, RecEnds
<1>3. ASSUME SchedStep PROVE UNCHANGED <<active, sess>>
  BY <1>3 DEF SchedStep, SchedHangup, SchedNoHangup, SchedDown, SchedUpdated,
     SchedSelect, SchedDial, SchedDialled
<1>4. ASSUME UpdateEnds \/ UNCHANGED vars PROVE UNCHANGED <<active, sess>>
  BY <1>4 DEF UpdateEnds, vars
<1>5. ASSUME NEW u \in Users, UserStart(u) \/ UserStop(u)
      PROVE  UNCHANGED <<active, sess>>
  BY <1>5 DEF UserStart, UserStop
<1>6. ASSUME NEW j \in SchedJobs, SchedBegin(j) PROVE UNCHANGED <<active, sess>>
  BY <1>6 DEF SchedBegin
<1> QED
  BY <1>1, <1>2, <1>3, <1>4, <1>5, <1>6

\* RED is never shown active without a pppd behind it, however many rc.red
\* start and stop, checkers and pppd processes run into each other, and
\* across power failures.
THEOREM ActiveIsJustified == Spec => []ActiveHasSession
<1>1. Init => ActiveHasSession
  BY DEF Init, ActiveHasSession
<1>2. TypeOK /\ ActiveHasSession /\ [Next]_vars => ActiveHasSession'
  <2> SUFFICES ASSUME TypeOK, ActiveHasSession, [Next]_vars
               PROVE  ActiveHasSession'
    OBVIOUS
  <2>1. CASE UNCHANGED <<active, sess>>
    BY <2>1 DEF ActiveHasSession
  <2>2. ASSUME NEW p \in Procs, RedStart(p) PROVE ActiveHasSession'
    <3>1. CASE StartDial(p)
      BY <3>1 DEF StartDial, ActiveHasSession, TypeOK
    <3>2. CASE ~StartDial(p)
      BY <2>1, <2>2, <3>2 DEF RedStart, StartGuard, StartSpawn, StartNoSync, StartUpdated
    <3> QED
      BY <3>1, <3>2
  <2>3. ASSUME NEW p \in Procs, RedStop(p) PROVE ActiveHasSession'
    BY <2>3 DEF RedStop, StopFiles, StopTest, StopKeep, StopRedial, StopKill,
       ActiveHasSession
  <2>4. ASSUME NEW s \in Sessions, Pppd(s) PROVE ActiveHasSession'
    <3>1. CASE IpUp(s)
      BY <3>1 DEF IpUp, ActiveHasSession, TypeOK
    <3>2. CASE IpDown(s)
      BY <3>2 DEF IpDown, ActiveHasSession
    <3>3. CASE LinkDown(s)
      BY <3>3 DEF LinkDown, ActiveHasSession, TypeOK
    <3>4. CASE \/ Demand(s) \/ LinkUp(s) \/ LinkFail(s)
              \/ IpDownKeep(s) \/ IpDownReconnect(s) \/ Exit(s)
      <4>1. /\ active' = active
            /\ sess[s] \notin {"up", "ipdown"}
            /\ \A t \in Sessions \ {s} : sess'[t] = sess[t]
        BY <3>4 DEF Demand, LinkUp, LinkFail, IpDownKeep, IpDownReconnect, Leaves, Exit, TypeOK
      <4> QED
        BY <4>1 DEF ActiveHasSession
    <3> QED
      BY <2>4, <3>1, <3>2, <3>3, <3>4 DEF Pppd
  <2>5. CASE PowerFail
    BY <2>5 DEF PowerFail, ActiveHasSession
  <2> QED
    BY <2>1, <2>2, <2>3, <2>4, <2>5, Bystanders DEF Next, ScriptStep
<1> QED
  BY <1>1, <1>2, TypeCorrect, PTL DEF Spec
-----------------------------------------------------------------------------
\* The ip-down of a pppd runs rc.red only where it waits for it to end.
Hangup == \A s \in Sessions : red[s] # "none" => sess[s] = "reconnect"

\* No script but that ip-down touches either.
LEMMA HangupKept ==
  ASSUME TypeOK, Hangup, [Next]_vars
  PROVE  Hangup'
<1> USE DEF TypeOK, Hangup
<1>1. ASSUME NEW p \in Procs, RedStart(p) PROVE Hangup'
  BY <1>1 DEF RedStart, StartGuard, StartSpawn, StartNoSync, StartDial, StartUpdated
<1>2. ASSUME NEW p \in Procs, RedStop(p) PROVE Hangup'
  BY <1>2 DEF RedStop, StopFiles, StopTest, StopKeep, StopRedial, StopKill
<1>3. ASSUME NEW s \in Sessions, Pppd(s) PROVE Hangup'
  BY <1>3 DEF Pppd, Demand, LinkUp, LinkFail, IpUp, LinkDown, IpDown, IpDownKeep,
     IpDownReconnect, Exit
<1>4. ASSUME NEW d \in Checkers, Checker(d) PROVE Hangup'
  BY <1>4 DEF Checker, ChkInit, ChkSeesPppd, ChkNoPppd, ChkNoSync, ChkResync,
     ChkDisconnected, ChkConnected, ChkPoll, ChkTimeout, ChkFail, ChkPppdGone,
     ChkRetry, ChkExhausted, ChkHoldoffEnds, ChkEnds, At, Goto, Call, Quit
<1>5. CASE Reconnecting
  BY <1>5 DEF Reconnecting, RecInit, RecPppdGone, RecUpdated, RecEnds, At, Goto, Call
<1>6. CASE SchedStep
  BY <1>6 DEF SchedStep, SchedHangup, SchedNoHangup, SchedDown, SchedUpdated,
     SchedSelect, SchedDial, SchedDialled, At, Goto, Call
<1>7. CASE UpdateEnds \/ UNCHANGED vars
  BY <1>7 DEF UpdateEnds, vars
<1>8. CASE PowerFail
  BY <1>8 DEF PowerFail
<1>9. ASSUME NEW u \in Users, UserStart(u) \/ UserStop(u) PROVE Hangup'
  BY <1>9 DEF UserStart, UserStop, Call
<1>10. ASSUME NEW j \in SchedJobs, SchedBegin(j) PROVE Hangup'
  BY <1>10 DEF SchedBegin, Goto
<1> QED
  BY <1>1, <1>2, <1>3, <1>4, <1>5, <1>6, <1>7, <1>8, <1>9, <1>10 DEF Next, ScriptStep

\* Nobody but p itself, inside rc.red stop, moves a process that holds redial.
LEMMA HolderStays ==
  ASSUME TypeOK, Hangup, NEW p \in Procs, Holds(p), ScriptStep, ~RedStop(p)
  PROVE  Holds(p)'
<1> USE DEF TypeOK, Holds, At, Goto, Call, Quit
<1>1. ASSUME NEW q \in Procs, RedStart(q) PROVE Holds(p)'
  BY <1>1 DEF RedStart, StartGuard, StartSpawn, StartNoSync, StartDial, StartUpdated
<1>2. ASSUME NEW q \in Procs, RedStop(q) PROVE Holds(p)'
  BY <1>2 DEF RedStop, StopFiles, StopTest, StopKeep, StopRedial, StopKill
<1>3. ASSUME NEW s \in Sessions, Pppd(s) PROVE Holds(p)'
  <2>1. CASE IpDownKeep(s)
    BY <2>1 DEF IpDownKeep, Hangup
  <2>2. CASE IpDownReconnect(s)
    BY <2>2 DEF IpDownReconnect
  <2> QED
    BY <1>3, <2>1, <2>2 DEF Pppd, Demand, LinkUp, LinkFail, IpUp, LinkDown, IpDown, Exit
<1>4. ASSUME NEW d \in Checkers, Checker(d) PROVE Holds(p)'
  BY <1>4 DEF Checker, ChkInit, ChkSeesPppd, ChkNoPppd, ChkNoSync, ChkResync,
     ChkDisconnected, ChkConnected, ChkPoll, ChkTimeout, ChkFail, ChkPppdGone,
     ChkRetry, ChkExhausted, ChkHoldoffEnds, ChkEnds
<1>5. CASE Reconnecting
  BY <1>5 DEF Reconnecting, RecInit, RecPppdGone, RecUpdated, RecEnds
<1>6. CASE SchedStep
  BY <1>6 DEF SchedStep, SchedHangup, SchedNoHangup, SchedDown, SchedUpdated,
     SchedSelect, SchedDial, SchedDialled
<1>7. CASE UpdateEnds
  BY <1>7 DEF UpdateEnds
<1> QED
  BY <1>1, <1>2, <1>3, <1>4, <1>5, <1>6, <1>7 DEF ScriptStep

\* Only a checker that gives a dial up, and the ip-down of an ipppd, create
\* redial.
LEMMA RedialMade ==
  ASSUME ScriptStep, redial', ~redial
  PROVE  (\E c \in Checkers : ChkFail(c)) \/ (\E s \in Sessions : IpDownKeep(s))
<1>1. ASSUME NEW p \in Procs, RedStart(p) \/ RedStop(p) PROVE FALSE
  BY <1>1 DEF RedStart, StartGuard, StartSpawn, StartNoSync, StartDial, StartUpdated,
     RedStop, StopFiles, StopTest, StopKeep, StopRedial, StopKill
<1>2. ASSUME NEW s \in Sessions, Pppd(s), ~IpDownKeep(s) PROVE FALSE
  BY <1>2 DEF Pppd, Demand, LinkUp, LinkFail, IpUp, LinkDown, IpDown,
     IpDownReconnect, Exit
<1>3. ASSUME NEW c \in Checkers, Checker(c), ~ChkFail(c) PROVE FALSE
  BY <1>3 DEF Checker, ChkInit, ChkSeesPppd, ChkNoPppd, ChkNoSync, ChkResync,
     ChkDisconnected, ChkConnected, ChkPoll, ChkTimeout, ChkPppdGone,
     ChkRetry, ChkExhausted, ChkHoldoffEnds, ChkEnds
<1>4. ASSUME Reconnecting \/ SchedStep \/ UpdateEnds PROVE FALSE
  BY <1>4 DEF Reconnecting, RecInit, RecPppdGone, RecUpdated, RecEnds, UpdateEnds,
     SchedStep, SchedHangup, SchedNoHangup, SchedDown, SchedUpdated, SchedSelect,
     SchedDial, SchedDialled
<1> QED
  BY <1>1, <1>2, <1>3, <1>4 DEF ScriptStep

\* Between power failures redial belongs to a script on its way through the
\* rc.red stop it was left for; another's rc.red stop finds it only in that
\* window, on ISDN lines too, where ip-down leaves it as the checker does.
THEOREM RedialIsHeld ==
  ASSUME MaxBoots = 0
  PROVE  Spec => []RedialHeld
<1>1. Init => RedialHeld /\ Hangup
  BY DEF Init, RedialHeld, Hangup
<1>3. TypeOK /\ Hangup /\ [Next]_vars => Hangup'
  BY HangupKept
<1>2. TypeOK /\ Hangup /\ RedialHeld /\ [Next]_vars => RedialHeld'
  <2>a. RedialHeld' <=> (redial' => \E p \in Procs : Holds(p)')
    BY Zenon DEF RedialHeld, Holds
  <2> SUFFICES ASSUME TypeOK, Hangup, RedialHeld, [Next]_vars, redial'
               PROVE  \E p \in Procs : Holds(p)'
    BY <2>a
  <2>1. CASE ScriptStep /\ redial
    <3>1. PICK p \in Procs : Holds(p)
      BY <2>1 DEF RedialHeld
    <3>2. CASE RedStop(p)
      BY <3>1, <3>2 DEF RedStop, StopFiles, StopTest, StopKeep, StopRedial, StopKill,
         Holds, TypeOK
    <3> QED
      BY <2>1, <3>1, <3>2, HolderStays
  <2>2. CASE ScriptStep /\ ~redial
    <3>1. ASSUME NEW c \in Checkers, ChkFail(c) PROVE Holds(c)'
      BY <3>1 DEF ChkFail, Holds, TypeOK
    <3>2. ASSUME NEW s \in Sessions, IpDownKeep(s) PROVE Holds(s)'
      BY <2>2, <3>2 DEF IpDownKeep, Holds, TypeOK
    <3> QED
      BY <2>2, <3>1, <3>2, RedialMade
  <2>3. ASSUME NEW u \in Users, UserStart(u) \/ UserStop(u)
        PROVE  \E p \in Procs : Holds(p)'
    <3>1. redial
      BY <2>3 DEF UserStart, UserStop
    <3>2. PICK p \in Procs : Holds(p)
      BY <3>1 DEF RedialHeld
    <3>3. p # u
      BY <3>2 DEF Holds
    <3> QED
      BY <2>3, <3>2, <3>3 DEF UserStart, UserStop, Call, Holds, TypeOK
  <2>4. ASSUME NEW j \in SchedJobs, SchedBegin(j) PROVE \E p \in Procs : Holds(p)'
    BY <2>4 DEF SchedBegin, Goto, RedialHeld, Holds, TypeOK
  <2>5. ~PowerFail
    BY DEF PowerFail, TypeOK
  <2>6. CASE UNCHANGED vars
    BY <2>6 DEF vars, RedialHeld, Holds
  <2> QED
    BY <2>1, <2>2, <2>3, <2>4, <2>5, <2>6 DEF Next
<1> QED
  BY <1>1, <1>2, <1>3, TypeCorrect, PTL DEF Spec

-----------------------------------------------------------------------------
(* A manual profile: no checker and no reconnect run, and the commands of  *)
(* users and schedule are all there is.  (With the other modes a checker's *)
(* rc.red start may cross a user's, and the three theorems below fail.)    *)

\* Nothing redials.
Unchecked ==
  /\ reconnection = "manual" /\ keep = Absent
  /\ \A s \in Sessions : sess[s] # "reconnect"
  /\ \A p \in Checkers \cup Sessions \cup {Reconn} : pc[p] = "free" /\ red[p] = "none"

\* Commands that have not overlapped follow one another.
OneCommand ==
  ~overlap => \A p, q \in Users \cup {Sched} : ~At(p, "free") /\ ~At(q, "free") => p = q

\* A pppd that runs, to its last step, is the one the pid file names, and
\* there is none when rc.red start is past its guard.
Named == ~overlap => \A s \in Sessions : sess[s] # "free" => pidfile = s
Clear ==
  ~overlap => \A p \in Procs : red[p] \in {"spawn", "dial"} => \A s \in Sessions : sess[s] = "free"

\* A link that is up and not shown active is about to be killed.
Hanging ==
  ~overlap =>
    \A s \in Sessions : sess[s] = "up" /\ ~killed[s] /\ ~active =>
      \E p \in Procs : red[p] \in {"testredial", "unlinkkeep", "unlinkredial", "kill"}

\* What a step can be when no checker runs.
LEMMA UncheckedStep ==
  ASSUME TypeOK, Unchecked, Next
  PROVE  /\ \A c \in Checkers : ~Checker(c)
         /\ ~Reconnecting
         /\ \A p \in Procs : RedStart(p) \/ RedStop(p) => p \in Users \cup {Sched}
  <1>1. ASSUME NEW c \in Checkers PROVE ~Checker(c)
    BY DEF Checker, ChkInit, ChkSeesPppd, ChkNoPppd, ChkNoSync, ChkResync,
       ChkDisconnected, ChkConnected, ChkPoll, ChkTimeout, ChkFail, ChkPppdGone,
       ChkRetry, ChkExhausted, ChkHoldoffEnds, ChkEnds, Unchecked, At
  <1>2. ~Reconnecting
    BY DEF Reconnecting, RecInit, RecPppdGone, RecUpdated, RecEnds, Unchecked, At
  <1>3. ASSUME NEW p \in Procs, RedStart(p) \/ RedStop(p) PROVE red[p] # "none"
    BY <1>3 DEF RedStart, StartGuard, StartSpawn, StartNoSync, StartDial, StartUpdated,
       RedStop, StopFiles, StopTest, StopKeep, StopRedial, StopKill
  <1> QED BY <1>1, <1>2, <1>3 DEF Unchecked

\* Each script moves itself alone, and what the history records.
LEMMA RedMoves ==
  ASSUME TypeOK, Unchecked, NEW p \in Procs, RedStart(p) \/ RedStop(p)
  PROVE  /\ UNCHANGED <<pc, overlap, reconnection>> /\ (keep' = keep \/ keep' = Absent)
         /\ red[p] # "none" /\ \A q \in Procs : q # p => red'[q] = red[q]
  <1>1. UNCHANGED <<pc, overlap, reconnection>> /\ (keep' = keep \/ keep' = Absent)
    BY DEF RedStart, StartGuard, StartSpawn, StartNoSync, StartDial, StartUpdated,
       RedStop, StopFiles, StopTest, StopKeep, StopRedial, StopKill, Unchecked
  <1>2. red[p] # "none" /\ \E l : red' = [red EXCEPT ![p] = l]
    BY DEF RedStart, StartGuard, StartSpawn, StartNoSync, StartDial, StartUpdated,
       RedStop, StopFiles, StopTest, StopKeep, StopRedial, StopKill
  <1> QED BY <1>1, <1>2 DEF TypeOK

LEMMA PppdMoves ==
  ASSUME TypeOK, Unchecked, NEW s \in Sessions, Pppd(s)
  PROVE  UNCHANGED <<pc, red, overlap, reconnection, keep>>
  <1>1. CASE IpDownKeep(s)
    BY <1>1 DEF IpDownKeep, Unchecked
  <1>2. CASE IpDownReconnect(s)
    <2>1. sess[s] = "reconnect"
      BY <1>2 DEF IpDownReconnect
    <2> QED BY <2>1 DEF Unchecked
  <1> QED BY <1>1, <1>2 DEF Pppd, Demand, LinkUp, LinkFail, IpUp, LinkDown, IpDown, Exit

LEMMA SchedMoves ==
  ASSUME TypeOK, SchedStep
  PROVE  /\ UNCHANGED <<overlap, reconnection, keep, sess, killed, active, pidfile>> /\ ~At(Sched, "free")
         /\ \A q \in Procs : q # Sched => pc'[q] = pc[q] /\ red'[q] = red[q]
         /\ red'[Sched] \in {red[Sched], "start", "stop"}
  <1>1. UNCHANGED <<overlap, reconnection, keep, sess, killed, active, pidfile>>
    BY DEF SchedStep, SchedHangup, SchedNoHangup, SchedDown, SchedUpdated, SchedSelect, SchedDial,
       SchedDialled
  <1>2. ~At(Sched, "free")
    BY DEF SchedStep, SchedHangup, SchedNoHangup, SchedDown, SchedUpdated, SchedSelect, SchedDial,
       SchedDialled, At
  <1>3. \E l : pc' = [pc EXCEPT ![Sched] = l]
    BY DEF SchedStep, SchedHangup, SchedNoHangup, SchedDown, SchedUpdated, SchedSelect, SchedDial,
       SchedDialled, Goto, Call
  <1>4. red' = red \/ red' = [red EXCEPT ![Sched] = "start"] \/ red' = [red EXCEPT ![Sched] = "stop"]
    BY DEF SchedStep, SchedHangup, SchedNoHangup, SchedDown, SchedUpdated, SchedSelect, SchedDial,
       SchedDialled, Goto, Call
  <1> QED BY <1>1, <1>2, <1>3, <1>4 DEF TypeOK

\* A command: from a process that was free, recorded if another was not.
LEMMA CommandMoves ==
  ASSUME TypeOK,
         (\E u \in Users : UserStart(u) \/ UserStop(u)) \/ (\E j \in SchedJobs : SchedBegin(j))
  PROVE  /\ UNCHANGED <<reconnection, keep, sess, killed, active, pidfile>>
         /\ overlap' = (overlap \/ Busy)
         /\ \E p \in Users \cup {Sched} :
              /\ \A q \in Procs : q # p => pc'[q] = pc[q] /\ red'[q] = red[q]
              /\ red'[p] \in {"none", "start", "stop"} /\ red[p] = "none"
  <1>1. ASSUME NEW u \in Users, UserStart(u) \/ UserStop(u)
        PROVE  /\ UNCHANGED <<reconnection, keep, sess, killed, active, pidfile>>
               /\ overlap' = (overlap \/ Busy)
               /\ \A q \in Procs : q # u => pc'[q] = pc[q] /\ red'[q] = red[q]
               /\ red'[u] \in {"none", "start", "stop"} /\ red[u] = "none"
    BY <1>1 DEF UserStart, UserStop, Command, Call, At, TypeOK
  <1>2. ASSUME NEW j \in SchedJobs, SchedBegin(j)
        PROVE  /\ UNCHANGED <<reconnection, keep, sess, killed, active, pidfile>>
               /\ overlap' = (overlap \/ Busy)
               /\ \A q \in Procs : q # Sched => pc'[q] = pc[q] /\ red'[q] = red[q]
               /\ red'[Sched] \in {"none", "start", "stop"} /\ red[Sched] = "none"
    BY <1>2 DEF SchedBegin, Command, Goto, At, TypeOK
  <1> QED BY <1>1, <1>2

LEMMA UncheckedKept ==
  ASSUME TypeOK, Unchecked, [Next]_vars
  PROVE  Unchecked'
  <1>1. ASSUME NEW p \in Procs, RedStart(p) \/ RedStop(p), Next PROVE Unchecked'
    <2>1. \A s \in Sessions : sess'[s] # "reconnect"
      BY <1>1 DEF Unchecked, RedStart, StartGuard, StartSpawn, StartNoSync, StartDial,
         StartUpdated, RedStop, StopFiles, StopTest, StopKeep, StopRedial, StopKill, TypeOK
    <2>2. p \in Users \cup {Sched}
      BY <1>1, UncheckedStep
    <2> QED BY <1>1, <2>1, <2>2, RedMoves DEF Unchecked
  <1>2. ASSUME NEW s \in Sessions, Pppd(s) PROVE Unchecked'
    <2>1. \A t \in Sessions : sess'[t] # "reconnect"
      <3>1. sess' = [sess EXCEPT ![s] = sess'[s]] /\ sess'[s] # "reconnect"
        BY <1>2 DEF Pppd, Demand, LinkUp, LinkFail, IpUp, LinkDown, IpDown, IpDownKeep, Leaves,
           IpDownReconnect, Exit, Unchecked, TypeOK
      <3> QED BY <3>1 DEF Unchecked, TypeOK
    <2> QED BY <1>2, <2>1, PppdMoves DEF Unchecked
  <1>3. CASE SchedStep
    BY <1>3, SchedMoves DEF Unchecked
  <1>4. CASE (\E u \in Users : UserStart(u) \/ UserStop(u)) \/ (\E j \in SchedJobs : SchedBegin(j))
    BY <1>4, CommandMoves DEF Unchecked
  <1>5. CASE PowerFail
    BY <1>5 DEF PowerFail, Unchecked
  <1>6. CASE UpdateEnds \/ UNCHANGED vars
    BY <1>6 DEF UpdateEnds, vars, Unchecked
  <1> QED BY <1>1, <1>2, <1>3, <1>4, <1>5, <1>6, UncheckedStep DEF Next, ScriptStep

LEMMA OneCommandKept ==
  ASSUME TypeOK, Unchecked, OneCommand, [Next]_vars
  PROVE  OneCommand'
  <1>1. ASSUME NEW p \in Procs, RedStart(p) \/ RedStop(p), Next PROVE OneCommand'
    <2>1. ~At(p, "free") /\ p \in Users \cup {Sched}
      BY <1>1, RedMoves, UncheckedStep DEF At
    <2>2. \A q \in Procs : q # p => (At(q, "free")' <=> At(q, "free"))
      BY <1>1, RedMoves DEF At
    <2>3. overlap' = overlap
      BY <1>1, RedMoves
    <2> QED BY <2>1, <2>2, <2>3 DEF OneCommand
  <1>2. ASSUME NEW s \in Sessions, Pppd(s) PROVE OneCommand'
    BY <1>2, PppdMoves DEF OneCommand, At
  <1>3. CASE SchedStep
    <2>1. \A q \in Procs : q # Sched => (At(q, "free")' <=> At(q, "free"))
      BY <1>3, SchedMoves DEF At
    <2> QED BY <1>3, <2>1, SchedMoves DEF OneCommand
  <1>4. CASE (\E u \in Users : UserStart(u) \/ UserStop(u)) \/ (\E j \in SchedJobs : SchedBegin(j))
    <2>1. PICK p \in Users \cup {Sched} :
            \A q \in Procs : q # p => pc'[q] = pc[q] /\ red'[q] = red[q]
      BY <1>4, CommandMoves
    <2>2. \A q \in Procs : q # p => (At(q, "free")' <=> At(q, "free"))
      BY <2>1 DEF At
    <2>3. overlap' = (overlap \/ Busy)
      BY <1>4, CommandMoves
    <2> QED BY <2>2, <2>3 DEF OneCommand, Busy
  <1>5. CASE PowerFail
    BY <1>5 DEF PowerFail, OneCommand, At
  <1>6. CASE UpdateEnds \/ UNCHANGED vars
    BY <1>6 DEF UpdateEnds, vars, OneCommand, At
  <1> QED BY <1>1, <1>2, <1>3, <1>4, <1>5, <1>6, UncheckedStep DEF Next, ScriptStep

\* Who is inside rc.red is there alone.
LEMMA AloneInRed ==
  ASSUME TypeOK, Unchecked, OneCommand, ~overlap, NEW p \in Procs, red[p] # "none"
  PROVE  \A q \in Procs : q # p => red[q] = "none"
  BY DEF Unchecked, OneCommand, At

LEMMA NamedKept ==
  ASSUME TypeOK, Unchecked, OneCommand, Named, Clear, [Next]_vars
  PROVE  Named' /\ Clear'
  <1>1. ASSUME NEW p \in Procs, RedStart(p) \/ RedStop(p) PROVE Named' /\ Clear'
    <2>0. overlap' = overlap /\ red[p] # "none" /\ \A q \in Procs : q # p => red'[q] = red[q]
      BY <1>1, RedMoves
    <2>1. SUFFICES ASSUME ~overlap PROVE Named' /\ Clear'
      BY <2>0 DEF Named, Clear
    <2>2. \A q \in Procs : q # p => red'[q] = "none"
      BY <2>0, <2>1, AloneInRed
    <2>3. CASE StartGuard(p)
      BY <2>0, <2>1, <2>2, <2>3 DEF StartGuard, Named, Clear, TypeOK
    <2>4. CASE StartSpawn(p)
      BY <2>0, <2>1, <2>2, <2>4 DEF StartSpawn, Named, Clear, TypeOK
    <2>5. CASE StartDial(p)
      <3>1. \A s \in Sessions : sess[s] = "free"
        BY <2>1, <2>5 DEF Clear, StartDial
      <3>2. PICK s \in Sessions : (\E l : sess' = [sess EXCEPT ![s] = l]) /\ pidfile' = s
        BY <2>5 DEF StartDial
      <3>3. red'[p] \in {"updating", "none"}
        BY <2>5 DEF StartDial, TypeOK
      <3> QED BY <2>0, <2>2, <3>1, <3>2, <3>3 DEF Named, Clear, TypeOK
    <2>6. CASE StartNoSync(p) \/ StartUpdated(p) \/ RedStop(p)
      <3>1. UNCHANGED <<sess, pidfile>> /\ red'[p] \notin {"spawn", "dial"}
        BY <2>6 DEF StartNoSync, StartUpdated, RedStop, StopFiles, StopTest, StopKeep, StopRedial, StopKill, TypeOK
      <3> QED BY <2>0, <2>1, <2>2, <3>1 DEF Named, Clear
    <2> QED BY <1>1, <2>3, <2>4, <2>5, <2>6 DEF RedStart
  <1>2. ASSUME NEW s \in Sessions, Pppd(s) PROVE Named' /\ Clear'
    <2>1. /\ UNCHANGED <<red, overlap>>
          /\ sess[s] # "free" /\ \A t \in Sessions : t # s => sess'[t] = sess[t]
          /\ pidfile' = pidfile \/ sess'[s] = "free"
      <3>1. UNCHANGED <<red, overlap>>
        BY <1>2, PppdMoves
      <3>2. sess[s] # "free" /\ \A t \in Sessions : t # s => sess'[t] = sess[t]
        BY <1>2 DEF Pppd, Demand, LinkUp, LinkFail, IpUp, LinkDown, IpDown, IpDownKeep, Leaves, IpDownReconnect, Exit, TypeOK
      <3>3. pidfile' = pidfile \/ sess'[s] = "free"
        BY <1>2 DEF Pppd, Demand, LinkUp, LinkFail, IpUp, LinkDown, IpDown, IpDownKeep, Leaves, IpDownReconnect, Exit, TypeOK
      <3> QED BY <3>1, <3>2, <3>3
    <2> QED BY <2>1 DEF Named, Clear
  <1>3. CASE SchedStep
    <2>1. \A q \in Procs : red'[q] \in {"spawn", "dial"} => red[q] = red'[q]
      BY <1>3, SchedMoves
    <2> QED BY <1>3, <2>1, SchedMoves DEF Named, Clear
  <1>4. CASE (\E u \in Users : UserStart(u) \/ UserStop(u)) \/ (\E j \in SchedJobs : SchedBegin(j))
    <2>1. \A q \in Procs : red'[q] \in {"spawn", "dial"} => red[q] = red'[q]
      BY <1>4, CommandMoves
    <2> QED BY <1>4, <2>1, CommandMoves DEF Named, Clear
  <1>5. CASE PowerFail
    BY <1>5 DEF PowerFail, Named, Clear
  <1>6. CASE UpdateEnds \/ UNCHANGED vars
    BY <1>6 DEF UpdateEnds, vars, Named, Clear
  <1> QED BY <1>1, <1>2, <1>3, <1>4, <1>5, <1>6, UncheckedStep DEF Next, ScriptStep

LEMMA HangingKept ==
  ASSUME TypeOK, Unchecked, OneCommand, Named, Clear, Hanging, [Next]_vars
  PROVE  Hanging'
  <1> DEFINE Late == {"testredial", "unlinkkeep", "unlinkredial", "kill"}
  <1>1. ASSUME NEW p \in Procs, RedStart(p) \/ RedStop(p) PROVE Hanging'
    <2>0. overlap' = overlap /\ red[p] # "none" /\ \A q \in Procs : q # p => red'[q] = red[q]
      BY <1>1, RedMoves
    <2>1. SUFFICES ASSUME ~overlap, NEW s \in Sessions, sess'[s] = "up", ~killed'[s], ~active'
                   PROVE  red'[p] \in Late
      BY <2>0 DEF Hanging
    <2>2. \A q \in Procs : q # p => red[q] = "none"
      BY <2>0, <2>1, AloneInRed
    <2>3. sess[s] = "up" /\ ~killed[s]
      <3>1. sess'[s] = "up" => sess[s] = "up"
        BY <1>1 DEF RedStart, StartGuard, StartSpawn, StartNoSync, StartDial, StartUpdated,
           RedStop, StopFiles, StopTest, StopKeep, StopRedial, StopKill, TypeOK
      <3>2. killed[s] => killed'[s]
        BY <1>1 DEF RedStart, StartGuard, StartSpawn, StartNoSync, StartDial, StartUpdated,
           RedStop, StopFiles, StopTest, StopKeep, StopRedial, StopKill, TypeOK
      <3> QED BY <2>1, <3>1, <3>2
    <2>4. CASE StopFiles(p)
      BY <2>4 DEF StopFiles, TypeOK
    <2>5. CASE ~StopFiles(p)
      <3>1. ~active
        BY <1>1, <2>1, <2>5 DEF RedStart, StartGuard, StartSpawn, StartNoSync, StartDial, StartUpdated,
           RedStop, StopTest, StopKeep, StopRedial, StopKill
      <3>2. red[p] \in Late
        BY <2>1, <2>2, <2>3, <3>1 DEF Hanging
      <3>3. ~StopKill(p)
        BY <2>1, <2>3 DEF StopKill, Named
      <3> QED BY <1>1, <2>5, <3>2, <3>3 DEF RedStart, StartGuard, StartSpawn, StartNoSync, StartDial,
              StartUpdated, RedStop, StopTest, StopKeep, StopRedial, TypeOK
    <2> QED BY <2>4, <2>5
  <1>2. ASSUME NEW s \in Sessions, Pppd(s) PROVE Hanging'
    <2>1. UNCHANGED <<red, overlap>>
      BY <1>2, PppdMoves
    <2>2. SUFFICES ASSUME ~overlap, NEW t \in Sessions, sess'[t] = "up", ~killed'[t], ~active'
                   PROVE  sess[t] = "up" /\ ~killed[t] /\ ~active
      BY <2>1 DEF Hanging
    <2>3. sess[s] # "free" /\ \A r \in Sessions : r # s => sess'[r] = sess[r]
      BY <1>2 DEF Pppd, Demand, LinkUp, LinkFail, IpUp, LinkDown, IpDown, IpDownKeep, Leaves, IpDownReconnect, Exit, TypeOK
    <2>4. t = s
      BY <2>2, <2>3 DEF Named
    <2> QED BY <1>2, <2>2, <2>4 DEF Pppd, Demand, LinkUp, LinkFail, IpUp, LinkDown, IpDown, IpDownKeep, Leaves,
            IpDownReconnect, Exit, TypeOK
  <1>3. ASSUME UNCHANGED <<sess, killed, active>>, overlap => overlap',
               \A q \in Procs : red[q] \in Late => red'[q] = red[q]
        PROVE  Hanging'
    BY <1>3 DEF Hanging
  <1>4. CASE SchedStep
    <2>1. red[Sched] = "none"
      BY <1>4 DEF SchedStep, SchedHangup, SchedNoHangup, SchedDown, SchedUpdated, SchedSelect, SchedDial,
       SchedDialled, At
    <2> QED BY <1>3, <1>4, <2>1, SchedMoves
  <1>5. CASE (\E u \in Users : UserStart(u) \/ UserStop(u)) \/ (\E j \in SchedJobs : SchedBegin(j))
    BY <1>3, <1>5, CommandMoves
  <1>6. CASE PowerFail
    BY <1>6 DEF PowerFail, Hanging
  <1>7. CASE UpdateEnds \/ UNCHANGED vars
    BY <1>3, <1>7 DEF UpdateEnds, vars
  <1> QED BY <1>1, <1>2, <1>4, <1>5, <1>6, <1>7, UncheckedStep DEF Next, ScriptStep

\* The invariants of a manual profile hold in every reachable state.
LEMMA ManualInv ==
  ASSUME Modes = {"manual"}
  PROVE  Spec => [](Named /\ Clear /\ Hanging)
  <1>1. Init => Unchecked /\ OneCommand /\ Named /\ Clear /\ Hanging
    BY DEF Init, Unchecked, OneCommand, Named, Clear, Hanging, At
  <1>2. TypeOK /\ Unchecked /\ OneCommand /\ Named /\ Clear /\ Hanging /\ [Next]_vars
          => Unchecked' /\ OneCommand' /\ Named' /\ Clear' /\ Hanging'
    BY UncheckedKept, OneCommandKept, NamedKept, HangingKept
  <1> QED BY <1>1, <1>2, TypeCorrect, PTL DEF Spec

\* With a manual profile rc.red start never adds a pppd to one that runs, for
\* any users and schedule whose commands follow one another, and across power
\* failures: the guard's look at the pid file is enough, for a pppd that is
\* about to exit too.
THEOREM OneSession ==
  ASSUME Modes = {"manual"}
  PROVE  Spec => []SingleSession
  <1>1. Named => SingleSession
    BY DEF Named, SingleSession
  <1> QED BY <1>1, ManualInv, PTL

\* With a manual profile every pppd can be hung up: the pid file rc.red stop
\* looks at names it, however rc.red stop, ip-down and pppd's exit interleave.
THEOREM NoneOrphaned ==
  ASSUME Modes = {"manual"}
  PROVE  Spec => []NoOrphan
  <1>1. Named => NoOrphan
    BY DEF Named, NoOrphan
  <1> QED BY <1>1, ManualInv, PTL

\* With a manual profile a link that is up and that nobody is hanging up is
\* shown active: no rc.red stop that removes the file leaves the pppd alive.
THEOREM UpIsShown ==
  ASSUME Modes = {"manual"}
  PROVE  Spec => []UpIsActive
  <1>1. Hanging => UpIsActive
    BY DEF Hanging, UpIsActive
  <1> QED BY <1>1, ManualInv, PTL

\* With a manual profile nothing dials once a hangup has run and until the next
\* command: only rc.red start runs pppd, and only a command runs that.
THEOREM NothingDials ==
  ASSUME Modes = {"manual"}
  PROVE  Spec => DisconnectIsFinal
  <1>1. Init => Unchecked
    BY DEF Init, Unchecked, At
  <1>2. TypeOK /\ Unchecked /\ [Next]_vars => Unchecked'
    BY UncheckedKept
  <1>3. TypeOK /\ Unchecked /\ [Next]_vars => [~(Disconnected /\ Dials)]_vars
    <2> SUFFICES ASSUME TypeOK, Unchecked, Next, Disconnected, Dials PROVE FALSE
      OBVIOUS
    <2>1. PICK s \in Sessions : sess[s] = "free" /\ sess'[s] # "free"
      BY DEF Dials
    <2>2. \A p \in Procs : ~(RedStart(p) \/ RedStop(p))
      BY UncheckedStep, RedMoves DEF Disconnected
    <2>3. ~\E t \in Sessions : Pppd(t)
      BY <2>1 DEF Pppd, Demand, LinkUp, LinkFail, IpUp, LinkDown, IpDown, IpDownKeep, Leaves, IpDownReconnect, Exit, TypeOK
    <2>4. ~PowerFail
      BY <2>1 DEF PowerFail
    <2>5. (\E u \in Users : UserStart(u) \/ UserStop(u)) \/ (\E j \in SchedJobs : SchedBegin(j)) => sess' = sess
      BY CommandMoves
    <2>6. UpdateEnds => sess' = sess
      BY DEF UpdateEnds
    <2>7. SchedStep => sess' = sess
      BY SchedMoves
    <2> QED BY <2>1, <2>2, <2>3, <2>4, <2>5, <2>6, <2>7, UncheckedStep DEF Next, ScriptStep
  <1> QED BY <1>1, <1>2, <1>3, TypeCorrect, PTL DEF Spec, DisconnectIsFinal
=============================================================================
