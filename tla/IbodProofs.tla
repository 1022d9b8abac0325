----------------------------- MODULE IbodProofs -----------------------------
(***************************************************************************)
(* Theorems about Ibod: for every configuration, tick length, line speed,  *)
(* number of channels and word size that can hold a measurement.           *)
(*                                                                         *)
(* RateIsCarried is not inductive: it needs Counted, which says how the    *)
(* bytes not measured yet relate to the time not measured yet.  StaysUp    *)
(* needs TimerBehind, which relates the whole seconds the code compares to *)
(* the ticks that have really passed.  NoFault needs Timed: a sleep is     *)
(* not cut short.                                                          *)
(***************************************************************************)
EXTENDS Ibod, TLAPS

USE DEF Unknown

\* The assumptions one by one.
LEMMA Constants ==
  /\ Second \in Nat \ {0} /\ Line \in Nat \ {0} /\ MaxDelay \in Nat \ {0}
  /\ MaxChannels \in Nat \ {0} /\ MaxLoss \in Nat /\ MaxUp \in Nat /\ MaxEvents \in Nat
  /\ Word \in Nat /\ Line * MaxDelay * Second < Word
  /\ \A l \in Loads : l \in Nat /\ l <= Line
  /\ \A c \in Configs : /\ c.enable \in BOOLEAN /\ c.stayup \in BOOLEAN
                         /\ c.interval \in Nat /\ c.filter \in Nat /\ c.limit \in Nat
                         /\ c.stayup_time \in Nat /\ c.stayup_time <= MaxUp
                         /\ Line * Second * c.filter < Word
  BY IbodAssumption

-----------------------------------------------------------------------------
(* Arithmetic.                                                             *)

\* A quotient is at most y when the dividend is at most y times the divisor.
LEMMA QuotientBound ==
  ASSUME NEW a \in Nat, NEW b \in Nat \ {0}, NEW y \in Nat, a <= y * b
  PROVE  a \div b \in Nat /\ a \div b <= y
  OBVIOUS

\* The average of two values is at most the larger one.
LEMMA AverageBound ==
  ASSUME NEW r \in Nat, NEW new \in Nat, NEW f \in Nat \ {0}, NEW y \in Nat,
         r <= y, new <= y, y * f < Word
  PROVE  Average(r, new, f) \in Nat /\ Average(r, new, f) <= y
  <1>1. r * (f - 1) \in Nat /\ r * (f - 1) <= y * (f - 1)
    OBVIOUS
  <1>2. y * (f - 1) + y = y * f
    OBVIOUS
  <1>3. r * (f - 1) + new \in Nat /\ r * (f - 1) + new <= y * f
    BY <1>1, <1>2
  <1>4. Unsigned(r * (f - 1) + new) = r * (f - 1) + new
    BY <1>3, Constants DEF Unsigned
  <1> QED BY <1>3, <1>4, QuotientBound DEF Average

-----------------------------------------------------------------------------
(* Types.                                                                  *)

DaemonOK ==
  /\ cf \in Configs
  /\ pc \in {"sleep", "plain", "filter", "decide", "exit", "fault"}
  /\ nap \in 0 .. Second - 1
  /\ channels_last \in {Unknown} \cup (0 .. MaxChannels)
  /\ channels_now \in 0 .. MaxChannels
  /\ ms_delta \in -MaxDelay .. MaxDelay
  /\ rate \in [Dirs -> Nat]
ClockOK ==
  /\ ms \in -MaxDelay .. MaxDelay
  /\ upsecs \in 0 .. MaxUp + 1
  /\ phase \in 0 .. Second - 1
  /\ upticks \in 0 .. Far
KernelOK == channels \in 0 .. MaxChannels /\ load \in [Dirs -> Loads]
PastOK   == lost \in BOOLEAN /\ swapped \in BOOLEAN
BoundsOK == {hups, steps, dials} \subseteq Nat /\ hups + steps + dials <= MaxEvents

\* The groups make up the type invariant, before and after a step.
LEMMA Groups ==
  /\ TypeOK <=> DaemonOK /\ grown \in [Dirs -> Int] /\ ClockOK /\ KernelOK /\ PastOK /\ BoundsOK
  /\ TypeOK' <=> DaemonOK' /\ grown' \in [Dirs -> Int] /\ ClockOK' /\ KernelOK' /\ PastOK'
                /\ BoundsOK'
  BY Zenon DEF TypeOK, DaemonOK, ClockOK, KernelOK, PastOK, BoundsOK

\* A group no variable of which changes stays well typed.
LEMMA Same ==
  ASSUME TypeOK
  PROVE  /\ UNCHANGED daemon => DaemonOK'
         /\ UNCHANGED grown => grown' \in [Dirs -> Int]
         /\ UNCHANGED clock => ClockOK'
         /\ UNCHANGED kernel => KernelOK'
         /\ UNCHANGED past => PastOK'
         /\ UNCHANGED bounds => BoundsOK'
  <1>1. UNCHANGED daemon => DaemonOK'
    BY Groups DEF DaemonOK, daemon
  <1>2. UNCHANGED clock => ClockOK'
    BY Groups DEF ClockOK, clock
  <1>3. UNCHANGED kernel => KernelOK'
    BY Groups DEF KernelOK, kernel
  <1>4. UNCHANGED past => PastOK'
    BY Groups DEF PastOK, past
  <1>5. UNCHANGED bounds => BoundsOK'
    BY Groups DEF BoundsOK, bounds
  <1>6. UNCHANGED grown => grown' \in [Dirs -> Int]
    BY Groups
  <1> QED BY <1>1, <1>2, <1>3, <1>4, <1>5, <1>6

\* usleep is told less than a second.
LEMMA NapType ==
  ASSUME NEW c \in Configs
  PROVE  setinterval(c) \in 0 .. Second - 1
  BY Constants DEF setinterval

LEMMA ZeroType == Zero \in [Dirs -> Nat] /\ Zero \in [Dirs -> Int]
  BY DEF Zero

\* A throughput is a natural number whatever the differences were.
LEMMA UnsignedType ==
  ASSUME NEW x \in Int
  PROVE  Unsigned(x) \in Nat /\ Unsigned(x) < Word
  <1>1. Word > 0
    BY Constants
  <1> QED BY <1>1, Constants DEF Unsigned

\* The divisor is not zero when the difference of the times is not.
LEMMA DivisorType ==
  ASSUME NEW m \in -MaxDelay .. MaxDelay, m # 0
  PROVE  Unsigned(m) \in Nat \ {0}
  <1>1. MaxDelay < Word
    <2>1. Line * MaxDelay >= MaxDelay /\ Line * MaxDelay \in Nat
      BY Constants
    <2>2. Line * MaxDelay * Second >= Line * MaxDelay
      BY <2>1, Constants
    <2> QED BY <2>1, <2>2, Constants
  <1>2. CASE m \in 0 .. Word - 1
    BY <1>2 DEF Unsigned
  <1>3. CASE m \notin 0 .. Word - 1
    <2>1. m < 0 /\ m > -Word
      BY <1>1, <1>3, Constants
    <2>2. m % Word = m + Word
      BY <2>1, Constants
    <2> QED BY <1>3, <2>1, <2>2, Constants DEF Unsigned
  <1> QED BY <1>2, <1>3

LEMMA PerSecondType ==
  ASSUME TypeOK, ms_delta # 0, NEW d \in Dirs
  PROVE  PerSecond(d) \in Nat
  <1>1. grown[d] \in Int
    BY DEF TypeOK
  <1>2. Unsigned(grown[d]) \in Nat
    BY <1>1, UnsignedType
  <1>3. Unsigned(grown[d]) * Second \in Int
    BY <1>2, Constants
  <1>4. Unsigned(Unsigned(grown[d]) * Second) \in Nat
    BY <1>3, UnsignedType
  <1>5. Unsigned(ms_delta) \in Nat \ {0}
    BY DivisorType DEF TypeOK
  <1>6. \A a \in Nat, b \in Nat \ {0} : a \div b \in Nat
    OBVIOUS
  <1> QED BY <1>4, <1>5, <1>6 DEF PerSecond

LEMMA AverageType ==
  ASSUME NEW r \in Nat, NEW new \in Nat, NEW f \in Nat \ {0}
  PROVE  Average(r, new, f) \in Nat
  <1>1. r * (f - 1) + new \in Int
    OBVIOUS
  <1>2. Unsigned(r * (f - 1) + new) \in Nat
    BY <1>1, UnsignedType
  <1>3. \A a \in Nat, b \in Nat \ {0} : a \div b \in Nat
    OBVIOUS
  <1> QED BY <1>2, <1>3 DEF Average

\* The loop keeps the state well typed.
LEMMA LoopType ==
  ASSUME TypeOK, Loop
  PROVE  TypeOK'
  <1> USE DEF Return
  <1>0. cf \in Configs /\ setinterval(cf) \in 0 .. Second - 1
    BY NapType DEF TypeOK
  <1>1. CASE Measure
    <2>1. lost' \in BOOLEAN /\ swapped' \in BOOLEAN
      BY <1>1, Constants, Groups DEF Measure, PastOK
    <2>2. PastOK'
      BY <2>1 DEF PastOK
    <2>3. ClockOK' /\ KernelOK' /\ BoundsOK'
      <3>1. ClockOK'
        BY <1>1, Constants, Groups DEF Measure, ClockOK
      <3> QED BY <1>1, <3>1, Same DEF Measure
    <2>4. CASE NewBase
      <3>1. DaemonOK'
        BY <1>0, <1>1, <2>4, Constants, Groups DEF Measure, DaemonOK, KernelOK
      <3>2. grown' \in [Dirs -> Int]
        BY <1>1, <2>4, ZeroType DEF Measure
      <3> QED BY <2>2, <2>3, <3>1, <3>2, Groups
    <2>5. CASE ~NewBase
      <3>1. DaemonOK'
        BY <1>0, <1>1, <2>5, Constants, Groups DEF Measure, DaemonOK, KernelOK, ClockOK
      <3>2. UNCHANGED grown
        BY <1>1, <2>5 DEF Measure
      <3> QED BY <2>2, <2>3, <3>1, <3>2, Same, Groups
    <2> QED BY <2>4, <2>5
  <1>2. CASE InfoFails
    <2>1. DaemonOK'
      BY <1>2, Groups DEF InfoFails, DaemonOK
    <2> QED BY <1>2, <2>1, Same, Groups DEF InfoFails
  <1>3. CASE Plain
    <2>1. rate' \in [Dirs -> Nat] /\ grown' \in [Dirs -> Int]
      <3>1. CASE ms_delta = 0
        BY <1>3, <3>1 DEF Plain, TypeOK
      <3>2. CASE ms_delta # 0
        BY <1>3, <3>2, PerSecondType, ZeroType DEF Plain
      <3> QED BY <3>1, <3>2
    <2>2. DaemonOK'
      BY <1>3, <2>1, Groups DEF Plain, DaemonOK
    <2> QED BY <1>3, <2>1, <2>2, Same, Groups DEF Plain
  <1>4. CASE Filter
    <2>1. rate' \in [Dirs -> Nat] /\ grown' \in [Dirs -> Int]
      <3>1. CASE ms_delta = 0 \/ cf.filter = 0
        BY <1>4, <3>1 DEF Filter, TypeOK
      <3>2. CASE ~(ms_delta = 0 \/ cf.filter = 0)
        <4>1. cf.filter \in Nat \ {0}
          BY <1>0, <3>2, Constants
        <4>2. \A d \in Dirs : rate[d] \in Nat /\ PerSecond(d) \in Nat
          BY <3>2, PerSecondType DEF TypeOK
        <4>3. \A d \in Dirs : Average(rate[d], PerSecond(d), cf.filter) \in Nat
          BY <4>1, <4>2, AverageType
        <4> QED BY <1>4, <3>2, <4>3, ZeroType DEF Filter
      <3> QED BY <3>1, <3>2
    <2>2. DaemonOK'
      BY <1>4, <2>1, Groups DEF Filter, DaemonOK
    <2> QED BY <1>4, <2>1, <2>2, Same, Groups DEF Filter
  <1>5. CASE Stay
    <2>1. DaemonOK'
      BY <1>0, <1>5, Constants, Groups DEF Stay, Decided, DaemonOK
    <2> QED BY <1>5, <2>1, Same, Groups DEF Stay, Decided
  <1>6. CASE bring_up_slave
    <2>1. channels_now' \in 0 .. MaxChannels
      BY <1>6, Constants, Groups DEF bring_up_slave, DaemonOK
    <2>2. DaemonOK'
      BY <1>0, <1>6, <2>1, Constants, Groups DEF bring_up_slave, Decided, DaemonOK
    <2>3. ClockOK'
      BY <1>6, Constants, Groups DEF bring_up_slave, ClockOK, Far
    <2>4. KernelOK'
      BY <1>6, Constants, Groups DEF bring_up_slave, KernelOK
    <2> QED BY <1>6, <2>2, <2>3, <2>4, Same, Groups DEF bring_up_slave, Decided
  <1>7. CASE bring_down_slave
    <2>1. DaemonOK'
      BY <1>0, <1>7, Constants, Groups DEF bring_down_slave, Decided, DaemonOK
    <2>2. KernelOK'
      BY <1>7, Constants, Groups DEF bring_down_slave, KernelOK
    <2> QED BY <1>7, <2>1, <2>2, Same, Groups DEF bring_down_slave, Decided
  <1>8. CASE SlaveFails
    <2>1. DaemonOK'
      BY <1>8, Groups DEF SlaveFails, Decided, DaemonOK
    <2> QED BY <1>8, <2>1, Same, Groups DEF SlaveFails, Decided
  <1> QED BY <1>1, <1>2, <1>3, <1>4, <1>5, <1>6, <1>7, <1>8 DEF Loop

\* Signals, dials, the clock and the kernel keep the state well typed.
LEMMA WorldType ==
  ASSUME TypeOK, reread \/ Dial \/ Tick \/ TimeSet \/ Opened \/ Closed \/ Traffic
  PROVE  TypeOK'
  <1>0. hups \in Nat /\ steps \in Nat /\ dials \in Nat
    BY DEF TypeOK
  <1>1. CASE reread
    <2>0. nap' \in 0 .. Second - 1
      <3>1. nap \in 0 .. Second - 1 /\ 0 \in 0 .. Second - 1
        BY Constants DEF TypeOK
      <3>2. CASE pc = "sleep"
        BY <1>1, <3>1, <3>2 DEF reread
      <3>3. CASE pc # "sleep"
        BY <1>1, <3>1, <3>3 DEF reread
      <3> QED BY <3>2, <3>3
    <2>1. DaemonOK'
      BY <1>1, <2>0, Groups DEF reread, DaemonOK
    <2>2. BoundsOK'
      BY <1>0, <1>1, Constants, Groups DEF reread, BoundsOK
    <2> QED BY <1>1, <2>1, <2>2, Same, Groups DEF reread
  <1>2. CASE Dial
    <2>1. nap' \in 0 .. Second - 1
      BY <1>2, NapType DEF Dial
    <2>2. DaemonOK'
      BY <1>2, <2>1, ZeroType, Constants, Groups DEF Dial, DaemonOK
    <2>3. ClockOK'
      BY <1>2, Constants, Groups DEF Dial, ClockOK, Far
    <2>4. BoundsOK'
      BY <1>0, <1>2, Constants, Groups DEF Dial, BoundsOK
    <2>5. grown' \in [Dirs -> Int]
      BY <1>2, ZeroType DEF Dial
    <2> QED BY <1>2, <2>2, <2>3, <2>4, <2>5, Same, Groups DEF Dial
  <1>3. CASE Tick
    <2>1. DaemonOK'
      BY <1>3, Constants, Groups DEF Tick, DaemonOK
    <2>2. ClockOK'
      <3>1. Far \in Nat
        BY Constants DEF Far
      <3> QED BY <1>3, <3>1, Constants, Groups DEF Tick, ClockOK, Least
    <2>3. grown' \in [Dirs -> Int]
      <3>1. \A d \in Dirs : grown[d] \in Int /\ load[d] \in Nat
        BY Constants DEF TypeOK
      <3> QED BY <1>3, <3>1 DEF Tick
    <2> QED BY <1>3, <2>1, <2>2, <2>3, Same, Groups DEF Tick
  <1>4. CASE TimeSet
    <2>1. ClockOK'
      BY <1>4, Constants, Groups DEF TimeSet, ClockOK, DaemonOK
    <2>2. BoundsOK'
      BY <1>0, <1>4, Constants, Groups DEF TimeSet, BoundsOK
    <2> QED BY <1>4, <2>1, <2>2, Same, Groups DEF TimeSet
  <1>5. CASE Opened
    <2>1. KernelOK'
      BY <1>5, Constants, Groups DEF Opened, KernelOK
    <2> QED BY <1>5, <2>1, Same, Groups DEF Opened
  <1>6. CASE Closed
    <2>1. KernelOK'
      BY <1>6, Constants, Groups DEF Closed, KernelOK
    <2>2. grown' \in [Dirs -> Int]
      BY <1>6, Constants, Groups DEF Closed
    <2>3. lost' \in BOOLEAN
      BY <1>6 DEF Closed
    <2>4. PastOK'
      BY <1>6, <2>3, Groups DEF Closed, PastOK
    <2> QED BY <1>6, <2>1, <2>2, <2>4, Same, Groups DEF Closed
  <1>7. CASE Traffic
    <2>1. KernelOK'
      BY <1>7, Groups DEF Traffic, KernelOK
    <2> QED BY <1>7, <2>1, Same, Groups DEF Traffic
  <1> QED BY <1>1, <1>2, <1>3, <1>4, <1>5, <1>6, <1>7

\* Every reachable state of ibod is well typed: the throughputs are natural
\* numbers and the sleep is shorter than a second, for all constants.
THEOREM TypeCorrect == Spec => []TypeOK
  <1>1. Init => TypeOK
    <2> SUFFICES ASSUME Init PROVE TypeOK
      OBVIOUS
    <2>1. DaemonOK
      BY NapType, ZeroType, Constants DEF Init, DaemonOK
    <2>2. ClockOK
      BY Constants DEF Init, ClockOK, Far
    <2>3. KernelOK /\ BoundsOK
      BY Constants DEF Init, KernelOK, BoundsOK
    <2>4. PastOK
      BY DEF Init, PastOK
    <2> QED BY <2>1, <2>2, <2>3, <2>4, ZeroType, Groups DEF Init
  <1>2. TypeOK /\ [Next]_vars => TypeOK'
    <2> SUFFICES ASSUME TypeOK, [Next]_vars PROVE TypeOK'
      OBVIOUS
    <2>1. CASE UNCHANGED vars
      BY <2>1, Same, Groups DEF vars
    <2> QED BY <2>1, LoopType, WorldType DEF Next
  <1> QED BY <1>1, <1>2, PTL DEF Spec

-----------------------------------------------------------------------------
(* The throughput.                                                         *)

\* What was sent within a time, divided by that time.
LEMMA CarriedBound ==
  ASSUME TypeOK, NEW d \in Dirs, ms_delta > 0, grown[d] >= 0, grown[d] <= Line * ms_delta
  PROVE  PerSecond(d) \in Nat /\ PerSecond(d) <= Line * Second
  <1> DEFINE g == grown[d]  m == ms_delta
  <1>0. g \in Nat /\ m \in Nat \ {0} /\ m <= MaxDelay
    BY Constants DEF TypeOK
  <1>a. g <= Line * m
    OBVIOUS
  <1> HIDE DEF g, m
  <1>1. g * Second \in Nat /\ g * Second <= (Line * Second) * m /\ Line * Second \in Nat
    <2>1. g * Second <= (Line * m) * Second
      BY <1>0, <1>a, Constants
    <2>2. (Line * m) * Second = (Line * Second) * m
      BY <1>0, Constants
    <2> QED BY <1>0, <2>1, <2>2, Constants
  <1>2. (Line * Second) * m <= (Line * Second) * MaxDelay
    BY <1>0, Constants
  <1>3. (Line * Second) * MaxDelay = Line * MaxDelay * Second
    BY Constants
  <1>4. g * Second < Word
    BY <1>1, <1>2, <1>3, <1>0, Constants
  <1>5. g <= g * Second
    BY <1>0, Constants
  <1>6. m < Word
    <2>1. MaxDelay <= Line * MaxDelay /\ Line * MaxDelay \in Nat
      BY Constants
    <2>2. Line * MaxDelay <= Line * MaxDelay * Second
      BY <2>1, Constants
    <2> QED BY <1>0, <2>1, <2>2, Constants
  <1>7. Unsigned(g) = g /\ Unsigned(m) = m
    BY <1>0, <1>4, <1>5, <1>6, Constants DEF Unsigned
  <1>8. Unsigned(g * Second) = g * Second
    BY <1>1, <1>4, Constants DEF Unsigned
  <1>9. (g * Second) \div m \in Nat /\ (g * Second) \div m <= Line * Second
    BY <1>0, <1>1, QuotientBound
  <1>10. PerSecond(d) = (g * Second) \div m
    BY <1>7, <1>8 DEF PerSecond, g, m
  <1> QED BY <1>9, <1>10

\* While nothing disturbs the measurements, the bytes that wait for the next
\* one were sent in the time that waits for it.
Counted ==
  Undisturbed =>
    /\ ms >= 0
    /\ pc = "sleep" /\ channels_last # Unknown /\ ~lost =>
         \A d \in Dirs : 0 <= grown[d] /\ grown[d] <= Line * ms
    /\ pc \in {"plain", "filter"} =>
         /\ ms_delta >= 0
         /\ \A d \in Dirs : 0 <= grown[d] /\ grown[d] <= Line * ms_delta
    /\ pc = "decide" => grown = Zero

LEMMA CountedKept ==
  ASSUME TypeOK, Counted, [Next]_vars
  PROVE  Counted'
  <1> USE DEF Counted, Undisturbed
  <1>0. CASE UNCHANGED vars
    BY <1>0 DEF vars, daemon, clock, past, bounds
  <1>z. \A d \in Dirs : Zero[d] = 0
    BY DEF Zero
  <1>l. Line \in Nat /\ Line * 0 = 0
    BY Constants
  <1>p. \A m \in Nat : Line * m \in Nat
    BY Constants
  <1>t. /\ ms \in Int /\ ms_delta \in Int /\ channels \in Nat
        /\ channels_last \in Int /\ steps \in Nat
        /\ \A d \in Dirs : grown[d] \in Int
    BY Constants DEF TypeOK
  <1>1. CASE Measure
    <2>1. CASE NewBase
      BY <1>1, <2>1, <1>z, <1>l DEF Measure, Return, bounds
    <2>2. CASE ~NewBase
      <3>1. /\ pc = "sleep" /\ pc' \in {"plain", "filter"} /\ ms' = 0
            /\ ms_delta' = ms /\ UNCHANGED <<grown, steps>>
        BY <1>1, <2>2 DEF Measure, bounds
      <3>2. channels_last # Unknown /\ channels >= channels_last
        BY <2>2, <1>t DEF NewBase
      <3>3. ~swapped' => ~swapped /\ ~lost
        BY <1>1, <3>2 DEF Measure
      <3> QED BY <3>1, <3>2, <3>3, <1>t
    <2> QED BY <2>1, <2>2
  <1>2. CASE InfoFails
    BY <1>2 DEF InfoFails, clock, past, bounds
  <1>3. CASE Plain \/ Filter
    BY <1>3 DEF Plain, Filter, clock, past, bounds
  <1>4. CASE Stay \/ bring_up_slave \/ bring_down_slave
    <2>1. pc = "decide" /\ UNCHANGED <<grown, past, bounds>>
      BY <1>4 DEF Stay, bring_up_slave, bring_down_slave, Decided
    <2>2. pc' = "sleep" /\ UNCHANGED ms
      BY <1>4 DEF Stay, bring_up_slave, bring_down_slave, Return, clock
    <2>3. ASSUME Undisturbed', NEW d \in Dirs PROVE 0 <= grown'[d] /\ grown'[d] <= Line * ms'
      <3>1. grown'[d] = 0 /\ ms' \in Nat
        BY <1>t, <1>z, <2>1, <2>2, <2>3 DEF past, bounds
      <3>2. Line * ms' \in Nat
        BY <3>1, <1>p
      <3> QED BY <3>1, <3>2
    <2> QED BY <2>1, <2>2, <2>3 DEF past, bounds
  <1>5. CASE SlaveFails
    BY <1>5 DEF SlaveFails, Decided, clock, past, bounds
  <1>6. CASE reread
    BY <1>6 DEF reread, clock, past
  <1>7. CASE Dial
    BY <1>7 DEF Dial, past
  <1>8. CASE Tick
    <2>1. pc = "sleep" /\ pc' = "sleep" /\ ms' = ms + 1 /\ UNCHANGED <<channels_last, past, bounds>>
      BY <1>8 DEF Tick
    <2>2. ASSUME Undisturbed, NEW d \in Dirs, 0 <= grown[d], grown[d] <= Line * ms, ms >= 0
          PROVE  0 <= grown'[d] /\ grown'[d] <= Line * (ms + 1)
      <3>1. load[d] \in Nat /\ load[d] <= Line
        BY Constants DEF TypeOK
      <3>2. grown'[d] = grown[d] \/ grown'[d] = grown[d] + load[d]
        BY <1>8, <1>t DEF Tick
      <3>3. Line * (ms + 1) = Line * ms + Line /\ Line * ms \in Int
        BY <1>l, <1>t
      <3> QED BY <2>2, <3>1, <3>2, <3>3, <1>t, <1>l
    <2> QED BY <1>t, <2>1, <2>2 DEF past, bounds
  <1>9. CASE TimeSet
    BY <1>9, <1>t DEF TimeSet
  <1>10. CASE Opened \/ Traffic
    BY <1>10 DEF Opened, Traffic, daemon, clock, past, bounds
  <1>11. CASE Closed
    BY <1>11 DEF Closed, daemon, clock, bounds
  <1> QED BY <1>0, <1>1, <1>2, <1>3, <1>4, <1>5, <1>6, <1>7, <1>8, <1>9, <1>10, <1>11
          DEF Next, Loop

\* The throughput ibod computes is never more than the line carries, as long
\* as the time is not set and no channel is replaced unseen: no difference
\* wraps, no product overflows and averaging does not add to it.
THEOREM RateBounded == Spec => []RateIsCarried
  <1>1. Init => Counted /\ RateIsCarried
    <2> SUFFICES ASSUME Init PROVE Counted /\ RateIsCarried
      OBVIOUS
    <2>1. Line * Second \in Nat
      BY Constants
    <2> QED BY <2>1 DEF Init, Counted, RateIsCarried, Zero
  <1>2. TypeOK /\ Counted /\ RateIsCarried /\ [Next]_vars => RateIsCarried'
    <2> SUFFICES ASSUME TypeOK, Counted, RateIsCarried, [Next]_vars, Undisturbed', NEW d \in Dirs
                 PROVE  rate'[d] <= Line * Second
      BY DEF RateIsCarried
    <2>0. Line * Second \in Nat
      BY Constants
    <2>1. Undisturbed
      <3>1. /\ swapped' = swapped \/ swapped' = (swapped \/ (lost /\ channels >= channels_last))
            /\ steps' = steps \/ steps' = steps + 1
        BY DEF Next, Loop, Measure, InfoFails, Plain, Filter, Stay, bring_up_slave, bring_down_slave,
               SlaveFails, Decided, reread, Dial, Tick, TimeSet, Opened, Closed, Traffic, vars, past,
               bounds
      <3> QED BY <3>1 DEF Undisturbed, TypeOK
    <2>2. rate[d] \in Nat /\ rate[d] <= Line * Second
      BY <2>1 DEF RateIsCarried, TypeOK
    <2>3. ASSUME pc \in {"plain", "filter"}, ms_delta # 0
          PROVE  PerSecond(d) \in Nat /\ PerSecond(d) <= Line * Second
      <3>1. ms_delta > 0 /\ 0 <= grown[d] /\ grown[d] <= Line * ms_delta
        BY <2>1, <2>3 DEF Counted, TypeOK
      <3> QED BY <3>1, CarriedBound
    <2>4. CASE Plain
      <3>1. CASE ms_delta = 0
        BY <2>2, <2>4, <3>1 DEF Plain
      <3>2. CASE ms_delta # 0
        BY <2>3, <2>4, <3>2 DEF Plain
      <3> QED BY <3>1, <3>2
    <2>5. CASE Filter
      <3>1. CASE ms_delta = 0 \/ cf.filter = 0
        BY <2>2, <2>5, <3>1 DEF Filter
      <3>2. CASE ~(ms_delta = 0 \/ cf.filter = 0)
        <4>1. cf.filter \in Nat \ {0} /\ (Line * Second) * cf.filter < Word
          BY <3>2, Constants DEF TypeOK
        <4>2. PerSecond(d) \in Nat /\ PerSecond(d) <= Line * Second
          BY <2>3, <2>5, <3>2 DEF Filter
        <4>3. rate'[d] = Average(rate[d], PerSecond(d), cf.filter)
          BY <2>5, <3>2 DEF Filter
        <4> QED BY <2>0, <2>2, <4>1, <4>2, <4>3, AverageBound
      <3> QED BY <3>1, <3>2
    <2>6. CASE Dial
      BY <2>0, <2>6 DEF Dial, Zero
    <2>7. CASE ~(Plain \/ Filter \/ Dial)
      <3>1. UNCHANGED rate
        BY <2>7 DEF Next, Loop, Measure, InfoFails, Stay, bring_up_slave, bring_down_slave,
               SlaveFails, Decided, reread, Tick, TimeSet, Opened, Closed, Traffic, vars, daemon
      <3> QED BY <2>2, <3>1
    <2> QED BY <2>4, <2>5, <2>6, <2>7
  <1> QED BY <1>1, <1>2, CountedKept, TypeCorrect, PTL DEF Spec
-----------------------------------------------------------------------------
(* The stay-up timer.                                                      *)

\* Unless the time is set, the whole seconds the code sees are less than a
\* second ahead of the time that has really passed.
TimerBehind == steps = 0 => upticks = Far \/ upsecs * Second + phase < upticks + Second

\* A tick adds at most one to the system time the code sees.
LEMMA TickTime ==
  ASSUME TypeOK, Tick
  PROVE  upsecs' * Second + phase' <= upsecs * Second + phase + 1
  <1>0. Second \in Nat /\ upsecs \in Nat /\ phase \in Nat /\ MaxUp \in Nat
    BY Constants DEF TypeOK
  <1>1. CASE phase + 1 = Second
    <2>1. phase' = 0 /\ (upsecs' = upsecs + 1 \/ upsecs' = upsecs)
      <3>1. phase' = 0 /\ upsecs' = Least(upsecs + 1, MaxUp + 1)
        BY <1>1 DEF Tick
      <3>2. upsecs <= MaxUp + 1
        BY <1>0 DEF TypeOK
      <3> QED BY <1>0, <3>1, <3>2 DEF Least
    <2>2. (upsecs + 1) * Second = upsecs * Second + Second /\ upsecs * Second \in Nat
      BY <1>0
    <2> QED BY <1>0, <1>1, <2>1, <2>2
  <1>2. CASE phase + 1 # Second
    <2>1. phase' = phase + 1 /\ upsecs' = upsecs
      BY <1>2 DEF Tick
    <2>2. upsecs * Second \in Nat
      BY <1>0
    <2> QED BY <1>0, <2>1, <2>2
  <1> QED BY <1>1, <1>2

LEMMA TimerKept ==
  ASSUME TypeOK, TimerBehind, [Next]_vars
  PROVE  TimerBehind'
  <1>0. /\ Second \in Nat \ {0} /\ phase \in 0 .. Second - 1 /\ upticks \in Nat
        /\ upticks <= Far /\ Far \in Nat /\ steps \in Nat
        /\ upsecs * Second \in Nat
    <2>1. Second \in Nat \ {0} /\ Far \in Nat /\ upsecs \in Nat
      BY Constants DEF TypeOK, Far
    <2>2. phase \in 0 .. Second - 1 /\ upticks \in 0 .. Far /\ steps \in Nat
      BY DEF TypeOK
    <2>3. \A a, b \in Nat : a * b \in Nat
      OBVIOUS
    <2> QED BY <2>1, <2>2, <2>3
  <1>1. CASE Tick
    <2>1. steps' = steps /\ upticks' = Least(upticks + 1, Far)
      BY <1>1 DEF Tick, bounds
    <2>2. upsecs' * Second + phase' <= upsecs * Second + phase + 1
      BY <1>1, TickTime
    <2>3. upsecs' * Second + phase' \in Int
      <3>1. upsecs' \in Nat /\ phase' \in Nat
        BY <1>1, WorldType, Constants DEF TypeOK
      <3> QED BY <1>0, <3>1
    <2>4. CASE upticks + 1 < Far
      BY <1>0, <2>1, <2>2, <2>3, <2>4 DEF TimerBehind, Least, Far
    <2>5. CASE ~(upticks + 1 < Far)
      BY <2>1, <2>5 DEF TimerBehind, Least, Far
    <2> QED BY <2>4, <2>5
  <1>2. CASE TimeSet
    BY <1>0, <1>2 DEF TimeSet, TimerBehind
  <1>3. CASE bring_up_slave
    <2>1. upsecs' = 0 /\ upticks' = 0 /\ phase' = phase
      BY <1>3 DEF bring_up_slave
    <2> QED BY <1>0, <2>1 DEF TimerBehind
  <1>4. CASE Dial
    BY <1>4 DEF Dial, TimerBehind, Far
  <1>5. CASE ~(Tick \/ TimeSet \/ bring_up_slave \/ Dial)
    <2>1. UNCHANGED <<upsecs, phase, upticks, steps>>
      BY <1>5 DEF Next, Loop, Measure, InfoFails, Plain, Filter, Stay, bring_down_slave,
             SlaveFails, Decided, reread, Opened, Closed, Traffic, vars, clock, bounds
    <2> QED BY <2>1 DEF TimerBehind, Far
  <1> QED BY <1>1, <1>2, <1>3, <1>4, <1>5

\* As long as the time is not set, ibod never removes the slave it has added
\* before STAYUP_TIME seconds have really passed, for every STAYUP_TIME.
THEOREM SlaveStays == Spec => StaysUp
  <1>1. Init => TimerBehind
    BY DEF Init, TimerBehind
  <1>2. TypeOK /\ TimerBehind /\ [Next]_vars =>
          [bring_down_slave /\ steps = 0 => upticks >= cf.stayup_time * Second]_vars
    <2> SUFFICES ASSUME TypeOK, TimerBehind, bring_down_slave, steps = 0
                 PROVE  upticks >= cf.stayup_time * Second
      OBVIOUS
    <2> DEFINE t == cf.stayup_time
    <2>1. t \in Nat /\ t <= MaxUp /\ MaxUp \in Nat /\ Second \in Nat
      BY Constants DEF TypeOK
    <2>2. upsecs \in Nat /\ upticks \in Nat /\ phase \in Nat
      BY Constants DEF TypeOK, Far
    <2>3. upsecs > t
      BY DEF bring_down_slave, WantsDown
    <2> HIDE DEF t
    <2>4. t * Second <= Far
      BY <2>1 DEF Far
    <2>5. t * Second + Second <= upsecs * Second
      <3>1. (t + 1) * Second <= upsecs * Second
        BY <2>1, <2>2, <2>3
      <3> QED BY <2>1, <3>1
    <2>6. t * Second \in Nat /\ upsecs * Second \in Nat
      BY <2>1, <2>2
    <2>7. CASE upticks = Far
      BY <2>4, <2>6, <2>7 DEF t
    <2>8. CASE upsecs * Second + phase < upticks + Second
      <3>1. upticks >= t * Second
        BY <2>1, <2>2, <2>5, <2>6, <2>8
      <3> QED BY <3>1 DEF t
    <2> QED BY <2>7, <2>8 DEF TimerBehind
  <1> QED BY <1>1, <1>2, TimerKept, TypeCorrect, PTL DEF Spec, StaysUp
-----------------------------------------------------------------------------
(* The division.                                                           *)

\* Without a SIGHUP and with the time left alone, usleep takes what
\* setinterval asks for between two measurements: the time that has passed
\* and the time still to sleep make it up.
Timed ==
  hups = 0 /\ steps = 0 /\ setinterval(cf) # 0 =>
    /\ pc = "sleep" => ms + nap >= setinterval(cf)
    /\ pc \in {"plain", "filter", "decide"} => ms = 0
    /\ pc \in {"plain", "filter"} => ms_delta > 0
    /\ pc = "filter" => cf.filter >= 1
    /\ pc # "fault"

LEMMA TimedKept ==
  ASSUME TypeOK, Timed, [Next]_vars
  PROVE  Timed'
  <1> USE DEF Timed
  <1>t. /\ ms \in Int /\ nap \in Nat /\ ms_delta \in Int /\ hups \in Nat /\ steps \in Nat
        /\ cf \in Configs /\ cf.filter \in Nat /\ setinterval(cf) \in Nat
    BY Constants, NapType DEF TypeOK
  <1>0. CASE UNCHANGED vars
    BY <1>0 DEF vars, daemon, clock, bounds
  <1>1. CASE Measure
    <2>1. pc = "sleep" /\ nap = 0 /\ ms' = 0 /\ UNCHANGED <<cf, hups, steps>>
      BY <1>1 DEF Measure, bounds
    <2>2. CASE NewBase
      <3>1. pc' = "sleep" /\ nap' = setinterval(cf)
        BY <1>1, <2>2 DEF Measure, Return
      <3> QED BY <1>t, <2>1, <3>1
    <2>3. CASE ~NewBase
      <3>1. pc' = (IF cf.filter < 1 THEN "plain" ELSE "filter") /\ ms_delta' = ms
        BY <1>1, <2>3 DEF Measure
      <3> QED BY <1>t, <2>1, <3>1
    <2> QED BY <2>2, <2>3
  <1>2. CASE InfoFails \/ SlaveFails
    BY <1>2 DEF InfoFails, SlaveFails, Decided, bounds
  <1>3. CASE Plain \/ Filter
    <2>1. UNCHANGED <<cf, ms, hups, steps>> /\ pc' \in {"decide", "fault"}
      BY <1>3 DEF Plain, Filter, clock, bounds
    <2>2. ms_delta # 0 /\ (pc = "filter" => cf.filter # 0) => pc' = "decide"
      BY <1>3 DEF Plain, Filter
    <2>3. pc \in {"plain", "filter"}
      BY <1>3 DEF Plain, Filter
    <2> QED BY <1>t, <2>1, <2>2, <2>3
  <1>4. CASE Stay \/ bring_up_slave \/ bring_down_slave
    <2>1. pc = "decide" /\ UNCHANGED <<cf, ms, hups, steps>>
      BY <1>4 DEF Stay, bring_up_slave, bring_down_slave, Decided, clock, bounds
    <2>2. pc' = "sleep" /\ nap' = setinterval(cf)
      BY <1>4 DEF Stay, bring_up_slave, bring_down_slave, Return
    <2> QED BY <1>t, <2>1, <2>2
  <1>5. CASE reread \/ TimeSet
    BY <1>5, <1>t DEF reread, TimeSet
  <1>6. CASE Dial
    <2>1. pc' = "sleep" /\ nap' = setinterval(cf') /\ ms' = 0 /\ cf' \in Configs
      BY <1>6 DEF Dial
    <2>2. setinterval(cf') \in Nat
      BY <2>1, NapType, Constants
    <2>3. setinterval(cf)' = setinterval(cf')
      BY DEF setinterval
    <2> QED BY <2>1, <2>2, <2>3
  <1>7. CASE Tick
    <2>1. pc = "sleep" /\ pc' = pc /\ ms' = ms + 1 /\ UNCHANGED <<cf, hups, steps>>
      BY <1>7 DEF Tick, bounds
    <2>2. nap' = IF nap > 0 THEN nap - 1 ELSE 0
      BY <1>7 DEF Tick
    <2> QED BY <1>t, <2>1, <2>2
  <1>8. CASE Opened \/ Closed \/ Traffic
    BY <1>8 DEF Opened, Closed, Traffic, daemon, clock, bounds
  <1> QED BY <1>0, <1>1, <1>2, <1>3, <1>4, <1>5, <1>6, <1>7, <1>8 DEF Next, Loop

\* Whatever the channels, the traffic and the dials do, get_if_state never
\* divides by a time of zero or by a filter of zero while no SIGHUP arrives,
\* the time is left alone and INTERVAL is not a whole number of seconds.
THEOREM NeverFaults == Spec => []NoFault
  <1>1. Init => Timed
    <2> SUFFICES ASSUME Init PROVE Timed
      OBVIOUS
    <2>1. setinterval(cf) \in Nat
      BY NapType, Constants DEF Init
    <2> QED BY <2>1 DEF Init, Timed
  <1>2. TypeOK /\ Timed => NoFault
    BY DEF TypeOK, Timed, NoFault, setinterval
  <1> QED BY <1>1, <1>2, TimedKept, TypeCorrect, PTL DEF Spec
=============================================================================
