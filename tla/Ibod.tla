-------------------------------- MODULE Ibod --------------------------------
(***************************************************************************)
(* ibod, ISDN bandwidth on demand: a loop that sleeps, measures the        *)
(* throughput of the ISDN channels and adds or removes the slave channel.  *)
(*                                                                         *)
(* Time is counted in ticks, Second of them to the second.  What ibod      *)
(* keeps as two points in time or two byte counts and only ever subtracts  *)
(* is modelled as the difference.  SIGHUP may arrive between any two       *)
(* statements that read the configuration, and ends the sleep.  The ISDN   *)
(* subsystem of the kernel is external.                                    *)
(***************************************************************************)
EXTENDS Integers

CONSTANTS
  Dirs,         \* the directions bytes are counted in
  Configs,      \* what ibod.cf may say, the built-in values included
  Second,       \* ticks in a second (1000 in the code)
  Word,         \* 2^32: where an unsigned long wraps
  Line,         \* bytes the line can carry in a tick
  Loads,        \* traffic levels, in bytes per tick
  MaxChannels,  \* ISDN_MAX_CHANNELS
  MaxLoss,      \* bound: bytes counted at a measurement, and so lost with channels
  MaxDelay,     \* bound: ticks between two measurements
  MaxUp,        \* bound: seconds the stay-up timer is followed for
  MaxEvents     \* bound: SIGHUPs, changes of the system time, and dials, each
                \* of which starts ibod anew

ASSUME IbodAssumption ==
  /\ {Second, Line, MaxDelay, MaxChannels} \subseteq Nat \ {0}
  /\ {MaxLoss, MaxUp, MaxEvents} \subseteq Nat
  /\ Loads \subseteq 0 .. Line
  /\ Configs \subseteq [enable : BOOLEAN, interval : Nat, filter : Nat, limit : Nat,
                        stayup : BOOLEAN, stayup_time : 0 .. MaxUp]
  /\ Word \in Nat
  /\ Line * MaxDelay * Second < Word
  /\ \A c \in Configs : Line * Second * c.filter < Word
  /\ MaxLoss < Word

VARIABLES
  cf,             \* the configuration in use
  pc,             \* where ibod is
  nap,            \* ticks usleep has still to go
  channels_last,  \* channels at the last measurement, Unknown before it
  channels_now,   \* channels at this one
  ms,             \* system time since tv_last, in ticks
  ms_delta,       \* that difference as this measurement took it
  grown,          \* bytes counted now less those counted last, per direction
  rate,           \* in_bytes_per_sec and out_bytes_per_sec
  upsecs,         \* tv_sec of the system time less that of tv_up
  phase,          \* ticks of the current second of the system time
  channels,       \* kernel: channels in use
  load,           \* kernel: the traffic of the moment
  lost,           \* a channel was closed since the last measurement (history)
  swapped,        \* ... and the measurement could not tell (history)
  upticks,        \* real ticks since ibod last added the slave (history)
  hups, steps, dials   \* counts (bounds)

daemon == <<cf, pc, nap, channels_last, channels_now, ms_delta, rate>>
clock  == <<ms, upsecs, phase, upticks>>
kernel == <<channels, load>>
past   == <<lost, swapped>>
bounds == <<hups, steps, dials>>
vars   == <<daemon, grown, clock, kernel, past, bounds>>

Unknown == -1
Far     == MaxUp * Second     \* upticks is not followed further

TypeOK ==
  /\ cf \in Configs
  /\ pc \in {"sleep", "plain", "filter", "decide", "exit", "fault"}
  /\ nap \in 0 .. Second - 1
  /\ channels_last \in {Unknown} \cup (0 .. MaxChannels)
  /\ channels_now \in 0 .. MaxChannels
  /\ ms \in -MaxDelay .. MaxDelay
  /\ ms_delta \in -MaxDelay .. MaxDelay
  /\ grown \in [Dirs -> Int]
  /\ rate \in [Dirs -> Nat]
  /\ upsecs \in 0 .. MaxUp + 1
  /\ phase \in 0 .. Second - 1
  /\ upticks \in 0 .. Far
  /\ channels \in 0 .. MaxChannels
  /\ load \in [Dirs -> Loads]
  /\ lost \in BOOLEAN
  /\ swapped \in BOOLEAN
  /\ {hups, steps, dials} \subseteq Nat
  /\ hups + steps + dials <= MaxEvents

\* Mutant: usleep gets the seconds.
setintervalSeconds(c) == c.interval \div Second

\* setinterval keeps seconds and the rest apart; usleep gets the rest only.
setinterval(c) == c.interval % Second

Zero == [d \in Dirs |-> 0]
Init ==
  /\ cf \in Configs
  /\ pc = "sleep"
  /\ nap = setinterval(cf)
  /\ channels_last = Unknown
  /\ channels_now = 0
  /\ ms = 0
  /\ ms_delta = 0
  /\ grown = Zero
  /\ rate = Zero
  /\ upsecs = MaxUp + 1
  /\ phase = 0
  /\ upticks = Far
  /\ channels = 0
  /\ load \in [Dirs -> Loads]
  /\ lost = FALSE
  /\ swapped = FALSE
  /\ hups = 0 /\ steps = 0 /\ dials = 0

-----------------------------------------------------------------------------
(* The loop of main and get_if_state.                                      *)

\* The measurement is over: main calls setinterval and sleeps.
Return ==
  /\ pc' = "sleep"
  /\ nap' = setinterval(cf)
  /\ channels_last' = channels_now'
  /\ ms_delta' = 0

\* Mutant: a channel that went away is not looked for.
MissedChannel == channels_last = Unknown

\* The first measurement, or one after a channel went away.
NewBase == channels_last = Unknown \/ channels < channels_last

\* Open the info device, take the time, count channels and bytes.
Measure ==
  /\ pc = "sleep"
  /\ nap = 0
  /\ channels_now' = channels
  /\ ms' = 0
  /\ lost' = FALSE
  /\ swapped' = (swapped \/ (lost /\ channels >= channels_last))
  /\ IF NewBase
       THEN /\ Return
            /\ grown' = Zero
       ELSE /\ pc' = IF cf.filter < 1 THEN "plain" ELSE "filter"
            /\ ms_delta' = ms
            /\ UNCHANGED <<nap, channels_last, grown>>
  /\ UNCHANGED <<cf, rate, upsecs, phase, upticks, kernel, bounds>>

\* isdninfo cannot be opened, or IIOCGETCPS fails.
InfoFails ==
  /\ pc = "sleep" /\ nap = 0
  /\ pc' = "exit"
  /\ UNCHANGED <<cf, nap, channels_last, channels_now, ms_delta, rate, grown, clock, kernel,
                 past, bounds>>

\* Arithmetic of unsigned longs: the difference, its thousandfold, and the
\* int ms_delta as a divisor.
Unsigned(x) == IF x \in 0 .. Word - 1 THEN x ELSE x % Word

\* Mutant: the difference of the counts is signed.
PerSecondSigned(d) == (grown[d] * Second) \div Unsigned(ms_delta)

PerSecond(d) == Unsigned(Unsigned(grown[d]) * Second) \div Unsigned(ms_delta)

\* Throughput, unfiltered: a division by zero ends the daemon.
Plain ==
  /\ pc = "plain"
  /\ IF ms_delta = 0
       THEN pc' = "fault" /\ UNCHANGED <<rate, grown>>
       ELSE /\ pc' = "decide"
            /\ rate' = [d \in Dirs |-> PerSecond(d)]
            /\ grown' = Zero
  /\ UNCHANGED <<cf, nap, channels_last, channels_now, ms_delta, clock, kernel, past, bounds>>

\* Mutant: the sum is divided by one too many.
AverageLow(r, new, f) == Unsigned(r * (f - 1) + new) \div (f + 1)

\* The average over filter measurements.
Average(r, new, f) == Unsigned(r * (f - 1) + new) \div f

Filter ==
  /\ pc = "filter"
  /\ IF ms_delta = 0 \/ cf.filter = 0
       THEN pc' = "fault" /\ UNCHANGED <<rate, grown>>
       ELSE /\ pc' = "decide"
            /\ rate' = [d \in Dirs |-> Average(rate[d], PerSecond(d), cf.filter)]
            /\ grown' = Zero
  /\ UNCHANGED <<cf, nap, channels_last, channels_now, ms_delta, clock, kernel, past, bounds>>

Above == \E d \in Dirs : rate[d] > cf.limit

\* Channels in use, ibod enabled, one channel and a throughput above the
\* limit: add the slave.
WantsUp == channels_now = 1 /\ cf.enable /\ Above

\* Mutant: the stay-up timer is not looked at.
WantsDownAtOnce == channels_now > 1 /\ cf.enable /\ ~Above /\ ~cf.stayup

\* Mutant: STAYUP is taken the wrong way round.
WantsDownStayUp == channels_now > 1 /\ cf.enable /\ ~Above /\ cf.stayup /\ upsecs > cf.stayup_time

\* Two channels, a throughput below it in both directions, the minimum
\* time over: remove the slave.
WantsDown == channels_now > 1 /\ cf.enable /\ ~Above /\ ~cf.stayup /\ upsecs > cf.stayup_time

Decided == pc = "decide" /\ UNCHANGED <<cf, rate, grown, past, bounds>>

Stay ==
  /\ Decided
  /\ ~WantsUp /\ ~WantsDown
  /\ channels_now' = channels_now
  /\ Return
  /\ UNCHANGED <<clock, kernel>>

\* IIOCNETALN: the channel is dialled at once, later or never, or there is
\* none.  The timer starts in any case.
bring_up_slave ==
  /\ Decided
  /\ WantsUp
  /\ \E added \in BOOLEAN :
       /\ channels_now' = IF added /\ MaxChannels > 1 THEN 2 ELSE channels_now
       /\ \/ UNCHANGED channels
          \/ added /\ channels < MaxChannels /\ channels' = channels + 1
  /\ Return
  /\ upsecs' = 0
  /\ upticks' = 0
  /\ UNCHANGED <<ms, phase, load>>

\* IIOCNETDLN: removed, or not.
bring_down_slave ==
  /\ Decided
  /\ WantsDown
  /\ channels_now' = channels_now
  /\ Return
  /\ \/ UNCHANGED channels
     \/ channels > 0 /\ channels' = channels - 1
  /\ UNCHANGED <<load, clock>>

\* isdnctrl cannot be opened or refuses.
SlaveFails ==
  /\ Decided
  /\ WantsUp \/ WantsDown
  /\ pc' = "exit"
  /\ UNCHANGED <<nap, channels_last, channels_now, ms_delta, clock, kernel>>

Loop ==
  \/ Measure \/ InfoFails \/ Plain \/ Filter
  \/ Stay \/ bring_up_slave \/ bring_down_slave \/ SlaveFails

\* SIGHUP: the built-in values, and over them what ibod.cf says.  A usleep
\* under way returns.
reread ==
  /\ pc \notin {"exit", "fault"}
  /\ hups + steps + dials < MaxEvents
  /\ hups' = hups + 1
  /\ cf' \in Configs
  /\ nap' = IF pc = "sleep" THEN 0 ELSE nap
  /\ UNCHANGED <<pc, channels_last, channels_now, ms_delta, rate, grown, clock, kernel, past,
                 steps, dials>>

\* rc.red dials: the running ibod is killed and another one started.  What
\* it has not measured yet counts from zero.
Dial ==
  /\ hups + steps + dials < MaxEvents
  /\ dials' = dials + 1
  /\ cf' \in Configs
  /\ pc' = "sleep"
  /\ nap' = setinterval(cf')
  /\ channels_last' = Unknown
  /\ channels_now' = 0
  /\ ms' = 0
  /\ ms_delta' = 0
  /\ grown' = Zero
  /\ rate' = Zero
  /\ upsecs' = MaxUp + 1
  /\ upticks' = Far
  /\ UNCHANGED <<phase, kernel, past, hups, steps>>

-----------------------------------------------------------------------------
(* The clock and the kernel.                                               *)

Least(x, y) == IF x < y THEN x ELSE y
Tick ==
  /\ pc = "sleep"
  /\ ms < MaxDelay
  /\ ms' = ms + 1
  /\ nap' = IF nap > 0 THEN nap - 1 ELSE 0
  /\ phase' = IF phase + 1 = Second THEN 0 ELSE phase + 1
  /\ upsecs' = IF phase + 1 = Second THEN Least(upsecs + 1, MaxUp + 1) ELSE upsecs
  /\ upticks' = Least(upticks + 1, Far)
  /\ grown' = [d \in Dirs |-> grown[d] + IF channels > 0 THEN load[d] ELSE 0]
  /\ UNCHANGED <<cf, pc, channels_last, channels_now, ms_delta, rate, kernel, past, bounds>>

\* ntp or the administrator sets the system time.
TimeSet ==
  /\ pc = "sleep"
  /\ hups + steps + dials < MaxEvents
  /\ steps' = steps + 1
  /\ ms' \in -MaxDelay .. MaxDelay - nap
  /\ upsecs' \in 0 .. MaxUp + 1
  /\ phase' \in 0 .. Second - 1
  /\ UNCHANGED <<daemon, grown, upticks, kernel, past, hups, dials>>

\* A channel is opened by either side of the line.
Opened ==
  /\ pc = "sleep"
  /\ channels < MaxChannels
  /\ channels' = channels + 1
  /\ UNCHANGED <<daemon, grown, clock, load, past, bounds>>

\* A channel is closed, and its count of bytes goes back to zero: none of
\* the bytes counted last, or all of them, are gone from the sum.
Closed ==
  /\ pc = "sleep"
  /\ channels > 0
  /\ channels' = channels - 1
  /\ \E gone \in BOOLEAN : grown' = [d \in Dirs |-> IF gone THEN -MaxLoss ELSE grown[d]]
  /\ lost' = TRUE
  /\ UNCHANGED <<daemon, clock, load, swapped, bounds>>

Traffic ==
  /\ pc = "sleep"
  /\ load' \in [Dirs -> Loads]
  /\ UNCHANGED <<daemon, grown, clock, channels, past, bounds>>

Next == Loop \/ reread \/ Dial \/ Tick \/ TimeSet \/ Opened \/ Closed \/ Traffic

Spec == Init /\ [][Next]_vars

\* ibod is scheduled and time goes on.
Fairness == WF_vars(Loop) /\ WF_vars(Tick)
FairSpec == Spec /\ Fairness

-----------------------------------------------------------------------------
(* Properties.                                                             *)

\* The throughput ibod computes is never more than the line carries: the
\* unsigned differences of get_if_state do not wrap and the average stays
\* within what was measured, unless the time was set or a channel was
\* closed and another opened between two measurements.
Undisturbed == ~swapped /\ steps = 0
RateIsCarried == Undisturbed => \A d \in Dirs : rate[d] <= Line * Second

\* ibod never divides by zero on its default path: only a SIGHUP that cuts
\* the sleep short, a change of the time, or an INTERVAL of whole seconds
\* (of which usleep sees nothing) lets two measurements have the same time.
NoFault == pc = "fault" => hups > 0 \/ steps > 0 \/ cf.interval % Second = 0

\* The slave stays up for STAYUP_TIME seconds of real time after ibod has
\* added it ("the minimum time in seconds the 2:nd channel will
\* unconditionally stay up"), although the code compares whole seconds.
StaysUp ==
  [][bring_down_slave /\ steps = 0 => upticks >= cf.stayup_time * Second]_vars

\* A line that is busy enough is given the slave: a throughput that stays
\* at limit + filter or above, whatever was averaged before.  (The integer
\* division of the average can stop up to filter - 1 below the throughput.)
Alive   == pc \notin {"exit", "fault"}
Factor  == IF cf.filter < 1 THEN 1 ELSE cf.filter
BusyOne == /\ Alive /\ channels = 1 /\ cf.enable
           /\ \E d \in Dirs : load[d] * Second >= cf.limit + Factor
LoadAnswered ==
  \A l \in [Dirs -> Loads] :
    <>[](BusyOne /\ load = l) => []<><<bring_up_slave>>_vars

\* An idle second channel is given back.
IdleTwo == Alive /\ channels > 1 /\ cf.enable /\ ~cf.stayup /\ load = Zero
IdleReleased == <>[]IdleTwo => []<><<bring_down_slave>>_vars
=============================================================================
