--------------------------- MODULE FlightRunnerProofs ---------------------------
(***************************************************************************)
(* Theorems about the control loop of the flight hardware, for every clock *)
(* rate, counter range, period, catch-up limit and cost of the code.       *)
(***************************************************************************)
EXTENDS FlightRunner, SequenceTheorems, TLAPS

-----------------------------------------------------------------------------
(* Arithmetic                                                              *)

(* Division with remainder, and its uniqueness.                            *)
LEMMA Division ==
    ASSUME NEW a \in Int, NEW b \in Nat \ {0}
    PROVE  \E q \in Int, r \in 0..(b - 1) : q = a \div b /\ r = a % b /\ a = b * q + r
<1>1. a \div b \in Int /\ a % b \in Int
  OBVIOUS
<1>2. a % b \in 0..(b - 1)
  OBVIOUS
<1>3. a = b * (a \div b) + (a % b)
  OBVIOUS
<1> QED
  BY <1>1, <1>2, <1>3, Zenon

LEMMA MultipleApart ==
    ASSUME NEW b \in Nat \ {0}, NEW p \in Int, NEW q \in Int, p < q
    PROVE  b * p + b <= b * q
<1>1. PICK d \in Nat : q = p + 1 + d
  <2>1. q - p - 1 \in Nat /\ q = p + 1 + (q - p - 1)
    OBVIOUS
  <2> QED
    BY <2>1
<1>2. b * q = b * p + b + b * d /\ b * d >= 0
  BY <1>1
<1> QED
  BY <1>2

LEMMA DivisionUnique ==
    ASSUME NEW b \in Nat \ {0}, NEW q \in Int, NEW r \in 0..(b - 1),
           NEW a \in Int, a = b * q + r
    PROVE  a % b = r /\ a \div b = q
<1>1. PICK p \in Int, s \in 0..(b - 1) : p = a \div b /\ s = a % b /\ a = b * p + s
  BY Division
<1>2. p = q
  <2>1. CASE p < q
    BY <2>1, <1>1, MultipleApart
  <2>2. CASE q < p
    BY <2>2, <1>1, MultipleApart
  <2> QED
    BY <2>1, <2>2
<1> QED
  BY <1>1, <1>2

(* Products of a non-negative factor keep the order.                       *)
LEMMA ProductOrder ==
    ASSUME NEW c \in Nat, NEW x \in Int, NEW y \in Int, x <= y
    PROVE  c * x <= c * y
<1>1. PICK d \in Nat : y = x + d
  <2>1. y - x \in Nat /\ y = x + (y - x)
    OBVIOUS
  <2> QED
    BY <2>1
<1>2. c * y = c * x + c * d /\ c * d >= 0
  BY <1>1
<1> QED
  BY <1>2

-----------------------------------------------------------------------------
(* The clock                                                               *)

(* True time of the last reading, if no turn of the counter passed since.  *)
BaseOf(now, last) == now - ((now - last) % CYC_RANGE)
Base == BaseOf(cycles, clock.last_cyccnt)

Clocks == [last_cyccnt : 0..(CYC_RANGE - 1), time_us : Nat]

(* Stm32h7Time::now_us: the cycles since the last reading are counted      *)
(* whole, and the clock takes their microseconds.                          *)
LEMMA Reading ==
    ASSUME cycles \in Nat, clock \in Clocks
    PROVE  \E gain \in Nat, rest \in 0..(MHZ - 1) :
             /\ cycles = Base + MHZ * gain + rest
             /\ now_us = [last_cyccnt |-> cycles % CYC_RANGE, time_us |-> clock.time_us + gain]
<1>1. PICK R \in Nat \ {0}, l \in 0..(CYC_RANGE - 1) : R = CYC_RANGE /\ l = clock.last_cyccnt
  BY ClockAssumption DEF Clocks
<1>2. PICK q \in Int, y \in 0..(R - 1) : q = cycles \div R /\ y = cycles % R /\ cycles = R * q + y
  <2>1. cycles \in Int
    OBVIOUS
  <2> QED
    BY <2>1, Division, Zenon
<1>3. PICK e \in 0..(R - 1) : e = Elapsed(y) /\ e = (cycles - l) % R
  <2>1. CASE y >= l
    <3>1. cycles - l = R * q + (y - l) /\ y - l \in 0..(R - 1) /\ cycles - l \in Int
      BY <1>1, <1>2, <2>1
    <3>2. (cycles - l) % R = y - l
      BY <3>1, <1>1, <1>2, DivisionUnique, Zenon
    <3> QED
      BY <1>1, <2>1, <3>1, <3>2 DEF Elapsed
  <2>2. CASE y < l
    <3>1. PICK p \in Int, r \in 0..(R - 1), a \in Int :
            a = cycles - l /\ a = R * p + r /\ r = R + y - l
      <4>1. /\ cycles - l = R * (q - 1) + (R + y - l)
            /\ R + y - l \in 0..(R - 1) /\ cycles - l \in Int /\ q - 1 \in Int
        BY <1>1, <1>2, <2>2
      <4> QED
        BY <4>1
    <3>2. a % R = r
      <4>1. a = R * p + r /\ R \in Nat \ {0} /\ a \in Int /\ p \in Int /\ r \in 0..(R - 1)
        BY <1>1, <3>1
      <4> QED
        BY <4>1, DivisionUnique, Zenon
    <3>3. Elapsed(y) = r
      BY <1>1, <2>2, <3>1 DEF Elapsed
    <3> QED
      BY <3>1, <3>2, <3>3, Zenon
  <2> QED
    BY <1>1, <1>2, <2>1, <2>2
<1>4. PICK gain \in Int, rest \in 0..(MHZ - 1) :
        gain = e \div MHZ /\ e = MHZ * gain + rest
  BY Division, ClockAssumption
<1>5. gain \in Nat
  <2> SUFFICES ASSUME gain < 0 PROVE FALSE
    BY <1>4
  <2>1. MHZ * gain + MHZ <= MHZ * 0
    BY <1>4, ClockAssumption, MultipleApart
  <2> QED
    BY <1>3, <1>4, <2>1, ClockAssumption
<1>6. now_us = [last_cyccnt |-> y, time_us |-> clock.time_us + gain]
  BY <1>1, <1>2, <1>3, <1>4 DEF now_us
<1>7. PICK b \in Int : b = Base /\ cycles = b + e
  <2>1. cycles - e \in Int /\ cycles = (cycles - e) + e
    OBVIOUS
  <2> QED
    BY <1>1, <1>3, <2>1 DEF Base, BaseOf
<1> QED
  <2>1. cycles = Base + MHZ * gain + rest
    BY <1>4, <1>5, <1>7, ClockAssumption
  <2> QED
    BY <1>1, <1>2, <1>4, <1>5, <1>6, <2>1

(* A counter that was read c cycles ago, less than a turn, tells when.     *)
LEMMA BaseOfReading ==
    ASSUME NEW n \in Nat, NEW c \in 0..(CYC_RANGE - 1), NEW l, l = n % CYC_RANGE
    PROVE  BaseOf(n + c, l) = n
<1>1. PICK q \in Int, y \in 0..(CYC_RANGE - 1) : y = n % CYC_RANGE /\ n = CYC_RANGE * q + y
  <2>1. n \in Int /\ CYC_RANGE \in Nat \ {0}
    BY ClockAssumption
  <2> QED
    BY <2>1, Division, Zenon
<1>2. n + c - y = CYC_RANGE * q + c /\ n + c - y \in Int
  BY <1>1, ClockAssumption
<1>3. (n + c - y) % CYC_RANGE = c
  BY <1>2, DivisionUnique, ClockAssumption
<1>4. y = l
  BY <1>1, Zenon
<1> QED
  BY <1>1, <1>3, <1>4, ClockAssumption DEF BaseOf

(* run, sleep_until_us: poll starts from a fresh reading.                  *)
FreshAtPoll == pc = "poll" => cycles % CYC_RANGE = clock.last_cyccnt

ClockTypes == cycles \in Nat /\ clock \in Clocks /\ reads \in Nat

(* A step of the loop reads the clock once, or leaves it and its base.     *)
Reads  == Read /\ cycles' \in Nat /\ cycles <= cycles' /\ Base' = cycles
Passes == UNCHANGED clockVars /\ cycles' \in Nat /\ cycles <= cycles' /\ Base' = Base

LEMMA ReadThenWork ==
    ASSUME ClockTypes, Read, NEW c \in 0..(CYC_RANGE - 1), cycles' = cycles + c
    PROVE  Reads
<1>1. PICK n \in Nat : n = cycles
  BY DEF ClockTypes
<1>2. PICK l : l = n % CYC_RANGE /\ l = clock'.last_cyccnt
  BY <1>1, Zenon DEF Read, now_us
<1>3. Base' = cycles
  <2>1. BaseOf(n + c, l) = n
    BY <1>2, BaseOfReading
  <2>2. cycles' = n + c
    BY <1>1
  <2> QED
    BY <1>1, <1>2, <2>1, <2>2, Zenon DEF Base
<1> QED
  BY <1>1, <1>2, <1>3 DEF Reads

LEMMA EachStepTimed ==
    ASSUME ClockTypes, FreshAtPoll, [Next]_vars
    PROVE  Reads \/ Passes
<1> USE DEF ClockTypes
<1>1. CASE run
  <2>1. Read /\ cycles' = cycles + 0 /\ 0 \in 0..(CYC_RANGE - 1)
    BY <1>1, ClockAssumption DEF run
  <2> QED
    BY <2>1, ReadThenWork
<1>2. CASE poll
  <2>1. PICK n \in Nat, c \in PollCycles : n = cycles /\ cycles' = n + c
    BY <1>2 DEF poll
  <2>2. c \in 0..(CYC_RANGE - 1) /\ 0 \in 0..(CYC_RANGE - 1)
    BY CostAssumption, ClockAssumption
  <2>3. clock' = clock /\ reads' = reads
    BY <1>2 DEF poll, clockVars
  <2>4. PICK l : l = clock.last_cyccnt /\ l = n % CYC_RANGE
    BY <1>2, <2>1, Zenon DEF poll, FreshAtPoll
  <2>5. Base = cycles
    <3>1. BaseOf(n + 0, l) = n
      BY <2>2, <2>4, BaseOfReading
    <3>2. n + 0 = n
      OBVIOUS
    <3> QED
      BY <2>1, <2>4, <3>1, <3>2, Zenon DEF Base
  <2>6. Base' = cycles
    <3>1. BaseOf(n + c, l) = n
      BY <2>2, <2>4, BaseOfReading
    <3> QED
      BY <2>1, <2>3, <2>4, <3>1, Zenon DEF Base
  <2> QED
    BY <2>1, <2>2, <2>3, <2>5, <2>6 DEF Passes, clockVars
<1>3. CASE CatchUp
  <2>1. Read /\ \E c \in StepCycles : cycles' = cycles + c
    BY <1>3 DEF CatchUp
  <2> QED
    BY <2>1, CostAssumption, ReadThenWork
<1>4. CASE CaughtUp
  <2>1. Read /\ cycles' = cycles + IdleCycles
    BY <1>4 DEF CaughtUp
  <2> QED
    BY <2>1, CostAssumption, ReadThenWork
<1>5. CASE sleep_until_us
  <2>1. Read /\ cycles' = cycles + 0 /\ 0 \in 0..(CYC_RANGE - 1)
    BY <1>5, ClockAssumption DEF sleep_until_us
  <2> QED
    BY <2>1, ReadThenWork
<1>6. ASSUME UNCHANGED <<cycles, clockVars>> PROVE Passes
  <2>1. cycles' = cycles /\ clock' = clock /\ reads' = reads
    BY <1>6 DEF clockVars
  <2>2. Base' = Base
    BY <2>1, Zenon DEF Base
  <2> QED
    BY <2>1, <2>2 DEF Passes, clockVars
<1>7. ASSUME NEW cmd \in Commands, Arrive(cmd) PROVE Passes
  BY <1>6, <1>7 DEF Arrive
<1>8. CASE UNCHANGED vars
  BY <1>6, <1>8 DEF vars
<1> QED
  BY <1>1, <1>2, <1>3, <1>4, <1>5, <1>7, <1>8 DEF Next

(* What a reading adds to the clock, and what it costs it.                 *)
LEMMA ReadFacts ==
    ASSUME ClockTypes, Base \in Int, Reads
    PROVE  \E gain \in Nat, rest \in 0..(MHZ - 1) :
             /\ cycles = Base + MHZ * gain + rest
             /\ clock' \in Clocks /\ clock'.time_us = clock.time_us + gain
             /\ reads' = reads + 1
<1>1. PICK gain \in Nat, rest \in 0..(MHZ - 1) :
        /\ cycles = Base + MHZ * gain + rest
        /\ now_us = [last_cyccnt |-> cycles % CYC_RANGE, time_us |-> clock.time_us + gain]
  BY Reading DEF ClockTypes
<1>2. cycles % CYC_RANGE \in 0..(CYC_RANGE - 1)
  <2>1. cycles \in Int /\ CYC_RANGE \in Nat \ {0}
    BY ClockAssumption DEF ClockTypes
  <2> QED
    BY <2>1, Division, Zenon
<1>3. clock' = now_us /\ reads' = reads + 1
  BY DEF Reads, Read
<1>4. clock' \in Clocks /\ clock'.time_us = clock.time_us + gain
  BY <1>1, <1>2, <1>3 DEF Clocks, ClockTypes
<1> QED
  BY <1>1, <1>3, <1>4, Zenon

LEMMA BaseType ==
    ASSUME ClockTypes
    PROVE  Base \in Int
<1>1. cycles - clock.last_cyccnt \in Int /\ CYC_RANGE \in Nat \ {0}
  BY ClockAssumption DEF ClockTypes, Clocks
<1>2. PICK r \in 0..(CYC_RANGE - 1) : r = (cycles - clock.last_cyccnt) % CYC_RANGE
  BY <1>1, Division, Zenon
<1>3. Base = cycles - r
  BY <1>2, Zenon DEF Base, BaseOf
<1> QED
  BY <1>3 DEF ClockTypes

-----------------------------------------------------------------------------
(* The inductive invariant                                                 *)

(* The clock's reading t was taken at the moment m, and since then the     *)
(* clock lost less than a microsecond a reading.                           *)
Measures(t, m) ==
  /\ t \in 0..clock.time_us /\ m.reads < reads
  /\ (Base - m.at) - MHZ * (clock.time_us - t) \in 0..((MHZ - 1) * (reads - m.reads - 1))

(* command_received, receive: the time stamps of link and setpoint are the *)
(* clock's readings of the moments they were last heard.                   *)
StampsAreMoments ==
  /\ IF heard.setpoint = None
     THEN ingress.setpoint = None /\ ingress.setpoint_rx_us = None
     ELSE Measures(ingress.setpoint_rx_us, heard.setpoint)
  /\ health.last_cmd_time_us <= clock.time_us
  /\ heard.any # None => Measures(health.last_cmd_time_us, heard.any)

(* The clock loses less than a microsecond a reading.                      *)
ClockInv == FreshAtPoll /\ ClockSurvivesRollover

ScheduleInv ==
  /\ first_tick = None <=> pc = "start"
  /\ pc = "start" => ticks = 0 /\ health.overrun_count = 0
  /\ ControlledTimeTracksClock

FlightInv == /\ TypeOK /\ ClockInv /\ StampsAreMoments /\ ScheduleInv
             /\ AgesAreTrue /\ EventsExactlyOnce

LEMMA TypesOfClock ==
    ASSUME TypeOK
    PROVE  ClockTypes /\ Base \in Int
<1>1. ClockTypes
  BY DEF TypeOK, ClockTypes, Clocks
<1> QED
  BY <1>1, BaseType

(* A reading later, a stamp still measures its moment.                     *)
LEMMA StillMeasures ==
    ASSUME ClockTypes, Base \in Int, Reads \/ Passes,
           NEW t \in Int, NEW m \in Moments, Measures(t, m)
    PROVE  Measures(t, m)'
<1> DEFINE N == MHZ - 1
<1>1. m.at \in Nat /\ m.reads \in Nat /\ N \in Nat /\ MHZ \in Nat /\ clock.time_us \in Nat
      /\ reads \in Nat
  BY ClockAssumption, BoundAssumption DEF Moments, ClockTypes, Clocks
<1>2. PICK lost \in Nat, k \in Nat :
        /\ k = reads - m.reads - 1 /\ lost <= N * k
        /\ Base - m.at = MHZ * (clock.time_us - t) + lost
  <2>1. reads - m.reads - 1 \in Nat
    BY <1>1 DEF Measures
  <2>2. PICK d \in Int : d = MHZ * (clock.time_us - t)
    BY <1>1
  <2>3. (Base - m.at) - d \in 0..(N * (reads - m.reads - 1))
    BY <2>2 DEF Measures
  <2>4. PICK c \in Int : c = N * (reads - m.reads - 1)
    BY <1>1, <2>1
  <2>5. (Base - m.at) - d \in Nat /\ (Base - m.at) - d <= c /\ Base - m.at = d + ((Base - m.at) - d)
    BY <1>1, <2>3, <2>4
  <2> QED
    BY <2>1, <2>2, <2>4, <2>5
<1>3. CASE Passes
  <2>1. Base' = Base /\ clock' = clock /\ reads' = reads
    BY <1>3 DEF Passes, clockVars
  <2> QED
    BY <2>1, Zenon DEF Measures
<1>4. CASE Reads
  <2>1. PICK gain \in Nat, rest \in 0..N :
          /\ cycles = Base + MHZ * gain + rest
          /\ clock' \in Clocks /\ clock'.time_us = clock.time_us + gain
          /\ reads' = reads + 1
    BY <1>4, ReadFacts
  <2>2. Base' = cycles
    BY <1>4 DEF Reads
  <2>3. t \in 0..clock'.time_us /\ m.reads < reads'
    BY <1>1, <2>1 DEF Measures
  <2>4. MHZ * (clock'.time_us - t) = MHZ * (clock.time_us - t) + MHZ * gain
    BY <1>1, <2>1
  <2>5. PICK d \in Int, g \in Int : d = MHZ * (clock.time_us - t) /\ g = MHZ * gain
    BY <1>1
  <2>6. (Base' - m.at) - MHZ * (clock'.time_us - t) = lost + rest
    <3>1. PICK a \in Int, b \in Int : a = m.at /\ b = Base /\ b - a = d + lost
      BY <1>1, <1>2, <2>5
    <3>2. PICK n \in Int, x \in Int :
            /\ n = Base' /\ n = b + g + rest
            /\ x = MHZ * (clock'.time_us - t) /\ x = d + g
      <4>1. Base' = b + g + rest /\ MHZ * (clock'.time_us - t) = d + g
        BY <2>1, <2>2, <2>4, <2>5, <3>1
      <4>2. b + g + rest \in Int /\ d + g \in Int
        BY <2>1, <2>5, <3>1
      <4> QED
        BY <4>1, <4>2
    <3>3. (n - a) - x = lost + rest
      <4>1. d \in Int /\ g \in Int /\ rest \in Int /\ lost \in Int
        BY <1>2, <2>1, <2>5
      <4> QED
        BY <3>1, <3>2, <4>1
    <3> QED
      BY <3>1, <3>2, <3>3, Zenon
  <2>7. N * (reads' - m.reads - 1) = N * k + N
    BY <1>1, <1>2, <2>1
  <2>8. lost + rest \in 0..(N * k + N)
    BY <1>1, <1>2
  <2> QED
    BY <2>3, <2>6, <2>7, <2>8, Zenon DEF Measures
<1> QED
  BY <1>3, <1>4

(* now_us over its roll-overs.                                             *)
LEMMA ClockStep ==
    ASSUME TypeOK, ClockInv, [Next]_vars
    PROVE  ClockInv'
<1> DEFINE N == MHZ - 1
<1>1. ClockTypes /\ Base \in Int /\ (Reads \/ Passes) /\ N \in Nat /\ MHZ \in Nat
  BY TypesOfClock, EachStepTimed, ClockAssumption DEF ClockInv
<1>2. FreshAtPoll'
  <2>1. CASE run
    BY <2>1 DEF run, Read, now_us, FreshAtPoll
  <2>2. CASE sleep_until_us
    BY <2>2 DEF sleep_until_us, Read, now_us, FreshAtPoll
  <2>3. CASE poll \/ CatchUp \/ CaughtUp
    BY <2>3 DEF poll, CatchUp, CaughtUp, FreshAtPoll
  <2>4. CASE UNCHANGED vars \/ \E cmd \in Commands : Arrive(cmd)
    BY <2>4 DEF ClockInv, FreshAtPoll, Arrive, vars, clockVars, loopVars
  <2> QED
    BY <2>1, <2>2, <2>3, <2>4 DEF Next
<1>3. Lag = Base - MHZ * clock.time_us /\ Lag' = Base' - MHZ * clock'.time_us
  BY Zenon DEF Lag, Base, BaseOf
<1>4. PICK lag \in Nat : lag = Base - MHZ * clock.time_us /\ lag <= N * reads
  BY <1>1, <1>3 DEF ClockInv, ClockSurvivesRollover, ClockTypes, Clocks
<1>5. ClockSurvivesRollover'
  <2>1. CASE Passes
    BY <1>3, <2>1 DEF Passes, clockVars, ClockInv, ClockSurvivesRollover
  <2>2. CASE Reads
    <3>1. PICK gain \in Nat, rest \in 0..N :
            /\ cycles = Base + MHZ * gain + rest
            /\ clock' \in Clocks /\ clock'.time_us = clock.time_us + gain
            /\ reads' = reads + 1
      BY <1>1, <2>2, ReadFacts
    <3>2. Base' = cycles
      BY <2>2 DEF Reads
    <3>3. Lag' = lag + rest
      BY <1>1, <1>3, <1>4, <3>1, <3>2 DEF ClockTypes, Clocks
    <3>4. N * reads' = N * reads + N
      BY <1>1, <3>1 DEF ClockTypes
    <3>5. PICK c \in Int : c = N * reads
      BY <1>1 DEF ClockTypes
    <3>6. lag + rest \in 0..(N * reads')
      BY <1>1, <1>4, <3>4, <3>5
    <3> QED
      BY <3>3, <3>6, Zenon DEF ClockSurvivesRollover
  <2> QED
    BY <1>1, <2>1, <2>2
<1> QED
  BY <1>2, <1>5 DEF ClockInv

-----------------------------------------------------------------------------
(* Types, and commands                                                     *)

(* What the head of one queue is appended to, the tail follows.            *)
LEMMA HandedOn ==
    ASSUME NEW S, NEW s \in Seq(S), NEW t \in Seq(S), t # <<>>
    PROVE  /\ Head(t) \in S /\ Tail(t) \in Seq(S)
           /\ Append(s, Head(t)) \o Tail(t) = s \o t
<1>1. Head(t) \in S /\ Tail(t) \in Seq(S)
  BY HeadTailProperties
<1>2. <<Head(t)>> \o Tail(t) = t
  BY <1>1
<1>3. Append(s, Head(t)) = s \o <<Head(t)>>
  BY <1>1, AppendIsConcat
<1>4. (s \o <<Head(t)>>) \o Tail(t) = s \o (<<Head(t)>> \o Tail(t))
  BY <1>1, ConcatAssociative
<1> QED
  BY <1>1, <1>2, <1>3, <1>4

LEMMA QueuedBehind ==
    ASSUME NEW S, NEW s \in Seq(S), NEW t \in Seq(S), NEW e \in S
    PROVE  s \o Append(t, e) = Append(s \o t, e)
<1>1. Append(t, e) = t \o <<e>> /\ s \o t \in Seq(S) /\ Append(s \o t, e) = (s \o t) \o <<e>>
  BY AppendIsConcat, ConcatProperties
<1>2. (s \o t) \o <<e>> = s \o (t \o <<e>>)
  BY ConcatAssociative
<1> QED
  BY <1>1, <1>2

(* The age of the retained setpoint, before and behind the cap.            *)
LEMMA AgeFacts ==
    ASSUME NEW now \in Nat, NEW rx \in Nat, rx <= now, NEW ing, ing.setpoint_rx_us = rx
    PROVE  \E age \in Nat, rest \in 0..(US_PER_MS - 1) :
             /\ now - rx = US_PER_MS * age + rest
             /\ setpoint_age_ms(ing, now) = IF age > AGE_MAX THEN AGE_MAX ELSE age
<1>1. PICK d \in Nat : d = now - rx
  OBVIOUS
<1>2. PICK q \in Int, r \in 0..(US_PER_MS - 1) : q = d \div US_PER_MS /\ d = US_PER_MS * q + r
  <2>1. US_PER_MS \in Nat \ {0} /\ d \in Int
    BY ClockAssumption
  <2> QED
    BY <2>1, Division, Zenon
<1>3. q \in Nat
  <2> SUFFICES ASSUME q < 0 PROVE FALSE
    BY <1>2
  <2>1. US_PER_MS * q + US_PER_MS <= US_PER_MS * 0
    BY <1>2, ClockAssumption, MultipleApart
  <2> QED
    BY <1>1, <1>2, <2>1, ClockAssumption
<1>4. ing.setpoint_rx_us # None /\ (now - ing.setpoint_rx_us) \div US_PER_MS = q
  BY <1>1, <1>2, NoneAssumption, Zenon
<1>5. setpoint_age_ms(ing, now) = IF q > AGE_MAX THEN AGE_MAX ELSE q
  BY <1>4, Zenon DEF setpoint_age_ms
<1> QED
  BY <1>1, <1>2, <1>3, <1>5, Zenon

(* The values a step leaves behind.                                        *)
LoopTypes ==
  /\ transport \in Seq(Commands) /\ seen \in Seq(Commands)
  /\ ingress \in [setpoint : Setpoints \cup {None}, setpoint_rx_us : Nat \cup {None}]
  /\ health \in [link_ok : BOOLEAN, last_cmd_time_us : Nat,
                 ever_received : BOOLEAN, overrun_count : Nat]
  /\ ticks \in Nat
  /\ heard \in [setpoint : Moments \cup {None}, any : Moments \cup {None}]
  /\ stepped \in Moments \cup {None} /\ tick \in Ticks \cup {None}

(* An old stamp is no later than the clock, so every age is a number.      *)
StampsAreOld ==
  /\ ingress.setpoint_rx_us # None => ingress.setpoint_rx_us <= clock.time_us
  /\ health.last_cmd_time_us <= clock.time_us

LEMMA StampsOfMoments ==
    ASSUME TypeOK, StampsAreMoments
    PROVE  StampsAreOld
<1>1. clock.time_us \in Nat
  BY DEF TypeOK
<1> QED
  BY <1>1 DEF StampsAreMoments, Measures, StampsAreOld

LEMMA StepTypes ==
    ASSUME TypeOK, StampsAreOld, cycles < MaxCycles,
           NEW now \in Nat, clock.time_us <= now, step(now)
    PROVE  LoopTypes' /\ Event \in Commands \cup {None}
<1> DEFINE ing == IF Event = None THEN ingress ELSE receive(Event, now)
           h   == update_link_status(IF Event = None THEN health
                                     ELSE command_received(health, now), now)
           age == setpoint_age_ms(ing, now)
<1>1. Moment \in Moments
  BY BoundAssumption DEF Moment, Moments, TypeOK
<1>2. Event \in Commands \cup {None} /\ transport' \in Seq(Commands)
  <2>1. CASE transport = <<>>
    BY <2>1 DEF step, Event, TypeOK
  <2>2. CASE transport # <<>>
    BY <2>2, HeadTailProperties DEF step, Event, TypeOK
  <2> QED
    BY <2>1, <2>2
<1>3. seen' \in Seq(Commands)
  <2>1. seen' = IF Event = None THEN seen ELSE Append(seen, Event)
    BY DEF step
  <2> QED
    BY <1>2, <2>1, AppendProperties DEF TypeOK
<1>4. /\ ing \in [setpoint : Setpoints \cup {None}, setpoint_rx_us : Nat \cup {None}]
      /\ ing.setpoint_rx_us # None => ing.setpoint_rx_us <= now
  BY <1>2 DEF receive, TypeOK, StampsAreOld
<1>5. age \in 0..AGE_MAX
  <2>1. CASE ing.setpoint_rx_us = None
    BY <2>1, ClockAssumption DEF setpoint_age_ms
  <2>2. CASE ing.setpoint_rx_us # None
    <3>1. PICK rx \in Nat : rx = ing.setpoint_rx_us /\ rx <= now
      BY <1>4, <2>2
    <3>2. PICK a \in Nat : age = IF a > AGE_MAX THEN AGE_MAX ELSE a
      BY <3>1, AgeFacts
    <3> QED
      BY <3>2, ClockAssumption
  <2> QED
    BY <2>1, <2>2
<1>6. h \in [link_ok : BOOLEAN, last_cmd_time_us : Nat, ever_received : BOOLEAN,
             overrun_count : Nat]
  <2>1. health \in [link_ok : BOOLEAN, last_cmd_time_us : Nat, ever_received : BOOLEAN,
                    overrun_count : Nat]
    BY DEF TypeOK
  <2>2. command_received(health, now) \in [link_ok : BOOLEAN, last_cmd_time_us : Nat,
                                            ever_received : BOOLEAN, overrun_count : Nat]
    BY <2>1 DEF command_received
  <2>3. PICK g \in [link_ok : BOOLEAN, last_cmd_time_us : Nat, ever_received : BOOLEAN,
                    overrun_count : Nat] :
          g = IF Event = None THEN health ELSE command_received(health, now)
    BY <2>1, <2>2
  <2>4. h = [g EXCEPT !.link_ok = now - g.last_cmd_time_us < LINK_TIMEOUT_US]
    BY <2>3, Zenon DEF update_link_status
  <2>5. (now - g.last_cmd_time_us < LINK_TIMEOUT_US) \in BOOLEAN
    BY ClockAssumption
  <2> HIDE DEF h
  <2> QED
    BY <2>3, <2>4, <2>5
<1>7. ingress' = ing /\ ticks' = ticks + 1 /\ stepped' = Moment
      /\ tick' = [tick_us |-> next_tick, event |-> Event, setpoint |-> ing.setpoint,
                  setpoint_age_ms |-> age, link_ok |-> h.link_ok]
      /\ health' = [h EXCEPT !.overrun_count = @ + (IF steps + 1 >= MAX_CATCH_UP THEN 1 ELSE 0)]
  BY Zenon DEF step
<1>8. heard' = [setpoint |-> IF Event \in Setpoints THEN Moment ELSE heard.setpoint,
                any |-> IF Event # None THEN Moment ELSE heard.any]
  BY Zenon DEF step
<1> HIDE DEF ing, h, age
<1>9. tick' \in Ticks
  BY <1>2, <1>4, <1>5, <1>6, <1>7 DEF Ticks, TypeOK
<1>10. health' \in [link_ok : BOOLEAN, last_cmd_time_us : Nat, ever_received : BOOLEAN,
                   overrun_count : Nat]
  BY <1>6, <1>7
<1>11. heard' \in [setpoint : Moments \cup {None}, any : Moments \cup {None}]
  <2>1. heard.setpoint \in Moments \cup {None} /\ heard.any \in Moments \cup {None}
    BY DEF TypeOK
  <2> QED
    BY <1>1, <1>8, <2>1
<1>12. ticks' \in Nat /\ ingress' \in [setpoint : Setpoints \cup {None}, setpoint_rx_us : Nat \cup {None}]
  BY <1>4, <1>7 DEF TypeOK
<1> QED
  BY <1>1, <1>2, <1>3, <1>7, <1>9, <1>10, <1>11, <1>12 DEF LoopTypes

(* command_received, update_link_status and the overrun of a step.         *)
LEMMA HealthOfStep ==
    ASSUME TypeOK, NEW now \in Nat, step(now)
    PROVE  /\ health'.overrun_count =
                health.overrun_count + (IF steps + 1 >= MAX_CATCH_UP THEN 1 ELSE 0)
           /\ health'.last_cmd_time_us = IF Event = None THEN health.last_cmd_time_us ELSE now
           /\ health'.link_ok = (now - health'.last_cmd_time_us < LINK_TIMEOUT_US)
           /\ tick'.link_ok = health'.link_ok
<1> DEFINE Healths == [link_ok : BOOLEAN, last_cmd_time_us : Nat, ever_received : BOOLEAN,
                       overrun_count : Nat]
           first == IF Event = None THEN health ELSE command_received(health, now)
           last == IF Event = None THEN health.last_cmd_time_us ELSE now
<1>1. PICK g \in Healths :
        g = first /\ g.overrun_count = health.overrun_count /\ g.last_cmd_time_us = last
  <2>1. health \in Healths
    BY DEF TypeOK
  <2>2. first \in Healths /\ first.overrun_count = health.overrun_count
        /\ first.last_cmd_time_us = last
    BY <2>1 DEF command_received
  <2> QED
    BY <2>2
<1>2. health' = [update_link_status(g, now) EXCEPT !.overrun_count =
                   @ + (IF steps + 1 >= MAX_CATCH_UP THEN 1 ELSE 0)]
  BY <1>1, Zenon DEF step
<1> HIDE DEF first, last
<1>3. PICK u \in Healths :
        /\ u = update_link_status(g, now) /\ u.overrun_count = health.overrun_count
        /\ u.last_cmd_time_us = last /\ u.link_ok = (now - last < LINK_TIMEOUT_US)
  <2>1. PICK ok \in BOOLEAN : ok = (now - g.last_cmd_time_us < LINK_TIMEOUT_US)
    <3>1. (now - g.last_cmd_time_us < LINK_TIMEOUT_US) \in BOOLEAN
      OBVIOUS
    <3> QED
      BY <3>1, Zenon
  <2>2. update_link_status(g, now) = [g EXCEPT !.link_ok = ok]
    BY <2>1, Zenon DEF update_link_status
  <2> QED
    BY <1>1, <2>1, <2>2
<1>4. /\ health'.overrun_count = u.overrun_count + (IF steps + 1 >= MAX_CATCH_UP THEN 1 ELSE 0)
      /\ health'.last_cmd_time_us = u.last_cmd_time_us /\ health'.link_ok = u.link_ok
  BY <1>2, <1>3
<1>5. \E t, e, st, a : tick' = [tick_us |-> t, event |-> e, setpoint |-> st, setpoint_age_ms |-> a,
                               link_ok |-> u.link_ok]
  BY <1>1, <1>3, Zenon DEF step, first
<1>6. tick'.link_ok = u.link_ok
  BY <1>5
<1> QED
  BY <1>3, <1>4, <1>6 DEF last

LEMMA TypeInit == Init => TypeOK
<1> SUFFICES ASSUME Init PROVE TypeOK
  OBVIOUS
<1>1. cycles \in Nat
  BY CostAssumption DEF Init
<1>2. clock \in [last_cyccnt : 0..(CYC_RANGE - 1), time_us : Nat]
  BY ClockAssumption DEF Init
<1>3. <<>> \in Seq(Commands)
  BY EmptySeq
<1> QED
  BY <1>1, <1>2, <1>3, ClockAssumption DEF Init, TypeOK

LEMMA TypeStep ==
    ASSUME TypeOK, ClockInv, StampsAreOld, [Next]_vars
    PROVE  TypeOK'
<1>1. ClockTypes /\ Base \in Int /\ (Reads \/ Passes)
  BY TypesOfClock, EachStepTimed DEF ClockInv
<1>2. cycles' \in Nat /\ clock' \in Clocks /\ reads' \in Nat /\ clock.time_us <= clock'.time_us
  <2>1. CASE Reads
    <3>1. PICK gain \in Nat, rest \in 0..(MHZ - 1) :
            clock' \in Clocks /\ clock'.time_us = clock.time_us + gain /\ reads' = reads + 1
      BY <1>1, <2>1, ReadFacts
    <3> QED
      BY <1>1, <2>1, <3>1 DEF Reads, ClockTypes, Clocks
  <2>2. CASE Passes
    BY <1>1, <2>2 DEF Passes, clockVars, ClockTypes, Clocks
  <2> QED
    BY <1>1, <2>1, <2>2
<1>3. PICK now \in Nat : now = clock'.time_us /\ clock.time_us <= now
  BY <1>2 DEF Clocks
<1>4. LoopTypes
  BY DEF TypeOK, LoopTypes
<1>5. LoopTypes' /\ sent' \in Seq(Commands)
  <2>1. CASE CatchUp
    <3>1. step(now) /\ sent' = sent
      BY <1>3, <2>1, Zenon DEF CatchUp
    <3>2. cycles < MaxCycles
      BY <2>1 DEF Next, CatchUp, vars, loopVars
    <3> QED
      BY <1>3, <3>1, <3>2, StepTypes DEF TypeOK
  <2>2. ASSUME NEW cmd \in Commands, Arrive(cmd) PROVE LoopTypes' /\ sent' \in Seq(Commands)
    <3>1. transport' = Append(transport, cmd) /\ sent' = Append(sent, cmd) /\ UNCHANGED stepVars
      BY <2>2 DEF Arrive
    <3>2. transport' \in Seq(Commands) /\ sent' \in Seq(Commands)
      BY <3>1, AppendProperties DEF TypeOK
    <3> QED
      BY <1>4, <3>1, <3>2 DEF LoopTypes, stepVars
  <2>3. CASE run \/ poll \/ CaughtUp \/ sleep_until_us \/ UNCHANGED vars
    <3>1. UNCHANGED <<stepVars, linkVars>>
      BY <2>3 DEF run, poll, CaughtUp, sleep_until_us, vars
    <3> QED
      BY <1>4, <3>1 DEF LoopTypes, stepVars, linkVars, TypeOK
  <2> QED
    BY <2>1, <2>2, <2>3 DEF Next
<1>6. next_tick' \in Nat
  <2>1. CASE CatchUp
    <3>1. next_tick' = Advanced(now)
      BY <1>3, <2>1 DEF CatchUp
    <3> QED
      BY <3>1, ClockAssumption DEF Advanced, TypeOK
  <2>2. CASE run
    BY <1>3, <2>2 DEF run
  <2> QED
    BY <2>1, <2>2 DEF Next, poll, CaughtUp, sleep_until_us, Arrive, loopVars, vars, TypeOK
<1>7. pc' \in {"start", "poll", "check", "sleep"}
  BY DEF Next, run, poll, CatchUp, CaughtUp, sleep_until_us, Arrive, loopVars, vars, TypeOK
<1>8. steps' \in 0..MAX_CATCH_UP /\ (pc' = "check" => steps' < MAX_CATCH_UP)
  <2>1. CASE CatchUp
    BY <2>1, ClockAssumption DEF CatchUp, TypeOK
  <2>2. CASE poll
    BY <2>2, ClockAssumption DEF poll
  <2> QED
    BY <2>1, <2>2 DEF Next, run, CaughtUp, sleep_until_us, Arrive, loopVars, vars, TypeOK
<1>9. kicked' \in Nat
  <2>1. CASE CatchUp
    <3>1. PICK c \in StepCycles : kicked' = cycles + c
      BY <2>1 DEF CatchUp, Kick
    <3> QED
      BY <1>1, <3>1, CostAssumption DEF ClockTypes
  <2> QED
    BY <2>1 DEF Next, run, poll, CaughtUp, sleep_until_us, Arrive, stepVars, vars, TypeOK
<1>10. first_tick' \in Nat \cup {None}
  BY <1>3 DEF Next, run, poll, CatchUp, CaughtUp, sleep_until_us, Arrive, vars, TypeOK
<1> QED
  BY <1>2, <1>5, <1>6, <1>7, <1>8, <1>9, <1>10 DEF TypeOK, LoopTypes, Clocks

-----------------------------------------------------------------------------
(* Commands, schedule and stamps, step by step                             *)

LEMMA EventsStep ==
    ASSUME TypeOK, EventsExactlyOnce, [Next]_vars
    PROVE  EventsExactlyOnce'
<1> USE DEF EventsExactlyOnce
<1>1. CASE CatchUp
  <2>1. sent' = sent
    BY <1>1 DEF CatchUp
  <2>2. /\ transport' = IF transport = <<>> THEN <<>> ELSE Tail(transport)
        /\ seen' = IF Event = None THEN seen ELSE Append(seen, Event)
    BY <1>1 DEF CatchUp, step
  <2>3. CASE transport = <<>>
    BY <2>1, <2>2, <2>3 DEF Event
  <2>4. CASE transport # <<>>
    <3>1. transport \in Seq(Commands) /\ seen \in Seq(Commands)
      BY DEF TypeOK
    <3>2. Head(transport) \in Commands
          /\ Append(seen, Head(transport)) \o Tail(transport) = seen \o transport
      BY <2>4, <3>1, HandedOn
    <3>3. Event = Head(transport) /\ Event # None
      BY <2>4, <3>2, CommandAssumption DEF Event
    <3> QED
      BY <2>1, <2>2, <2>4, <3>2, <3>3
  <2> QED
    BY <2>3, <2>4
<1>2. ASSUME NEW cmd \in Commands, Arrive(cmd) PROVE EventsExactlyOnce'
  <2>1. transport' = Append(transport, cmd) /\ sent' = Append(sent, cmd) /\ seen' = seen
    BY <1>2 DEF Arrive, stepVars
  <2>2. seen \o Append(transport, cmd) = Append(seen \o transport, cmd)
    BY QueuedBehind DEF TypeOK
  <2> QED
    BY <2>1, <2>2
<1>3. CASE run \/ poll \/ CaughtUp \/ sleep_until_us \/ UNCHANGED vars
  BY <1>3 DEF run, poll, CaughtUp, sleep_until_us, vars, stepVars, linkVars
<1> QED
  BY <1>1, <1>2, <1>3 DEF Next

(* run: the grid of ticks, and what an overrun gives up of it.             *)
LEMMA ScheduleStep ==
    ASSUME TypeOK, ClockInv, ScheduleInv, [Next]_vars
    PROVE  ScheduleInv'
<1> DEFINE controlled == first_tick + ticks * PERIOD
<1>1. ClockTypes /\ Base \in Int /\ (Reads \/ Passes)
  BY TypesOfClock, EachStepTimed DEF ClockInv
<1>2. clock.time_us \in Nat /\ clock'.time_us \in Nat /\ clock.time_us <= clock'.time_us
  <2>1. CASE Reads
    <3>1. PICK gain \in Nat, rest \in 0..(MHZ - 1) :
            clock' \in Clocks /\ clock'.time_us = clock.time_us + gain
      BY <1>1, <2>1, ReadFacts
    <3> QED
      BY <1>1, <3>1 DEF ClockTypes, Clocks
  <2>2. CASE Passes
    BY <1>1, <2>2 DEF Passes, clockVars, ClockTypes, Clocks
  <2> QED
    BY <1>1, <2>1, <2>2
<1>3. CASE CatchUp
  <2>1. PICK now \in Nat : now = clock'.time_us /\ clock.time_us <= now
    BY <1>2
  <2>2. /\ ticks' = ticks + 1 /\ first_tick' = first_tick /\ next_tick' = Advanced(now)
        /\ next_tick <= now /\ pc = "check" /\ pc' # "start"
    BY <1>3, <2>1 DEF CatchUp, step, Due, Read
  <2>3. health'.overrun_count = health.overrun_count + (IF steps + 1 >= MAX_CATCH_UP THEN 1 ELSE 0)
    BY <1>3, <2>1, HealthOfStep DEF CatchUp, Read
  <2>4. PICK f \in Nat, t \in Nat, o \in Nat :
          /\ f = first_tick /\ t = ticks /\ o = health.overrun_count
          /\ (o = 0 => next_tick = f + t * PERIOD)
          /\ f + t * PERIOD <= next_tick + o * PERIOD
    BY <2>2, NoneAssumption DEF ScheduleInv, ControlledTimeTracksClock, TypeOK
  <2>5. (t + 1) * PERIOD = t * PERIOD + PERIOD /\ (o + 1) * PERIOD = o * PERIOD + PERIOD
    BY ClockAssumption
  <2>6. PICK n \in Nat, tp \in Nat, op \in Nat, p \in Nat \ {0}, tq \in Nat, oq \in Nat :
          /\ n = next_tick /\ n <= now /\ p = PERIOD
          /\ tp = t * PERIOD /\ op = o * PERIOD
          /\ tq = (t + 1) * PERIOD /\ oq = (o + 1) * PERIOD
          /\ tq = tp + p /\ oq = op + p
          /\ o = 0 => n = f + tp
          /\ f + tp <= n + op
    <3>1. t * PERIOD \in Nat /\ o * PERIOD \in Nat /\ (t + 1) * PERIOD \in Nat
          /\ (o + 1) * PERIOD \in Nat /\ PERIOD \in Nat \ {0}
      BY ClockAssumption
    <3>2. next_tick \in Nat
      BY DEF TypeOK
    <3> QED
      BY <2>2, <2>4, <2>5, <3>1, <3>2
  <2>7. CASE steps + 1 >= MAX_CATCH_UP
    <3>1. next_tick' = now /\ health'.overrun_count = o + 1
      BY <2>2, <2>3, <2>4, <2>7 DEF Advanced
    <3>2. f + tq <= now + oq /\ now <= now + p /\ o + 1 # 0
      BY <2>1, <2>4, <2>6
    <3>3. f + (t + 1) * PERIOD <= now + (o + 1) * PERIOD /\ now <= now + PERIOD
      BY <2>6, <3>2, Zenon
    <3> QED
      BY <2>1, <2>2, <2>4, <3>1, <3>2, <3>3, NoneAssumption
         DEF ScheduleInv, ControlledTimeTracksClock
  <2>8. CASE ~(steps + 1 >= MAX_CATCH_UP)
    <3>1. next_tick' = next_tick + PERIOD /\ health'.overrun_count = o
      BY <2>2, <2>3, <2>4, <2>8 DEF Advanced
    <3>2. /\ o = 0 => n + p = f + tq
          /\ f + tq <= n + p + op
          /\ n + p <= now + p
      BY <2>1, <2>4, <2>6
    <3>3. /\ o = 0 => next_tick + PERIOD = f + (t + 1) * PERIOD
          /\ f + (t + 1) * PERIOD <= next_tick + PERIOD + o * PERIOD
          /\ next_tick + PERIOD <= now + PERIOD
      BY <2>6, <3>2, Zenon
    <3> QED
      BY <2>1, <2>2, <2>4, <3>1, <3>3, NoneAssumption DEF ScheduleInv, ControlledTimeTracksClock
  <2> QED
    BY <2>7, <2>8
<1>4. CASE run
  <2>1. PICK now \in Nat : now = clock'.time_us /\ first_tick' = now /\ next_tick' = now
    BY <1>2, <1>4 DEF run
  <2>2. /\ ticks' = ticks /\ health' = health /\ pc' = "poll"
        /\ ticks = 0 /\ health.overrun_count = 0
    BY <1>4 DEF run, stepVars, ScheduleInv
  <2>3. now + 0 * PERIOD = now /\ now <= now + 0 * PERIOD /\ now <= now + PERIOD
    BY ClockAssumption
  <2> QED
    BY <2>1, <2>2, <2>3, NoneAssumption DEF ScheduleInv, ControlledTimeTracksClock
<1>5. CASE poll \/ CaughtUp \/ sleep_until_us \/ UNCHANGED vars \/ \E cmd \in Commands : Arrive(cmd)
  <2>1. /\ first_tick' = first_tick /\ ticks' = ticks /\ health' = health
        /\ next_tick' = next_tick /\ (pc' = "start" <=> pc = "start")
    BY <1>5 DEF poll, CaughtUp, sleep_until_us, vars, Arrive, stepVars, loopVars
  <2>2. next_tick <= clock.time_us + PERIOD => next_tick <= clock'.time_us + PERIOD
    BY <1>2, ClockAssumption DEF TypeOK
  <2> QED
    BY <2>1, <2>2, Zenon DEF ScheduleInv, ControlledTimeTracksClock
<1> QED
  BY <1>3, <1>4, <1>5 DEF Next

(* What a reading finds: the present moment is measured by the reading.    *)
LEMMA NowMeasures ==
    ASSUME ClockTypes, Base \in Int, Reads,
           NEW t, t = clock'.time_us, NEW m \in Moments, m.at = cycles, m.reads = reads
    PROVE  t \in Nat /\ Measures(t, m)'
<1>1. PICK gain \in Nat, rest \in 0..(MHZ - 1) :
        /\ clock' \in Clocks /\ clock'.time_us = clock.time_us + gain
        /\ reads' = reads + 1
  BY ReadFacts
<1>2. t \in Nat /\ t \in 0..clock'.time_us /\ m.reads < reads' /\ reads' - m.reads - 1 = 0
  BY <1>1 DEF ClockTypes, Clocks
<1>3. Base' - m.at = 0 /\ clock'.time_us - t = 0
  BY <1>2 DEF Reads, ClockTypes
<1>4. MHZ * 0 = 0 /\ (MHZ - 1) * 0 = 0 /\ 0 - 0 \in 0..0
  BY ClockAssumption
<1> QED
  BY <1>2, <1>3, <1>4, Zenon DEF Measures

LEMMA StampsStep ==
    ASSUME TypeOK, ClockInv, StampsAreMoments, [Next]_vars
    PROVE  StampsAreMoments'
<1>1. ClockTypes /\ Base \in Int /\ (Reads \/ Passes)
  BY TypesOfClock, EachStepTimed DEF ClockInv
<1>2. clock.time_us \in Nat /\ clock'.time_us \in Nat /\ clock.time_us <= clock'.time_us
  <2>1. CASE Reads
    <3>1. PICK gain \in Nat, rest \in 0..(MHZ - 1) :
            clock' \in Clocks /\ clock'.time_us = clock.time_us + gain
      BY <1>1, <2>1, ReadFacts
    <3> QED
      BY <1>1, <3>1 DEF ClockTypes, Clocks
  <2>2. CASE Passes
    BY <1>1, <2>2 DEF Passes, clockVars, ClockTypes, Clocks
  <2> QED
    BY <1>1, <2>1, <2>2
<1>3. health.last_cmd_time_us \in Nat /\ health.last_cmd_time_us <= clock.time_us
      /\ heard.setpoint \in Moments \cup {None} /\ heard.any \in Moments \cup {None}
  BY DEF TypeOK, StampsAreMoments
<1>4. heard.setpoint = None => ingress.setpoint = None /\ ingress.setpoint_rx_us = None
  BY DEF StampsAreMoments
<1>5. ASSUME heard.setpoint # None
      PROVE  Measures(ingress.setpoint_rx_us, heard.setpoint)
             /\ ingress.setpoint_rx_us \in Int
  <2>1. Measures(ingress.setpoint_rx_us, heard.setpoint)
    BY <1>5 DEF StampsAreMoments
  <2> QED
    BY <1>2, <2>1 DEF Measures
<1>6. ASSUME heard.setpoint # None, ingress' = ingress, heard'.setpoint = heard.setpoint
      PROVE  Measures(ingress.setpoint_rx_us, heard.setpoint)'
  <2>1. PICK t \in Int, m \in Moments :
          t = ingress.setpoint_rx_us /\ m = heard.setpoint /\ Measures(t, m)
    BY <1>3, <1>5, <1>6
  <2>2. Measures(t, m)'
    BY <1>1, <2>1, StillMeasures
  <2> QED
    BY <1>6, <2>1, <2>2
<1>7. ASSUME heard.any # None, health'.last_cmd_time_us = health.last_cmd_time_us,
             heard'.any = heard.any
      PROVE  Measures(health.last_cmd_time_us, heard.any)'
  <2>1. PICK t \in Int, m \in Moments :
          t = health.last_cmd_time_us /\ m = heard.any /\ Measures(t, m)
    BY <1>3, <1>7 DEF StampsAreMoments
  <2>2. Measures(t, m)'
    BY <1>1, <2>1, StillMeasures
  <2> QED
    BY <1>7, <2>1, <2>2
<1>8. CASE CatchUp
  <2>1. Reads /\ cycles < MaxCycles
    <3>1. Read /\ \E c \in StepCycles : cycles' = cycles + c
      BY <1>8 DEF CatchUp
    <3>2. cycles < MaxCycles
      BY <1>8 DEF Next, CatchUp, vars, loopVars, TypeOK
    <3> QED
      BY <1>1, <3>1, <3>2, CostAssumption, ReadThenWork
  <2>2. PICK m \in Moments : m = Moment /\ m.at = cycles /\ m.reads = reads
    <3>1. Moment \in Moments
      BY <1>1, <2>1, BoundAssumption DEF Moment, Moments, ClockTypes
    <3>2. Moment.at = cycles /\ Moment.reads = reads
      BY DEF Moment
    <3> QED
      BY <3>1, <3>2
  <2>3. PICK now \in Nat : now = clock'.time_us /\ Measures(now, m)' /\ step(now)
    <3>1. PICK now : now = clock'.time_us
      OBVIOUS
    <3>2. now \in Nat /\ Measures(now, m)'
      BY <1>1, <2>1, <2>2, <3>1, NowMeasures
    <3>3. step(now)
      BY <1>8, <3>1, Zenon DEF CatchUp
    <3> QED
      BY <3>1, <3>2, <3>3
  <2>4. m # None /\ Event \in Commands \cup {None}
    <3>1. transport # <<>> => Head(transport) \in Commands
      BY HeadTailProperties DEF TypeOK
    <3> QED
      BY <3>1, NoneAssumption DEF Event
  <2>5. /\ heard'.setpoint = IF Event \in Setpoints THEN m ELSE heard.setpoint
        /\ heard'.any = IF Event # None THEN m ELSE heard.any
        /\ ingress' = IF Event = None THEN ingress ELSE receive(Event, now)
        /\ health'.last_cmd_time_us = IF Event = None THEN health.last_cmd_time_us ELSE now
    BY <2>2, <2>3, HealthOfStep DEF step
  <2>6. IF heard'.setpoint = None
        THEN ingress'.setpoint = None /\ ingress'.setpoint_rx_us = None
        ELSE Measures(ingress.setpoint_rx_us, heard.setpoint)'
    <3>1. CASE Event \in Setpoints
      <4>1. Event # None
        BY <3>1, CommandAssumption DEF Commands
      <4>2. ingress'.setpoint_rx_us = now /\ heard'.setpoint = m
        BY <2>5, <3>1, <4>1 DEF receive
      <4> QED
        BY <2>3, <2>4, <4>2
    <3>2. CASE Event \notin Setpoints
      <4>1. ingress' = ingress /\ heard'.setpoint = heard.setpoint
        BY <2>5, <3>2 DEF receive
      <4> QED
        BY <1>4, <1>6, <4>1
    <3> QED
      BY <3>1, <3>2
  <2>7. /\ health'.last_cmd_time_us <= clock'.time_us
        /\ heard'.any # None => Measures(health.last_cmd_time_us, heard.any)'
    <3>1. CASE Event = None
      <4>1. health'.last_cmd_time_us = health.last_cmd_time_us /\ heard'.any = heard.any
        BY <2>5, <3>1
      <4>2. health'.last_cmd_time_us <= clock'.time_us
        BY <1>2, <1>3, <4>1
      <4> QED
        BY <1>7, <4>1, <4>2
    <3>2. CASE Event # None
      <4>1. health'.last_cmd_time_us = now /\ heard'.any = m
        BY <2>5, <3>2
      <4> QED
        BY <2>3, <4>1
    <3> QED
      BY <3>1, <3>2
  <2> QED
    BY <2>6, <2>7 DEF StampsAreMoments
<1>9. CASE ~CatchUp
  <2>1. ingress' = ingress /\ health' = health /\ heard' = heard
    BY <1>9 DEF Next, run, poll, CaughtUp, sleep_until_us, Arrive, stepVars, vars
  <2>2. health'.last_cmd_time_us <= clock'.time_us
    BY <1>2, <1>3, <2>1
  <2> QED
    BY <1>4, <1>6, <1>7, <2>1, <2>2 DEF StampsAreMoments
<1> QED
  BY <1>8, <1>9

-----------------------------------------------------------------------------
(* Ages                                                                    *)

(* An age of whole milliseconds, of a duration the clock took for D.       *)
LEMMA AgeArithmetic ==
    ASSUME NEW D \in Nat, NEW lost \in Nat, NEW bound \in Nat, lost <= bound,
           NEW T \in Nat, T = MHZ * D + lost,
           NEW a \in Nat, NEW rest \in 0..(US_PER_MS - 1), D = US_PER_MS * a + rest,
           NEW age \in Nat, age = IF a > AGE_MAX THEN AGE_MAX ELSE a
    PROVE  /\ MHZ * US_PER_MS * age <= T
           /\ age < AGE_MAX => T - bound < MHZ * US_PER_MS * age + MHZ * US_PER_MS
<1>1. MHZ \in Nat \ {0} /\ US_PER_MS \in Nat \ {0} /\ AGE_MAX \in Nat
  BY ClockAssumption
<1>2. PICK MD \in Nat, MU \in Nat, MUg \in Nat, Mr \in Nat :
        /\ MD = MHZ * D /\ MU = MHZ * US_PER_MS /\ MUg = MHZ * US_PER_MS * age /\ Mr = MHZ * rest
  <2>1. MHZ * D \in Nat /\ MHZ * US_PER_MS \in Nat /\ MHZ * US_PER_MS * age \in Nat
        /\ MHZ * rest \in Nat
    BY <1>1
  <2> QED
    BY <2>1
<1>3. MUg <= MD
  <2>1. US_PER_MS * age <= US_PER_MS * a
    BY <1>1, ProductOrder
  <2>2. PICK u \in Nat, v \in Nat : u = US_PER_MS * age /\ v = US_PER_MS * a
    BY <1>1
  <2>3. u <= D
    BY <1>1, <2>1, <2>2
  <2>4. MHZ * u <= MHZ * D
    BY <1>1, <2>3, ProductOrder
  <2>5. MHZ * US_PER_MS * age = MHZ * u
    BY <1>1, <2>2
  <2> QED
    BY <1>2, <2>4, <2>5
<1>4. Mr < MU
  <2>1. MHZ * rest + MHZ <= MHZ * US_PER_MS
    BY <1>1, MultipleApart
  <2> QED
    BY <1>1, <1>2, <2>1
<1>5. ASSUME age < AGE_MAX PROVE MD = MUg + Mr
  <2>1. age = a
    BY <1>1, <1>5
  <2>2. MHZ * (US_PER_MS * a + rest) = MHZ * US_PER_MS * a + MHZ * rest
    BY <1>1
  <2> QED
    BY <1>2, <2>1, <2>2
<1>6. T = MD + lost
  BY <1>2
<1>7. MUg <= T /\ (age < AGE_MAX => T - bound < MUg + MU)
  BY <1>2, <1>3, <1>4, <1>5, <1>6
<1> QED
  BY <1>2, <1>7, Zenon

(* A timeout in microseconds, of a duration the clock took for D.          *)
LEMMA TimeoutArithmetic ==
    ASSUME NEW D \in Nat, NEW lost \in Nat, NEW bound \in Nat, lost <= bound,
           NEW T \in Nat, T = MHZ * D + lost
    PROVE  IF D < LINK_TIMEOUT_US THEN T - bound < MHZ * LINK_TIMEOUT_US
                                  ELSE T >= MHZ * LINK_TIMEOUT_US
<1>1. MHZ \in Nat \ {0} /\ LINK_TIMEOUT_US \in Nat
  BY ClockAssumption
<1>2. PICK MD \in Nat, MT \in Nat : MD = MHZ * D /\ MT = MHZ * LINK_TIMEOUT_US
  BY <1>1
<1>3. CASE D < LINK_TIMEOUT_US
  <2>1. MHZ * D + MHZ <= MHZ * LINK_TIMEOUT_US
    BY <1>1, <1>3, MultipleApart
  <2>2. MD + MHZ <= MT /\ T = MD + lost
    BY <1>2, <2>1
  <2>3. T - bound < MT
    BY <1>1, <1>2, <2>2
  <2> QED
    BY <1>2, <1>3, <2>3, Zenon
<1>4. CASE ~(D < LINK_TIMEOUT_US)
  <2>1. MHZ * LINK_TIMEOUT_US <= MHZ * D
    BY <1>1, <1>4, ProductOrder
  <2>2. MT <= MD /\ T = MD + lost
    BY <1>2, <2>1
  <2>3. T >= MT
    BY <1>2, <2>2
  <2> QED
    BY <1>2, <1>4, <2>3, Zenon
<1> QED
  BY <1>3, <1>4

(* What a stamp says of the time between its moment and a step's.          *)
LEMMA MeasuredSpan ==
    ASSUME NEW now \in Nat, now = clock'.time_us, NEW s \in Moments, s.at = Base',
           reads' = s.reads + 1, NEW t, NEW m \in Moments, Measures(t, m)'
    PROVE  \E D \in Nat, lost \in Nat :
             /\ D = now - t /\ t \in Nat /\ t <= now
             /\ Passed(m, s) \in Nat /\ Passed(m, s) = MHZ * D + lost
             /\ Lost(m, s) \in Nat /\ lost <= Lost(m, s)
<1>1. m.at \in Nat /\ m.reads \in Nat /\ s.at \in Nat /\ s.reads \in Nat /\ MHZ \in Nat \ {0}
  BY ClockAssumption, BoundAssumption DEF Moments
<1>2. t \in 0..now /\ m.reads < s.reads + 1
  BY DEF Measures
<1>3. PICK D \in Nat, k \in Nat : D = now - t /\ k = s.reads - m.reads
  BY <1>1, <1>2
<1>4. (s.at - m.at) - MHZ * (now - t) \in 0..((MHZ - 1) * ((s.reads + 1) - m.reads - 1))
  <2> DEFINE Span(time, base, n) ==
               (base - m.at) - MHZ * (time - t) \in 0..((MHZ - 1) * (n - m.reads - 1))
  <2>1. Span(clock'.time_us, Base', reads')
    BY Zenon DEF Measures
  <2>2. Span(now, s.at, s.reads + 1)
    <3> HIDE DEF Span
    <3> QED
      BY <2>1
  <2> QED
    BY <2>2
<1>5. (s.reads + 1) - m.reads - 1 = k
  BY <1>1, <1>3
<1>6. PICK d \in Nat, b \in Nat : d = MHZ * D /\ b = (MHZ - 1) * k
  BY <1>1
<1>7. (s.at - m.at) - d \in 0..b
  BY <1>3, <1>4, <1>5, <1>6
<1>8. PICK lost \in Nat : s.at - m.at = d + lost /\ lost <= b
  <2>1. PICK x \in Int : x = (s.at - m.at) - d
    BY <1>1, <1>6
  <2>2. d \in Nat /\ b \in Nat
    BY <1>6
  <2>3. x \in 0..b
    BY <1>7, <2>1, Zenon
  <2>4. x \in Nat /\ x <= b /\ s.at - m.at = d + x
    BY <1>1, <2>1, <2>2, <2>3
  <2> QED
    BY <2>4
<1>9. Passed(m, s) = d + lost /\ Lost(m, s) = b
  BY <1>3, <1>6, <1>8, Zenon DEF Passed, Lost
<1>10. d + lost \in Nat
  BY <1>6, <1>8
<1>11. t \in Nat /\ t <= now
  BY <1>2
<1> QED
  BY <1>3, <1>6, <1>8, <1>9, <1>10, <1>11

LEMMA AgesStep ==
    ASSUME TypeOK, ClockInv, StampsAreMoments, StampsAreMoments', TypeOK', AgesAreTrue,
           [Next]_vars
    PROVE  AgesAreTrue'
<1>1. ClockTypes /\ Base \in Int /\ (Reads \/ Passes)
  BY TypesOfClock, EachStepTimed DEF ClockInv
<1>2. CASE ~CatchUp
  <2>1. tick' = tick /\ heard' = heard /\ stepped' = stepped
    BY <1>2 DEF Next, run, poll, CaughtUp, sleep_until_us, Arrive, stepVars, vars
  <2> QED
    BY <2>1, Zenon DEF AgesAreTrue, SetpointAgeIsTrue, LinkLossIsNoticed
<1>3. CASE CatchUp
  <2>1. Reads /\ cycles < MaxCycles
    <3>1. Read /\ \E c \in StepCycles : cycles' = cycles + c
      BY <1>3 DEF CatchUp
    <3>2. cycles < MaxCycles
      BY <1>3 DEF Next, CatchUp, vars, loopVars, TypeOK
    <3> QED
      BY <1>1, <3>1, <3>2, CostAssumption, ReadThenWork
  <2>2. PICK s \in Moments : s = Moment /\ s.at = cycles /\ s.reads = reads
    <3>1. Moment \in Moments
      BY <1>1, <2>1, BoundAssumption DEF Moment, Moments, ClockTypes
    <3>2. Moment.at = cycles /\ Moment.reads = reads
      BY DEF Moment
    <3> QED
      BY <3>1, <3>2
  <2>3. s.at = Base' /\ reads' = s.reads + 1
    BY <2>1, <2>2 DEF Reads, Read
  <2>4. PICK now \in Nat : now = clock'.time_us /\ step(now)
    <3>1. clock'.time_us \in Nat
      BY DEF TypeOK
    <3>2. PICK now : now = clock'.time_us
      OBVIOUS
    <3>3. step(now)
      BY <1>3, <3>2, Zenon DEF CatchUp
    <3> QED
      BY <3>1, <3>2, <3>3
  <2>5. /\ stepped' = s /\ tick' \in Ticks \cup {None}
        /\ tick'.setpoint = ingress'.setpoint
        /\ tick'.setpoint_age_ms = setpoint_age_ms(ingress', now)
    <3>1. \E e, l : tick' = [tick_us |-> next_tick, event |-> e, setpoint |-> ingress'.setpoint,
                             setpoint_age_ms |-> setpoint_age_ms(ingress', now), link_ok |-> l]
      BY <2>4, Zenon DEF step
    <3>2. stepped' = s /\ tick' \in Ticks \cup {None}
      BY <2>2, <2>4 DEF step, TypeOK
    <3> QED
      BY <3>1, <3>2
  <2>6. tick'.link_ok = (now - health'.last_cmd_time_us < LINK_TIMEOUT_US)
    BY <2>4, HealthOfStep, Zenon
  <2>7. SetpointAgeIsTrue'
    <3>1. CASE heard'.setpoint = None
      <4>1. ingress'.setpoint = None /\ ingress'.setpoint_rx_us = None
        BY <3>1 DEF StampsAreMoments
      <4>2. setpoint_age_ms(ingress', now) = AGE_MAX
        BY <4>1 DEF setpoint_age_ms
      <4> QED
        BY <2>5, <3>1, <4>1, <4>2 DEF SetpointAgeIsTrue
    <3>2. CASE heard'.setpoint # None
      <4>1. PICK t \in Int, m \in Moments :
              t = ingress'.setpoint_rx_us /\ m = heard'.setpoint /\ Measures(t, m)'
        <5>1. heard'.setpoint \in Moments /\ Measures(ingress.setpoint_rx_us, heard.setpoint)'
          BY <3>2 DEF StampsAreMoments, TypeOK
        <5>2. PICK t, m : t = ingress'.setpoint_rx_us /\ m = heard'.setpoint
          OBVIOUS
        <5>3. Measures(t, m)'
          BY <5>1, <5>2, Zenon DEF Measures
        <5>4. t \in Int
          BY <2>4, <5>3 DEF Measures
        <5> QED
          BY <5>1, <5>2, <5>3, <5>4, Zenon
      <4>2. PICK D \in Nat, lost \in Nat :
              /\ D = now - t /\ t \in Nat /\ t <= now
              /\ Passed(m, s) \in Nat /\ Passed(m, s) = MHZ * D + lost
              /\ Lost(m, s) \in Nat /\ lost <= Lost(m, s)
        BY <2>3, <2>4, <4>1, MeasuredSpan
      <4>3. PICK a \in Nat, rest \in 0..(US_PER_MS - 1) :
              /\ now - t = US_PER_MS * a + rest
              /\ setpoint_age_ms(ingress', now) = IF a > AGE_MAX THEN AGE_MAX ELSE a
        BY <4>1, <4>2, AgeFacts
      <4>4. PICK age \in Nat : age = tick'.setpoint_age_ms /\ age = IF a > AGE_MAX THEN AGE_MAX ELSE a
        BY <2>5, <4>3, ClockAssumption
      <4>5. PICK T \in Nat, bound \in Nat : T = Passed(m, s) /\ bound = Lost(m, s)
        BY <4>2
      <4>6. /\ MHZ * US_PER_MS * age <= T
            /\ age < AGE_MAX => T - bound < MHZ * US_PER_MS * age + MHZ * US_PER_MS
        BY <4>2, <4>3, <4>4, <4>5, AgeArithmetic
      <4> QED
        BY <2>5, <3>2, <4>1, <4>4, <4>5, <4>6, Zenon DEF SetpointAgeIsTrue
    <3> QED
      BY <3>1, <3>2
  <2>8. LinkLossIsNoticed'
    <3>1. SUFFICES ASSUME heard'.any # None
                   PROVE  LinkLossIsNoticed'
      BY DEF LinkLossIsNoticed
    <3>2. PICK t \in Int, m \in Moments :
            t = health'.last_cmd_time_us /\ m = heard'.any /\ Measures(t, m)'
      <4>1. heard'.any \in Moments /\ Measures(health.last_cmd_time_us, heard.any)'
        BY <3>1 DEF StampsAreMoments, TypeOK
      <4>2. PICK t, m : t = health'.last_cmd_time_us /\ m = heard'.any
        OBVIOUS
      <4>3. Measures(t, m)'
        BY <4>1, <4>2, Zenon DEF Measures
      <4>4. t \in Int
        BY <2>4, <4>3 DEF Measures
      <4> QED
        BY <4>1, <4>2, <4>3, <4>4, Zenon
    <3>3. PICK D \in Nat, lost \in Nat :
            /\ D = now - t /\ t \in Nat /\ t <= now
            /\ Passed(m, s) \in Nat /\ Passed(m, s) = MHZ * D + lost
            /\ Lost(m, s) \in Nat /\ lost <= Lost(m, s)
      BY <2>3, <2>4, <3>2, MeasuredSpan
    <3>4. PICK T \in Nat, bound \in Nat : T = Passed(m, s) /\ bound = Lost(m, s)
      BY <3>3
    <3>5. IF D < LINK_TIMEOUT_US THEN T - bound < MHZ * LINK_TIMEOUT_US
                                 ELSE T >= MHZ * LINK_TIMEOUT_US
      BY <3>3, <3>4, TimeoutArithmetic
    <3>6. tick'.link_ok = (D < LINK_TIMEOUT_US)
      BY <2>6, <3>2, <3>3, Zenon
    <3>7. IF tick'.link_ok THEN T - bound < MHZ * LINK_TIMEOUT_US
                           ELSE T >= MHZ * LINK_TIMEOUT_US
      BY <3>5, <3>6, Zenon
    <3> QED
      BY <2>5, <3>2, <3>4, <3>7, Zenon DEF LinkLossIsNoticed
  <2> QED
    BY <2>7, <2>8 DEF AgesAreTrue
<1> QED
  BY <1>2, <1>3

-----------------------------------------------------------------------------
(* The theorems                                                            *)

LEMMA FlightInit == Init => FlightInv
<1> SUFFICES ASSUME Init PROVE FlightInv
  OBVIOUS
<1>1. TypeOK
  BY TypeInit
<1>2. PICK n \in 0..(CYC_RANGE - 1) : n = cycles
  BY CostAssumption DEF Init
<1>3. Base = 0
  <2>1. PICK l : l = 0 % CYC_RANGE
    OBVIOUS
  <2>2. l = 0
    <3>1. 0 = CYC_RANGE * 0 + 0 /\ 0 \in 0..(CYC_RANGE - 1)
      BY ClockAssumption
    <3>2. 0 % CYC_RANGE = 0
      BY <3>1, DivisionUnique, ClockAssumption
    <3> QED
      BY <2>1, <3>2, Zenon
  <2>3. BaseOf(0 + n, l) = 0
    BY <2>1, BaseOfReading
  <2>4. 0 + n = n
    OBVIOUS
  <2>5. clock.last_cyccnt = 0
    BY DEF Init
  <2> QED
    BY <1>2, <2>2, <2>3, <2>4, <2>5, Zenon DEF Base
<1>4. Lag = 0
  <2>1. Lag = Base - MHZ * clock.time_us
    BY Zenon DEF Lag, Base, BaseOf
  <2> QED
    BY <1>3, <2>1, ClockAssumption DEF Init
<1>5. ClockInv
  <2>1. reads = 0 /\ (MHZ - 1) * 0 = 0 /\ 0 \in 0..0 /\ pc # "poll"
    BY ClockAssumption DEF Init
  <2> QED
    BY <1>4, <2>1, Zenon DEF ClockInv, FreshAtPoll, ClockSurvivesRollover
<1>6. StampsAreMoments /\ ScheduleInv /\ AgesAreTrue
  BY DEF Init, StampsAreMoments, ScheduleInv, ControlledTimeTracksClock, AgesAreTrue,
         SetpointAgeIsTrue, LinkLossIsNoticed
<1>7. EventsExactlyOnce
  BY EmptySeq, ConcatEmptySeq DEF Init, EventsExactlyOnce
<1> QED
  BY <1>1, <1>5, <1>6, <1>7 DEF FlightInv

LEMMA FlightStep == FlightInv /\ [Next]_vars => FlightInv'
<1> SUFFICES ASSUME FlightInv, [Next]_vars PROVE FlightInv'
  OBVIOUS
<1> USE DEF FlightInv
<1>1. TypeOK'
  BY StampsOfMoments, TypeStep
<1>2. ClockInv'
  BY ClockStep
<1>3. StampsAreMoments'
  BY StampsStep
<1>4. ScheduleInv'
  BY ScheduleStep
<1>5. AgesAreTrue'
  BY <1>1, <1>3, AgesStep
<1>6. EventsExactlyOnce'
  BY EventsStep
<1> QED
  BY <1>1, <1>2, <1>3, <1>4, <1>5, <1>6

(* Every reachable state of the loop meets the inductive invariant.        *)
THEOREM FlightCorrect == Spec => []FlightInv
  BY FlightInit, FlightStep, PTL DEF Spec

(* Stm32h7Time::now_us over every roll-over, and try_recv_command: the     *)
(* clock is never ahead and loses less than a microsecond a reading; every *)
(* command reaches the board once, in order.                               *)
THEOREM LoopCorrect == Spec => []LoopInv
<1>1. FlightInv => LoopInv
  BY DEF FlightInv, ClockInv, LoopInv
<1> QED
  BY <1>1, FlightCorrect, PTL

(* run: controlled time is the grid of the schedule, but for one period an *)
(* overrun, whatever the steps take.                                       *)
THEOREM ControlKeepsTime == Spec => []ControlledTimeTracksClock
<1>1. FlightInv => ControlledTimeTracksClock
  BY DEF FlightInv, ScheduleInv
<1> QED
  BY <1>1, FlightCorrect, PTL

(* setpoint_age_ms, update_link_status: what the board is told of the age  *)
(* of its setpoint and of the link is true, short of what the clock lost.  *)
THEOREM BoardIsToldTheTruth == Spec => []AgesAreTrue
<1>1. FlightInv => AgesAreTrue
  BY DEF FlightInv
<1> QED
  BY <1>1, FlightCorrect, PTL

-----------------------------------------------------------------------------
(* The watchdog                                                            *)

(* Cycles since the last kick, and microseconds until the next step.       *)
Unfed == cycles - kicked
Wait  == IF next_tick > clock.time_us THEN next_tick - clock.time_us ELSE 0

(* A turn of the loop that takes no step.                                  *)
Turn(longest) == longest + IdleCycles

(* run: if a poll takes a microsecond at least and longest cycles at most, *)
(* every turn without a step brings the next step a microsecond nearer, so *)
(* there are fewer turns than microseconds in a period.                    *)
HungerInv(longest) ==
  /\ pc = "start" => Unfed = 0
  /\ pc \in {"poll", "sleep"} =>
       /\ Unfed <= (PERIOD - Wait) * Turn(longest) + IdleCycles
       /\ Unfed <= (PERIOD - 1) * Turn(longest) + IdleCycles
  /\ pc = "check" /\ Unfed # 0 =>
       /\ Unfed <= (PERIOD - Wait) * Turn(longest) + Turn(longest)
       /\ Unfed <= PERIOD * Turn(longest)
       /\ cycles - Base >= MHZ

LEMMA BaseAtPoll ==
    ASSUME ClockTypes, FreshAtPoll, pc = "poll"
    PROVE  Base = cycles
<1>1. PICK n \in Nat : n = cycles
  BY DEF ClockTypes
<1>2. PICK l : l = clock.last_cyccnt /\ l = n % CYC_RANGE
  BY <1>1, Zenon DEF FreshAtPoll
<1>3. BaseOf(n + 0, l) = n
  <2>1. 0 \in 0..(CYC_RANGE - 1)
    BY ClockAssumption
  <2> QED
    BY <1>2, <2>1, BaseOfReading
<1>4. n + 0 = n
  OBVIOUS
<1> QED
  BY <1>1, <1>2, <1>3, <1>4, Zenon DEF Base

(* The nearer the next step, the longer the board may have waited.         *)
LEMMA NearerIsLonger ==
    ASSUME NEW W \in Nat, NEW v \in Int, NEW w \in Int, v <= w
    PROVE  (PERIOD - w) * W <= (PERIOD - v) * W
<1>1. PERIOD - w \in Int /\ PERIOD - v \in Int /\ PERIOD - w <= PERIOD - v
  BY ClockAssumption
<1>2. W * (PERIOD - w) <= W * (PERIOD - v)
  BY <1>1, ProductOrder
<1> QED
  BY <1>1, <1>2

LEMMA HungerStep ==
    ASSUME NEW CONSTANT longest \in Nat, PollCycles \subseteq MHZ..longest,
           FlightInv, HungerInv(longest), [Next]_vars, FlightInv'
    PROVE  HungerInv(longest)'
<1>1. ClockTypes /\ Base \in Int /\ (Reads \/ Passes)
  BY TypesOfClock, EachStepTimed DEF FlightInv, ClockInv
<1>2. PICK W \in Nat, I \in Nat, P \in Nat \ {0}, M \in Nat \ {0} :
        W = Turn(longest) /\ I = IdleCycles /\ P = PERIOD /\ M = MHZ /\ W = longest + I
  BY CostAssumption, ClockAssumption DEF Turn
<1>3. cycles \in Nat /\ kicked \in Nat /\ next_tick \in Nat /\ clock.time_us \in Nat
      /\ cycles' \in Nat /\ kicked' \in Nat /\ next_tick' \in Nat /\ clock'.time_us \in Nat
  BY DEF FlightInv, TypeOK
<1>4. PICK u \in Int, w \in Nat, v \in Nat :
        u = Unfed /\ w = Wait /\ v = Wait' /\ (pc' # "start" => v <= P)
  <2>1. Unfed \in Int /\ Wait \in Nat /\ Wait' \in Nat
    BY <1>3 DEF Unfed, Wait
  <2>2. pc' # "start" => Wait' <= PERIOD
    BY <1>3, ClockAssumption DEF FlightInv, ScheduleInv, ControlledTimeTracksClock, Wait
  <2> QED
    BY <1>2, <2>1, <2>2
<1>5. (P - 1) * W \in Nat /\ P * W = (P - 1) * W + W /\ (P - w) * W \in Int /\ (P - v) * W \in Int
  BY <1>2, <1>4
<1>6. CASE run
  <2>1. pc' = "poll" /\ Unfed' = 0
    BY <1>3, <1>6 DEF run, Unfed, HungerInv, stepVars
  <2>2. PICK z \in Nat : z = P - v
    <3>1. pc' # "start"
      BY <2>1
    <3>2. v <= P
      BY <1>4, <3>1, Zenon
    <3>3. P - v \in Nat
      BY <3>2
    <3> QED
      BY <3>3, Zenon
  <2>3. PICK a \in Nat, b \in Nat : a = (P - v) * W /\ b = (P - 1) * W
    <3>1. z * W \in Nat
      BY <1>2
    <3> QED
      BY <1>5, <2>2, <3>1
  <2>4. 0 <= a + I /\ 0 <= b + I
    BY <1>2, <2>3
  <2> QED
    BY <1>2, <1>4, <2>1, <2>3, <2>4, Zenon DEF HungerInv
<1>7. CASE poll
  <2>1. PICK c \in MHZ..longest : cycles' = cycles + c
    BY <1>7 DEF poll
  <2>2. pc = "poll" /\ pc' = "check" /\ kicked' = kicked /\ Wait' = Wait
    BY <1>7 DEF poll, stepVars, clockVars, Wait
  <2>3. PICK d \in Nat : d = c /\ M <= d /\ d <= longest
    BY <1>2, <2>1
  <2>4. Unfed' = u + d
    BY <1>3, <1>4, <2>1, <2>2, <2>3 DEF Unfed
  <2>5. Base' = cycles
    <3>1. CASE Reads
      BY <3>1 DEF Reads
    <3>2. CASE Passes
      BY <1>1, <2>2, <3>2, BaseAtPoll DEF Passes, FlightInv, ClockInv
    <3> QED
      BY <1>1, <3>1, <3>2
  <2>6. cycles' - Base' >= MHZ
    BY <1>2, <1>3, <2>1, <2>3, <2>5
  <2>7. PICK a \in Int, b \in Nat : a = (P - w) * W /\ b = (P - 1) * W /\ P * W = b + W
    BY <1>5
  <2>8. u <= a + I /\ u <= b + I
    BY <1>2, <1>4, <2>2, <2>7, Zenon DEF HungerInv
  <2>9. u + d <= a + W /\ u + d <= b + W
    BY <1>2, <1>4, <2>3, <2>7, <2>8
  <2>10. v = w
    BY <1>4, <2>2
  <2> QED
    BY <1>2, <1>4, <2>2, <2>4, <2>6, <2>7, <2>9, <2>10, Zenon DEF HungerInv
<1>8. CASE CatchUp
  <2>1. Unfed' = 0 /\ pc' \in {"check", "sleep"}
    BY <1>3, <1>8 DEF CatchUp, Kick, Unfed
  <2>2. PICK z \in Nat : z = P - v
    <3>1. pc' # "start"
      BY <2>1
    <3>2. v <= P
      BY <1>4, <3>1, Zenon
    <3>3. P - v \in Nat
      BY <3>2
    <3> QED
      BY <3>3, Zenon
  <2>3. PICK a \in Nat, b \in Nat : a = (P - v) * W /\ b = (P - 1) * W
    <3>1. z * W \in Nat
      BY <1>2
    <3> QED
      BY <1>5, <2>2, <3>1
  <2>4. 0 <= a + I /\ 0 <= b + I
    BY <1>2, <2>3
  <2> QED
    BY <1>2, <1>4, <2>1, <2>3, <2>4, Zenon DEF HungerInv
<1>9. CASE CaughtUp
  <2>1. /\ pc = "check" /\ pc' = "sleep" /\ kicked' = kicked /\ next_tick' = next_tick
        /\ cycles' = cycles + IdleCycles /\ Read /\ clock'.time_us < next_tick
    BY <1>3, <1>9 DEF CaughtUp, Due, Read, stepVars
  <2>2. Unfed' = u + I
    BY <1>2, <1>3, <1>4, <2>1 DEF Unfed
  <2>3. 1 <= v /\ v <= P
    BY <1>3, <1>4, <2>1 DEF Wait
  <2>4. (P - v) * W \in Nat /\ (P - v) * W <= (P - 1) * W
    <3>1. (PERIOD - v) * W <= (PERIOD - 1) * W
      BY <2>3, NearerIsLonger
    <3> QED
      BY <1>2, <2>3, <3>1
  <2>5. u <= (P - v) * W
    <3>1. CASE u = 0
      BY <2>4, <3>1
    <3>2. CASE u # 0
      <4>1. u <= (P - w) * W + W /\ cycles - Base >= MHZ
        BY <1>2, <1>4, <2>1, <3>2, Zenon DEF HungerInv
      <4>2. Reads
        BY <1>1, <2>1, CostAssumption, ReadThenWork
      <4>3. PICK gain \in Nat, rest \in 0..(MHZ - 1) :
              /\ cycles = Base + MHZ * gain + rest /\ clock'.time_us = clock.time_us + gain
        BY <1>1, <4>2, ReadFacts
      <4>4. gain # 0
        <5> SUFFICES ASSUME gain = 0 PROVE FALSE
          OBVIOUS
        <5>1. MHZ * gain = 0 /\ rest \in Nat /\ rest < MHZ
          BY <4>3, ClockAssumption
        <5> QED
          BY <1>1, <1>2, <4>1, <4>3, <5>1
      <4>5. v <= w - 1
        BY <1>3, <1>4, <2>1, <4>3, <4>4 DEF Wait
      <4>6. (PERIOD - (w - 1)) * W <= (PERIOD - v) * W
        BY <1>4, <4>5, NearerIsLonger
      <4>7. (P - (w - 1)) * W = (P - w) * W + W
        BY <1>2, <1>4
      <4>8. PICK x \in Int, y \in Int : x = (P - (w - 1)) * W /\ y = (P - v) * W
        <5>1. (P - (w - 1)) * W \in Int /\ (P - v) * W \in Int
          OBVIOUS
        <5> QED
          BY <5>1
      <4>9. u <= x /\ x <= y
        BY <1>2, <4>1, <4>6, <4>7, <4>8, Zenon
      <4>10. u <= y
        BY <4>9
      <4> QED
        BY <4>8, <4>10, Zenon
    <3> QED
      BY <3>1, <3>2
  <2>6. PICK a \in Nat, b \in Nat : a = (P - v) * W /\ b = (P - 1) * W /\ a <= b /\ u <= a
    BY <1>5, <2>4, <2>5
  <2>7. u + I <= a + I /\ u + I <= b + I
    <3>1. u \in Int /\ I \in Nat /\ a \in Nat /\ b \in Nat /\ u <= a /\ a <= b
      BY <1>2, <1>4, <2>6, Zenon
    <3> QED
      BY <3>1
  <2> QED
    BY <1>2, <1>4, <2>1, <2>2, <2>6, <2>7, Zenon DEF HungerInv
<1>10. CASE sleep_until_us
  <2>1. /\ pc = "sleep" /\ pc' = "poll" /\ Unfed' = Unfed /\ next_tick' = next_tick
        /\ cycles' = cycles + 0 /\ Read
    BY <1>3, <1>10 DEF sleep_until_us, stepVars, Unfed
  <2>2. Reads
    BY <1>1, <2>1, CostAssumption, ClockAssumption, ReadThenWork
  <2>3. clock.time_us <= clock'.time_us
    <3>1. PICK gain \in Nat, rest \in 0..(MHZ - 1) : clock'.time_us = clock.time_us + gain
      BY <1>1, <2>2, ReadFacts
    <3> QED
      BY <1>3, <3>1
  <2>4. v <= w
    BY <1>3, <1>4, <2>1, <2>3 DEF Wait
  <2>5. (PERIOD - w) * W <= (PERIOD - v) * W
    BY <2>4, NearerIsLonger
  <2>6. PICK a \in Int, b \in Int, e \in Int :
          a = (P - w) * W /\ b = (P - v) * W /\ a <= b /\ e = (P - 1) * W
    BY <1>2, <1>5, <2>5
  <2>7. u <= a + I /\ u <= e + I
    BY <1>2, <1>4, <2>1, <2>6, Zenon DEF HungerInv
  <2>8. u <= b + I
    <3>1. u \in Int /\ I \in Nat /\ a \in Int /\ b \in Int /\ u <= a + I /\ a <= b
      BY <1>2, <1>4, <2>6, <2>7, Zenon
    <3> QED
      BY <3>1
  <2> QED
    BY <1>2, <1>4, <2>1, <2>6, <2>7, <2>8, Zenon DEF HungerInv
<1>11. CASE UNCHANGED vars \/ \E cmd \in Commands : Arrive(cmd)
  <2>1. UNCHANGED <<cycles, clockVars, loopVars, stepVars>>
    BY <1>11 DEF vars, Arrive
  <2>2. Base' = Base
    BY <2>1, Zenon DEF Base, clockVars
  <2> QED
    BY <2>1, <2>2 DEF HungerInv, Unfed, Wait, clockVars, loopVars, stepVars
<1> QED
  BY <1>6, <1>7, <1>8, <1>9, <1>10, <1>11 DEF Next

(* kick: with a poll of a microsecond at least, the watchdog is fed in     *)
(* time, if it waits for as many turns of the loop as a period has         *)
(* microseconds and for one step.                                          *)
THEOREM WatchdogIsFed ==
    ASSUME NEW CONSTANT longest \in Nat, PollCycles \subseteq MHZ..longest,
           NEW CONSTANT step_longest \in Nat, StepCycles \subseteq 0..step_longest,
           PERIOD * (longest + IdleCycles) + step_longest <= WATCHDOG
    PROVE  Spec => []WatchdogFed
<1>1. Init => HungerInv(longest)
  <2>1. Init => Unfed = 0 /\ pc = "start"
    BY CostAssumption DEF Init, Unfed
  <2> QED
    BY <2>1 DEF HungerInv
<1>2. FlightInv /\ HungerInv(longest) /\ [Next]_vars /\ FlightInv' => HungerInv(longest)'
  BY HungerStep
<1>3. FlightInv /\ HungerInv(longest) => WatchdogFed
  <2> SUFFICES ASSUME FlightInv, HungerInv(longest) PROVE WatchdogFed
    OBVIOUS
  <2>1. PICK W \in Nat, I \in Nat, u \in Int, w \in Nat :
          W = Turn(longest) /\ I = IdleCycles /\ u = Unfed /\ w = Wait /\ I <= W
    <3>1. IdleCycles \in Nat /\ Turn(longest) \in Nat /\ IdleCycles <= Turn(longest)
      BY CostAssumption, ClockAssumption DEF Turn
    <3>2. Unfed \in Int /\ Wait \in Nat
      BY DEF FlightInv, TypeOK, Unfed, Wait
    <3> QED
      BY <3>1, <3>2
  <2>2. PICK e \in Nat, f \in Nat : e = (PERIOD - 1) * W /\ f = PERIOD * W /\ f = e + W
    <3>1. PERIOD \in Nat \ {0}
      BY ClockAssumption
    <3>2. (PERIOD - 1) * W \in Nat /\ PERIOD * W \in Nat /\ PERIOD * W = (PERIOD - 1) * W + W
      BY <3>1
    <3> QED
      BY <3>2
  <2>3. f + step_longest <= WATCHDOG
    BY <2>1, <2>2, Zenon DEF Turn
  <2>4. u <= f
    <3>1. CASE pc = "start"
      <4>1. u = 0
        BY <2>1, <3>1, Zenon DEF HungerInv
      <4> QED
        BY <4>1
    <3>2. CASE pc \in {"poll", "sleep"}
      <4>1. u <= e + I
        BY <2>1, <2>2, <3>2, Zenon DEF HungerInv
      <4>2. f = e + W /\ I <= W
        BY <2>1, <2>2, Zenon
      <4> QED
        BY <4>1, <4>2
    <3>3. CASE pc = "check"
      <4>1. u = 0 \/ u <= f
        BY <2>1, <2>2, <3>3, Zenon DEF HungerInv
      <4> QED
        BY <4>1
    <3> QED
      BY <3>1, <3>2, <3>3 DEF FlightInv, TypeOK
  <2>5. cycles \in Nat /\ kicked \in Nat /\ u = cycles - kicked /\ WATCHDOG \in Nat
    BY <2>1, CostAssumption DEF FlightInv, TypeOK, Unfed
  <2>6. cycles - kicked <= WATCHDOG
    BY <2>3, <2>4, <2>5
  <2>7. \A c \in StepCycles : cycles + c - kicked <= WATCHDOG
    <3> SUFFICES ASSUME NEW c \in StepCycles PROVE cycles + c - kicked <= WATCHDOG
      OBVIOUS
    <3>1. c \in Nat /\ c <= step_longest
      OBVIOUS
    <3> QED
      BY <2>3, <2>4, <2>5, <3>1
  <2> QED
    BY <2>6, <2>7 DEF WatchdogFed
<1> QED
  BY <1>1, <1>2, <1>3, FlightCorrect, PTL DEF Spec

=============================================================================
