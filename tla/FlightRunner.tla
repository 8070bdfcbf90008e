------------------------------ MODULE FlightRunner ------------------------------
(***************************************************************************)
(* The control loop of the flight hardware: FlightRunner::run and step     *)
(* (aviate-runtime/src/runner.rs), the command ingress it routes commands  *)
(* through (command_ingress.rs), the health record, the DWT clock it is    *)
(* scheduled by (aviate-hal/stm32h7/src/time.rs, with the board's NoSleep  *)
(* timer) and the watchdog it feeds.                                       *)
(*                                                                         *)
(* True time is counted in CPU cycles.  The code between two readings of   *)
(* the clock takes a number of cycles the constants bound; commands arrive *)
(* at any moment.  The board is generic in the code too: it is represented *)
(* by what a tick hands to it, and the two health flags that only mirror   *)
(* the board (sensors_ok, ekf_converged) are left out.                     *)
(***************************************************************************)
EXTENDS Integers, Sequences, SequencesExt

CONSTANTS
  Setpoints,        \* commands of class Setpoint
  Discretes,        \* commands of class Discrete
  None,             \* Option::None
  MHZ,              \* cpu_freq_mhz: cycles per microsecond
  CYC_RANGE,        \* the range of CYCCNT, 2^32 in the code
  PERIOD,           \* period_us
  MAX_CATCH_UP,
  LINK_TIMEOUT_US,
  US_PER_MS,
  AGE_MAX,          \* u32::MAX as an age
  PollCycles,       \* what transport.poll may cost
  StepCycles,       \* what a step may cost
  BootCycles,       \* what may have passed when the runner starts
  IdleCycles,       \* from a clock reading that is too early to the next
  WATCHDOG,         \* cycles after which the watchdog resets the chip
  MaxCycles,        \* bound: the horizon
  MaxCommands       \* bound: commands that arrive

Commands == Setpoints \cup Discretes

ASSUME ClockAssumption ==
  /\ MHZ \in Nat \ {0} /\ CYC_RANGE \in Nat \ {0}
  /\ PERIOD \in Nat \ {0} /\ MAX_CATCH_UP \in Nat \ {0}
  /\ LINK_TIMEOUT_US \in Nat /\ US_PER_MS \in Nat \ {0} /\ AGE_MAX \in Nat
\* Work between two clock readings is shorter than a turn of CYCCNT.
ASSUME CostAssumption ==
  /\ IdleCycles \in 0..(CYC_RANGE - 1) /\ WATCHDOG \in Nat
  /\ BootCycles \subseteq 0..(CYC_RANGE - 1)
  /\ PollCycles \subseteq 0..(CYC_RANGE - 1) /\ StepCycles \subseteq 0..(CYC_RANGE - 1)
ASSUME CommandAssumption ==
  Setpoints \cap Discretes = {} /\ None \notin Commands
ASSUME BoundAssumption == MaxCycles \in Nat /\ MaxCommands \in Nat

\* Instants of the histories: true time, and readings of the clock so far.
Moments == [at : 0..MaxCycles, reads : Nat]

\* What a step hands to the board: CommandTick, and link_ok.
Ticks == [tick_us : Nat, event : Commands \cup {None}, setpoint : Setpoints \cup {None},
          setpoint_age_ms : 0..AGE_MAX, link_ok : BOOLEAN]

ASSUME NoneAssumption == None \notin Nat \cup Moments /\ None \notin Ticks

VARIABLES
  cycles,        \* true time since the runner started, in cycles
  clock,         \* Stm32h7Time: last_cyccnt, time_us
  pc,            \* "start", "poll", "check" or "sleep"
  next_tick,
  steps,         \* steps of this turn of run's loop
  transport,     \* commands the transport holds for try_recv_command
  ingress,       \* CommandIngress: setpoint, setpoint_rx_us
  health,        \* RunnerHealth: link_ok, last_cmd_time_us, ever_received, overrun_count
  tick,          \* the last CommandTick and link_ok handed to board_step
  reads,         \* history: readings of the clock
  ticks,         \* history: steps executed
  first_tick,    \* history: the reading the schedule began with
  sent,          \* history: commands that arrived
  seen,          \* history: events handed to the board
  heard,         \* history: when a setpoint, and when any command, was last received
  stepped,       \* history: when the last step began
  kicked         \* history: cycle of the last watchdog kick

clockVars == <<clock, reads>>
loopVars  == <<pc, next_tick, steps>>
stepVars  == <<ingress, health, tick, ticks, seen, heard, stepped, kicked>>
linkVars  == <<transport, sent>>
vars == <<cycles, clockVars, loopVars, stepVars, linkVars, first_tick>>

-----------------------------------------------------------------------------
(* Stm32h7Time. *)

\* Fault seed for Elapsed: a roll-over counts from zero.
Elapsed_from_zero(cyccnt) ==
  IF cyccnt >= clock.last_cyccnt THEN cyccnt - clock.last_cyccnt ELSE cyccnt

\* Cycles since the last reading, over at most one roll-over of CYCCNT.
Elapsed(cyccnt) ==
  IF cyccnt >= clock.last_cyccnt
  THEN cyccnt - clock.last_cyccnt
  ELSE (CYC_RANGE - 1 - clock.last_cyccnt) + cyccnt + 1

\* now_us: whole microseconds are accumulated and the remainder is dropped.
now_us ==
  LET cyccnt == cycles % CYC_RANGE
  IN  [last_cyccnt |-> cyccnt, time_us |-> clock.time_us + Elapsed(cyccnt) \div MHZ]

Read == clock' = now_us /\ reads' = reads + 1

-----------------------------------------------------------------------------
(* CommandIngress and RunnerHealth. *)

\* Fault seed for receive: every command stamps the setpoint's age.
receive_stamps_all(cmd, now) ==
  IF cmd \in Setpoints
  THEN [setpoint |-> cmd, setpoint_rx_us |-> now]
  ELSE [ingress EXCEPT !.setpoint_rx_us = IF @ = None THEN None ELSE now]

receive(cmd, now) ==
  IF cmd \in Setpoints THEN [setpoint |-> cmd, setpoint_rx_us |-> now] ELSE ingress

setpoint_age_ms(ing, now) ==
  IF ing.setpoint_rx_us = None
  THEN AGE_MAX
  ELSE LET age == (now - ing.setpoint_rx_us) \div US_PER_MS
       IN  IF age > AGE_MAX THEN AGE_MAX ELSE age

update_link_status(h, now) ==
  [h EXCEPT !.link_ok = now - h.last_cmd_time_us < LINK_TIMEOUT_US]

command_received(h, now) ==
  [h EXCEPT !.last_cmd_time_us = now, !.ever_received = TRUE, !.link_ok = TRUE]

-----------------------------------------------------------------------------
Init ==
  /\ cycles \in BootCycles
  /\ clock = [last_cyccnt |-> 0, time_us |-> 0]
  /\ pc = "start" /\ next_tick = 0 /\ steps = 0
  /\ transport = <<>>
  /\ ingress = [setpoint |-> None, setpoint_rx_us |-> None]
  /\ health = [link_ok |-> FALSE, last_cmd_time_us |-> 0,
               ever_received |-> FALSE, overrun_count |-> 0]
  /\ tick = None
  /\ reads = 0 /\ ticks = 0 /\ first_tick = None
  /\ sent = <<>> /\ seen = <<>>
  /\ heard = [setpoint |-> None, any |-> None] /\ stepped = None
  /\ kicked = cycles

(* run's preamble: the schedule starts now. *)
run ==
  /\ pc = "start"
  /\ Read
  /\ next_tick' = clock'.time_us /\ first_tick' = clock'.time_us
  /\ pc' = "poll"
  /\ UNCHANGED <<cycles, steps, stepVars, linkVars>>

(* transport.poll, and the fresh count of a turn of the outer loop. *)
poll ==
  /\ pc = "poll"
  /\ \E c \in PollCycles : cycles' = cycles + c
  /\ pc' = "check" /\ steps' = 0
  /\ UNCHANGED <<clockVars, next_tick, stepVars, linkVars, first_tick>>

Due == next_tick <= now_us.time_us

\* last_event: what try_recv_command returns.
Event == IF transport = <<>> THEN None ELSE Head(transport)

\* The present instant, for the histories.
Moment == [at |-> cycles, reads |-> reads]

(* FlightRunner::step, with the time now read for it. *)
step(now) ==
  LET event == Event
      ing   == IF event = None THEN ingress ELSE receive(event, now)
      h     == update_link_status(IF event = None THEN health ELSE command_received(health, now), now)
  IN  /\ transport' = IF transport = <<>> THEN <<>> ELSE Tail(transport)
      /\ ingress' = ing
      /\ tick' = [tick_us |-> next_tick, event |-> event, setpoint |-> ing.setpoint,
                  setpoint_age_ms |-> setpoint_age_ms(ing, now), link_ok |-> h.link_ok]
      /\ health' = [h EXCEPT !.overrun_count = @ + (IF steps + 1 >= MAX_CATCH_UP THEN 1 ELSE 0)]
      /\ seen' = IF event = None THEN seen ELSE Append(seen, event)
      /\ stepped' = Moment
      /\ heard' = [setpoint |-> IF event \in Setpoints THEN Moment ELSE heard.setpoint,
                   any |-> IF event # None THEN Moment ELSE heard.any]
      /\ ticks' = ticks + 1

\* Fault seed for Advanced: the schedule restarts from the time of the step.
Advanced_drifts(now) ==
  IF steps + 1 >= MAX_CATCH_UP THEN now ELSE now + PERIOD

\* next_tick behind a step: one period on, or resynchronised to now.
Advanced(now) ==
  IF steps + 1 >= MAX_CATCH_UP THEN now ELSE next_tick + PERIOD

\* Fault seed for Kick: a catch-up step, and a step with a command, do not kick.
Kick_on_time(c) == kicked' = IF steps = 0 /\ transport = <<>> THEN cycles + c ELSE kicked

\* watchdog.kick, c cycles into the step.
Kick(c) == kicked' = cycles + c

(* One turn of the catch-up loop whose tick is due. *)
CatchUp ==
  /\ pc = "check" /\ Due
  /\ Read
  /\ step(clock'.time_us)
  /\ \E c \in StepCycles : cycles' = cycles + c /\ Kick(c)
  /\ next_tick' = Advanced(clock'.time_us)
  /\ steps' = steps + 1
  /\ pc' = IF steps' >= MAX_CATCH_UP THEN "sleep" ELSE "check"
  /\ UNCHANGED <<sent, first_tick>>

(* The turn of the catch-up loop that finds no tick due. *)
CaughtUp ==
  /\ pc = "check" /\ ~Due
  /\ Read
  /\ cycles' = cycles + IdleCycles
  /\ pc' = "sleep"
  /\ UNCHANGED <<next_tick, steps, stepVars, linkVars, first_tick>>

(* sleep_until_us: a second reading; the board's NoSleep returns at once. *)
sleep_until_us ==
  /\ pc = "sleep"
  /\ Read
  /\ pc' = "poll"
  /\ UNCHANGED <<cycles, next_tick, steps, stepVars, linkVars, first_tick>>

(* The transport completes a command while the runner works. *)
Arrive(cmd) ==
  /\ Len(sent) < MaxCommands
  /\ transport' = Append(transport, cmd) /\ sent' = Append(sent, cmd)
  /\ UNCHANGED <<cycles, clockVars, loopVars, stepVars, first_tick>>

Next ==
  /\ cycles < MaxCycles
  /\ \/ run \/ poll \/ CatchUp \/ CaughtUp \/ sleep_until_us
     \/ \E cmd \in Commands : Arrive(cmd)

Spec == Init /\ [][Next]_vars

-----------------------------------------------------------------------------
(* The properties. *)

(* Every variable stays in its type: the clock readings and the schedule    *)
(* are whole microseconds, the turn's count within MAX_CATCH_UP.            *)
TypeOK ==
  /\ cycles \in Nat /\ pc \in {"start", "poll", "check", "sleep"}
  /\ clock \in [last_cyccnt : 0..(CYC_RANGE - 1), time_us : Nat]
  /\ next_tick \in Nat /\ steps \in 0..MAX_CATCH_UP
  /\ pc = "check" => steps < MAX_CATCH_UP
  /\ transport \in Seq(Commands) /\ sent \in Seq(Commands) /\ seen \in Seq(Commands)
  /\ ingress \in [setpoint : Setpoints \cup {None}, setpoint_rx_us : Nat \cup {None}]
  /\ health \in [link_ok : BOOLEAN, last_cmd_time_us : Nat,
                 ever_received : BOOLEAN, overrun_count : Nat]
  /\ reads \in Nat /\ ticks \in Nat /\ first_tick \in Nat \cup {None}
  /\ heard \in [setpoint : Moments \cup {None}, any : Moments \cup {None}]
  /\ stepped \in Moments \cup {None} /\ kicked \in Nat
  /\ tick \in Ticks \cup {None}

\* How far the clock lags behind the cycles counted at its last reading.
Lag == (cycles - ((cycles - clock.last_cyccnt) % CYC_RANGE)) - MHZ * clock.time_us

(* now_us extends CYCCNT over its roll-overs: the clock is never ahead of   *)
(* the cycles counted, and a reading costs it less than a microsecond.      *)
ClockSurvivesRollover == Lag \in 0..((MHZ - 1) * reads)

(* run's schedule: until an overrun is counted, the ticks executed are      *)
(* exactly those of the grid the loop began with, whatever the steps took;  *)
(* afterwards each overrun adds at most one period of control the clock has *)
(* not seen.  The schedule is never more than one period ahead.             *)
ControlledTimeTracksClock ==
  first_tick # None =>
    LET controlled == first_tick + ticks * PERIOD
    IN  /\ health.overrun_count = 0 => next_tick = controlled
        /\ controlled <= next_tick + health.overrun_count * PERIOD
        /\ next_tick <= clock.time_us + PERIOD

(* step: every command the transport completes reaches the board once, in   *)
(* order, in the CommandTick of one step.                                   *)
EventsExactlyOnce == seen \o transport = sent

(* Clock and command queue of the loop, in every state.                     *)
LoopInv == TypeOK /\ ClockSurvivesRollover /\ EventsExactlyOnce

\* Between two moments: the true cycles, and those the clock may have lost.
Passed(since, until) == until.at - since.at
Lost(since, until)   == (MHZ - 1) * (until.reads - since.reads)

(* setpoint_age_ms: the age the board is told is the true age of the last   *)
(* setpoint, short of what the clock lost, however many discrete commands   *)
(* arrive meanwhile; before the first setpoint it is u32::MAX.              *)
SetpointAgeIsTrue ==
  tick # None =>
    IF heard.setpoint = None
    THEN tick.setpoint = None /\ tick.setpoint_age_ms = AGE_MAX
    ELSE LET age == MHZ * US_PER_MS * tick.setpoint_age_ms
             T   == Passed(heard.setpoint, stepped)
         IN  /\ age <= T
             /\ tick.setpoint_age_ms < AGE_MAX =>
                  T - Lost(heard.setpoint, stepped) < age + MHZ * US_PER_MS

(* update_link_status: a link is reported lost after LINK_TIMEOUT_US        *)
(* without a command and not before, short of what the clock lost.          *)
LinkLossIsNoticed ==
  tick # None /\ heard.any # None =>
    LET T == Passed(heard.any, stepped)
    IN  IF tick.link_ok
        THEN T - Lost(heard.any, stepped) < MHZ * LINK_TIMEOUT_US
        ELSE T >= MHZ * LINK_TIMEOUT_US

(* receive, update_link_status: what the loop makes of the times at which   *)
(* commands arrived is true, of the retained setpoint and of the link.      *)
AgesAreTrue == SetpointAgeIsTrue /\ LinkLossIsNoticed

(* kick, at the end of a step: although the clock that schedules the steps  *)
(* loses time in every turn of the busy loop, the watchdog is fed before it *)
(* resets the chip, however long the step under way takes.                  *)
WatchdogFed ==
  /\ cycles - kicked <= WATCHDOG
  /\ pc = "check" /\ Due => \A c \in StepCycles : cycles + c - kicked <= WATCHDOG

=============================================================================
