------------------------------- MODULE SitlRunner -------------------------------
(***************************************************************************)
(* The simulation runner around the kernel: link slots, command ingress,   *)
(* sensor cache, filter seeding, init loop and cycle                       *)
(* (aviate-runtime/src/sim/step.rs, sim/lifecycle.rs, sim.rs,              *)
(* command_ingress.rs, sensor_cache.rs; aviate-hal/xil/src/sitl_io.rs,     *)
(* sitl_io/command_link.rs; aviate-hal/io/src/board_hal.rs, fake.rs).      *)
(*                                                                         *)
(* One pass of step_clocked is a fixed sequence of kernel calls; pc says   *)
(* how far it has come, so that every stage is one operation of module     *)
(* Kernel, or none.  The simulator and the ground station act between two  *)
(* passes: what they send is buffered until the next one drains it.        *)
(*                                                                         *)
(* Abstracted: a packet says which kinds it carries (a GNSS section may be *)
(* without a fix); an injected driver fault fails reads or drops them for  *)
(* a number of cycles; a setpoint is its control mode and whether its      *)
(* thrust is below the throttle gate; time is counted in passes.           *)
(***************************************************************************)
EXTENDS KernelProperties

CONSTANTS
    Packets,        \* what the simulator may feed: functions on the kinds they carry
    Injections,     \* the fault commands, [kind, fault], a simulator test may send
    DropoutCycles,  \* the length of an injected dropout
    Discretes,      \* the discrete commands the ground station may send
    Authorizations, \* the answers the arm authorizer may give
    Timeout         \* cfg.command_timeout_ms, in passes

ASSUME RunnerAssumption ==
    /\ \A p \in Packets : /\ DOMAIN p \subseteq Kinds
                           /\ \A k \in DOMAIN p : p[k] = "good" \/ (p[k] = "bad" /\ k = "gnss")
    /\ Injections \subseteq [kind : Kinds, fault : {"None", "HealthFailed", "Dropout"}]
    /\ DropoutCycles \in Nat \ {0}
    /\ Discretes \subseteq {"Arm", "Disarm", "EmergencyTerminate"}
    /\ Authorizations \subseteq BOOLEAN
    /\ Timeout \in Nat \ {0}

VARIABLES
    pc,                 \* how far the pass has come; "idle" between two
    sensor_data,        \* SitlIO::sensor_data and gps_data, by kind
    slot,               \* SitlIO::command, the discrete slot
    flight_cmd,         \* SitlIO::flight_cmd, the setpoint slot
    generation_changed, \* SitlIO::generation_changed
    link_armed,         \* SitlIO::armed, what the heartbeat says
    system_status,      \* SitlIO::system_status, what the heartbeat says
    hal_armed,          \* the actuator driver's armed flag
    drivers,            \* the fake drivers: buffered reading and injected fault, by kind
    cache,              \* SensorCache, by kind
    ekf_initialized,    \* SitlRunner::ekf_initialized
    setpoint,           \* CommandIngress: retained setpoint and its age
    since               \* history: passes since a setpoint of this world was drained

linkVars == <<sensor_data, slot, flight_cmd, generation_changed>>
armedVars == <<link_armed, hal_armed>>
runnerVars == <<pc, sensor_data, slot, flight_cmd, generation_changed, link_armed,
                system_status, hal_armed, drivers, cache, ekf_initialized, setpoint, since>>
allVars == <<vars, runnerVars>>

Readings == {"none", "good", "bad"}
Nothing == [k \in Kinds |-> "none"]
NoFault == [fault |-> "None", remaining_cycles |-> 0]
FreshDriver == [reading |-> "none", fault |-> NoFault]
FaultStates == {NoFault, [fault |-> "HealthFailed", remaining_cycles |-> 0]}
    \cup [fault : {"Dropout"}, remaining_cycles : 0 .. DropoutCycles]

NoCommand == [present |-> FALSE, low |-> TRUE, mode |-> "Attitude"]
Commands == [present : BOOLEAN, low : BOOLEAN, mode : DOMAIN required_validity]

(* Ages and histories in passes; Never is past every timeout, as u32::MAX. *)
Never == Timeout + 1

Older(n) == IF n < Never THEN n + 1 ELSE n

RunnerTypeOK ==
    /\ TypeOK
    /\ pc \in {"idle", "reset", "throttle", "sense", "seed", "init", "update"}
    /\ sensor_data \in [Kinds -> Readings]
    /\ slot \in {"None"} \cup Discretes
    /\ flight_cmd \in Commands
    /\ generation_changed \in BOOLEAN
    /\ link_armed \in BOOLEAN
    /\ system_status \in {"Boot", "Calibrating", "Standby", "Active", "Critical"}
    /\ hal_armed \in BOOLEAN
    /\ drivers \in [Kinds -> [reading : Readings, fault : FaultStates]]
    /\ cache \in [Kinds -> Readings]
    /\ ekf_initialized \in BOOLEAN
    /\ setpoint \in [mode : DOMAIN required_validity, age : 0 .. Never]
    /\ since \in 0 .. Never

(* Before the first setpoint the kernel is given default_command().        *)
NoSetpoint == [mode |-> "Attitude", age |-> Never]

(* The app's constructor sets the throttle flag before the first pass.     *)
RunnerInit ==
    /\ Init
    /\ pc = "throttle"
    /\ sensor_data = Nothing
    /\ slot = "None"
    /\ flight_cmd = NoCommand
    /\ generation_changed = FALSE
    /\ link_armed = FALSE
    /\ system_status = "Boot"
    /\ hal_armed = FALSE
    /\ drivers = [k \in Kinds |-> FreshDriver]
    /\ cache = Nothing
    /\ ekf_initialized = FALSE
    /\ setpoint = NoSetpoint
    /\ since = Never

-----------------------------------------------------------------------------
(* The simulator and the ground station                                    *)

(* The inertial, pressure and magnetic sections are one buffer: a packet   *)
(* with any of them replaces what an undrained one left.  GNSS has its own.*)
Buffered(p, old) ==
    [k \in Kinds |->
        IF k \in DOMAIN p THEN p[k]
        ELSE IF k # "gnss" /\ (DOMAIN p \ {"gnss"}) # {} THEN "none"
        ELSE old[k]]

feed_sensor_packet(p) ==
    /\ pc = "idle"
    /\ sensor_data' = Buffered(p, sensor_data)
    /\ UNCHANGED <<vars, pc, slot, flight_cmd, generation_changed, armedVars, system_status,
                   drivers, cache, ekf_initialized, setpoint, since>>

(* The first packet of a new world: clear_generation_state, then the feed. *)
feed_new_world(p) ==
    /\ pc = "idle"
    /\ sensor_data' = Buffered(p, Nothing)
    /\ slot' = "None"
    /\ flight_cmd' = NoCommand
    /\ generation_changed' = TRUE
    /\ link_armed' = FALSE
    /\ system_status' = "Boot"
    /\ since' = Never
    /\ UNCHANGED <<vars, pc, hal_armed, drivers, cache, ekf_initialized, setpoint>>

send_discrete(cmd) ==
    /\ pc = "idle"
    /\ slot' = cmd
    /\ UNCHANGED <<vars, pc, sensor_data, flight_cmd, generation_changed, armedVars,
                   system_status, drivers, cache, ekf_initialized, setpoint, since>>

send_setpoint(low, requested) ==
    /\ pc = "idle"
    /\ flight_cmd' = [present |-> TRUE, low |-> low, mode |-> requested]
    /\ UNCHANGED <<vars, pc, sensor_data, slot, generation_changed, armedVars, system_status,
                   drivers, cache, ekf_initialized, setpoint, since>>

-----------------------------------------------------------------------------
(* 0: adopt_generation_change, three kernel calls                          *)

adopt_terminate ==
    /\ pc = "idle" /\ generation_changed
    /\ init_state = "Armed"
    /\ terminate
    /\ pc' = "reset"
    /\ UNCHANGED <<linkVars, armedVars, system_status, drivers, cache, ekf_initialized,
                   setpoint, since>>

(* Fault seed for reset_runner_for_generation: the seed flag survives.     *)
reset_runner_keeps_seed ==
    /\ setpoint' = NoSetpoint
    /\ cache' = Nothing
    /\ drivers' = [k \in Kinds |-> FreshDriver]
    /\ hal_armed' = FALSE
    /\ UNCHANGED ekf_initialized

(* Fault seed for reset_runner_for_generation: the outputs stay enabled.   *)
reset_runner_keeps_hal ==
    /\ setpoint' = NoSetpoint
    /\ cache' = Nothing
    /\ drivers' = [k \in Kinds |-> FreshDriver]
    /\ ekf_initialized' = FALSE
    /\ UNCHANGED hal_armed

reset_runner_for_generation ==
    /\ setpoint' = NoSetpoint
    /\ cache' = Nothing
    /\ drivers' = [k \in Kinds |-> FreshDriver]
    /\ hal_armed' = FALSE
    /\ ekf_initialized' = FALSE

adopt_reset ==
    /\ pc = "reset" \/ (pc = "idle" /\ generation_changed)
    /\ init_state # "Armed"
    /\ ground_reset
    /\ reset_runner_for_generation
    /\ generation_changed' = FALSE
    /\ pc' = "throttle"
    /\ UNCHANGED <<sensor_data, slot, flight_cmd, link_armed, system_status, since>>

adopt_throttle ==
    /\ pc = "throttle"
    /\ update_throttle(TRUE)
    /\ pc' = "sense"
    /\ UNCHANGED <<linkVars, armedVars, system_status, drivers, cache, ekf_initialized,
                   setpoint, since>>

-----------------------------------------------------------------------------
(* 1 to 4: drain the sensors into the cache, then take one command         *)

(* 1b: a fault command that arrived since the last pass; one that repeats  *)
(* the fault the driver already has is left out.                           *)
Injected ==
    {drivers} \cup
    {[drivers EXCEPT ![c.kind].fault =
        [fault |-> c.fault, remaining_cycles |-> IF c.fault = "Dropout" THEN DropoutCycles ELSE 0]] :
        c \in {i \in Injections : i.fault # drivers[i.kind].fault.fault}}

(* A section the sample left out leaves the driver's reading alone.        *)
Fed(d) == [k \in Kinds |-> IF sensor_data[k] = "none" THEN d[k]
                           ELSE [d[k] EXCEPT !.reading = sensor_data[k]]]

Dropping(d) == d.fault.fault = "Dropout" /\ d.fault.remaining_cycles > 0

data_ready(d) == d.fault.fault = "HealthFailed" \/ (~Dropping(d) /\ d.reading # "none")

(* read(): a failed driver answers with an error and keeps its reading; a  *)
(* dropout counts down, and clears itself once it has counted to zero.     *)
ReadValue(d) == IF d.fault.fault = "HealthFailed" \/ Dropping(d) THEN "bad" ELSE d.reading

AfterRead(d) ==
    IF d.fault.fault = "HealthFailed" THEN d
    ELSE IF Dropping(d) THEN [d EXCEPT !.fault.remaining_cycles = @ - 1]
    ELSE FreshDriver

(* BoardHal reads a driver only if it reports data; a kind without a new   *)
(* reading keeps its cached one, however old.                              *)
Sense ==
    /\ pc = "sense" \/ (pc = "idle" /\ ~generation_changed)
    /\ \E injected \in Injected :
         LET d == Fed(injected) IN
         /\ drivers' = [k \in Kinds |-> IF data_ready(d[k]) THEN AfterRead(d[k]) ELSE d[k]]
         /\ cache' = [k \in Kinds |-> IF data_ready(d[k]) THEN ReadValue(d[k]) ELSE cache[k]]
    /\ sensor_data' = Nothing
    /\ pc' = "seed"
    /\ UNCHANGED <<generation_changed, system_status, ekf_initialized>>

(* Fault seed for Receive: any command refreshes the setpoint's age.       *)
Receive_refreshing == setpoint' = [setpoint EXCEPT !.age = 0] /\ UNCHANGED since

(* CommandIngress::receive for a discrete command: nothing is stamped.     *)
Receive == UNCHANGED <<setpoint, since>>

(* Fault seed for enact_arm: the kernel's fault check is bypassed.         *)
enact_arm_forced(authorized) ==
    /\ slot = "Arm"
    /\ IF authorized /\ init_state = "Ready"
         THEN /\ init_state' = "Armed"
              /\ hal_armed' = TRUE /\ link_armed' = TRUE
              /\ out' = NoOutput
              /\ UNCHANGED <<phaseVars, lawVars, checkVars, faults, mode, violations, est,
                             controller, lost>>
         ELSE UNCHANGED <<vars, armedVars>>

enact_arm(authorized) ==
    /\ slot = "Arm"
    /\ IF authorized /\ faults = {} /\ init_state = "Ready"
         THEN arm /\ hal_armed' = TRUE /\ link_armed' = TRUE
         ELSE UNCHANGED <<vars, armedVars>>

enact_disarm ==
    /\ slot = "Disarm"
    /\ IF ~is_airborne
         THEN disarm /\ hal_armed' = FALSE /\ link_armed' = FALSE
         ELSE UNCHANGED <<vars, armedVars>>

enact_terminate ==
    /\ slot = "EmergencyTerminate"
    /\ terminate
    /\ hal_armed' = FALSE /\ link_armed' = FALSE

(* A discrete command goes first; a setpoint waits for a pass without one. *)
step_discrete ==
    /\ Sense
    /\ (\E authorized \in Authorizations : enact_arm(authorized)) \/ enact_disarm \/ enact_terminate
    /\ slot' = "None"
    /\ Receive
    /\ UNCHANGED flight_cmd

step_setpoint ==
    /\ Sense
    /\ slot = "None"
    /\ flight_cmd.present
    /\ update_throttle(flight_cmd.low)
    /\ setpoint' = [mode |-> flight_cmd.mode, age |-> 0]
    /\ flight_cmd' = NoCommand
    /\ since' = 0
    /\ UNCHANGED <<slot, armedVars>>

step_no_command ==
    /\ Sense
    /\ slot = "None"
    /\ ~flight_cmd.present
    /\ UNCHANGED <<vars, slot, flight_cmd, armedVars, setpoint, since>>

-----------------------------------------------------------------------------
(* 5: seed the filter once, from the first inertial and magnetic samples   *)

NeedsSeed == ~ekf_initialized /\ cache["imu"] # "none" /\ cache["mag"] # "none"

step_seed ==
    /\ pc = "seed"
    /\ NeedsSeed
    /\ estimator_init
    /\ ekf_initialized' = TRUE
    /\ pc' = "init"
    /\ UNCHANGED <<linkVars, armedVars, system_status, drivers, cache, setpoint, since>>

(* 6: the init state machine, unless the kernel is Ready                   *)

Good == {k \in Kinds : cache[k] = "good"}
MavState(state) ==
    CASE state \in {"PowerOn", "ConfigLoading"} -> "Boot"
      [] state \in {"SensorInit", "EstimatorConverging", "PreArm"} -> "Calibrating"
      [] state \in {"Ready", "Disarmed"} -> "Standby"
      [] state = "Armed" -> "Active"
      [] state = "Fault" -> "Critical"

step_init ==
    /\ pc = "init" \/ (pc = "seed" /\ ~NeedsSeed)
    /\ IF init_state = "Ready"
         THEN UNCHANGED <<vars, system_status>>
         ELSE /\ init_step(Good)
              /\ system_status' = IF init_state' # init_state THEN MavState(init_state')
                                  ELSE system_status
    /\ pc' = "update"
    /\ UNCHANGED <<linkVars, armedVars, drivers, cache, ekf_initialized, setpoint, since>>

(* 7 to 12: the kernel cycle on the retained setpoint, and time passes     *)

step_update ==
    /\ pc = "update"
    /\ \/ update_disarmed(Good)
       \/ update_critical(Good)
       \/ \E motion \in Motions, dt \in Steps, limited \in Limited :
             update_armed(Good, motion, dt, setpoint.age < Timeout, limited, setpoint.mode)
    /\ setpoint' = [setpoint EXCEPT !.age = Older(setpoint.age)]
    /\ since' = Older(since)
    /\ pc' = "idle"
    /\ UNCHANGED <<linkVars, armedVars, system_status, drivers,
                   cache, ekf_initialized>>

-----------------------------------------------------------------------------

Pass == \/ adopt_terminate \/ adopt_reset \/ adopt_throttle
        \/ step_discrete \/ step_setpoint \/ step_no_command
        \/ step_seed \/ step_init \/ step_update

Environment ==
    \/ \E p \in Packets : feed_sensor_packet(p)
    \/ \E p \in Packets : feed_new_world(p)
    \/ \E cmd \in Discretes : send_discrete(cmd)
    \/ \E low \in BOOLEAN, requested \in ControlModes : send_setpoint(low, requested)

RunnerNext == Pass \/ Environment

(* The host loop calls step for as long as the process lives; neither the  *)
(* simulator nor the ground station owes anything.                         *)
RunnerSpec == RunnerInit /\ [][RunnerNext]_allVars /\ WF_allVars(Pass)

-----------------------------------------------------------------------------
(* Properties                                                              *)

(* Every pass is a sequence of kernel operations: what is proved of the    *)
(* kernel holds under the runner.                                          *)
ImplementsKernel == Spec

(* HLR-CMD-001, issue 133: outside the descent the vehicle flies only on a *)
(* setpoint that was drained within the timeout and belongs to this world, *)
(* however many arm, disarm or terminate commands the link still carries.  *)
FliesOnlyForACommander ==
    (pc = "idle" /\ ~generation_changed /\ out.pattern = "control" /\ control_law # "Direct")
        => since <= Timeout

(* Between two passes the enabled outputs and the heartbeat's armed bit    *)
(* follow the kernel through every arm, refusal, termination and world     *)
(* reset.  The one exception is the critical fault, which no command       *)
(* enacted: the kernel left Armed, the driver and the link did not.        *)
HalFollowsKernel ==
    (pc = "idle" /\ ~generation_changed) =>
        /\ init_state = "Armed" => hal_armed /\ link_armed
        /\ hal_armed => link_armed /\ init_state \in {"Armed", "Fault"}

(* The runner's own seed flag and the filter agree between two passes, so  *)
(* a reset world's filter is seeded again and a live one never is.         *)
SeedFollowsFilter == pc = "idle" => (ekf_initialized <=> est.initialized)

(* Between two passes runner, filter, driver and link agree with the       *)
(* kernel.                                                                 *)
RunnerInv == RunnerTypeOK /\ HalFollowsKernel /\ SeedFollowsFilter

(* What an operator has to provide for the vehicle to get ready.           *)
Nominal ==
    /\ \A k \in Kinds : cache[k] = "good" /\ drivers[k].fault = NoFault
    /\ "THROTTLE_LOW" \in pre_arm
    /\ Usable(est) \/ ~est.initialized
    /\ init_state # "Fault" /\ lost = {}
    /\ ~generation_changed
    /\ slot \notin {"Disarm", "EmergencyTerminate"}

(* A vehicle with healthy sensors, the throttle low and no capability loss *)
(* since its last ground reset gets Ready, from any state but Fault and    *)
(* after any history of disarms, terminations and world resets.            *)
ReadyWhenNominal == <>[]Nominal => []<>(init_state \in {"Ready", "Armed"})

=============================================================================
