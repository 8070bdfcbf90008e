--------------------------------- MODULE Kernel ---------------------------------
(***************************************************************************)
(* The flight-control kernel: lifecycle, faults, checks and control-law    *)
(* degradation (aviate-core/src/kernel_logic.rs, kernel_logic/lifecycle.rs,*)
(* kernel_update.rs, checks/, control/mode_gate.rs, ekf/validity.rs).      *)
(*                                                                         *)
(* One action per public operation of AviateKernelImpl that changes state; *)
(* `update` is one action per exit of the function.  The kernel is         *)
(* sequential: what makes it hard is that its caller may interleave the    *)
(* operations in any order, that flags are snapshots refreshed by some     *)
(* operations and read by others, and that faults, sensors, the estimator, *)
(* the commander and the clock change between any two calls.               *)
(*                                                                         *)
(* Abstracted data: of the sensors, which kinds have a valid Good reading; *)
(* of the estimate, its validity bits; of a command, its age against the   *)
(* timeout, its mode and whether the protector limited it; of the          *)
(* controller's memory, the laws that contributed to it since its reset.   *)
(***************************************************************************)
EXTENDS FlightPhase, FiniteSets

CONSTANTS
    PreArmRequired,     \* PreArmStatus::required, QUAD_MINIMUM by default
    InFlightRequired,   \* InFlightStatus::required, ATTITUDE_FLIGHT by default
    TransitionRequired, \* TransitionStatus::required, VTOL_TRANSITION by default
    MinSamples,         \* SampleCounts::min_required
    TimingThreshold,    \* TIMING_VIOLATION_THRESHOLD
    SensorSets,         \* the sets of sensor kinds that may be healthy together
    RequestModes,       \* the configuration modes a caller may request
    ControlModes,       \* the control modes a command may carry
    Supported,          \* those the controller supports (supports_mode)
    EstOutcomes,        \* the states one observe() may leave a seeded filter in
    Motions,            \* height above the arm datum and slowness an estimate may report
    Limited,            \* whether the envelope protector may limit a setpoint
    Steps               \* the dt values a cycle may pass

InitStates == {"PowerOn", "ConfigLoading", "SensorInit", "EstimatorConverging",
               "PreArm", "Ready", "Armed", "Disarmed", "Fault"}

Laws == {"Primary", "Alternate", "Direct", "Backup"}
severity == [Primary |-> 0, Alternate |-> 1, Direct |-> 2, Backup |-> 3]

TerminalCauses == {"None", "CommandLoss", "Commanded"}
ConfigModes == {"Hover", "Cruise", "Transition", "Degraded"}

Kinds == {"imu", "baro", "mag", "gnss"}
HealthFlag == [imu |-> "IMU_HEALTHY", baro |-> "BARO_HEALTHY",
               mag |-> "MAG_HEALTHY", gnss |-> "GNSS_AVAILABLE"]
ConvergedFlag == [imu |-> "IMU_CONVERGED", baro |-> "BARO_CONVERGED",
                  mag |-> "MAG_CONVERGED"]
SensorFault == [imu |-> "ALL_IMU_FAILED", baro |-> "BARO_FAILED",
                mag |-> "MAG_FAILED", gnss |-> "ALL_GNSS_LOST"]

PreArmFlags == {HealthFlag[k] : k \in Kinds}
    \cup {ConvergedFlag[k] : k \in {"imu", "baro", "mag"}}
    \cup {"EKF_CONVERGED", "THROTTLE_LOW", "CONFIG_VALID", "NO_FAULTS"}
QUAD_MINIMUM == {"IMU_HEALTHY", "BARO_HEALTHY", "IMU_CONVERGED", "BARO_CONVERGED",
                 "EKF_CONVERGED", "THROTTLE_LOW", "CONFIG_VALID", "NO_FAULTS"}

InFlightFlags == {"ATTITUDE_VALID", "VELOCITY_VALID", "POSITION_VALID", "WITHIN_ENVELOPE",
                  "COMMAND_RECENT", "RC_AVAILABLE", "IMU_OK", "BARO_OK"}
ATTITUDE_FLIGHT == {"ATTITUDE_VALID", "IMU_OK", "COMMAND_RECENT"}
POSITION_FLIGHT == ATTITUDE_FLIGHT \cup {"POSITION_VALID", "VELOCITY_VALID"}

TransitionFlags == {"STABLE_FLIGHT", "ACTUATORS_OK", "WITHIN_ENVELOPE", "SYMMETRIC",
                    "ALTITUDE_OK", "AIRSPEED_OK"}

(* The flag a degradation reason answers to, most critical first.          *)
TriggerOf == [ATTITUDE_VALID |-> "AttitudeLost", IMU_OK |-> "ImuDegraded",
              POSITION_VALID |-> "PositionLost", VELOCITY_VALID |-> "VelocityLost",
              COMMAND_RECENT |-> "CommandTimeout", WITHIN_ENVELOPE |-> "EnvelopeViolation",
              BARO_OK |-> "BaroDegraded", RC_AVAILABLE |-> "RcLost"]
TriggerRank == [ATTITUDE_VALID |-> 1, IMU_OK |-> 2, POSITION_VALID |-> 3,
                VELOCITY_VALID |-> 4, COMMAND_RECENT |-> 5, WITHIN_ENVELOPE |-> 6,
                BARO_OK |-> 7, RC_AVAILABLE |-> 8]

Reasons == {"AttitudeLost", "ImuDegraded", "PositionLost", "VelocityLost",
            "CommandTimeout", "EnvelopeViolation", "BaroDegraded", "RcLost",
            "TimingViolation", "LandRequested"}

TargetLaw == [r \in Reasons |->
                CASE r = "AttitudeLost" -> "Backup"
                  [] r \in {"LandRequested", "CommandTimeout"} -> "Direct"
                  [] OTHER -> "Alternate"]

latched_fault == [AttitudeLost |-> {"ATTITUDE_LOST"}, ImuDegraded |-> {"IMU_DEGRADED"},
                  PositionLost |-> {"POSITION_LOST"}, VelocityLost |-> {"VELOCITY_LOST"},
                  BaroDegraded |-> {"BARO_DEGRADED"}, EnvelopeViolation |-> {"ENVELOPE_VIOLATION"},
                  RcLost |-> {"RC_LOST"}, TimingViolation |-> {"TIMING_PERSISTENT"},
                  CommandTimeout |-> {}, LandRequested |-> {}]

(* Reasons that take a capability away: all but the recoverable command    *)
(* loss and the commanded land.                                            *)
CapabilityLosses == Reasons \ {"CommandTimeout", "LandRequested"}

SensorFaults == {SensorFault[k] : k \in Kinds}
LatchedFaults == (UNION {latched_fault[r] : r \in Reasons}) \cup {"ENUM_INVALID"}
FaultFlags == SensorFaults \cup LatchedFaults

(* NUMERIC_ERROR and ESTIMATOR_DIVERGED are critical too, but nothing in   *)
(* the repository outside its tests inserts them.                          *)
CRITICAL_FAULTS == {"ALL_IMU_FAILED"}

(* Estimator validity each control mode needs (mode_gate.rs).              *)
required_validity ==
    [Rate |-> {}, Attitude |-> {"ATTITUDE"},
     AltitudeHold |-> {"ATTITUDE", "VELOCITY"}, VelocityControl |-> {"ATTITUDE", "VELOCITY"},
     PositionHold |-> {"ATTITUDE", "VELOCITY", "POSITION"},
     DeviationTracking |-> {"ATTITUDE", "VELOCITY", "POSITION"}]

(* FALLBACK_RUNGS, most demanding first.                                   *)
Rungs == {"PositionHold", "AltitudeHold", "Attitude"}
RungRank == [PositionHold |-> 1, AltitudeHold |-> 2, Attitude |-> 3]

EstStates == [initialized : BOOLEAN, quat_fault : BOOLEAN, finite : BOOLEAN,
              pos : BOOLEAN, vel : BOOLEAN]

ASSUME KernelAssumption ==
    /\ PreArmRequired \subseteq PreArmFlags
    /\ InFlightRequired \subseteq InFlightFlags
    /\ TransitionRequired \subseteq TransitionFlags
    /\ MinSamples \in Nat \ {0}
    /\ TimingThreshold \in Nat \ {0}
    /\ SensorSets \subseteq SUBSET Kinds
    /\ RequestModes \subseteq ConfigModes
    /\ ControlModes \subseteq DOMAIN required_validity
    /\ EstOutcomes \subseteq {o \in EstStates : o.initialized /\ (~o.finite => ~(o.pos /\ o.vel))}
    /\ Motions \subseteq [height : Int, slow : BOOLEAN]
    /\ Limited \subseteq BOOLEAN
    /\ Steps \subseteq Int

VARIABLES
    init_state,      \* KernelState::init_state
    control_law,     \* KernelState::control_law
    terminal_cause,  \* KernelState::terminal_cause
    faults,          \* KernelState::faults
    mode,            \* KernelState::mode
    pre_arm,         \* checks.pre_arm.current
    samples,         \* checks.pre_arm.samples, saturating at MinSamples
    within_envelope, \* WITHIN_ENVELOPE, the one flag of checks.in_flight.current
                     \* that a cycle reads before it has rewritten it
    violations,      \* timing_stats.consecutive_violations, up to the threshold
    est,             \* the estimator state, as far as get_estimate grades it
    controller,      \* laws that fed the controller memory since its reset
    out,             \* what this call emitted, NoOutput unless it was update()
    lost             \* history: the capability losses since the last ground reset

lawVars == <<control_law, terminal_cause>>
checkVars == <<pre_arm, samples, within_envelope>>
vars == <<phase, datum_valid, landed_elapsed, init_state, control_law, terminal_cause,
          faults, mode, pre_arm, samples, within_envelope, violations, est, controller, out,
          lost>>

-----------------------------------------------------------------------------
(* The estimator (ekf.rs, ekf/validity.rs, ekf/scalar.rs).  initialized is *)
(* set by init() alone; quat_fault latches until the next reset or init.   *)

EstReset == [initialized |-> FALSE, quat_fault |-> FALSE, finite |-> TRUE,
             pos |-> FALSE, vel |-> FALSE]

(* pos and vel: aided within the timeout, bounded and finite.              *)
AttitudeValid(e) == e.initialized /\ ~e.quat_fault
Usable(e) == AttitudeValid(e) /\ e.finite        \* quality # Unusable
ValidFlags(e) ==
    IF AttitudeValid(e)
      THEN {"ATTITUDE"} \cup (IF e.vel THEN {"VELOCITY"} ELSE {})
                        \cup (IF e.pos THEN {"POSITION"} ELSE {})
      ELSE {}

(* What observe() may leave behind: an unseeded filter is untouched; a     *)
(* seeded one may be aided, coast, or meet a numeric fault.  Both POSITION *)
(* and VELOCITY need finite components.                                    *)
Observed(e) ==
    IF ~e.initialized THEN {e}
    ELSE {o \in EstOutcomes : e.quat_fault => o.quat_fault}

-----------------------------------------------------------------------------
(* Checks                                                                  *)

(* Fault seed for update_sensor_faults: the register is rebuilt from this  *)
(* cycle's sensors, so what had been latched is lost.                      *)
update_sensor_faults_rebuilt(good) == {SensorFault[k] : k \in Kinds \ good}

update_sensor_faults(good) ==
    (faults \ SensorFaults) \cup {SensorFault[k] : k \in Kinds \ good}

Saturate(n) == IF n < MinSamples THEN n ELSE MinSamples

(* Fault seed for SamplesAfter: the count does not saturate.               *)
SamplesAfter_unsaturated(good) ==
    [k \in {"imu", "baro", "mag"} |-> IF k \in good THEN samples[k] + 1 ELSE samples[k]]

SamplesAfter(good) ==
    [k \in {"imu", "baro", "mag"} |->
        IF k \in good THEN Saturate(samples[k] + 1) ELSE samples[k]]

NoSamples == [k \in {"imu", "baro", "mag"} |-> 0]

(* update_from_sensors, update_from_faults and update_ekf, in init_step's  *)
(* order; the other flags keep their value.                                *)
PreArmAfter(good) ==
    (pre_arm \cap {"THROTTLE_LOW"})
    \cup {HealthFlag[k] : k \in good}
    \cup {ConvergedFlag[k] : k \in {j \in {"imu", "baro", "mag"} :
                                      SamplesAfter(good)[j] >= MinSamples}}
    \cup (IF faults = {} THEN {"NO_FAULTS"} ELSE {})
    \cup {"CONFIG_VALID"}         \* no caller inserts CONFIG_INVALID
    \cup (IF Usable(est) THEN {"EKF_CONVERGED"} ELSE {})

(* The flags update_from_state, update_from_sensors and                    *)
(* update_command_status write; WITHIN_ENVELOPE still has the last cycle's *)
(* value when the trigger reads it.                                        *)
InFlightAfter(e, good, fresh) ==
    (IF within_envelope THEN {"WITHIN_ENVELOPE"} ELSE {})
    \cup (IF "ATTITUDE" \in ValidFlags(e) THEN {"ATTITUDE_VALID"} ELSE {})
    \cup (IF "VELOCITY" \in ValidFlags(e) THEN {"VELOCITY_VALID"} ELSE {})
    \cup (IF "POSITION" \in ValidFlags(e) THEN {"POSITION_VALID"} ELSE {})
    \cup (IF "imu" \in good THEN {"IMU_OK"} ELSE {})
    \cup (IF "baro" \in good THEN {"BARO_OK"} ELSE {})
    \cup (IF fresh THEN {"COMMAND_RECENT"} ELSE {})

(* get_degradation_trigger: the reason of the most critical missing flag.  *)
get_degradation_trigger(current) ==
    LET missing == InFlightRequired \ current
        first == {f \in missing : \A g \in missing : TriggerRank[f] <= TriggerRank[g]} IN
    IF missing = {} THEN {"None"} ELSE {TriggerOf[f] : f \in first}

(* handle_degradation, as the values it leaves.                            *)
Degrades(law, reason) ==
    reason # "None" /\ severity[TargetLaw[reason]] > severity[law]

LawAfter(law, reason) == IF Degrades(law, reason) THEN TargetLaw[reason] ELSE law

CauseAfter(law, cause, reason) ==
    IF ~Degrades(law, reason) THEN cause
    ELSE IF TargetLaw[reason] # "Direct" THEN "None"
    ELSE IF reason = "CommandTimeout" THEN "CommandLoss" ELSE "Commanded"

FaultsLatched(reason) == IF reason = "None" THEN {} ELSE latched_fault[reason]

(* Fault seed for EntersTerminal: only Backup resets the controller.       *)
EntersTerminal_backup_only(law, reason) ==
    Degrades(law, reason) /\ TargetLaw[reason] = "Backup"

EntersTerminal(law, reason) ==
    Degrades(law, reason) /\ TargetLaw[reason] \in {"Direct", "Backup"}

(* Fault seed for ModeEntry: a mode is granted without looking at what the *)
(* estimator vouches for.                                                  *)
ModeEntry_ungated(requested, valid) ==
    IF requested \notin Supported THEN [decision |-> "Unsupported", flies |-> "Attitude"]
    ELSE [decision |-> "Granted", flies |-> requested]

(* gate_controller_mode_entry: whether the commanded mode is granted, and  *)
(* the mode that is flown.                                                 *)
ModeEntry(requested, valid) ==
    LET need == required_validity[requested]
        rungs == {r \in Rungs : /\ required_validity[r] \subseteq need
                                /\ required_validity[r] # need
                                /\ required_validity[r] \subseteq valid} IN
    IF requested \notin Supported THEN [decision |-> "Unsupported", flies |-> "Attitude"]
    ELSE IF need \subseteq valid THEN [decision |-> "Granted", flies |-> requested]
    ELSE IF rungs # {}
      THEN [decision |-> "FallenBack",
            flies |-> CHOOSE r \in rungs : \A q \in rungs : RungRank[r] <= RungRank[q]]
      ELSE [decision |-> "Refused", flies |-> "Attitude"]

-----------------------------------------------------------------------------
(* Lifecycle                                                               *)

NoOutput == [pattern |-> "none", decision |-> "Granted", flies |-> "Attitude", fresh |-> FALSE]
Safe(decision) == [NoOutput EXCEPT !.pattern = "safe", !.decision = decision]
Outputs == [pattern : {"none", "safe", "control"},
            decision : {"Granted", "FallenBack", "Refused", "Unsupported"},
            flies : DOMAIN required_validity,
            fresh : BOOLEAN]      \* an armed cycle's command was within its timeout

TypeOK ==
    /\ PhaseTypeOK
    /\ init_state \in InitStates
    /\ control_law \in Laws
    /\ terminal_cause \in TerminalCauses
    /\ faults \subseteq FaultFlags
    /\ mode \in ConfigModes
    /\ pre_arm \subseteq PreArmFlags
    /\ samples \in [{"imu", "baro", "mag"} -> 0 .. MinSamples]
    /\ within_envelope \in BOOLEAN
    /\ violations \in 0 .. TimingThreshold
    /\ est \in EstStates
    /\ controller \subseteq Laws
    /\ out \in Outputs
    /\ lost \subseteq CapabilityLosses

Init ==
    /\ PhaseInit
    /\ init_state = "PowerOn"
    /\ control_law = "Primary"
    /\ terminal_cause = "None"
    /\ faults = {}
    /\ mode = "Hover"
    /\ pre_arm = {}
    /\ samples = NoSamples
    /\ within_envelope = FALSE
    /\ violations = 0
    /\ est = EstReset
    /\ controller = {}
    /\ out = NoOutput
    /\ lost = {}

(* is_satisfied, over the flags this call has just written.                *)
InitStateAfter(flags) ==
    CASE init_state = "PowerOn" -> "ConfigLoading"
      [] init_state = "ConfigLoading" -> "SensorInit"
      [] init_state = "SensorInit" ->
           IF "IMU_HEALTHY" \in flags THEN "EstimatorConverging" ELSE "SensorInit"
      [] init_state = "EstimatorConverging" ->
           IF {"IMU_CONVERGED", "EKF_CONVERGED"} \subseteq flags
             THEN "PreArm" ELSE "EstimatorConverging"
      [] init_state \in {"PreArm", "Ready"} ->
           IF PreArmRequired \subseteq flags THEN "Ready" ELSE "PreArm"
      [] init_state = "Disarmed" -> "PreArm"
      [] OTHER -> init_state

init_step(good) ==
    /\ pre_arm' = PreArmAfter(good)
    /\ samples' = IF init_state = "Disarmed" THEN NoSamples ELSE SamplesAfter(good)
    /\ init_state' = InitStateAfter(PreArmAfter(good))
    /\ out' = NoOutput
    /\ UNCHANGED <<phaseVars, lawVars, faults, mode, within_envelope, violations, est,
                   controller, lost>>

(* Seeding the filter, by the runner, once per power cycle or reset.       *)
estimator_init ==
    /\ ~est.initialized
    /\ est' = [EstReset EXCEPT !.initialized = TRUE]
    /\ out' = NoOutput
    /\ UNCHANGED <<phaseVars, lawVars, checkVars, init_state, faults, mode, violations,
                   controller, lost>>

update_throttle(low) ==
    /\ pre_arm' = (pre_arm \ {"THROTTLE_LOW"}) \cup (IF low THEN {"THROTTLE_LOW"} ELSE {})
    /\ out' = NoOutput
    /\ UNCHANGED <<phaseVars, lawVars, init_state, faults, mode, samples, within_envelope,
                   violations, est, controller, lost>>

arm ==
    /\ init_state # "Armed"
    /\ faults = {}
    /\ init_state = "Ready"
    /\ begin_flight_period(Usable(est))
    /\ control_law' = "Primary"
    /\ terminal_cause' = "None"
    /\ init_state' = "Armed"
    /\ out' = NoOutput
    /\ UNCHANGED <<checkVars, faults, mode, violations, est, controller, lost>>

end_flight_period ==
    /\ init_state' = "Disarmed"
    /\ control_law' = "Backup"
    /\ terminal_cause' = "None"
    /\ within_envelope' = FALSE
    /\ phase_reset
    /\ controller' = {}
    /\ out' = NoOutput
    /\ UNCHANGED <<faults, mode, pre_arm, samples, violations, est, lost>>

disarm == ~is_airborne /\ end_flight_period

terminate == end_flight_period

(* Fault seed for reset_from_fault: straight back to Ready.                *)
reset_from_fault_to_ready ==
    /\ init_state = "Fault"
    /\ faults \cap CRITICAL_FAULTS = {}
    /\ {"IMU_HEALTHY", "THROTTLE_LOW"} \subseteq pre_arm
    /\ samples' = NoSamples
    /\ within_envelope' = FALSE
    /\ init_state' = "Ready"
    /\ out' = NoOutput
    /\ UNCHANGED <<phaseVars, lawVars, faults, mode, pre_arm, violations, est, controller,
                   lost>>

(* can_reset_from_fault and reset_from_fault.                              *)
reset_from_fault ==
    /\ init_state = "Fault"
    /\ faults \cap CRITICAL_FAULTS = {}
    /\ {"IMU_HEALTHY", "THROTTLE_LOW"} \subseteq pre_arm
    /\ samples' = NoSamples
    /\ within_envelope' = FALSE
    /\ init_state' = "PreArm"
    /\ out' = NoOutput
    /\ UNCHANGED <<phaseVars, lawVars, faults, mode, pre_arm, violations, est, controller,
                   lost>>

ground_reset ==
    /\ init_state # "Armed"
    /\ faults' = {}
    /\ terminal_cause' = "None"
    /\ pre_arm' = {}
    /\ samples' = NoSamples
    /\ within_envelope' = FALSE
    /\ phase_reset
    /\ init_state' = "ConfigLoading"
    /\ est' = EstReset
    /\ violations' = 0
    /\ mode' = "Hover"
    /\ controller' = {}
    /\ control_law' = "Primary"
    /\ lost' = {}
    /\ out' = NoOutput

report_timing_violation(violation) ==
    /\ violations' = IF ~violation THEN 0
                     ELSE IF violations < TimingThreshold THEN violations + 1 ELSE violations
    /\ out' = NoOutput
    /\ UNCHANGED <<phaseVars, lawVars, checkVars, init_state, faults, mode, est, controller,
                   lost>>

request_config_mode(to, flags) ==
    /\ init_state = "Armed"
    /\ faults \cap CRITICAL_FAULTS = {}
    /\ mode # "Transition"
    /\ mode # to
    /\ TransitionRequired \subseteq flags
    /\ mode' = to
    /\ out' = NoOutput
    /\ UNCHANGED <<phaseVars, lawVars, checkVars, init_state, faults, violations, est,
                   controller, lost>>

(* handle_degradation called from outside update: a requested land.        *)
handle_degradation(reason) ==
    /\ control_law' = LawAfter(control_law, reason)
    /\ terminal_cause' = CauseAfter(control_law, terminal_cause, reason)
    /\ faults' = faults \cup FaultsLatched(reason)
    /\ controller' = IF EntersTerminal(control_law, reason) THEN {} ELSE controller
    /\ lost' = lost \cup ({reason} \cap CapabilityLosses)
    /\ out' = NoOutput
    /\ UNCHANGED <<phaseVars, checkVars, init_state, mode, violations, est>>

-----------------------------------------------------------------------------
(* update(), one action per exit                                           *)

(* A command with a corrupted enum.                                        *)
update_enum_invalid ==
    /\ faults' = faults \cup {"ENUM_INVALID"}
    /\ out' = Safe("Granted")
    /\ UNCHANGED <<phaseVars, lawVars, checkVars, init_state, mode, violations, est,
                   controller, lost>>

(* Not armed: monitor and estimate, never actuate.                         *)
update_disarmed(good) ==
    /\ init_state # "Armed"
    /\ faults' = update_sensor_faults(good)
    /\ est' \in IF faults' \cap CRITICAL_FAULTS = {} THEN Observed(est) ELSE {est}
    /\ out' = Safe("Granted")
    /\ UNCHANGED <<phaseVars, lawVars, checkVars, init_state, mode, violations, controller,
                   lost>>

(* Armed with a critical fault: check_critical_faults takes the exit.      *)
update_critical(good) ==
    /\ init_state = "Armed"
    /\ faults' = update_sensor_faults(good)
    /\ faults' \cap CRITICAL_FAULTS # {}
    /\ init_state' = "Fault"
    /\ control_law' = "Backup"
    /\ terminal_cause' = "None"
    /\ controller' = {}
    /\ out' = Safe("Granted")
    /\ UNCHANGED <<phaseVars, checkVars, mode, violations, est, lost>>

(* Fault seed for Releases: a command-loss descent need not wait for a      *)
(* fresh command.                                                          *)
Releases_stale(current) == control_law = "Direct" /\ terminal_cause = "CommandLoss"

(* 4a: a command-loss descent releases in the cycle recency returns.       *)
Releases(current) ==
    /\ control_law = "Direct"
    /\ terminal_cause = "CommandLoss"
    /\ "COMMAND_RECENT" \in current

(* 4: the reason this cycle degrades for.  A persistent timing violation   *)
(* takes the place of whatever the in-flight checks would have reported.   *)
DegradationReason(current) ==
    IF violations >= TimingThreshold THEN {"TimingViolation"}
    ELSE get_degradation_trigger(current)

(* 6a: the decision surfaced in the status, by law.                        *)
Entry(law, requested, valid) ==
    CASE law = "Backup" -> [decision |-> "Granted", flies |-> requested]
      [] law = "Direct" -> [decision |-> "Granted", flies |-> "AltitudeHold"]
      [] OTHER -> ModeEntry(requested, valid)

update_armed(good, motion, dt, fresh, limited, requested) ==
    /\ init_state = "Armed"
    /\ LET flags == InFlightAfter(est', good, fresh)
           released == Releases(flags)
           law == IF released THEN "Primary" ELSE control_law
           cause == IF released THEN "None" ELSE terminal_cause IN
       /\ update_sensor_faults(good) \cap CRITICAL_FAULTS = {}
       /\ est' \in Observed(est)
       /\ phase_update([usable |-> Usable(est'), velocity |-> "VELOCITY" \in ValidFlags(est'),
                        height |-> motion.height, slow |-> motion.slow], TRUE, dt)
       /\ \E reason \in DegradationReason(flags) :
            /\ control_law' = LawAfter(law, reason)
            /\ terminal_cause' = CauseAfter(law, cause, reason)
            /\ faults' = update_sensor_faults(good) \cup FaultsLatched(reason)
            /\ within_envelope' = ~limited
            /\ lost' = lost \cup ({reason} \cap CapabilityLosses)
            /\ LET entry == Entry(control_law', requested, ValidFlags(est'))
                   safe == control_law' = "Backup" \/ entry.decision = "Unsupported"
                   memory == IF released \/ EntersTerminal(law, reason) THEN {} ELSE controller IN
               /\ out' = [pattern |-> IF safe THEN "safe" ELSE "control",
                          decision |-> entry.decision,
                          flies |-> IF safe THEN "Attitude" ELSE entry.flies, fresh |-> fresh]
               /\ controller' = IF entry.decision = "Unsupported" THEN {}
                                ELSE IF safe THEN memory ELSE memory \cup {control_law'}
    /\ UNCHANGED <<init_state, mode, pre_arm, samples, violations>>

-----------------------------------------------------------------------------

Next ==
    \/ \E good \in SensorSets : init_step(good)
    \/ estimator_init
    \/ \E low \in BOOLEAN : update_throttle(low)
    \/ arm
    \/ disarm
    \/ terminate
    \/ reset_from_fault
    \/ ground_reset
    \/ \E violation \in BOOLEAN : report_timing_violation(violation)
    \/ \E to \in RequestModes, flags \in SUBSET (TransitionFlags \ {"WITHIN_ENVELOPE", "AIRSPEED_OK"}) :
          request_config_mode(to, flags)
    \/ handle_degradation("LandRequested")
    \/ update_enum_invalid
    \/ \E good \in SensorSets : update_disarmed(good)
    \/ \E good \in SensorSets : update_critical(good)
    \/ \E good \in SensorSets, motion \in Motions, dt \in Steps, fresh \in BOOLEAN,
          limited \in Limited, requested \in ControlModes :
          update_armed(good, motion, dt, fresh, limited, requested)

Spec == Init /\ [][Next]_vars
=============================================================================
