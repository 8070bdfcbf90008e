------------------------------ MODULE KernelProofs ------------------------------
(***************************************************************************)
(* First the airborne latch, for every choice of thresholds, debounce      *)
(* window, heights and cycle times: the component that disarm, and with it *)
(* everything below, asks whether the vehicle holds itself up.  The        *)
(* invariant that carries the argument is DebounceIsEarned: what the       *)
(* debounce has banked never exceeds what an observer with a clock saw,    *)
(* nor half a window per sample.  Leaving Airborne takes a whole window,   *)
(* hence the whole time and two samples.                                   *)
(*                                                                         *)
(* Then the kernel's cross-call promises, for every choice of required     *)
(* checks, thresholds, sensor sets and inputs.  Each safety property is an *)
(* invariant, or follows from one, whose inductive step looks at the one   *)
(* action with a long body, update_armed, through CycleFacts.              *)
(*                                                                         *)
(* Last its caller.  Every step of a pass of the simulation runner is one  *)
(* kernel operation or none, so whatever is proved of the kernel holds     *)
(* under it.  On top of that, what the runner keeps of its own - the       *)
(* retained setpoint, the seed flag, the armed bits of driver and link -   *)
(* agrees with the kernel whenever no world change is waiting.             *)
(***************************************************************************)
EXTENDS SitlRunner, WatchedKernel, TLAPS

-----------------------------------------------------------------------------
(* The airborne latch                                                      *)

(* One landed sample banks no more than the time that passed, and at most  *)
(* half the window (update_landed_debounce).                               *)
LEMMA DebounceStepBounds ==
    ASSUME NEW dt \in Int
    PROVE  /\ DebounceStep(dt) \in 0 .. LandedDebounce
           /\ DebounceStep(dt) <= 2 * (IF dt > 0 THEN dt ELSE 0)
  BY LimitsAssumption DEF DebounceStep

(* Every reachable state of the latch has the types of FlightPhaseState,   *)
(* and the debounce never leaves its window.                               *)
THEOREM LatchTypeCorrect == LatchSpec => []LatchTypeOK
<1> USE LimitsAssumption, InputAssumption
<1>1. LatchInit => LatchTypeOK
  <2> SUFFICES ASSUME LatchInit PROVE LatchTypeOK
    OBVIOUS
  <2>1. datum_valid \in BOOLEAN /\ armed \in BOOLEAN
    BY Zenon DEF LatchInit, PhaseInit
  <2>2. /\ landed_elapsed \in 0 .. (2 * LandedDebounce)
        /\ held_time \in 0 .. LandedDebounce /\ held_samples \in 0 .. 2
    BY DEF LatchInit, PhaseInit
  <2> QED
    BY <2>1, <2>2 DEF LatchInit, PhaseInit, LatchTypeOK, PhaseTypeOK, Phases, HeldTimeCap, HeldSamplesCap
<1>2. LatchTypeOK /\ [LatchNext]_latchVars => LatchTypeOK'
  <2> SUFFICES ASSUME LatchTypeOK, [LatchNext]_latchVars PROVE LatchTypeOK'
    OBVIOUS
  <2> USE DEF LatchTypeOK, PhaseTypeOK, Phases, HeldTimeCap, HeldSamplesCap
  <2>1. CASE \E usable \in BOOLEAN : Arm(usable)
    BY <2>1 DEF Arm, begin_flight_period, Forget
  <2>2. CASE \E forced \in BOOLEAN : EndPeriod(forced)
    <3>1. datum_valid' \in BOOLEAN /\ armed' \in BOOLEAN
      BY <2>2, Zenon DEF EndPeriod, phase_reset
    <3> QED
      BY <2>2, <3>1 DEF EndPeriod, phase_reset, Forget
  <2>3. CASE CriticalFault
    BY <2>3 DEF CriticalFault
  <2>4. ASSUME NEW obs \in Observations(Heights), NEW dt \in CycleTimes, Cycle(obs, dt)
        PROVE  LatchTypeOK'
    <3> dt \in Int
      OBVIOUS
    <3>1. /\ phase' \in Phases /\ datum_valid' \in BOOLEAN
          /\ landed_elapsed' \in 0 .. (2 * LandedDebounce)
      BY <2>4, DebounceStepBounds DEF Cycle, phase_update, update_landed_debounce
    <3>2. /\ held_time' \in 0 .. LandedDebounce /\ held_samples' \in 0 .. 2
      BY <2>4 DEF Cycle, Watch, AtMost, Forget, historyVars
    <3> QED
      BY <3>1, <3>2, <2>4 DEF Cycle
  <2>5. CASE UNCHANGED latchVars
    BY <2>5 DEF latchVars
  <2> QED
    BY <2>1, <2>2, <2>3, <2>4, <2>5 DEF LatchNext
<1> QED
  BY <1>1, <1>2, PTL DEF LatchSpec

(* The latch is set only in a flight period whose datum was believable.    *)
THEOREM AirborneDatum == LatchSpec => []AirborneHasDatum
<1>1. LatchInit => AirborneHasDatum
  BY DEF LatchInit, PhaseInit, AirborneHasDatum, is_airborne
<1>2. AirborneHasDatum /\ [LatchNext]_latchVars => AirborneHasDatum'
  <2> SUFFICES ASSUME AirborneHasDatum, [LatchNext]_latchVars PROVE AirborneHasDatum'
    OBVIOUS
  <2> USE DEF AirborneHasDatum, is_airborne
  <2>1. CASE \E obs \in Observations(Heights), dt \in CycleTimes : Cycle(obs, dt)
    BY <2>1 DEF Cycle, phase_update
  <2> QED
    BY <2>1 DEF LatchNext, Arm, begin_flight_period, EndPeriod, phase_reset, CriticalFault, latchVars
<1> QED
  BY <1>1, <1>2, PTL DEF LatchSpec

(* The inductive step of DebounceIsEarned.  A set latch has a valid datum, *)
(* so phase_update never skips a cycle the observer counts.                *)
LEMMA EarnedStep ==
    LatchTypeOK /\ AirborneHasDatum /\ DebounceIsEarned /\ [LatchNext]_latchVars => DebounceIsEarned'
<1> SUFFICES ASSUME LatchTypeOK, AirborneHasDatum, DebounceIsEarned, [LatchNext]_latchVars
             PROVE  DebounceIsEarned'
  OBVIOUS
<1> USE LimitsAssumption, InputAssumption
    DEF LatchTypeOK, PhaseTypeOK, Phases, HeldTimeCap, HeldSamplesCap, DebounceIsEarned,
        AirborneHasDatum, is_airborne
<1>1. CASE \E usable \in BOOLEAN : Arm(usable)
  BY <1>1 DEF Arm, begin_flight_period
<1>2. CASE \E forced \in BOOLEAN : EndPeriod(forced)
  BY <1>2 DEF EndPeriod, phase_reset
<1>3. CASE CriticalFault
  BY <1>3 DEF CriticalFault
<1>4. ASSUME NEW obs \in Observations(Heights), NEW dt \in CycleTimes, Cycle(obs, dt)
      PROVE  DebounceIsEarned'
  <2> dt \in Int
    OBVIOUS
  <2>1. CASE ~armed \/ ~datum_valid \/ ~obs.usable \/ phase = "OnGround"
    BY <1>4, <2>1 DEF Cycle, Watch, phase_update, Forget, historyVars, LandedSample, AtMost
  <2>2. CASE armed /\ datum_valid /\ obs.usable /\ phase = "Airborne" /\ ~LandedSample(obs)
    BY <1>4, <2>2 DEF Cycle, Watch, phase_update, update_landed_debounce, Forget
  <2>3. CASE armed /\ datum_valid /\ obs.usable /\ phase = "Airborne" /\ LandedSample(obs)
    <3> DEFINE step == DebounceStep(dt)
               gain == IF dt > 0 THEN dt ELSE 0
    <3>1. /\ phase' = "Airborne" => landed_elapsed' = landed_elapsed + step
          /\ phase' = "Airborne" => landed_elapsed' < 2 * LandedDebounce
          /\ held_time' = AtMost(held_time + gain, LandedDebounce)
          /\ held_samples' = AtMost(held_samples + 1, 2)
      BY <1>4, <2>3, DebounceStepBounds DEF Cycle, Watch, phase_update, update_landed_debounce
    <3>2. step \in 0 .. LandedDebounce /\ step <= 2 * gain /\ gain \in Nat
      BY DebounceStepBounds
    <3>3. phase' = "Airborne" => landed_elapsed' <= 2 * held_time'
      <4> HIDE DEF step, gain
      <4> QED BY <3>1, <3>2, <2>3 DEF AtMost
    <3>4. phase' = "Airborne" => landed_elapsed' <= held_samples' * LandedDebounce
      <4> HIDE DEF step, gain
      <4>1. held_samples \in {0, 1, 2}
        OBVIOUS
      <4> QED BY <4>1, <3>1, <3>2, <2>3 DEF AtMost
    <3> QED BY <3>3, <3>4
  <2> QED
    BY <2>1, <2>2, <2>3
<1>5. CASE UNCHANGED latchVars
  BY <1>5 DEF latchVars
<1> QED
  BY <1>1, <1>2, <1>3, <1>4, <1>5 DEF LatchNext

(* The debounce banks only time in which the landed condition held.        *)
THEOREM DebounceEarned == LatchSpec => []DebounceIsEarned
<1>1. LatchInit => DebounceIsEarned
  BY DEF LatchInit, PhaseInit, DebounceIsEarned
<1> QED
  BY <1>1, EarnedStep, LatchTypeCorrect, AirborneDatum, PTL DEF LatchSpec

(* LLR-FLT-211, for every clock: while a flight period lasts the latch     *)
(* leaves Airborne only after the landed condition held for the whole      *)
(* debounce over at least two samples.                                     *)
THEOREM LandingObserved == LatchSpec => LandingIsObserved
<1>1. LatchTypeOK /\ DebounceIsEarned /\ [LatchNext]_latchVars =>
        [ (phase = "Airborne" /\ phase' = "OnGround" /\ armed /\ armed') =>
             held_time' = HeldTimeCap /\ held_samples' = HeldSamplesCap ]_latchVars
  <2> SUFFICES ASSUME LatchTypeOK, DebounceIsEarned, [LatchNext]_latchVars,
                      phase = "Airborne", phase' = "OnGround", armed, armed'
               PROVE  held_time' = HeldTimeCap /\ held_samples' = HeldSamplesCap
    OBVIOUS
  <2> USE LimitsAssumption, InputAssumption
      DEF LatchTypeOK, PhaseTypeOK, Phases, HeldTimeCap, HeldSamplesCap, DebounceIsEarned
  <2>1. PICK obs \in Observations(Heights), dt \in CycleTimes : Cycle(obs, dt)
    BY DEF LatchNext, Arm, EndPeriod, CriticalFault, latchVars
  <2> USE DEF is_airborne
  <2> dt \in Int
    OBVIOUS
  <2> DEFINE step == DebounceStep(dt)
             gain == IF dt > 0 THEN dt ELSE 0
  <2>2. /\ landed_elapsed + step >= 2 * LandedDebounce
        /\ held_time' = AtMost(held_time + gain, LandedDebounce)
        /\ held_samples' = AtMost(held_samples + 1, 2)
    BY <2>1, DebounceStepBounds DEF Cycle, Watch, phase_update, update_landed_debounce
  <2>3. step \in 0 .. LandedDebounce /\ step <= 2 * gain /\ gain \in Nat
    BY DebounceStepBounds
  <2>4. landed_elapsed <= 2 * held_time /\ landed_elapsed <= held_samples * LandedDebounce
    OBVIOUS
  <2>5. held_samples \in {0, 1, 2}
    OBVIOUS
  <2> HIDE DEF step, gain
  <2>6. held_time' = HeldTimeCap
    BY <2>2, <2>3, <2>4 DEF AtMost
  <2>7. held_samples' = HeldSamplesCap
    BY <2>2, <2>3, <2>4, <2>5 DEF AtMost
  <2> QED
    BY <2>6, <2>7
<1> QED
  BY <1>1, LatchTypeCorrect, DebounceEarned, PTL DEF LatchSpec, LandingIsObserved

-----------------------------------------------------------------------------
(* The kernel                                                              *)

(* What an armed cycle does to the law, its cause, the faults, the history *)
(* and the controller, once it is known whether the descent was released   *)
(* and for which reason the cycle degraded.                                *)
CycleFacts(released, reason) ==
    LET law == IF released THEN "Primary" ELSE control_law
        cause == IF released THEN "None" ELSE terminal_cause
        memory == IF released \/ EntersTerminal(law, reason) THEN {} ELSE controller IN
    /\ released => control_law = "Direct" /\ terminal_cause = "CommandLoss" /\ out'.fresh
    /\ control_law' = LawAfter(law, reason)
    /\ terminal_cause' = CauseAfter(law, cause, reason)
    /\ faults' \subseteq FaultFlags
    /\ (faults \ SensorFaults) \cup FaultsLatched(reason) \subseteq faults'
    /\ lost' = lost \cup ({reason} \cap CapabilityLosses)
    /\ controller' \subseteq memory \cup (IF control_law' = "Backup" THEN {} ELSE {control_law'})

(* The history of capability losses is never ahead of the fault register:  *)
(* the inductive invariant behind NoRearmAfterLoss.                        *)
LossIsLatched == \A r \in lost : latched_fault[r] \subseteq faults

(* Every degradation reason leads to a law worse than Primary, and every   *)
(* capability loss latches a fault that no sensor recovery clears          *)
(* (handle_degradation, latched_fault).                                    *)
LEMMA ReasonFacts ==
    /\ \A r \in Reasons : TargetLaw[r] \in {"Alternate", "Direct", "Backup"}
    /\ \A r \in Reasons : latched_fault[r] \subseteq LatchedFaults
    /\ \A r \in CapabilityLosses : latched_fault[r] # {}
    /\ LatchedFaults \cap SensorFaults = {}
    /\ LatchedFaults \subseteq FaultFlags
<1>1. \A r \in Reasons : TargetLaw[r] \in {"Alternate", "Direct", "Backup"}
  BY DEF Reasons, TargetLaw
<1>2. \A r \in Reasons : latched_fault[r] \subseteq LatchedFaults
  BY DEF LatchedFaults
<1>3. \A r \in CapabilityLosses : latched_fault[r] # {}
  BY DEF CapabilityLosses, Reasons, latched_fault
<1>4. LatchedFaults = {"ATTITUDE_LOST", "IMU_DEGRADED", "POSITION_LOST", "VELOCITY_LOST",
                       "BARO_DEGRADED", "ENVELOPE_VIOLATION", "RC_LOST",
                       "TIMING_PERSISTENT", "ENUM_INVALID"}
  BY DEF LatchedFaults, Reasons, latched_fault
<1>5. SensorFaults = {"ALL_IMU_FAILED", "BARO_FAILED", "MAG_FAILED", "ALL_GNSS_LOST"}
  BY DEF SensorFaults, SensorFault, Kinds
<1> QED
  BY <1>1, <1>2, <1>3, <1>4, <1>5 DEF FaultFlags

(* What the in-flight checks and the timing monitor can report.            *)
LEMMA ReasonType ==
    ASSUME NEW current
    PROVE  DegradationReason(current) \subseteq Reasons \cup {"None"}
<1>1. \A f \in InFlightFlags : TriggerOf[f] \in Reasons
  BY DEF InFlightFlags, TriggerOf, Reasons
<1>2. "TimingViolation" \in Reasons
  BY DEF Reasons
<1> QED
  BY <1>1, <1>2, KernelAssumption DEF DegradationReason, get_degradation_trigger

(* What an armed cycle emits, and the freshness it reports with it.        *)
CycleOutput(entry, fresh) ==
    [pattern |-> IF control_law' = "Backup" \/ entry.decision = "Unsupported"
                   THEN "safe" ELSE "control",
     decision |-> entry.decision,
     flies |-> IF control_law' = "Backup" \/ entry.decision = "Unsupported"
                 THEN "Attitude" ELSE entry.flies,
     fresh |-> fresh]

LEMMA ReportedFreshness ==
    ASSUME NEW good, NEW motion, NEW dt, NEW fresh, NEW limited, NEW requested,
           update_armed(good, motion, dt, fresh, limited, requested)
    PROVE  out'.fresh = fresh
<1>1. PICK entry : out' = CycleOutput(entry, fresh)
  BY DEF update_armed, CycleOutput
<1> QED
  BY <1>1 DEF CycleOutput

(* An armed cycle has the shape of CycleFacts.                             *)
LEMMA ArmedCycle ==
    ASSUME TypeOK, NEW good \in SensorSets, NEW motion \in Motions, NEW dt \in Steps,
           NEW fresh \in BOOLEAN, NEW limited \in Limited, NEW requested \in ControlModes,
           update_armed(good, motion, dt, fresh, limited, requested)
    PROVE  \E released \in BOOLEAN, reason \in Reasons \cup {"None"} :
              CycleFacts(released, reason)
<1> DEFINE flags == InFlightAfter(est', good, fresh)
           released == Releases(flags)
<1>1. PICK reason \in DegradationReason(flags) :
        LET law == IF released THEN "Primary" ELSE control_law
            cause == IF released THEN "None" ELSE terminal_cause
            entry == Entry(control_law', requested, ValidFlags(est'))
            safe == control_law' = "Backup" \/ entry.decision = "Unsupported"
            memory == IF released \/ EntersTerminal(law, reason) THEN {} ELSE controller IN
        /\ control_law' = LawAfter(law, reason)
        /\ terminal_cause' = CauseAfter(law, cause, reason)
        /\ faults' = update_sensor_faults(good) \cup FaultsLatched(reason)
        /\ lost' = lost \cup ({reason} \cap CapabilityLosses)
        /\ controller' = IF entry.decision = "Unsupported" THEN {}
                         ELSE IF safe THEN memory ELSE memory \cup {control_law'}
  BY DEF update_armed
<1>2. reason \in Reasons \cup {"None"}
  BY ReasonType
<1>3. released \in BOOLEAN
  BY DEF Releases
<1>4. released => control_law = "Direct" /\ terminal_cause = "CommandLoss" /\ out'.fresh
  <2>1. released => control_law = "Direct" /\ terminal_cause = "CommandLoss"
    BY DEF Releases
  <2>2. released => fresh
    BY DEF Releases, InFlightAfter
  <2>3. out'.fresh = fresh
    BY ReportedFreshness
  <2> QED
    BY <2>1, <2>2, <2>3, Zenon
<1>5. /\ update_sensor_faults(good) \subseteq FaultFlags
      /\ faults \ SensorFaults \subseteq update_sensor_faults(good)
  <2>1. \A k \in Kinds : SensorFault[k] \in SensorFaults
    BY DEF SensorFaults
  <2> QED
    BY <2>1 DEF update_sensor_faults, TypeOK, FaultFlags
<1>6. FaultsLatched(reason) \subseteq FaultFlags
  BY <1>2, ReasonFacts DEF FaultsLatched
<1> HIDE DEF flags, released
<1>7. CycleFacts(released, reason)
  BY <1>1, <1>4, <1>5, <1>6 DEF CycleFacts
<1> QED
  BY <1>2, <1>3, <1>7

-----------------------------------------------------------------------------

(* The initial law, cause, memory and history of KernelState::new.         *)
LEMMA InitFacts ==
    Init => CauseMatchesLaw /\ MemoryMatchesLaw /\ LossIsLatched
  BY DEF Init, CauseMatchesLaw, MemoryMatchesLaw, LossIsLatched, Authority

(* terminal_cause stays in step with the law.                              *)
LEMMA CauseStep == TypeOK /\ CauseMatchesLaw /\ [Next]_vars => CauseMatchesLaw'
<1> SUFFICES ASSUME TypeOK, CauseMatchesLaw, [Next]_vars PROVE CauseMatchesLaw'
  OBVIOUS
<1> USE DEF CauseMatchesLaw
<1>1. CASE handle_degradation("LandRequested")
  <2>1. TargetLaw["LandRequested"] = "Direct"
    BY DEF TargetLaw, Reasons
  <2> QED
    BY <1>1, <2>1 DEF handle_degradation, LawAfter, CauseAfter
<1>2. ASSUME NEW good \in SensorSets, NEW motion \in Motions, NEW dt \in Steps,
             NEW fresh \in BOOLEAN, NEW limited \in Limited, NEW requested \in ControlModes,
             update_armed(good, motion, dt, fresh, limited, requested)
      PROVE  CauseMatchesLaw'
  <2>1. PICK released \in BOOLEAN, reason \in Reasons \cup {"None"} :
           CycleFacts(released, reason)
    BY <1>2, ArmedCycle
  <2> QED
    BY <2>1 DEF CycleFacts, LawAfter, CauseAfter, Degrades
<1>3. CASE \E good \in SensorSets : init_step(good)
  BY <1>3 DEF init_step, lawVars
<1>4. CASE arm \/ disarm \/ terminate \/ ground_reset
  BY <1>4 DEF arm, disarm, terminate, end_flight_period, ground_reset
<1>5. CASE \E good \in SensorSets : update_disarmed(good) \/ update_critical(good)
  BY <1>5 DEF update_disarmed, update_critical, lawVars
<1> QED
  BY <1>1, <1>2, <1>3, <1>4, <1>5
     DEF Next, estimator_init, update_throttle, reset_from_fault, report_timing_violation,
         request_config_mode, update_enum_invalid, vars, lawVars

(* Controller memory stays under the authority of the law that will read it. *)
LEMMA MemoryStep == TypeOK /\ MemoryMatchesLaw /\ [Next]_vars => MemoryMatchesLaw'
<1> SUFFICES ASSUME TypeOK, MemoryMatchesLaw, [Next]_vars PROVE MemoryMatchesLaw'
  OBVIOUS
<1> USE DEF MemoryMatchesLaw
<1>0. control_law \in Laws
  BY DEF TypeOK
<1>1. CASE handle_degradation("LandRequested")
  <2>1. TargetLaw["LandRequested"] = "Direct"
    BY DEF TargetLaw, Reasons
  <2>2. CASE Degrades(control_law, "LandRequested")
    BY <1>1, <2>1, <2>2 DEF handle_degradation, EntersTerminal
  <2>3. CASE ~Degrades(control_law, "LandRequested")
    BY <1>1, <2>3 DEF handle_degradation, LawAfter, EntersTerminal
  <2> QED
    BY <2>2, <2>3
<1>2. ASSUME NEW good \in SensorSets, NEW motion \in Motions, NEW dt \in Steps,
             NEW fresh \in BOOLEAN, NEW limited \in Limited, NEW requested \in ControlModes,
             update_armed(good, motion, dt, fresh, limited, requested)
      PROVE  MemoryMatchesLaw'
  <2>1. PICK released \in BOOLEAN, reason \in Reasons \cup {"None"} :
           CycleFacts(released, reason)
    BY <1>2, ArmedCycle
  <2>2. init_state' = "Armed"
    BY <1>2 DEF update_armed
  <2>3. reason # "None" => TargetLaw[reason] \in {"Alternate", "Direct", "Backup"}
    BY ReasonFacts
  <2>4. controller' \subseteq Authority[control_law']
    <3>1. CASE EntersTerminal(IF released THEN "Primary" ELSE control_law, reason)
      BY <2>1, <2>3, <3>1 DEF CycleFacts, LawAfter, EntersTerminal, Authority
    <3>2. CASE ~EntersTerminal(IF released THEN "Primary" ELSE control_law, reason)
      BY <1>0, <2>1, <2>3, <3>2
         DEF CycleFacts, LawAfter, EntersTerminal, Degrades, Authority, severity, Laws
    <3> QED
      BY <3>1, <3>2
  <2> QED
    BY <2>2, <2>4
<1>3. ASSUME NEW good \in SensorSets, init_step(good)
      PROVE  MemoryMatchesLaw'
  <2>1. init_state = "Armed" => init_state' = "Armed"
    BY <1>3 DEF init_step, InitStateAfter
  <2> QED
    BY <1>3, <2>1 DEF init_step, lawVars
<1>4. CASE arm
  BY <1>4 DEF arm, Authority
<1>5. CASE disarm \/ terminate \/ ground_reset
  BY <1>5 DEF disarm, terminate, end_flight_period, ground_reset
<1>6. CASE \E good \in SensorSets : update_disarmed(good) \/ update_critical(good)
  BY <1>6 DEF update_disarmed, update_critical, lawVars
<1> QED
  BY <1>1, <1>2, <1>3, <1>4, <1>5, <1>6
     DEF Next, estimator_init, update_throttle, reset_from_fault, report_timing_violation,
         request_config_mode, update_enum_invalid, vars, lawVars

(* A recorded loss keeps a fault in the register until a ground reset.     *)
LEMMA LossStep == TypeOK /\ LossIsLatched /\ [Next]_vars => LossIsLatched'
<1> SUFFICES ASSUME TypeOK, LossIsLatched, [Next]_vars PROVE LossIsLatched'
  OBVIOUS
<1> USE DEF LossIsLatched
<1>0. /\ lost \subseteq CapabilityLosses
      /\ \A r \in lost : latched_fault[r] \subseteq faults \ SensorFaults
  <2>1. lost \subseteq CapabilityLosses
    BY DEF TypeOK
  <2> QED
    BY <2>1, ReasonFacts DEF CapabilityLosses
<1>1. CASE handle_degradation("LandRequested")
  BY <1>1 DEF handle_degradation, CapabilityLosses
<1>2. ASSUME NEW good \in SensorSets, NEW motion \in Motions, NEW dt \in Steps,
             NEW fresh \in BOOLEAN, NEW limited \in Limited, NEW requested \in ControlModes,
             update_armed(good, motion, dt, fresh, limited, requested)
      PROVE  LossIsLatched'
  <2>1. PICK released \in BOOLEAN, reason \in Reasons \cup {"None"} :
           CycleFacts(released, reason)
    BY <1>2, ArmedCycle
  <2>2. reason \in CapabilityLosses => latched_fault[reason] \subseteq faults'
    BY <2>1 DEF CycleFacts, FaultsLatched, CapabilityLosses, Reasons
  <2> QED
    BY <1>0, <2>1, <2>2 DEF CycleFacts
<1>3. ASSUME NEW good \in SensorSets, update_disarmed(good) \/ update_critical(good)
      PROVE  LossIsLatched'
  <2>1. faults \ SensorFaults \subseteq faults'
    BY <1>3 DEF update_disarmed, update_critical, update_sensor_faults
  <2> QED
    BY <1>0, <1>3, <2>1 DEF update_disarmed, update_critical
<1>4. CASE ground_reset
  BY <1>4 DEF ground_reset
<1>5. CASE \E good \in SensorSets : init_step(good)
  BY <1>5 DEF init_step
<1>6. CASE arm \/ disarm \/ terminate
  BY <1>6 DEF arm, disarm, terminate, end_flight_period
<1>7. CASE update_enum_invalid
  BY <1>7 DEF update_enum_invalid
<1> QED
  BY <1>1, <1>2, <1>3, <1>4, <1>5, <1>6, <1>7
     DEF Next, estimator_init, update_throttle, reset_from_fault, report_timing_violation,
         request_config_mode, vars

(* The mode flown and the decision surfaced are always members of their    *)
(* enums, whatever rung the gate walks to (gate_controller_mode_entry); a  *)
(* law that flies the gate's mode flies one the estimate supports.         *)
LEMMA EntryType ==
    ASSUME NEW law, NEW requested \in ControlModes, NEW valid
    PROVE  /\ Entry(law, requested, valid).decision \in
                 {"Granted", "FallenBack", "Refused", "Unsupported"}
           /\ Entry(law, requested, valid).flies \in DOMAIN required_validity
           /\ (law \notin {"Backup", "Direct"} /\ "ATTITUDE" \in valid
                  /\ Entry(law, requested, valid).decision # "Unsupported")
                => required_validity[Entry(law, requested, valid).flies] \subseteq valid
<1> DEFINE need == required_validity[requested]
           rungs == {r \in Rungs : /\ required_validity[r] \subseteq need
                                   /\ required_validity[r] # need
                                   /\ required_validity[r] \subseteq valid}
           first == CHOOSE r \in rungs : \A q \in rungs : RungRank[r] <= RungRank[q]
<1>1. {"Attitude", "AltitudeHold", "PositionHold"} \subseteq DOMAIN required_validity
  BY DEF required_validity
<1>2. rungs # {} => first \in rungs
  <2>1. \A r \in rungs : RungRank[r] \in {1, 2, 3}
    BY DEF Rungs, RungRank
  <2>2. rungs # {} => \E r \in rungs : \A q \in rungs : RungRank[r] <= RungRank[q]
    <3> SUFFICES ASSUME rungs # {}
                 PROVE  \E r \in rungs : \A q \in rungs : RungRank[r] <= RungRank[q]
      OBVIOUS
    <3> HIDE DEF rungs
    <3>1. CASE \E r \in rungs : RungRank[r] = 1
      BY <2>1, <3>1
    <3>2. CASE (\A r \in rungs : RungRank[r] # 1) /\ \E r \in rungs : RungRank[r] = 2
      BY <2>1, <3>2
    <3>3. CASE \A r \in rungs : RungRank[r] = 3
      BY <2>1, <3>3
    <3> QED
      BY <2>1, <3>1, <3>2, <3>3
  <2> QED
    BY <2>2
<1>3. rungs # {} => first \in DOMAIN required_validity
  BY <1>1, <1>2 DEF Rungs
<1>4. requested \in DOMAIN required_validity
  BY KernelAssumption
<1>5. \/ /\ law = "Backup" \/ need \subseteq valid
         /\ Entry(law, requested, valid) = [decision |-> "Granted", flies |-> requested]
      \/ /\ law = "Direct"
         /\ Entry(law, requested, valid) = [decision |-> "Granted", flies |-> "AltitudeHold"]
      \/ Entry(law, requested, valid) = [decision |-> "Unsupported", flies |-> "Attitude"]
      \/ Entry(law, requested, valid) = [decision |-> "Refused", flies |-> "Attitude"]
      \/ rungs # {} /\ Entry(law, requested, valid) = [decision |-> "FallenBack", flies |-> first]
  <2>1. law = "Backup" => Entry(law, requested, valid) = [decision |-> "Granted", flies |-> requested]
    BY DEF Entry
  <2>2. law = "Direct" => Entry(law, requested, valid) = [decision |-> "Granted", flies |-> "AltitudeHold"]
    BY DEF Entry
  <2>3. law \notin {"Backup", "Direct"} => Entry(law, requested, valid) = ModeEntry(requested, valid)
    BY DEF Entry
  <2>4. ModeEntry(requested, valid) =
          IF requested \notin Supported THEN [decision |-> "Unsupported", flies |-> "Attitude"]
          ELSE IF need \subseteq valid THEN [decision |-> "Granted", flies |-> requested]
          ELSE IF rungs # {} THEN [decision |-> "FallenBack", flies |-> first]
          ELSE [decision |-> "Refused", flies |-> "Attitude"]
    BY Zenon DEF ModeEntry
  <2> HIDE DEF first, rungs, need
  <2>5. CASE law = "Backup" \/ law = "Direct"
    BY <2>1, <2>2, <2>5, Zenon
  <2>6. CASE law \notin {"Backup", "Direct"}
    BY <2>3, <2>4, <2>6, Zenon
  <2> QED
    BY <2>5, <2>6
<1>6. required_validity["Attitude"] = {"ATTITUDE"}
  BY DEF required_validity
<1>7. rungs # {} => required_validity[first] \subseteq valid
  BY <1>2
<1> HIDE DEF first, rungs
<1> QED
  BY <1>1, <1>3, <1>4, <1>5, <1>6, <1>7

(* Every call keeps the types of KernelState.                              *)
LEMMA TypeStep == TypeOK /\ [Next]_vars => TypeOK'
<1> SUFFICES ASSUME TypeOK, [Next]_vars PROVE TypeOK'
  OBVIOUS
<1> USE KernelAssumption, LimitsAssumption
<1>0. NoOutput \in Outputs /\ \A d \in {"Granted", "FallenBack", "Refused", "Unsupported"} :
        Safe(d) \in Outputs
  BY DEF NoOutput, Outputs, Safe, required_validity
<1>1. NoSamples \in [{"imu", "baro", "mag"} -> 0 .. MinSamples] /\ EstReset \in EstStates
  BY DEF NoSamples, EstReset, EstStates
<1>2. ASSUME NEW good \in SensorSets, init_step(good)
      PROVE  TypeOK'
  <2>1. PreArmAfter(good) \subseteq PreArmFlags
    <3>1. good \subseteq Kinds
      OBVIOUS
    <3> QED
      BY <3>1 DEF PreArmAfter, PreArmFlags, TypeOK
  <2>2. SamplesAfter(good) \in [{"imu", "baro", "mag"} -> 0 .. MinSamples]
    BY DEF SamplesAfter, Saturate, TypeOK
  <2>3. InitStateAfter(PreArmAfter(good)) \in InitStates
    BY DEF InitStateAfter, InitStates, TypeOK
  <2> QED
    BY <1>0, <1>1, <1>2, <2>1, <2>2, <2>3
       DEF init_step, TypeOK, PhaseTypeOK, phaseVars, lawVars
<1>3. CASE estimator_init
  <2>1. [EstReset EXCEPT !.initialized = TRUE] \in EstStates
    BY DEF EstReset, EstStates
  <2> QED
    BY <1>0, <1>3, <2>1
       DEF estimator_init, TypeOK, PhaseTypeOK, phaseVars, lawVars, checkVars
<1>4. CASE \E low \in BOOLEAN : update_throttle(low)
  BY <1>0, <1>4 DEF update_throttle, TypeOK, PhaseTypeOK, phaseVars, lawVars,
                    PreArmFlags
<1>5. CASE arm
  <2>1. datum_valid' \in BOOLEAN
    BY <1>5, Zenon DEF arm, begin_flight_period, Usable
  <2>2. PhaseTypeOK'
    BY <1>5, <2>1 DEF arm, begin_flight_period, PhaseTypeOK, Phases
  <2> QED
    BY <1>0, <1>5, <2>1, <2>2 DEF arm, TypeOK, checkVars, Laws, TerminalCauses, InitStates
<1>6. CASE disarm \/ terminate
  <2>1. end_flight_period
    BY <1>6 DEF disarm, terminate
  <2>2. within_envelope' \in BOOLEAN /\ datum_valid' \in BOOLEAN
    BY <2>1, Zenon DEF end_flight_period, phase_reset
  <2>3. PhaseTypeOK'
    BY <2>1, <2>2 DEF end_flight_period, phase_reset, PhaseTypeOK, Phases
  <2> QED
    BY <1>0, <2>1, <2>2, <2>3 DEF end_flight_period, TypeOK, Laws, TerminalCauses, InitStates
<1>7. CASE reset_from_fault
  <2>1. within_envelope' \in BOOLEAN
    BY <1>7, Zenon DEF reset_from_fault
  <2> QED
    BY <1>0, <1>1, <1>7, <2>1
       DEF reset_from_fault, TypeOK, PhaseTypeOK, phaseVars, lawVars, InitStates
<1>8. CASE ground_reset
  <2>1. within_envelope' \in BOOLEAN /\ datum_valid' \in BOOLEAN
    BY <1>8, Zenon DEF ground_reset, phase_reset
  <2>2. PhaseTypeOK'
    BY <1>8, <2>1 DEF ground_reset, phase_reset, PhaseTypeOK, Phases
  <2> QED
    BY <1>0, <1>1, <1>8, <2>1, <2>2
       DEF ground_reset, TypeOK, Laws, TerminalCauses, InitStates, ConfigModes
<1>9. CASE \E violation \in BOOLEAN : report_timing_violation(violation)
  BY <1>0, <1>9 DEF report_timing_violation, TypeOK, PhaseTypeOK, phaseVars, lawVars,
                    checkVars
<1>10. CASE \E to \in RequestModes, flags \in SUBSET (TransitionFlags \ {"WITHIN_ENVELOPE", "AIRSPEED_OK"}) :
              request_config_mode(to, flags)
  BY <1>0, <1>10 DEF request_config_mode, TypeOK, PhaseTypeOK, phaseVars, lawVars,
                     checkVars
<1>11. CASE handle_degradation("LandRequested")
  <2>1. "LandRequested" \in Reasons
    BY DEF Reasons
  <2>2. /\ control_law' \in Laws /\ terminal_cause' \in TerminalCauses
        /\ faults' \subseteq FaultFlags /\ controller' \subseteq Laws
        /\ lost' \subseteq CapabilityLosses
    BY <1>11, <2>1, ReasonFacts
       DEF handle_degradation, LawAfter, CauseAfter, FaultsLatched, TypeOK, Laws,
           TerminalCauses, FaultFlags
  <2> QED
    BY <1>0, <1>11, <2>2
       DEF handle_degradation, TypeOK, PhaseTypeOK, phaseVars, checkVars
<1>12. CASE update_enum_invalid
  <2>1. faults' \subseteq FaultFlags
    BY <1>12 DEF update_enum_invalid, TypeOK, FaultFlags, LatchedFaults
  <2> QED
    BY <1>0, <1>12, <2>1 DEF update_enum_invalid, TypeOK, PhaseTypeOK, phaseVars, lawVars,
                             checkVars
<1>13. ASSUME NEW good \in SensorSets, update_disarmed(good) \/ update_critical(good)
       PROVE  TypeOK'
  <2>1. faults' \subseteq FaultFlags
    BY <1>13 DEF update_disarmed, update_critical, update_sensor_faults, TypeOK, FaultFlags,
                 SensorFaults
  <2>2. est' \in EstStates
    BY <1>13 DEF update_disarmed, update_critical, Observed, TypeOK
  <2> QED
    BY <1>0, <1>13, <2>1, <2>2
       DEF update_disarmed, update_critical, TypeOK, PhaseTypeOK, phaseVars, lawVars,
           checkVars, InitStates, Laws, TerminalCauses
<1>14. ASSUME NEW good \in SensorSets, NEW motion \in Motions, NEW dt \in Steps,
              NEW fresh \in BOOLEAN, NEW limited \in Limited, NEW requested \in ControlModes,
              update_armed(good, motion, dt, fresh, limited, requested)
       PROVE  TypeOK'
  <2>1. PICK released \in BOOLEAN, reason \in Reasons \cup {"None"} :
           CycleFacts(released, reason)
    BY <1>14, ArmedCycle
  <2>2. /\ control_law' \in Laws /\ terminal_cause' \in TerminalCauses
        /\ lost' \subseteq CapabilityLosses /\ faults' \subseteq FaultFlags
    BY <2>1, ReasonFacts DEF CycleFacts, LawAfter, CauseAfter, Degrades, TypeOK, Laws,
                             TerminalCauses
  <2>3. controller' \subseteq Laws
    BY <2>1, <2>2 DEF CycleFacts, TypeOK
  <2>4. est' \in EstStates
    BY <1>14 DEF update_armed, Observed, TypeOK
  <2>5. within_envelope' \in BOOLEAN
    BY <1>14, Zenon DEF update_armed
  <2>6. out' \in Outputs
    <3> DEFINE entry == Entry(control_law', requested, ValidFlags(est'))
    <3>1. out' = CycleOutput(entry, fresh)
      BY <1>14, Zenon DEF update_armed, CycleOutput
    <3>2. /\ entry.decision \in {"Granted", "FallenBack", "Refused", "Unsupported"}
          /\ entry.flies \in DOMAIN required_validity
      BY EntryType
    <3> HIDE DEF entry
    <3> QED
      BY <3>1, <3>2 DEF Outputs, CycleOutput, required_validity
  <2>7. PhaseTypeOK'
    <3>1. PICK obs : phase_update(obs, TRUE, dt)
      BY <1>14 DEF update_armed
    <3>2. dt \in Int
      OBVIOUS
    <3> QED
      BY <3>1, <3>2 DEF phase_update, update_landed_debounce, DebounceStep, TypeOK,
                        PhaseTypeOK, Phases
  <2> QED
    BY <1>14, <2>2, <2>3, <2>4, <2>5, <2>6, <2>7 DEF update_armed, TypeOK
<1>15. CASE UNCHANGED vars
  BY <1>15 DEF vars, TypeOK, PhaseTypeOK
<1> QED
  BY <1>2, <1>3, <1>4, <1>5, <1>6, <1>7, <1>8, <1>9, <1>10, <1>11, <1>12, <1>13, <1>14, <1>15
     DEF Next

LEMMA InitType == Init => TypeOK
<1> SUFFICES ASSUME Init PROVE TypeOK
  OBVIOUS
<1>1. datum_valid \in BOOLEAN /\ within_envelope \in BOOLEAN
  BY Zenon DEF Init, PhaseInit
<1>2. PhaseTypeOK
  BY <1>1, LimitsAssumption DEF Init, PhaseInit, PhaseTypeOK, Phases
<1>3. out \in Outputs /\ est \in EstStates
  BY DEF Init, NoOutput, Outputs, required_validity, EstReset, EstStates
<1> QED
  BY <1>1, <1>2, <1>3, KernelAssumption
     DEF Init, TypeOK, InitStates, Laws, TerminalCauses, ConfigModes, NoSamples

(* KernelState keeps its types under every sequence of calls.              *)
THEOREM TypeCorrect == Spec => []TypeOK
  BY InitType, TypeStep, PTL DEF Spec

(* kernel_types.rs, TerminalCause: a descent always knows why it engaged,  *)
(* and nothing else carries a cause.                                       *)
THEOREM CauseConsistent == Spec => []CauseMatchesLaw
  BY InitFacts, CauseStep, TypeCorrect, PTL DEF Spec

(* LLR-CTL-101: no law ever runs on controller memory accumulated under    *)
(* another authority.                                                      *)
THEOREM MemoryConsistent == Spec => []MemoryMatchesLaw
  BY InitFacts, MemoryStep, TypeCorrect, PTL DEF Spec

(* LLR-FLT-209: nothing but a command-loss descent is released in flight,  *)
(* and it is by a cycle whose command is within its timeout again: neither *)
(* a timing violation nor a flag that outranks the command's releases it.  *)
THEOREM ReleaseOnlyCommandLoss == Spec => OnlyCommandLossReleases
<1>1. TypeOK /\ [Next]_vars =>
        [ (init_state = "Armed" /\ init_state' = "Armed") =>
            \/ severity[control_law'] >= severity[control_law]
            \/ control_law = "Direct" /\ terminal_cause = "CommandLoss" /\ out'.fresh ]_vars
  <2> SUFFICES ASSUME TypeOK, [Next]_vars, init_state = "Armed", init_state' = "Armed"
               PROVE  \/ severity[control_law'] >= severity[control_law]
                      \/ control_law = "Direct" /\ terminal_cause = "CommandLoss" /\ out'.fresh
    OBVIOUS
  <2>0. control_law \in Laws /\ \A l \in Laws : severity[l] \in Nat
    BY DEF TypeOK, Laws, severity
  <2>1. CASE handle_degradation("LandRequested")
    BY <2>0, <2>1, ReasonFacts DEF handle_degradation, LawAfter, Degrades, Reasons, Laws
  <2>2. ASSUME NEW good \in SensorSets, NEW motion \in Motions, NEW dt \in Steps,
               NEW fresh \in BOOLEAN, NEW limited \in Limited, NEW requested \in ControlModes,
               update_armed(good, motion, dt, fresh, limited, requested)
        PROVE  \/ severity[control_law'] >= severity[control_law]
               \/ control_law = "Direct" /\ terminal_cause = "CommandLoss" /\ out'.fresh
    <3>1. PICK released \in BOOLEAN, reason \in Reasons \cup {"None"} :
             CycleFacts(released, reason)
      BY <2>2, ArmedCycle
    <3> QED
      BY <2>0, <3>1, ReasonFacts DEF CycleFacts, LawAfter, Degrades, Laws
  <2>3. ~ (arm \/ disarm \/ terminate \/ ground_reset \/ reset_from_fault)
    BY DEF arm, disarm, terminate, end_flight_period, ground_reset, reset_from_fault
  <2>4. ~ \E good \in SensorSets : update_disarmed(good) \/ update_critical(good)
    BY DEF update_disarmed, update_critical
  <2> QED
    BY <2>0, <2>1, <2>2, <2>3, <2>4
       DEF Next, init_step, estimator_init, update_throttle, report_timing_violation,
           request_config_mode, update_enum_invalid, vars, lawVars
<1> QED
  BY <1>1, TypeCorrect, PTL DEF Spec, OnlyCommandLossReleases

(* LLR-FLT-214: a capability lost in one flight refuses every later arm    *)
(* until a ground reset.                                                   *)
THEOREM LossRefusesArm == Spec => NoRearmAfterLoss
<1>1. Spec => []LossIsLatched
  BY InitFacts, LossStep, TypeCorrect, PTL DEF Spec
<1>2. TypeOK /\ LossIsLatched /\ [Next]_vars =>
        [ (init_state # "Armed" /\ init_state' = "Armed") => lost = {} ]_vars
  <2> SUFFICES ASSUME TypeOK, LossIsLatched, [Next]_vars,
                      init_state # "Armed", init_state' = "Armed"
               PROVE  lost = {}
    OBVIOUS
  <2>1. ~ \E good \in SensorSets : init_step(good)
    BY DEF init_step, InitStateAfter, TypeOK, InitStates
  <2>2. ~ (disarm \/ terminate \/ reset_from_fault \/ ground_reset)
    BY DEF disarm, terminate, end_flight_period, reset_from_fault, ground_reset
  <2>3. ~ \E good \in SensorSets : update_disarmed(good) \/ update_critical(good)
    BY DEF update_disarmed, update_critical
  <2>4. ~ \E good \in SensorSets, motion \in Motions, dt \in Steps, fresh \in BOOLEAN,
             limited \in Limited, requested \in ControlModes :
             update_armed(good, motion, dt, fresh, limited, requested)
    <3> SUFFICES ASSUME NEW good \in SensorSets, NEW motion \in Motions, NEW dt \in Steps,
                        NEW fresh \in BOOLEAN, NEW limited \in Limited,
                        NEW requested \in ControlModes,
                        update_armed(good, motion, dt, fresh, limited, requested)
                 PROVE  FALSE
      OBVIOUS
    <3> QED
      BY DEF update_armed
  <2>5. arm
    BY <2>1, <2>2, <2>3, <2>4
       DEF Next, estimator_init, update_throttle, report_timing_violation,
           request_config_mode, handle_degradation, update_enum_invalid, vars
  <2>6. faults = {} /\ lost \subseteq CapabilityLosses
    BY <2>5 DEF arm, TypeOK
  <2> QED
    BY <2>6, ReasonFacts DEF LossIsLatched
<1> QED
  BY <1>1, <1>2, TypeCorrect, PTL DEF Spec, NoRearmAfterLoss
-----------------------------------------------------------------------------
(* Readiness                                                               *)

(* The flags init_step writes for convergence stand on the samples it has  *)
(* counted in the same call (update_from_sensors).                         *)
LEMMA ConvergedHasSamples ==
    ASSUME TypeOK, NEW good \in SensorSets, NEW k \in DOMAIN ConvergedFlag,
           ConvergedFlag[k] \in PreArmAfter(good)
    PROVE  SamplesAfter(good)[k] = MinSamples
<1>1. k \in {"imu", "baro", "mag"}
  BY DEF ConvergedFlag
<1>2. SamplesAfter(good)[k] \in 0 .. MinSamples
  BY <1>1, KernelAssumption DEF SamplesAfter, Saturate, TypeOK
<1>3. PICK j \in {"imu", "baro", "mag"} :
        ConvergedFlag[j] = ConvergedFlag[k] /\ SamplesAfter(good)[j] >= MinSamples
  <2>1. good \subseteq Kinds
    BY KernelAssumption
  <2>2. \A h \in good : ConvergedFlag[k] # HealthFlag[h]
    BY <1>1, <2>1 DEF ConvergedFlag, HealthFlag, Kinds
  <2>3. ConvergedFlag[k] \notin {"THROTTLE_LOW", "NO_FAULTS", "CONFIG_VALID", "EKF_CONVERGED"}
    BY <1>1 DEF ConvergedFlag
  <2> QED
    BY <2>2, <2>3 DEF PreArmAfter
<1>4. j = k
  BY <1>1, <1>3 DEF ConvergedFlag
<1> QED
  BY <1>2, <1>3, <1>4, KernelAssumption

(* Ready is entered on flags and samples of one and the same call, and no  *)
(* later call but the throttle's setter takes any of them back.            *)
LEMMA ReadyStep == TypeOK /\ ReadyIsChecked /\ [Next]_vars => ReadyIsChecked'
<1> SUFFICES ASSUME TypeOK, ReadyIsChecked, [Next]_vars, (init_state = "Ready")'
             PROVE  /\ PreArmRequired \ {"THROTTLE_LOW"} \subseteq pre_arm'
                    /\ \A k \in DOMAIN ConvergedFlag :
                          ConvergedFlag[k] \in PreArmRequired => samples'[k] = MinSamples
  BY DEF ReadyIsChecked
<1>1. ASSUME NEW good \in SensorSets, init_step(good)
      PROVE  /\ PreArmRequired \subseteq pre_arm'
             /\ \A k \in DOMAIN ConvergedFlag :
                   ConvergedFlag[k] \in PreArmRequired => samples'[k] = MinSamples
  <2>1. init_state \in {"PreArm", "Ready"} /\ PreArmRequired \subseteq PreArmAfter(good)
    BY <1>1 DEF init_step, InitStateAfter, TypeOK, InitStates
  <2>2. pre_arm' = PreArmAfter(good) /\ samples' = SamplesAfter(good)
    BY <1>1, <2>1 DEF init_step
  <2> QED
    BY <2>1, <2>2, ConvergedHasSamples
<1>2. CASE \E low \in BOOLEAN : update_throttle(low)
  BY <1>2 DEF update_throttle, ReadyIsChecked
<1>3. ~ (arm \/ disarm \/ terminate \/ reset_from_fault \/ ground_reset)
  BY DEF arm, disarm, terminate, end_flight_period, reset_from_fault, ground_reset
<1>4. ASSUME NEW good \in SensorSets, update_disarmed(good) \/ update_critical(good)
      PROVE  UNCHANGED <<init_state, pre_arm, samples>>
  BY <1>4 DEF update_disarmed, update_critical, checkVars
<1>5. ASSUME NEW good \in SensorSets, NEW motion \in Motions, NEW dt \in Steps,
             NEW fresh \in BOOLEAN, NEW limited \in Limited, NEW requested \in ControlModes,
             update_armed(good, motion, dt, fresh, limited, requested)
      PROVE  UNCHANGED <<init_state, pre_arm, samples>>
  BY <1>5 DEF update_armed
<1>6. CASE UNCHANGED <<init_state, pre_arm, samples>>
  BY <1>6 DEF ReadyIsChecked
<1> QED
  BY <1>1, <1>2, <1>3, <1>4, <1>5, <1>6
     DEF Next, estimator_init, report_timing_violation, request_config_mode,
         handle_degradation, update_enum_invalid, vars, checkVars

(* checks/pre_arm.rs: the state Ready is never older than the checks it    *)
(* stands on, whichever calls come between.                                *)
THEOREM ReadyStandsOnChecks == Spec => []ReadyIsChecked
<1>1. Init => ReadyIsChecked
  BY DEF Init, ReadyIsChecked
<1> QED
  BY <1>1, ReadyStep, TypeCorrect, PTL DEF Spec

-----------------------------------------------------------------------------
(* What an armed cycle may drive the actuators with                        *)

(* The trigger never passes over a lost attitude, and a stale command only *)
(* for a reason that ranks above it (get_degradation_trigger).             *)
LEMMA TriggerFacts ==
    ASSUME ATTITUDE_FLIGHT \subseteq InFlightRequired, NEW current,
           NEW reason \in get_degradation_trigger(current)
    PROVE  /\ "ATTITUDE_VALID" \notin current => reason = "AttitudeLost"
           /\ "IMU_OK" \in current /\ "COMMAND_RECENT" \notin current =>
                reason \in {"AttitudeLost", "PositionLost", "VelocityLost", "CommandTimeout"}
<1> DEFINE missing == InFlightRequired \ current
           first == {f \in missing : \A g \in missing : TriggerRank[f] <= TriggerRank[g]}
<1>1. InFlightRequired \subseteq InFlightFlags
  BY KernelAssumption
<1>2. missing # {} => reason \in {TriggerOf[f] : f \in first}
  BY DEF get_degradation_trigger
<1>3. ASSUME "ATTITUDE_VALID" \notin current
      PROVE  reason = "AttitudeLost"
  <2>1. "ATTITUDE_VALID" \in missing
    BY <1>3 DEF ATTITUDE_FLIGHT
  <2>2. \A f \in first : f = "ATTITUDE_VALID"
    BY <1>1, <2>1 DEF InFlightFlags, TriggerRank
  <2> QED
    BY <1>2, <2>1, <2>2 DEF TriggerOf
<1>4. ASSUME "IMU_OK" \in current, "COMMAND_RECENT" \notin current
      PROVE  reason \in {"AttitudeLost", "PositionLost", "VelocityLost", "CommandTimeout"}
  <2>1. "COMMAND_RECENT" \in missing /\ "IMU_OK" \notin missing
    BY <1>4 DEF ATTITUDE_FLIGHT
  <2>2. \A f \in first :
          f \in {"ATTITUDE_VALID", "POSITION_VALID", "VELOCITY_VALID", "COMMAND_RECENT"}
    BY <1>1, <2>1 DEF InFlightFlags, TriggerRank
  <2> QED
    BY <1>2, <2>1, <2>2 DEF TriggerOf
<1> QED
  BY <1>3, <1>4
(* A cycle that emits control output has met every condition on it: the    *)
(* exits of update() before the controller, the trigger, and the gate.     *)
LEMMA ControlCycle ==
    ASSUME ATTITUDE_FLIGHT \subseteq InFlightRequired, TypeOK,
           NEW good \in SensorSets, NEW motion \in Motions, NEW dt \in Steps,
           NEW fresh \in BOOLEAN, NEW limited \in Limited, NEW requested \in ControlModes,
           update_armed(good, motion, dt, fresh, limited, requested)
    PROVE  ControlIsJustified'
<1> DEFINE flags == InFlightAfter(est', good, fresh)
           released == Releases(flags)
           law == IF released THEN "Primary" ELSE control_law
           entry == Entry(control_law', requested, ValidFlags(est'))
<1> SUFFICES ASSUME (out.pattern = "control")', (violations < TimingThreshold)'
             PROVE  /\ init_state' = "Armed"
                    /\ faults' \cap CRITICAL_FAULTS = {}
                    /\ AttitudeValid(est')
                    /\ control_law' # "Backup"
                    /\ ~out'.fresh => \/ control_law' = "Direct"
                                      \/ lost' \cap {"PositionLost", "VelocityLost"} # {}
                    /\ control_law' # "Direct" =>
                          required_validity[out'.flies] \subseteq ValidFlags(est')
  BY DEF ControlIsJustified
<1>1. PICK reason \in DegradationReason(flags) :
        /\ control_law' = LawAfter(law, reason)
        /\ faults' = update_sensor_faults(good) \cup FaultsLatched(reason)
        /\ lost' = lost \cup ({reason} \cap CapabilityLosses)
        /\ out' = CycleOutput(entry, fresh)
  BY DEF update_armed, CycleOutput
<1>2. reason \in get_degradation_trigger(flags) /\ reason \in Reasons \cup {"None"}
  <2>1. violations' = violations /\ violations \in Nat
    BY DEF update_armed, TypeOK
  <2>2. ~ (violations >= TimingThreshold)
    BY <2>1, KernelAssumption
  <2> QED
    BY <1>1, <2>2, ReasonType DEF DegradationReason
<1>3. law \in Laws
  BY DEF TypeOK, Laws
<1>4. init_state' = "Armed"
  BY DEF update_armed
<1>5. update_sensor_faults(good) \cap CRITICAL_FAULTS = {}
  BY DEF update_armed
<1>6. faults' \cap CRITICAL_FAULTS = {}
  <2>1. FaultsLatched(reason) \cap SensorFaults = {}
    BY <1>2, ReasonFacts DEF FaultsLatched
  <2>2. CRITICAL_FAULTS \subseteq SensorFaults
    BY DEF CRITICAL_FAULTS, SensorFaults, SensorFault, Kinds
  <2> QED
    BY <1>1, <1>5, <2>1, <2>2
<1>7. "IMU_OK" \in flags
  <2>1. "imu" \in good
    BY <1>5 DEF update_sensor_faults, CRITICAL_FAULTS, SensorFault, Kinds
  <2> QED
    BY <2>1 DEF InFlightAfter
<1>8. /\ control_law' # "Backup" /\ entry.decision # "Unsupported"
      /\ out'.flies = entry.flies /\ out'.fresh = fresh
  <2> HIDE DEF entry
  <2> QED
    BY <1>1 DEF CycleOutput
<1>9. AttitudeValid(est')
  <2> SUFFICES ASSUME ~AttitudeValid(est') PROVE FALSE
    OBVIOUS
  <2>1. "ATTITUDE_VALID" \notin flags
    BY DEF InFlightAfter, ValidFlags
  <2>2. reason = "AttitudeLost"
    BY <1>2, <2>1, TriggerFacts
  <2>3. TargetLaw[reason] = "Backup" /\ reason # "None"
    BY <2>2 DEF TargetLaw, Reasons
  <2> HIDE DEF law
  <2> QED
    BY <1>1, <1>3, <1>8, <2>3 DEF LawAfter, Degrades, severity, Laws
<1>10. ~out'.fresh => \/ control_law' = "Direct"
                     \/ lost' \cap {"PositionLost", "VelocityLost"} # {}
  <2> SUFFICES ASSUME ~fresh
               PROVE  \/ control_law' = "Direct"
                      \/ lost' \cap {"PositionLost", "VelocityLost"} # {}
    BY <1>8
  <2>1. "COMMAND_RECENT" \notin flags
    BY DEF InFlightAfter
  <2>2. reason \in {"AttitudeLost", "PositionLost", "VelocityLost", "CommandTimeout"}
    BY <1>2, <1>7, <2>1, TriggerFacts
  <2>3. CASE reason \in {"PositionLost", "VelocityLost"}
    BY <1>1, <2>3 DEF CapabilityLosses, Reasons
  <2>4. CASE reason \in {"AttitudeLost", "CommandTimeout"}
    <3>1. TargetLaw[reason] \in {"Backup", "Direct"} /\ reason # "None"
      BY <2>4 DEF TargetLaw, Reasons
    <3> HIDE DEF law
    <3> QED
      BY <1>1, <1>3, <1>8, <3>1 DEF LawAfter, Degrades, severity, Laws
  <2> QED
    BY <2>2, <2>3, <2>4
<1>11. control_law' # "Direct" => required_validity[out'.flies] \subseteq ValidFlags(est')
  <2>1. "ATTITUDE" \in ValidFlags(est')
    BY <1>9 DEF ValidFlags
  <2> QED
    BY <1>8, <2>1, EntryType
<1> QED
  BY <1>4, <1>6, <1>8, <1>9, <1>10, <1>11

(* HLR-FLT-204: with the attitude-flight checks required, as the default   *)
(* of InFlightStatus and its POSITION_FLIGHT preset have them, the         *)
(* actuators are driven only on the grounds ControlIsJustified lists.      *)
THEOREM ControlStandsOnEstimate ==
    ASSUME ATTITUDE_FLIGHT \subseteq InFlightRequired
    PROVE  Spec => []ControlIsJustified
<1>1. Init => ControlIsJustified
  BY DEF Init, ControlIsJustified, NoOutput
<1>2. TypeOK /\ ControlIsJustified /\ [Next]_vars => ControlIsJustified'
  <2> SUFFICES ASSUME TypeOK, ControlIsJustified, [Next]_vars PROVE ControlIsJustified'
    OBVIOUS
  <2>1. CASE out' \in {NoOutput, Safe("Granted")}
    <3>1. out'.pattern # "control"
      <4>1. NoOutput.pattern = "none" /\ Safe("Granted").pattern = "safe"
        BY DEF NoOutput, Safe
      <4> QED
        BY <2>1, <4>1
    <3> QED
      BY <3>1 DEF ControlIsJustified
  <2>2. ASSUME NEW good \in SensorSets, NEW motion \in Motions, NEW dt \in Steps,
               NEW fresh \in BOOLEAN, NEW limited \in Limited, NEW requested \in ControlModes,
               update_armed(good, motion, dt, fresh, limited, requested)
        PROVE  ControlIsJustified'
    BY <2>2, ControlCycle
  <2>3. CASE UNCHANGED vars
    BY <2>3 DEF vars, ControlIsJustified
  <2>4. ASSUME NEW good \in SensorSets,
               init_step(good) \/ update_disarmed(good) \/ update_critical(good)
        PROVE  out' \in {NoOutput, Safe("Granted")}
    BY <2>4 DEF init_step, update_disarmed, update_critical
  <2>5. CASE estimator_init \/ arm \/ disarm \/ terminate \/ reset_from_fault \/ ground_reset
    BY <2>1, <2>5 DEF estimator_init, arm, disarm, terminate, end_flight_period,
                      reset_from_fault, ground_reset
  <2> QED
    BY <2>1, <2>2, <2>3, <2>4, <2>5
       DEF Next, update_throttle, report_timing_violation, request_config_mode,
           handle_degradation, update_enum_invalid
<1> QED
  BY <1>1, <1>2, TypeCorrect, PTL DEF Spec

-----------------------------------------------------------------------------
(* The latch in the kernel                                                 *)

ArmedIsSeen == armed = (init_state = "Armed")

(* Nothing is asked of the kernel that it does not do anyway.              *)
LEMMA WatchedIsKernel ==
    /\ WatchedNext => Next
    /\ Next => \/ arm \/ disarm \/ terminate \/ ground_reset \/ Elsewhere
               \/ \E good \in SensorSets : update_critical(good)
               \/ \E good \in SensorSets, motion \in Motions, dt \in Steps, fresh \in BOOLEAN,
                     limited \in Limited, requested \in ControlModes :
                     update_armed(good, motion, dt, fresh, limited, requested)
<1>1. WatchedNext => Next
  BY Zenon DEF WatchedNext, Next, Elsewhere
<1>2. ASSUME Next
      PROVE  \/ arm \/ disarm \/ terminate \/ ground_reset \/ Elsewhere
             \/ \E good \in SensorSets : update_critical(good)
             \/ \E good \in SensorSets, motion \in Motions, dt \in Steps, fresh \in BOOLEAN,
                   limited \in Limited, requested \in ControlModes :
                   update_armed(good, motion, dt, fresh, limited, requested)
  BY <1>2, Zenon DEF Next, Elsewhere
<1> QED
  BY <1>1, <1>2

(* Elsewhere the latch stays as it is, and so does Armed.                  *)
LEMMA ElsewhereKeeps ==
    Elsewhere => phaseVars' = phaseVars /\ (init_state' = "Armed") = (init_state = "Armed")
<1> SUFFICES ASSUME Elsewhere
             PROVE  phaseVars' = phaseVars /\ (init_state' = "Armed") = (init_state = "Armed")
  OBVIOUS
<1>1. CASE \E good \in SensorSets : init_step(good)
  BY <1>1 DEF init_step, InitStateAfter
<1>2. CASE reset_from_fault
  BY <1>2 DEF reset_from_fault
<1>3. CASE /\ ~ \E good \in SensorSets : init_step(good)
           /\ ~ reset_from_fault
  BY <1>3 DEF Elsewhere, estimator_init, update_throttle, report_timing_violation,
              request_config_mode, handle_degradation, update_enum_invalid, update_disarmed
<1> QED
  BY <1>1, <1>2, <1>3

(* Every operation of the kernel is a step of the latch, or none.          *)
LEMMA LatchStep ==
    ASSUME {m.height : m \in Motions} \subseteq Heights, Steps \subseteq CycleTimes,
           ArmedIsSeen, [WatchedNext]_watchedVars
    PROVE  [LatchNext]_latchVars /\ ArmedIsSeen'
<1>1. CASE UNCHANGED watchedVars
  BY <1>1 DEF watchedVars, vars, historyVars, latchVars, ArmedIsSeen
<1>2. CASE WatchedNext
  <2>1. armed' = (init_state' = "Armed") /\ ArmedIsSeen'
    BY <1>2, Zenon DEF WatchedNext, ArmedIsSeen
  <2>2. CASE arm /\ Forget
    <3>1. ~ armed /\ armed' = TRUE
      BY <2>1, <2>2 DEF arm, ArmedIsSeen
    <3>2. Usable(est) \in BOOLEAN
      BY DEF Usable, AttitudeValid
    <3>3. Arm(Usable(est))
      BY <2>2, <3>1, Zenon DEF arm, Arm
    <3> QED
      BY <2>1, <3>2, <3>3, Zenon DEF LatchNext
  <2>3. CASE (disarm \/ terminate) /\ Forget
    <3>1. armed' = FALSE /\ phase_reset
      BY <2>1, <2>3 DEF disarm, terminate, end_flight_period
    <3>2. EndPeriod(TRUE)
      BY <2>3, <3>1, Zenon DEF EndPeriod
    <3> QED
      BY <2>1, <3>2, Zenon DEF LatchNext
  <2>4. CASE ground_reset /\ Forget
    <3>1. armed' = FALSE /\ phase_reset
      BY <2>1, <2>4 DEF ground_reset
    <3>2. EndPeriod(TRUE)
      BY <2>4, <3>1, Zenon DEF EndPeriod
    <3> QED
      BY <2>1, <3>2, Zenon DEF LatchNext
  <2>5. CASE \E good \in SensorSets : update_critical(good) /\ UNCHANGED historyVars
    <3>1. armed /\ armed' = FALSE /\ phaseVars' = phaseVars
      BY <2>1, <2>5 DEF update_critical, ArmedIsSeen
    <3>2. CriticalFault
      BY <2>5, <3>1 DEF CriticalFault, phaseVars, historyVars
    <3> QED
      BY <2>1, <3>2, Zenon DEF LatchNext
  <2>6. CASE Elsewhere /\ UNCHANGED historyVars
    <3>1. phaseVars' = phaseVars /\ armed' = armed
      BY <2>1, <2>6, ElsewhereKeeps DEF ArmedIsSeen
    <3>2. UNCHANGED latchVars
      BY <2>6, <3>1 DEF latchVars, phaseVars, historyVars
    <3> QED
      BY <2>1, <3>2, Zenon
  <2>7. ASSUME NEW good \in SensorSets, NEW motion \in Motions, NEW dt \in Steps,
               NEW fresh \in BOOLEAN, NEW limited \in Limited, NEW requested \in ControlModes,
               update_armed(good, motion, dt, fresh, limited, requested),
               Watch(Estimate(est', motion), dt)
        PROVE  [LatchNext]_latchVars
    <3>1. armed = TRUE /\ armed' = TRUE
      BY <2>1, <2>7, Zenon DEF update_armed, ArmedIsSeen
    <3>2. PICK obs : obs = Estimate(est', motion)
      OBVIOUS
    <3>3. obs \in Observations(Heights)
      <4>1. motion.height \in Heights /\ motion.slow \in BOOLEAN
        BY KernelAssumption
      <4>2. Usable(est') \in BOOLEAN /\ ("VELOCITY" \in ValidFlags(est')) \in BOOLEAN
        BY DEF Usable, AttitudeValid
      <4> QED
        BY <3>2, <4>1, <4>2 DEF Estimate, Observations
    <3>4. phase_update(obs, TRUE, dt)
      BY <2>7, <3>2, Zenon DEF update_armed, Estimate
    <3>5. Cycle(obs, dt)
      BY <2>7, <3>1, <3>2, <3>4, Zenon DEF Cycle
    <3>6. dt \in CycleTimes
      OBVIOUS
    <3> QED
      BY <3>3, <3>5, <3>6, Zenon DEF LatchNext
  <2> QED
    BY <1>2, <2>1, <2>2, <2>3, <2>4, <2>5, <2>6, <2>7, Zenon DEF WatchedNext
<1> QED
  BY <1>1, <1>2

(* arm, disarm, terminate, ground_reset, update: under the kernel's own    *)
(* calls the latch is the one above.  So LLR-FLT-211 holds of the kernel:  *)
(* in a flight it takes the whole debounce, over two samples at least, of  *)
(* landed estimates from its own filter before disarm is granted again.    *)
THEOREM KernelRunsLatch ==
    ASSUME {m.height : m \in Motions} \subseteq Heights, Steps \subseteq CycleTimes
    PROVE  WatchedSpec => /\ Spec /\ LatchSpec
                          /\ [](DebounceIsEarned /\ AirborneHasDatum) /\ LandingIsObserved
<1>1. WatchedInit => LatchInit /\ ArmedIsSeen
  BY DEF WatchedInit, Init, LatchInit, ArmedIsSeen
<1>2. ArmedIsSeen /\ [WatchedNext]_watchedVars => [LatchNext]_latchVars /\ ArmedIsSeen'
  BY LatchStep
<1>3. WatchedSpec => LatchSpec
  BY <1>1, <1>2, PTL DEF WatchedSpec, LatchSpec
<1>4. WatchedSpec => Spec
  <2>1. WatchedInit => Init
    BY Zenon DEF WatchedInit
  <2>2. [WatchedNext]_watchedVars => [Next]_vars
    BY WatchedIsKernel DEF watchedVars
  <2> QED
    BY <2>1, <2>2, PTL DEF WatchedSpec, Spec
<1> QED
  BY <1>3, <1>4, DebounceEarned, AirborneDatum, LandingObserved, PTL

-----------------------------------------------------------------------------
(* The simulation runner                                                   *)

(* The kernel is given whatever Good the cache holds, and default_command  *)
(* until a setpoint has come: its inputs include both.                     *)
RunnerInputs ==
    /\ SUBSET Kinds \subseteq SensorSets
    /\ "Attitude" \in ControlModes

(* The default of InFlightStatus: no position or velocity is required, so  *)
(* no missing flag but attitude's outranks the command's (in_flight.rs).   *)
AttitudeChecks ==
    /\ ATTITUDE_FLIGHT \subseteq InFlightRequired
    /\ InFlightRequired \cap {"POSITION_VALID", "VELOCITY_VALID"} = {}

(* Every setpoint the runner holds came from the link or is the default.   *)
ModeInv ==
    /\ setpoint \in [mode : ControlModes, age : 0 .. Never]
    /\ flight_cmd \in [present : BOOLEAN, low : BOOLEAN, mode : ControlModes]

(* A world change waits between two passes or inside adopt; while none     *)
(* waits, driver, link and retained setpoint belong to the kernel's world. *)
WorldInv ==
    /\ generation_changed => pc \in {"idle", "reset"} /\ since = Never
    /\ pc = "reset" => generation_changed
    /\ ekf_initialized <=> est.initialized
    /\ ~generation_changed =>
          /\ init_state = "Armed" => hal_armed /\ link_armed
          /\ hal_armed => link_armed /\ init_state \in {"Armed", "Fault"}
          /\ setpoint.age = since

(* The runner reports no timing violations, and the checks it requires     *)
(* never give up a position or a velocity.                                 *)
LossInv ==
    /\ violations = 0
    /\ lost \cap {"PositionLost", "VelocityLost"} = {}

DriverStates == [reading : Readings, fault : FaultStates]

-----------------------------------------------------------------------------
(* The kernel under the runner                                             *)

(* The calls a pass makes are calls the kernel's Next allows.              *)
LEMMA KernelStep ==
    ASSUME RunnerInputs, ModeInv, [RunnerNext]_allVars
    PROVE  [Next]_vars
<1>1. Good \in SensorSets
  BY DEF RunnerInputs, Good
<1>2. CASE Environment
  BY <1>2 DEF Environment, feed_sensor_packet, feed_new_world, send_discrete, send_setpoint
<1>3. CASE adopt_terminate \/ adopt_reset \/ adopt_throttle
  <2>1. terminate \/ ground_reset \/ update_throttle(TRUE)
    BY <1>3 DEF adopt_terminate, adopt_reset, adopt_throttle
  <2> QED
    BY <2>1 DEF Next
<1>4. CASE step_discrete
  <2>1. arm \/ disarm \/ terminate \/ UNCHANGED vars
    BY <1>4, Zenon DEF step_discrete, enact_arm, enact_disarm, enact_terminate
  <2> QED
    BY <2>1 DEF Next
<1>5. CASE step_setpoint \/ step_no_command
  <2>1. update_throttle(flight_cmd.low) \/ UNCHANGED vars
    BY <1>5 DEF step_setpoint, step_no_command
  <2>2. (\E low \in BOOLEAN : update_throttle(low)) \/ UNCHANGED vars
    <3>1. ASSUME update_throttle(flight_cmd.low)
          PROVE  update_throttle(TRUE) \/ update_throttle(FALSE)
      BY <3>1 DEF update_throttle
    <3> QED
      BY <2>1, <3>1
  <2> QED
    BY <2>2 DEF Next
<1>6. CASE step_seed
  BY <1>6 DEF step_seed, Next
<1>7. CASE step_init
  BY <1>1, <1>7 DEF step_init, Next
<1>8. CASE step_update
  <2>1. (setpoint.age < Timeout) \in BOOLEAN /\ setpoint.mode \in ControlModes
    BY DEF ModeInv
  <2>2. \/ update_disarmed(Good) \/ update_critical(Good)
        \/ \E motion \in Motions, dt \in Steps, limited \in Limited :
              update_armed(Good, motion, dt, setpoint.age < Timeout, limited, setpoint.mode)
    BY <1>8 DEF step_update
  <2> QED
    BY <1>1, <2>1, <2>2 DEF Next
<1>9. CASE UNCHANGED allVars
  BY <1>9 DEF allVars
<1> QED
  BY <1>2, <1>3, <1>4, <1>5, <1>6, <1>7, <1>8, <1>9 DEF RunnerNext, Pass

(* Nothing but setpoints from the link and the default reaches the slots.  *)
LEMMA ModeStep == RunnerInputs /\ ModeInv /\ [RunnerNext]_allVars => ModeInv'
<1> SUFFICES ASSUME RunnerInputs, ModeInv, [RunnerNext]_allVars PROVE ModeInv'
  OBVIOUS
<1> USE DEF ModeInv
<1>0. /\ Never \in Nat /\ 0 \in 0 .. Never
      /\ NoSetpoint \in [mode : ControlModes, age : 0 .. Never]
      /\ NoCommand \in [present : BOOLEAN, low : BOOLEAN, mode : ControlModes]
  BY RunnerAssumption DEF NoSetpoint, NoCommand, RunnerInputs, Never
<1>1. CASE setpoint' \in {setpoint, NoSetpoint} /\ flight_cmd' \in {flight_cmd, NoCommand}
  BY <1>0, <1>1
<1>2. ASSUME NEW low \in BOOLEAN, NEW requested \in ControlModes, send_setpoint(low, requested)
      PROVE  ModeInv'
  BY <1>2 DEF send_setpoint
<1>3. CASE step_setpoint
  BY <1>0, <1>3 DEF step_setpoint
<1>4. CASE step_update
  <2>1. flight_cmd' = flight_cmd /\ setpoint' = [setpoint EXCEPT !.age = Older(setpoint.age)]
    BY <1>4 DEF step_update, linkVars
  <2>2. Older(setpoint.age) \in 0 .. Never
    BY <1>0 DEF Older
  <2> QED
    BY <2>1, <2>2
<1>5. CASE adopt_terminate \/ adopt_reset \/ adopt_throttle \/ step_seed \/ step_init
  BY <1>1, <1>5 DEF adopt_terminate, adopt_reset, reset_runner_for_generation, adopt_throttle,
                    step_seed, step_init, linkVars
<1>6. CASE step_discrete \/ step_no_command
  BY <1>1, <1>6 DEF step_discrete, step_no_command, Receive
<1>7. ASSUME NEW p \in Packets, feed_sensor_packet(p) \/ feed_new_world(p)
      PROVE  ModeInv'
  BY <1>1, <1>7 DEF feed_sensor_packet, feed_new_world
<1>8. ASSUME NEW cmd \in Discretes, send_discrete(cmd)
      PROVE  ModeInv'
  BY <1>1, <1>8 DEF send_discrete
<1>9. CASE UNCHANGED allVars
  BY <1>9 DEF allVars, runnerVars
<1> QED
  BY <1>2, <1>3, <1>4, <1>5, <1>6, <1>7, <1>8, <1>9 DEF RunnerNext, Pass, Environment

LEMMA RunnerInitFacts == RunnerInputs /\ RunnerInit => Init /\ ModeInv /\ WorldInv /\ LossInv
<1> SUFFICES ASSUME RunnerInputs, RunnerInit PROVE Init /\ ModeInv /\ WorldInv /\ LossInv
  OBVIOUS
<1>1. Init
  BY DEF RunnerInit
<1>2. ModeInv
  BY RunnerAssumption DEF RunnerInit, NoSetpoint, NoCommand, ModeInv, RunnerInputs, Never
<1>3. init_state = "PowerOn" /\ est = EstReset /\ violations = 0 /\ lost = {}
  BY <1>1 DEF Init
<1>4. /\ pc = "throttle" /\ ~generation_changed /\ ~hal_armed /\ ~ekf_initialized
      /\ setpoint.age = Never /\ since = Never
  BY DEF RunnerInit, NoSetpoint
<1>5. ~est.initialized
  BY <1>3 DEF EstReset
<1> QED
  BY <1>1, <1>2, <1>3, <1>4, <1>5 DEF WorldInv, LossInv

LEMMA DriverFacts ==
    /\ FreshDriver \in DriverStates
    /\ \A d \in DriverStates, r \in Readings : [d EXCEPT !.reading = r] \in DriverStates
    /\ \A d \in DriverStates, f \in FaultStates : [d EXCEPT !.fault = f] \in DriverStates
    /\ \A d \in DriverStates : AfterRead(d) \in DriverStates /\ ReadValue(d) \in Readings
<1> USE RunnerAssumption
<1>1. FreshDriver \in DriverStates
  BY DEF FreshDriver, DriverStates, FaultStates, Readings
<1>2. /\ \A d \in DriverStates, r \in Readings : [d EXCEPT !.reading = r] \in DriverStates
      /\ \A d \in DriverStates, f \in FaultStates : [d EXCEPT !.fault = f] \in DriverStates
  BY DEF DriverStates
<1>3. ASSUME NEW d \in DriverStates
      PROVE  AfterRead(d) \in DriverStates /\ ReadValue(d) \in Readings
  <2>1. ReadValue(d) \in Readings
    BY DEF ReadValue, DriverStates, Readings
  <2>2. CASE d.fault.fault # "HealthFailed" /\ Dropping(d)
    <3>1. d.fault \in [fault : {"Dropout"}, remaining_cycles : 1 .. DropoutCycles]
      BY <2>2 DEF Dropping, DriverStates, FaultStates, NoFault
    <3>2. [d.fault EXCEPT !.remaining_cycles = @ - 1] \in FaultStates
      BY <3>1 DEF FaultStates
    <3>3. AfterRead(d) = [d EXCEPT !.fault = [d.fault EXCEPT !.remaining_cycles = @ - 1]]
      BY <2>2 DEF AfterRead, DriverStates
    <3> QED
      BY <1>2, <2>1, <3>2, <3>3
  <2>3. CASE d.fault.fault = "HealthFailed" \/ ~Dropping(d)
    BY <1>1, <2>1, <2>3 DEF AfterRead
  <2> QED
    BY <2>2, <2>3
<1> QED
  BY <1>1, <1>2, <1>3

(* The part of a pass that every command's step begins with.              *)
LEMMA SenseType ==
    ASSUME RunnerTypeOK, Sense
    PROVE  /\ drivers' \in [Kinds -> DriverStates] /\ cache' \in [Kinds -> Readings]
           /\ sensor_data' \in [Kinds -> Readings] /\ pc' = "seed"
           /\ UNCHANGED <<generation_changed, system_status, ekf_initialized>>
<1>1. /\ drivers \in [Kinds -> DriverStates] /\ cache \in [Kinds -> Readings]
      /\ sensor_data \in [Kinds -> Readings]
  BY DEF RunnerTypeOK, DriverStates
<1>2. PICK injected \in Injected :
         LET d == Fed(injected) IN
         /\ drivers' = [k \in Kinds |-> IF data_ready(d[k]) THEN AfterRead(d[k]) ELSE d[k]]
         /\ cache' = [k \in Kinds |-> IF data_ready(d[k]) THEN ReadValue(d[k]) ELSE cache[k]]
  BY DEF Sense
<1>3. injected \in [Kinds -> DriverStates]
  <2>1. ASSUME NEW c \in Injections
        PROVE  [fault |-> c.fault,
                remaining_cycles |-> IF c.fault = "Dropout" THEN DropoutCycles ELSE 0]
                 \in FaultStates
    BY RunnerAssumption DEF FaultStates, NoFault
  <2>2. ASSUME NEW c \in Injections, NEW f \in FaultStates
        PROVE  [drivers EXCEPT ![c.kind].fault = f] \in [Kinds -> DriverStates]
    <3>1. c.kind \in Kinds
      BY RunnerAssumption
    <3>2. [drivers[c.kind] EXCEPT !.fault = f] \in DriverStates
      BY <1>1, <3>1, DriverFacts
    <3> QED
      BY <1>1, <3>1, <3>2
  <2> DEFINE Tables == [Kinds -> DriverStates]
  <2>3. injected = drivers \/ \E c \in Injections, f \in FaultStates :
                                 injected = [drivers EXCEPT ![c.kind].fault = f]
    BY <2>1, Zenon DEF Injected
  <2>4. /\ drivers \in Tables
        /\ \A c \in Injections, f \in FaultStates :
              [drivers EXCEPT ![c.kind].fault = f] \in Tables
    BY <1>1, <2>2
  <2> HIDE DEF Tables
  <2>5. injected \in Tables
    BY <2>3, <2>4, Zenon
  <2> QED
    BY <2>5 DEF Tables
<1>4. Fed(injected) \in [Kinds -> DriverStates]
  BY <1>1, <1>3, DriverFacts DEF Fed
<1>5. drivers' \in [Kinds -> DriverStates] /\ cache' \in [Kinds -> Readings]
  BY <1>1, <1>2, <1>4, DriverFacts
<1>6. /\ sensor_data' = Nothing /\ pc' = "seed"
      /\ UNCHANGED <<generation_changed, system_status, ekf_initialized>>
  BY DEF Sense
<1>7. Nothing \in [Kinds -> Readings]
  BY DEF Nothing, Readings
<1> QED
  BY <1>5, <1>6, <1>7 DEF Sense

(* Every step keeps the types of the runner, given those of the kernel.    *)
LEMMA RunnerTypeStep ==
    ASSUME RunnerInputs, RunnerTypeOK, ModeInv, [RunnerNext]_allVars
    PROVE  RunnerTypeOK'
<1> USE RunnerAssumption
<1>0. TypeOK' /\ ModeInv'
  BY KernelStep, ModeStep, TypeStep DEF RunnerTypeOK
<1>1. /\ ControlModes \subseteq DOMAIN required_validity
      /\ setpoint' \in [mode : DOMAIN required_validity, age : 0 .. Never]
      /\ flight_cmd' \in Commands
  BY <1>0, KernelAssumption DEF ModeInv, Commands
<1> DEFINE Kept == /\ sensor_data' \in [Kinds -> Readings]
                   /\ drivers' \in [Kinds -> DriverStates]
                   /\ cache' \in [Kinds -> Readings]
           Flags == /\ generation_changed' \in BOOLEAN /\ link_armed' \in BOOLEAN
                    /\ hal_armed' \in BOOLEAN /\ ekf_initialized' \in BOOLEAN
           Rest == /\ pc' \in {"idle", "reset", "throttle", "sense", "seed", "init", "update"}
                   /\ slot' \in {"None"} \cup Discretes
                   /\ system_status' \in {"Boot", "Calibrating", "Standby", "Active", "Critical"}
                   /\ since' \in 0 .. Never
<1>2. Nothing \in [Kinds -> Readings] /\ [k \in Kinds |-> FreshDriver] \in [Kinds -> DriverStates]
  BY DriverFacts DEF Nothing, Readings
<1>3. ASSUME NEW p \in Packets, NEW old \in [Kinds -> Readings]
      PROVE  Buffered(p, old) \in [Kinds -> Readings]
  BY <1>3 DEF Buffered, Readings
<1>4. /\ sensor_data \in [Kinds -> Readings] /\ drivers \in [Kinds -> DriverStates]
      /\ cache \in [Kinds -> Readings] /\ slot \in {"None"} \cup Discretes
      /\ generation_changed \in BOOLEAN /\ link_armed \in BOOLEAN
      /\ hal_armed \in BOOLEAN /\ ekf_initialized \in BOOLEAN
      /\ system_status \in {"Boot", "Calibrating", "Standby", "Active", "Critical"}
      /\ since \in 0 .. Never /\ Never \in Nat
      /\ pc \in {"idle", "reset", "throttle", "sense", "seed", "init", "update"}
  BY DEF RunnerTypeOK, DriverStates, Never
<1>5. Kept
  <2>1. CASE UNCHANGED <<sensor_data, drivers, cache>>
    BY <1>4, <2>1
  <2>2. ASSUME NEW p \in Packets, feed_sensor_packet(p) \/ feed_new_world(p)
        PROVE  Kept
    BY <1>2, <1>3, <1>4, <2>2 DEF feed_sensor_packet, feed_new_world
  <2>3. CASE adopt_reset
    BY <1>2, <1>4, <2>3 DEF adopt_reset, reset_runner_for_generation
  <2>4. CASE step_discrete \/ step_setpoint \/ step_no_command
    BY <2>4, SenseType DEF step_discrete, step_setpoint, step_no_command
  <2>5. CASE adopt_terminate \/ adopt_throttle \/ step_seed \/ step_init \/ step_update
    BY <2>1, <2>5 DEF adopt_terminate, adopt_throttle, step_seed, step_init, step_update,
                      linkVars
  <2>6. CASE Environment
    BY <2>1, <2>2, <2>6 DEF Environment, send_discrete, send_setpoint
  <2>7. CASE UNCHANGED allVars
    BY <2>1, <2>7 DEF allVars, runnerVars
  <2> QED
    BY <2>3, <2>4, <2>5, <2>6, <2>7 DEF RunnerNext, Pass
<1>6. Flags
  <2>1. CASE UNCHANGED <<generation_changed, armedVars, ekf_initialized>>
    BY <1>4, <2>1, Zenon DEF armedVars
  <2>2. CASE Environment
    BY <1>4, <2>2, Zenon DEF Environment, feed_sensor_packet, feed_new_world, send_discrete,
                             send_setpoint, armedVars
  <2>3. CASE adopt_reset
    BY <1>4, <2>3, Zenon DEF adopt_reset, reset_runner_for_generation
  <2>4. CASE step_discrete
    <3>1. UNCHANGED <<generation_changed, ekf_initialized>>
      BY <2>4, SenseType DEF step_discrete
    <3>2. hal_armed' \in BOOLEAN /\ link_armed' \in BOOLEAN
      BY <1>4, <2>4, Zenon DEF step_discrete, enact_arm, enact_disarm, enact_terminate, armedVars
    <3> QED
      BY <1>4, <3>1, <3>2, Zenon
  <2>5. CASE step_setpoint \/ step_no_command
    BY <1>4, <2>5, SenseType, Zenon DEF step_setpoint, step_no_command, armedVars
  <2>6. CASE step_seed
    BY <1>4, <2>6, Zenon DEF step_seed, linkVars, armedVars
  <2>7. CASE adopt_terminate \/ adopt_throttle \/ step_init \/ step_update
    BY <2>1, <2>7 DEF adopt_terminate, adopt_throttle, step_init, step_update, linkVars
  <2>8. CASE UNCHANGED allVars
    BY <2>1, <2>8 DEF allVars, runnerVars, armedVars
  <2> QED
    BY <2>2, <2>3, <2>4, <2>5, <2>6, <2>7, <2>8 DEF RunnerNext, Pass
<1>7. Rest
  <2>1. MavState(init_state') \in {"Boot", "Calibrating", "Standby", "Active", "Critical"}
    BY <1>0 DEF MavState, TypeOK, InitStates
  <2>2. CASE Environment
    BY <1>4, <2>2 DEF Environment, feed_sensor_packet, feed_new_world, send_discrete,
                      send_setpoint
  <2>3. CASE adopt_terminate \/ adopt_reset \/ adopt_throttle
    BY <1>4, <2>3 DEF adopt_terminate, adopt_reset, adopt_throttle, linkVars
  <2>4. CASE step_discrete \/ step_setpoint \/ step_no_command
    BY <1>4, <2>4, SenseType DEF step_discrete, step_setpoint, step_no_command, Receive
  <2>5. CASE step_seed \/ step_init
    BY <1>4, <2>1, <2>5 DEF step_seed, step_init, linkVars
  <2>6. CASE step_update
    BY <1>4, <2>6 DEF step_update, linkVars, Older
  <2>7. CASE UNCHANGED allVars
    BY <1>4, <2>7 DEF allVars, runnerVars
  <2> QED
    BY <2>2, <2>3, <2>4, <2>5, <2>6, <2>7 DEF RunnerNext, Pass
<1> QED
  BY <1>0, <1>1, <1>5, <1>6, <1>7 DEF RunnerTypeOK, DriverStates

(* Driver, link, seed flag and setpoint age are moved by the same steps    *)
(* that move the kernel, or wait for a world change to move them.          *)
LEMMA WorldStep ==
    ASSUME RunnerTypeOK, WorldInv, [RunnerNext]_allVars
    PROVE  WorldInv'
<1> USE DEF WorldInv
<1>0. ASSUME NEW e \in EstStates, NEW o \in Observed(e)
      PROVE  o.initialized = e.initialized
  BY KernelAssumption DEF Observed, EstStates
<1>1. CASE Environment
  <2>1. \/ /\ pc = "idle" /\ pc' = "idle"
           /\ UNCHANGED <<generation_changed, init_state, est, hal_armed, link_armed,
                          ekf_initialized, setpoint, since>>
        \/ /\ generation_changed' = TRUE /\ pc = "idle" /\ pc' = "idle" /\ since' = Never
           /\ UNCHANGED <<est, ekf_initialized>>
    BY <1>1 DEF Environment, feed_sensor_packet, feed_new_world, send_discrete, send_setpoint,
                armedVars, vars
  <2>2. pc' # "reset"
    BY <2>1
  <2> QED
    BY <2>1, <2>2
<1>2. CASE adopt_terminate
  BY <1>2, Zenon DEF adopt_terminate, terminate, end_flight_period, linkVars, armedVars
<1>3. CASE adopt_reset
  <2>1. /\ pc' = "throttle" /\ generation_changed' = FALSE
        /\ init_state' = "ConfigLoading" /\ est' = EstReset
        /\ hal_armed' = FALSE /\ ekf_initialized' = FALSE /\ setpoint' = NoSetpoint
        /\ since' = since
    BY <1>3, Zenon DEF adopt_reset, reset_runner_for_generation, ground_reset
  <2>2. since = Never
    BY <1>3 DEF adopt_reset
  <2> QED
    BY <2>1, <2>2 DEF EstReset, NoSetpoint
<1>4. CASE adopt_throttle
  BY <1>4, Zenon DEF adopt_throttle, update_throttle, linkVars, armedVars
<1>5. CASE step_discrete
  <2>1. /\ pc' = "seed" /\ UNCHANGED <<generation_changed, ekf_initialized, setpoint, since>>
        /\ ~generation_changed
    BY <1>5 DEF step_discrete, Sense, Receive
  <2>2. \/ init_state' = "Armed" /\ hal_armed' = TRUE /\ link_armed' = TRUE /\ est' = est
        \/ init_state' = "Disarmed" /\ hal_armed' = FALSE /\ est' = est
        \/ UNCHANGED <<init_state, est, hal_armed, link_armed>>
    BY <1>5, Zenon DEF step_discrete, enact_arm, enact_disarm, enact_terminate, arm, disarm,
                       terminate, end_flight_period, armedVars, vars
  <2> QED
    BY <2>1, <2>2
<1>6. CASE step_setpoint \/ step_no_command
  <2>1. /\ pc' = "seed" /\ UNCHANGED <<generation_changed, ekf_initialized>>
        /\ ~generation_changed
        /\ UNCHANGED <<init_state, est, hal_armed, link_armed>>
    BY <1>6, Zenon DEF step_setpoint, step_no_command, Sense, update_throttle, armedVars, vars
  <2>2. setpoint'.age = since'
    BY <1>6, <2>1 DEF step_setpoint, step_no_command
  <2> QED
    BY <2>1, <2>2
<1>7. CASE step_seed
  <2>1. /\ ekf_initialized' = TRUE /\ est' = [EstReset EXCEPT !.initialized = TRUE]
        /\ pc = "seed" /\ pc' = "init"
        /\ UNCHANGED <<generation_changed, init_state, hal_armed, link_armed, setpoint, since>>
    BY <1>7, Zenon DEF step_seed, estimator_init, linkVars, armedVars
  <2> QED
    BY <2>1 DEF EstReset
<1>8. CASE step_init
  <2>1. /\ pc \in {"init", "seed"} /\ pc' = "update" /\ ~generation_changed
        /\ UNCHANGED <<generation_changed, est, hal_armed, link_armed, setpoint, since,
                       ekf_initialized>>
    BY <1>8, Zenon DEF step_init, init_step, linkVars, armedVars, vars
  <2>2. init_state' = init_state \/ (init_state \notin {"Armed", "Fault"} /\ init_state' # "Armed")
    BY <1>8 DEF step_init, init_step, InitStateAfter, vars, RunnerTypeOK, TypeOK, InitStates
  <2> QED
    BY <2>1, <2>2
<1>9. CASE step_update
  <2>1. /\ pc' = "idle" /\ ~generation_changed
        /\ UNCHANGED <<generation_changed, hal_armed, link_armed, ekf_initialized>>
        /\ setpoint' = [setpoint EXCEPT !.age = Older(setpoint.age)]
        /\ since' = Older(since)
    BY <1>9, Zenon DEF step_update, linkVars, armedVars
  <2>2. setpoint'.age = since'
    BY <2>1 DEF RunnerTypeOK
  <2>3. init_state' = init_state \/ (init_state = "Armed" /\ init_state' = "Fault")
    BY <1>9, Zenon DEF step_update, update_disarmed, update_critical, update_armed
  <2>4. est' \in {est} \cup Observed(est)
    BY <1>9 DEF step_update, update_disarmed, update_critical, update_armed
  <2>5. est' .initialized = est.initialized
    BY <1>0, <2>4 DEF RunnerTypeOK, TypeOK
  <2> QED
    BY <2>1, <2>2, <2>3, <2>5
<1>10. CASE UNCHANGED allVars
  BY <1>10, Zenon DEF allVars, runnerVars, vars
<1> QED
  BY <1>1, <1>2, <1>3, <1>4, <1>5, <1>6, <1>7, <1>8, <1>9, <1>10 DEF RunnerNext, Pass

-----------------------------------------------------------------------------
(* The setpoint that is flown                                              *)

(* What a cycle reports it flew is the recency it was given, and it gives  *)
(* up no capability that no required check speaks for.                     *)
LEMMA FlownCycle ==
    ASSUME AttitudeChecks, TypeOK, LossInv,
           NEW good, NEW motion, NEW dt, NEW fresh, NEW limited, NEW requested,
           update_armed(good, motion, dt, fresh, limited, requested)
    PROVE  /\ LossInv'
           /\ (out.pattern = "control")' => out'.fresh = fresh
<1> DEFINE flags == InFlightAfter(est', good, fresh)
           entry == Entry(control_law', requested, ValidFlags(est'))
<1>1. PICK reason \in DegradationReason(flags) :
        /\ lost' = lost \cup ({reason} \cap CapabilityLosses)
        /\ out' = CycleOutput(entry, fresh)
  BY DEF update_armed, CycleOutput
<1>2. violations' = violations
  BY DEF update_armed
<1>3. reason \notin {"PositionLost", "VelocityLost"}
  <2>1. InFlightRequired \subseteq InFlightFlags \ {"POSITION_VALID", "VELOCITY_VALID"}
    BY KernelAssumption DEF AttitudeChecks
  <2>2. \A f \in InFlightRequired : TriggerOf[f] \notin {"PositionLost", "VelocityLost"}
    BY <2>1 DEF InFlightFlags, TriggerOf
  <2>3. reason \in {"TimingViolation", "None"} \cup {TriggerOf[f] : f \in InFlightRequired}
    BY <1>1 DEF DegradationReason, get_degradation_trigger
  <2> QED
    BY <2>2, <2>3
<1>4. (out.pattern = "control")' => out'.fresh = fresh
  BY ReportedFreshness
<1> QED
  BY <1>1, <1>2, <1>3, <1>4 DEF LossInv

LEMMA RunnerLossStep ==
    ASSUME AttitudeChecks, TypeOK, LossInv, [RunnerNext]_allVars
    PROVE  LossInv'
<1>1. CASE UNCHANGED <<violations, lost>>
  BY <1>1 DEF LossInv
<1>2. CASE Environment
  BY <1>1, <1>2 DEF Environment, feed_sensor_packet, feed_new_world, send_discrete,
                    send_setpoint, vars
<1>3. CASE adopt_reset
  BY <1>3 DEF adopt_reset, ground_reset, LossInv
<1>4. CASE adopt_terminate \/ adopt_throttle \/ step_seed
  BY <1>1, <1>4 DEF adopt_terminate, adopt_throttle, step_seed, terminate, end_flight_period,
                    update_throttle, estimator_init
<1>5. CASE step_discrete
  <2>1. UNCHANGED <<violations, lost>>
    BY <1>5, Zenon DEF step_discrete, enact_arm, enact_disarm, enact_terminate, arm, disarm,
                       terminate, end_flight_period, vars
  <2> QED
    BY <1>1, <2>1
<1>6. CASE step_setpoint \/ step_no_command \/ step_init
  BY <1>1, <1>6 DEF step_setpoint, step_no_command, step_init, update_throttle, init_step, vars
<1>7. CASE step_update
  <2>1. CASE update_disarmed(Good) \/ update_critical(Good)
    BY <1>1, <2>1 DEF update_disarmed, update_critical
  <2>2. ASSUME NEW motion \in Motions, NEW dt \in Steps, NEW limited \in Limited,
               update_armed(Good, motion, dt, setpoint.age < Timeout, limited, setpoint.mode)
        PROVE  LossInv'
    BY <2>2, FlownCycle
  <2> QED
    BY <1>7, <2>1, <2>2 DEF step_update
<1>8. CASE UNCHANGED allVars
  BY <1>1, <1>8 DEF allVars, vars
<1> QED
  BY <1>2, <1>3, <1>4, <1>5, <1>6, <1>7, <1>8 DEF RunnerNext, Pass

(* The pass that ends in a cycle is the only one that may start flying a   *)
(* setpoint, and it looks at the age of the one it retains.                *)
LEMMA CommanderStep ==
    ASSUME AttitudeChecks, RunnerInputs, RunnerTypeOK, ModeInv, WorldInv, LossInv,
           FliesOnlyForACommander, [RunnerNext]_allVars
    PROVE  FliesOnlyForACommander'
<1> USE DEF FliesOnlyForACommander
<1>1. CASE pc' # "idle" \/ generation_changed'
  BY <1>1
<1>2. CASE Environment
  <2>1. \/ UNCHANGED <<pc, generation_changed, out, control_law, since>>
        \/ generation_changed'
    BY <1>2 DEF Environment, feed_sensor_packet, feed_new_world, send_discrete, send_setpoint,
                vars
  <2> QED
    BY <1>1, <2>1
<1>3. CASE adopt_terminate \/ adopt_reset \/ adopt_throttle \/ step_seed \/ step_init
  BY <1>1, <1>3 DEF adopt_terminate, adopt_reset, adopt_throttle, step_seed, step_init
<1>4. CASE step_discrete \/ step_setpoint \/ step_no_command
  <2>1. pc' = "seed"
    BY <1>4 DEF step_discrete, step_setpoint, step_no_command, Sense
  <2> QED
    BY <1>1, <2>1
<1>5. CASE step_update
  <2>1. since' = Older(since) /\ ~generation_changed
    BY <1>5 DEF step_update, WorldInv
  <2>2. CASE update_disarmed(Good) \/ update_critical(Good)
    <3>1. out'.pattern = "safe"
      BY <2>2 DEF update_disarmed, update_critical, Safe, NoOutput
    <3> QED
      BY <3>1
  <2>3. ASSUME NEW motion \in Motions, NEW dt \in Steps, NEW limited \in Limited,
               update_armed(Good, motion, dt, setpoint.age < Timeout, limited, setpoint.mode)
        PROVE  FliesOnlyForACommander'
    <3> SUFFICES ASSUME (out.pattern = "control")', control_law' # "Direct"
                 PROVE  since' <= Timeout
      OBVIOUS
    <3>1. Good \in SensorSets /\ setpoint.mode \in ControlModes
          /\ (setpoint.age < Timeout) \in BOOLEAN
      BY DEF RunnerInputs, Good, ModeInv
    <3>2. ControlIsJustified' /\ LossInv' /\ out'.fresh = (setpoint.age < Timeout)
      <4> DEFINE fresh == setpoint.age < Timeout
      <4>1. /\ update_armed(Good, motion, dt, fresh, limited, setpoint.mode)
            /\ fresh \in BOOLEAN /\ setpoint.mode \in ControlModes
            /\ TypeOK /\ ATTITUDE_FLIGHT \subseteq InFlightRequired
        BY <2>3, <3>1 DEF AttitudeChecks, RunnerTypeOK
      <4> HIDE DEF fresh
      <4>2. ControlIsJustified'
        BY <3>1, <4>1, ControlCycle
      <4>3. LossInv' /\ out'.fresh = fresh
        BY <4>1, FlownCycle
      <4> QED
        BY <4>2, <4>3 DEF fresh
    <3>3. (violations < TimingThreshold)'
      BY <3>2, KernelAssumption DEF LossInv
    <3>4. out'.fresh
      BY <3>2, <3>3 DEF ControlIsJustified, LossInv
    <3>5. setpoint.age < Timeout
      BY <3>2, <3>4
    <3>6. since < Timeout /\ since \in Nat
      BY <2>1, <3>5, RunnerAssumption DEF WorldInv, RunnerTypeOK, Never
    <3> QED
      BY <2>1, <3>6, RunnerAssumption DEF Older, Never
  <2> QED
    BY <1>5, <2>2, <2>3 DEF step_update
<1>6. CASE UNCHANGED allVars
  BY <1>6 DEF allVars, runnerVars, vars
<1> QED
  BY <1>2, <1>3, <1>4, <1>5, <1>6 DEF RunnerNext, Pass

-----------------------------------------------------------------------------
(* The theorems                                                            *)

(* step_clocked, pass by pass: the runner implements the kernel, so every  *)
(* theorem about the kernel is one about a simulated vehicle.              *)
THEOREM RunnerImplementsKernel ==
    ASSUME RunnerInputs
    PROVE  RunnerSpec => ImplementsKernel
<1>1. RunnerInit => Init /\ ModeInv
  BY RunnerInitFacts
<1>2. ModeInv /\ [RunnerNext]_allVars => ModeInv'
  BY ModeStep
<1>3. ModeInv /\ [RunnerNext]_allVars => [Next]_vars
  BY KernelStep
<1> QED
  BY <1>1, <1>2, <1>3, PTL DEF RunnerSpec, ImplementsKernel, Spec

(* The kernel's promises under the runner: it types, arms, degrades and    *)
(* actuates as proved, whatever simulator and ground station send.         *)
THEOREM KernelHoldsUnderRunner ==
    ASSUME RunnerInputs, ATTITUDE_FLIGHT \subseteq InFlightRequired
    PROVE  RunnerSpec => /\ [](TypeOK /\ CauseMatchesLaw /\ MemoryMatchesLaw)
                         /\ [](ReadyIsChecked /\ ControlIsJustified)
                         /\ OnlyCommandLossReleases /\ NoRearmAfterLoss
  BY RunnerImplementsKernel, TypeCorrect, CauseConsistent, MemoryConsistent,
     ReadyStandsOnChecks, ControlStandsOnEstimate, ReleaseOnlyCommandLoss, LossRefusesArm,
     PTL DEF ImplementsKernel

(* step_clocked, enact_*, adopt_generation_change: between two passes the  *)
(* driver's and the heartbeat's armed bits and the seed flag agree with    *)
(* the kernel, through every command and world change.                     *)
THEOREM RunnerAgrees ==
    ASSUME RunnerInputs
    PROVE  RunnerSpec => []RunnerInv
<1>1. RunnerInit => RunnerTypeOK /\ ModeInv /\ WorldInv
  <2> SUFFICES ASSUME RunnerInit PROVE RunnerTypeOK
    BY RunnerInitFacts
  <2>1. TypeOK
    BY InitType DEF RunnerInit
  <2>2. /\ generation_changed \in BOOLEAN /\ link_armed \in BOOLEAN
        /\ hal_armed \in BOOLEAN /\ ekf_initialized \in BOOLEAN
    BY Zenon DEF RunnerInit
  <2>3. /\ sensor_data \in [Kinds -> Readings] /\ cache \in [Kinds -> Readings]
        /\ drivers \in [Kinds -> DriverStates]
    BY DriverFacts DEF RunnerInit, Nothing, Readings
  <2>4. /\ flight_cmd \in Commands /\ since \in 0 .. Never
        /\ setpoint \in [mode : DOMAIN required_validity, age : 0 .. Never]
    BY RunnerAssumption DEF RunnerInit, Commands, NoCommand, NoSetpoint, Never, required_validity
  <2> QED
    BY <2>1, <2>2, <2>3, <2>4 DEF RunnerInit, RunnerTypeOK, DriverStates
<1>2. RunnerTypeOK /\ ModeInv /\ WorldInv /\ [RunnerNext]_allVars
        => (RunnerTypeOK /\ ModeInv /\ WorldInv)'
  BY RunnerTypeStep, ModeStep, WorldStep
<1>3. RunnerTypeOK /\ WorldInv => RunnerInv
  BY DEF RunnerInv, WorldInv, HalFollowsKernel, SeedFollowsFilter
<1> QED
  BY <1>1, <1>2, <1>3, PTL DEF RunnerSpec

(* HLR-CMD-001: with the attitude checks required, a simulated vehicle     *)
(* flies only on a setpoint of this world drained within the timeout.      *)
THEOREM CommanderIsPresent ==
    ASSUME RunnerInputs, AttitudeChecks
    PROVE  RunnerSpec => []FliesOnlyForACommander
<1>1. RunnerInit => ModeInv /\ WorldInv /\ LossInv /\ FliesOnlyForACommander
  BY RunnerInitFacts DEF RunnerInit, FliesOnlyForACommander
<1>2. RunnerSpec => []RunnerTypeOK
  BY RunnerAgrees, PTL DEF RunnerInv
<1>3. RunnerTypeOK /\ ModeInv /\ WorldInv /\ LossInv /\ FliesOnlyForACommander
        /\ [RunnerNext]_allVars
        => (ModeInv /\ WorldInv /\ LossInv /\ FliesOnlyForACommander)'
  <2>1. RunnerTypeOK => TypeOK
    BY DEF RunnerTypeOK
  <2> QED
    BY <2>1, ModeStep, WorldStep, RunnerLossStep, CommanderStep, Zenon
<1> QED
  BY <1>1, <1>2, <1>3, PTL DEF RunnerSpec
=============================================================================
