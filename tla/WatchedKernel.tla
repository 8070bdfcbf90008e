----------------------------- MODULE WatchedKernel -----------------------------
(***************************************************************************)
(* The kernel, with the observer of FlightPhaseHistory and his clock       *)
(* beside it: the airborne latch under the kernel's own calls, fed by the  *)
(* estimates of the kernel's own filter.                                   *)
(***************************************************************************)
EXTENDS KernelProperties, FlightPhaseHistory

(* The estimate an armed cycle puts before the latch.                      *)
Estimate(e, motion) ==
    [usable |-> Usable(e), velocity |-> "VELOCITY" \in ValidFlags(e),
     height |-> motion.height, slow |-> motion.slow]

(* The operations that leave the latch and the flight period alone.        *)
Elsewhere ==
    \/ \E good \in SensorSets : init_step(good)
    \/ estimator_init
    \/ \E low \in BOOLEAN : update_throttle(low)
    \/ reset_from_fault
    \/ \E violation \in BOOLEAN : report_timing_violation(violation)
    \/ \E to \in RequestModes, flags \in SUBSET (TransitionFlags \ {"WITHIN_ENVELOPE", "AIRSPEED_OK"}) :
          request_config_mode(to, flags)
    \/ handle_degradation("LandRequested")
    \/ update_enum_invalid
    \/ \E good \in SensorSets : update_disarmed(good)

(* Every operation of the kernel, and what the observer notes of it.  The  *)
(* observer's variables follow the kernel's and constrain nothing.         *)
WatchedNext ==
    /\ \/ (arm \/ disarm \/ terminate \/ ground_reset) /\ Forget
       \/ \E good \in SensorSets : update_critical(good) /\ UNCHANGED historyVars
       \/ Elsewhere /\ UNCHANGED historyVars
       \/ \E good \in SensorSets, motion \in Motions, dt \in Steps, fresh \in BOOLEAN,
             limited \in Limited, requested \in ControlModes :
             /\ update_armed(good, motion, dt, fresh, limited, requested)
             /\ Watch(Estimate(est', motion), dt)
    /\ armed' = (init_state' = "Armed")

watchedVars == <<vars, armed, historyVars>>

WatchedInit == Init /\ armed = FALSE /\ held_time = 0 /\ held_samples = 0

WatchedSpec == WatchedInit /\ [][WatchedNext]_watchedVars
================================================================================
