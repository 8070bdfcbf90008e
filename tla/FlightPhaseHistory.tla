--------------------------- MODULE FlightPhaseHistory ---------------------------
(***************************************************************************)
(* The airborne latch on its own, under every order of arm, end of flight  *)
(* period and estimate, together with what an observer with a clock saw:   *)
(* for how long, and over how many samples, the landed condition has held  *)
(* without a break since the vehicle was in the air.  The latch keeps      *)
(* neither; it keeps landed_elapsed.                                       *)
(***************************************************************************)
EXTENDS FlightPhase

CONSTANTS
    Heights,    \* the heights an estimate may report
    CycleTimes  \* the dt values a cycle may pass; a stall is a large one

ASSUME InputAssumption == Heights \subseteq Int /\ CycleTimes \subseteq Int

VARIABLES
    armed,           \* the kernel's init_state == Armed
    held_time,       \* history: duration of the unbroken run of landed samples
    held_samples     \* history: their number

historyVars == <<held_time, held_samples>>
latchVars == <<phase, datum_valid, landed_elapsed, armed, held_time, held_samples>>

(* The history saturates once it has seen enough: HeldTimeCap and          *)
(* HeldSamplesCap bound it without hiding anything the properties ask.     *)
HeldTimeCap == LandedDebounce
HeldSamplesCap == 2

AtMost(n, cap) == IF n < cap THEN n ELSE cap

LatchTypeOK ==
    /\ PhaseTypeOK
    /\ armed \in BOOLEAN
    /\ held_time \in 0 .. HeldTimeCap
    /\ held_samples \in 0 .. HeldSamplesCap

LatchInit ==
    /\ PhaseInit
    /\ armed = FALSE
    /\ held_time = 0
    /\ held_samples = 0

Forget == held_time' = 0 /\ held_samples' = 0

(* arm(): the only caller of begin_flight_period.                          *)
Arm(usable) ==
    /\ ~armed
    /\ armed' = TRUE
    /\ begin_flight_period(usable)
    /\ Forget

(* disarm(), terminate() and ground_reset(): the callers of reset.  An     *)
(* ordinary disarm is refused while airborne.                              *)
EndPeriod(forced) ==
    /\ forced \/ ~is_airborne
    /\ armed' = FALSE
    /\ phase_reset
    /\ Forget

(* A critical fault leaves Armed without touching the latch.               *)
CriticalFault ==
    /\ armed
    /\ armed' = FALSE
    /\ UNCHANGED <<phase, datum_valid, landed_elapsed, held_time, held_samples>>

(* What the observer notes of a cycle inside a flight period.              *)
Watch(obs, dt) ==
    IF is_airborne /\ LandedSample(obs)
      THEN /\ held_time' = AtMost(held_time + (IF dt > 0 THEN dt ELSE 0), HeldTimeCap)
           /\ held_samples' = AtMost(held_samples + 1, HeldSamplesCap)
      ELSE Forget

Cycle(obs, dt) ==
    /\ phase_update(obs, armed, dt)
    /\ UNCHANGED armed
    /\ IF armed THEN Watch(obs, dt) ELSE UNCHANGED historyVars

LatchNext ==
    \/ \E usable \in BOOLEAN : Arm(usable)
    \/ \E forced \in BOOLEAN : EndPeriod(forced)
    \/ CriticalFault
    \/ \E obs \in Observations(Heights), dt \in CycleTimes : Cycle(obs, dt)

LatchSpec == LatchInit /\ [][LatchNext]_latchVars

-----------------------------------------------------------------------------

(* What the debounce has banked was really seen: never more than the time  *)
(* the landed condition held, and never more than half a window a sample   *)
(* (flight_phase.rs, update_landed_debounce).                              *)
DebounceIsEarned ==
    (phase = "Airborne") =>
        /\ landed_elapsed <= 2 * held_time
        /\ landed_elapsed <= held_samples * LandedDebounce

(* LLR-FLT-211: while a flight period lasts, the latch leaves Airborne     *)
(* only after the landed condition held for the whole debounce, and never  *)
(* on one sample, whatever the clock did between two cycles.               *)
LandingIsObserved ==
    [][ (phase = "Airborne" /\ phase' = "OnGround" /\ armed /\ armed') =>
          held_time' = HeldTimeCap /\ held_samples' = HeldSamplesCap ]_latchVars

(* The latch sets only inside a flight period whose datum was believable,  *)
(* and survives a critical fault: it is still set when Armed is gone.      *)
AirborneHasDatum == is_airborne => datum_valid
=============================================================================
