------------------------------ MODULE FlightPhase ------------------------------
(***************************************************************************)
(* The airborne latch of the kernel (aviate-core/src/flight_phase.rs).     *)
(* `disarm` asks it one question: is the vehicle holding itself up?        *)
(*                                                                         *)
(* Heights and times are integers in any one unit.  A height is measured   *)
(* from the datum captured at arm, so the datum's own value is not kept:   *)
(* only whether it may be believed.  landed_elapsed is counted in HALF     *)
(* units of time, which makes "half the debounce window" exact.            *)
(***************************************************************************)
EXTENDS Integers

CONSTANTS
    TakeoffHeight,    \* FlightPhaseLimits::takeoff_height
    LandedHeight,     \* FlightPhaseLimits::landed_height
    LandedDebounce    \* FlightPhaseLimits::landed_debounce

ASSUME LimitsAssumption ==
    /\ TakeoffHeight \in Int
    /\ LandedHeight \in Int
    /\ LandedHeight < TakeoffHeight          \* is_hysteretic
    /\ LandedDebounce \in Nat \ {0}

VARIABLES
    phase,            \* FlightPhaseState::phase
    datum_valid,      \* FlightPhaseState::datum_valid
    landed_elapsed    \* FlightPhaseState::landed_elapsed, in half units

phaseVars == <<phase, datum_valid, landed_elapsed>>

Phases == {"OnGround", "Airborne"}

PhaseTypeOK ==
    /\ phase \in Phases
    /\ datum_valid \in BOOLEAN
    /\ landed_elapsed \in 0 .. (2 * LandedDebounce)

PhaseInit ==
    /\ phase = "OnGround"
    /\ datum_valid = FALSE
    /\ landed_elapsed = 0

is_airborne == phase = "Airborne"

(* What one estimate says: whether its vertical channel is usable, whether *)
(* VELOCITY is valid, the height, and whether |vertical speed| is below    *)
(* landed_speed.                                                           *)
Observations(heights) ==
    [usable : BOOLEAN, velocity : BOOLEAN, height : heights, slow : BOOLEAN]

LandedSample(obs) ==
    obs.usable /\ obs.height < LandedHeight /\ obs.velocity /\ obs.slow

(* Fault seed for DebounceStep: the half-window cap left out.              *)
DebounceStepUncapped(dt) == IF dt <= 0 THEN 0 ELSE 2 * dt

(* The time one landed sample adds: at most half the window, nothing for a *)
(* step that is not positive (a non-finite dt is such a step).             *)
DebounceStep(dt) ==
    IF dt <= 0 THEN 0
    ELSE IF 2 * dt < LandedDebounce THEN 2 * dt ELSE LandedDebounce

-----------------------------------------------------------------------------

(* Fault seed for begin_flight_period: the new datum over the old phase.   *)
begin_flight_period_keeps_phase(usable) ==
    /\ UNCHANGED phase
    /\ landed_elapsed' = 0
    /\ datum_valid' = usable

begin_flight_period(usable) ==
    /\ phase' = "OnGround"
    /\ landed_elapsed' = 0
    /\ datum_valid' = usable

phase_reset ==
    /\ phase' = "OnGround"
    /\ datum_valid' = FALSE
    /\ landed_elapsed' = 0

(* Fault seed for update_landed_debounce: a sample that breaks the landed  *)
(* condition pauses the debounce instead of restarting it.                 *)
update_landed_debounce_paused(obs, dt) ==
    IF ~LandedSample(obs)
      THEN UNCHANGED <<phase, landed_elapsed>>
      ELSE LET elapsed == landed_elapsed + DebounceStep(dt) IN
           IF elapsed >= 2 * LandedDebounce
             THEN phase' = "OnGround" /\ landed_elapsed' = 0
             ELSE UNCHANGED phase /\ landed_elapsed' = elapsed

update_landed_debounce(obs, dt) ==
    IF ~LandedSample(obs)
      THEN landed_elapsed' = 0 /\ UNCHANGED phase
      ELSE LET elapsed == landed_elapsed + DebounceStep(dt) IN
           IF elapsed >= 2 * LandedDebounce
             THEN phase' = "OnGround" /\ landed_elapsed' = 0
             ELSE UNCHANGED phase /\ landed_elapsed' = elapsed

(* The whole of FlightPhaseState::update.                                  *)
phase_update(obs, armed, dt) ==
    /\ UNCHANGED datum_valid
    /\ IF ~armed \/ ~datum_valid
         THEN UNCHANGED <<phase, landed_elapsed>>
         ELSE IF ~obs.usable
           THEN landed_elapsed' = 0 /\ UNCHANGED phase
           ELSE IF phase = "OnGround"
             THEN IF obs.height > TakeoffHeight
                    THEN phase' = "Airborne" /\ landed_elapsed' = 0
                    ELSE UNCHANGED <<phase, landed_elapsed>>
             ELSE update_landed_debounce(obs, dt)
=============================================================================
