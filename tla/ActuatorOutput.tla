----------------------------- MODULE ActuatorOutput -----------------------------
(***************************************************************************)
(* The last stages of a cycle: group sanitizer, slew limiter and the       *)
(* record of what was commanded (aviate-core/src/mixer/sanitizer_impl.rs,  *)
(* kernel/slew.rs, mixer/actuators.rs, steps 6b to 10 of kernel_update.rs).*)
(*                                                                         *)
(* Which exit of update() a cycle takes is the business of module Kernel;  *)
(* here the exits differ in what they emit and which memory they touch.    *)
(* An output is an integer on a grid where 0 .. Full stands for [0, 1], or *)
(* NaN.  The mixer's result is any function in RawOutputs.                 *)
(***************************************************************************)
EXTENDS Integers

CONSTANTS
    Channels,       \* the actuator channels
    Groups,         \* the groups of cfg.mode_config
    Members,        \* ActuatorGroupConfig::members, by group
    Strong,         \* the groups with CouplingKind::Strong
    SafePattern,    \* ActuatorGroupConfig::safe_pattern.outputs, by group
    SafeValid,      \* the groups whose safe_pattern.valid is set
    SafeOutput,     \* cfg.safe_output
    SlewLimit,      \* cfg.slew_limit_per_cycle
    Full,           \* the output 1.0
    NaN,            \* an output that is not finite
    RawOutputs,     \* what the mixer may produce
    MaxAge,         \* MAX_FALLBACK_AGE_CYCLES
    MaxConsecutive  \* MAX_CONSECUTIVE_FALLBACK

InRange == 0 .. Full
Grouped == UNION {Members[g] : g \in Groups}

(* A channel has one group; safe patterns are configured within [0, 1].    *)
ASSUME OutputAssumption ==
    /\ Full \in Nat \ {0}
    /\ NaN \notin Int
    /\ Members \in [Groups -> SUBSET Channels]
    /\ \A g, h \in Groups : g # h => Members[g] \cap Members[h] = {}
    /\ Strong \subseteq Groups
    /\ SafeValid \subseteq Groups
    /\ SafePattern \in [Groups -> [Channels -> InRange]]
    /\ SafeOutput \in [Channels -> InRange]
    /\ SlewLimit \in [Channels -> Int]
    /\ RawOutputs \subseteq [Channels -> Int \cup {NaN}]
    /\ MaxAge \in Nat
    /\ MaxConsecutive \in Nat

VARIABLES
    armed,                  \* init_state = Armed
    commanded,              \* actuator_state.commanded
    last_good,              \* fallback.last_good, by group
    age,                    \* fallback.age, up to MaxAge
    consecutive_fallback,   \* fallback.consecutive_fallback, up to MaxConsecutive + 1
    emitted,                \* the outputs of the last cycle
    report,                 \* the SanitizeReport this call returned, clean unless it sanitized
    streak                  \* history: control cycles in a row in which the group's
                            \* mixer output was rejected, up to StreakCap

fallbackVars == <<last_good, age, consecutive_fallback>>
vars == <<armed, commanded, last_good, age, consecutive_fallback, emitted, report, streak>>

(* Beyond both limits one more rejected cycle changes nothing.             *)
StreakCap == MaxAge + MaxConsecutive + 1

NoVector == [valid |-> FALSE, outputs |-> [c \in Channels |-> 0]]
Vectors == [valid : BOOLEAN, outputs : [Channels -> InRange]]

Results == {"AllValid", "Clamped", "FallbackLastGood", "FallbackSafe", "FallbackUnavailable"}
CleanReport == [results |-> [g \in Groups |-> "AllValid"], limit_exceeded |-> FALSE]

TypeOK ==
    /\ armed \in BOOLEAN
    /\ commanded \in [Channels -> Int \cup {NaN}]
    /\ last_good \in [Groups -> Vectors]
    /\ age \in [Groups -> 0 .. MaxAge]
    /\ consecutive_fallback \in [Groups -> 0 .. (MaxConsecutive + 1)]
    /\ emitted \in [Channels -> Int \cup {NaN}]
    /\ report \in [results : [Groups -> Results], limit_exceeded : BOOLEAN]
    /\ streak \in [Groups -> 0 .. StreakCap]

Init ==
    /\ armed = FALSE
    /\ commanded = [c \in Channels |-> 0]
    /\ last_good = [g \in Groups |-> NoVector]
    /\ age = [g \in Groups |-> 0]
    /\ consecutive_fallback = [g \in Groups |-> 0]
    /\ emitted = SafeOutput
    /\ report = CleanReport
    /\ streak = [g \in Groups |-> 0]

-----------------------------------------------------------------------------
(* The sanitizer                                                           *)

AtMost(n, cap) == IF n < cap THEN n ELSE cap

ChannelValid(v) == v \in InRange
GroupValid(raw, g) == \A c \in Members[g] : ChannelValid(raw[c])

(* Fault seed for Reusable: the age is compared one cycle too late.        *)
Reusable_late(g) == last_good[g].valid /\ age[g] <= MaxAge

Reusable(g) == last_good[g].valid /\ age[g] < MaxAge

(* What takes the place of a rejected output.                              *)
Fallback(g, c) ==
    IF Reusable(g) THEN last_good[g].outputs[c]
    ELSE IF g \in SafeValid THEN SafePattern[g][c]
    ELSE 0

GroupResult(raw, g) ==
    CASE GroupValid(raw, g) -> "AllValid"
      [] ~GroupValid(raw, g) /\ g \notin Strong -> "Clamped"
      [] ~GroupValid(raw, g) /\ g \in Strong /\ Reusable(g) -> "FallbackLastGood"
      [] ~GroupValid(raw, g) /\ g \in Strong /\ ~Reusable(g) /\ g \in SafeValid -> "FallbackSafe"
      [] OTHER -> "FallbackUnavailable"

(* Fault seed for Sanitized: an output below the range is let through.     *)
Sanitized_one_sided(raw, g, c) ==
    IF raw[c] # NaN /\ raw[c] <= Full THEN raw[c] ELSE Fallback(g, c)

(* A strong group is replaced as a whole, a weak one channel by channel.   *)
Sanitized(raw, g, c) ==
    IF GroupValid(raw, g) \/ (g \notin Strong /\ ChannelValid(raw[c])) THEN raw[c]
    ELSE Fallback(g, c)

GroupOf(c) == CHOOSE g \in Groups : c \in Members[g]

SanitizedOutputs(raw) ==
    [c \in Channels |-> IF c \in Grouped THEN Sanitized(raw, GroupOf(c), c) ELSE raw[c]]

GoodVector(raw, g) ==
    [valid |-> TRUE,
     outputs |-> [c \in Channels |-> IF c \in Members[g] THEN raw[c] ELSE 0]]

(* Fault seed for CountAfter: a valid cycle does not clear the count.      *)
CountAfter_uncleared(raw, g) ==
    IF GroupValid(raw, g) THEN consecutive_fallback[g]
    ELSE AtMost(consecutive_fallback[g] + 1, MaxConsecutive + 1)

(* Clamped, the only fallback of a weak group, clears the count.           *)
CountAfter(raw, g) ==
    IF GroupResult(raw, g) \in {"AllValid", "Clamped"} THEN 0
    ELSE AtMost(consecutive_fallback[g] + 1, MaxConsecutive + 1)

sanitize(raw) ==
    /\ last_good' = [g \in Groups |-> IF GroupValid(raw, g) THEN GoodVector(raw, g) ELSE last_good[g]]
    /\ age' = [g \in Groups |-> IF GroupValid(raw, g) THEN 0 ELSE AtMost(age[g] + 1, MaxAge)]
    /\ consecutive_fallback' = [g \in Groups |-> CountAfter(raw, g)]
    /\ report' = [results |-> [g \in Groups |-> GroupResult(raw, g)],
                  limit_exceeded |-> \E g \in Groups :
                      /\ GroupResult(raw, g) \notin {"AllValid", "Clamped"}
                      /\ CountAfter(raw, g) > MaxConsecutive]
    /\ streak' = [g \in Groups |-> IF GroupValid(raw, g) THEN 0 ELSE AtMost(streak[g] + 1, StreakCap)]

-----------------------------------------------------------------------------
(* The slew limiter                                                        *)

Clamp(d, limit) == IF d < -limit THEN -limit ELSE IF d > limit THEN limit ELSE d

(* Fault seed for Slewed: only a rising output is limited.                 *)
Slewed_rising(target, prev, limit) ==
    IF limit <= 0 THEN target
    ELSE IF target = NaN \/ prev = NaN THEN NaN
    ELSE IF target - prev > limit THEN prev + limit ELSE target

(* One channel.  A NaN on either side leaves a NaN.                        *)
Slewed(target, prev, limit) ==
    IF limit <= 0 THEN target
    ELSE IF target = NaN \/ prev = NaN THEN NaN
    ELSE prev + Clamp(target - prev, limit)

apply_slew_limit(outputs) ==
    [c \in Channels |-> Slewed(outputs[c], commanded[c], SlewLimit[c])]

-----------------------------------------------------------------------------
(* The exits of update()                                                   *)

(* A law that flies: controller and mixer ran.                             *)
control_cycle(raw) ==
    /\ armed
    /\ sanitize(raw)
    /\ emitted' = apply_slew_limit(SanitizedOutputs(raw))
    /\ commanded' = emitted'
    /\ UNCHANGED armed

(* Backup, or an unsupported mode: the safe output, through the limiter    *)
(* but not the sanitizer.                                                  *)
safe_cycle ==
    /\ armed
    /\ emitted' = apply_slew_limit(SafeOutput)
    /\ commanded' = emitted'
    /\ report' = CleanReport
    /\ UNCHANGED <<armed, fallbackVars, streak>>

(* The early returns: corrupted enum, not armed, critical fault (which     *)
(* also leaves Armed).  None touches what the limiter and sanitizer keep.  *)
early_return(stays) ==
    /\ armed' = (armed /\ stays)
    /\ emitted' = SafeOutput
    /\ report' = CleanReport
    /\ UNCHANGED <<commanded, fallbackVars, streak>>

(* arm() and end_flight_period(): neither looks at the actuator memory.    *)
arm ==
    /\ ~armed
    /\ armed' = TRUE
    /\ report' = CleanReport
    /\ UNCHANGED <<commanded, fallbackVars, emitted, streak>>

end_flight_period ==
    /\ armed' = FALSE
    /\ report' = CleanReport
    /\ UNCHANGED <<commanded, fallbackVars, emitted, streak>>

ground_reset ==
    /\ ~armed
    /\ commanded' = [c \in Channels |-> 0]
    /\ last_good' = [g \in Groups |-> NoVector]
    /\ age' = [g \in Groups |-> 0]
    /\ consecutive_fallback' = [g \in Groups |-> 0]
    /\ streak' = [g \in Groups |-> 0]
    /\ report' = CleanReport
    /\ UNCHANGED <<armed, emitted>>

Next ==
    \/ \E raw \in RawOutputs : control_cycle(raw)
    \/ safe_cycle
    \/ \E stays \in BOOLEAN : early_return(stays)
    \/ arm
    \/ end_flight_period
    \/ ground_reset

Spec == Init /\ [][Next]_vars

-----------------------------------------------------------------------------
(* Properties                                                              *)

(* AVIATE_SPEC 10: whatever the mixer produced, and whatever vectors and   *)
(* outputs are left over from earlier cycles and flights, a grouped        *)
(* channel is driven within [0, 1].                                        *)
GroupsEmitInRange == \A c \in Grouped : emitted[c] \in InRange

Near(a, b, limit) == (a \in Int /\ b \in Int) => (a - b <= limit /\ b - a <= limit)

(* LLR-FLT-208, HLR-MORPH-202: between two outputs the kernel commanded    *)
(* while armed, a limited channel moves at most its limit, sanitizer       *)
(* substitutions and the change to the safe output included.               *)
SlewIsRespected ==
    [][ (commanded' # commanded /\ armed /\ armed') =>
          \A c \in Channels : SlewLimit[c] > 0 => Near(commanded'[c], commanded[c], SlewLimit[c]) ]_vars

(* actuators.rs, "Degradation triggers on frame (MAX_CONSECUTIVE_FALLBACK  *)
(* + 1)": the limit is reported in exactly the control cycles in which     *)
(* some strong group has been rejected for more than MaxConsecutive in a   *)
(* row, whatever safe cycles and early returns came between.               *)
LimitReportIsExact ==
    report # CleanReport =>
        (report.limit_exceeded <=> \E g \in Strong : streak[g] > MaxConsecutive)

(* AVIATE_SPEC 10.4: a last good vector is reused for at most              *)
(* MAX_FALLBACK_AGE_CYCLES rejected cycles, after which the safe pattern   *)
(* takes over, and it is never the vector of a group never seen valid.     *)
StaleVectorExpires ==
    \A g \in Groups : report.results[g] = "FallbackLastGood" =>
        streak[g] <= MaxAge /\ last_good[g].valid
=============================================================================
