-------------------------- MODULE ActuatorOutputProofs --------------------------
(***************************************************************************)
(* Theorems about the sanitizer and the slew limiter, for every set of     *)
(* channels, every disjoint grouping, every safe pattern within the range, *)
(* every mixer output and every pair of limits.                            *)
(***************************************************************************)
EXTENDS ActuatorOutput, TLAPS

(* An output of the limiter lies between the previous and the target one,  *)
(* and within the limit of the previous one.                               *)
LEMMA SlewedBounds ==
    ASSUME NEW target \in Int, NEW prev \in Int, NEW limit \in Int
    PROVE  /\ Slewed(target, prev, limit) \in Int
           /\ (target \in InRange /\ prev \in InRange) => Slewed(target, prev, limit) \in InRange
           /\ limit > 0 => Near(Slewed(target, prev, limit), prev, limit)
<1>1. target # NaN /\ prev # NaN
  BY OutputAssumption
<1>2. Full \in Nat
  BY OutputAssumption
<1> QED BY <1>1, <1>2 DEF Slewed, Clamp, InRange, Near

(* With a NaN on either side the limiter leaves a NaN or the target.       *)
LEMMA SlewedType ==
    ASSUME NEW target \in Int \cup {NaN}, NEW prev \in Int \cup {NaN}, NEW limit \in Int
    PROVE  /\ Slewed(target, prev, limit) \in Int \cup {NaN}
           /\ limit > 0 => Near(Slewed(target, prev, limit), prev, limit)
<1>1. CASE target \in Int /\ prev \in Int
  BY <1>1, SlewedBounds
<1>2. CASE target = NaN \/ prev = NaN
  <2>1. Slewed(target, prev, limit) = NaN \/ (limit <= 0 /\ Slewed(target, prev, limit) = target)
    BY <1>2 DEF Slewed
  <2> QED BY <2>1, OutputAssumption DEF Near
<1> QED BY <1>1, <1>2

LEMMA GroupOfMember ==
    ASSUME NEW c \in Grouped
    PROVE  GroupOf(c) \in Groups /\ c \in Members[GroupOf(c)]
BY DEF Grouped, GroupOf

LEMMA GroupedAreChannels == Grouped \subseteq Channels
BY OutputAssumption DEF Grouped

(* What the sanitizer leaves on a grouped channel is within the range.     *)
LEMMA SanitizedInRange ==
    ASSUME TypeOK, NEW raw \in RawOutputs, NEW c \in Grouped
    PROVE  SanitizedOutputs(raw)[c] \in InRange
<1> DEFINE g == GroupOf(c)
<1>1. g \in Groups /\ c \in Members[g] /\ c \in Channels
  BY GroupOfMember, GroupedAreChannels
<1>2. SanitizedOutputs(raw)[c] = Sanitized(raw, g, c)
  BY <1>1 DEF SanitizedOutputs
<1>3. last_good[g].outputs[c] \in InRange /\ SafePattern[g][c] \in InRange /\ 0 \in InRange
  BY <1>1, OutputAssumption DEF TypeOK, Vectors, InRange
<1>4. Fallback(g, c) \in InRange
  BY <1>3 DEF Fallback
<1>5. (GroupValid(raw, g) \/ ChannelValid(raw[c])) => raw[c] \in InRange
  BY <1>1 DEF GroupValid, ChannelValid
<1> HIDE DEF g
<1> QED BY <1>2, <1>4, <1>5 DEF Sanitized

LEMMA SanitizedType ==
    ASSUME TypeOK, NEW raw \in RawOutputs
    PROVE  SanitizedOutputs(raw) \in [Channels -> Int \cup {NaN}]
<1> SUFFICES ASSUME NEW c \in Channels
             PROVE  SanitizedOutputs(raw)[c] \in Int \cup {NaN}
  BY DEF SanitizedOutputs
<1>1. CASE c \in Grouped
  BY <1>1, SanitizedInRange DEF InRange
<1>2. CASE c \notin Grouped
  BY <1>2, OutputAssumption DEF SanitizedOutputs
<1> QED BY <1>1, <1>2

LEMMA SlewOutputs ==
    ASSUME NEW outputs \in [Channels -> Int \cup {NaN}], TypeOK
    PROVE  /\ apply_slew_limit(outputs) \in [Channels -> Int \cup {NaN}]
           /\ \A c \in Channels : SlewLimit[c] > 0 =>
                 Near(apply_slew_limit(outputs)[c], commanded[c], SlewLimit[c])
           /\ \A c \in Channels : (outputs[c] \in InRange /\ commanded[c] \in InRange) =>
                 apply_slew_limit(outputs)[c] \in InRange
<1> SUFFICES ASSUME NEW c \in Channels
             PROVE  /\ apply_slew_limit(outputs)[c] \in Int \cup {NaN}
                    /\ SlewLimit[c] > 0 => Near(apply_slew_limit(outputs)[c], commanded[c], SlewLimit[c])
                    /\ (outputs[c] \in InRange /\ commanded[c] \in InRange) =>
                          apply_slew_limit(outputs)[c] \in InRange
  BY DEF apply_slew_limit
<1> DEFINE t == outputs[c]
           p == commanded[c]
           l == SlewLimit[c]
<1>1. t \in Int \cup {NaN} /\ p \in Int \cup {NaN} /\ l \in Int
  BY OutputAssumption DEF TypeOK
<1>2. apply_slew_limit(outputs)[c] = Slewed(t, p, l)
  BY DEF apply_slew_limit
<1>3. InRange \subseteq Int
  BY DEF InRange
<1> HIDE DEF t, p, l
<1>4. Slewed(t, p, l) \in Int \cup {NaN} /\ (l > 0 => Near(Slewed(t, p, l), p, l))
  BY <1>1, SlewedType
<1>5. (t \in InRange /\ p \in InRange) => Slewed(t, p, l) \in InRange
  BY <1>1, <1>3, SlewedBounds
<1> QED BY <1>2, <1>4, <1>5 DEF t, p, l

-----------------------------------------------------------------------------
(* The inductive invariant: the counters of the sanitizer are what an      *)
(* observer who counts rejected cycles would have, and the outputs the     *)
(* limiter starts from are within the range.                               *)
RangeInv == \A c \in Grouped : commanded[c] \in InRange /\ emitted[c] \in InRange
CountInv ==
    \A g \in Groups :
        /\ age[g] = AtMost(streak[g], MaxAge)
        /\ g \in Strong => consecutive_fallback[g] = AtMost(streak[g], MaxConsecutive + 1)
        /\ g \notin Strong => consecutive_fallback[g] = 0
ReportInv ==
    /\ report # CleanReport =>
          (report.limit_exceeded <=> \E g \in Strong : streak[g] > MaxConsecutive)
    /\ \A g \in Groups : report.results[g] = "FallbackLastGood" =>
          streak[g] <= MaxAge /\ last_good[g].valid
IInv == TypeOK /\ RangeInv /\ CountInv /\ ReportInv

LEMMA CleanFacts ==
    /\ CleanReport \in [results : [Groups -> Results], limit_exceeded : BOOLEAN]
    /\ \A g \in Groups : CleanReport.results[g] # "FallbackLastGood"
BY DEF CleanReport, Results

LEMMA Arithmetic ==
    ASSUME NEW s \in 0 .. StreakCap
    PROVE  /\ AtMost(AtMost(s, MaxAge) + 1, MaxAge) = AtMost(AtMost(s + 1, StreakCap), MaxAge)
           /\ AtMost(AtMost(s, MaxConsecutive + 1) + 1, MaxConsecutive + 1)
                 = AtMost(AtMost(s + 1, StreakCap), MaxConsecutive + 1)
           /\ AtMost(s + 1, StreakCap) \in 0 .. StreakCap
           /\ AtMost(AtMost(s, MaxAge) + 1, MaxAge) \in 0 .. MaxAge
           /\ AtMost(AtMost(s, MaxConsecutive + 1) + 1, MaxConsecutive + 1) \in 0 .. (MaxConsecutive + 1)
           /\ AtMost(AtMost(s + 1, StreakCap), MaxConsecutive + 1) > MaxConsecutive
                 <=> AtMost(s + 1, StreakCap) > MaxConsecutive
           /\ AtMost(s, MaxAge) < MaxAge => AtMost(s + 1, StreakCap) <= MaxAge
<1>1. MaxAge \in Nat /\ MaxConsecutive \in Nat
  BY OutputAssumption
<1> QED BY <1>1 DEF AtMost, StreakCap

LEMMA ResultType ==
    ASSUME NEW raw \in RawOutputs, NEW g \in Groups
    PROVE  /\ GroupResult(raw, g) \in Results
           /\ GroupResult(raw, g) \in {"AllValid", "Clamped"} <=> (GroupValid(raw, g) \/ g \notin Strong)
           /\ GroupResult(raw, g) = "AllValid" <=> GroupValid(raw, g)
           /\ GroupResult(raw, g) = "FallbackLastGood" => ~GroupValid(raw, g) /\ Reusable(g)
<1>1. CASE GroupValid(raw, g)
  BY <1>1 DEF GroupResult, Results
<1>2. CASE ~GroupValid(raw, g) /\ g \notin Strong
  BY <1>2 DEF GroupResult, Results
<1>3. CASE ~GroupValid(raw, g) /\ g \in Strong /\ Reusable(g)
  BY <1>3 DEF GroupResult, Results
<1>4. CASE ~GroupValid(raw, g) /\ g \in Strong /\ ~Reusable(g) /\ g \in SafeValid
  BY <1>4 DEF GroupResult, Results
<1>5. CASE ~GroupValid(raw, g) /\ g \in Strong /\ ~Reusable(g) /\ g \notin SafeValid
  BY <1>5 DEF GroupResult, Results
<1> QED BY <1>1, <1>2, <1>3, <1>4, <1>5

(* One call of the sanitizer keeps the counters and the report right.      *)
LEMMA SanitizeStep ==
    ASSUME IInv, NEW raw \in RawOutputs, sanitize(raw)
    PROVE  /\ last_good' \in [Groups -> Vectors]
           /\ age' \in [Groups -> 0 .. MaxAge]
           /\ consecutive_fallback' \in [Groups -> 0 .. (MaxConsecutive + 1)]
           /\ report' \in [results : [Groups -> Results], limit_exceeded : BOOLEAN]
           /\ streak' \in [Groups -> 0 .. StreakCap]
           /\ CountInv' /\ ReportInv'
<1>0. Strong \subseteq Groups
  BY OutputAssumption
<1>1. ASSUME NEW g \in Groups
      PROVE  /\ streak[g] \in 0 .. StreakCap
             /\ age[g] = AtMost(streak[g], MaxAge)
             /\ g \in Strong => consecutive_fallback[g] = AtMost(streak[g], MaxConsecutive + 1)
             /\ streak'[g] = IF GroupValid(raw, g) THEN 0 ELSE AtMost(streak[g] + 1, StreakCap)
             /\ age'[g] = IF GroupValid(raw, g) THEN 0 ELSE AtMost(age[g] + 1, MaxAge)
             /\ consecutive_fallback'[g] = CountAfter(raw, g)
             /\ report'.results[g] = GroupResult(raw, g)
  BY DEF IInv, TypeOK, CountInv, sanitize
<1>2. MaxAge \in Nat /\ MaxConsecutive \in Nat /\ StreakCap \in Nat
  BY OutputAssumption DEF StreakCap
<1>3. AtMost(0, MaxAge) = 0 /\ AtMost(0, MaxConsecutive + 1) = 0
  BY <1>2 DEF AtMost
<1>4. ASSUME NEW g \in Groups
      PROVE  /\ streak'[g] \in 0 .. StreakCap
             /\ age'[g] = AtMost(streak'[g], MaxAge) /\ age'[g] \in 0 .. MaxAge
             /\ g \in Strong => consecutive_fallback'[g] = AtMost(streak'[g], MaxConsecutive + 1)
             /\ g \notin Strong => consecutive_fallback'[g] = 0
             /\ consecutive_fallback'[g] \in 0 .. (MaxConsecutive + 1)
  <2>1. CASE GroupValid(raw, g)
    <3>1. CountAfter(raw, g) = 0
      BY <2>1, ResultType DEF CountAfter
    <3> QED BY <2>1, <3>1, <1>1, <1>2, <1>3
  <2>2. CASE ~GroupValid(raw, g)
    <3>1. CountAfter(raw, g) = IF g \in Strong
                                 THEN AtMost(consecutive_fallback[g] + 1, MaxConsecutive + 1) ELSE 0
      BY <2>2, ResultType DEF CountAfter
    <3> QED BY <2>2, <3>1, <1>1, <1>2, Arithmetic
  <2> QED BY <2>1, <2>2
<1>5. ASSUME NEW g \in Groups
      PROVE  (IF GroupValid(raw, g) THEN GoodVector(raw, g) ELSE last_good[g]) \in Vectors
  <2>1. CASE GroupValid(raw, g)
    <3>1. [c \in Channels |-> IF c \in Members[g] THEN raw[c] ELSE 0] \in [Channels -> InRange]
      BY <2>1, OutputAssumption DEF GroupValid, ChannelValid, InRange
    <3> QED BY <2>1, <3>1 DEF GoodVector, Vectors
  <2>2. CASE ~GroupValid(raw, g)
    BY <2>2 DEF IInv, TypeOK
  <2> QED BY <2>1, <2>2
<1>6. last_good' \in [Groups -> Vectors]
  BY <1>5 DEF sanitize
<1>7. /\ age' \in [Groups -> 0 .. MaxAge]
      /\ consecutive_fallback' \in [Groups -> 0 .. (MaxConsecutive + 1)]
      /\ streak' \in [Groups -> 0 .. StreakCap]
  BY <1>4 DEF sanitize
<1>8. report' \in [results : [Groups -> Results], limit_exceeded : BOOLEAN]
  <2>1. [g \in Groups |-> GroupResult(raw, g)] \in [Groups -> Results]
    BY ResultType
  <2> QED BY <2>1 DEF sanitize
<1>9. CountInv'
  BY <1>4 DEF CountInv
<1>10. report'.limit_exceeded <=> \E g \in Strong : streak'[g] > MaxConsecutive
  <2>1. report'.limit_exceeded <=> \E g \in Groups :
             /\ GroupResult(raw, g) \notin {"AllValid", "Clamped"}
             /\ CountAfter(raw, g) > MaxConsecutive
    BY DEF sanitize
  <2>2. ASSUME NEW g \in Groups
        PROVE  (GroupResult(raw, g) \notin {"AllValid", "Clamped"} /\ CountAfter(raw, g) > MaxConsecutive)
                 <=> (g \in Strong /\ streak'[g] > MaxConsecutive)
    <3>1. CASE GroupValid(raw, g)
      BY <3>1, <1>1, <1>2, ResultType
    <3>2. CASE ~GroupValid(raw, g) /\ g \in Strong
      <4>1. CountAfter(raw, g) = AtMost(streak'[g], MaxConsecutive + 1)
        BY <3>2, <1>1, <1>4
      <4>2. AtMost(streak'[g], MaxConsecutive + 1) > MaxConsecutive <=> streak'[g] > MaxConsecutive
        BY <3>2, <1>1, Arithmetic
      <4> QED BY <3>2, <4>1, <4>2, ResultType
    <3>3. CASE g \notin Strong
      BY <3>3, ResultType
    <3> QED BY <3>1, <3>2, <3>3
  <2> QED BY <2>1, <2>2, <1>0
<1>11. ASSUME NEW g \in Groups, report'.results[g] = "FallbackLastGood"
       PROVE  streak'[g] <= MaxAge /\ last_good'[g].valid
  <2>1. ~GroupValid(raw, g) /\ Reusable(g)
    BY <1>1, <1>11, ResultType
  <2>2. streak'[g] <= MaxAge
    BY <2>1, <1>1, Arithmetic DEF Reusable
  <2>3. last_good'[g] = last_good[g]
    BY <2>1 DEF sanitize
  <2> QED BY <2>1, <2>2, <2>3 DEF Reusable
<1>12. ReportInv'
  BY <1>10, <1>11 DEF ReportInv
<1> QED BY <1>6, <1>7, <1>8, <1>9, <1>12

-----------------------------------------------------------------------------

LEMMA InitHolds == Init => IInv
<1> SUFFICES ASSUME Init PROVE IInv
  OBVIOUS
<1>1. MaxAge \in Nat /\ MaxConsecutive \in Nat /\ StreakCap \in Nat /\ 0 \in InRange
  BY OutputAssumption DEF StreakCap, InRange
<1>2. SafeOutput \in [Channels -> InRange] /\ InRange \subseteq Int
  BY OutputAssumption DEF InRange
<1>3. NoVector \in Vectors
  BY <1>1 DEF NoVector, Vectors
<1>4. TypeOK
  <2>1. SafeOutput \in [Channels -> Int \cup {NaN}]
    BY <1>2
  <2>2. [c \in Channels |-> 0] \in [Channels -> Int \cup {NaN}]
    OBVIOUS
  <2>3. /\ [g \in Groups |-> 0] \in [Groups -> 0 .. MaxAge]
        /\ [g \in Groups |-> 0] \in [Groups -> 0 .. (MaxConsecutive + 1)]
        /\ [g \in Groups |-> 0] \in [Groups -> 0 .. StreakCap]
    BY <1>1
  <2>4. [g \in Groups |-> NoVector] \in [Groups -> Vectors]
    BY <1>3
  <2> QED BY <2>1, <2>2, <2>3, <2>4, CleanFacts DEF Init, TypeOK
<1>5. RangeInv
  BY <1>1, <1>2, GroupedAreChannels DEF Init, RangeInv
<1>6. CountInv
  BY <1>1 DEF Init, CountInv, AtMost
<1>7. ReportInv
  BY CleanFacts DEF Init, ReportInv
<1> QED BY <1>4, <1>5, <1>6, <1>7 DEF IInv

(* A step that keeps the sanitizer's memory and returns a clean report.    *)
LEMMA MemoryKept ==
    ASSUME IInv, UNCHANGED <<last_good, age, consecutive_fallback, streak>>, report' = CleanReport
    PROVE  CountInv' /\ ReportInv'
<1>1. CountInv'
  BY DEF IInv, CountInv
<1>2. ReportInv'
  BY CleanFacts DEF ReportInv
<1> QED BY <1>1, <1>2

LEMMA StepHolds == IInv /\ [Next]_vars => IInv'
<1> SUFFICES ASSUME IInv, [Next]_vars PROVE IInv'
  OBVIOUS
<1>0. /\ TypeOK /\ RangeInv /\ InRange \subseteq Int /\ 0 \in InRange
      /\ SafeOutput \in [Channels -> InRange] /\ SafeOutput \in [Channels -> Int \cup {NaN}]
  BY OutputAssumption DEF IInv, InRange
<1>1. ASSUME NEW raw \in RawOutputs, control_cycle(raw) PROVE IInv'
  <2>1. sanitize(raw) /\ emitted' = apply_slew_limit(SanitizedOutputs(raw))
        /\ commanded' = emitted' /\ armed' = armed
    BY <1>1 DEF control_cycle
  <2>2. apply_slew_limit(SanitizedOutputs(raw)) \in [Channels -> Int \cup {NaN}]
    BY <1>0, SanitizedType, SlewOutputs
  <2>3. TypeOK'
    BY <1>0, <2>1, <2>2, SanitizeStep DEF TypeOK
  <2>4. ASSUME NEW c \in Grouped PROVE apply_slew_limit(SanitizedOutputs(raw))[c] \in InRange
    <3>1. c \in Channels /\ SanitizedOutputs(raw)[c] \in InRange /\ commanded[c] \in InRange
      BY <1>0, GroupedAreChannels, SanitizedInRange DEF RangeInv
    <3> QED BY <3>1, <1>0, SanitizedType, SlewOutputs
  <2>5. RangeInv'
    BY <2>1, <2>4 DEF RangeInv
  <2> QED BY <2>1, <2>3, <2>5, SanitizeStep DEF IInv
<1>2. ASSUME safe_cycle PROVE IInv'
  <2>1. /\ emitted' = apply_slew_limit(SafeOutput) /\ commanded' = emitted'
        /\ report' = CleanReport /\ UNCHANGED <<armed, last_good, age, consecutive_fallback, streak>>
    BY <1>2 DEF safe_cycle, fallbackVars
  <2>2. apply_slew_limit(SafeOutput) \in [Channels -> Int \cup {NaN}]
    BY <1>0, SlewOutputs
  <2>3. TypeOK'
    BY <1>0, <2>1, <2>2, CleanFacts DEF TypeOK
  <2>4. ASSUME NEW c \in Grouped PROVE apply_slew_limit(SafeOutput)[c] \in InRange
    <3>1. c \in Channels /\ SafeOutput[c] \in InRange /\ commanded[c] \in InRange
      BY <1>0, GroupedAreChannels DEF RangeInv
    <3> QED BY <3>1, <1>0, SlewOutputs
  <2>5. RangeInv'
    BY <2>1, <2>4 DEF RangeInv
  <2> QED BY <2>1, <2>3, <2>5, MemoryKept DEF IInv
<1>3. ASSUME NEW stays \in BOOLEAN, early_return(stays) PROVE IInv'
  <2>1. /\ emitted' = SafeOutput /\ report' = CleanReport
        /\ UNCHANGED <<commanded, last_good, age, consecutive_fallback, streak>>
    BY <1>3 DEF early_return, fallbackVars
  <2>2. armed' \in BOOLEAN
    BY <1>3, Zenon DEF early_return
  <2>3. TypeOK'
    BY <1>0, <2>1, <2>2, CleanFacts DEF TypeOK
  <2>4. RangeInv'
    BY <1>0, <2>1, GroupedAreChannels DEF RangeInv
  <2> QED BY <2>1, <2>3, <2>4, MemoryKept DEF IInv
<1>4. ASSUME arm \/ end_flight_period PROVE IInv'
  <2>1. /\ report' = CleanReport
        /\ UNCHANGED <<commanded, emitted, last_good, age, consecutive_fallback, streak>>
    BY <1>4 DEF arm, end_flight_period, fallbackVars
  <2>2. armed' \in BOOLEAN
    BY <1>4 DEF arm, end_flight_period
  <2>3. TypeOK'
    BY <1>0, <2>1, <2>2, CleanFacts DEF TypeOK
  <2>4. RangeInv'
    BY <1>0, <2>1 DEF RangeInv
  <2> QED BY <2>1, <2>3, <2>4, MemoryKept DEF IInv
<1>5. ASSUME ground_reset PROVE IInv'
  <2>1. MaxAge \in Nat /\ MaxConsecutive \in Nat /\ StreakCap \in Nat
    BY OutputAssumption DEF StreakCap
  <2>2. NoVector \in Vectors
    BY <1>0 DEF NoVector, Vectors
  <2>3. TypeOK'
    BY <1>0, <1>5, <2>1, <2>2, CleanFacts DEF TypeOK, ground_reset
  <2>4. RangeInv'
    BY <1>0, <1>5, GroupedAreChannels DEF RangeInv, ground_reset
  <2>5. CountInv'
    BY <1>5, <2>1 DEF ground_reset, CountInv, AtMost
  <2>6. ReportInv'
    BY <1>5, CleanFacts DEF ground_reset, ReportInv
  <2> QED BY <2>3, <2>4, <2>5, <2>6 DEF IInv
<1>6. CASE UNCHANGED vars
  BY <1>6 DEF IInv, TypeOK, RangeInv, CountInv, ReportInv, vars
<1> QED BY <1>1, <1>2, <1>3, <1>4, <1>5, <1>6 DEF Next

LEMMA Invariance == Spec => []IInv
BY InitHolds, StepHolds, PTL DEF Spec

(* The sanitizer's and the limiter's memory keep their types.              *)
THEOREM TypeCorrect == Spec => []TypeOK
<1>1. IInv => TypeOK
  BY DEF IInv
<1> QED BY <1>1, Invariance, PTL

(* A grouped channel is driven within [0, 1] in every cycle, whatever the  *)
(* mixer produced and whatever memory an earlier flight left.              *)
THEOREM RangeSafe == Spec => []GroupsEmitInRange
<1>1. IInv => GroupsEmitInRange
  BY DEF IInv, RangeInv, GroupsEmitInRange
<1> QED BY <1>1, Invariance, PTL

(* The consecutive-fallback limit is reported on the right frames.         *)
THEOREM LimitReportExact == Spec => []LimitReportIsExact
<1>1. IInv => LimitReportIsExact
  BY DEF IInv, ReportInv, LimitReportIsExact
<1> QED BY <1>1, Invariance, PTL

(* A last good vector expires after MAX_FALLBACK_AGE_CYCLES reuses.        *)
THEOREM StaleExpires == Spec => []StaleVectorExpires
<1>1. IInv => StaleVectorExpires
  BY DEF IInv, ReportInv, StaleVectorExpires
<1> QED BY <1>1, Invariance, PTL

(* While armed, no limited channel moves further than its limit between    *)
(* two commanded outputs.                                                  *)
THEOREM SlewSafe == Spec => SlewIsRespected
<1> DEFINE A == (commanded' # commanded /\ armed /\ armed') =>
          \A c \in Channels : SlewLimit[c] > 0 => Near(commanded'[c], commanded[c], SlewLimit[c])
<1>1. IInv /\ [Next]_vars => [A]_vars
  <2> SUFFICES ASSUME IInv, Next, commanded' # commanded, armed, armed' PROVE A
    BY DEF vars
  <2>1. TypeOK /\ SafeOutput \in [Channels -> Int \cup {NaN}]
    BY OutputAssumption DEF IInv, InRange
  <2>2. ASSUME NEW raw \in RawOutputs, control_cycle(raw) PROVE A
    <3>1. commanded' = apply_slew_limit(SanitizedOutputs(raw))
      BY <2>2 DEF control_cycle
    <3> QED BY <3>1, <2>1, SanitizedType, SlewOutputs
  <2>3. ASSUME safe_cycle PROVE A
    <3>1. commanded' = apply_slew_limit(SafeOutput)
      BY <2>3 DEF safe_cycle
    <3> QED BY <3>1, <2>1, SlewOutputs
  <2>4. ASSUME NEW stays \in BOOLEAN, early_return(stays) PROVE A
    BY <2>4 DEF early_return
  <2>5. ~arm /\ ~end_flight_period /\ ~ground_reset
    BY DEF arm, end_flight_period, ground_reset
  <2> QED BY <2>2, <2>3, <2>4, <2>5 DEF Next
<1> QED BY <1>1, Invariance, PTL DEF Spec, SlewIsRespected
=============================================================================
