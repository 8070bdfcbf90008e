------------------------- MODULE CommandGatewayProofs -------------------------
(***************************************************************************)
(* What the gateway promises for every set of principals, every key table, *)
(* every skew and age, and every delivery the network may make.  The       *)
(* window's own state says nothing about a frame that was admitted and     *)
(* overtaken, or about where the floor came from; GatewayInv adds both,    *)
(* and every safety property of the gateway follows from it.               *)
(***************************************************************************)
EXTENDS CommandGateway, FiniteSetTheorems, TLAPS

-----------------------------------------------------------------------------
(* Counter units                                                           *)

(* A counter unit is a truncating division of microseconds                 *)
(* (COUNTER_TICK_US).                                                      *)
LEMMA DivType ==
    ASSUME NEW a \in Nat, NEW t \in Nat \ {0}
    PROVE  a \div t \in Nat
  OBVIOUS

LEMMA DivMonotone ==
    ASSUME NEW a \in Nat, NEW b \in Nat, NEW t \in Nat \ {0}, a <= b
    PROVE  a \div t <= b \div t
  OBVIOUS

LEMMA DivRemainder ==
    ASSUME NEW a \in Nat, NEW t \in Nat \ {0}
    PROVE  t * (a \div t) <= a /\ a < t * (a \div t) + t
  OBVIOUS

(* Three divisions in place of one lose at most two units, and none to the *)
(* third when it is short (plausible_ceiling).                             *)
LEMMA DivSum ==
    ASSUME NEW x \in Nat, NEW y \in Nat, NEW z \in Nat, NEW k \in Int,
           NEW t \in Nat \ {0}, z <= (k - 1) * t
    PROVE  (x + y + z) \div t <= x \div t + y \div t + k
<1> DEFINE p == x \div t
           q == y \div t
           w == (x + y + z) \div t
<1>1. p \in Nat /\ q \in Nat /\ w \in Nat
  BY DivType
<1>2. x < t * p + t /\ y < t * q + t
  BY DivRemainder
<1>3. t * w <= x + y + z
  BY DivRemainder
<1> HIDE DEF p, q, w
<1>4. t * w < t * (p + q + k + 1)
  BY <1>1, <1>2, <1>3
<1>5. w < p + q + k + 1
  BY <1>1, <1>4
<1> QED
  BY <1>1, <1>5 DEF p, q, w

(* Max and Min of a pair, as the code's u64::max and the history use them. *)
LEMMA PairBounds ==
    ASSUME NEW a \in Int, NEW b \in Int
    PROVE  /\ Max({a, b}) = IF a >= b THEN a ELSE b
           /\ Min({a, b}) = IF a <= b THEN a ELSE b
  BY DEF Max, Min

-----------------------------------------------------------------------------
(* The inductive invariant                                                 *)

(* What a slot costs: a key slot is bound once, in a table of fixed size,  *)
(* and only a bound principal has a counter.                               *)
SlotInv ==
    /\ \A p, q \in BoundPrincipals(policy) : credential(p) = credential(q) => p = q
    /\ Cardinality(BoundPrincipals(policy)) <= MAX_SOURCE_BINDINGS
    /\ Tracked(window) \subseteq BoundPrincipals(policy)

(* Where the floor came from: TrustedCounter::value at the start of this   *)
(* boot, whose clock has run since.                                        *)
SeedInv ==
    /\ boots.since <= clock
    /\ anchor \in {Unset} \cup 0 .. (clock - boots.since)
    /\ kind = "Rtc" => window.freshness_floor = boots.since \div COUNTER_TICK_US
    /\ kind = "NoTrustedTimeSource" => window.freshness_floor = 0

(* What honest senders put on the wire: the time of some earlier tick.     *)
WireInv ==
    \A f \in wire : f[1] \in Honest /\ f[2] <= clock \div COUNTER_TICK_US

(* A stream begins no further below the floor than a new stream may, and   *)
(* the frame that is watched was admitted at most once and then is not     *)
(* ahead of its stream.                                                    *)
StreamInv ==
    /\ \A p \in Tracked(window) : window.last[p] + NEW_STREAM_MAX_AGE >= window.freshness_floor
    /\ watched.now <= 1
    /\ watched.now > 0 =>
          /\ watched.counter > 0
          /\ watched.counter <= window.last[watched.principal]
          /\ watched.counter + NEW_STREAM_MAX_AGE >= window.freshness_floor

GatewayInv == TypeOK /\ SlotInv /\ SeedInv /\ WireInv /\ StreamInv

-----------------------------------------------------------------------------
(* A frame that reaches the window, and one that it admits                 *)

(* An authorized frame is one of the network's: its principal is known and *)
(* its counter in range, whatever the adapter refused is gone.             *)
LEMMA AuthorizedFrame ==
    ASSUME TypeOK, NEW f \in wire \cup Stray, Authorized(f)
    PROVE  f[1] \in Principals /\ f[2] \in Counters /\ policy[f[1]] # None
<1>1. policy[f[1]] # None /\ AdapterError(f) = None
  BY DEF Authorized
<1>2. CASE f \in Frames
  BY <1>1, <1>2 DEF Frames
<1>3. CASE f \in Stray
  <2>1. f[3] = "Valid"
    <3>1. f[3] \in {"Valid", "Invalid", "Missing"}
      BY <1>3 DEF Stray
    <3>2. f[3] # "Missing" /\ f[3] # "Invalid"
      BY <1>1, Zenon DEF AdapterError, None
    <3> QED
      BY <3>1, <3>2
  <2>2. f[4] # FALSE
    BY <1>1, Zenon DEF AdapterError, None
  <2>3. f \in (Principals \ Honest) \X Counters \X {"Valid"} \X {TRUE}
    BY <1>3, <2>1, <2>2 DEF Stray
  <2> QED
    BY <1>1, <2>3
<1> QED
  BY <1>2, <1>3 DEF TypeOK

(* check_and_update accepts only a counter that is positive, ahead of the  *)
(* stream and, for a new stream, not stale; it writes that one slot.       *)
LEMMA AdmitFacts ==
    ASSUME TypeOK, NEW f \in wire \cup Stray, Admit(f)
    PROVE  /\ f[1] \in Principals /\ f[2] \in Counters /\ policy[f[1]] # None
           /\ f[2] > 0 /\ f[2] > window.last[f[1]]
           /\ f[1] \notin Tracked(window) =>
                 f[2] + NEW_STREAM_MAX_AGE >= window.freshness_floor
           /\ window' \in [last : [Principals -> Counters], freshness_floor : Counters,
                            high_water : Counters]
           /\ window'.last = [window.last EXCEPT ![f[1]] = f[2]]
           /\ window'.freshness_floor = window.freshness_floor
           /\ Tracked(window') = Tracked(window) \cup {f[1]}
<1>1. f[1] \in Principals /\ f[2] \in Counters /\ policy[f[1]] # None
  BY AuthorizedFrame DEF Admit
<1>2. /\ window.last \in [Principals -> Counters] /\ window.freshness_floor \in Counters
      /\ window.high_water \in Counters
  BY DEF TypeOK
<1>3. /\ f[2] \in Nat /\ window.last[f[1]] \in Nat /\ window.freshness_floor \in Nat
      /\ window.high_water \in Nat /\ NEW_STREAM_MAX_AGE \in Nat
  BY <1>1, <1>2, ConstantsAssumption DEF Counters
<1>4. /\ f[1] \in Tracked(window) => f[2] > window.last[f[1]]
      /\ f[1] \notin Tracked(window) => f[2] > 0 /\ ~StaleStart(f[2])
  <2>1. CheckError(f[1], f[2]) = "None"
    BY DEF Admit, None
  <2>2. f[1] \in Tracked(window) => ~ (f[2] <= window.last[f[1]])
    BY <2>1 DEF CheckError
  <2>3. f[1] \notin Tracked(window) => f[2] # 0 /\ ~StaleStart(f[2])
    BY <2>1 DEF CheckError
  <2> QED
    BY <1>3, <2>2, <2>3
<1>5. f[2] > 0 /\ f[2] > window.last[f[1]]
  BY <1>1, <1>3, <1>4 DEF Tracked
<1>6. f[1] \notin Tracked(window) => f[2] + NEW_STREAM_MAX_AGE >= window.freshness_floor
  BY <1>3, <1>4 DEF StaleStart, Monus
<1>7. /\ window' \in [last : [Principals -> Counters], freshness_floor : Counters,
                       high_water : Counters]
      /\ window'.last = [window.last EXCEPT ![f[1]] = f[2]]
      /\ window'.freshness_floor = window.freshness_floor
  <2>1. Max({window.high_water, f[2]}) \in Counters
    <3>1. Max({window.high_water, f[2]}) \in {window.high_water, f[2]}
      BY <1>3, PairBounds
    <3> QED
      BY <1>1, <1>2, <3>1
  <2>2. window' = [window EXCEPT !.last[f[1]] = f[2],
                                 !.high_water = Max({window.high_water, f[2]})]
    BY DEF Admit, CommitCounter
  <2> QED
    BY <1>1, <2>1, <2>2 DEF TypeOK
<1>8. Tracked(window') = Tracked(window) \cup {f[1]}
  BY <1>1, <1>2, <1>5, <1>7 DEF Tracked
<1> QED
  BY <1>1, <1>5, <1>6, <1>7, <1>8

(* The slots of the replay table are finitely many, and so are the bound   *)
(* principals.                                                             *)
LEMMA TableIsFinite ==
    /\ IsFiniteSet(BoundPrincipals(policy)) /\ Cardinality(BoundPrincipals(policy)) \in Nat
    /\ IsFiniteSet(Tracked(window)) /\ Cardinality(Tracked(window)) \in Nat
<1>1. BoundPrincipals(policy) \subseteq Principals /\ Tracked(window) \subseteq Principals
  BY DEF BoundPrincipals, Tracked
<1> QED
  BY <1>1, FS_Subset, FS_CardinalityType, ConstantsAssumption

-----------------------------------------------------------------------------
(* The inductive step, one part of the invariant at a time                 *)

LEMMA InitInv == Init => GatewayInv
<1> SUFFICES ASSUME Init PROVE GatewayInv
  OBVIOUS
<1> USE ConstantsAssumption
<1>1. EmptyWindow(0) \in [last : [Principals -> Counters], freshness_floor : Counters,
                          high_water : Counters]
  BY DEF EmptyWindow, Counters
<1>2. BoundPrincipals(policy) = {} /\ Tracked(window) = {}
  BY DEF Init, BoundPrincipals, Tracked, EmptyWindow, None
<1>3. PICK p \in Principals, c \in Counters :
        watched = [principal |-> p, counter |-> c, now |-> 0, before |-> FALSE]
  <2>1. /\ watched.principal \in Principals /\ watched.counter \in Counters
        /\ watched.now = 0 /\ watched.before = FALSE
        /\ watched = [principal |-> watched.principal, counter |-> watched.counter,
                      now |-> watched.now, before |-> watched.before]
    BY DEF Init
  <2> QED
    BY <2>1
<1>4. TypeOK
  <2>1. watched \in [principal : Principals, counter : Counters, now : 0 .. 2,
                     before : BOOLEAN]
    <3>1. 0 \in 0 .. 2
      OBVIOUS
    <3> QED
      BY <1>3, <3>1, Zenon
  <2> QED
    BY <1>1, <2>1 DEF Init, TypeOK, Frames, Counters, Unset
<1>5. SlotInv
  BY <1>2, FS_EmptySet DEF SlotInv
<1>6. SeedInv
  <2>1. 0 \div COUNTER_TICK_US = 0
    OBVIOUS
  <2> QED
    BY <2>1 DEF Init, SeedInv, EmptyWindow, Unset
<1>7. WireInv /\ StreamInv
  BY <1>2, <1>3 DEF Init, WireInv, StreamInv
<1> QED
  BY <1>4, <1>5, <1>6, <1>7 DEF GatewayInv

(* Every counter the gateway, its storage or its senders hold is one a     *)
(* sender may stamp.                                                       *)
LEMMA TypeStep == TypeOK /\ SeedInv /\ [Next]_vars => TypeOK'
<1> SUFFICES ASSUME TypeOK, SeedInv, [Next]_vars PROVE TypeOK'
  OBVIOUS
<1> USE ConstantsAssumption
<1>1. clock \in Nat /\ clock \div COUNTER_TICK_US \in Counters
  <2>1. clock \in Nat /\ clock <= MaxClock
    BY DEF TypeOK
  <2>2. clock \div COUNTER_TICK_US \in Nat
    BY <2>1, DivType
  <2>3. clock \div COUNTER_TICK_US <= MaxClock \div COUNTER_TICK_US
    BY <2>1, DivMonotone
  <2>4. MaxClock \div COUNTER_TICK_US \in Nat
    BY DivType
  <2> QED
    BY <2>1, <2>2, <2>3, <2>4 DEF Counters
<1>2. ASSUME NEW p \in Principals, NEW s \in Sources, bind(p, s)
      PROVE  TypeOK'
  BY <1>2 DEF bind, TypeOK
<1>3. CASE new
  <2>1. SeedValue \in Counters
    BY <1>1 DEF SeedValue, TypeOK, Counters
  <2>2. EmptyWindow(SeedValue) \in [last : [Principals -> Counters],
                                    freshness_floor : Counters, high_water : Counters]
    BY <2>1 DEF EmptyWindow, Counters
  <2>3. watched' \in [principal : Principals, counter : Counters, now : 0 .. 2,
                      before : BOOLEAN]
    <3> DEFINE seen == watched.before \/ watched.now > 0
    <3>1. seen \in BOOLEAN
      BY Zenon
    <3>2. watched' = [watched EXCEPT !.now = 0, !.before = seen]
      BY <1>3 DEF new
    <3> HIDE DEF seen
    <3>3. watched' = [principal |-> watched.principal, counter |-> watched.counter,
                      now |-> 0, before |-> seen]
      BY <3>2 DEF TypeOK
    <3>4. watched.principal \in Principals /\ watched.counter \in Counters /\ 0 \in 0 .. 2
      BY DEF TypeOK
    <3> QED
      BY <3>1, <3>3, <3>4, Zenon
  <2>4. boots' \in [since : 0 .. MaxClock, count : 0 .. MaxBoots]
    BY <1>3 DEF new, TypeOK
  <2> QED
    BY <1>3, <2>2, <2>3, <2>4 DEF new, TypeOK, Unset
<1>4. ASSUME NEW f \in wire \cup Stray, Refuse(f)
      PROVE  TypeOK'
  BY <1>4 DEF Refuse, vars, TypeOK
<1>5. Anchored \in Int
  BY DEF Anchored, now_us, TypeOK
<1>6. ASSUME NEW f \in wire \cup Stray, RefuseByWindow(f)
      PROVE  TypeOK'
  BY <1>5, <1>6 DEF RefuseByWindow, TypeOK
<1>7. ASSUME NEW f \in wire \cup Stray, Admit(f)
      PROVE  TypeOK'
  <2>1. Min({2, watched.now + 1}) \in 0 .. 2
    <3> DEFINE next == watched.now + 1
    <3>1. next \in 1 .. 3
      BY DEF TypeOK
    <3> HIDE DEF next
    <3>2. Min({2, next}) = IF 2 <= next THEN 2 ELSE next
      BY <3>1 DEF Min
    <3>3. Min({2, next}) \in 0 .. 2
      BY <3>1, <3>2
    <3> QED
      BY <3>3 DEF next
  <2>2. watched' \in [principal : Principals, counter : Counters, now : 0 .. 2,
                      before : BOOLEAN]
    <3>1. CASE watched' = [watched EXCEPT !.now = Min({2, watched.now + 1})]
      BY <2>1, <3>1 DEF TypeOK
    <3>2. CASE watched' = watched
      BY <3>2 DEF TypeOK
    <3> QED
      BY <1>7, <3>1, <3>2 DEF Admit
  <2> QED
    BY <1>5, <1>7, <2>2, AdmitFacts DEF Admit, TypeOK
<1>8. CASE persist
  BY <1>8 DEF persist, TypeOK
<1>9. CASE PowerLoss
  BY <1>9 DEF PowerLoss, TypeOK
<1>10. CASE Tick
  BY <1>10 DEF Tick, TypeOK
<1>11. ASSUME NEW p \in Honest, SendSigned(p)
       PROVE  TypeOK'
  <2>1. <<p, clock \div COUNTER_TICK_US, "Valid", TRUE>> \in Frames
    BY <1>1, <1>11 DEF Frames
  <2> QED
    BY <1>11, <2>1 DEF SendSigned, TypeOK
<1>12. CASE UNCHANGED vars
  BY <1>12 DEF vars, TypeOK
<1> QED
  BY <1>2, <1>3, <1>4, <1>6, <1>7, <1>8, <1>9, <1>10, <1>11, <1>12 DEF Next

(* A slot is only ever taken by a bound principal, and a binding only ever *)
(* by a key slot that had none.                                            *)
LEMMA SlotStep == TypeOK /\ SlotInv /\ [Next]_vars => SlotInv'
<1> SUFFICES ASSUME TypeOK, SlotInv, [Next]_vars PROVE SlotInv'
  OBVIOUS
<1>1. ASSUME NEW p \in Principals, NEW s \in Sources, bind(p, s)
      PROVE  SlotInv'
  <2> DEFINE bound == BoundPrincipals(policy)
  <2>1. /\ \A q \in bound : credential(q) # credential(p)
        /\ Cardinality(bound) < MAX_SOURCE_BINDINGS
        /\ policy' = [policy EXCEPT ![p] = s] /\ window' = window
    BY <1>1 DEF bind, MayBind
  <2>2. p \notin bound
    BY <2>1
  <2>3. BoundPrincipals(policy') \in {bound, bound \cup {p}}
    BY <2>1, <2>2 DEF BoundPrincipals, TypeOK
  <2>4. bound \subseteq BoundPrincipals(policy')
    BY <2>2, <2>3
  <2>5. Cardinality(BoundPrincipals(policy')) <= MAX_SOURCE_BINDINGS
    <3>1. IsFiniteSet(bound) /\ Cardinality(bound) \in Nat /\ MAX_SOURCE_BINDINGS \in Nat
      BY TableIsFinite, ConstantsAssumption
    <3>2. Cardinality(bound \cup {p}) = Cardinality(bound) + 1
      BY <2>2, <3>1, FS_AddElement
    <3>3. Cardinality(bound) < MAX_SOURCE_BINDINGS
      BY <2>1
    <3>4. Cardinality(bound) + 1 <= MAX_SOURCE_BINDINGS
      BY <3>1, <3>3
    <3>5. CASE BoundPrincipals(policy') = bound
      BY <3>1, <3>3, <3>5
    <3>6. CASE BoundPrincipals(policy') = bound \cup {p}
      BY <3>2, <3>4, <3>6
    <3> QED
      BY <2>3, <3>5, <3>6
  <2>6. \A q, r \in BoundPrincipals(policy') : credential(q) = credential(r) => q = r
    BY <2>1, <2>3 DEF SlotInv
  <2>7. Tracked(window)' = Tracked(window)
    BY <2>1 DEF Tracked
  <2> QED
    BY <2>4, <2>5, <2>6, <2>7 DEF SlotInv
<1>2. CASE new
  <2>1. Tracked(window)' = {} /\ policy' = policy
    BY <1>2 DEF new, EmptyWindow, Tracked
  <2> QED
    BY <2>1 DEF SlotInv, BoundPrincipals
<1>3. ASSUME NEW f \in wire \cup Stray, Admit(f)
      PROVE  SlotInv'
  <2>1. Tracked(window)' = Tracked(window) \cup {f[1]} /\ f[1] \in BoundPrincipals(policy)
    BY <1>3, AdmitFacts DEF BoundPrincipals
  <2>2. policy' = policy
    BY <1>3 DEF Admit
  <2> QED
    BY <2>1, <2>2 DEF SlotInv, BoundPrincipals
<1>4. CASE UNCHANGED <<policy, window>>
  BY <1>4 DEF SlotInv, BoundPrincipals, Tracked
<1> QED
  BY <1>1, <1>2, <1>3, <1>4
     DEF Next, Refuse, RefuseByWindow, persist, PowerLoss, Tick, SendSigned, vars

(* The floor is the seed of this boot for as long as the boot lasts, and   *)
(* the anchor a moment inside it.                                          *)
LEMMA SeedStep == TypeOK /\ SeedInv /\ [Next]_vars => SeedInv'
<1> SUFFICES ASSUME TypeOK, SeedInv, [Next]_vars PROVE SeedInv'
  OBVIOUS
<1>0. clock \in Nat /\ boots.since \in Nat /\ boots.since <= clock
  BY DEF TypeOK, SeedInv
<1>1. CASE new
  <2>1. /\ boots'.since = clock /\ clock' = clock /\ anchor' = Unset /\ kind' = kind
        /\ window'.freshness_floor = SeedValue
    BY <1>1 DEF new, EmptyWindow
  <2> QED
    BY <1>0, <2>1 DEF SeedInv, SeedValue
<1>2. Anchored \in {Unset} \cup 0 .. (clock - boots.since)
  BY <1>0 DEF Anchored, now_us, SeedInv
<1>3. ASSUME NEW f \in wire \cup Stray, RefuseByWindow(f) \/ Admit(f)
      PROVE  SeedInv'
  <2>1. window'.freshness_floor = window.freshness_floor
    BY <1>3, AdmitFacts DEF RefuseByWindow
  <2>2. /\ boots' = boots /\ clock' = clock /\ kind' = kind /\ anchor' = Anchored
    BY <1>3 DEF RefuseByWindow, Admit
  <2> QED
    BY <1>2, <2>1, <2>2 DEF SeedInv
<1>4. CASE Tick
  BY <1>0, <1>4 DEF Tick, SeedInv
<1>5. CASE UNCHANGED <<clock, kind, window, anchor, boots>>
  BY <1>5 DEF SeedInv
<1> QED
  BY <1>1, <1>3, <1>4, <1>5 DEF Next, bind, Refuse, persist, PowerLoss, SendSigned, vars

(* The true time only grows, so what an honest sender stamped stays past.  *)
LEMMA WireStep == TypeOK /\ WireInv /\ [Next]_vars => WireInv'
<1> SUFFICES ASSUME TypeOK, WireInv, [Next]_vars PROVE WireInv'
  OBVIOUS
<1>0. clock \in Nat /\ clock \div COUNTER_TICK_US \in Nat
  <2>1. clock \in Nat
    BY DEF TypeOK
  <2> QED
    BY <2>1, DivType, ConstantsAssumption
<1>1. CASE Tick
  <2>1. clock' = clock + 1 /\ wire' = wire
    BY <1>1 DEF Tick
  <2>2. clock \div COUNTER_TICK_US <= clock' \div COUNTER_TICK_US
    BY <1>0, <2>1, DivMonotone, ConstantsAssumption
  <2>3. clock' \div COUNTER_TICK_US \in Nat
    BY <1>0, <2>1, DivType, ConstantsAssumption
  <2>4. \A f \in wire : f[2] \in Nat
    BY ConstantsAssumption DEF TypeOK, Frames, Counters
  <2> QED
    BY <1>0, <2>1, <2>2, <2>3, <2>4 DEF WireInv
<1>2. ASSUME NEW p \in Honest, SendSigned(p)
      PROVE  WireInv'
  <2> DEFINE g == <<p, clock \div COUNTER_TICK_US, "Valid", TRUE>>
  <2>1. wire' = wire \cup {g} /\ clock' = clock
    BY <1>2 DEF SendSigned
  <2>2. g[1] \in Honest /\ g[2] <= clock \div COUNTER_TICK_US
    BY <1>0
  <2> HIDE DEF g
  <2> QED
    BY <2>1, <2>2 DEF WireInv
<1>3. CASE UNCHANGED <<clock, wire>>
  BY <1>3 DEF WireInv
<1> QED
  BY <1>1, <1>2, <1>3
     DEF Next, bind, new, Refuse, RefuseByWindow, Admit, persist, PowerLoss, vars

(* A stream is never behind its own past, so a frame that was admitted is  *)
(* behind it from then on.                                                 *)
LEMMA StreamStep == TypeOK /\ StreamInv /\ [Next]_vars => StreamInv'
<1> SUFFICES ASSUME TypeOK, StreamInv, [Next]_vars PROVE StreamInv'
  OBVIOUS
<1>1. CASE new
  <2>1. Tracked(window)' = {}
    BY <1>1 DEF new, EmptyWindow, Tracked
  <2>2. watched'.now = 0
    BY <1>1 DEF new, TypeOK
  <2> QED
    BY <2>1, <2>2 DEF StreamInv
<1>2. ASSUME NEW f \in wire \cup Stray, Admit(f)
      PROVE  StreamInv'
  <2> DEFINE p == f[1]
             c == f[2]
             floor == window.freshness_floor
  <2>1. /\ p \in Principals /\ c \in Nat /\ c > 0 /\ c > window.last[p]
        /\ p \notin Tracked(window) => c + NEW_STREAM_MAX_AGE >= floor
        /\ window'.last = [window.last EXCEPT ![p] = c]
        /\ window'.freshness_floor = floor
        /\ Tracked(window)' = Tracked(window) \cup {p}
    BY <1>2, AdmitFacts, ConstantsAssumption DEF Counters
  <2>2. /\ window.last \in [Principals -> Nat] /\ floor \in Nat /\ NEW_STREAM_MAX_AGE \in Nat
        /\ watched.principal \in Principals /\ watched.counter \in Nat
        /\ watched.now \in 0 .. 2
    BY ConstantsAssumption DEF TypeOK, Counters
  <2>3. c + NEW_STREAM_MAX_AGE >= floor
    BY <2>1, <2>2 DEF StreamInv
  <2>4. \A q \in Tracked(window)' :
          window'.last[q] + NEW_STREAM_MAX_AGE >= window'.freshness_floor
    <3>1. Tracked(window) \subseteq Principals
      BY DEF Tracked
    <3> HIDE DEF p, c, floor
    <3>2. \A q \in Tracked(window) : q # p => window'.last[q] = window.last[q]
      BY <2>1, <2>2, <3>1
    <3>3. window'.last[p] = c
      BY <2>1, <2>2
    <3> QED
      BY <2>1, <2>3, <3>2, <3>3 DEF StreamInv, floor
  <2>5. CASE watched.principal = p /\ watched.counter = c
    <3>1. watched.now = 0
      BY <2>1, <2>2, <2>5 DEF StreamInv
    <3>2. watched' = [watched EXCEPT !.now = Min({2, watched.now + 1})]
      BY <1>2, <2>5 DEF Admit
    <3>3. Min({2, watched.now + 1}) = 1
      <4>1. Min({2, 1}) = 1
        BY DEF Min
      <4> QED
        BY <3>1, <4>1
    <3>4. watched'.now = 1 /\ watched'.principal = p /\ watched'.counter = c
      BY <2>5, <3>2, <3>3 DEF TypeOK
    <3>5. window'.last[p] = c
      BY <2>1, <2>2
    <3> QED
      BY <2>1, <2>3, <2>4, <3>4, <3>5 DEF StreamInv
  <2>6. CASE ~(watched.principal = p /\ watched.counter = c)
    <3>1. watched' = watched
      BY <1>2, <2>6 DEF Admit
    <3>2. window'.last[watched.principal] >= window.last[watched.principal]
      BY <2>1, <2>2
    <3>3. window'.last[watched.principal] \in Nat
      BY <2>1, <2>2
    <3> HIDE DEF p, c
    <3> QED
      BY <2>1, <2>2, <2>4, <3>1, <3>2, <3>3 DEF StreamInv
  <2> QED
    BY <2>5, <2>6
<1>3. CASE UNCHANGED <<window, watched>>
  BY <1>3 DEF StreamInv, Tracked
<1> QED
  BY <1>1, <1>2, <1>3
     DEF Next, bind, Refuse, RefuseByWindow, persist, PowerLoss, Tick, SendSigned, vars

-----------------------------------------------------------------------------
(* The theorems                                                            *)

(* Every reachable state of the gateway meets the inductive invariant.     *)
THEOREM GatewayCorrect == Spec => []GatewayInv
  BY InitInv, TypeStep, SlotStep, SeedStep, WireStep, StreamStep, PTL DEF Spec, GatewayInv

(* SourcePolicy and the replay table, whatever keys, identities and        *)
(* bindings there are: one authority a key, and a slot for every bound     *)
(* sender, because MAX_SOURCE_BINDINGS is no more than MAX_SIGNING_PEERS.  *)
THEOREM WindowCorrect == Spec => []WindowInv
<1>1. GatewayInv => WindowInv
  <2> SUFFICES ASSUME GatewayInv PROVE OneAuthorityPerKey /\ TableNeverFull
    BY DEF WindowInv, GatewayInv
  <2> USE DEF GatewayInv
  <2>1. OneAuthorityPerKey
    BY DEF SlotInv, OneAuthorityPerKey
  <2>2. ASSUME NEW p \in BoundPrincipals(policy), NEW c \in Counters,
               CheckError(p, c) = "ReplayCapacityExhausted"
        PROVE  FALSE
    <3>1. p \notin Tracked(window) /\ Cardinality(Tracked(window)) >= MAX_SIGNING_PEERS
      BY <2>2 DEF CheckError, None
    <3> DEFINE others == BoundPrincipals(policy) \ {p}
    <3>2. Tracked(window) \subseteq others
      BY <3>1 DEF SlotInv
    <3>3. /\ IsFiniteSet(others)
          /\ Cardinality(others) = Cardinality(BoundPrincipals(policy)) - 1
      BY TableIsFinite, FS_RemoveElement
    <3>4. Cardinality(Tracked(window)) <= Cardinality(others)
      BY <3>2, <3>3, FS_Subset
    <3> QED
      BY <3>1, <3>3, <3>4, TableIsFinite, TableAssumption, ConstantsAssumption DEF SlotInv
  <2> QED
    BY <2>1, <2>2 DEF SlotInv, TableNeverFull
<1> QED
  BY <1>1, GatewayCorrect, PTL

(* AntiReplayWindow::check_and_update: no frame is admitted twice in one   *)
(* boot, in whatever order and however often the network delivers it.      *)
THEOREM NoReplayInBoot == Spec => []AdmittedOnce
<1>1. GatewayInv => AdmittedOnce
  BY DEF GatewayInv, StreamInv, AdmittedOnce
<1> QED
  BY <1>1, GatewayCorrect, PTL

(* TrustedCounter and NEW_STREAM_MAX_AGE: what an earlier boot admitted is *)
(* admitted again only if it is no older than a new stream may be.         *)
THEOREM ReplayOverRebootIsRecent == Spec => []ReadmissionIsRecent
<1>1. GatewayInv => ReadmissionIsRecent
  BY DEF GatewayInv, StreamInv, SeedInv, ReadmissionIsRecent
<1> QED
  BY <1>1, GatewayCorrect, PTL

(* The window refuses no current frame for what another peer did in this   *)
(* boot: only a persisted mark ahead of the time, or a receiver idle for   *)
(* about the skew before its first frame (plausible_ceiling).              *)
THEOREM CurrentIsAdmitted == Spec => []CurrentRefusedForClockOnly
<1>1. GatewayInv /\ WindowInv => CurrentRefusedForClockOnly
  <2> SUFFICES ASSUME GatewayInv, WindowInv, NEW f \in wire, Current(f),
                      CheckError(f[1], f[2]) # "None"
               PROVE  \/ /\ CheckError(f[1], f[2]) = "StaleNewStream"
                         /\ kind = "PersistedHighWater"
                         /\ window.freshness_floor > boots.since \div COUNTER_TICK_US
                      \/ /\ CheckError(f[1], f[2]) = "CounterImplausiblyAhead"
                         /\ kind = "Rtc"
                         /\ Anchored > (MAX_SKEW - 1) * COUNTER_TICK_US
    BY DEF CurrentRefusedForClockOnly, None
  <2> DEFINE p == f[1]
             c == f[2]
             floor == window.freshness_floor
             since == boots.since \div COUNTER_TICK_US
  <2>1. /\ p \in Principals /\ c \in Nat /\ floor \in Nat /\ since \in Nat
        /\ window.last[p] \in Nat /\ NEW_STREAM_MAX_AGE \in Nat
    <3>1. boots.since \in Nat
      BY DEF GatewayInv, TypeOK
    <3>2. since \in Nat
      BY <3>1, DivType, ConstantsAssumption
    <3> QED
      BY <3>2, ConstantsAssumption DEF GatewayInv, TypeOK, Frames, Counters
  <2>2. c > window.last[p] /\ c + NEW_STREAM_MAX_AGE >= since
    BY DEF Current
  <2>3. c \in Counters /\ p \in BoundPrincipals(policy)
    BY <2>1 DEF Current, Authorized, BoundPrincipals, GatewayInv, TypeOK, Frames
  <2>4. CheckError(p, c) # "ReplayCapacityExhausted"
    BY <2>3 DEF WindowInv, TableNeverFull
  <2>5. CheckError(p, c) # "ReplayAttack"
    <3> HIDE DEF p, c
    <3> QED
      BY <2>1, <2>2 DEF CheckError, Tracked, None
  <2>6. CASE CheckError(p, c) = "StaleNewStream"
    <3>1. StaleStart(c)
      BY <2>6 DEF CheckError, None
    <3>2. c + NEW_STREAM_MAX_AGE < floor
      BY <2>1, <3>1 DEF StaleStart, Monus
    <3>3. floor > since
      BY <2>1, <2>2, <3>2
    <3>4. kind = "PersistedHighWater"
      BY <2>1, <3>3 DEF GatewayInv, SeedInv, TypeOK, Kinds
    <3> QED
      BY <2>6, <3>3, <3>4
  <2>7. CASE CheckError(p, c) = "CounterImplausiblyAhead"
    <3>1. AheadOfCeiling(c)
      BY <2>7 DEF CheckError, None
    <3>2. kind = "Rtc"
      BY <3>1 DEF AheadOfCeiling
    <3> DEFINE x == boots.since
               z == Anchored
               y == now_us - z
    <3>3. /\ x \in Nat /\ y \in Nat /\ z \in Nat
          /\ x + y + z = clock /\ Monus(now_us, z) = y
      BY <3>2 DEF GatewayInv, TypeOK, SeedInv, Anchored, now_us, Monus, Unset
    <3>4. floor = since
      BY <3>2 DEF GatewayInv, SeedInv
    <3>5. c > since + y \div COUNTER_TICK_US + MAX_SKEW
      BY <3>1, <3>3, <3>4 DEF AheadOfCeiling
    <3>6. c <= (x + y + z) \div COUNTER_TICK_US
      BY <3>3 DEF GatewayInv, WireInv
    <3> HIDE DEF x, y, z, c
    <3>7. ~ (z <= (MAX_SKEW - 1) * COUNTER_TICK_US)
      <4> SUFFICES ASSUME z <= (MAX_SKEW - 1) * COUNTER_TICK_US PROVE FALSE
        OBVIOUS
      <4>1. MAX_SKEW \in Int /\ COUNTER_TICK_US \in Nat \ {0}
        BY ConstantsAssumption
      <4>2. (x + y + z) \div COUNTER_TICK_US
              <= x \div COUNTER_TICK_US + y \div COUNTER_TICK_US + MAX_SKEW
        BY <3>3, <4>1, DivSum
      <4>3. /\ (x + y + z) \div COUNTER_TICK_US \in Nat /\ x \div COUNTER_TICK_US \in Nat
            /\ y \div COUNTER_TICK_US \in Nat
        BY <3>3, <4>1, DivType
      <4>4. since = x \div COUNTER_TICK_US
        BY DEF x
      <4> HIDE DEF since
      <4> QED
        BY <2>1, <3>5, <3>6, <4>1, <4>2, <4>3, <4>4
    <3>8. (MAX_SKEW - 1) * COUNTER_TICK_US \in Int
      BY ConstantsAssumption
    <3>9. z > (MAX_SKEW - 1) * COUNTER_TICK_US
      BY <3>3, <3>7, <3>8
    <3> QED
      BY <2>7, <3>2, <3>9 DEF z, c
  <2>8. CheckError(p, c) \in {"StaleNewStream", "CounterImplausiblyAhead"}
    BY <2>4, <2>5 DEF CheckError, None
  <2> QED
    BY <2>6, <2>7, <2>8
<1> QED
  BY <1>1, GatewayCorrect, WindowCorrect, PTL

=============================================================================
