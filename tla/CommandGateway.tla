--------------------------- MODULE CommandGateway ---------------------------
(***************************************************************************)
(* The place where an authenticated command becomes trusted                *)
(* (aviate-security): the MAVLink signing adapter, the source policy, the  *)
(* anti-replay window and the gateway that composes them, over receiver    *)
(* reboots that empty the window and keep only a counter written to        *)
(* non-volatile memory.                                                    *)
(*                                                                         *)
(* A frame is <<principal, counter, signature, for_us>>: the adapter       *)
(* decides on the last two, the gateway on the first two.  The network     *)
(* keeps every frame a sender with a right clock ever sent and hands any   *)
(* of them over any number of times in any order; the other senders may    *)
(* present any counter at any time, so their frames need no keeping.       *)
(* Payloads are left out: the gateway never looks at one.                  *)
(***************************************************************************)
EXTENDS Integers, FiniteSets, FiniteSetsExt

CONSTANTS
    Principals,           \* scheme, credential and identity of a sender
    credential(_),        \* the key slot of a principal
    Sources,              \* the authorities a credential may be bound to
    Honest,               \* principals whose clock shows the true time
    MAX_SIGNING_PEERS,
    MAX_SOURCE_BINDINGS,
    NEW_STREAM_MAX_AGE,   \* in counter units
    MAX_SKEW,             \* in counter units
    COUNTER_TICK_US,      \* microseconds per counter unit
    MaxClock,             \* bound: microseconds of true time
    MaxCounter,           \* bound: largest counter a sender stamps
    MaxBoots              \* bound: boots of the receiver

ASSUME ConstantsAssumption ==
    /\ IsFiniteSet(Principals) /\ Honest \subseteq Principals
    /\ {MAX_SIGNING_PEERS, MAX_SOURCE_BINDINGS, COUNTER_TICK_US} \subseteq Nat \ {0}
    /\ {NEW_STREAM_MAX_AGE, MAX_SKEW, MaxClock, MaxCounter, MaxBoots} \subseteq Nat
    /\ MaxClock \div COUNTER_TICK_US <= MaxCounter

\* MAX_SIGNING_PEERS is 16 and MAX_SOURCE_BINDINGS 8; nothing in the code
\* relates the two numbers, and the replay table relies on the order.
ASSUME TableAssumption == MAX_SOURCE_BINDINGS <= MAX_SIGNING_PEERS

VARIABLES
    clock,      \* true time in microseconds (external)
    kind,       \* which TrustedCounter the assembly seeds the window with
    nvm,        \* the high-water mark the assembly persisted (external)
    wire,       \* frames honest senders sent so far (external)
    phase,      \* "config", "up" or "down"
    policy,     \* SourcePolicy: principal -> source
    window,     \* AntiReplayWindow: last, freshness_floor, high_water
    anchor,     \* epoch_now_us, or Unset
    boots,      \* history: when the current boot began, and their number
    watched     \* history: one frame, any, and how often it was admitted

vars == <<clock, kind, nvm, wire, phase, policy, window, anchor, boots, watched>>

Unset == -1
None == "None"
Kinds == {"Rtc", "PersistedHighWater", "NoTrustedTimeSource"}
Counters == 0 .. MaxCounter
Frames == Principals \X Counters \X {"Valid", "Invalid", "Missing"} \X BOOLEAN
Monus(a, b) == IF a > b THEN a - b ELSE 0

\* Principals with an occupied slot.  An accepted counter is positive, so
\* last = 0 is a free slot, which is also what last_counter() answers for it.
Tracked(w) == {p \in Principals : w.last[p] > 0}

(***************************************************************************)
(* TrustedCounter::value and AntiReplayWindow::new.                        *)
(***************************************************************************)
SeedValue == CASE kind = "Rtc"                -> clock \div COUNTER_TICK_US
               [] kind = "PersistedHighWater" -> nvm
               [] OTHER                       -> 0

EmptyWindow(seed) ==
    [last |-> [p \in Principals |-> 0], freshness_floor |-> seed, high_water |-> seed]

Init ==
    /\ clock = 0
    /\ kind \in Kinds
    /\ nvm = 0
    /\ wire = {}
    /\ phase = "config"
    /\ policy = [p \in Principals |-> None]
    /\ window = EmptyWindow(0)
    /\ anchor = Unset
    /\ boots = [since |-> 0, count |-> 0]
    /\ watched \in [principal : Principals, counter : Counters, now : {0}, before : {FALSE}]

(***************************************************************************)
(* SourcePolicy::bind: one binding per key slot, in a table of fixed size. *)
(* A refusal leaves the policy as it is.                                   *)
(***************************************************************************)
BoundPrincipals(pol) == {p \in Principals : pol[p] # None}

\* Fault seed for MayBind: only the exact principal is looked for.
MayBind_exact(p) ==
    /\ p \notin BoundPrincipals(policy)
    /\ Cardinality(BoundPrincipals(policy)) < MAX_SOURCE_BINDINGS

MayBind(p) ==
    /\ \A q \in BoundPrincipals(policy) : credential(q) # credential(p)
    /\ Cardinality(BoundPrincipals(policy)) < MAX_SOURCE_BINDINGS

bind(p, source) ==
    /\ phase = "config"
    /\ MayBind(p)
    /\ policy' = [policy EXCEPT ![p] = source]
    /\ UNCHANGED <<clock, kind, nvm, wire, phase, window, anchor, boots, watched>>

\* CommandGateway::new, in a fresh process: empty slots, floor and high water
\* from the seed, no anchor.  The bindings are the assembly's code
\* and the same in every boot.
new ==
    /\ phase # "up"
    /\ boots.count < MaxBoots
    /\ phase' = "up"
    /\ window' = EmptyWindow(SeedValue)
    /\ anchor' = Unset
    /\ boots' = [since |-> clock, count |-> boots.count + 1]
    /\ watched' = [watched EXCEPT !.now = 0, !.before = @ \/ watched.now > 0]
    /\ UNCHANGED <<clock, kind, nvm, wire, policy>>

(***************************************************************************)
(* MavlinkAdmission::authenticate: decode (a frame for another vehicle     *)
(* does not), require a signature, verify it.  No state is touched.        *)
(***************************************************************************)
AdapterError(frame) ==
    CASE ~frame[4]             -> "Link"
      [] frame[3] = "Missing"  -> "MissingSignature"
      [] frame[3] = "Invalid"  -> "InvalidSignature"
      [] OTHER                 -> None

(***************************************************************************)
(* CommandGateway::plausible_ceiling at now_us, given the anchor it sets.  *)
(***************************************************************************)
now_us == clock - boots.since

Anchored == IF kind = "Rtc" /\ anchor = Unset THEN now_us ELSE anchor

AheadOfCeiling(counter) ==
    /\ kind = "Rtc"
    /\ counter > window.freshness_floor
                 + Monus(now_us, Anchored) \div COUNTER_TICK_US + MAX_SKEW

(***************************************************************************)
(* AntiReplayWindow::check_and_update.                                     *)
(***************************************************************************)
\* Fault seed for StaleStart: the floor follows what peers send.
StaleStart_follows(counter) == counter < Monus(window.high_water, NEW_STREAM_MAX_AGE)

\* Fault seed for StaleStart: a new stream may begin anywhere.
StaleStart_never(counter) == FALSE

StaleStart(counter) == counter < Monus(window.freshness_floor, NEW_STREAM_MAX_AGE)

\* Fault seed for CheckError: equality is not a replay.
CheckError_equal(p, counter) ==
    CASE AheadOfCeiling(counter) -> "CounterImplausiblyAhead"
      [] p \in Tracked(window) /\ counter < window.last[p] -> "ReplayAttack"
      [] p \in Tracked(window) /\ counter >= window.last[p] -> None
      [] counter = 0 -> "ReplayAttack"
      [] StaleStart(counter) -> "StaleNewStream"
      [] Cardinality(Tracked(window)) >= MAX_SIGNING_PEERS -> "ReplayCapacityExhausted"
      [] OTHER -> None

CheckError(p, counter) ==
    IF AheadOfCeiling(counter) THEN "CounterImplausiblyAhead"
    ELSE IF p \in Tracked(window)
         THEN IF counter <= window.last[p] THEN "ReplayAttack" ELSE None
    ELSE IF counter = 0 THEN "ReplayAttack"
    ELSE IF StaleStart(counter) THEN "StaleNewStream"
    ELSE IF Cardinality(Tracked(window)) >= MAX_SIGNING_PEERS
         THEN "ReplayCapacityExhausted"
    ELSE None

CommitCounter(p, counter) ==
    [window EXCEPT !.last[p] = counter, !.high_water = Max({@, counter})]

(***************************************************************************)
(* A frame the network hands over, through authenticate() and admit():     *)
(* refused by the adapter or the policy with nothing changed, refused by   *)
(* the window with the anchor set, or admitted.                            *)
(***************************************************************************)
Refuse(frame) ==
    /\ phase = "up"
    /\ AdapterError(frame) # None \/ policy[frame[1]] = None
    /\ UNCHANGED vars

Authorized(frame) ==
    /\ phase = "up"
    /\ AdapterError(frame) = None
    /\ policy[frame[1]] # None

RefuseByWindow(frame) ==
    /\ Authorized(frame)
    /\ CheckError(frame[1], frame[2]) # None
    /\ anchor' = Anchored
    /\ UNCHANGED <<clock, kind, nvm, wire, phase, policy, window, boots, watched>>

Admit(frame) ==
    /\ Authorized(frame)
    /\ CheckError(frame[1], frame[2]) = None
    /\ anchor' = Anchored
    /\ window' = CommitCounter(frame[1], frame[2])
    /\ watched' = IF <<watched.principal, watched.counter>> = <<frame[1], frame[2]>>
                  THEN [watched EXCEPT !.now = Min({2, @ + 1})]
                  ELSE watched
    /\ UNCHANGED <<clock, kind, nvm, wire, phase, policy, boots>>

(***************************************************************************)
(* Surroundings.                                                           *)
(***************************************************************************)

\* The assembly writes local_freshness_counter() to non-volatile memory.
persist ==
    /\ phase = "up"
    /\ nvm # window.high_water
    /\ nvm' = window.high_water
    /\ UNCHANGED <<clock, kind, wire, phase, policy, window, anchor, boots, watched>>

PowerLoss ==
    /\ phase = "up"
    /\ boots.count < MaxBoots
    /\ phase' = "down"
    /\ UNCHANGED <<clock, kind, nvm, wire, policy, window, anchor, boots, watched>>

Tick ==
    /\ phase # "config"
    /\ clock < MaxClock
    /\ clock' = clock + 1
    /\ UNCHANGED <<kind, nvm, wire, phase, policy, window, anchor, boots, watched>>

\* An honest sender stamps the time, one frame a tick.
SendSigned(p) ==
    /\ phase # "config"
    /\ clock >= COUNTER_TICK_US
    /\ <<p, clock \div COUNTER_TICK_US, "Valid", TRUE>> \notin wire
    /\ wire' = wire \cup {<<p, clock \div COUNTER_TICK_US, "Valid", TRUE>>}
    /\ UNCHANGED <<clock, kind, nvm, phase, policy, window, anchor, boots, watched>>

\* Frames that may arrive at any time: any counter of a sender whose clock is
\* not trusted, and what the adapter refuses, whose counter never matters.
Stray ==
    ((Principals \ Honest) \X Counters \X {"Valid"} \X {TRUE})
      \cup (Principals \X {1} \X {"Invalid", "Missing"} \X {TRUE})
      \cup (Principals \X {1} \X {"Valid"} \X {FALSE})

Next ==
    \/ \E p \in Principals, s \in Sources : bind(p, s)
    \/ new
    \/ \E f \in wire \cup Stray :
          Refuse(f) \/ RefuseByWindow(f) \/ Admit(f)
    \/ persist
    \/ PowerLoss
    \/ Tick
    \/ \E p \in Honest : SendSigned(p)

Spec == Init /\ [][Next]_vars

-----------------------------------------------------------------------------

TypeOK ==
    /\ clock \in 0 .. MaxClock
    /\ kind \in Kinds
    /\ nvm \in Counters
    /\ wire \subseteq Frames
    /\ phase \in {"config", "up", "down"}
    /\ policy \in [Principals -> Sources \cup {None}]
    /\ window \in [last : [Principals -> Counters], freshness_floor : Counters,
                   high_water : Counters]
    /\ anchor \in Int
    /\ boots \in [since : 0 .. MaxClock, count : 0 .. MaxBoots]
    /\ watched \in [principal : Principals, counter : Counters, now : 0 .. 2, before : BOOLEAN]

\* Within a boot a frame is admitted at most once, however often and in
\* whatever order the network delivers it and whatever other peers send.
AdmittedOnce == watched.now <= 1

\* Over a reboot a frame can be admitted again only when it is at most the
\* age of a new stream behind the counter the boot was seeded with: with a
\* clock, behind the time of the reboot; with a persisted mark, behind a
\* counter that had been admitted by an earlier boot.
ReadmissionIsRecent ==
    phase = "up" /\ watched.before /\ watched.now > 0 =>
        /\ watched.counter + NEW_STREAM_MAX_AGE >= window.freshness_floor
        /\ kind = "Rtc" =>
              watched.counter + NEW_STREAM_MAX_AGE >= boots.since \div COUNTER_TICK_US

\* The authority of a command is a property of the key: whatever identities
\* one key asserts, at most one of them has commands admitted.
OneAuthorityPerKey ==
    \A p, q \in Tracked(window) : credential(p) = credential(q) => p = q

\* The replay table never fills up: only authorized peers hold a slot, and
\* no authorized peer is ever refused one.
TableNeverFull ==
    /\ Tracked(window) \subseteq BoundPrincipals(policy)
    /\ \A p \in BoundPrincipals(policy), c \in Counters :
          CheckError(p, c) # "ReplayCapacityExhausted"

\* The replay table, its slots and the bindings that fill them, in every state.
WindowInv == TypeOK /\ OneAuthorityPerKey /\ TableNeverFull

\* A frame that an authorized sender with a right clock stamped no longer
\* ago than a new stream may be old, newer than all admitted from it in this
\* boot: what an operator's link delivers in normal operation.
Current(frame) ==
    /\ Authorized(frame)
    /\ frame[1] \in Honest
    /\ frame[2] + NEW_STREAM_MAX_AGE >= boots.since \div COUNTER_TICK_US
    /\ frame[2] > window.last[frame[1]]

\* A current frame would be refused in two cases only, and never for what
\* another peer sent in this boot: a mark ahead of the true time was persisted
\* by an earlier boot, or the receiver has a clock and was idle for about the
\* skew (three divisions round, for two ticks at most) before its first frame.
CurrentRefusedForClockOnly ==
    \A f \in wire :
        Current(f) /\ CheckError(f[1], f[2]) # None =>
            \/ /\ CheckError(f[1], f[2]) = "StaleNewStream"
               /\ kind = "PersistedHighWater"
               /\ window.freshness_floor > boots.since \div COUNTER_TICK_US
            \/ /\ CheckError(f[1], f[2]) = "CounterImplausiblyAhead"
               /\ kind = "Rtc"
               /\ Anchored > (MAX_SKEW - 1) * COUNTER_TICK_US

=============================================================================
