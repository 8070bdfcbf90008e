----------------------------- MODULE XPlaneSession -----------------------------
(***************************************************************************)
(* One session of the X-Plane board: the TCP HIL link the flight           *)
(* controller dials (mavlink-hil transport_tcp.rs, backend.rs), the reset  *)
(* handshake over it, the runtime identity gate (board/handshake.rs), the  *)
(* sample-paced step (board.rs, board/packet.rs), arming                   *)
(* (board/arm_authorization.rs) and the life cycle (board/lifecycle.rs).   *)
(*                                                                         *)
(* The simulator's bridge is external.  It keeps at most BURST samples     *)
(* unanswered, takes every actuator message for an answer, and starts a    *)
(* new world when it is asked to or when its user reloads it.  A sample is *)
(* its world, whether it is the world's first, and whether it carries the  *)
(* reset marker: within a world time stamps increase, a first sample is    *)
(* not later than anything before it, and nothing else is known about      *)
(* stamps of two worlds.  The kernel is Init (anything before Ready),      *)
(* Ready or Armed.  No tuning trace is configured.                         *)
(***************************************************************************)
EXTENDS Integers, Sequences, SequencesExt

CONSTANTS
  BURST,                \* samples the bridge sends ahead of their answers
  SENSOR_QUEUE_DEPTH,
  EVIDENCE_INTERVALS,   \* SAMPLE_RATE_EVIDENCE_INTERVALS
  MAX_SAMPLES,          \* max_samples_per_iteration
  MaxResets,            \* bound: resets the operator asks for
  MaxWorlds,            \* bound: worlds up to which the bridge repeats a reset
  MaxMishaps            \* bound: failures, reloads and broken links

ASSUME SizesAssumption ==
  /\ {BURST, SENSOR_QUEUE_DEPTH, EVIDENCE_INTERVALS, MAX_SAMPLES} \subseteq Nat \ {0}
  /\ {MaxResets, MaxWorlds, MaxMishaps} \subseteq Nat
\* A burst fits the queue (16 slots), with a sample for each reset request the
\* bridge takes for an answer before its sample is read.
ASSUME QueueAssumption == BURST + MaxResets <= SENSOR_QUEUE_DEPTH

VARIABLES
  bridge,         \* world, first, flag of its next sample; unanswered (external)
  link,           \* the stream: "up", "closed" by the bridge, or "down"
  wire,           \* samples on their way
  sensors,        \* samples that arrived and are not taken
  reset_pending,  \* HilBackend.reset_pending
  gate,           \* RuntimeIdentityGate; of the last stamp only its world
  kernel,
  perturbed,      \* is a condition artifact loaded?
  failures,       \* perturbation_failure, artifact_failure
  session,        \* XPlaneSessionState: lifecycle, generation
  answered,       \* samples answered in the step under way, or NoStep
  mishaps,        \* bound counter
  via,            \* history: who authorized the flight: "board", "nobody"
  home,           \* history: world of the evidence, NoWorld once the link broke
  before,         \* history: latest world processed before the last reset
  answer,         \* history: world of the last answer, was it armed in this step
  unheard         \* history: a message was not sent on this stream

linkVars == <<bridge, link, wire, sensors>>
histVars == <<via, home, before, answer>>
vars == <<linkVars, reset_pending, gate, kernel, perturbed, failures, session, answered,
          mishaps, histVars, unheard>>

NoStep  == -1
NoWorld == 0
NoAnswer == [world |-> NoWorld, armed |-> FALSE]

NoEvidence(accepted) == [accepted |-> accepted, last |-> NoWorld, intervals |-> 0,
                         verified |-> FALSE, failed |-> FALSE]

\* n mishaps, while there are any left.
Mishaps(n) == mishaps + n <= MaxMishaps /\ mishaps' = mishaps + n
If(condition) == IF condition THEN 1 ELSE 0

Init ==
  /\ bridge = [world |-> 1, first |-> TRUE, flag |-> FALSE, unanswered |-> 0]
  /\ link = "down" /\ wire = <<>> /\ sensors = <<>>
  /\ reset_pending = FALSE
  /\ gate = NoEvidence(FALSE)
  /\ kernel = "Init" /\ perturbed \in BOOLEAN /\ failures = {}
  /\ session = [lifecycle |-> "Converging", generation |-> 1]
  /\ answered = NoStep /\ mishaps = 0
  /\ via = "nobody" /\ home = NoWorld /\ before = NoWorld /\ answer = NoAnswer
  /\ unheard = FALSE

-----------------------------------------------------------------------------
(* The bridge and the network (external). *)

\* The bridge sends the next sample of its world.
BridgeSends ==
  /\ link = "up" /\ bridge.unanswered < BURST
  /\ wire' = Append(wire, [world |-> bridge.world, first |-> bridge.first, reset |-> bridge.flag])
  /\ bridge' = [bridge EXCEPT !.first = FALSE, !.flag = FALSE, !.unanswered = @ + 1]
  /\ UNCHANGED <<link, sensors, reset_pending, gate, kernel, perturbed, failures, session, answered,
                 mishaps, histVars, unheard>>

\* Its user loads another situation: a new world, its clock at zero.
BridgeReloads ==
  /\ Mishaps(1)
  /\ bridge' = [bridge EXCEPT !.world = @ + 1, !.first = TRUE, !.flag = FALSE]
  /\ UNCHANGED <<link, wire, sensors, reset_pending, gate, kernel, perturbed, failures, session,
                 answered, histVars, unheard>>

BridgeCloses ==
  /\ link = "up" /\ Mishaps(1)
  /\ link' = "closed"
  /\ UNCHANGED <<bridge, wire, sensors, reset_pending, gate, kernel, perturbed, failures, session,
                 answered, histVars, unheard>>

\* A sample arrives; a full queue loses its oldest (handle_frame).
Arrive ==
  /\ wire # <<>>
  /\ wire' = Tail(wire)
  /\ sensors' = Append(IF Len(sensors) = SENSOR_QUEUE_DEPTH THEN Tail(sensors) ELSE sensors,
                       Head(wire))
  /\ UNCHANGED <<bridge, link, reset_pending, gate, kernel, perturbed, failures, session, answered,
                 mishaps, histVars, unheard>>

\* What the bridge makes of a message: an answer, and, if it asks for a
\* reset, a new world whose first sample is marked.  While a marked sample
\* is on its way it may take a further request for the same one.
Marked(b, flying) == b.flag \/ \E i \in DOMAIN flying : flying[i].reset

Hears(b, flying, request) ==
  LET counted == [b EXCEPT !.unanswered = IF @ = 0 THEN 0 ELSE @ - 1]
      reborn  == [counted EXCEPT !.world = @ + 1, !.first = TRUE, !.flag = TRUE]
  IN  IF ~request THEN {counted}
      ELSE IF ~Marked(b, flying) THEN {reborn}
      ELSE {counted} \cup (IF b.world < MaxWorlds THEN {reborn} ELSE {})

-----------------------------------------------------------------------------
(* HilTcpTransport. *)

\* send_message, with what is left of the samples that arrived: written
\* whole; refused by a full buffer, which keeps the stream; cut short or
\* failed, which drops it and what was not read yet; no stream.  On a stream
\* the bridge has closed a write fails or goes nowhere.
Sent(rest, request, ok) ==
  \/ /\ ok /\ link = "up"
     /\ bridge' \in Hears(bridge, wire \o rest, request)
     /\ sensors' = rest
     /\ UNCHANGED <<link, wire, unheard>>
  \/ /\ link = IF ok THEN "closed" ELSE "up"
     /\ sensors' = rest /\ unheard' = TRUE
     /\ UNCHANGED <<bridge, link, wire>>
  \/ /\ ~ok /\ link # "down"
     /\ link' = "down" /\ wire' = <<>> /\ sensors' \in Prefixes(rest)
     /\ unheard' = TRUE
     /\ UNCHANGED bridge
  \/ /\ ~ok /\ link = "down"
     /\ sensors' = rest
     /\ UNCHANGED <<bridge, link, wire, unheard>>

\* A failed send is a mishap of its own while the stream is up.
Unsent(ok) == If(~ok /\ link = "up")

\* try_connect, once the retry interval is over: nothing of the old stream
\* is kept.
try_connect ==
  /\ link' = "up" /\ wire' = <<>> /\ sensors' = <<>>
  /\ bridge' = [bridge EXCEPT !.unanswered = 0]
  /\ unheard' = FALSE
  /\ home' = NoWorld

\* disconnect, at the end of the stream: what arrived before is kept.
EndOfStream ==
  /\ link' = "down"
  /\ UNCHANGED <<bridge, wire, sensors, unheard, home>>

-----------------------------------------------------------------------------
(* RuntimeIdentityGate. *)

\* Is the stamp of s no later than the last one?
Regressions(s) ==
  IF gate.last = NoWorld \/ s.world = gate.last THEN {FALSE}
  ELSE IF s.first THEN {TRUE} ELSE BOOLEAN

\* Fault seed for observe_timestamp: a verified gate looks no further.
observe_timestamp_once(s, regressed, rate_ok) ==
  LET n == IF gate.last = NoWorld THEN 0 ELSE EVIDENCE_INTERVALS
  IN  IF gate.failed \/ gate.verified \/ ~gate.accepted THEN gate
      ELSE [gate EXCEPT !.last = s.world, !.intervals = n,
              !.verified = n = EVIDENCE_INTERVALS /\ rate_ok /\ ~regressed]

\* The gate after observe_timestamp: inert before the handshake and after a
\* failure; a regression fails it; enough intervals verify it, or fail it for
\* their rate.
observe_timestamp(s, regressed, rate_ok) ==
  LET n == IF gate.last = NoWorld THEN gate.intervals
           ELSE IF gate.intervals < EVIDENCE_INTERVALS THEN gate.intervals + 1
           ELSE gate.intervals
      on == [gate EXCEPT !.last = s.world, !.intervals = n]
  IN  IF gate.failed \/ ~gate.accepted THEN gate
      ELSE IF regressed THEN [gate EXCEPT !.failed = TRUE, !.verified = FALSE]
      ELSE IF gate.verified \/ n < EVIDENCE_INTERVALS THEN on
      ELSE IF rate_ok THEN [on EXCEPT !.verified = TRUE]
      ELSE [on EXCEPT !.failed = TRUE]

is_verified(g) == g.verified /\ ~g.failed

\* accept_runtime_handshake, by the application, once; a mismatch changes
\* nothing.
accept ==
  /\ ~gate.accepted
  /\ gate' = [gate EXCEPT !.accepted = TRUE]
  /\ UNCHANGED <<linkVars, reset_pending, kernel, perturbed, failures, session, answered, mishaps,
                 histVars, unheard>>

-----------------------------------------------------------------------------
(* Arming, and a pass of the simulation runner. *)

\* XPlaneArmAuthorizer.authorize_arm, but for the artifact's hash.
Authorized(g, f) == is_verified(g) /\ "perturbation" \notin f

\* What a pass makes of the kernel k: <<kernel, answer armed, artifact changed,
\* armed in this pass>>.  One inbound command (Arm, Disarm or Terminate, or
\* none) is enacted first, then the init machine advances.  Arm asks the
\* authorizer, which re-reads the artifact before it looks at the rest; the
\* kernel may refuse Arm for a fault and Disarm for being airborne.
RunnerPass(k, authorized, artifact_ok) ==
  LET Advanced(s) == IF s = "Init" THEN {"Init", "Ready"} ELSE {s}
      Pass(s, changed, armed) == {<<a, a = "Armed", changed, armed>> : a \in Advanced(s)}
  IN  UNION {Pass(k, FALSE, FALSE),
             Pass("Init", FALSE, FALSE),
             IF ~artifact_ok THEN Pass(k, TRUE, FALSE) ELSE {},
             IF authorized /\ artifact_ok /\ k = "Ready" THEN Pass("Armed", FALSE, TRUE) ELSE {}}

\* XPlaneBoard::arm, between steps; it finds the artifact as it was or changed.
arm ==
  /\ answered = NoStep /\ kernel = "Ready"
  /\ \/ Authorized(gate, failures) /\ kernel' = "Armed" /\ via' = "board"
        /\ UNCHANGED <<failures, mishaps>>
     \/ perturbed /\ Mishaps(1) /\ failures' = failures \cup {"artifact"}
        /\ UNCHANGED <<kernel, via>>
  /\ UNCHANGED <<linkVars, reset_pending, gate, perturbed, session, answered, home, before, answer, unheard>>

\* XPlaneBoard::disarm when on the ground, terminate at any time.
disarm ==
  /\ answered = NoStep /\ kernel = "Armed"
  /\ kernel' = "Init"
  /\ UNCHANGED <<linkVars, reset_pending, gate, perturbed, failures, session, answered, mishaps, histVars,
                 unheard>>

-----------------------------------------------------------------------------
(* The life cycle. *)

\* session_surfaces_healthy; runtime_failure is set with gate.failed.
Healthy(g, f) == is_verified(g) /\ f = {}

\* observe_health, at the end of a step.
observe_health(k) ==
  LET ready == Healthy(gate, failures) /\ k = "Ready"
      healthy == Healthy(gate, failures) /\ k # "Init"
  IN  session' = [session EXCEPT !.lifecycle =
        CASE @ = "Converging" /\ ready -> "Ready"
          [] @ = "Ready" /\ ~healthy   -> "Converging"
          [] OTHER                     -> @]

start_session ==
  /\ answered = NoStep /\ session.lifecycle = "Stopped"
  /\ session' = [session EXCEPT !.lifecycle =
                   IF Healthy(gate, failures) /\ kernel = "Ready" THEN "Ready" ELSE "Converging"]
  /\ UNCHANGED <<linkVars, reset_pending, gate, kernel, perturbed, failures, answered, mishaps,
                 histVars, unheard>>

stop_session ==
  /\ answered = NoStep /\ session.lifecycle # "Stopped"
  /\ kernel' = "Init"
  /\ session' = [session EXCEPT !.lifecycle = "Stopped"]
  /\ UNCHANGED <<linkVars, reset_pending, gate, perturbed, failures, answered, mishaps, histVars,
                 unheard>>

\* begin_reset: everything of the generation is cleared, the samples that
\* arrived included, and the reset is requested.  If the request is not sent
\* the life cycle says Resetting with nothing pending, and the generation
\* stays.  (A poll of clear_generation_state that dials is a step's poll.)
begin_reset ==
  /\ answered = NoStep
  /\ session.lifecycle # "Resetting" /\ ~reset_pending
  /\ session.generation <= MaxResets
  /\ kernel' = "Init" /\ gate' = NoEvidence(gate.accepted) /\ failures' = {}
  /\ \E ok \in BOOLEAN :
       /\ Sent(<<>>, TRUE, ok) /\ Mishaps(Unsent(ok))
       /\ reset_pending' = ok
       /\ session' = [lifecycle |-> "Resetting", generation |-> session.generation + If(ok)]
       /\ before' = IF ok THEN answer.world ELSE before
  /\ home' = NoWorld /\ answer' = NoAnswer
  /\ UNCHANGED <<perturbed, answered, via>>

-----------------------------------------------------------------------------
(* XPlaneBoard::step: begin, an iteration per sample, end. *)

step_begins ==
  /\ answered = NoStep /\ session.lifecycle # "Stopped"
  /\ answered' = 0
  /\ kernel' = IF "artifact" \in failures THEN "Init" ELSE kernel
  /\ via' = IF kernel' = "Armed" THEN via ELSE "nobody"
  /\ answer' = [answer EXCEPT !.armed = FALSE]
  /\ UNCHANGED <<linkVars, reset_pending, gate, perturbed, failures, session, mishaps, home,
                 before, unheard>>

\* After the last sample: a step that answered none runs the runner with
\* AllowArm, unless a reset is under way.
step_ends ==
  /\ answered' = NoStep
  /\ \E pass \in IF answered = 0 /\ session.lifecycle # "Resetting"
                 THEN RunnerPass(kernel, TRUE, TRUE) ELSE {<<kernel, FALSE, FALSE, FALSE>>} :
       /\ kernel' = pass[1]
       /\ via' = IF pass[4] THEN "nobody" ELSE via
       /\ observe_health(pass[1])
  /\ UNCHANGED <<gate, perturbed, failures, before, answer>>

\* poll on a stream at its end.
poll_ends_stream ==
  /\ answered \in 0..(MAX_SAMPLES - 1)
  /\ link = "closed" /\ wire = <<>>
  /\ EndOfStream
  /\ UNCHANGED <<reset_pending, gate, kernel, perturbed, failures, session, answered, mishaps,
                 via, before, answer>>

Polls == answered \in 0..(MAX_SAMPLES - 1) /\ ~(link = "closed" /\ wire = <<>>)

poll_connects ==
  /\ Polls /\ link = "down"
  /\ try_connect /\ step_ends
  /\ UNCHANGED <<reset_pending, mishaps>>

poll_finds_nothing ==
  /\ Polls /\ sensors = <<>>
  /\ step_ends
  /\ UNCHANGED <<linkVars, reset_pending, mishaps, home, unheard>>

\* Fault seed for Acknowledges: any sample does.
Acknowledges_any(s) == TRUE

\* Does the sample acknowledge the reset?
Acknowledges(s) == s.reset

\* Fault seed for poll_asks_again: it drops the sample without a word.
poll_asks_again_drops ==
  /\ Polls /\ sensors # <<>> /\ reset_pending
  /\ ~Acknowledges(Head(sensors))
  /\ sensors' = Tail(sensors)
  /\ step_ends
  /\ UNCHANGED <<bridge, link, wire, unheard, reset_pending, mishaps, home>>

\* Fault seed for poll_asks_again: it answers with a plain message.
poll_asks_again_plain ==
  /\ Polls /\ sensors # <<>> /\ reset_pending
  /\ \E ok, whole \in BOOLEAN :
       /\ Acknowledges(Head(sensors)) => ~whole
       /\ Sent(Tail(sensors), FALSE, ok)
       /\ Mishaps(Unsent(ok) + If(Acknowledges(Head(sensors))))
  /\ step_ends
  /\ UNCHANGED <<reset_pending, home>>

\* poll_reset_ack: a sample without the marker, or whose group is not
\* complete, is answered by the request once more, sent or not.
poll_asks_again ==
  /\ Polls /\ sensors # <<>> /\ reset_pending
  /\ \E ok, whole \in BOOLEAN :
       /\ Acknowledges(Head(sensors)) => ~whole
       /\ Sent(Tail(sensors), TRUE, ok)
       /\ Mishaps(Unsent(ok) + If(Acknowledges(Head(sensors))))
  /\ step_ends
  /\ UNCHANGED <<reset_pending, home>>

\* process_sample and answer_sample: clock, perturbation of the sensors, the
\* runner, the artifact, perturbation of the answer, the answer.  A regressed
\* clock, each failure and an answer that is not sent terminate the flight.
process_sample(s, ok, sensor_ok, actuator_ok, artifact_ok) ==
  \E regressed \in Regressions(s), rate_ok \in BOOLEAN :
    LET g  == observe_timestamp(s, regressed, rate_ok)
        f  == IF sensor_ok THEN failures ELSE failures \cup {"perturbation"}
        k  == IF (g.failed /\ ~gate.failed) \/ ~sensor_ok THEN "Init" ELSE kernel
    IN  \E pass \in RunnerPass(k, Authorized(g, f), artifact_ok) :
          LET fs == UNION {f, IF pass[3] THEN {"artifact"} ELSE {},
                           IF perturbed /\ "perturbation" \notin f /\ ~(ok /\ actuator_ok)
                           THEN {"perturbation"} ELSE {}}
          IN  /\ gate' = g
              /\ failures' = fs
              /\ kernel' = IF "artifact" \in fs \/ ~ok \/ fs # f THEN "Init" ELSE pass[1]
              /\ via' = IF pass[4] THEN "board" ELSE via
              /\ answer' = [world |-> s.world, armed |-> pass[2] /\ actuator_ok]
              /\ home' = IF gate.last = NoWorld /\ g.last # NoWorld THEN s.world ELSE home

\* Poll takes a sample; the marked one of a complete group ends a reset.
poll_sample ==
  /\ Polls /\ sensors # <<>>
  /\ reset_pending => Acknowledges(Head(sensors))
  /\ reset_pending' = FALSE /\ answered' = answered + 1
  /\ session' = IF session.lifecycle = "Resetting"
                THEN [session EXCEPT !.lifecycle = "Converging"] ELSE session
  /\ \E ok, sensor_ok, actuator_ok, artifact_ok \in BOOLEAN :
       /\ ~(sensor_ok /\ actuator_ok /\ artifact_ok) => perturbed
       /\ "perturbation" \in failures => ~sensor_ok
       /\ ~sensor_ok => actuator_ok
       /\ Sent(Tail(sensors), FALSE, ok)
       /\ Mishaps(Unsent(ok) + If(~sensor_ok /\ "perturbation" \notin failures)
                             + If(~actuator_ok) + If(~artifact_ok))
       /\ process_sample(Head(sensors), ok, sensor_ok, actuator_ok, artifact_ok)
  /\ UNCHANGED <<perturbed, before>>

step_is_full ==
  /\ answered = MAX_SAMPLES
  /\ step_ends
  /\ UNCHANGED <<linkVars, reset_pending, mishaps, home, unheard>>

-----------------------------------------------------------------------------

Step == \/ step_begins \/ poll_ends_stream \/ poll_connects \/ poll_finds_nothing
        \/ poll_asks_again \/ poll_sample \/ step_is_full
Operator == accept \/ arm \/ disarm \/ start_session \/ stop_session \/ begin_reset
World == BridgeSends \/ BridgeReloads \/ BridgeCloses \/ Arrive

Next == Step \/ Operator \/ World

\* The flight loop calls step for ever, a dialled simulator that listens is
\* reached in the end, the network delivers and the bridge sends whenever it
\* does not wait for an answer.
Fairness == WF_vars(Step) /\ SF_vars(poll_connects) /\ WF_vars(Arrive) /\ WF_vars(BridgeSends)

Spec == Init /\ [][Next]_vars /\ Fairness

-----------------------------------------------------------------------------
(* Properties. *)

Samples == [world : Nat \ {0}, first : BOOLEAN, reset : BOOLEAN]

\* Type correctness of link, gate, kernel and life cycle.
TypeOK ==
  /\ bridge \in [world : Nat \ {0}, first : BOOLEAN, flag : BOOLEAN, unanswered : 0..BURST]
  /\ link \in {"up", "closed", "down"}
  /\ wire \in Seq(Samples) /\ sensors \in Seq(Samples)
  /\ reset_pending \in BOOLEAN /\ perturbed \in BOOLEAN
  /\ gate \in [accepted : BOOLEAN, last : Nat,
               intervals : 0..EVIDENCE_INTERVALS, verified : BOOLEAN, failed : BOOLEAN]
  /\ kernel \in {"Init", "Ready", "Armed"}
  /\ failures \subseteq {"perturbation", "artifact"}
  /\ session \in [lifecycle : {"Converging", "Ready", "Resetting", "Stopped"},
                  generation : 1..(MaxResets + 1)]
  /\ answered \in NoStep..MAX_SAMPLES /\ mishaps \in 0..MaxMishaps
  /\ via \in {"board", "nobody"} /\ unheard \in BOOLEAN
  /\ home \in Nat /\ before \in Nat /\ answer \in [world : Nat, armed : BOOLEAN]

\* A flight the board authorized stays in its world: on one stream no armed
\* answer goes to a sample of another world than the one the clock evidence
\* of the identity gate came from, although the simulator may be reloaded
\* between any two samples (observe_timestamp, process_sample).
ArmedAnswersOneWorld ==
  answer.armed /\ via = "board" /\ home # NoWorld => answer.world = home

\* A generation whose reset was requested begins in a world no sample of an
\* earlier generation came from, whatever was on its way when the request was
\* sent or repeated (begin_reset, clear_generation_state, poll_reset_ack).
GenerationIsANewWorld ==
  answer # NoAnswer /\ before # NoWorld => answer.world > before

\* Board and bridge never wait for each other: while every message of the
\* stream was sent, a bridge that sends no more has samples on their way,
\* although a reset discards several samples and sends one message
\* (answer_sample, poll_reset_ack, request_reset).
NoMutualWait ==
  link = "up" /\ ~unheard /\ wire = <<>> /\ sensors = <<>> => bridge.unanswered < BURST

\* The link between board and bridge: its types, and that neither waits for
\* the other (send_message, poll, poll_reset_ack).
SessionInv == TypeOK /\ NoMutualWait

\* A reset comes to an end, unless a message could not be sent, over samples
\* of the old world, incomplete groups and broken streams (begin_reset, step,
\* poll_reset_ack).
ResetEnds == session.lifecycle = "Resetting" ~> (session.lifecycle # "Resetting" \/ unheard)

=============================================================================
