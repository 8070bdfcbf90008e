# TLA+ models of the Aviate flight-control kernel and its runners

Aviate is a `no_std` Rust flight controller: a sequential kernel (`aviate-core`)
called by a runner (`aviate-runtime`) that owns the clock, the sensors, the
command link and the actuator driver (`aviate-hal`). Around them are a
shared-memory link and a TCP link to simulators, a command gateway with anti-replay, the USB
serial transport of the flight board, and a bootloader with its host tool. This
directory holds TLA+ modules for the parts of it whose correctness depends on
*the order in which things happen*, TLC configurations that check them on small instances, and
TLAPS proofs of the main safety properties for every value of the constants.

Notation below: `core/` is `aviate-core/src/`, `rt/` is `aviate-runtime/src/`,
`xil/` is `aviate-hal/xil/src/`, `io/` is `aviate-hal/io/src/`, `shm/` is
`aviate-hal/xil/shm/src/`, `h743/` is `aviate-boards/micoair-h743-v2/src/`, `xp/` is
`aviate-boards/sitl-xplane/src/`, `hil/` is `aviate-hal/xil/backends/mavlink-hil/src/`.

## 1. Inventory

### Components, their state and operations

| component | state | operations | module |
|---|---|---|---|
| flight phase (`core/flight_phase.rs`) | airborne latch, height datum validity, landed debounce | `begin_flight_period`, `update`, `reset` | `FlightPhase` |
| kernel lifecycle (`core/kernel_logic*.rs`) | `init_state`, fault register, pre-arm flags, sample counts | `init_step`, `arm`, `disarm`, `terminate`, `ground_reset`, `reset_from_fault`, `update_throttle`, `estimator_init` | `Kernel` |
| kernel cycle (`core/kernel_update.rs`) | control law, terminal cause, in-flight and transition flags, controller memory, consecutive timing violations | `update` (four exits), `handle_degradation`, `report_timing_violation`, `request_config_mode` | `Kernel` |
| mode gate (`core/control/mode_gate.rs`) | none | requested mode + validity + support -> flown mode or refusal | `Kernel` (`ModeEntry`) |
| estimator validity (`core/ekf*.rs`) | initialized, quaternion fault, finiteness, position and velocity aiding | `init`, `reset`, `observe` | `Kernel` (`est`) |
| sanitizer and slew limiter (`core/mixer/`, `core/kernel/slew.rs`) | last good vector, age and count per group, previous command | `sanitize`, `apply_slew_limit`, resets | `ActuatorOutput` |
| simulation runner (`rt/sim.rs`, `rt/sim/`) | seed flag, sensor cache, command ingress | `step` (one pass), world-generation adoption | `SitlRunner` |
| SITL link and fake drivers (`xil/sitl_io*`, `io/fake.rs`) | sensor buffers, command slots, heartbeat fields, injected faults | `feed_sensor_packet`, `handle_command_long`, `handle_set_attitude_target`, `data_ready`, `read` | `SitlRunner` |
| hardware runner (`rt/runner.rs`, `aviate-hal/stm32h7/src/time.rs`, `h743/watchdog.rs`) | 32-bit cycle counter extended to microseconds, next tick, overrun count, last command time, watchdog | `run`, `step`, `now`, `update_link_status`, `feed` | `FlightRunner` |
| gateway and anti-replay (`aviate-security`) | per principal the highest counter and a window, the persisted floor, source policy | `admit`, `check_and_update`, reboot | `CommandGateway` |
| bootloader and firmware update (`aviate-boot-core`, `aviate-chips/stm32h743`, `h743/panic.rs`, `xtask`) | crash and request registers, flash sectors, host progress | boot decision, erase, program, manifest, `xtask` run | `FirmwareUpdate` |
| USB serial transport (`h743/usb_cdc.rs`, `aviate-hal/stm32h7/src/usb_cdc.rs`) | receive ring, reboot confirmation and its poll countdown | poll, command detection, read, confirm, time out | `SerialTransport` |
| shared-memory data plane (`aviate-hal/xil/contract`, `shm/`, the Gazebo plugin) | named block, header and sequence lock, lease, incarnations of both sides | attach, create, adopt, publish, sample, lease beat, crash | `SnapshotRegister`, `XilShm` |
| HIL backend and X-Plane session (`hil/transport_tcp.rs`, `hil/backend.rs`, `xp/board*`) | stream, sensor queue, reset request, identity gate, life cycle and generation, failures | `step`, `arm`, `disarm`, `begin_reset`, `start_session`, `stop_session`, `accept_runtime_handshake` | `XPlaneSession` |
| controllers, mixers, airframes, filter numerics | floats | control laws | not modelled |
| MAVLink codec, telemetry, drivers, boards, config generator, xtask, missions | | I/O, formatting, generated data | not modelled |

### How they interact

The kernel is called, never calls back. One pass of the runner is: adopt a new
world if the simulator restarted, feed the drivers, read them through `BoardHal`
into the cache, take **one** command (a discrete one first), seed the filter
once, step the init machine unless Ready, run `update`, drive the outputs. The
simulator, the ground station and the fault injector write into buffers and
single slots that the next pass drains. The kernel's `update` runs in a fixed
order (refresh sensor faults, observe, airborne latch, in-flight flags, release
of a descent, degradation, mode gate, controller, mixer, sanitizer, limiter) with
early returns for an invalid command enum, for not being armed and for a critical
fault.

The hardware runner calls the kernel on ticks of a clock it derives from a
32-bit cycle counter, catches up after an overrun, and feeds the watchdog from
the same loop. Bytes from USB pass the serial transport, which takes two ASCII
commands out of the stream before the MAVLink parser sees it. In simulation a
sample travels from the plugin to the runner through a shared-memory block that
either side may find already there, stale, half initialised or owned by a
process that has died. The X-Plane board wraps the same runner: it dials the
simulator's bridge, which sends a few samples ahead and waits for an answer to
each, and gives every sample a pass of the runner and an answer. The gateway decides for each packet whether it may reach
the kernel; no runner in the tree calls it yet, so its model stands alone.
Bootloader and application share a crash register, a request register and the
flash; the host tool drives both over USB.

### What is hard here

* **Snapshots.** Flags are refreshed by some operations and trusted by others:
  `arm` trusts the `Ready` of an earlier `init_step`, the trigger reads an
  envelope flag of the previous cycle, the cache never ages a reading.
* **Shared registers.** Sensor faults are rewritten every cycle in the same
  register in which capability losses must stay until a ground reset.
* **Order inside a cycle.** Release, timing branch and trigger run one after the
  other, and what the first decides hides from the others.
* **Memory across flights.** Integrators, the previous command, last good
  vectors, the airborne latch and sample counts each have their own set of resets.
* **Single slots and drained queues** between asynchronous peers.
* **Restarted worlds** while armed, with samples of both worlds in flight.
* **Reads without a lock.** A seqlock reader races a writer that may crash half way
  and be succeeded by another process.
* **Power loss and reboot.** Counters and flash sectors survive in part; the
  replay floor is written less often than the counter it stands for.
* **A wrapping counter and an unbounded clock**, with work that takes longer than
  a period.
* **Commands hidden in a byte stream** that arrives in chunks.
* **Lockstep over a stream.** A bridge that waits for the board and a board that
  waits for the bridge, across resets, reloads and broken writes.
* **Liveness.** An init machine that is restarted by every disarm, termination
  and world reset; a countdown in a call that may be skipped.

`PROJECT.json` lists each of these under `hazards`, at its line.

### What makes each component correct

* Flight phase: an airborne vehicle is never taken for a landed one by a clock
  jump, an unusable estimate or a re-arm; a landing is earned by observations.
* Kernel: degradation gets better in one documented case only; a capability loss
  refuses every later arm; memory never crosses laws; a cycle drives the
  actuators only when state, faults, estimate and command justify it.
* Actuator output: in range and within the slew limit whatever the mixer
  computed; an old vector expires; the limit report is exact.
* Runner: flies only for a present commander; outputs follow the kernel; the
  filter is seeded exactly once per world; it calls the kernel only in ways the
  kernel model allows; the vehicle gets Ready when the operator provides what is
  needed.
* Hardware runner: the clock survives rollover, controlled time follows it,
  events happen once, the age of a setpoint is its true age, a lost link is
  noticed and the watchdog is fed.
* Gateway: a counter of an authority is admitted at most once, across reboots up
  to the window the floor leaves open; a current packet is refused for its clock
  only; the table cannot fill with one authority.
* Firmware update: the bootloader survives every erase but one, and that one is
  known; what was sent is in flash when the device leaves update mode; a request is
  served once; an update that is asked for runs.
* Serial transport: what is delivered was sent, in order; a loss has an
  explanation; a reboot was confirmed; a challenge ends.
* Shared memory: a sample comes from one write of one world; only a living peer
  is trusted and trust is withdrawn when it dies.
* X-Plane session: an authorized flight stays in one world, a generation begins in
  a new one, board and bridge never wait for each other, a reset ends.

## 2. Plan

Order, most important behaviour first (done unless marked):

1. `FlightPhase`, `FlightPhaseHistory` (latch plus an observer's clock), proofs in
   `KernelProofs`.
2. `Kernel` (EXTENDS `FlightPhase`), `KernelProperties`, `WatchedKernel` (the kernel
   and the observer together), proofs.
3. `ActuatorOutput`, proofs.
4. `SitlRunner` (EXTENDS the kernel; its every step is a kernel operation or a
   stutter, property `ImplementsKernel`).
5. `SnapshotRegister` (a register read and written atomically) and `XilShm`, which
   implements it (property `ImplementsRegister`).
6. `FlightRunner`: the hardware loop with its clock, catch-up, link status and
   watchdog.
7. `CommandGateway`: admission with reboots between any two steps.
8. `FirmwareUpdate`: boot decision, flash and host tool with power loss and
   transfer failures.
9. `SerialTransport`: chunks, ring, hidden commands and the reboot challenge.
10. `XPlaneSession`: the lockstep TCP session with resets and reloads.
11. *Planned*: age of each cached reading of the simulation runner (HLR-FLT-202's
    one-second gate); the motor-command half of the shared block; the simulator
    adapter on top of the X-Plane board (`xp/backend.rs`).

Theorems left: none. What the passing runs check as an invariant or an action
property is proved (section 5), except for the liveness properties, which are out of
the prover's reach.

## 3. Modules and their correspondence to the code

`PROJECT.json` maps each definition to its lines. Definitions keep the source's
names. A definition `X_something` whose comment starts with "Fault seed for X" is
a plausible wrong version of X, used only to show that a property notices it.

### FlightPhase, FlightPhaseHistory, WatchedKernel
`phase`, `datum_valid`, `landed_elapsed` are the fields of `FlightPhaseState`.
Heights are relative to the datum, so of the datum only its validity is kept;
time is an integer in half units so that "half the window per sample" is exact.
An estimate that is not usable is an observation of its own, as is a `dt` that is
zero or negative (the code accepts any `Seconds`). `FlightPhaseHistory` puts the
latch under the operations that drive it, with cycles of any length in
`CycleTimes`, and adds what an observer with a clock saw (`Watch`). `WatchedKernel`
puts the same observer beside the kernel: there the estimates are those of the
kernel's own filter, and the operations are the kernel's. It is the specification TLC
runs; the latch's own (`LatchSpec`), with any order of operations and any estimate,
is the one the theorems are about.

### Kernel, KernelProperties
One action per public operation; `update` is `update_enum_invalid`,
`update_disarmed`, `update_critical` and `update_armed`, one per exit. Data kept:
which sensor kinds have a valid Good reading, the estimator's validity bits,
whether the command is within its timeout, its control mode, whether the
protector limited it, and *which laws contributed to the controller memory since
its reset*. `out` records what the last cycle emitted (`control`, safe or
nothing), the mode it flew and whether the cycle's command was fresh. `lost` is history:
the capability losses since the last ground reset.

### ActuatorOutput
Outputs are integers `0 .. Full` on a grid with a `NaN` value outside the
integers, so that range, slew and NaN comparisons behave as in the code (every
comparison with NaN is false). Groups are disjoint, strongly or weakly coupled,
with or without a safe pattern. `streak` is history: consecutive rejected cycles.

### SitlRunner
One pass of `step_clocked` is cut at its kernel calls (`pc`), so that each stage
is one kernel operation. Buffers and slots of the link, the fake drivers with
their injected faults, cache, seed flag, ingress and the heartbeat fields are
variables. Time is counted in passes; `since` is history (passes since a setpoint
of this world was drained).

Left out of the runner: telemetry, provenance and the geodetic and geomagnetic
contexts (they change no state the properties mention); NaN and bias injections
(data only). A fault command repeating the fault a driver already has is left out
too: it would only restart a dropout's countdown.

### SnapshotRegister, XilShm
`SnapshotRegister` says what a reader is promised: each block is a register with
one whole snapshot of the running world or nothing, taken at one instant and
answered only if its world still runs. `XilShm` is the protocol: writers that take
the global lease, draw an incarnation, take its token, unlink a leftover, open,
size, stamp and publish a block, write it under the sequence lock, reset the world
in it, leave it or crash at any step; a flight controller that attaches, re-checks
its writer every `CHECK_EVERY` cycles, reads and re-attaches. One step is one access
to a name, a lock or a lane; memory is sequentially consistent. `shown` and `stale`
are history. The refinement maps the register to `shown`, a read in progress to
the reader's copy and an answer to its last sample.

### CommandGateway
A frame is a principal, a counter, the outcome of its signature and whether it is
addressed to us; the network keeps what an honest sender sent and delivers it in
any order, any number of times. The window keeps a highest counter per principal,
a floor and a high water mark; a reboot keeps what was persisted. The adapter, the
source policy, the window and the gateway that composes them are one action per
outcome. One nondeterministically chosen frame is watched instead of a history of
all admissions.

### FirmwareUpdate
Backup registers, half sectors of flash, the erase that runs behind its request,
the lock of the bank, the DFU buffer and the host's session are variables. A boot
is one action with the order of decisions of `chip_main` and `boot_sequence`.
Erase, download, program and manifestation are actions of their own, with a power
loss or panic between any two. Each image has a size of its own, up to all of the
flash behind the bootloader. dfu-util is external.

### SerialTransport
A byte is one of the classes the code tells apart. `poll` moves a packet into the
ring, `try_recv_command` takes a chunk out of it, first through the DFU dialogue,
then through the frame parser. `lost` records for which of three reasons bytes were
dropped, `waiting` the polls since a challenge was put.

### FlightRunner
True time is in cycles; each piece of code between two clock readings takes a
number of cycles the constants allow. `now_us` is translated with its wrap and its
rounding; the loop's `run`, `poll`, catch-up and sleep are actions, commands
arrive between any two. `heard`, `stepped`, `kicked`, `sent`, `seen` are history.
`WatchdogFed` is judged with the step that is due under way: at a check that will
step, the longest step must still end before the watchdog bites.

### XPlaneSession
A sample is its world, whether it is the first of it and whether it carries the
reset marker; of time stamps only their order is kept, and between two worlds it is
a choice. The bridge (external) sends up to `BURST` samples ahead of their answers,
takes every actuator message for an answer and may take a repeated reset request
for the same reset or for another. `step` is cut at each `poll`; a pass of the
runner is the set of its outcomes for a kernel that is Ready, Armed or neither.
`Sent` is `send_message` with its outcomes: written, refused by a full buffer,
broken, no stream. `via`, `home`, `before`, `answer` and `unheard` are history.

## 4. Runs

| run | question | result |
|---|---|---|
| `kernel_flight` | every order of kernel operations around flights: laws, descents, faults, memory, the arming path, configuration changes; can the airborne latch be lost or earned wrongly | holds |
| `actuator_output` | sanitizer and limiter memory over mixes of good, out-of-range and NaN outputs, early returns, re-arms | holds |
| `sitl_runner` | the runner around the kernel, its peers acting between any two passes; refinement and liveness | holds |
| `xil_shm` | creation, crash, succession and reset against a reader; does the seqlock implement a register | holds |
| `command_gateway` | replays over reboots with each kind of trusted counter | holds |
| `serial_transport` | what chunks, a full ring and the DFU dialogue do to the stream | holds |
| `firmware_update` | requests, power loss and panics around flashing sessions of a small and a large image; what can erase the bootloader; does a session end with the image running | holds |
| `flight_runner` | clock rollover, overruns, catch-up, link loss, watchdog | holds |
| `xplane_session` | resets, reloads and broken writes around a lockstep stream; does a reset end | holds |
| `stale_command_flown` | is a stale command ever flown | violated, see Findings |
| `bootloader_erased` | does the bootloader survive every update | violated |
| `crash_flag_unread` | does a panic lead to update mode | violated |

### Bounds, and why they are enough

* `kernel_flight`: two samples distinguish counting from having seen one;
  `TimingThreshold = 1` makes "not yet" and "reached" both reachable. One supported
  and one unsupported mode, and estimates that are aided, without position or finiteness, or
  without attitude, reach each outcome of the mode gate (a refusal, when a timing
  violation hides the lost attitude). The in-flight set is the default, the
  attitude-flight one; a position loss as a degradation is left to the theorems,
  which hold for every set that contains it. A transition request exercises the
  configuration path. Of the two cycle times one is a fraction of half the debounce
  window (three landed cycles are needed) and one a stall longer than the whole of it,
  of which half a window counts; 7 is odd, so half of it is no multiple of a cycle.
  Heights are on both sides of the hysteresis. The latch's theorems hold for any
  heights, thresholds and cycle times, those that are zero or negative included.
* `actuator_output`: a strong group of two, a strong group without a safe
  pattern, a weak group, with limits 2, 3, none and 1; `MaxAge = 2` and
  `MaxConsecutive = 1` differ, so that the two comparisons (`<` and `>`) are told
  apart.
* `sitl_runner`: a timeout of one pass has ages below, at and past it; one kind
  (the IMU) can be failed, dropped and healed; all discrete commands, both answers of the
  authorizer, world resets at any point between passes.

* `xil_shm`: two writers and two grants, so that a successor meets every leftover of
  its predecessor; three writes, so that a reader sees a torn one, a whole one and
  a newer one; retries and attempts of two reach both the retry and the limit.
* `command_gateway`: an operator with a right clock, a companion without one and a
  second identity under the operator's key; two slots and two bindings fill the
  table; ages and skews of one tick below, at and past each comparison; two boots.
* `serial_transport`: a ring of eight and chunks of five, so that frames of four and
  five bytes are cut at every place and the ring wraps and overflows; frames with a
  `d` and with digits in them; three items from the host.
* `firmware_update`: two banks of three sectors. One image ends in bank one, like the
  one in use; the other has four sectors, so that it reaches the sector of bank two that
  shares its number with the bootloader's and the one that shares it with the image's own
  first. Both bootloader builds, any initial register contents, two failures: one
  inside the session and one inside its repetition.
* `flight_runner`: a counter of 32 values wraps within the horizon of 60 cycles;
  steps that are quick, overrun one period and overrun several, against a limit of
  three; the link timeout lies between. A watchdog of 28 cycles is exactly a period
  of the longest turns (3 times 6) and the longest step (10): with 27 the property fails.

* `xplane_session`: two samples ahead, so that a reset finds one that arrived and one
  on its way; a step of two samples; evidence of one interval (first sample,
  interval, verified); one reset that is acknowledged, repeated requests up to the
  third world, and one mishap: a reload, a closed or broken stream, a refused write,
  an incomplete group, a changed artifact or a failed perturbation, at any point.

Deadlock is checked where the modelled system runs for ever (`kernel_flight`,
`actuator_output`, `sitl_runner`); the other modules bound writes,
boots, requests, items or the horizon, and a behaviour may end at its bound.
Saturated histories (`HeldTimeCap`, `HeldSamplesCap`, `Never`) only forget what no
property asks about.

### Fairness

`XPlaneSession` has `WF` on `Step` (the flight loop calls `step` for ever), `SF` on
`poll_connects` (a listening simulator that is dialled again and again is reached)
and `WF` on the network and on the bridge, which sends whenever it is not waiting for
an answer; reloads, closed streams and failed writes owe nothing.
`RunnerSpec` has `WF` on `Pass`: `run_control_loop` (`rt/sim.rs:442-463`) calls `step`
for as long as the process lives and no stage of a pass blocks. Simulator, ground
station and injector owe nothing; `ReadyWhenNominal` assumes in its premise what it
needs of them. `FirmwareUpdate` has `WF` on `DeviceStep` (boot, watchdog and flash
controller go on while there is power) and on `HostStep` (dfu-util carries a begun
session on; power loss and failure of the session stay possible). The remaining
modules state bounded waits as safety with a counter (`RebootDialogue`,
`TrustIsWithdrawn`, `AgesAreTrue`, `WatchdogFed`) and need no fairness.

## 5. Proofs

All theorems are checked by TLAPS for every value of the constants that meets
the `ASSUME`s, which TLC also evaluates in each run.

* **KernelProofs**, the latch (`FlightPhaseHistory`; assumes: thresholds are
  hysteretic, a positive debounce). `LatchTypeCorrect`; `AirborneDatum` is inductive on
  its own given the type; `DebounceEarned` needs `AirborneDatum` beside it: a set latch
  has a valid datum, so the latch never skips a cycle that the observer counts;
  `LandingObserved` follows for a step from both.
* **KernelProofs**, the kernel (assumes: required sets contain known flags, thresholds are
  positive, inputs are well typed). `update_armed` is long, so `CycleFacts` states
  once what a cycle does to law, cause, faults and memory, and every invariant
  uses that lemma. `CauseConsistent` is inductive given the type.
  `MemoryConsistent` is inductive given the type: each entry to a terminal and
  each release empties the memory before the new law writes it.
  `LossRefusesArm` needs the invariant `LossIsLatched`: every loss in the history
  has its latched bit in the register, which sensor refreshes cannot clear because
  latched and sensor bits are disjoint. `ReleaseOnlyCommandLoss` is an action
  property from the type and the same facts: a release happens only in a cycle whose
  command is within its timeout, whatever that cycle then degrades for. `ReadyStandsOnChecks` is inductive given
  the type: what `Ready` was granted on stays true or is taken back with it.
  `ControlStandsOnEstimate` (`ControlIsJustified`) is proved for in-flight sets that
  contain the attitude set, as the default and the position-flight preset of the
  code do: `TriggerFacts` says what a missing trigger tells of the estimate and the
  command, `ControlCycle` what the mode gate adds.
* **ActuatorOutputProofs** (assumes: groups disjoint, safe patterns in range, NaN
  is no integer). The invariant `IInv` is the type, `RangeInv` (the limiter's
  *reference* is in range on grouped channels: without it the limiter could
  leave the range), `CountInv` (age and count relate to the streak) and
  `ReportInv`. From it `RangeSafe`, `LimitReportExact`, `StaleExpires` and
  `SlewSafe`.
* **KernelProofs**, the latch in the kernel. `KernelRunsLatch`: put the observer with
  his clock beside the kernel (`WatchedSpec`). He constrains nothing, as each step is a
  kernel step with his two counters and the arm bit following it (`WatchedIsKernel`);
  and each step of the kernel is a step of the latch's own specification or leaves the
  latch alone (`LatchStep`), because `arm`, the ends of a flight period, a critical fault
  and a cycle are the only operations that touch it. So what is proved of the latch holds
  of the kernel: a landing is earned by a whole debounce of observations. Its
  hypotheses say only that the latch's sets of heights and times contain the kernel's.
* **KernelProofs**, the kernel under the runner (`SitlRunner`; inputs: `RunnerInputs`, the kernel is
  given whatever Good sets the cache can hold and the default command's mode).
  `KernelStep`: every step of a pass is one step of the kernel's `Next` or a
  stutter, so `RunnerImplementsKernel`, and every kernel theorem holds under the
  runner (`KernelHoldsUnderRunner`). `ModeInv` says that a retained setpoint came
  from the link or is the default. `RunnerAgrees` (`RunnerInv`) needs `WorldInv`:
  driver, link and setpoint belong to the kernel's world whenever no world change
  waits. `CommanderIsPresent` (`FliesOnlyForACommander`) further needs `LossInv` and,
  as its hypothesis `AttitudeChecks` says, the default in-flight set: with a
  position required, a lost position hides the timeout (a finding below).
* **XilShmProofs** (any number of writers, grants and writes). `DataPlaneInv` is the
  type, `WriterInv` and `ReaderInv`. `WriterInv` is about who owns what: the two
  locks (`LeaseInv`), the name (`NameInv`), the stamp of a block (`StampInv`) and, under
  those, that an even sequence number shows whole content (`SeqInv`). The reader owns
  nothing, so all its part needs of a writer's step is collected in `BlockKept`: a
  block's stamp is final, its sequence number only grows, a payload changes only under
  an odd one. `ReaderInv` is what was seen on attaching (`AttachInv`), the copy in
  hand (`CopyInv`), the property itself and who is trusted (`TrustInv`). From it
  `BlocksAreTheirWriters`, `SamplesAreOfOneWorld`, `TheDeadAreLeft`, `CurrentMeansAlive`,
  and `SeqlockIsARegister`: every step maps to a step of `SnapshotRegister` or a
  stutter under the refinement mapping the run uses.
* **CommandGatewayProofs.** `GatewayInv` is the type, `SlotInv` (a counter has a binding, a key slot is
  bound once), `SeedInv` (floor and anchor come from this boot's clock), `WireInv` (an
  honest frame carries an earlier tick) and `StreamInv` (the watched frame is not ahead
  of its stream). From it `WindowCorrect`, `NoReplayInBoot`, `ReplayOverRebootIsRecent`
  and `CurrentIsAdmitted`, the last with the full counter arithmetic (`DivSum`).
* **FirmwareUpdateProofs** (any number of sectors in a bank, any images, each of any size
  that fits behind the bootloader; no theorem has a further hypothesis). The driver
  writes a sector number of either bank into bank one's register (`TargetFacts`), so
  what can be promised of an image is about its *own* sectors, `OwnSectors`: those of
  bank one that share their number with none of its sectors in bank two (`OwnTarget`).
  `SessionInv` relates the host to the device: the stored chunk is the session's next
  (`ChunkInv`); an erase of sector 0 that runs has already cost the bootloader
  (`BootInv`); of the blocks in own sectors, those before the session's next hold the
  image and the erase of their sector is over, and those still to come are erased as soon
  as theirs is (`Progress`). From it `BootloaderLoss` (the bootloader is lost to the
  erase of bank two's first sector and to nothing else), `ManifestedImage` (the own
  sectors hold the image when the device leaves update mode) and, as all sectors of an
  image that ends in bank one are its own, `SmallImageInstalled`. `RequestsSpentOnce`
  needs only the type.
* **FlightRunnerProofs** (any clock rate, counter range, period, catch-up limit and cost
  of the code below one turn of the counter). The provers do not reason about `%`
  and products of variables, so division has its own lemmas. `Base` is the true time
  of the last reading, recovered from the wrapped counter; `Measures` relates a
  reading in microseconds to a true moment and to the readings since, each of which
  may have lost less than a microsecond. `FlightInv` is the type, `ClockInv`,
  `StampsAreMoments` (what the loop remembers as times are readings of the moments
  the histories remember), `ScheduleInv`, the ages and the events. From it
  `LoopCorrect`, `ControlKeepsTime`, `BoardIsToldTheTruth`. `WatchdogIsFed` has a bound: a
  turn that takes no step brings the next one a microsecond nearer, so at most a
  period's number of turns and one step lie between two kicks. Its hypothesis that a
  poll takes a microsecond is needed: `now_us` drops remainders, a loop that is
  faster never sees its clock move, and with `PollCycles = {1}` TLC finds the watchdog
  unfed.
* **XPlaneSessionProofs** (any burst, queue, evidence, number of resets, reloads and
  failures; assumes `QueueAssumption`: a burst and one sample for each reset fit the
  queue, so nothing that arrives is lost). `SessionSafe` is the type and what is true
  of the samples between the bridge and the board, `Flow`. `OrderInv`: they are
  in order, a first sample begins a later world, and a reset mark is on a first sample
  only. `GenerationInv`: once a reset is acknowledged, all of them are of later worlds.
  `ChainInv`: between two neighbours none is missing, and the next one follows the
  last stamp of the gate, so a change of world reaches the gate with its first
  sample. `CountInv`: the bridge waits for fewer answers than samples on their way and
  a burst. `FlightInv`: a flight the board authorized has a gate that stands by its
  evidence. What the steps do to `Flow` is collected once (`QuietFacts` to
  `ResetFacts`). From it `NeitherWaitsForTheOther`, `ArmedInOneWorld` and
  `GenerationsAreNewWorlds`; they stand on what the header of `XPlaneSession` says of
  the bridge, which is not part of this code.

* **SerialTransportProofs** (any ring, packet and chunk size, any frames, commands and
  codes, any number of items). What the two properties say is about sequences of any
  length, so the proof is by induction over the bytes of a chunk (`AccountedByte`,
  `AccountedChunk`), the bytes of a packet and the items sent; the library's induction
  theorems take an operator, so `LeastNatural`, `Induction` and `RecursionExists` derive it
  for sets of naturals from `NatLessThanWellFounded`. `Embeds` is "leave elements out"
  as an increasing map, which composes and splits (`EmbedsTrans`, `EmbedsSplit`), and
  `EmbedsIsSubsequence` shows that the greedy match of the specification finds each one.
  `RingPush` and `RingPop` reduce the ring to the sequence of its bytes. The invariant
  `Accounts` is the type, `Traces`, `Clock` and `Answered`. `Traces` says of the bytes no
  parser has seen that they come in the stream behind three things: the bytes that
  brought the dialogue to where it stands (`Trail`); the checksums of the delivered
  frames (`Mark`, `Order`: bytes dropped from a frame cannot make another one, because a
  checksum's value occurs nowhere else); and, while nothing is lost, all items before
  the one the parser is in (`Explains`). From it `StreamCorrect` and
  `RebootAnswersChallenge`. The assumptions are used where one expects them: unique
  checksums for the splice, `LengthAssumption` for the end of a frame, a counter range above the timeout
  and the polls between two receives for the age of a challenge.

Type correctness of the latch and of the actuator output is proved and no longer
model-checked. Only model-checked: liveness (`ReadyWhenNominal`, the ends of an update and of a
reset), because fairness and `ENABLED` are out of the prover's reach.

## 6. Findings

Each of these is a `violation` run with the quoted statement in `PROJECT.json`.

1. Persistent timing violations hide `CommandTimeout`: a stale command is flown
   under Alternate (`StaleCommandIsNotFlown`).
2. An update with an image that reaches bank two erases the bootloader: the driver
   masks the sector number and writes it to bank one's register
   (`BootloaderIntact`; `aviate-chips/stm32h743/src/update_backend.rs:86` against
   `memory.rs:47-48`, "it can never be accidentally erased during app updates").
   `BootloaderLostToBank2` and its theorem say that this is the only way.
3. The panic handler writes the crash word to another register than the bootloader
   reads, and without its header: the application starts again
   (`CrashEntersUpdate`).

Behaviours of the models that disagree with a statement of the repository, kept
here without a run of their own:

* Blocks of an image that lie in bank two are not programmed, because only bank one is
  unlocked and has PG set (`aviate-chips/stm32h743/src/update_backend.rs:105`), and the
  erase of their sectors takes those of bank one with the same number, though
  `aviate-bootloader/README.md:10` gives the application 1920KB.
* A step of the X-Plane board that found no sample runs the runner with `AllowArm`
  (`rt/sim/step.rs:44`): an Arm that arrives in one bypasses the authorizer, though
  `xp/board/arm_authorization.rs:1` says "direct and inbound X-Plane Arm requests".
  `ArmedAnswersOneWorld` is therefore stated for flights the board authorized.
* A reset whose request cannot be sent leaves the session Resetting with nothing
  pending, and the next sample, of the old world, ends it (`hil/backend.rs:168` says
  "after a reset-marked sample"); the generation does not change.
* A write refused by a full buffer is neither repeated nor ends the stream
  (`hil/transport_tcp.rs:349`, "the next sample supersedes this one anyway"), but a
  lockstep bridge that waits for it sends no next sample.
* A world loaded while the stream is down, with a clock that is already later, is
  not noticed by the identity gate.
* A released command-loss descent restores Primary after an earlier capability loss
  (`core/kernel_update.rs:287`, `docs/AVIATE_SPEC.md:1773`).
* A land requested during a command-loss descent is dropped
  (`core/kernel_logic.rs:271`, `core/kernel_types.rs:293`).
* With the position-flight set a position or velocity loss hides `CommandTimeout` for
  good (`core/checks/in_flight.rs:248-296`).
* After an early return the slew reference is not the previous output
  (`core/kernel_update.rs:421`, `core/kernel/config.rs:77`).
* Of two discrete commands between passes one is neither enacted nor answered
  (`xil/sitl_io/command_link.rs:178`, `rt/sim/step.rs:360`).
* A vehicle that is Ready arms with the throttle up (`rt/sim/step.rs:260`,
  `core/kernel_types.rs:30`).
* A GNSS-denied vehicle never gets Ready (`core/kernel_logic.rs:24,43`,
  `core/checks/pre_arm.rs:58`).
* The plausibility ceiling of the gateway is anchored at the first admission, not at
  boot (`aviate-security/src/gateway.rs:187`; the test at `gateway/tests.rs:269` says
  "an hour of uptime must justify an hour of counter"): a receiver that was idle
  refuses a current frame.
* A `d` inside a MAVLink frame is taken for the DFU word and eaten, and bytes behind
  a command in its chunk are dropped, though `h743/usb_cdc.rs:436` says consuming is
  safe "as MAVLink starts with 0xFD"; the "5 seconds" of `h743/usb_cdc.rs:570` are
  10000 polls of a busy loop; a full ring drops bytes that USB could hold back.
* The clock drops the remainder of each reading (`stm32h7/src/time.rs:187-189`, whose
  module says "cycle-accurate timing"), so it is late by up to a microsecond per turn.
* An overrun is counted when exactly `MAX_CATCH_UP` steps ran, even if they caught up
  (`rt/runner.rs:341-344` against `48-49`), and the resynchronisation may then add a
  tick.
* A link is reported up for the first timeout after boot without any command
  (`rt/runner.rs:63`).
* A simulator that crashes while it initialises its block leaves one that is never
  ready; only the next writer removes it.
* An update that loses power after its first sector boots a torn image, because only
  the head of the image is looked at (`aviate-chips/stm32h743/src/app_backend.rs:49`).
* The same timing branch hides `AttitudeLost`: a mode the gate refused is flown,
  though `core/control/mode_gate.rs:71` says the loss "always wins first".
* `arm` does not look at the estimator's fault latch, which HLR-FLT-202
  (`cert/trace/hlr.toml:825`) names as a gate.
* A freshly seeded filter sets EKF_CONVERGED before IMU_CONVERGED, against INV-004
  (`core/checks/invariants.rs:50`).
* A weakly coupled group in fallback reports Clamped, which clears its count,
  against LLR-MIX-204 (`cert/trace/llr.toml:1763`).
* The heartbeat's status is set by `init_step` alone: an armed vehicle says
  Standby, a faulted one never says Critical (`rt/sim.rs:396-401`).
* An injected dropout of the fake drivers never counts down, because `BoardHal`
  does not call `read` while `data_ready` is false (`io/fake.rs:68`).

Observed while reading, without a run:

* `consecutive_fallback_limit_exceeded` and `ACTUATOR_NUMERIC` have no consumer,
  though `docs/AVIATE_SPEC.md:776,852-858` describes a degradation; the sanitizer
  does not read `FallbackPolicy`.
* Every configuration in the tree has `groups: &[]` and zero slew limits, so the
  fallback and limiter code is not exercised by them.
* A NaN on an ungrouped limited channel stays the limiter's reference until a
  ground reset; a per-channel limiter breaks the coherence of a strong group.
* The simulation runner never calls `report_timing_violation`,
  `request_config_mode`, `handle_degradation` for a land request or
  `reset_from_fault`; nothing calls `set_armed` or `set_system_state` of the hardware
  runner's health record, and the flight board has no GNSS, so it never gets Ready.
* `flash_dfu_util` does not look at the
  exit code of dfu-util (`xtask/src/programmer.rs:216-227`) and prints "Flash
  complete!" after an interrupted transfer; `run_hardware` installs a production
  bootloader that ignores later software requests; a DFU reboot is not refused while
  the vehicle is armed.
* When an inbound Arm finds the condition artifact changed during a flight, the flight
  is terminated, but the armed answer of that sample is still sent
  (`xp/board/packet.rs:71-83`). A bridge that honours repeated reset requests one by
  one makes the clock regress after the acknowledgement, which fails the generation.
* A Disarm before the init sequence ends goes to Disarmed and from there to
  PreArm, skipping the earlier init states.

## 7. Not modelled, and why

Control laws, mixers and filter numerics are floating-point computations: the
models take their outcome as a choice. Codecs, telemetry, drivers and register
access are I/O. Configuration generators, test tooling, missions and the other
simulator backends are outside the flight system. Of the modelled parts: weak memory
orders and the motor-command half and lockstep gate of the shared block; authority
epochs and the cryptography of the gateway (its adapter's verdict is an input);
the UDP and truth-paced HIL sessions, the tuning trace and the wire constraints of the
X-Plane board; the transmit half of the serial transport; the board step of the flight hardware
below what a tick hands to it. Flag bits with no writer outside tests
(RC status, altitude and airspeed flags, `NUMERIC_ERROR`,
`ESTIMATOR_DIVERGED`) are left out of the actions. Timing statistics other than the
consecutive violations have no reader.
