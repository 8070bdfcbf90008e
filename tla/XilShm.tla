------------------------------- MODULE XilShm -------------------------------
(***************************************************************************)
(* The shared-memory data plane between a simulator and the flight         *)
(* controller: simulator processes that create, publish into, reset, tear  *)
(* down and crash out of a named block, the two kernel locks that tell     *)
(* them apart, and the flight controller's loop that attaches, reads, asks *)
(* after its writer and re-attaches.                                       *)
(*                                                                         *)
(* One step of the model is one access to the name, a lock file or a lane  *)
(* of the block; memory is sequentially consistent.                        *)
(***************************************************************************)
EXTENDS Naturals, FiniteSetsExt

CONSTANTS Writers,      \* simulator processes (a restarted one is the same)
          MaxGrants,    \* bound: writer incarnations granted
          MaxWrites,    \* bound: seqlock writes, all blocks together
          CHECK_EVERY,  \* cycles between two checks of the writer
          MAX_ATTEMPTS, \* attempts of connect_with_retry
          SEQLOCK_MAX_RETRIES,
          None          \* absent: no block, no holder, no snapshot

ASSUME ShmConstants ==
  /\ MaxGrants \in Nat \ {0}
  /\ MaxWrites \in Nat
  /\ CHECK_EVERY \in Nat \ {0}
  /\ MAX_ATTEMPTS \in Nat \ {0}
  /\ SEQLOCK_MAX_RETRIES \in Nat \ {0}
  /\ None \notin Nat \cup Writers
ASSUME AbsentAssumption ==
  None \notin [block : Nat, gen : Nat, step : Nat, pose : Nat]

VARIABLES global,   \* holder of the global lease file's lock
          counter,  \* the incarnation counter in the lease file
          token,    \* [incarnation -> holder of its token's lock]
          name,     \* the block the shm name resolves to
          blk,      \* [block -> its memory], alive while anything maps it
          wr,       \* [writer -> its process]
          fc,       \* the flight controller's process
          shown     \* history: [block -> last snapshot published whole]

vars == <<global, counter, token, name, blk, wr, fc, shown>>

Blocks == 1..MaxGrants
Incarnations == 1..MaxGrants

\* A block as ftruncate leaves it: zero-filled.
ZeroBlock == [made |-> FALSE, sized |-> FALSE, magic |-> FALSE, inc |-> 0, ready |-> FALSE,
              gen |-> 0, seq |-> 0, valid |-> FALSE,
              pgen |-> 0, step |-> 0, pose |-> 0]

Exited == [pc |-> "idle", inc |-> 0, blk |-> None, steps |-> 0, ours |-> FALSE]

Started == [pc |-> "open", blk |-> None, inc |-> 0, seen |-> None, sinc |-> 0,
            foreign |-> FALSE, cycles |-> 0, attempts |-> 0, healthy |-> TRUE,
            tries |-> 0, s1 |-> 0, copy |-> None, prev |-> None, sample |-> None,
            stale |-> 0]   \* history: cycles flown on a dead writer's block

Init ==
  /\ global = None
  /\ counter = 0
  /\ token = [i \in Incarnations |-> None]
  /\ name = None
  /\ blk = [b \in Blocks |-> ZeroBlock]
  /\ wr = [w \in Writers |-> Exited]
  /\ fc = Started
  /\ shown = [b \in Blocks |-> None]

-----------------------------------------------------------------------------
(* The writer: WriterLease::acquire and Mapping::create.                   *)

At(w, pc) == wr[w].pc = pc
Go(w, pc) == wr' = [wr EXCEPT ![w].pc = pc]

\* flock_exclusive on the global lease; a held one refuses the creation.
take_lease(w) ==
  /\ At(w, "idle")
  /\ counter < MaxGrants
  /\ global = None
  /\ global' = w
  /\ Go(w, "leased")
  /\ UNCHANGED <<counter, token, name, blk, fc, shown>>

\* Fault seed for advance_counter: the new value is not written back.
advance_counter_unwritten(w) ==
  /\ At(w, "leased")
  /\ counter < MaxGrants
  /\ wr' = [wr EXCEPT ![w].pc = "granted", ![w].inc = counter + 1]
  /\ UNCHANGED <<global, counter, token, name, blk, fc, shown>>

\* The counter is persisted before the value is used anywhere.
advance_counter(w) ==
  /\ At(w, "leased")
  /\ counter < MaxGrants
  /\ counter' = counter + 1
  /\ wr' = [wr EXCEPT ![w].pc = "granted", ![w].inc = counter + 1]
  /\ UNCHANGED <<global, token, name, blk, fc, shown>>

take_token(w) ==
  /\ At(w, "granted")
  /\ token[wr[w].inc] = None
  /\ token' = [token EXCEPT ![wr[w].inc] = w]
  /\ Go(w, "tokened")
  /\ UNCHANGED <<global, counter, name, blk, fc, shown>>

\* With the lease held this can only remove a dead writer's leftover.
unlink_leftover(w) ==
  /\ At(w, "tokened")
  /\ name' = None
  /\ Go(w, "unlinked")
  /\ UNCHANGED <<global, counter, token, blk, fc, shown>>

\* shm_open(O_CREAT) publishes the name before the object has a size.
open_block(w) ==
  /\ At(w, "unlinked")
  /\ \E b \in Blocks :
       /\ \A c \in Blocks : blk[c].made <=> c < b
       /\ name' = b
       /\ blk' = [blk EXCEPT ![b].made = TRUE]
       /\ wr' = [wr EXCEPT ![w].pc = "opened", ![w].blk = b]
  /\ UNCHANGED <<global, counter, token, fc, shown>>

size_block(w) ==
  /\ At(w, "opened")
  /\ blk' = [blk EXCEPT ![wr[w].blk].sized = TRUE]
  /\ Go(w, "sized")
  /\ UNCHANGED <<global, counter, token, name, fc, shown>>

\* ftruncate or mmap fails: the half-made object is unlinked, the lease freed.
create_fails(w) ==
  /\ wr[w].pc \in {"opened", "sized"}
  /\ name' = None
  /\ Go(w, "closing")
  /\ UNCHANGED <<global, counter, token, blk, fc, shown>>

stamp_block(w) ==
  /\ At(w, "sized")
  /\ blk' = [blk EXCEPT ![wr[w].blk].magic = TRUE, ![wr[w].blk].gen = 1]
  /\ Go(w, "stamped")
  /\ UNCHANGED <<global, counter, token, name, fc, shown>>

stamp_incarnation(w) ==
  /\ At(w, "stamped")
  /\ blk' = [blk EXCEPT ![wr[w].blk].inc = wr[w].inc]
  /\ Go(w, "ready")
  /\ UNCHANGED <<global, counter, token, name, fc, shown>>

publish_ready(w) ==
  /\ At(w, "ready")
  /\ blk' = [blk EXCEPT ![wr[w].blk].ready = TRUE]
  /\ Go(w, "live")
  /\ UNCHANGED <<global, counter, token, name, fc, shown>>

-----------------------------------------------------------------------------
(* The writer: publishing under the seqlock, world resets.                 *)

MoreWrites == MapThenSumSet(LAMBDA b : blk[b].seq, Blocks) < 2 * MaxWrites

\* The register's value once a seqlock write of w is complete.
ShownBy(w) ==
  LET b == blk[wr[w].blk]
  IN IF b.valid
     THEN [block |-> wr[w].blk, gen |-> b.pgen, step |-> b.step, pose |-> b.pose]
     ELSE None

\* Fault seed for begin_write: seq is left even while the payload is stored.
begin_write_even(w, from) ==
  /\ At(w, from)
  /\ MoreWrites
  /\ blk' = [blk EXCEPT ![wr[w].blk].seq = @ + 2]
  /\ UNCHANGED <<global, counter, token, name, fc, shown>>

\* seqlock_write: seq goes odd, the payload is stored, seq returns even.
begin_write(w, from) ==
  /\ At(w, from)
  /\ MoreWrites
  /\ blk' = [blk EXCEPT ![wr[w].blk].seq = @ + 1]
  /\ UNCHANGED <<global, counter, token, name, fc, shown>>

begin_publish(w) ==
  /\ begin_write(w, "live")
  /\ wr' = [wr EXCEPT ![w].pc = "gen", ![w].steps = @ + 1]

store_step(w) ==
  /\ At(w, "gen")
  /\ blk' = [blk EXCEPT ![wr[w].blk].pgen = blk[wr[w].blk].gen,
                        ![wr[w].blk].step = wr[w].steps]
  /\ Go(w, "pose")
  /\ UNCHANGED <<global, counter, token, name, fc, shown>>

store_pose(w) ==
  /\ At(w, "pose")
  /\ blk' = [blk EXCEPT ![wr[w].blk].pose = wr[w].steps]
  /\ Go(w, "valid")
  /\ UNCHANGED <<global, counter, token, name, fc, shown>>

store_valid(w) ==
  /\ At(w, "valid")
  /\ blk' = [blk EXCEPT ![wr[w].blk].valid = TRUE]
  /\ Go(w, "even")
  /\ UNCHANGED <<global, counter, token, name, fc, shown>>

end_write(w) ==
  /\ At(w, "even")
  /\ blk' = [blk EXCEPT ![wr[w].blk].seq = @ + 1]
  /\ shown' = [shown EXCEPT ![wr[w].blk] = ShownBy(w)]
  /\ Go(w, "live")
  /\ UNCHANGED <<global, counter, token, name, fc>>

\* bump_reset_generation: the header moves first, then the old snapshot is
\* retired through the seqlock.
bump_generation(w) ==
  /\ At(w, "live")
  /\ MoreWrites
  /\ blk' = [blk EXCEPT ![wr[w].blk].gen = @ + 1]
  /\ Go(w, "bumped")
  /\ UNCHANGED <<global, counter, token, name, fc, shown>>

begin_retire(w) ==
  /\ begin_write(w, "bumped")
  /\ Go(w, "retire")

\* A step without a measured pose is published as invalid, in the same way.
begin_withhold(w) ==
  /\ begin_write(w, "live")
  /\ blk[wr[w].blk].valid
  /\ Go(w, "withhold")

clear_valid(w) ==
  /\ wr[w].pc \in {"retire", "withhold"}
  /\ blk' = [blk EXCEPT ![wr[w].blk].valid = FALSE]
  /\ Go(w, IF At(w, "retire") THEN "retag" ELSE "even")
  /\ UNCHANGED <<global, counter, token, name, fc, shown>>

retag(w) ==
  /\ At(w, "retag")
  /\ blk' = [blk EXCEPT ![wr[w].blk].pgen = blk[wr[w].blk].gen]
  /\ Go(w, "even")
  /\ UNCHANGED <<global, counter, token, name, fc, shown>>

-----------------------------------------------------------------------------
(* The writer: Drop for Mapping, Drop for WriterLease, and a crash.        *)

begin_drop(w) ==
  /\ At(w, "live")
  /\ wr' = [wr EXCEPT ![w].pc = "clearing",
                      ![w].ours = /\ name # None
                                  /\ blk[name].ready => blk[name].inc = wr[w].inc]
  /\ UNCHANGED <<global, counter, token, name, blk, fc, shown>>

clear_ready(w) ==
  /\ At(w, "clearing")
  /\ blk' = [blk EXCEPT ![wr[w].blk].ready = FALSE]
  /\ Go(w, "unlinking")
  /\ UNCHANGED <<global, counter, token, name, fc, shown>>

unlink_own(w) ==
  /\ At(w, "unlinking")
  /\ name' = IF wr[w].ours THEN None ELSE name
  /\ Go(w, "closing")
  /\ UNCHANGED <<global, counter, token, blk, fc, shown>>

close_token(w) ==
  /\ At(w, "closing")
  /\ token' = [token EXCEPT ![wr[w].inc] = None]
  /\ Go(w, "closed")
  /\ UNCHANGED <<global, counter, name, blk, fc, shown>>

close_lease(w) ==
  /\ At(w, "closed")
  /\ global' = None
  /\ wr' = [wr EXCEPT ![w] = Exited]
  /\ UNCHANGED <<counter, token, name, blk, fc, shown>>

\* The kernel releases both locks; name, memory and counter survive.
crash(w) ==
  /\ ~At(w, "idle")
  /\ global' = IF global = w THEN None ELSE global
  /\ token' = [i \in Incarnations |-> IF token[i] = w THEN None ELSE token[i]]
  /\ wr' = [wr EXCEPT ![w] = Exited]
  /\ UNCHANGED <<counter, name, blk, fc, shown>>
-----------------------------------------------------------------------------
(* The flight controller: Mapping::attach under connect_with_retry.        *)

WriterVars == <<global, counter, token, name, blk, wr, shown>>

FcAt(pc) == fc.pc = pc /\ UNCHANGED WriterVars

\* Fault seed for TokenHeld: any live writer answers for every incarnation.
TokenHeld_global(i) == global # None

\* writer_liveness: only the incarnation's own token proves its writer alive.
TokenHeld(i) == i \in Incarnations /\ token[i] # None

NotReady ==
  fc' = [fc EXCEPT !.attempts = @ + 1, !.seen = None, !.sinc = 0,
                   !.pc = IF fc.attempts + 1 < MAX_ATTEMPTS THEN "open" ELSE "exit"]

attach_open ==
  /\ FcAt("open")
  /\ IF name # None /\ blk[name].sized
     THEN fc' = [fc EXCEPT !.seen = name, !.pc = "a_ready"]
     ELSE NotReady

attach_ready ==
  /\ FcAt("a_ready")
  /\ IF blk[fc.seen].ready THEN fc' = [fc EXCEPT !.pc = "a_stamp"] ELSE NotReady

attach_stamp ==
  /\ FcAt("a_stamp")
  /\ fc' = IF blk[fc.seen].magic
           THEN [fc EXCEPT !.sinc = blk[fc.seen].inc, !.pc = "a_again"]
           ELSE [fc EXCEPT !.pc = "mismatch"]

attach_again ==
  /\ FcAt("a_again")
  /\ IF blk[fc.seen].ready THEN fc' = [fc EXCEPT !.pc = "a_probe"] ELSE NotReady

\* Fault seed for Attached: the synthesizer keeps its history of the old block.
Attached_keeps_history ==
  [Started EXCEPT !.pc = "cycle", !.blk = fc.seen, !.inc = fc.sinc,
                  !.prev = fc.prev, !.cycles = fc.cycles]

\* A new attachment: synthesizer and health start afresh.
Attached ==
  [Started EXCEPT !.pc = "cycle", !.blk = fc.seen, !.inc = fc.sinc,
                  !.cycles = fc.cycles]

attach_probe ==
  /\ FcAt("a_probe")
  /\ IF TokenHeld(fc.sinc) THEN fc' = Attached ELSE NotReady

-----------------------------------------------------------------------------
(* The flight controller: the cycle and its check of the writer.           *)

\* The process that made block b is still running.
Alive(b) == \E w \in Writers : wr[w].blk = b

ChecksWriter == fc' = [fc EXCEPT !.sample = None, !.cycles = 0, !.pc = "c_open"]
Reads ==
  fc' = [fc EXCEPT !.sample = None, !.cycles = @ + 1, !.pc = "r_ready",
                   !.stale = IF Alive(fc.blk) THEN @ ELSE @ + 1]

\* Fault seed for cycle: the writer is checked one cycle late.
cycle_late ==
  /\ FcAt("cycle")
  /\ IF ~fc.healthy \/ fc.cycles + 1 > CHECK_EVERY THEN ChecksWriter ELSE Reads

\* One turn of the main loop: the slow check of the writer, or a read.
cycle ==
  /\ FcAt("cycle")
  /\ IF ~fc.healthy \/ fc.cycles + 1 >= CHECK_EVERY THEN ChecksWriter ELSE Reads

Forgot == [fc EXCEPT !.seen = None, !.sinc = 0, !.foreign = FALSE]

Current == fc' = [Forgot EXCEPT !.healthy = TRUE, !.pc = "r_ready"]
Initializing == fc' = [Forgot EXCEPT !.healthy = FALSE, !.pc = "cycle"]
Reattach == fc' = [Forgot EXCEPT !.attempts = 0, !.pc = "open"]

\* writer_state: what the name resolves to now.
check_open ==
  /\ FcAt("c_open")
  /\ \/ name = None /\ Reattach
     \/ name # None /\ ~blk[name].sized /\ Initializing
     \/ name # None /\ blk[name].sized /\ fc' = [fc EXCEPT !.seen = name, !.pc = "c_ready"]

check_ready ==
  /\ FcAt("c_ready")
  /\ IF blk[fc.seen].ready THEN fc' = [fc EXCEPT !.pc = "c_stamp"] ELSE Initializing

check_stamp ==
  /\ FcAt("c_stamp")
  /\ fc' = [fc EXCEPT !.foreign = ~blk[fc.seen].magic, !.sinc = blk[fc.seen].inc,
                      !.pc = "c_again"]

check_again ==
  /\ FcAt("c_again")
  /\ \/ ~blk[fc.seen].ready /\ Initializing
     \/ blk[fc.seen].ready /\ fc.foreign /\ fc' = [fc EXCEPT !.pc = "mismatch"]
     \/ blk[fc.seen].ready /\ ~fc.foreign /\ fc.sinc # fc.inc /\ Reattach
     \/ /\ blk[fc.seen].ready /\ ~fc.foreign /\ fc.sinc = fc.inc
        /\ fc' = [fc EXCEPT !.pc = "c_probe"]

\* confirm_alive: Current stands only while the attached writer lives; dead is
\* Replaced or Gone, and the loop re-attaches for both.
check_probe ==
  /\ FcAt("c_probe")
  /\ IF TokenHeld(fc.inc) THEN Current ELSE Reattach

-----------------------------------------------------------------------------
(* The flight controller: read_model_state and the synthesizer.            *)

NextCycle == fc' = [fc EXCEPT !.copy = None, !.tries = 0, !.s1 = 0, !.pc = "cycle"]

Retry ==
  IF fc.tries + 1 < SEQLOCK_MAX_RETRIES
  THEN fc' = [fc EXCEPT !.tries = @ + 1, !.copy = None, !.s1 = 0, !.pc = "r_seq"]
  ELSE NextCycle

read_ready ==
  /\ FcAt("r_ready")
  /\ IF blk[fc.blk].ready THEN fc' = [fc EXCEPT !.pc = "r_seq"] ELSE NextCycle

read_seq ==
  /\ FcAt("r_seq")
  /\ IF blk[fc.blk].seq % 2 = 0
     THEN fc' = [fc EXCEPT !.s1 = blk[fc.blk].seq, !.pc = "r_copy"]
     ELSE Retry

read_copy ==
  /\ FcAt("r_copy")
  /\ LET b == blk[fc.blk] IN
     fc' = [fc EXCEPT !.pc = "r_pose",
                      !.copy = [block |-> fc.blk, valid |-> b.valid, gen |-> b.pgen,
                                step |-> b.step, pose |-> 0]]

read_pose ==
  /\ FcAt("r_pose")
  /\ fc' = [fc EXCEPT !.pc = "r_again", !.copy.pose = blk[fc.blk].pose]

Snap(c) == [block |-> c.block, gen |-> c.gen, step |-> c.step, pose |-> c.pose]

\* The second read of seq decides; an invalid snapshot is withheld.
read_again ==
  /\ FcAt("r_again")
  /\ \/ blk[fc.blk].seq # fc.s1 /\ Retry
     \/ /\ blk[fc.blk].seq = fc.s1
        /\ IF fc.copy.valid
           THEN fc' = [fc EXCEPT !.copy = Snap(fc.copy), !.pc = "r_epoch"]
           ELSE NextCycle

\* The epoch double-check of read_model_state.
SameWorld == fc.copy.gen = blk[fc.blk].gen

\* StepSynthesizer::next: two states of one epoch, time advancing.
Continues == fc.prev # None /\ fc.prev.gen = fc.copy.gen /\ fc.copy.step >= fc.prev.step

Synthesized ==
  [fc EXCEPT !.copy = None, !.tries = 0, !.s1 = 0, !.pc = "cycle",
             !.prev = IF Continues /\ fc.copy.step = fc.prev.step THEN @ ELSE fc.copy,
             !.sample = IF Continues /\ fc.copy.step > fc.prev.step
                        THEN <<fc.prev, fc.copy>> ELSE None]

read_epoch ==
  /\ FcAt("r_epoch")
  /\ IF SameWorld THEN fc' = Synthesized ELSE NextCycle

-----------------------------------------------------------------------------

WriterStep(w) ==
  \/ take_lease(w) \/ advance_counter(w) \/ take_token(w) \/ unlink_leftover(w)
  \/ open_block(w) \/ size_block(w) \/ create_fails(w) \/ stamp_block(w)
  \/ stamp_incarnation(w) \/ publish_ready(w)
  \/ begin_publish(w) \/ store_step(w) \/ store_pose(w) \/ store_valid(w) \/ end_write(w)
  \/ bump_generation(w) \/ begin_retire(w) \/ begin_withhold(w) \/ clear_valid(w) \/ retag(w)
  \/ begin_drop(w) \/ clear_ready(w) \/ unlink_own(w) \/ close_token(w) \/ close_lease(w)
  \/ crash(w)

FcStep ==
  \/ attach_open \/ attach_ready \/ attach_stamp \/ attach_again \/ attach_probe
  \/ cycle \/ check_open \/ check_ready \/ check_stamp \/ check_again \/ check_probe
  \/ read_ready \/ read_seq \/ read_copy \/ read_pose \/ read_again \/ read_epoch

Next == FcStep \/ \E w \in Writers : WriterStep(w)

Spec == Init /\ [][Next]_vars
-----------------------------------------------------------------------------
(* Properties                                                              *)

WriterPcs == {"idle", "leased", "granted", "tokened", "unlinked", "opened", "sized",
              "stamped", "ready", "live", "gen", "pose", "valid", "even", "bumped",
              "retire", "withhold", "retag", "clearing", "unlinking", "closing", "closed"}

FcPcs == {"open", "a_ready", "a_stamp", "a_again", "a_probe", "cycle", "c_open",
          "c_ready", "c_stamp", "c_again", "c_probe", "r_ready", "r_seq", "r_copy",
          "r_pose", "r_again", "r_epoch", "exit", "mismatch"}

\* The writer's block carries data: readiness is up and it is not leaving.
Serving(w) == wr[w].pc \in {"live", "gen", "pose", "valid", "even", "bumped", "retire",
                            "withhold", "retag"}

BlockStates == [made : BOOLEAN, sized : BOOLEAN, magic : BOOLEAN, inc : 0..MaxGrants,
                ready : BOOLEAN, gen : Nat, seq : Nat, valid : BOOLEAN,
                pgen : Nat, step : Nat, pose : Nat]

Processes == [pc : WriterPcs, inc : 0..MaxGrants, blk : Blocks \cup {None},
              steps : Nat, ours : BOOLEAN]

Snapshots == [block : Blocks, gen : Nat, step : Nat, pose : Nat]
Copies == [block : Blocks, valid : BOOLEAN, gen : Nat, step : Nat, pose : Nat]

Controllers == [pc : FcPcs, blk : Blocks \cup {None}, inc : 0..MaxGrants,
                seen : Blocks \cup {None}, sinc : 0..MaxGrants, foreign : BOOLEAN,
                cycles : Nat, attempts : Nat, healthy : BOOLEAN, tries : Nat, s1 : Nat,
                copy : Copies \cup Snapshots \cup {None}, prev : Snapshots \cup {None},
                sample : (Snapshots \X Snapshots) \cup {None}, stale : Nat]

\* Type correctness of locks, names, processes and memory.
TypeOK ==
  /\ global \in Writers \cup {None}
  /\ counter \in 0..MaxGrants
  /\ token \in [Incarnations -> Writers \cup {None}]
  /\ name \in Blocks \cup {None}
  /\ blk \in [Blocks -> BlockStates]
  /\ wr \in [Writers -> Processes]
  /\ fc \in Controllers
  /\ shown \in [Blocks -> Snapshots \cup {None}]

\* A serving writer's block is what the name resolves to: no other writer's
\* creation, late clean-up or failed start unlinks it (mapping.rs, Drop).
ServingBlockIsNamed == \A w \in Writers : Serving(w) => name = wr[w].blk

\* Two blocks never carry the same incarnation, whatever crashed between the
\* grant and the stamp (lease.rs: "two writers can never share one").
IncarnationNamesOneBlock ==
  \A b, c \in Blocks : blk[b].inc = blk[c].inc /\ blk[b].inc # 0 => b = c

\* The windows of a conforming writer's start and exit are never taken for a
\* foreign layout, which nobody retries (attach.rs, inspect).
NeverForeign == fc.pc # "mismatch"

\* What attach relies on about blocks and names, in every state.
BlockInv == TypeOK /\ ServingBlockIsNamed /\ IncarnationNamesOneBlock /\ NeverForeign

\* A sensor sample is synthesized from two states of one world of one block,
\* and each of them is one whole publication (synthesis.rs, seqlock.rs).
SampleWithinOneWorld ==
  fc.sample # None =>
    LET p == fc.sample[1]
        n == fc.sample[2]
    IN /\ p.block = n.block /\ p.gen = n.gen /\ p.step < n.step
       /\ p.pose = p.step /\ n.pose = n.step

\* Attaching, and the verdict Current, are given only while the process that
\* made the attached block runs: a corpse is never revived by its successor's
\* locks (lease.rs, writer_liveness; attach.rs, confirm_alive).
OnlyTheLivingAreTrusted ==
  [][/\ fc.pc = "a_probe" /\ fc'.pc = "cycle" => Alive(fc.seen)
     /\ fc.pc = "c_probe" /\ fc'.pc = "r_ready" => Alive(fc.blk)]_vars

\* After its writer died the flight controller reads that block for less than
\* one checking period: then it pauses, attaches elsewhere or gives up, and it
\* never comes back to the dead block (sitl-gazebo-x500 main.rs, the loop).
TrustIsWithdrawn == fc.stale < CHECK_EVERY

\* What a read in progress has taken, once the second read of seq agreed.
TakenSnapshot == IF fc.pc = "r_epoch" THEN fc.copy ELSE None

Register == INSTANCE SnapshotRegister WITH
              NoSnapshot <- None,
              epoch <- [b \in Blocks |-> blk[b].gen],
              shown <- shown,
              taken <- TakenSnapshot,
              answer <- fc.prev

\* The seqlock with the generation double-check is a register of whole
\* snapshots: a read answers with what the block showed at one instant, if its
\* world still runs (seqlock.rs, mapping.rs: read_model_state).
ImplementsRegister == Register!Spec
=============================================================================
