----------------------------- MODULE XilShmProofs -----------------------------
(***************************************************************************)
(* The shared-memory data plane, for any number of simulator processes,    *)
(* grants and writes.  The two locks make every block the work of one      *)
(* process (LeaseInv, NameInv, StampInv); under that the seqlock is a      *)
(* register (SeqInv, CopyInv), and a stamp on a block is good for telling  *)
(* whether its maker lives (TrustInv).                                     *)
(*                                                                         *)
(* The flight controller only reads: what its part of the invariant needs  *)
(* of a writer's step is collected in BlockKept.                           *)
(***************************************************************************)
EXTENDS XilShm, TLAPS

(* Where a writer is: before it has a block, before its block is stamped,  *)
(* between the odd and the even count, before its name may be gone.        *)
BeforeOpen == {"idle", "leased", "granted", "tokened", "unlinked"}
Unstamped == {"granted", "tokened", "unlinked", "opened", "sized", "stamped"}
Resting == {"opened", "sized", "stamped", "ready", "live", "bumped"}
Writing == {"gen", "pose", "valid", "even", "retire", "withhold", "retag"}
Tokened == WriterPcs \ {"idle", "leased", "granted", "closed"}
Named == WriterPcs \ (BeforeOpen \cup {"closing", "closed"})

(* Both locks are held exactly by the process that got them, and the       *)
(* counter has not moved since its grant.                                  *)
LeaseInv ==
    \A w \in Writers :
        /\ wr[w].pc = "idle" => wr[w] = Exited
        /\ wr[w].pc # "idle" <=> global = w
        /\ wr[w].pc \notin {"idle", "leased"} => wr[w].inc = counter /\ counter # 0
        /\ \A i \in Incarnations : token[i] = w <=> wr[w].pc \in Tokened /\ i = wr[w].inc

(* A block is its maker's, and while the maker needs it the name is its.   *)
NameInv ==
    /\ \A w \in Writers :
          /\ wr[w].pc \in BeforeOpen => wr[w].blk = None
          /\ wr[w].pc \notin BeforeOpen => wr[w].blk \in Blocks /\ blk[wr[w].blk].made
          /\ wr[w].pc \in Named => name = wr[w].blk
    /\ name # None => blk[name].made

(* The stamp of a block is final, and readiness comes after it.            *)
Stamped(b) ==
    /\ blk[b].inc <= counter
    /\ ~blk[b].made => blk[b] = ZeroBlock /\ shown[b] = None
    /\ blk[b].ready => blk[b].magic /\ blk[b].inc # 0

(* Only the lease holder's block can carry the current count.              *)
Stamping(w) ==
    /\ wr[w].pc \in Unstamped => \A b \in Blocks : blk[b].inc # counter
    /\ wr[w].pc \notin BeforeOpen => \A b \in Blocks : blk[b].inc = counter => b = wr[w].blk
    /\ wr[w].pc \in {"opened", "sized"} => blk[wr[w].blk].gen = 0
    /\ wr[w].pc \in {"opened", "sized", "stamped"} => blk[wr[w].blk].inc = 0
    /\ wr[w].pc \in {"stamped", "ready"} => blk[wr[w].blk].magic
    /\ wr[w].pc = "ready" => blk[wr[w].blk].inc = counter
    /\ wr[w].pc \in {"stamped", "ready", "live", "bumped"} \cup Writing => blk[wr[w].blk].gen > 0

StampInv ==
    /\ IncarnationNamesOneBlock
    /\ \A b \in Blocks : Stamped(b)
    /\ \A w \in Writers : Stamping(w)

(* What the register of a block holds while no write is in progress.       *)
Content(b) ==
    IF blk[b].valid
      THEN [block |-> b, gen |-> blk[b].pgen, step |-> blk[b].step, pose |-> blk[b].pose]
      ELSE None

Odd(b) == blk[b].seq % 2 = 1

(* Under an even count the payload is what is shown.                       *)
Showing(b) ==
    ~Odd(b) => /\ shown[b] = Content(b)
               /\ blk[b].valid => blk[b].pose = blk[b].step

(* The count is odd while its writer stores the payload, in this order.    *)
Storing(w) ==
    LET b == blk[wr[w].blk] IN
    /\ wr[w].pc \in Resting => ~Odd(wr[w].blk)
    /\ wr[w].pc \in Writing => Odd(wr[w].blk)
    /\ wr[w].pc \in {"pose", "valid"} => b.pgen = b.gen /\ b.step = wr[w].steps
    /\ wr[w].pc = "valid" => b.pose = b.step
    /\ wr[w].pc = "retag" => ~b.valid
    /\ wr[w].pc = "even" /\ b.valid => b.pgen = b.gen /\ b.pose = b.step

SeqInv == (\A b \in Blocks : Showing(b)) /\ (\A w \in Writers : Storing(w))

WriterInv == LeaseInv /\ NameInv /\ StampInv /\ SeqInv

(* Where the flight controller is.                                         *)
Inspecting == {"a_stamp", "a_again", "a_probe", "c_stamp", "c_again", "c_probe"}
Reading == {"r_ready", "r_seq", "r_copy", "r_pose", "r_again", "r_epoch"}
Attached_pcs == {"cycle", "c_open", "c_ready", "c_stamp", "c_again", "c_probe"} \cup Reading

(* A block that is looked at, or attached, has been made, and carries the  *)
(* stamp it was attached under.                                            *)
AttachInv ==
    /\ fc.pc \in Inspecting \cup {"a_ready", "c_ready"} => fc.seen \in Blocks /\ blk[fc.seen].made
    /\ fc.pc \in Inspecting => blk[fc.seen].magic /\ blk[fc.seen].inc # 0
    /\ fc.pc \in {"a_again", "a_probe"} => fc.sinc = blk[fc.seen].inc
    /\ fc.foreign = FALSE /\ fc.pc # "mismatch"
    /\ fc.pc \in Attached_pcs => fc.blk \in Blocks
    /\ fc.blk # None => blk[fc.blk].made /\ blk[fc.blk].inc = fc.inc /\ fc.inc # 0

(* A copy whose count has not moved is the register's content.             *)
CopyInv ==
    LET b == blk[fc.blk] c == fc.copy IN
    /\ fc.pc \in {"r_copy", "r_pose", "r_again"} => fc.s1 <= b.seq /\ fc.s1 % 2 = 0
    /\ fc.pc \in {"r_pose", "r_again"} => c \in Copies /\ c.block = fc.blk
    /\ fc.pc \in {"r_pose", "r_again"} /\ fc.s1 = b.seq =>
          c.valid = b.valid /\ c.gen = b.pgen /\ c.step = b.step
    /\ fc.pc = "r_again" /\ fc.s1 = b.seq => c.pose = b.pose
    /\ fc.pc = "r_epoch" => c \in Snapshots /\ c.block = fc.blk /\ c.pose = c.step
    /\ fc.prev # None => fc.prev \in Snapshots /\ fc.prev.block = fc.blk /\ fc.prev.pose = fc.prev.step

(* A healthy verdict lasts for one checking period, and only the dead make *)
(* cycles stale.                                                           *)
TrustInv ==
    /\ fc.stale < CHECK_EVERY
    /\ fc.stale > 0 => fc.blk \in Blocks /\ ~Alive(fc.blk)
    /\ fc.healthy /\ fc.pc \in {"cycle"} \cup Reading => fc.stale <= fc.cycles

ReaderInv == AttachInv /\ CopyInv /\ SampleWithinOneWorld /\ TrustInv

-----------------------------------------------------------------------------
(* Edits: what a step of writer w leaves of its process and of a block.    *)

(* Process w goes on to pc with its grant and its block.                   *)
Works(w, pc) ==
    /\ wr' \in [Writers -> Processes]
    /\ wr'[w].pc = pc /\ wr'[w].inc = wr[w].inc /\ wr'[w].blk = wr[w].blk
    /\ \A v \in Writers \ {w} : wr'[v] = wr[v]

(* Only block x is written; it stays the block its maker stamped.          *)
OnlyBlock(x) ==
    /\ blk' \in [Blocks -> BlockStates]
    /\ \A b \in Blocks \ {x} : blk'[b] = blk[b]

StampKept(x) == blk'[x].made = blk[x].made /\ blk'[x].magic = blk[x].magic /\ blk'[x].inc = blk[x].inc
HeadKept(x) == StampKept(x) /\ blk'[x].ready = blk[x].ready /\ blk'[x].gen = blk[x].gen
PayloadKept(x) == /\ blk'[x].valid = blk[x].valid /\ blk'[x].pgen = blk[x].pgen
                  /\ blk'[x].step = blk[x].step /\ blk'[x].pose = blk[x].pose

(* A process that only moves on keeps its other fields.                    *)
LEMMA GoWorks ==
  ASSUME TypeOK, NEW w \in Writers, NEW pc \in WriterPcs, Go(w, pc)
  PROVE  Works(w, pc) /\ wr'[w].steps = wr[w].steps
  BY DEF TypeOK, Go, Works, Processes

(* The grant, the block, and the two edits of a serving process.           *)
LEMMA GoGranted ==
  ASSUME TypeOK, NEW w \in Writers, NEW pc \in WriterPcs, NEW i \in 0..MaxGrants,
         wr' = [wr EXCEPT ![w].pc = pc, ![w].inc = i]
  PROVE  /\ wr' \in [Writers -> Processes]
         /\ wr'[w].pc = pc /\ wr'[w].inc = i /\ wr'[w].blk = wr[w].blk
         /\ \A v \in Writers \ {w} : wr'[v] = wr[v]
  BY DEF TypeOK, Processes

LEMMA GoOpened ==
  ASSUME TypeOK, NEW w \in Writers, NEW pc \in WriterPcs, NEW x \in Blocks,
         wr' = [wr EXCEPT ![w].pc = pc, ![w].blk = x]
  PROVE  /\ wr' \in [Writers -> Processes]
         /\ wr'[w].pc = pc /\ wr'[w].inc = wr[w].inc /\ wr'[w].blk = x
         /\ \A v \in Writers \ {w} : wr'[v] = wr[v]
  BY DEF TypeOK, Processes

LEMMA GoPublishes ==
  ASSUME TypeOK, NEW w \in Writers, NEW pc \in WriterPcs,
         wr' = [wr EXCEPT ![w].pc = pc, ![w].steps = @ + 1]
  PROVE  Works(w, pc)
  BY DEF TypeOK, Processes, Works

LEMMA GoDrops ==
  ASSUME TypeOK, NEW w \in Writers, NEW pc \in WriterPcs, NEW o \in BOOLEAN,
         wr' = [wr EXCEPT ![w].pc = pc, ![w].ours = o]
  PROVE  Works(w, pc)
  BY DEF TypeOK, Processes, Works

(* A block opened for the first time.                                      *)
LEMMA EditMade ==
  ASSUME TypeOK, NEW x \in Blocks, blk' = [blk EXCEPT ![x].made = TRUE]
  PROVE  /\ OnlyBlock(x) /\ PayloadKept(x) /\ blk'[x].seq = blk[x].seq
         /\ blk'[x].made /\ blk'[x].magic = blk[x].magic /\ blk'[x].inc = blk[x].inc
         /\ blk'[x].ready = blk[x].ready /\ blk'[x].gen = blk[x].gen
  BY DEF TypeOK, BlockStates, OnlyBlock, PayloadKept

LEMMA EditSized ==
  ASSUME TypeOK, NEW x \in Blocks, blk' = [blk EXCEPT ![x].sized = TRUE]
  PROVE  OnlyBlock(x) /\ HeadKept(x) /\ PayloadKept(x) /\ blk'[x].seq = blk[x].seq
  BY DEF TypeOK, BlockStates, OnlyBlock, StampKept, HeadKept, PayloadKept

(* The header of a new block: its layout mark, then its incarnation.       *)
LEMMA EditMagic ==
  ASSUME TypeOK, NEW x \in Blocks, blk' = [blk EXCEPT ![x].magic = TRUE, ![x].gen = 1]
  PROVE  /\ OnlyBlock(x) /\ PayloadKept(x) /\ blk'[x].seq = blk[x].seq
         /\ blk'[x].made = blk[x].made /\ blk'[x].magic /\ blk'[x].inc = blk[x].inc
         /\ blk'[x].ready = blk[x].ready /\ blk'[x].gen = 1
  BY DEF TypeOK, BlockStates, OnlyBlock, PayloadKept

LEMMA EditInc ==
  ASSUME TypeOK, NEW x \in Blocks, NEW i \in 0..MaxGrants, blk' = [blk EXCEPT ![x].inc = i]
  PROVE  /\ OnlyBlock(x) /\ PayloadKept(x) /\ blk'[x].seq = blk[x].seq
         /\ blk'[x].made = blk[x].made /\ blk'[x].magic = blk[x].magic /\ blk'[x].inc = i
         /\ blk'[x].ready = blk[x].ready /\ blk'[x].gen = blk[x].gen
  BY DEF TypeOK, BlockStates, OnlyBlock, PayloadKept

LEMMA EditReady ==
  ASSUME TypeOK, NEW x \in Blocks, NEW r \in BOOLEAN, blk' = [blk EXCEPT ![x].ready = r]
  PROVE  /\ OnlyBlock(x) /\ PayloadKept(x) /\ blk'[x].seq = blk[x].seq
         /\ StampKept(x) /\ blk'[x].ready = r /\ blk'[x].gen = blk[x].gen
  BY Zenon DEF TypeOK, BlockStates, OnlyBlock, StampKept, PayloadKept

(* The generation and the count move by one.                               *)
LEMMA EditGen ==
  ASSUME TypeOK, NEW x \in Blocks, blk' = [blk EXCEPT ![x].gen = @ + 1]
  PROVE  /\ OnlyBlock(x) /\ PayloadKept(x) /\ blk'[x].seq = blk[x].seq
         /\ StampKept(x) /\ blk'[x].ready = blk[x].ready /\ blk'[x].gen = blk[x].gen + 1
  BY DEF TypeOK, BlockStates, OnlyBlock, StampKept, PayloadKept

LEMMA EditSeq ==
  ASSUME TypeOK, NEW x \in Blocks, blk' = [blk EXCEPT ![x].seq = @ + 1]
  PROVE  OnlyBlock(x) /\ PayloadKept(x) /\ HeadKept(x) /\ blk'[x].seq = blk[x].seq + 1
  BY DEF TypeOK, BlockStates, OnlyBlock, StampKept, HeadKept, PayloadKept

(* The parts of the payload.                                               *)
LEMMA EditStep ==
  ASSUME TypeOK, NEW x \in Blocks, NEW g \in Nat, NEW n \in Nat,
         blk' = [blk EXCEPT ![x].pgen = g, ![x].step = n]
  PROVE  /\ OnlyBlock(x) /\ HeadKept(x) /\ blk'[x].seq = blk[x].seq
         /\ blk'[x].pgen = g /\ blk'[x].step = n
  BY DEF TypeOK, BlockStates, OnlyBlock, StampKept, HeadKept

LEMMA EditPose ==
  ASSUME TypeOK, NEW x \in Blocks, NEW n \in Nat, blk' = [blk EXCEPT ![x].pose = n]
  PROVE  /\ OnlyBlock(x) /\ HeadKept(x) /\ blk'[x].seq = blk[x].seq
         /\ blk'[x].valid = blk[x].valid /\ blk'[x].pgen = blk[x].pgen
         /\ blk'[x].step = blk[x].step /\ blk'[x].pose = n
  BY DEF TypeOK, BlockStates, OnlyBlock, StampKept, HeadKept

LEMMA EditValid ==
  ASSUME TypeOK, NEW x \in Blocks, NEW v \in BOOLEAN, blk' = [blk EXCEPT ![x].valid = v]
  PROVE  /\ OnlyBlock(x) /\ HeadKept(x) /\ blk'[x].seq = blk[x].seq
         /\ blk'[x].valid = v /\ blk'[x].pgen = blk[x].pgen
         /\ blk'[x].step = blk[x].step /\ blk'[x].pose = blk[x].pose
  BY Zenon DEF TypeOK, BlockStates, OnlyBlock, StampKept, HeadKept

LEMMA EditTag ==
  ASSUME TypeOK, NEW x \in Blocks, NEW g \in Nat, blk' = [blk EXCEPT ![x].pgen = g]
  PROVE  /\ OnlyBlock(x) /\ HeadKept(x) /\ blk'[x].seq = blk[x].seq
         /\ blk'[x].valid = blk[x].valid /\ blk'[x].pgen = g
         /\ blk'[x].step = blk[x].step /\ blk'[x].pose = blk[x].pose
  BY DEF TypeOK, BlockStates, OnlyBlock, StampKept, HeadKept

LEMMA InitType == Init => TypeOK
  BY ShmConstants DEF Init, TypeOK, ZeroBlock, Exited, Started, BlockStates, Processes, Controllers,
     WriterPcs, FcPcs, Blocks, Incarnations

-----------------------------------------------------------------------------
(* The writers keep their invariant, one action after the other.           *)

(* What a reader may rely on while a writer takes a step: a block is never *)
(* unmade or stamped again, its count only grows, a payload under an even  *)
(* count that stays is not touched, and a dead maker does not come back.   *)
BlockKept(b) ==
    /\ blk[b].made => blk'[b].made
    /\ blk[b].magic => blk'[b].magic
    /\ blk[b].inc # 0 => blk'[b].inc = blk[b].inc
    /\ blk[b].seq <= blk'[b].seq
    /\ blk'[b].seq = blk[b].seq /\ ~Odd(b) => PayloadKept(b)
    /\ blk[b].made /\ ~Alive(b) => ~Alive(b)'

WriterKeeps == TypeOK' /\ WriterInv' /\ \A b \in Blocks : BlockKept(b)

(* The types the leaves below do arithmetic on.                            *)
LEMMA Typed ==
  ASSUME TypeOK
  PROVE  /\ \A w \in Writers : wr[w].pc \in WriterPcs /\ wr[w].inc \in 0..MaxGrants /\ wr[w].steps \in Nat
         /\ \A b \in Blocks : /\ blk[b].inc \in 0..MaxGrants /\ blk[b].gen \in Nat /\ blk[b].seq \in Nat
                              /\ blk[b].pgen \in Nat /\ blk[b].step \in Nat /\ blk[b].pose \in Nat
         /\ counter \in Nat /\ MaxGrants \in Nat /\ None \notin Nat /\ None \notin Writers
  BY ShmConstants DEF TypeOK, BlockStates, Processes

(* While one process is on its way, every other one is idle.               *)
LEMMA OthersIdle ==
  ASSUME LeaseInv, NEW w \in Writers, wr[w].pc # "idle"
  PROVE  \A v \in Writers \ {w} : wr[v].pc = "idle"
  BY DEF LeaseInv

(* Between taking its token and giving it back a process leaves the locks  *)
(* alone.                                                                  *)
LEMMA LeaseKept ==
  ASSUME LeaseInv, NEW w \in Writers, NEW pc \in Tokened, wr[w].pc \in Tokened,
         Works(w, pc), UNCHANGED <<global, counter, token>>
  PROVE  LeaseInv'
  BY DEF LeaseInv, Works, Tokened

LEMMA NameKept ==
  ASSUME NameInv, NEW w \in Writers, NEW pc \in WriterPcs \ BeforeOpen,
         wr[w].pc \notin BeforeOpen, pc \in Named => wr[w].pc \in Named,
         Works(w, pc), name' = name, \A b \in Blocks : blk'[b].made = blk[b].made,
         name \in Blocks \cup {None}
  PROVE  NameInv'
  BY DEF NameInv, Works

(* What the blocks say is a matter of the one process on its way.          *)
LEMMA IdleNeedsNothing ==
  ASSUME NEW v \in Writers, wr[v].pc = "idle", wr'[v] = wr[v],
         wr[v].blk = None
  PROVE  Stamping(v)' /\ Storing(v)'
  BY DEF Stamping, Storing, BeforeOpen, Unstamped, Writing, Resting

LEMMA BlocksUntouched ==
  ASSUME NameInv, StampInv, SeqInv, UNCHANGED <<blk, shown>>,
         \A b \in Blocks : blk[b].inc \in Nat, counter \in Nat, counter' \in {counter, counter + 1},
         NEW w \in Writers, \A v \in Writers \ {w} : wr[v].pc = "idle" /\ wr'[v] = wr[v],
         Stamping(w)', Storing(w)'
  PROVE  StampInv' /\ SeqInv'
<1>1. \A v \in Writers \ {w} : Stamping(v)' /\ Storing(v)'
  BY IdleNeedsNothing DEF NameInv, BeforeOpen
<1>2. IncarnationNamesOneBlock' /\ \A b \in Blocks : Stamped(b)'
  BY DEF StampInv, IncarnationNamesOneBlock, Stamped
<1>3. \A b \in Blocks : Showing(b)'
  BY DEF SeqInv, Showing, Odd, Content
<1> QED
  BY <1>1, <1>2, <1>3 DEF StampInv, SeqInv

LEMMA OneBlockWritten ==
  ASSUME NameInv, StampInv, SeqInv, counter' = counter, NEW x \in Blocks,
         \A b \in Blocks \ {x} : blk'[b] = blk[b] /\ shown'[b] = shown[b],
         NEW w \in Writers, \A v \in Writers \ {w} : wr[v].pc = "idle" /\ wr'[v] = wr[v],
         IncarnationNamesOneBlock', Stamped(x)', Stamping(w)', Showing(x)', Storing(w)'
  PROVE  StampInv' /\ SeqInv'
<1>1. \A v \in Writers \ {w} : Stamping(v)' /\ Storing(v)'
  BY IdleNeedsNothing DEF NameInv, BeforeOpen
<1>2. \A b \in Blocks \ {x} : Stamped(b)'
  BY DEF StampInv, Stamped
<1>3. \A b \in Blocks \ {x} : Showing(b)'
  BY DEF SeqInv, Showing, Odd, Content
<1> QED
  BY <1>1, <1>2, <1>3 DEF StampInv, SeqInv

LEMMA EditKeeps ==
  ASSUME NameInv, StampInv, SeqInv, UNCHANGED <<counter, shown>>, NEW x \in Blocks, OnlyBlock(x),
         NEW w \in Writers, NEW pc, Works(w, pc), \A v \in Writers \ {w} : wr[v].pc = "idle",
         IncarnationNamesOneBlock', Stamped(x)', Stamping(w)', Showing(x)', Storing(w)'
  PROVE  StampInv' /\ SeqInv'
  BY OneBlockWritten DEF OnlyBlock, Works

(* What the invariant says of one process and one block.                   *)
LEMMA WriterParts ==
  ASSUME WriterInv, NEW w \in Writers, NEW x \in Blocks
  PROVE  Stamping(w) /\ Storing(w) /\ Stamped(x) /\ Showing(x)
  BY DEF WriterInv, StampInv, SeqInv

(* The stamp of one block changes to a count no other block carries.       *)
LEMMA StampsDiffer ==
  ASSUME StampInv, NEW x \in Blocks, \A b \in Blocks \ {x} : blk'[b] = blk[b],
         \/ blk'[x].inc = blk[x].inc
         \/ \A b \in Blocks : blk[b].inc # blk'[x].inc
  PROVE  IncarnationNamesOneBlock'
  BY DEF StampInv, IncarnationNamesOneBlock

(* An edit that keeps the stamp and readiness keeps every block stamped.   *)
LEMMA StampStands ==
  ASSUME StampInv, counter' = counter, NEW x \in Blocks, OnlyBlock(x), StampKept(x),
         blk'[x].ready = blk[x].ready, blk[x].made
  PROVE  IncarnationNamesOneBlock' /\ Stamped(x)'
<1>1. \A b \in Blocks : blk'[b].inc = blk[b].inc
  BY DEF OnlyBlock, StampKept
<1> QED
  BY <1>1 DEF StampInv, IncarnationNamesOneBlock, Stamped, StampKept

LEMMA TakeLease ==
  ASSUME TypeOK, WriterInv, NEW w \in Writers, take_lease(w)
  PROVE  WriterKeeps
<1>1. /\ wr[w].pc = "idle" /\ global = None /\ global' = w
      /\ UNCHANGED <<counter, token, name, blk, fc, shown>>
  BY DEF take_lease, At
<1>2. Works(w, "leased")
  BY GoWorks DEF take_lease, WriterPcs
<1>3. \A v \in Writers : wr[v].pc = "idle"
  BY <1>1, Typed DEF WriterInv, LeaseInv
<1>4. TypeOK'
  BY <1>1, <1>2 DEF TypeOK, Works
<1>5. LeaseInv'
  BY <1>1, <1>2, <1>3 DEF WriterInv, LeaseInv, Works, Tokened
<1>6. NameInv'
  BY <1>1, <1>2, <1>3 DEF WriterInv, NameInv, Works, BeforeOpen, Named
<1>7. StampInv' /\ SeqInv'
  <2>1. Stamping(w)' /\ Storing(w)'
    BY <1>1, <1>2, <1>3
    DEF WriterInv, StampInv, SeqInv, Stamping, Storing, Works, BeforeOpen, Unstamped, Writing, Resting
  <2> QED
    BY <2>1, <1>1, <1>2, <1>3, Typed, BlocksUntouched DEF WriterInv, Works
<1>8. \A b \in Blocks : BlockKept(b)
  BY <1>1, <1>2, Typed DEF BlockKept, Works, Alive, PayloadKept
<1> QED
  BY <1>4, <1>5, <1>6, <1>7, <1>8 DEF WriterKeeps, WriterInv

LEMMA AdvanceCounter ==
  ASSUME TypeOK, WriterInv, NEW w \in Writers, advance_counter(w)
  PROVE  WriterKeeps
<1>1. /\ wr[w].pc = "leased" /\ counter' = counter + 1 /\ counter < MaxGrants
      /\ UNCHANGED <<global, token, name, blk, fc, shown>>
  BY DEF advance_counter, At
<1>2. /\ wr' \in [Writers -> Processes]
      /\ wr'[w].pc = "granted" /\ wr'[w].inc = counter + 1 /\ wr'[w].blk = wr[w].blk
      /\ \A v \in Writers \ {w} : wr'[v] = wr[v]
  <2>1. counter + 1 \in 0..MaxGrants /\ "granted" \in WriterPcs
    BY <1>1, Typed DEF WriterPcs
  <2> QED
    BY <2>1, GoGranted DEF advance_counter
<1>3. \A v \in Writers \ {w} : wr[v].pc = "idle"
  BY <1>1, OthersIdle DEF WriterInv
<1>4. TypeOK'
  BY <1>1, <1>2, ShmConstants DEF TypeOK
<1>5. LeaseInv'
  BY <1>1, <1>2, <1>3, Typed DEF WriterInv, LeaseInv, Tokened
<1>6. NameInv'
  BY <1>1, <1>2, <1>3 DEF WriterInv, NameInv, BeforeOpen, Named
<1>7. StampInv' /\ SeqInv'
  <2>1. counter' \in Nat /\ \A b \in Blocks : blk[b].inc <= counter /\ blk[b].inc \in Nat
    BY <1>1, Typed DEF WriterInv, StampInv, Stamped
  <2>2. \A b \in Blocks : blk'[b].inc # counter'
    BY <2>1, <1>1, Typed
  <2>3. Stamping(w)' /\ Storing(w)'
    BY <1>2, <2>2 DEF Stamping, Storing, BeforeOpen, Unstamped, Writing, Resting
  <2> QED
    BY <2>3, <1>1, <1>2, <1>3, Typed, BlocksUntouched DEF WriterInv
<1>8. \A b \in Blocks : BlockKept(b)
  BY <1>1, <1>2, Typed DEF BlockKept, Alive, PayloadKept
<1> QED
  BY <1>4, <1>5, <1>6, <1>7, <1>8 DEF WriterKeeps, WriterInv

LEMMA TakeToken ==
  ASSUME TypeOK, WriterInv, NEW w \in Writers, take_token(w)
  PROVE  WriterKeeps
<1>1. /\ wr[w].pc = "granted" /\ token' = [token EXCEPT ![wr[w].inc] = w]
      /\ UNCHANGED <<global, counter, name, blk, fc, shown>>
  BY DEF take_token, At
<1>2. Works(w, "tokened")
  BY GoWorks DEF take_token, WriterPcs
<1>3. \A v \in Writers \ {w} : wr[v].pc = "idle"
  BY <1>1, OthersIdle DEF WriterInv
<1>4. TypeOK'
  BY <1>1, <1>2 DEF TypeOK, Works
<1>5. wr[w].inc \in Incarnations
  BY <1>1, Typed DEF WriterInv, LeaseInv, Incarnations
<1>6. LeaseInv'
  BY <1>1, <1>2, <1>3, <1>5 DEF TypeOK, WriterInv, LeaseInv, Works, Tokened, WriterPcs
<1>7. NameInv'
  BY <1>1, <1>2, <1>3 DEF WriterInv, NameInv, Works, BeforeOpen, Named
<1>8. StampInv' /\ SeqInv'
  <2>1. Stamping(w)' /\ Storing(w)'
    BY <1>1, <1>2, <1>3
    DEF WriterInv, StampInv, SeqInv, Stamping, Storing, Works, BeforeOpen, Unstamped, Writing, Resting
  <2> QED
    BY <2>1, <1>1, <1>2, <1>3, Typed, BlocksUntouched DEF WriterInv, Works
<1>9. \A b \in Blocks : BlockKept(b)
  BY <1>1, <1>2, Typed DEF BlockKept, Works, Alive, PayloadKept
<1> QED
  BY <1>4, <1>6, <1>7, <1>8, <1>9 DEF WriterKeeps, WriterInv

LEMMA UnlinkLeftover ==
  ASSUME TypeOK, WriterInv, NEW w \in Writers, unlink_leftover(w)
  PROVE  WriterKeeps
<1>1. /\ wr[w].pc = "tokened" /\ name' = None
      /\ UNCHANGED <<global, counter, token, blk, fc, shown>>
  BY DEF unlink_leftover, At
<1>2. Works(w, "unlinked")
  BY GoWorks DEF unlink_leftover, WriterPcs
<1>3. \A v \in Writers \ {w} : wr[v].pc = "idle"
  BY <1>1, OthersIdle DEF WriterInv
<1>4. TypeOK'
  BY <1>1, <1>2 DEF TypeOK, Works
<1>5. LeaseInv'
  BY <1>1, <1>2, LeaseKept DEF WriterInv, Tokened, WriterPcs
<1>6. NameInv'
  BY <1>1, <1>2, <1>3 DEF WriterInv, NameInv, Works, BeforeOpen, Named
<1>7. StampInv' /\ SeqInv'
  <2>1. Stamping(w)' /\ Storing(w)'
    BY <1>1, <1>2, <1>3
    DEF WriterInv, StampInv, SeqInv, Stamping, Storing, Works, BeforeOpen, Unstamped, Writing, Resting
  <2> QED
    BY <2>1, <1>1, <1>2, <1>3, Typed, BlocksUntouched DEF WriterInv, Works
<1>8. \A b \in Blocks : BlockKept(b)
  BY <1>1, <1>2, Typed DEF BlockKept, Works, Alive, PayloadKept
<1> QED
  BY <1>4, <1>5, <1>6, <1>7, <1>8 DEF WriterKeeps, WriterInv

(* A new name is given to a block nobody has seen.                         *)
LEMMA OpenBlock ==
  ASSUME TypeOK, WriterInv, NEW w \in Writers, open_block(w)
  PROVE  WriterKeeps
<1>1. PICK x \in Blocks : /\ \A c \in Blocks : blk[c].made <=> c < x
                          /\ name' = x
                          /\ blk' = [blk EXCEPT ![x].made = TRUE]
                          /\ wr' = [wr EXCEPT ![w].pc = "opened", ![w].blk = x]
  BY DEF open_block
<1>2. wr[w].pc = "unlinked" /\ UNCHANGED <<global, counter, token, fc, shown>>
  BY DEF open_block, At
<1>3. /\ wr' \in [Writers -> Processes]
      /\ wr'[w].pc = "opened" /\ wr'[w].inc = wr[w].inc /\ wr'[w].blk = x
      /\ \A v \in Writers \ {w} : wr'[v] = wr[v]
  BY <1>1, GoOpened DEF WriterPcs
<1>4. /\ OnlyBlock(x) /\ PayloadKept(x) /\ blk'[x].seq = blk[x].seq
      /\ blk'[x].made /\ blk'[x].magic = blk[x].magic /\ blk'[x].inc = blk[x].inc
      /\ blk'[x].ready = blk[x].ready /\ blk'[x].gen = blk[x].gen
  BY <1>1, EditMade
<1>5. \A v \in Writers \ {w} : wr[v].pc = "idle" /\ wr[v].blk = None
  BY <1>2, OthersIdle DEF WriterInv, NameInv, BeforeOpen
<1>6. ~blk[x].made /\ blk[x] = ZeroBlock /\ shown[x] = None
  <2>1. ~(x < x)
    BY <1>1 DEF Blocks
  <2> QED
    BY <2>1, <1>1 DEF WriterInv, StampInv, Stamped
<1>7. blk[x].inc = 0 /\ blk[x].gen = 0 /\ blk[x].seq = 0 /\ blk[x].valid = FALSE /\ blk[x].ready = FALSE
  BY <1>6 DEF ZeroBlock
<1>8. TypeOK'
  BY <1>1, <1>2, <1>3, <1>4 DEF TypeOK, OnlyBlock
<1>9. LeaseInv'
  BY <1>2, <1>3, <1>5 DEF WriterInv, LeaseInv, Tokened, WriterPcs
<1>10. NameInv'
  BY <1>1, <1>2, <1>3, <1>4, <1>5 DEF WriterInv, NameInv, BeforeOpen, Named, OnlyBlock
<1>11. IncarnationNamesOneBlock' /\ Stamped(x)'
  <2>1. \A b \in Blocks : blk'[b].inc = blk[b].inc
    BY <1>4 DEF OnlyBlock
  <2>2. IncarnationNamesOneBlock'
    BY <2>1 DEF WriterInv, StampInv, IncarnationNamesOneBlock
  <2> QED
    BY <2>2, <1>2, <1>4, <1>7, Typed DEF Stamped
<1>12. Stamping(w)' /\ Showing(x)' /\ Storing(w)'
  <2>1. counter # 0 /\ \A b \in Blocks : blk'[b].inc # counter
    BY <1>2, <1>4 DEF OnlyBlock, WriterInv, LeaseInv, StampInv, Stamping, Unstamped
  <2>2. Stamping(w)'
    BY <2>1, <1>2, <1>3, <1>4, <1>7 DEF Stamping, BeforeOpen, Unstamped, Writing
  <2>3. ~blk'[x].valid /\ ~Odd(x)'
    BY <1>4, <1>7 DEF Odd, PayloadKept
  <2>4. Showing(x)'
    BY <2>3, <1>2, <1>6 DEF Showing, Content
  <2> QED
    BY <2>2, <2>3, <2>4, <1>3 DEF Storing, Writing
<1>13. StampInv' /\ SeqInv'
  BY <1>2, <1>3, <1>4, <1>5, <1>11, <1>12, OneBlockWritten DEF WriterInv, OnlyBlock
<1>14. \A b \in Blocks : BlockKept(b)
  <2>1. \A b \in Blocks : blk[b].made /\ ~Alive(b) => ~Alive(b)'
    BY <1>3, <1>6 DEF Alive
  <2> QED
    BY <2>1, <1>4, Typed DEF BlockKept, OnlyBlock, PayloadKept
<1> QED
  BY <1>8, <1>9, <1>10, <1>13, <1>14 DEF WriterKeeps, WriterInv

(* The block of a process that has one, and the idle rest.                 *)
LEMMA OwnBlock ==
  ASSUME WriterInv, NEW w \in Writers, wr[w].pc \notin BeforeOpen
  PROVE  /\ wr[w].blk \in Blocks /\ blk[wr[w].blk].made /\ wr[w].pc # "idle"
         /\ wr[w].inc = counter /\ counter # 0
         /\ \A v \in Writers \ {w} : wr[v].pc = "idle"
  <1>1. wr[w].pc \notin {"idle", "leased"}
    BY DEF BeforeOpen
  <1> QED
    BY <1>1, OthersIdle DEF WriterInv, NameInv, LeaseInv

(* A step that writes no payload and no count leaves the register alone.   *)
LEMMA ShowingStands ==
  ASSUME SeqInv, NEW x \in Blocks, PayloadKept(x), blk'[x].seq = blk[x].seq, shown' = shown
  PROVE  Showing(x)' /\ (Odd(x)' <=> Odd(x))
<1>1. Odd(x)' <=> Odd(x)
  BY DEF Odd
<1>2. Content(x)' = Content(x)
  BY DEF Content, PayloadKept
<1> QED
  BY <1>1, <1>2 DEF SeqInv, Showing, PayloadKept

LEMMA SizeBlock ==
  ASSUME TypeOK, WriterInv, NEW w \in Writers, size_block(w)
  PROVE  WriterKeeps
<1>1. /\ wr[w].pc = "opened"
      /\ UNCHANGED <<global, counter, token, name, fc, shown>>
  BY DEF size_block, At
<1>2. Works(w, "sized")
  BY GoWorks DEF size_block, WriterPcs
<1>3. PICK x \in Blocks : /\ x = wr[w].blk /\ blk[x].made
                          /\ \A v \in Writers \ {w} : wr[v].pc = "idle"
  BY <1>1, OwnBlock DEF BeforeOpen
<1>4. OnlyBlock(x) /\ HeadKept(x) /\ PayloadKept(x) /\ blk'[x].seq = blk[x].seq
  BY <1>3, EditSized DEF size_block
<1>5. TypeOK'
  BY <1>1, <1>2, <1>4 DEF TypeOK, Works, OnlyBlock
<1>6. LeaseInv'
  BY <1>1, <1>2, LeaseKept DEF WriterInv, Tokened, WriterPcs
<1>7. \A b \in Blocks : HeadKept(b) /\ PayloadKept(b) /\ blk'[b].seq = blk[b].seq /\ (b # x => blk'[b] = blk[b])
  BY <1>4 DEF OnlyBlock, HeadKept, StampKept, PayloadKept
<1>8. NameInv'
  BY <1>1, <1>2, <1>7, NameKept DEF WriterInv, WriterPcs, BeforeOpen, Named, TypeOK, HeadKept, StampKept
<1>9. IncarnationNamesOneBlock' /\ Stamped(x)'
  <2>1. StampKept(x) /\ blk'[x].ready = blk[x].ready
    BY <1>4 DEF HeadKept
  <2> QED
    BY <2>1, <1>1, <1>3, <1>4, StampStands DEF WriterInv
<1>10. Stamping(w)'
  BY <1>1, <1>2, <1>3, <1>4 DEF WriterInv, StampInv, Stamping, Works, OnlyBlock, HeadKept, StampKept,
     BeforeOpen, Unstamped, Writing
<1>11. Showing(x)' /\ Storing(w)'
  BY <1>1, <1>2, <1>3, <1>4, ShowingStands DEF WriterInv, SeqInv, Storing, Works, Resting, Writing
<1>12. StampInv' /\ SeqInv'
  BY <1>1, <1>2, <1>3, <1>4, <1>9, <1>10, <1>11, EditKeeps DEF WriterInv
<1>13. \A b \in Blocks : BlockKept(b)
  BY <1>2, <1>7, Typed DEF BlockKept, HeadKept, StampKept, Works, Alive
<1> QED
  BY <1>5, <1>6, <1>8, <1>12, <1>13 DEF WriterKeeps, WriterInv

LEMMA CreateFails ==
  ASSUME TypeOK, WriterInv, NEW w \in Writers, create_fails(w)
  PROVE  WriterKeeps
<1>1. /\ wr[w].pc \in {"opened", "sized"} /\ name' = None
      /\ UNCHANGED <<global, counter, token, blk, fc, shown>>
  BY DEF create_fails
<1>2. Works(w, "closing")
  BY GoWorks DEF create_fails, WriterPcs
<1>3. \A v \in Writers \ {w} : wr[v].pc = "idle"
  BY <1>1, OwnBlock DEF BeforeOpen
<1>4. TypeOK'
  BY <1>1, <1>2 DEF TypeOK, Works
<1>5. LeaseInv'
  BY <1>1, <1>2, LeaseKept DEF WriterInv, Tokened, WriterPcs
<1>6. NameInv'
  BY <1>1, <1>2, <1>3 DEF WriterInv, NameInv, Works, BeforeOpen, Named
<1>7. StampInv' /\ SeqInv'
  <2>1. Stamping(w)' /\ Storing(w)'
    BY <1>1, <1>2, <1>3
    DEF WriterInv, StampInv, SeqInv, Stamping, Storing, Works, BeforeOpen, Unstamped, Writing, Resting
  <2> QED
    BY <2>1, <1>1, <1>2, <1>3, Typed, BlocksUntouched DEF WriterInv, Works
<1>8. \A b \in Blocks : BlockKept(b)
  BY <1>1, <1>2, Typed DEF BlockKept, Works, Alive, PayloadKept
<1> QED
  BY <1>4, <1>5, <1>6, <1>7, <1>8 DEF WriterKeeps, WriterInv

LEMMA StampBlock ==
  ASSUME TypeOK, WriterInv, NEW w \in Writers, stamp_block(w)
  PROVE  WriterKeeps
<1>1. /\ wr[w].pc = "sized"
      /\ UNCHANGED <<global, counter, token, name, fc, shown>>
  BY DEF stamp_block, At
<1>2. Works(w, "stamped")
  BY GoWorks DEF stamp_block, WriterPcs
<1>3. PICK x \in Blocks : /\ x = wr[w].blk /\ blk[x].made
                          /\ \A v \in Writers \ {w} : wr[v].pc = "idle"
  BY <1>1, OwnBlock DEF BeforeOpen
<1>4. /\ OnlyBlock(x) /\ PayloadKept(x) /\ blk'[x].seq = blk[x].seq
      /\ blk'[x].made = blk[x].made /\ blk'[x].magic /\ blk'[x].inc = blk[x].inc
      /\ blk'[x].ready = blk[x].ready /\ blk'[x].gen = 1
  BY <1>3, EditMagic DEF stamp_block
<1>5. TypeOK'
  BY <1>1, <1>2, <1>4 DEF TypeOK, Works, OnlyBlock
<1>6. LeaseInv'
  BY <1>1, <1>2, LeaseKept DEF WriterInv, Tokened, WriterPcs
<1>7. \A b \in Blocks : /\ blk'[b].made = blk[b].made /\ blk'[b].inc = blk[b].inc
                        /\ blk'[b].ready = blk[b].ready /\ (blk[b].magic => blk'[b].magic)
                        /\ PayloadKept(b) /\ blk'[b].seq = blk[b].seq /\ (b # x => blk'[b] = blk[b])
  BY <1>4 DEF OnlyBlock, PayloadKept
<1>8. NameInv'
  BY <1>1, <1>2, <1>7, NameKept DEF WriterInv, WriterPcs, BeforeOpen, Named, TypeOK
<1>9. IncarnationNamesOneBlock' /\ Stamped(x)'
  <2>1. IncarnationNamesOneBlock'
    BY <1>3, <1>4, StampsDiffer DEF WriterInv, OnlyBlock
  <2>2. Stamped(x)
    BY <1>3, WriterParts
  <2> QED
    BY <2>1, <2>2, <1>1, <1>3, <1>4 DEF Stamped
<1>10. Stamping(w)'
  BY <1>1, <1>2, <1>3, <1>4, <1>7 DEF WriterInv, StampInv, Stamping, Works,
     BeforeOpen, Unstamped, Writing
<1>11. Showing(x)' /\ Storing(w)'
  BY <1>1, <1>2, <1>3, <1>4, ShowingStands DEF WriterInv, SeqInv, Storing, Works, Resting, Writing
<1>12. StampInv' /\ SeqInv'
  BY <1>1, <1>2, <1>3, <1>4, <1>9, <1>10, <1>11, EditKeeps DEF WriterInv
<1>13. \A b \in Blocks : BlockKept(b)
  BY <1>2, <1>7, Typed DEF BlockKept, Works, Alive
<1> QED
  BY <1>5, <1>6, <1>8, <1>12, <1>13 DEF WriterKeeps, WriterInv

(* The stamp is the count of the grant, which no other block carries.      *)
LEMMA StampIncarnation ==
  ASSUME TypeOK, WriterInv, NEW w \in Writers, stamp_incarnation(w)
  PROVE  WriterKeeps
<1>1. /\ wr[w].pc = "stamped"
      /\ UNCHANGED <<global, counter, token, name, fc, shown>>
  BY DEF stamp_incarnation, At
<1>2. Works(w, "ready")
  BY GoWorks DEF stamp_incarnation, WriterPcs
<1>3. PICK x \in Blocks : /\ x = wr[w].blk /\ blk[x].made
                          /\ \A v \in Writers \ {w} : wr[v].pc = "idle"
                          /\ wr[w].inc = counter /\ counter # 0
  BY <1>1, OwnBlock DEF BeforeOpen
<1>4. /\ OnlyBlock(x) /\ PayloadKept(x) /\ blk'[x].seq = blk[x].seq
      /\ blk'[x].made = blk[x].made /\ blk'[x].magic = blk[x].magic /\ blk'[x].inc = counter
      /\ blk'[x].ready = blk[x].ready /\ blk'[x].gen = blk[x].gen
  BY <1>3, Typed, EditInc DEF stamp_incarnation
<1>5. /\ blk[x].inc = 0 /\ \A b \in Blocks : blk[b].inc # counter
  <2>1. Stamping(w)
    BY <1>3, WriterParts
  <2> QED
    BY <2>1, <1>1, <1>3 DEF Stamping, Unstamped
<1>6. TypeOK'
  BY <1>1, <1>2, <1>4 DEF TypeOK, Works, OnlyBlock
<1>7. LeaseInv'
  BY <1>1, <1>2, LeaseKept DEF WriterInv, Tokened, WriterPcs
<1>8. \A b \in Blocks : /\ blk'[b].made = blk[b].made /\ blk'[b].gen = blk[b].gen
                        /\ blk'[b].ready = blk[b].ready /\ blk'[b].magic = blk[b].magic
                        /\ PayloadKept(b) /\ blk'[b].seq = blk[b].seq /\ (b # x => blk'[b] = blk[b])
  BY <1>4 DEF OnlyBlock, PayloadKept
<1>9. NameInv'
  BY <1>1, <1>2, <1>8, NameKept DEF WriterInv, WriterPcs, BeforeOpen, Named, TypeOK
<1>10. IncarnationNamesOneBlock' /\ Stamped(x)'
  <2>1. IncarnationNamesOneBlock'
    BY <1>3, <1>4, <1>5, StampsDiffer DEF WriterInv, OnlyBlock
  <2>2. Stamped(x) /\ Stamping(w)
    BY <1>3, WriterParts
  <2>3. blk[x].magic
    BY <2>2, <1>1, <1>3 DEF Stamping
  <2> QED
    BY <2>1, <2>2, <2>3, <1>1, <1>3, <1>4, Typed DEF Stamped
<1>11. Stamping(w)'
  BY <1>1, <1>2, <1>3, <1>4, <1>5, <1>8 DEF WriterInv, StampInv, Stamping, Works,
     BeforeOpen, Unstamped, Writing
<1>12. Showing(x)' /\ Storing(w)'
  BY <1>1, <1>2, <1>3, <1>4, ShowingStands DEF WriterInv, SeqInv, Storing, Works, Resting, Writing
<1>13. StampInv' /\ SeqInv'
  BY <1>1, <1>2, <1>3, <1>4, <1>10, <1>11, <1>12, EditKeeps DEF WriterInv
<1>14. \A b \in Blocks : BlockKept(b)
  BY <1>2, <1>3, <1>5, <1>8, Typed DEF BlockKept, Works, Alive
<1> QED
  BY <1>6, <1>7, <1>9, <1>13, <1>14 DEF WriterKeeps, WriterInv

LEMMA PublishReady ==
  ASSUME TypeOK, WriterInv, NEW w \in Writers, publish_ready(w)
  PROVE  WriterKeeps
<1>1. /\ wr[w].pc = "ready"
      /\ UNCHANGED <<global, counter, token, name, fc, shown>>
  BY DEF publish_ready, At
<1>2. Works(w, "live")
  BY GoWorks DEF publish_ready, WriterPcs
<1>3. PICK x \in Blocks : /\ x = wr[w].blk /\ blk[x].made
                          /\ \A v \in Writers \ {w} : wr[v].pc = "idle"
                          /\ counter # 0
  BY <1>1, OwnBlock DEF BeforeOpen
<1>4. /\ OnlyBlock(x) /\ PayloadKept(x) /\ blk'[x].seq = blk[x].seq
      /\ StampKept(x) /\ blk'[x].ready = TRUE /\ blk'[x].gen = blk[x].gen
  BY <1>3, EditReady DEF publish_ready
<1>5. blk[x].magic /\ blk[x].inc = counter
  <2>1. Stamping(w)
    BY <1>3, WriterParts
  <2> QED
    BY <2>1, <1>1, <1>3 DEF Stamping
<1>6. TypeOK'
  BY <1>1, <1>2, <1>4 DEF TypeOK, Works, OnlyBlock
<1>7. LeaseInv'
  BY <1>1, <1>2, LeaseKept DEF WriterInv, Tokened, WriterPcs
<1>8. \A b \in Blocks : /\ StampKept(b) /\ blk'[b].gen = blk[b].gen
                        /\ PayloadKept(b) /\ blk'[b].seq = blk[b].seq /\ (b # x => blk'[b] = blk[b])
  BY <1>4 DEF OnlyBlock, PayloadKept, StampKept
<1>9. NameInv'
  BY <1>1, <1>2, <1>8, NameKept DEF WriterInv, WriterPcs, BeforeOpen, Named, TypeOK, StampKept
<1>10. IncarnationNamesOneBlock' /\ Stamped(x)'
  <2>1. IncarnationNamesOneBlock'
    BY <1>3, <1>4, StampsDiffer DEF WriterInv, OnlyBlock, StampKept
  <2>2. Stamped(x)
    BY <1>3, WriterParts
  <2> QED
    BY <2>1, <2>2, <1>1, <1>3, <1>4, <1>5 DEF Stamped, StampKept
<1>11. Stamping(w)'
  BY <1>1, <1>2, <1>3, <1>4, <1>5, <1>8 DEF WriterInv, StampInv, Stamping, Works, StampKept,
     BeforeOpen, Unstamped, Writing
<1>12. Showing(x)' /\ Storing(w)'
  BY <1>1, <1>2, <1>3, <1>4, ShowingStands DEF WriterInv, SeqInv, Storing, Works, Resting, Writing
<1>13. StampInv' /\ SeqInv'
  BY <1>1, <1>2, <1>3, <1>4, <1>10, <1>11, <1>12, EditKeeps DEF WriterInv
<1>14. \A b \in Blocks : BlockKept(b)
  BY <1>2, <1>8, Typed DEF BlockKept, StampKept, Works, Alive
<1> QED
  BY <1>6, <1>7, <1>9, <1>13, <1>14 DEF WriterKeeps, WriterInv

(* A step of a serving process writes the payload, the count or the        *)
(* generation of its own block; what is left to show of each is what the   *)
(* register holds and where the process is.                                *)
Publishing == {"live", "bumped"} \cup Writing

LEMMA PayloadStep ==
  ASSUME TypeOK, WriterInv, NEW w \in Writers, NEW x \in Blocks, x = wr[w].blk,
         wr[w].pc \in Publishing, NEW pc \in Publishing, Works(w, pc),
         OnlyBlock(x), StampKept(x), blk'[x].ready = blk[x].ready,
         blk'[x].gen \in {blk[x].gen, blk[x].gen + 1},
         blk'[x].seq \in {blk[x].seq, blk[x].seq + 1},
         blk'[x].seq = blk[x].seq /\ ~Odd(x) => PayloadKept(x),
         UNCHANGED <<global, counter, token, name, fc>>,
         shown' \in [Blocks -> Snapshots \cup {None}],
         \A b \in Blocks \ {x} : shown'[b] = shown[b],
         Showing(x)', Storing(w)'
  PROVE  WriterKeeps
<1>1. wr[w].pc \notin BeforeOpen /\ pc \notin BeforeOpen /\ pc \in WriterPcs \cap Named \cap Tokened
      /\ wr[w].pc \in Named \cap Tokened
  BY DEF Publishing, Writing, BeforeOpen, WriterPcs, Named, Tokened
<1>2. blk[x].made /\ \A v \in Writers \ {w} : wr[v].pc = "idle"
  BY <1>1, OwnBlock
<1>3. TypeOK'
  BY DEF TypeOK, Works, OnlyBlock
<1>4. LeaseInv'
  BY <1>1, LeaseKept DEF WriterInv
<1>5. \A b \in Blocks : StampKept(b)
  BY DEF OnlyBlock, StampKept
<1>6. NameInv'
  <2>1. \A b \in Blocks : blk'[b].made = blk[b].made
    BY <1>5 DEF StampKept
  <2> QED
    BY <2>1, <1>1, NameKept DEF WriterInv, TypeOK
<1>7. IncarnationNamesOneBlock' /\ Stamped(x)'
  BY <1>2, StampStands DEF WriterInv
<1>8. Stamping(w)'
  <2>1. Stamping(w) /\ blk[x].gen \in Nat
    BY WriterParts, Typed
  <2>2. blk'[x].gen > 0
    BY <2>1 DEF Stamping, Publishing
  <2>3. \A b \in Blocks : blk'[b].inc = counter' => b = x
    BY <2>1, <1>1, <1>5 DEF Stamping, StampKept
  <2> QED
    BY <2>2, <2>3, <1>1 DEF Stamping, Works, Publishing, Writing, Unstamped
<1>9. StampInv' /\ SeqInv'
  BY <1>2, <1>7, <1>8, OneBlockWritten DEF WriterInv, OnlyBlock, Works
<1>10. \A b \in Blocks : BlockKept(b)
  <2>1. \A b \in Blocks : blk[b].seq <= blk'[b].seq
    BY Typed DEF OnlyBlock
  <2>2. \A b \in Blocks : blk'[b].seq = blk[b].seq /\ ~Odd(b) => PayloadKept(b)
    BY DEF OnlyBlock, PayloadKept
  <2>3. \A b \in Blocks : ~Alive(b) => ~Alive(b)'
    BY DEF Alive, Works
  <2> QED
    BY <2>1, <2>2, <2>3, <1>5 DEF BlockKept, StampKept
<1> QED
  BY <1>3, <1>4, <1>6, <1>9, <1>10 DEF WriterKeeps, WriterInv

(* The count changes its parity with every step.                           *)
LEMMA Parity ==
  ASSUME NEW x \in Blocks, blk[x].seq \in Nat, blk'[x].seq = blk[x].seq + 1
  PROVE  Odd(x)' <=> ~Odd(x)
<1> DEFINE n == blk[x].seq
<1>1. n \in Nat
  OBVIOUS
<1> HIDE DEF n
<1>2. (n + 1) % 2 = 1 <=> ~(n % 2 = 1)
  BY <1>1
<1> QED
  BY <1>2 DEF Odd, n

(* Where a serving process is, with the block it serves.                   *)
LEMMA Serves ==
  ASSUME TypeOK, WriterInv, NEW w \in Writers, wr[w].pc \in Publishing
  PROVE  /\ wr[w].blk \in Blocks /\ Storing(w) /\ Showing(wr[w].blk) /\ Publishing \subseteq WriterPcs
         /\ blk[wr[w].blk].seq \in Nat /\ blk[wr[w].blk].gen \in Nat /\ wr[w].steps \in Nat
         /\ shown \in [Blocks -> Snapshots \cup {None}]
<1>1. wr[w].pc \notin BeforeOpen
  BY DEF Publishing, Writing, BeforeOpen
<1> QED
  BY <1>1, OwnBlock, WriterParts, Typed DEF TypeOK, Publishing, Writing, WriterPcs

LEMMA BeginWrite ==
  ASSUME TypeOK, WriterInv, NEW w \in Writers, begin_publish(w) \/ begin_retire(w) \/ begin_withhold(w)
  PROVE  WriterKeeps
<1>1. PICK from \in {"live", "bumped"}, pc \in {"gen", "retire", "withhold"} :
        begin_write(w, from) /\ Works(w, pc)
  <2>1. CASE begin_publish(w)
    BY <2>1, GoPublishes DEF begin_publish, WriterPcs
  <2>2. CASE begin_retire(w)
    BY <2>2, GoWorks DEF begin_retire, WriterPcs
  <2>3. CASE begin_withhold(w)
    BY <2>3, GoWorks DEF begin_withhold, WriterPcs
  <2> QED
    BY <2>1, <2>2, <2>3
<1>2. wr[w].pc = from /\ wr[w].pc \in Publishing /\ wr[w].pc \in Resting
      /\ UNCHANGED <<global, counter, token, name, fc, shown>>
  BY <1>1 DEF begin_write, At, Publishing, Resting
<1>3. PICK x \in Blocks : /\ x = wr[w].blk /\ Storing(w) /\ blk[x].seq \in Nat
                          /\ shown \in [Blocks -> Snapshots \cup {None}]
  BY <1>2, Serves
<1>4. OnlyBlock(x) /\ PayloadKept(x) /\ HeadKept(x) /\ blk'[x].seq = blk[x].seq + 1
  BY <1>1, <1>3, EditSeq DEF begin_write
<1>5. Odd(x)'
  BY <1>2, <1>3, <1>4, Parity DEF Storing
<1>6. Showing(x)'
  BY <1>5 DEF Showing
<1>7. Storing(w)'
  BY <1>1, <1>3, <1>5 DEF Storing, Works, Resting, Writing
<1> QED
  BY <1>1, <1>2, <1>3, <1>4, <1>6, <1>7, PayloadStep DEF HeadKept, Publishing, Writing

LEMMA StoreStep ==
  ASSUME TypeOK, WriterInv, NEW w \in Writers, store_step(w)
  PROVE  WriterKeeps
<1>1. wr[w].pc = "gen" /\ wr[w].pc \in Publishing /\ UNCHANGED <<global, counter, token, name, fc, shown>>
  BY DEF store_step, At, Publishing, Writing
<1>2. PICK x \in Blocks : /\ x = wr[w].blk /\ Storing(w) /\ blk[x].seq \in Nat /\ blk[x].gen \in Nat
                          /\ wr[w].steps \in Nat /\ shown \in [Blocks -> Snapshots \cup {None}]
  BY <1>1, Serves
<1>3. Works(w, "pose") /\ wr'[w].steps = wr[w].steps
  BY GoWorks DEF store_step, WriterPcs
<1>4. /\ OnlyBlock(x) /\ HeadKept(x) /\ blk'[x].seq = blk[x].seq
      /\ blk'[x].pgen = blk[x].gen /\ blk'[x].step = wr[w].steps
  <2>1. PICK g \in Nat, n \in Nat : g = blk[x].gen /\ n = wr[w].steps
    BY <1>2
  <2>2. blk' = [blk EXCEPT ![x].pgen = g, ![x].step = n]
    BY <2>1, <1>2 DEF store_step
  <2>3. /\ OnlyBlock(x) /\ HeadKept(x) /\ blk'[x].seq = blk[x].seq
        /\ blk'[x].pgen = g /\ blk'[x].step = n
    BY <2>2, EditStep, Zenon
  <2> QED
    BY <2>1, <2>3
<1>5. Odd(x) /\ Odd(x)'
  BY <1>1, <1>2, <1>4 DEF Storing, Writing, Odd
<1>6. Showing(x)'
  BY <1>5 DEF Showing
<1>7. Storing(w)'
  BY <1>2, <1>3, <1>4, <1>5 DEF Storing, Works, Resting, Writing, HeadKept
<1> QED
  BY <1>1, <1>2, <1>3, <1>4, <1>5, <1>6, <1>7, PayloadStep DEF HeadKept, Publishing, Writing

LEMMA StorePose ==
  ASSUME TypeOK, WriterInv, NEW w \in Writers, store_pose(w)
  PROVE  WriterKeeps
<1>1. wr[w].pc = "pose" /\ wr[w].pc \in Publishing /\ UNCHANGED <<global, counter, token, name, fc, shown>>
  BY DEF store_pose, At, Publishing, Writing
<1>2. PICK x \in Blocks : /\ x = wr[w].blk /\ Storing(w) /\ blk[x].seq \in Nat
                          /\ wr[w].steps \in Nat /\ shown \in [Blocks -> Snapshots \cup {None}]
  BY <1>1, Serves
<1>3. Works(w, "valid") /\ wr'[w].steps = wr[w].steps
  BY GoWorks DEF store_pose, WriterPcs
<1>4. /\ OnlyBlock(x) /\ HeadKept(x) /\ blk'[x].seq = blk[x].seq
      /\ blk'[x].pgen = blk[x].pgen /\ blk'[x].step = blk[x].step /\ blk'[x].pose = wr[w].steps
  BY <1>2, EditPose DEF store_pose
<1>5. Odd(x) /\ Odd(x)'
  BY <1>1, <1>2, <1>4 DEF Storing, Writing, Odd
<1>6. Showing(x)'
  BY <1>5 DEF Showing
<1>7. Storing(w)'
  BY <1>1, <1>2, <1>3, <1>4, <1>5 DEF Storing, Works, Resting, Writing, HeadKept
<1> QED
  BY <1>1, <1>2, <1>3, <1>4, <1>5, <1>6, <1>7, PayloadStep DEF HeadKept, Publishing, Writing

LEMMA StoreValid ==
  ASSUME TypeOK, WriterInv, NEW w \in Writers, store_valid(w)
  PROVE  WriterKeeps
<1>1. wr[w].pc = "valid" /\ wr[w].pc \in Publishing /\ UNCHANGED <<global, counter, token, name, fc, shown>>
  BY DEF store_valid, At, Publishing, Writing
<1>2. PICK x \in Blocks : /\ x = wr[w].blk /\ Storing(w) /\ blk[x].seq \in Nat
                          /\ shown \in [Blocks -> Snapshots \cup {None}]
  BY <1>1, Serves
<1>3. Works(w, "even")
  BY GoWorks DEF store_valid, WriterPcs
<1>4. /\ OnlyBlock(x) /\ HeadKept(x) /\ blk'[x].seq = blk[x].seq
      /\ blk'[x].pgen = blk[x].pgen /\ blk'[x].step = blk[x].step /\ blk'[x].pose = blk[x].pose
  BY <1>2, EditValid DEF store_valid
<1>5. Odd(x) /\ Odd(x)'
  BY <1>1, <1>2, <1>4 DEF Storing, Writing, Odd
<1>6. Showing(x)'
  BY <1>5 DEF Showing
<1>7. Storing(w)'
  BY <1>1, <1>2, <1>3, <1>4, <1>5 DEF Storing, Works, Resting, Writing, HeadKept
<1> QED
  BY <1>1, <1>2, <1>3, <1>4, <1>5, <1>6, <1>7, PayloadStep DEF HeadKept, Publishing, Writing

(* The count returns to even on exactly what is then shown.                *)
LEMMA EndWrite ==
  ASSUME TypeOK, WriterInv, NEW w \in Writers, end_write(w)
  PROVE  WriterKeeps
<1>1. /\ wr[w].pc = "even" /\ wr[w].pc \in Publishing
      /\ UNCHANGED <<global, counter, token, name, fc>>
  BY DEF end_write, At, Publishing, Writing
<1>2. PICK x \in Blocks : /\ x = wr[w].blk /\ Storing(w) /\ blk[x].seq \in Nat
                          /\ shown \in [Blocks -> Snapshots \cup {None}]
  BY <1>1, Serves
<1>3. Works(w, "live")
  BY GoWorks DEF end_write, WriterPcs
<1>4. OnlyBlock(x) /\ HeadKept(x) /\ PayloadKept(x) /\ blk'[x].seq = blk[x].seq + 1
  BY <1>2, EditSeq DEF end_write
<1>5. Odd(x) /\ ~Odd(x)'
  BY <1>1, <1>2, <1>4, Parity DEF Storing, Writing
<1>6. shown' = [shown EXCEPT ![x] = Content(x)]
  BY <1>2 DEF end_write, ShownBy, Content
<1>7. Content(x) \in Snapshots \cup {None}
  BY Typed DEF Content, Snapshots
<1>8. Content(x)' = Content(x)
  BY <1>4 DEF PayloadKept, Content
<1>9. shown' \in [Blocks -> Snapshots \cup {None}] /\ \A b \in Blocks \ {x} : shown'[b] = shown[b]
  BY <1>2, <1>6, <1>7
<1>10. Showing(x)'
  <2>1. blk'[x].valid => blk'[x].pose = blk'[x].step
    BY <1>1, <1>2, <1>4 DEF Storing, PayloadKept
  <2>2. shown'[x] = Content(x)
    BY <1>2, <1>6
  <2> QED
    BY <2>1, <2>2, <1>8 DEF Showing
<1>11. Storing(w)'
  BY <1>2, <1>3, <1>5 DEF Storing, Works, Resting, Writing
<1> QED
  BY <1>1, <1>2, <1>3, <1>4, <1>5, <1>9, <1>10, <1>11, PayloadStep DEF HeadKept, Publishing, Writing

LEMMA BumpGeneration ==
  ASSUME TypeOK, WriterInv, NEW w \in Writers, bump_generation(w)
  PROVE  WriterKeeps
<1>1. /\ wr[w].pc = "live" /\ wr[w].pc \in Publishing /\ wr[w].pc \in Resting
      /\ UNCHANGED <<global, counter, token, name, fc, shown>>
  BY DEF bump_generation, At, Publishing, Resting
<1>2. PICK x \in Blocks : /\ x = wr[w].blk /\ Storing(w) /\ Showing(x) /\ blk[x].seq \in Nat
                          /\ shown \in [Blocks -> Snapshots \cup {None}]
  BY <1>1, Serves
<1>3. Works(w, "bumped")
  BY GoWorks DEF bump_generation, WriterPcs
<1>4. /\ OnlyBlock(x) /\ PayloadKept(x) /\ blk'[x].seq = blk[x].seq
      /\ StampKept(x) /\ blk'[x].ready = blk[x].ready /\ blk'[x].gen = blk[x].gen + 1
  BY <1>2, EditGen DEF bump_generation
<1>5. ~Odd(x) /\ ~Odd(x)'
  BY <1>1, <1>2, <1>4 DEF Storing, Odd
<1>6. Showing(x)'
  BY <1>1, <1>2, <1>4, ShowingStands DEF WriterInv
<1>7. Storing(w)'
  BY <1>2, <1>3, <1>5 DEF Storing, Works, Resting, Writing
<1> QED
  BY <1>1, <1>2, <1>3, <1>4, <1>6, <1>7, PayloadStep DEF Publishing

LEMMA ClearValid ==
  ASSUME TypeOK, WriterInv, NEW w \in Writers, clear_valid(w)
  PROVE  WriterKeeps
<1>1. /\ wr[w].pc \in {"retire", "withhold"} /\ wr[w].pc \in Publishing
      /\ UNCHANGED <<global, counter, token, name, fc, shown>>
  BY DEF clear_valid, Publishing, Writing
<1>2. PICK x \in Blocks : /\ x = wr[w].blk /\ Storing(w) /\ blk[x].seq \in Nat
                          /\ shown \in [Blocks -> Snapshots \cup {None}]
  BY <1>1, Serves
<1>3. PICK pc \in {"retag", "even"} : Works(w, pc)
  <2>1. PICK pc \in {"retag", "even"} : Go(w, pc)
    BY DEF clear_valid
  <2> QED
    BY <2>1, GoWorks DEF WriterPcs
<1>4. /\ OnlyBlock(x) /\ HeadKept(x) /\ blk'[x].seq = blk[x].seq /\ blk'[x].valid = FALSE
  BY <1>2, EditValid DEF clear_valid
<1>5. Odd(x) /\ Odd(x)'
  BY <1>1, <1>2, <1>4 DEF Storing, Writing, Odd
<1>6. Showing(x)'
  BY <1>5 DEF Showing
<1>7. Storing(w)'
  BY <1>2, <1>3, <1>4, <1>5 DEF Storing, Works, Resting, Writing
<1> QED
  BY <1>1, <1>2, <1>3, <1>4, <1>5, <1>6, <1>7, PayloadStep DEF HeadKept, Publishing, Writing

LEMMA Retag ==
  ASSUME TypeOK, WriterInv, NEW w \in Writers, retag(w)
  PROVE  WriterKeeps
<1>1. wr[w].pc = "retag" /\ wr[w].pc \in Publishing /\ UNCHANGED <<global, counter, token, name, fc, shown>>
  BY DEF retag, At, Publishing, Writing
<1>2. PICK x \in Blocks : /\ x = wr[w].blk /\ Storing(w) /\ blk[x].seq \in Nat /\ blk[x].gen \in Nat
                          /\ shown \in [Blocks -> Snapshots \cup {None}]
  BY <1>1, Serves
<1>3. Works(w, "even")
  BY GoWorks DEF retag, WriterPcs
<1>4. /\ OnlyBlock(x) /\ HeadKept(x) /\ blk'[x].seq = blk[x].seq /\ blk'[x].valid = blk[x].valid
  <2>1. blk' = [blk EXCEPT ![x].pgen = blk[x].gen]
    BY <1>2 DEF retag
  <2> QED
    BY <2>1, <1>2, EditTag
<1>5. Odd(x) /\ Odd(x)'
  BY <1>1, <1>2, <1>4 DEF Storing, Writing, Odd
<1>6. Showing(x)'
  BY <1>5 DEF Showing
<1>7. Storing(w)'
  BY <1>1, <1>2, <1>3, <1>4, <1>5 DEF Storing, Works, Resting, Writing
<1> QED
  BY <1>1, <1>2, <1>3, <1>4, <1>5, <1>6, <1>7, PayloadStep DEF HeadKept, Publishing, Writing

LEMMA BeginDrop ==
  ASSUME TypeOK, WriterInv, NEW w \in Writers, begin_drop(w)
  PROVE  WriterKeeps
<1>1. /\ wr[w].pc = "live" /\ UNCHANGED <<global, counter, token, name, blk, fc, shown>>
  BY DEF begin_drop, At
<1>2. Works(w, "clearing")
  <2>1. PICK o \in BOOLEAN : wr' = [wr EXCEPT ![w].pc = "clearing", ![w].ours = o]
    BY Zenon DEF begin_drop
  <2> QED
    BY <2>1, GoDrops DEF WriterPcs
<1>3. \A v \in Writers \ {w} : wr[v].pc = "idle"
  BY <1>1, OwnBlock DEF BeforeOpen
<1>4. TypeOK'
  BY <1>1, <1>2 DEF TypeOK, Works
<1>5. LeaseInv'
  BY <1>1, <1>2, LeaseKept DEF WriterInv, Tokened, WriterPcs
<1>6. NameInv'
  BY <1>1, <1>2, NameKept DEF WriterInv, WriterPcs, BeforeOpen, Named, TypeOK
<1>7. StampInv' /\ SeqInv'
  <2>1. Stamping(w)' /\ Storing(w)'
    BY <1>1, <1>2, <1>3
    DEF WriterInv, StampInv, SeqInv, Stamping, Storing, Works, BeforeOpen, Unstamped, Writing, Resting
  <2> QED
    BY <2>1, <1>1, <1>2, <1>3, Typed, BlocksUntouched DEF WriterInv, Works
<1>8. \A b \in Blocks : BlockKept(b)
  BY <1>1, <1>2, Typed DEF BlockKept, Works, Alive, PayloadKept
<1> QED
  BY <1>4, <1>5, <1>6, <1>7, <1>8 DEF WriterKeeps, WriterInv

LEMMA ClearReady ==
  ASSUME TypeOK, WriterInv, NEW w \in Writers, clear_ready(w)
  PROVE  WriterKeeps
<1>1. /\ wr[w].pc = "clearing"
      /\ UNCHANGED <<global, counter, token, name, fc, shown>>
  BY DEF clear_ready, At
<1>2. Works(w, "unlinking")
  BY GoWorks DEF clear_ready, WriterPcs
<1>3. PICK x \in Blocks : /\ x = wr[w].blk /\ blk[x].made
                          /\ \A v \in Writers \ {w} : wr[v].pc = "idle"
  BY <1>1, OwnBlock DEF BeforeOpen
<1>4. /\ OnlyBlock(x) /\ PayloadKept(x) /\ blk'[x].seq = blk[x].seq
      /\ StampKept(x) /\ blk'[x].ready = FALSE /\ blk'[x].gen = blk[x].gen
  BY <1>3, EditReady DEF clear_ready
<1>5. TypeOK'
  BY <1>1, <1>2, <1>4 DEF TypeOK, Works, OnlyBlock
<1>6. LeaseInv'
  BY <1>1, <1>2, LeaseKept DEF WriterInv, Tokened, WriterPcs
<1>7. \A b \in Blocks : /\ StampKept(b) /\ blk'[b].gen = blk[b].gen
                        /\ PayloadKept(b) /\ blk'[b].seq = blk[b].seq /\ (b # x => blk'[b] = blk[b])
  BY <1>4 DEF OnlyBlock, PayloadKept, StampKept
<1>8. NameInv'
  BY <1>1, <1>2, <1>7, NameKept DEF WriterInv, WriterPcs, BeforeOpen, Named, TypeOK, StampKept
<1>9. IncarnationNamesOneBlock' /\ Stamped(x)'
  <2>1. IncarnationNamesOneBlock'
    BY <1>3, <1>4, StampsDiffer DEF WriterInv, OnlyBlock, StampKept
  <2>2. Stamped(x)
    BY <1>3, WriterParts
  <2> QED
    BY <2>1, <2>2, <1>1, <1>3, <1>4 DEF Stamped, StampKept
<1>10. Stamping(w)'
  BY <1>1, <1>2, <1>3, <1>4, <1>7 DEF WriterInv, StampInv, Stamping, Works, StampKept,
     BeforeOpen, Unstamped, Writing
<1>11. Showing(x)' /\ Storing(w)'
  BY <1>1, <1>2, <1>3, <1>4, ShowingStands DEF WriterInv, SeqInv, Storing, Works, Resting, Writing
<1>12. StampInv' /\ SeqInv'
  BY <1>1, <1>2, <1>3, <1>4, <1>9, <1>10, <1>11, EditKeeps DEF WriterInv
<1>13. \A b \in Blocks : BlockKept(b)
  BY <1>2, <1>7, Typed DEF BlockKept, StampKept, Works, Alive
<1> QED
  BY <1>5, <1>6, <1>8, <1>12, <1>13 DEF WriterKeeps, WriterInv

LEMMA UnlinkOwn ==
  ASSUME TypeOK, WriterInv, NEW w \in Writers, unlink_own(w)
  PROVE  WriterKeeps
<1>1. /\ wr[w].pc = "unlinking" /\ name' \in {None, name}
      /\ UNCHANGED <<global, counter, token, blk, fc, shown>>
  BY DEF unlink_own, At
<1>2. Works(w, "closing")
  BY GoWorks DEF unlink_own, WriterPcs
<1>3. \A v \in Writers \ {w} : wr[v].pc = "idle"
  BY <1>1, OwnBlock DEF BeforeOpen
<1>4. TypeOK'
  BY <1>1, <1>2 DEF TypeOK, Works
<1>5. LeaseInv'
  BY <1>1, <1>2, LeaseKept DEF WriterInv, Tokened, WriterPcs
<1>6. NameInv'
  BY <1>1, <1>2, <1>3 DEF WriterInv, NameInv, Works, BeforeOpen, Named
<1>7. StampInv' /\ SeqInv'
  <2>1. Stamping(w)' /\ Storing(w)'
    BY <1>1, <1>2, <1>3
    DEF WriterInv, StampInv, SeqInv, Stamping, Storing, Works, BeforeOpen, Unstamped, Writing, Resting
  <2> QED
    BY <2>1, <1>1, <1>2, <1>3, Typed, BlocksUntouched DEF WriterInv, Works
<1>8. \A b \in Blocks : BlockKept(b)
  BY <1>1, <1>2, Typed DEF BlockKept, Works, Alive, PayloadKept
<1> QED
  BY <1>4, <1>5, <1>6, <1>7, <1>8 DEF WriterKeeps, WriterInv

LEMMA CloseToken ==
  ASSUME TypeOK, WriterInv, NEW w \in Writers, close_token(w)
  PROVE  WriterKeeps
<1>1. /\ wr[w].pc = "closing" /\ token' = [token EXCEPT ![wr[w].inc] = None]
      /\ UNCHANGED <<global, counter, name, blk, fc, shown>>
  BY DEF close_token, At
<1>2. Works(w, "closed")
  BY GoWorks DEF close_token, WriterPcs
<1>3. \A v \in Writers \ {w} : wr[v].pc = "idle"
  BY <1>1, OwnBlock DEF BeforeOpen
<1>4. TypeOK'
  BY <1>1, <1>2 DEF TypeOK, Works
<1>5. LeaseInv'
  BY <1>1, <1>2, <1>3, Typed DEF TypeOK, WriterInv, LeaseInv, Works, Tokened, WriterPcs
<1>6. NameInv'
  BY <1>1, <1>2, <1>3 DEF WriterInv, NameInv, Works, BeforeOpen, Named
<1>7. StampInv' /\ SeqInv'
  <2>1. Stamping(w)' /\ Storing(w)'
    BY <1>1, <1>2, <1>3
    DEF WriterInv, StampInv, SeqInv, Stamping, Storing, Works, BeforeOpen, Unstamped, Writing, Resting
  <2> QED
    BY <2>1, <1>1, <1>2, <1>3, Typed, BlocksUntouched DEF WriterInv, Works
<1>8. \A b \in Blocks : BlockKept(b)
  BY <1>1, <1>2, Typed DEF BlockKept, Works, Alive, PayloadKept
<1> QED
  BY <1>4, <1>5, <1>6, <1>7, <1>8 DEF WriterKeeps, WriterInv

(* A process that is gone: exited in order, or killed at any of its steps. *)
LEMMA Gone ==
  ASSUME TypeOK, WriterInv, NEW w \in Writers, close_lease(w) \/ crash(w)
  PROVE  WriterKeeps
<1>1. /\ wr[w].pc # "idle" /\ UNCHANGED <<counter, name, blk, fc, shown>>
  BY DEF close_lease, crash, At
<1>2. wr' = [wr EXCEPT ![w] = Exited]
  BY DEF close_lease, crash
<1>3. /\ wr' \in [Writers -> Processes] /\ wr'[w] = Exited
      /\ \A v \in Writers \ {w} : wr'[v] = wr[v]
  BY <1>2, ShmConstants DEF TypeOK, Exited, Processes, WriterPcs
<1>4. \A v \in Writers \ {w} : wr[v].pc = "idle"
  BY <1>1, OthersIdle DEF WriterInv
<1>5. Exited.pc = "idle" /\ Exited.blk = None
  BY DEF Exited
<1>6. global' = None /\ token' \in [Incarnations -> Writers \cup {None}]
      /\ \A i \in Incarnations : token'[i] # w /\ (token'[i] = token[i] \/ token'[i] = None)
  <2>1. global = w
    BY <1>1 DEF WriterInv, LeaseInv
  <2>2. CASE close_lease(w)
    BY <2>2 DEF close_lease, At, TypeOK, WriterInv, LeaseInv, Tokened
  <2>3. CASE crash(w)
    BY <2>1, <2>3, Typed DEF crash, TypeOK
  <2> QED
    BY <2>2, <2>3
<1>7. TypeOK'
  BY <1>1, <1>3, <1>6 DEF TypeOK
<1>8. LeaseInv'
  BY <1>1, <1>3, <1>4, <1>5, <1>6, Typed DEF WriterInv, LeaseInv, Tokened
<1>9. NameInv'
  BY <1>1, <1>3, <1>4, <1>5 DEF WriterInv, NameInv, BeforeOpen, Named
<1>10. StampInv' /\ SeqInv'
  <2>1. Stamping(w)' /\ Storing(w)'
    BY <1>3, <1>5 DEF Stamping, Storing, BeforeOpen, Unstamped, Writing, Resting
  <2> QED
    BY <2>1, <1>1, <1>3, <1>4, Typed, BlocksUntouched DEF WriterInv
<1>11. \A b \in Blocks : BlockKept(b)
  <2>1. \A b \in Blocks : ~Alive(b) => ~Alive(b)'
    BY <1>3, <1>5, ShmConstants DEF Alive, Blocks
  <2> QED
    BY <2>1, <1>1, Typed DEF BlockKept, PayloadKept
<1> QED
  BY <1>7, <1>8, <1>9, <1>10, <1>11 DEF WriterKeeps, WriterInv

LEMMA WriterStepKeeps ==
  ASSUME TypeOK, WriterInv, NEW w \in Writers, WriterStep(w)
  PROVE  WriterKeeps
  BY TakeLease, AdvanceCounter, TakeToken, UnlinkLeftover, OpenBlock, SizeBlock, CreateFails, StampBlock,
     StampIncarnation, PublishReady, BeginWrite, StoreStep, StorePose, StoreValid, EndWrite,
     BumpGeneration, ClearValid, Retag, BeginDrop, ClearReady, UnlinkOwn, CloseToken, Gone
  DEF WriterStep

-----------------------------------------------------------------------------
(* The flight controller: its own steps change nothing of the writers, and *)
(* a writer's step keeps every block as far as it relies on it.            *)

LEMMA WriterUntouched ==
  ASSUME WriterInv, UNCHANGED WriterVars
  PROVE  WriterInv'
<1>1. LeaseInv' /\ NameInv'
  BY DEF WriterInv, LeaseInv, NameInv, WriterVars
<1>2. StampInv'
  BY DEF WriterInv, StampInv, IncarnationNamesOneBlock, Stamped, Stamping, WriterVars
<1>3. SeqInv'
  BY DEF WriterInv, SeqInv, Showing, Storing, Odd, Content, WriterVars
<1> QED
  BY <1>1, <1>2, <1>3 DEF WriterInv

(* The fields of the controller's process, one by one.                     *)
LEMMA FcTyped ==
  ASSUME TypeOK
  PROVE  /\ fc.pc \in FcPcs /\ fc.blk \in Blocks \cup {None} /\ fc.inc \in 0..MaxGrants
         /\ fc.seen \in Blocks \cup {None} /\ fc.sinc \in 0..MaxGrants /\ fc.foreign \in BOOLEAN
         /\ fc.cycles \in Nat /\ fc.attempts \in Nat /\ fc.healthy \in BOOLEAN /\ fc.tries \in Nat
         /\ fc.s1 \in Nat /\ fc.stale \in Nat
         /\ fc.copy \in Copies \cup Snapshots \cup {None} /\ fc.prev \in Snapshots \cup {None}
         /\ fc.sample \in (Snapshots \X Snapshots) \cup {None}
  BY DEF TypeOK, Controllers

LEMMA ReaderUnderWriter ==
  ASSUME TypeOK, TypeOK', ReaderInv, fc' = fc, \A b \in Blocks : BlockKept(b)
  PROVE  ReaderInv'
<1>1. AttachInv'
  <2>1. \A b \in Blocks : /\ blk[b].made => blk'[b].made
                          /\ blk[b].magic => blk'[b].magic
                          /\ blk[b].inc # 0 => blk'[b].inc = blk[b].inc
    BY DEF BlockKept
  <2>2. fc.blk # None => fc.blk \in Blocks
    BY FcTyped
  <2> QED
    BY <2>1, <2>2 DEF ReaderInv, AttachInv, Inspecting
<1>2. CopyInv'
  <2>1. CASE fc.pc \in {"r_copy", "r_pose", "r_again"}
    <3>1. PICK x \in Blocks : x = fc.blk
      BY <2>1 DEF ReaderInv, AttachInv, Attached_pcs, Reading
    <3>2. blk[x].seq \in Nat /\ fc.s1 <= blk[x].seq /\ fc.s1 % 2 = 0 /\ fc.s1 \in Nat
      BY <2>1, <3>1, Typed, FcTyped DEF ReaderInv, CopyInv
    <3>3. blk[x].seq <= blk'[x].seq /\ (blk'[x].seq = blk[x].seq /\ ~Odd(x) => PayloadKept(x))
      BY DEF BlockKept
    <3>4. blk'[x].seq \in Nat
      BY DEF TypeOK, BlockStates
    <3>5. fc.s1 <= blk'[x].seq
      BY <3>2, <3>3, <3>4
    <3>6. fc.s1 = blk'[x].seq => fc.s1 = blk[x].seq /\ PayloadKept(x)
      BY <3>2, <3>3, <3>4 DEF Odd
    <3> HIDE <3>2, <3>3, <3>4
    <3>7. fc'.s1 % 2 = 0
      BY <3>2
    <3> QED
      BY <2>1, <3>1, <3>5, <3>6, <3>7 DEF ReaderInv, CopyInv, PayloadKept
  <2>2. CASE fc.pc \notin {"r_copy", "r_pose", "r_again"}
    BY <2>2 DEF ReaderInv, CopyInv
  <2> QED
    BY <2>1, <2>2
<1>3. SampleWithinOneWorld'
  BY DEF ReaderInv, SampleWithinOneWorld
<1>4. TrustInv'
  <2>1. fc.stale > 0 => fc.blk \in Blocks /\ ~Alive(fc.blk) /\ blk[fc.blk].made
    BY ShmConstants DEF ReaderInv, TrustInv, AttachInv, Blocks
  <2>2. fc.stale > 0 => ~Alive(fc.blk)'
    BY <2>1 DEF BlockKept, Alive
  <2> QED
    BY <2>1, <2>2 DEF ReaderInv, TrustInv
<1> QED
  BY <1>1, <1>2, <1>3, <1>4 DEF ReaderInv

(* Attaching keeps the block the controller had, and what it read of it.   *)
HoldsOn ==
    /\ fc'.blk = fc.blk /\ fc'.inc = fc.inc /\ fc'.healthy = fc.healthy /\ fc'.stale = fc.stale
    /\ fc'.prev = fc.prev

LEMMA FcGo ==
  ASSUME TypeOK, NEW pc \in FcPcs, fc' = [fc EXCEPT !.pc = pc]
  PROVE  /\ fc' \in Controllers /\ HoldsOn /\ fc'.pc = pc /\ fc'.sample = fc.sample
         /\ fc'.seen = fc.seen /\ fc'.sinc = fc.sinc /\ fc'.foreign = fc.foreign
         /\ fc'.cycles = fc.cycles /\ fc'.s1 = fc.s1 /\ fc'.copy = fc.copy
  BY DEF TypeOK, Controllers, HoldsOn

LEMMA FcNotReady ==
  ASSUME TypeOK, NotReady
  PROVE  /\ fc' \in Controllers /\ HoldsOn /\ fc'.pc \in {"open", "exit"} /\ fc'.sample = fc.sample
         /\ fc'.foreign = fc.foreign
         /\ fc'.cycles = fc.cycles /\ fc'.s1 = fc.s1 /\ fc'.copy = fc.copy
<1>1. PICK pc \in {"open", "exit"}, n \in Nat :
        fc' = [fc EXCEPT !.attempts = n, !.seen = None, !.sinc = 0, !.pc = pc]
  <2>1. fc.attempts + 1 \in Nat
    BY FcTyped
  <2> QED
    BY <2>1, Zenon DEF NotReady
<1>2. pc \in FcPcs /\ 0 \in 0..MaxGrants
  BY ShmConstants DEF FcPcs
<1> QED
  BY <1>1, <1>2 DEF TypeOK, Controllers, HoldsOn

LEMMA FcLooks ==
  ASSUME TypeOK, NEW pc \in FcPcs, NEW x \in Blocks, fc' = [fc EXCEPT !.seen = x, !.pc = pc]
  PROVE  /\ fc' \in Controllers /\ HoldsOn /\ fc'.pc = pc /\ fc'.sample = fc.sample
         /\ fc'.seen = x /\ fc'.foreign = fc.foreign
         /\ fc'.cycles = fc.cycles /\ fc'.s1 = fc.s1 /\ fc'.copy = fc.copy
  BY DEF TypeOK, Controllers, HoldsOn

LEMMA FcStamps ==
  ASSUME TypeOK, NEW pc \in FcPcs, NEW i \in 0..MaxGrants, NEW f \in BOOLEAN,
         \/ fc' = [fc EXCEPT !.sinc = i, !.pc = pc] /\ f = fc.foreign
         \/ fc' = [fc EXCEPT !.foreign = f, !.sinc = i, !.pc = pc]
  PROVE  /\ fc' \in Controllers /\ HoldsOn /\ fc'.pc = pc /\ fc'.sample = fc.sample
         /\ fc'.seen = fc.seen /\ fc'.sinc = i /\ fc'.foreign = f
         /\ fc'.cycles = fc.cycles /\ fc'.s1 = fc.s1 /\ fc'.copy = fc.copy
  BY DEF TypeOK, Controllers, HoldsOn

(* A step of the attach dialogue or of the writer check disturbs at most   *)
(* what is known of the block that is looked at.                           *)
LEMMA LookingKeeps ==
  ASSUME TypeOK, ReaderInv, UNCHANGED WriterVars, HoldsOn, fc' \in Controllers,
         fc'.sample \in {fc.sample, None}, fc'.pc \notin Reading \cup {"cycle"}, AttachInv'
  PROVE  TypeOK' /\ ReaderInv'
<1>1. TypeOK'
  BY DEF TypeOK, WriterVars
<1>2. CopyInv'
  BY DEF ReaderInv, CopyInv, HoldsOn, Reading
<1>3. SampleWithinOneWorld'
  BY DEF ReaderInv, SampleWithinOneWorld
<1>4. TrustInv'
  BY DEF ReaderInv, TrustInv, HoldsOn, Alive, WriterVars
<1> QED
  BY <1>1, <1>2, <1>3, <1>4 DEF ReaderInv

(* The same for a step that is done with looking at a block.               *)
LEMMA NotReadyKeeps ==
  ASSUME TypeOK, ReaderInv, UNCHANGED WriterVars, NotReady
  PROVE  TypeOK' /\ ReaderInv'
<1>1. /\ fc' \in Controllers /\ HoldsOn /\ fc'.pc \in {"open", "exit"} /\ fc'.sample = fc.sample
      /\ fc'.foreign = fc.foreign
  BY FcNotReady
<1>2. AttachInv'
  BY <1>1 DEF ReaderInv, AttachInv, HoldsOn, Inspecting, Attached_pcs, Reading, WriterVars
<1> QED
  BY <1>1, <1>2, LookingKeeps DEF Reading

(* A block the name resolves to was made; one that is ready is stamped.    *)
LEMMA LooksAtName ==
  ASSUME TypeOK, WriterInv, ReaderInv, UNCHANGED WriterVars, name # None,
         NEW pc \in {"a_ready", "c_ready"}, pc = "c_ready" => fc.pc = "c_open",
         fc' = [fc EXCEPT !.seen = name, !.pc = pc]
  PROVE  TypeOK' /\ ReaderInv'
<1>1. PICK x \in Blocks : x = name /\ blk[x].made
  BY DEF TypeOK, WriterInv, NameInv
<1>2. /\ fc' \in Controllers /\ HoldsOn /\ fc'.pc = pc /\ fc'.sample = fc.sample
      /\ fc'.seen = x /\ fc'.foreign = fc.foreign
  BY <1>1, FcLooks DEF FcPcs
<1>3. AttachInv'
  BY <1>1, <1>2 DEF ReaderInv, AttachInv, HoldsOn, Inspecting, Attached_pcs, Reading, WriterVars
<1> QED
  BY <1>2, <1>3, LookingKeeps DEF Reading

LEMMA ReadyIsStamped ==
  ASSUME WriterInv, ReaderInv, UNCHANGED WriterVars,
         fc.pc \in Inspecting \cup {"a_ready", "c_ready"}
  PROVE  /\ fc.seen \in Blocks /\ blk[fc.seen].made
         /\ blk[fc.seen].ready => blk[fc.seen].magic /\ blk[fc.seen].inc # 0
  BY DEF WriterInv, StampInv, Stamped, ReaderInv, AttachInv

(* The dialogue and the check go on to look at the same block.             *)
LEMMA LooksOn ==
  ASSUME TypeOK, WriterInv, ReaderInv, UNCHANGED WriterVars,
         NEW pc \in {"a_stamp", "a_probe", "c_stamp", "c_probe"},
         \/ fc.pc = "a_ready" /\ blk[fc.seen].ready /\ pc = "a_stamp"
         \/ fc.pc = "a_again" /\ pc = "a_probe"
         \/ fc.pc = "c_ready" /\ blk[fc.seen].ready /\ pc = "c_stamp"
         \/ fc.pc = "c_again" /\ pc = "c_probe",
         fc' = [fc EXCEPT !.pc = pc]
  PROVE  TypeOK' /\ ReaderInv'
<1>1. /\ fc' \in Controllers /\ HoldsOn /\ fc'.pc = pc /\ fc'.sample = fc.sample
      /\ fc'.seen = fc.seen /\ fc'.sinc = fc.sinc /\ fc'.foreign = fc.foreign
  BY FcGo DEF FcPcs
<1>2. PICK x \in Blocks : x = fc.seen /\ blk[x].made /\ blk[x].magic /\ blk[x].inc # 0
  BY ReadyIsStamped DEF Inspecting, ReaderInv, AttachInv
<1>3. AttachInv'
  BY <1>1, <1>2 DEF ReaderInv, AttachInv, HoldsOn, Inspecting, Attached_pcs, Reading, WriterVars
<1> QED
  BY <1>1, <1>3, LookingKeeps DEF Reading

LEMMA AttachSteps ==
  ASSUME TypeOK, WriterInv, ReaderInv,
         attach_open \/ attach_ready \/ attach_stamp \/ attach_again
  PROVE  TypeOK' /\ ReaderInv'
<1>0. UNCHANGED WriterVars
  BY DEF attach_open, attach_ready, attach_stamp, attach_again, FcAt
<1>1. CASE attach_open
  BY <1>0, <1>1, NotReadyKeeps, LooksAtName DEF attach_open, FcAt
<1>2. CASE attach_ready
  BY <1>0, <1>2, NotReadyKeeps, LooksOn DEF attach_ready, FcAt
<1>3. CASE attach_stamp
  <2>1. fc.pc = "a_stamp" /\ "a_again" \in FcPcs
    BY <1>3 DEF attach_stamp, FcAt, FcPcs
  <2>2. PICK x \in Blocks : x = fc.seen /\ blk[x].made /\ blk[x].magic /\ blk[x].inc # 0
    BY <2>1 DEF ReaderInv, AttachInv, Inspecting
  <2>3. PICK i \in 0..MaxGrants : i = blk[x].inc
    BY Typed
  <2>4. fc' = [fc EXCEPT !.sinc = i, !.pc = "a_again"]
    BY <1>3, <2>2, <2>3 DEF attach_stamp
  <2>5. /\ fc' \in Controllers /\ HoldsOn /\ fc'.pc = "a_again" /\ fc'.sample = fc.sample
        /\ fc'.seen = fc.seen /\ fc'.sinc = i /\ fc'.foreign = fc.foreign
    BY <2>1, <2>4, FcStamps, FcTyped
  <2>6. AttachInv'
    BY <1>0, <2>2, <2>3, <2>5
    DEF ReaderInv, AttachInv, HoldsOn, Inspecting, Attached_pcs, Reading, WriterVars
  <2> QED
    BY <1>0, <2>5, <2>6, LookingKeeps DEF Reading
<1>4. CASE attach_again
  BY <1>0, <1>4, NotReadyKeeps, LooksOn DEF attach_again, FcAt
<1> QED
  BY <1>1, <1>2, <1>3, <1>4

(* A held token is the lease holder's, whose block carries its count.      *)
LEMMA HeldIsAlive ==
  ASSUME TypeOK, WriterInv, NEW b \in Blocks, TokenHeld(blk[b].inc)
  PROVE  Alive(b)
<1>1. blk[b].inc \in Incarnations /\ token[blk[b].inc] # None
  BY DEF TokenHeld
<1>2. PICK w \in Writers : token[blk[b].inc] = w
  BY <1>1 DEF TypeOK
<1>3. wr[w].pc \in Tokened /\ blk[b].inc = wr[w].inc /\ wr[w].inc = counter
  BY <1>1, <1>2 DEF WriterInv, LeaseInv, Tokened
<1>4. Stamping(w)
  BY DEF WriterInv, StampInv
<1>5. wr[w].blk = b
  BY <1>3, <1>4 DEF Stamping, Tokened, WriterPcs, Unstamped, BeforeOpen
<1> QED
  BY <1>5 DEF Alive

LEMMA AttachProbe ==
  ASSUME TypeOK, WriterInv, ReaderInv, attach_probe
  PROVE  TypeOK' /\ ReaderInv'
<1>0. fc.pc = "a_probe" /\ UNCHANGED WriterVars
  BY DEF attach_probe, FcAt
<1>1. CASE ~TokenHeld(fc.sinc)
  BY <1>0, <1>1, NotReadyKeeps DEF attach_probe
<1>2. CASE TokenHeld(fc.sinc)
  <2>1. fc' = Attached
    BY <1>2 DEF attach_probe
  <2>2. PICK x \in Blocks : /\ x = fc.seen /\ blk[x].made /\ blk[x].magic /\ blk[x].inc # 0
                            /\ blk[x].inc = fc.sinc
    BY <1>0 DEF ReaderInv, AttachInv, Inspecting
  <2>3. /\ fc'.pc = "cycle" /\ fc'.blk = x /\ fc'.inc = fc.sinc /\ fc'.prev = None /\ fc'.foreign = FALSE
        /\ fc'.sample = None /\ fc'.stale = 0
    BY <2>1, <2>2 DEF Attached, Started
  <2>4. fc' \in Controllers /\ fc'.cycles = fc.cycles
    <3>1. "cycle" \in FcPcs /\ fc.sinc \in 0..MaxGrants /\ 0 \in 0..MaxGrants /\ fc.cycles \in Nat
      BY FcTyped, ShmConstants DEF FcPcs
    <3> QED
      BY <2>1, <2>2, <3>1 DEF Attached, Started, Controllers
  <2>5. TypeOK'
    BY <1>0, <2>4 DEF TypeOK, WriterVars
  <2>6. AttachInv'
    BY <1>0, <2>2, <2>3 DEF AttachInv, Inspecting, WriterVars
  <2>7. CopyInv' /\ SampleWithinOneWorld'
    BY <2>3 DEF CopyInv, SampleWithinOneWorld
  <2>8. TrustInv'
    BY <2>3, <2>4, FcTyped, ShmConstants DEF TrustInv
  <2> QED
    BY <2>5, <2>6, <2>7, <2>8 DEF ReaderInv
<1> QED
  BY <1>1, <1>2

(* The check of the writer.                                                *)
LEMMA FcForgets ==
  ASSUME TypeOK, Current \/ Initializing \/ Reattach
  PROVE  /\ fc' \in Controllers /\ fc'.pc \in {"r_ready", "cycle", "open"} /\ fc'.sample = fc.sample
         /\ fc'.blk = fc.blk /\ fc'.inc = fc.inc /\ fc'.foreign = FALSE /\ fc'.stale = fc.stale
         /\ fc'.cycles = fc.cycles /\ fc'.prev = fc.prev /\ fc'.s1 = fc.s1 /\ fc'.copy = fc.copy
         /\ fc'.healthy \in BOOLEAN /\ (fc'.pc = "cycle" => fc'.healthy = FALSE)
         /\ Initializing => fc'.pc = "cycle"
         /\ Reattach => fc'.pc = "open"
<1> DEFINE Fields ==
         /\ fc' \in Controllers /\ fc'.pc \in {"r_ready", "cycle", "open"} /\ fc'.sample = fc.sample
         /\ fc'.blk = fc.blk /\ fc'.inc = fc.inc /\ fc'.foreign = FALSE /\ fc'.stale = fc.stale
         /\ fc'.cycles = fc.cycles /\ fc'.prev = fc.prev /\ fc'.s1 = fc.s1 /\ fc'.copy = fc.copy
         /\ fc'.healthy \in BOOLEAN /\ (fc'.pc = "cycle" => fc'.healthy = FALSE)
<1>1. {"r_ready", "cycle", "open"} \subseteq FcPcs /\ 0 \in 0..MaxGrants
  BY ShmConstants DEF FcPcs
<1>2. ASSUME Current PROVE Fields
  BY <1>1, <1>2 DEF Current, Forgot, TypeOK, Controllers
<1>3. ASSUME Initializing PROVE Fields
  BY <1>1, <1>3 DEF Initializing, Forgot, TypeOK, Controllers
<1>4. ASSUME Reattach PROVE Fields
  BY <1>1, <1>4 DEF Reattach, Forgot, TypeOK, Controllers
<1>5. /\ Initializing => fc'.pc = "cycle"
      /\ Reattach => fc'.pc = "open"
  BY <1>1 DEF Initializing, Reattach, Forgot, TypeOK, Controllers
<1> QED
  BY <1>2, <1>3, <1>4, <1>5

(* Giving up the look at a block, with the verdict Current only for a      *)
(* living writer.                                                          *)
LEMMA ForgetsKeeps ==
  ASSUME TypeOK, ReaderInv, UNCHANGED WriterVars, fc.pc \in Attached_pcs,
         \/ Initializing \/ Reattach
         \/ Current /\ fc.stale = 0
  PROVE  TypeOK' /\ ReaderInv'
<1>1. /\ fc' \in Controllers /\ fc'.pc \in {"r_ready", "cycle", "open"} /\ fc'.sample = fc.sample
      /\ fc'.blk = fc.blk /\ fc'.inc = fc.inc /\ fc'.foreign = FALSE /\ fc'.stale = fc.stale
      /\ fc'.cycles = fc.cycles /\ fc'.prev = fc.prev
      /\ fc'.pc = "cycle" => fc'.healthy = FALSE
  BY FcForgets
<1>2. fc'.pc = "r_ready" => fc.stale = 0
  BY FcForgets
<1>3. TypeOK'
  BY <1>1 DEF TypeOK, WriterVars
<1>4. AttachInv'
  BY <1>1 DEF ReaderInv, AttachInv, Inspecting, Attached_pcs, Reading, WriterVars
<1>5. CopyInv'
  BY <1>1 DEF ReaderInv, CopyInv
<1>6. SampleWithinOneWorld'
  BY <1>1 DEF ReaderInv, SampleWithinOneWorld
<1>7. TrustInv'
  BY <1>1, <1>2, FcTyped DEF ReaderInv, TrustInv, Alive, WriterVars, Reading
<1> QED
  BY <1>3, <1>4, <1>5, <1>6, <1>7 DEF ReaderInv

LEMMA CheckSteps ==
  ASSUME TypeOK, WriterInv, ReaderInv,
         check_open \/ check_ready \/ check_stamp \/ check_again
  PROVE  TypeOK' /\ ReaderInv'
<1>0. UNCHANGED WriterVars /\ fc.pc \in Attached_pcs
  BY DEF check_open, check_ready, check_stamp, check_again, FcAt, Attached_pcs
<1>1. CASE check_open
  BY <1>0, <1>1, ForgetsKeeps, LooksAtName DEF check_open, FcAt
<1>2. CASE check_ready
  BY <1>0, <1>2, ForgetsKeeps, LooksOn DEF check_ready, FcAt
<1>3. CASE check_stamp
  <2>1. fc.pc = "c_stamp" /\ "c_again" \in FcPcs
    BY <1>3 DEF check_stamp, FcAt, FcPcs
  <2>2. PICK x \in Blocks : x = fc.seen /\ blk[x].made /\ blk[x].magic /\ blk[x].inc # 0
    BY <2>1 DEF ReaderInv, AttachInv, Inspecting
  <2>3. PICK i \in 0..MaxGrants : i = blk[x].inc
    BY Typed
  <2>4. fc' = [fc EXCEPT !.foreign = FALSE, !.sinc = i, !.pc = "c_again"]
    <3>1. (~blk[x].magic) = FALSE
      BY <2>2
    <3> QED
      BY <1>3, <2>2, <2>3, <3>1 DEF check_stamp
  <2>5. /\ fc' \in Controllers /\ HoldsOn /\ fc'.pc = "c_again" /\ fc'.sample = fc.sample
        /\ fc'.seen = fc.seen /\ fc'.sinc = i /\ fc'.foreign = FALSE
    BY <2>1, <2>4, FcStamps
  <2>6. AttachInv'
    BY <1>0, <2>1, <2>2, <2>3, <2>5
    DEF ReaderInv, AttachInv, HoldsOn, Inspecting, Attached_pcs, Reading, WriterVars
  <2> QED
    BY <1>0, <2>5, <2>6, LookingKeeps DEF Reading
<1>4. CASE check_again
  <2>1. fc.pc = "c_again" /\ fc.foreign = FALSE
    BY <1>4 DEF check_again, FcAt, ReaderInv, AttachInv
  <2>2. Initializing \/ Reattach \/ fc' = [fc EXCEPT !.pc = "c_probe"]
    BY <1>4, <2>1 DEF check_again
  <2> QED
    BY <1>0, <2>1, <2>2, ForgetsKeeps, LooksOn
<1> QED
  BY <1>1, <1>2, <1>3, <1>4

(* The writer of the attached block answers for it by its own token.       *)
LEMMA AttachedAnswers ==
  ASSUME TypeOK, WriterInv, ReaderInv, fc.pc \in Attached_pcs, TokenHeld(fc.inc)
  PROVE  Alive(fc.blk) /\ fc.stale = 0
<1>1. PICK x \in Blocks : x = fc.blk /\ blk[x].inc = fc.inc
  BY ShmConstants DEF ReaderInv, AttachInv, Blocks
<1>2. Alive(x)
  BY <1>1, HeldIsAlive
<1> QED
  BY <1>1, <1>2, FcTyped DEF ReaderInv, TrustInv

LEMMA CheckProbe ==
  ASSUME TypeOK, WriterInv, ReaderInv, check_probe
  PROVE  TypeOK' /\ ReaderInv'
<1>1. fc.pc \in Attached_pcs /\ UNCHANGED WriterVars
  BY DEF check_probe, FcAt, Attached_pcs
<1>2. Reattach \/ (Current /\ fc.stale = 0)
  BY <1>1, AttachedAnswers DEF check_probe
<1> QED
  BY <1>1, <1>2, ForgetsKeeps

(* One turn of the loop: the check is due, or the next read.               *)
LEMMA CycleStep ==
  ASSUME TypeOK, WriterInv, ReaderInv, cycle
  PROVE  TypeOK' /\ ReaderInv'
<1>0. fc.pc = "cycle" /\ UNCHANGED WriterVars
  BY DEF cycle, FcAt
<1>1. CASE ChecksWriter
  <2>1. /\ fc' \in Controllers /\ HoldsOn /\ fc'.pc = "c_open" /\ fc'.sample = None
        /\ fc'.foreign = fc.foreign
    <3>1. "c_open" \in FcPcs
      BY DEF FcPcs
    <3> QED
      BY <1>1, <3>1 DEF ChecksWriter, TypeOK, Controllers, HoldsOn
  <2>2. AttachInv'
    BY <1>0, <2>1 DEF ReaderInv, AttachInv, HoldsOn, Inspecting, Attached_pcs, Reading, WriterVars
  <2> QED
    BY <1>0, <2>1, <2>2, LookingKeeps DEF Reading
<1>2. CASE Reads /\ fc.healthy /\ fc.cycles + 1 < CHECK_EVERY
  <2>1. PICK n \in {fc.stale, fc.stale + 1} :
           /\ fc' = [fc EXCEPT !.sample = None, !.cycles = @ + 1, !.pc = "r_ready", !.stale = n]
           /\ Alive(fc.blk) => n = fc.stale
    BY <1>2, Zenon DEF Reads
  <2>2. "r_ready" \in FcPcs /\ n \in Nat /\ fc.cycles + 1 \in Nat
    BY <2>1, FcTyped DEF FcPcs
  <2>3. /\ fc' \in Controllers /\ fc'.pc = "r_ready" /\ fc'.sample = None /\ fc'.foreign = fc.foreign
        /\ fc'.blk = fc.blk /\ fc'.inc = fc.inc /\ fc'.prev = fc.prev
        /\ fc'.cycles = fc.cycles + 1 /\ fc'.stale = n
    BY <2>1, <2>2 DEF TypeOK, Controllers
  <2>4. TypeOK'
    BY <1>0, <2>3 DEF TypeOK, WriterVars
  <2>5. AttachInv'
    BY <1>0, <2>3 DEF ReaderInv, AttachInv, Inspecting, Attached_pcs, Reading, WriterVars
  <2>6. CopyInv' /\ SampleWithinOneWorld'
    BY <2>3 DEF ReaderInv, CopyInv, SampleWithinOneWorld
  <2>7. TrustInv'
    <3>1. fc.blk \in Blocks /\ fc.stale <= fc.cycles
      BY <1>0, <1>2 DEF ReaderInv, AttachInv, TrustInv, Attached_pcs
    <3>2. n <= fc.cycles + 1 /\ n < CHECK_EVERY
      BY <1>2, <2>1, <3>1, FcTyped, ShmConstants
    <3>3. n > 0 => ~Alive(fc.blk)
      BY <2>1, FcTyped DEF ReaderInv, TrustInv
    <3>4. fc'.stale > 0 => fc'.blk \in Blocks /\ ~Alive(fc.blk)'
      BY <1>0, <2>3, <3>1, <3>3 DEF Alive, WriterVars
    <3> QED
      BY <2>3, <3>2, <3>4 DEF TrustInv
  <2> QED
    BY <2>4, <2>5, <2>6, <2>7 DEF ReaderInv
<1> QED
  BY <1>1, <1>2, FcTyped, ShmConstants DEF cycle

(* The read: everything but the copy and the count stays.                  *)
ReadFields ==
    /\ fc' \in Controllers /\ fc'.blk = fc.blk /\ fc'.inc = fc.inc /\ fc'.foreign = fc.foreign
    /\ fc'.stale = fc.stale /\ fc'.healthy = fc.healthy /\ fc'.cycles = fc.cycles

LEMMA ReadingKeeps ==
  ASSUME TypeOK, ReaderInv, UNCHANGED WriterVars, fc.pc \in Reading, ReadFields,
         fc'.pc \in Reading \cup {"cycle"}, CopyInv', SampleWithinOneWorld'
  PROVE  TypeOK' /\ ReaderInv'
<1>1. TypeOK'
  BY DEF TypeOK, WriterVars, ReadFields
<1>2. AttachInv'
  BY DEF ReaderInv, AttachInv, Inspecting, Attached_pcs, Reading, WriterVars, ReadFields
<1>3. TrustInv'
  BY DEF ReaderInv, TrustInv, Reading, WriterVars, ReadFields, Alive
<1> QED
  BY <1>1, <1>2, <1>3 DEF ReaderInv

LEMMA FcCounts ==
  ASSUME TypeOK, NEW pc \in FcPcs, NEW k \in Nat, fc' = [fc EXCEPT !.s1 = k, !.pc = pc]
  PROVE  /\ ReadFields /\ fc'.pc = pc /\ fc'.s1 = k /\ fc'.copy = fc.copy
         /\ fc'.prev = fc.prev /\ fc'.sample = fc.sample
  BY DEF TypeOK, Controllers, ReadFields

LEMMA FcCopies ==
  ASSUME TypeOK, NEW pc \in FcPcs, NEW c \in Copies \cup Snapshots,
         fc' = [fc EXCEPT !.pc = pc, !.copy = c]
  PROVE  /\ ReadFields /\ fc'.pc = pc /\ fc'.s1 = fc.s1 /\ fc'.copy = c
         /\ fc'.prev = fc.prev /\ fc'.sample = fc.sample
  BY DEF TypeOK, Controllers, ReadFields

LEMMA FcRestarts ==
  ASSUME TypeOK, NextCycle \/ Retry
  PROVE  /\ ReadFields /\ fc'.pc \in {"cycle", "r_seq"}
         /\ fc'.prev = fc.prev /\ fc'.sample = fc.sample
<1>1. PICK pc \in {"cycle", "r_seq"}, n \in Nat :
         \/ fc' = [fc EXCEPT !.copy = None, !.tries = n, !.s1 = 0, !.pc = pc]
         \/ fc' = [fc EXCEPT !.tries = n, !.copy = None, !.s1 = 0, !.pc = pc]
  <2>1. fc.tries + 1 \in Nat /\ 0 \in Nat
    BY FcTyped
  <2> QED
    BY <2>1, Zenon DEF NextCycle, Retry
<1>2. pc \in FcPcs
  BY DEF FcPcs
<1>3. CASE fc' = [fc EXCEPT !.copy = None, !.tries = n, !.s1 = 0, !.pc = pc]
  BY <1>2, <1>3 DEF TypeOK, Controllers, ReadFields
<1>4. CASE fc' = [fc EXCEPT !.tries = n, !.copy = None, !.s1 = 0, !.pc = pc]
  BY <1>2, <1>4 DEF TypeOK, Controllers, ReadFields
<1> QED
  BY <1>1, <1>3, <1>4

LEMMA RestartKeeps ==
  ASSUME TypeOK, ReaderInv, UNCHANGED WriterVars, fc.pc \in Reading, NextCycle \/ Retry
  PROVE  TypeOK' /\ ReaderInv'
<1>1. /\ ReadFields /\ fc'.pc \in {"cycle", "r_seq"}
      /\ fc'.prev = fc.prev /\ fc'.sample = fc.sample
  BY FcRestarts
<1>2. CopyInv' /\ SampleWithinOneWorld'
  BY <1>1 DEF ReaderInv, CopyInv, SampleWithinOneWorld, ReadFields
<1> QED
  BY <1>1, <1>2, ReadingKeeps DEF Reading

(* The attached block, and what a read in progress knows of it.            *)
LEMMA ReadsItsBlock ==
  ASSUME TypeOK, ReaderInv, fc.pc \in Reading
  PROVE  fc.blk \in Blocks
  BY DEF ReaderInv, AttachInv, Attached_pcs

LEMMA ReadReady ==
  ASSUME TypeOK, ReaderInv, read_ready
  PROVE  TypeOK' /\ ReaderInv'
<1>1. fc.pc = "r_ready" /\ fc.pc \in Reading /\ UNCHANGED WriterVars
  BY DEF read_ready, FcAt, Reading
<1>2. CASE NextCycle
  BY <1>1, <1>2, RestartKeeps
<1>3. CASE fc' = [fc EXCEPT !.pc = "r_seq"]
  <2>1. "r_seq" \in FcPcs
    BY DEF FcPcs
  <2>2. /\ ReadFields /\ fc'.pc = "r_seq" /\ fc'.prev = fc.prev /\ fc'.sample = fc.sample
    BY <1>3, <2>1 DEF TypeOK, Controllers, ReadFields
  <2>3. CopyInv' /\ SampleWithinOneWorld'
    BY <2>2 DEF ReaderInv, CopyInv, SampleWithinOneWorld, ReadFields
  <2> QED
    BY <1>1, <2>2, <2>3, ReadingKeeps DEF Reading
<1> QED
  BY <1>2, <1>3 DEF read_ready

LEMMA ReadSeq ==
  ASSUME TypeOK, ReaderInv, read_seq
  PROVE  TypeOK' /\ ReaderInv'
<1>1. fc.pc = "r_seq" /\ fc.pc \in Reading /\ UNCHANGED WriterVars
  BY DEF read_seq, FcAt, Reading
<1>2. CASE Retry
  BY <1>1, <1>2, RestartKeeps
<1>3. CASE blk[fc.blk].seq % 2 = 0 /\ fc' = [fc EXCEPT !.s1 = blk[fc.blk].seq, !.pc = "r_copy"]
  <2>1. PICK x \in Blocks, k \in Nat : x = fc.blk /\ k = blk[x].seq
    BY <1>1, ReadsItsBlock, Typed
  <2>2. "r_copy" \in FcPcs /\ fc' = [fc EXCEPT !.s1 = k, !.pc = "r_copy"] /\ k % 2 = 0
    BY <1>3, <2>1 DEF FcPcs
  <2>3. ReadFields /\ fc'.pc = "r_copy" /\ fc'.s1 = k /\ fc'.prev = fc.prev /\ fc'.sample = fc.sample
    BY <2>2, FcCounts
  <2>4. fc'.blk = x /\ blk'[x].seq = k
    BY <1>1, <2>1, <2>3 DEF ReadFields, WriterVars
  <2>5. CopyInv' /\ SampleWithinOneWorld'
    BY <2>2, <2>3, <2>4 DEF ReaderInv, CopyInv, SampleWithinOneWorld, ReadFields
  <2> QED
    BY <1>1, <2>3, <2>5, ReadingKeeps DEF Reading
<1> QED
  BY <1>2, <1>3 DEF read_seq

LEMMA ReadCopy ==
  ASSUME TypeOK, ReaderInv, read_copy
  PROVE  TypeOK' /\ ReaderInv'
<1>1. fc.pc = "r_copy" /\ fc.pc \in Reading /\ UNCHANGED WriterVars
  BY DEF read_copy, FcAt, Reading
<1>2. PICK x \in Blocks : x = fc.blk
  BY <1>1, ReadsItsBlock
<1>3. PICK c \in Copies : /\ c.block = x /\ c.valid = blk[x].valid /\ c.gen = blk[x].pgen
                          /\ c.step = blk[x].step
                          /\ fc' = [fc EXCEPT !.pc = "r_pose", !.copy = c]
  <2> DEFINE c == [block |-> x, valid |-> blk[x].valid, gen |-> blk[x].pgen,
                   step |-> blk[x].step, pose |-> 0]
  <2>1. blk[x].valid \in BOOLEAN /\ blk[x].pgen \in Nat /\ blk[x].step \in Nat
    BY DEF TypeOK, BlockStates
  <2>2. c \in Copies /\ c.block = x /\ c.valid = blk[x].valid /\ c.gen = blk[x].pgen
        /\ c.step = blk[x].step
    BY <2>1 DEF Copies
  <2>3. fc' = [fc EXCEPT !.pc = "r_pose", !.copy = c]
    BY <1>2, Zenon DEF read_copy
  <2> QED
    BY <2>2, <2>3, Zenon
<1>4. "r_pose" \in FcPcs
  BY DEF FcPcs
<1>5. /\ ReadFields /\ fc'.pc = "r_pose" /\ fc'.s1 = fc.s1 /\ fc'.copy = c
      /\ fc'.prev = fc.prev /\ fc'.sample = fc.sample
  BY <1>3, <1>4, FcCopies
<1>6. fc'.blk = x /\ blk'[x] = blk[x]
  BY <1>1, <1>2, <1>5 DEF ReadFields, WriterVars
<1>7. CopyInv' /\ SampleWithinOneWorld'
  BY <1>1, <1>2, <1>3, <1>5, <1>6 DEF ReaderInv, CopyInv, SampleWithinOneWorld, ReadFields
<1> QED
  BY <1>1, <1>5, <1>7, ReadingKeeps DEF Reading

LEMMA ReadPose ==
  ASSUME TypeOK, ReaderInv, read_pose
  PROVE  TypeOK' /\ ReaderInv'
<1>1. fc.pc = "r_pose" /\ fc.pc \in Reading /\ UNCHANGED WriterVars
  BY DEF read_pose, FcAt, Reading
<1>2. PICK x \in Blocks : x = fc.blk
  BY <1>1, ReadsItsBlock
<1>3. PICK d \in Copies : d = fc.copy
  BY <1>1 DEF ReaderInv, CopyInv
<1>4. PICK c \in Copies : /\ c.block = d.block /\ c.valid = d.valid /\ c.gen = d.gen
                          /\ c.step = d.step /\ c.pose = blk[x].pose
                          /\ fc' = [fc EXCEPT !.pc = "r_again", !.copy = c]
  <2> DEFINE c == [d EXCEPT !.pose = blk[x].pose]
  <2>1. blk[x].pose \in Nat
    BY Typed
  <2>2. /\ c \in Copies /\ c.block = d.block /\ c.valid = d.valid /\ c.gen = d.gen
        /\ c.step = d.step /\ c.pose = blk[x].pose
    BY <2>1 DEF Copies
  <2>3. fc' = [fc EXCEPT !.pc = "r_again", !.copy = c]
    BY <1>2, <1>3 DEF read_pose
  <2> QED
    BY <2>2, <2>3, Zenon
<1>5. "r_again" \in FcPcs
  BY DEF FcPcs
<1>6. /\ ReadFields /\ fc'.pc = "r_again" /\ fc'.s1 = fc.s1 /\ fc'.copy = c
      /\ fc'.prev = fc.prev /\ fc'.sample = fc.sample
  BY <1>4, <1>5, FcCopies
<1>7. fc'.blk = x /\ blk'[x] = blk[x]
  BY <1>1, <1>2, <1>6 DEF ReadFields, WriterVars
<1>8. CopyInv' /\ SampleWithinOneWorld'
  BY <1>1, <1>2, <1>3, <1>4, <1>6, <1>7 DEF ReaderInv, CopyInv, SampleWithinOneWorld, ReadFields
<1> QED
  BY <1>1, <1>6, <1>8, ReadingKeeps DEF Reading

(* A count that has not moved makes the copy what the block shows.         *)
LEMMA AgreedCopy ==
  ASSUME TypeOK, WriterInv, ReaderInv, fc.pc = "r_again", blk[fc.blk].seq = fc.s1, fc.copy.valid
  PROVE  /\ fc.blk \in Blocks /\ fc.copy \in Copies /\ fc.copy.block = fc.blk
         /\ Snap(fc.copy) = shown[fc.blk] /\ fc.copy.pose = fc.copy.step
<1>1. PICK x \in Blocks : x = fc.blk
  BY ReadsItsBlock DEF Reading
<1>2. Showing(x)
  BY DEF WriterInv, SeqInv
<1>3. /\ fc.copy \in Copies /\ fc.copy.block = x /\ blk[x].valid /\ fc.copy.gen = blk[x].pgen
      /\ fc.copy.step = blk[x].step /\ fc.copy.pose = blk[x].pose /\ blk[x].seq % 2 = 0
  BY <1>1 DEF ReaderInv, CopyInv
<1>4. ~Odd(x)
  BY <1>3 DEF Odd
<1>5. shown[x] = Content(x) /\ blk[x].pose = blk[x].step
  BY <1>2, <1>3, <1>4 DEF Showing
<1>6. Snap(fc.copy) = Content(x)
  BY <1>3 DEF Snap, Content
<1> QED
  BY <1>1, <1>3, <1>5, <1>6

LEMMA ReadAgain ==
  ASSUME TypeOK, WriterInv, ReaderInv, read_again
  PROVE  TypeOK' /\ ReaderInv'
<1>1. fc.pc = "r_again" /\ fc.pc \in Reading /\ UNCHANGED WriterVars
  BY DEF read_again, FcAt, Reading
<1>2. CASE NextCycle \/ Retry
  BY <1>1, <1>2, RestartKeeps
<1>3. CASE /\ blk[fc.blk].seq = fc.s1 /\ fc.copy.valid
           /\ fc' = [fc EXCEPT !.copy = Snap(fc.copy), !.pc = "r_epoch"]
  <2>1. fc.copy \in Copies /\ fc.copy.block = fc.blk /\ fc.copy.pose = fc.copy.step
    BY <1>1, <1>3, AgreedCopy
  <2>2. PICK c \in Snapshots : c = Snap(fc.copy) /\ c.block = fc.blk /\ c.pose = c.step
    <3> DEFINE c == Snap(fc.copy)
    <3>1. /\ fc.copy.block \in Blocks /\ fc.copy.gen \in Nat /\ fc.copy.step \in Nat
          /\ fc.copy.pose \in Nat
      BY <2>1 DEF Copies
    <3>2. c \in Snapshots /\ c.block = fc.blk /\ c.pose = c.step
      BY <2>1, <3>1 DEF Snap, Snapshots
    <3> QED
      BY <3>2, Zenon
  <2>3. "r_epoch" \in FcPcs /\ fc' = [fc EXCEPT !.pc = "r_epoch", !.copy = c]
    BY <1>3, <2>2 DEF FcPcs
  <2>4. /\ ReadFields /\ fc'.pc = "r_epoch" /\ fc'.copy = c
        /\ fc'.prev = fc.prev /\ fc'.sample = fc.sample
    BY <2>3, FcCopies
  <2>5. CopyInv' /\ SampleWithinOneWorld'
    BY <2>2, <2>4 DEF ReaderInv, CopyInv, SampleWithinOneWorld, ReadFields
  <2> QED
    BY <1>1, <2>4, <2>5, ReadingKeeps DEF Reading
<1> QED
  BY <1>2, <1>3 DEF read_again

LEMMA FcSynthesizes ==
  ASSUME TypeOK, NEW pc \in FcPcs, NEW p \in Snapshots, NEW q \in (Snapshots \X Snapshots) \cup {None},
         fc' = [fc EXCEPT !.copy = None, !.tries = 0, !.s1 = 0, !.pc = pc, !.prev = p, !.sample = q]
  PROVE  ReadFields /\ fc'.pc = pc /\ fc'.prev = p /\ fc'.sample = q
  BY DEF TypeOK, Controllers, ReadFields

(* Two states of one world make a sample.                                  *)
LEMMA ReadEpoch ==
  ASSUME TypeOK, ReaderInv, read_epoch
  PROVE  TypeOK' /\ ReaderInv'
<1>1. fc.pc = "r_epoch" /\ fc.pc \in Reading /\ UNCHANGED WriterVars
  BY DEF read_epoch, FcAt, Reading
<1>2. CASE NextCycle
  BY <1>1, <1>2, RestartKeeps
<1>3. CASE fc' = Synthesized
  <2>1. fc.copy \in Snapshots /\ fc.copy.block = fc.blk /\ fc.copy.pose = fc.copy.step
    BY <1>1 DEF ReaderInv, CopyInv
  <2>2. fc.prev # None => fc.prev \in Snapshots /\ fc.prev.block = fc.blk /\ fc.prev.pose = fc.prev.step
    BY DEF ReaderInv, CopyInv
  <2>3. PICK p \in Snapshots : p # None /\ p.block = fc.blk /\ p.pose = p.step
          /\ p = IF Continues /\ fc.copy.step = fc.prev.step THEN fc.prev ELSE fc.copy
    BY <2>1, <2>2, AbsentAssumption DEF Continues, Snapshots, Blocks
  <2>4. PICK q \in (Snapshots \X Snapshots) \cup {None} :
          /\ q = IF Continues /\ fc.copy.step > fc.prev.step THEN <<fc.prev, fc.copy>> ELSE None
          /\ q # None => /\ q = <<fc.prev, fc.copy>> /\ fc.prev # None
                         /\ fc.prev.gen = fc.copy.gen /\ fc.prev.step < fc.copy.step
    <3>1. CASE Continues /\ fc.copy.step > fc.prev.step
      BY <2>1, <2>2, <3>1 DEF Continues, Snapshots
    <3>2. CASE ~(Continues /\ fc.copy.step > fc.prev.step)
      BY <3>2
    <3> QED
      BY <3>1, <3>2
  <2>5. fc' = [fc EXCEPT !.copy = None, !.tries = 0, !.s1 = 0, !.pc = "cycle", !.prev = p, !.sample = q]
    BY <1>3, <2>3, <2>4 DEF Synthesized
  <2>6. ReadFields /\ fc'.pc = "cycle" /\ fc'.prev = p /\ fc'.sample = q
    <3>1. "cycle" \in FcPcs
      BY DEF FcPcs
    <3> QED
      BY <2>5, <3>1, FcSynthesizes
  <2>7. CopyInv'
    BY <2>3, <2>6 DEF CopyInv, ReadFields
  <2>8. SampleWithinOneWorld'
    BY <2>1, <2>2, <2>4, <2>6 DEF SampleWithinOneWorld
  <2> QED
    BY <1>1, <2>6, <2>7, <2>8, ReadingKeeps
<1> QED
  BY <1>2, <1>3 DEF read_epoch

LEMMA FcStepKeeps ==
  ASSUME TypeOK, WriterInv, ReaderInv, FcStep
  PROVE  TypeOK' /\ WriterInv' /\ ReaderInv'
<1>1. UNCHANGED WriterVars
  BY DEF FcStep, FcAt, attach_open, attach_ready, attach_stamp, attach_again, attach_probe, cycle,
     check_open, check_ready, check_stamp, check_again, check_probe,
     read_ready, read_seq, read_copy, read_pose, read_again, read_epoch
<1> QED
  BY <1>1, WriterUntouched, AttachSteps, AttachProbe, CycleStep, CheckSteps, CheckProbe,
     ReadReady, ReadSeq, ReadCopy, ReadPose, ReadAgain, ReadEpoch
  DEF FcStep

-----------------------------------------------------------------------------
(* The theorems.                                                           *)

DataPlaneInv == TypeOK /\ WriterInv /\ ReaderInv

LEMMA InitHolds == Init => DataPlaneInv
<1> SUFFICES ASSUME Init PROVE DataPlaneInv
  OBVIOUS
<1>1. TypeOK
  BY InitType
<1>2. \A w \in Writers : wr[w].pc = "idle" /\ wr[w] = Exited /\ wr[w].blk = None
  BY DEF Init, Exited
<1>3. LeaseInv /\ NameInv
  BY <1>2, ShmConstants DEF Init, LeaseInv, NameInv, Tokened, BeforeOpen, Named
<1>4. \A b \in Blocks : blk[b] = ZeroBlock /\ shown[b] = None
  BY DEF Init
<1>5. ZeroBlock.inc = 0 /\ ZeroBlock.ready = FALSE /\ ZeroBlock.seq = 0 /\ ZeroBlock.valid = FALSE
  BY DEF ZeroBlock
<1>6. StampInv
  BY <1>2, <1>4, <1>5
  DEF Init, StampInv, IncarnationNamesOneBlock, Stamped, Stamping, Unstamped, BeforeOpen, Writing
<1>7. SeqInv
  <2>1. \A b \in Blocks : Showing(b)
    BY <1>4, <1>5 DEF Showing, Content
  <2>2. \A w \in Writers : Storing(w)
    BY <1>2 DEF Storing, Resting, Writing
  <2> QED
    BY <2>1, <2>2 DEF SeqInv
<1>8. ReaderInv
  <2>1. /\ fc.pc = "open" /\ fc.blk = None /\ fc.foreign = FALSE /\ fc.prev = None /\ fc.sample = None
        /\ fc.stale = 0
    BY DEF Init, Started
  <2> QED
    BY <2>1, ShmConstants
    DEF ReaderInv, AttachInv, CopyInv, SampleWithinOneWorld, TrustInv, Inspecting, Attached_pcs, Reading
<1> QED
  BY <1>1, <1>3, <1>6, <1>7, <1>8 DEF DataPlaneInv, WriterInv

LEMMA WriterLeavesFc ==
  ASSUME NEW w \in Writers, WriterStep(w)
  PROVE  fc' = fc
  BY Zenon DEF WriterStep, take_lease, advance_counter, take_token, unlink_leftover, open_block,
     size_block, create_fails, stamp_block, stamp_incarnation, publish_ready, begin_publish, begin_write,
     store_step, store_pose, store_valid, end_write, bump_generation, begin_retire, begin_withhold,
     clear_valid, retag, begin_drop, clear_ready, unlink_own, close_token, close_lease, crash

LEMMA StepHolds == DataPlaneInv /\ [Next]_vars => DataPlaneInv'
<1> SUFFICES ASSUME DataPlaneInv, [Next]_vars PROVE DataPlaneInv'
  OBVIOUS
<1> USE DEF DataPlaneInv
<1>1. CASE FcStep
  BY <1>1, FcStepKeeps
<1>2. ASSUME NEW w \in Writers, WriterStep(w) PROVE DataPlaneInv'
  <2>1. WriterKeeps
    BY <1>2, WriterStepKeeps
  <2>2. fc' = fc
    BY <1>2, WriterLeavesFc
  <2> QED
    BY <2>1, <2>2, ReaderUnderWriter DEF WriterKeeps
<1>3. CASE UNCHANGED vars
  <2>1. UNCHANGED WriterVars /\ fc' = fc
    BY <1>3 DEF vars, WriterVars
  <2>2. TypeOK' /\ WriterInv'
    BY <2>1, WriterUntouched DEF TypeOK, WriterVars
  <2>3. \A b \in Blocks : BlockKept(b)
    BY <2>1, Typed DEF BlockKept, PayloadKept, Alive, WriterVars
  <2> QED
    BY <2>1, <2>2, <2>3, ReaderUnderWriter
<1> QED
  BY <1>1, <1>2, <1>3 DEF Next

LEMMA DataPlane == Spec => []DataPlaneInv
  BY InitHolds, StepHolds, PTL DEF Spec

(* A serving writer's block is the one the name resolves to, no two blocks *)
(* carry one incarnation, and no start or exit of a writer is taken for a  *)
(* foreign layout (mapping.rs create and Drop, lease.rs acquire, attach.rs *)
(* inspect).                                                               *)
THEOREM BlocksAreTheirWriters == Spec => []BlockInv
<1>1. DataPlaneInv => BlockInv
  <2> SUFFICES ASSUME DataPlaneInv PROVE BlockInv
    OBVIOUS
  <2>1. ServingBlockIsNamed
    BY DEF DataPlaneInv, WriterInv, NameInv, ServingBlockIsNamed, Serving, Named, WriterPcs, BeforeOpen
  <2>2. IncarnationNamesOneBlock /\ NeverForeign
    BY DEF DataPlaneInv, WriterInv, StampInv, ReaderInv, AttachInv, NeverForeign
  <2> QED
    BY <2>1, <2>2 DEF DataPlaneInv, BlockInv
<1> QED
  BY <1>1, DataPlane, PTL

(* A sample stands on two whole publications of one world of one block     *)
(* (synthesis.rs, StepSynthesizer::next; mapping.rs, read_model_state).    *)
THEOREM SamplesAreOfOneWorld == Spec => []SampleWithinOneWorld
<1>1. DataPlaneInv => SampleWithinOneWorld
  BY DEF DataPlaneInv, ReaderInv
<1> QED
  BY <1>1, DataPlane, PTL

(* A dead writer's block is flown on for less than one checking period     *)
(* (sitl-gazebo-x500 main.rs, the loop).                                   *)
THEOREM TheDeadAreLeft == Spec => []TrustIsWithdrawn
<1>1. DataPlaneInv => TrustIsWithdrawn
  BY DEF DataPlaneInv, ReaderInv, TrustInv, TrustIsWithdrawn
<1> QED
  BY <1>1, DataPlane, PTL

(* Attaching and the verdict Current stand on the lock of the attached     *)
(* block's own writer (lease.rs, writer_liveness; attach.rs,               *)
(* confirm_alive).                                                         *)
THEOREM CurrentMeansAlive == Spec => OnlyTheLivingAreTrusted
<1> DEFINE Trust ==
      /\ fc.pc = "a_probe" /\ fc'.pc = "cycle" => Alive(fc.seen)
      /\ fc.pc = "c_probe" /\ fc'.pc = "r_ready" => Alive(fc.blk)
<1>1. ASSUME DataPlaneInv, [Next]_vars PROVE [Trust]_vars
  <2> USE <1>1 DEF DataPlaneInv
  <2>1. CASE attach_probe
    <3>1. fc.pc = "a_probe"
      BY <2>1 DEF attach_probe, FcAt
    <3>2. CASE TokenHeld(fc.sinc)
      <4>1. PICK x \in Blocks : x = fc.seen /\ blk[x].inc = fc.sinc
        BY <3>1 DEF ReaderInv, AttachInv, Inspecting
      <4> QED
        BY <3>1, <3>2, <4>1, HeldIsAlive
    <3>3. CASE ~TokenHeld(fc.sinc)
      BY <2>1, <3>1, <3>3, FcNotReady DEF attach_probe
    <3> QED
      BY <3>2, <3>3
  <2>2. CASE check_probe
    <3>1. fc.pc = "c_probe"
      BY <2>2 DEF check_probe, FcAt
    <3>2. CASE TokenHeld(fc.inc)
      BY <3>1, <3>2, AttachedAnswers DEF Attached_pcs
    <3>3. CASE ~TokenHeld(fc.inc)
      <4>1. Reattach
        BY <2>2, <3>3 DEF check_probe
      <4> QED
        BY <3>1, <4>1, FcForgets
    <3> QED
      BY <3>2, <3>3
  <2>3. CASE FcStep /\ ~attach_probe /\ ~check_probe
    <3>1. fc.pc \notin {"a_probe", "c_probe"}
      BY <2>3 DEF FcStep, FcAt, attach_open, attach_ready, attach_stamp, attach_again, cycle,
         check_open, check_ready, check_stamp, check_again,
         read_ready, read_seq, read_copy, read_pose, read_again, read_epoch
    <3> QED
      BY <3>1
  <2>4. CASE fc' = fc
    BY <2>4
  <2>5. ASSUME NEW w \in Writers, WriterStep(w) PROVE fc' = fc
    BY <2>5, WriterLeavesFc
  <2> QED
    BY <2>1, <2>2, <2>3, <2>4, <2>5 DEF Next, vars
<1> QED
  BY <1>1, DataPlane, PTL DEF Spec, OnlyTheLivingAreTrusted

-----------------------------------------------------------------------------
(* The seqlock with the generation double-check implements the register.   *)

(* The steps of a writer that neither start a world nor end a write.       *)
LEMMA RegisterIdle ==
  ASSUME TypeOK, WriterInv, NEW w \in Writers, WriterStep(w),
         ~stamp_block(w), ~bump_generation(w), ~end_write(w)
  PROVE  shown' = shown /\ \A b \in Blocks : blk'[b].gen = blk[b].gen
<1>1. CASE \/ take_lease(w) \/ advance_counter(w) \/ take_token(w) \/ unlink_leftover(w)
           \/ create_fails(w) \/ begin_drop(w) \/ unlink_own(w) \/ close_token(w) \/ close_lease(w)
           \/ crash(w)
  BY <1>1 DEF take_lease, advance_counter, take_token, unlink_leftover, create_fails, begin_drop,
     unlink_own, close_token, close_lease, crash
<1>2. CASE open_block(w)
  <2>1. PICK x \in Blocks : blk' = [blk EXCEPT ![x].made = TRUE]
    BY <1>2 DEF open_block
  <2> QED
    BY <1>2, <2>1, EditMade DEF open_block, OnlyBlock
<1>3. CASE size_block(w) \/ stamp_incarnation(w) \/ publish_ready(w) \/ clear_ready(w)
  <2>1. wr[w].pc \notin BeforeOpen
    BY <1>3 DEF size_block, stamp_incarnation, publish_ready, clear_ready, At, BeforeOpen
  <2>2. PICK x \in Blocks : x = wr[w].blk
    BY <2>1, OwnBlock
  <2>3. CASE size_block(w)
    BY <2>2, <2>3, EditSized DEF size_block, OnlyBlock, HeadKept
  <2>4. CASE stamp_incarnation(w)
    <3>1. PICK i \in 0..MaxGrants : i = wr[w].inc
      BY Typed
    <3> QED
      BY <2>2, <2>4, <3>1, EditInc DEF stamp_incarnation, OnlyBlock
  <2>5. CASE publish_ready(w)
    BY <2>2, <2>5, EditReady DEF publish_ready, OnlyBlock
  <2>6. CASE clear_ready(w)
    BY <2>2, <2>6, EditReady DEF clear_ready, OnlyBlock
  <2> QED
    BY <1>3, <2>3, <2>4, <2>5, <2>6
<1>4. CASE \/ begin_publish(w) \/ store_step(w) \/ store_pose(w) \/ store_valid(w)
           \/ begin_retire(w) \/ begin_withhold(w) \/ clear_valid(w) \/ retag(w)
  <2>1. wr[w].pc \in Publishing
    BY <1>4 DEF begin_publish, begin_write, store_step, store_pose, store_valid, begin_retire,
       begin_withhold, clear_valid, retag, At, Publishing, Writing
  <2>2. PICK x \in Blocks : x = wr[w].blk /\ blk[x].gen \in Nat /\ wr[w].steps \in Nat
    BY <2>1, Serves
  <2>3. CASE begin_publish(w) \/ begin_retire(w) \/ begin_withhold(w)
    BY <2>2, <2>3, EditSeq DEF begin_publish, begin_retire, begin_withhold, begin_write, OnlyBlock, HeadKept
  <2>4. CASE store_step(w)
    <3>1. PICK g \in Nat, n \in Nat : g = blk[x].gen /\ n = wr[w].steps
      BY <2>2
    <3>2. blk' = [blk EXCEPT ![x].pgen = g, ![x].step = n]
      BY <2>2, <2>4, <3>1 DEF store_step
    <3>3. OnlyBlock(x) /\ HeadKept(x)
      BY <3>2, EditStep, Zenon
    <3> QED
      BY <2>4, <3>3 DEF store_step, OnlyBlock, HeadKept
  <2>5. CASE store_pose(w)
    BY <2>2, <2>5, EditPose DEF store_pose, OnlyBlock, HeadKept
  <2>6. CASE store_valid(w)
    BY <2>2, <2>6, EditValid DEF store_valid, OnlyBlock, HeadKept
  <2>7. CASE clear_valid(w)
    BY <2>2, <2>7, EditValid DEF clear_valid, OnlyBlock, HeadKept
  <2>8. CASE retag(w)
    <3>1. blk' = [blk EXCEPT ![x].pgen = blk[x].gen]
      BY <2>2, <2>8 DEF retag
    <3> QED
      BY <2>2, <2>8, <3>1, EditTag DEF retag, OnlyBlock, HeadKept
  <2> QED
    BY <1>4, <2>3, <2>4, <2>5, <2>6, <2>7, <2>8
<1> QED
  BY <1>1, <1>2, <1>3, <1>4 DEF WriterStep

(* The worlds the blocks run, as the register counts them.                 *)
epochs == [b \in Blocks |-> blk[b].gen]

LEMMA WriterRefines ==
  ASSUME DataPlaneInv, NEW w \in Writers, WriterStep(w)
  PROVE  Register!Next \/ UNCHANGED Register!registerVars
<1> USE DEF DataPlaneInv
<1>0. fc' = fc /\ TakenSnapshot' = TakenSnapshot /\ fc'.prev = fc.prev
  BY WriterLeavesFc DEF TakenSnapshot
<1>1. CASE stamp_block(w)
  <2>1. wr[w].pc = "sized" /\ shown' = shown
    BY <1>1 DEF stamp_block, At
  <2>2. PICK x \in Blocks : x = wr[w].blk
    BY <2>1, OwnBlock DEF BeforeOpen
  <2>3. blk[x].gen = 0
    BY <2>1, <2>2, WriterParts DEF Stamping
  <2>4. OnlyBlock(x) /\ blk'[x].gen = 1
    BY <1>1, <2>2, EditMagic DEF stamp_block
  <2>5. epochs' = [epochs EXCEPT ![x] = 1] /\ epochs[x] = 0
    BY <2>3, <2>4 DEF epochs, OnlyBlock
  <2>6. Register!Create(x)
    BY <1>0, <2>1, <2>5 DEF Register!Create, epochs
  <2> QED
    BY <2>6 DEF Register!Next
<1>2. CASE bump_generation(w)
  <2>1. wr[w].pc = "live" /\ wr[w].pc \in Publishing /\ shown' = shown
    BY <1>2 DEF bump_generation, At, Publishing
  <2>2. PICK x \in Blocks : x = wr[w].blk
    BY <2>1, Serves
  <2>3. blk[x].gen > 0
    BY <2>1, <2>2, WriterParts DEF Stamping
  <2>4. OnlyBlock(x) /\ blk'[x].gen = blk[x].gen + 1
    BY <1>2, <2>2, EditGen DEF bump_generation
  <2>5. epochs' = [epochs EXCEPT ![x] = @ + 1] /\ epochs[x] > 0
    BY <2>3, <2>4 DEF epochs, OnlyBlock
  <2>6. Register!Reset(x)
    BY <1>0, <2>1, <2>5 DEF Register!Reset, epochs
  <2> QED
    BY <2>6 DEF Register!Next
<1>3. CASE end_write(w)
  <2>1. wr[w].pc = "even" /\ wr[w].pc \in Publishing
    BY <1>3 DEF end_write, At, Publishing, Writing
  <2>2. PICK x \in Blocks : x = wr[w].blk /\ Storing(w) /\ shown \in [Blocks -> Snapshots \cup {None}]
    BY <2>1, Serves
  <2>3. OnlyBlock(x) /\ HeadKept(x)
    BY <1>3, <2>2, EditSeq DEF end_write
  <2>4. epochs' = epochs
    BY <2>3 DEF epochs, OnlyBlock, HeadKept
  <2>5. shown' = [shown EXCEPT ![x] = Content(x)]
    BY <1>3, <2>2 DEF end_write, ShownBy, Content
  <2>6. CASE blk[x].valid
    <3>1. blk[x].pgen = blk[x].gen /\ blk[x].pose = blk[x].step
      BY <2>1, <2>2, <2>6 DEF Storing
    <3>2. /\ Content(x) \in Snapshots /\ Content(x).block = x /\ Content(x).gen = blk[x].gen
          /\ Content(x).pose = Content(x).step
      BY <2>6, <3>1, Typed DEF Content, Snapshots
    <3>3. Content(x) # None
      BY <3>2, AbsentAssumption DEF Snapshots, Blocks
    <3>4. shown'[x] = Content(x) /\ shown' = [shown EXCEPT ![x] = shown'[x]]
      BY <2>2, <2>5
    <3>5. epochs[x] = blk[x].gen
      BY DEF epochs
    <3>6. Register!Publish(x)
      BY <1>0, <2>4, <3>2, <3>3, <3>4, <3>5 DEF Register!Publish, Register!Whole, epochs
    <3> QED
      BY <3>6 DEF Register!Next
  <2>7. CASE ~blk[x].valid
    <3>1. shown' = [shown EXCEPT ![x] = None]
      BY <2>5, <2>7 DEF Content
    <3>2. Register!Withhold(x)
      BY <1>0, <2>4, <3>1 DEF Register!Withhold, epochs
    <3> QED
      BY <3>2 DEF Register!Next
  <2> QED
    BY <2>6, <2>7
<1>4. CASE ~stamp_block(w) /\ ~bump_generation(w) /\ ~end_write(w)
  <2>1. shown' = shown /\ epochs' = epochs
    BY <1>4, RegisterIdle DEF epochs
  <2> QED
    BY <1>0, <2>1 DEF Register!registerVars, epochs
<1> QED
  BY <1>1, <1>2, <1>3, <1>4

(* What a reader's step leaves of the register: no more than the snapshot  *)
(* it has taken and its last answer.                                       *)
LEMMA EpochsStand ==
  ASSUME UNCHANGED WriterVars
  PROVE  shown' = shown /\ epochs' = epochs
  BY DEF WriterVars, epochs

LEMMA Stutters ==
  ASSUME UNCHANGED WriterVars, fc.pc # "r_epoch", fc'.pc # "r_epoch", fc'.prev = fc.prev
  PROVE  UNCHANGED Register!registerVars
  BY EpochsStand DEF Register!registerVars, TakenSnapshot, epochs

LEMMA AttachRefines ==
  ASSUME DataPlaneInv, attach_open \/ attach_ready \/ attach_stamp \/ attach_again \/ attach_probe
  PROVE  Register!Next \/ UNCHANGED Register!registerVars
<1> USE DEF DataPlaneInv
<1>1. UNCHANGED WriterVars /\ fc.pc \in {"open", "a_ready", "a_stamp", "a_again", "a_probe"}
  BY DEF attach_open, attach_ready, attach_stamp, attach_again, attach_probe, FcAt
<1>2. CASE attach_open
  <2>1. CASE NotReady
    BY <1>1, <2>1, FcNotReady, Stutters DEF HoldsOn
  <2>2. CASE name # None /\ fc' = [fc EXCEPT !.seen = name, !.pc = "a_ready"]
    <3>1. PICK x \in Blocks : x = name
      BY <2>2 DEF TypeOK
    <3>2. fc'.prev = fc.prev /\ fc'.pc = "a_ready"
      BY <2>2, <3>1, FcLooks DEF HoldsOn, FcPcs
    <3> QED
      BY <1>1, <3>2, Stutters
  <2> QED
    BY <1>2, <2>1, <2>2 DEF attach_open
<1>3. CASE attach_ready \/ attach_again
  <2>1. CASE NotReady
    BY <1>1, <2>1, FcNotReady, Stutters DEF HoldsOn
  <2>2. ASSUME NEW pc \in {"a_stamp", "a_probe"}, fc' = [fc EXCEPT !.pc = pc]
        PROVE  UNCHANGED Register!registerVars
    <3>1. fc'.prev = fc.prev /\ fc'.pc = pc
      BY <2>2, FcGo DEF HoldsOn, FcPcs
    <3> QED
      BY <1>1, <3>1, Stutters
  <2> QED
    BY <1>3, <2>1, <2>2 DEF attach_ready, attach_again
<1>4. CASE attach_stamp
  <2>1. fc'.prev = fc.prev /\ fc'.pc \in {"a_again", "mismatch"}
    BY <1>4 DEF attach_stamp, TypeOK, Controllers
  <2> QED
    BY <1>1, <2>1, Stutters
<1>5. CASE attach_probe
  <2>1. CASE NotReady
    BY <1>1, <2>1, FcNotReady, Stutters DEF HoldsOn
  <2>2. CASE fc' = Attached
    <3>1. fc'.prev = None /\ fc'.pc = "cycle"
      BY <2>2 DEF Attached, Started
    <3>2. TakenSnapshot = None /\ TakenSnapshot' = None
      BY <1>1, <3>1 DEF TakenSnapshot
    <3>3. Register!Forget
      BY <1>1, <3>1, <3>2, EpochsStand DEF Register!Forget, epochs
    <3> QED
      BY <3>3 DEF Register!Next
  <2> QED
    BY <1>5, <2>1, <2>2 DEF attach_probe
<1> QED
  BY <1>2, <1>3, <1>4, <1>5

LEMMA CheckRefines ==
  ASSUME DataPlaneInv, cycle \/ check_open \/ check_ready \/ check_stamp \/ check_again \/ check_probe
  PROVE  UNCHANGED Register!registerVars
<1> USE DEF DataPlaneInv
<1>1. UNCHANGED WriterVars /\ fc.pc \in {"cycle", "c_open", "c_ready", "c_stamp", "c_again", "c_probe"}
  BY DEF cycle, check_open, check_ready, check_stamp, check_again, check_probe, FcAt
<1>2. fc'.prev = fc.prev /\ fc'.pc # "r_epoch"
  <2>1. CASE cycle
    BY <2>1 DEF cycle, ChecksWriter, Reads, TypeOK, Controllers
  <2>2. CASE Current \/ Initializing \/ Reattach
    BY <2>2, FcForgets
  <2>3. CASE fc' = [fc EXCEPT !.seen = name, !.pc = "c_ready"]
    BY <2>3 DEF TypeOK, Controllers
  <2>4. CASE check_stamp
    BY <2>4 DEF check_stamp, TypeOK, Controllers
  <2>5. ASSUME NEW pc \in {"c_stamp", "mismatch", "c_probe"}, fc' = [fc EXCEPT !.pc = pc]
        PROVE  fc'.prev = fc.prev /\ fc'.pc # "r_epoch"
    BY <2>5 DEF TypeOK, Controllers
  <2> QED
    BY <2>1, <2>2, <2>3, <2>4, <2>5 DEF check_open, check_ready, check_again, check_probe
<1> QED
  BY <1>1, <1>2, Stutters

LEMMA ReadRefines ==
  ASSUME DataPlaneInv,
         read_ready \/ read_seq \/ read_copy \/ read_pose \/ read_again \/ read_epoch
  PROVE  Register!Next \/ UNCHANGED Register!registerVars
<1> USE DEF DataPlaneInv
<1>1. UNCHANGED WriterVars /\ fc.pc \in Reading
  BY DEF read_ready, read_seq, read_copy, read_pose, read_again, read_epoch, FcAt, Reading
<1>2. CASE (NextCycle \/ Retry) /\ fc.pc # "r_epoch"
  BY <1>1, <1>2, FcRestarts, Stutters
<1>3. CASE read_ready \/ read_seq \/ read_copy \/ read_pose
  <2>1. fc.pc # "r_epoch"
    BY <1>3 DEF read_ready, read_seq, read_copy, read_pose, FcAt
  <2>2. (NextCycle \/ Retry) \/ (fc'.prev = fc.prev /\ fc'.pc # "r_epoch")
    BY <1>3 DEF read_ready, read_seq, read_copy, read_pose, TypeOK, Controllers
  <2> QED
    BY <1>1, <1>2, <2>1, <2>2, Stutters
<1>4. CASE read_again
  <2>1. fc.pc = "r_again"
    BY <1>4 DEF read_again, FcAt
  <2>2. CASE /\ blk[fc.blk].seq = fc.s1 /\ fc.copy.valid
             /\ fc' = [fc EXCEPT !.copy = Snap(fc.copy), !.pc = "r_epoch"]
    <3>1. PICK x \in Blocks : /\ x = fc.blk /\ Snap(fc.copy) = shown[x] /\ fc.copy \in Copies
      BY <2>1, <2>2, AgreedCopy
    <3>2. Snap(fc.copy) \in Snapshots
      BY <3>1 DEF Snap, Snapshots, Copies
    <3>3. shown[x] # None
      BY <3>1, <3>2, AbsentAssumption DEF Snapshots, Blocks
    <3>4. fc'.pc = "r_epoch" /\ fc'.copy = shown[x] /\ fc'.prev = fc.prev
      BY <2>2, <3>1 DEF TypeOK, Controllers
    <3>5. TakenSnapshot = None /\ TakenSnapshot' = shown[x]
      BY <2>1, <3>4 DEF TakenSnapshot
    <3>6. Register!Take(x)
      BY <1>1, <3>3, <3>4, <3>5, EpochsStand DEF Register!Take, epochs
    <3> QED
      BY <3>6 DEF Register!Next
  <2> QED
    BY <1>2, <1>4, <2>1, <2>2 DEF read_again
<1>5. CASE read_epoch
  <2>1. /\ fc.pc = "r_epoch" /\ TakenSnapshot = fc.copy
        /\ fc.copy \in Snapshots /\ fc.copy.block = fc.blk /\ fc.copy.pose = fc.copy.step
    BY <1>5 DEF read_epoch, FcAt, TakenSnapshot, ReaderInv, CopyInv
  <2>2. fc.copy # None
    BY <2>1, AbsentAssumption DEF Snapshots, Blocks
  <2>3. CASE NextCycle
    <3>1. fc'.pc = "cycle" /\ fc'.prev = fc.prev
      BY <2>3 DEF NextCycle, TypeOK, Controllers
    <3>2. Register!Refuse
      BY <1>1, <2>1, <2>2, <3>1, EpochsStand DEF Register!Refuse, TakenSnapshot, epochs
    <3> QED
      BY <3>2 DEF Register!Next
  <2>4. CASE SameWorld /\ fc' = Synthesized
    <3>1. fc'.pc = "cycle"
          /\ fc'.prev = IF Continues /\ fc.copy.step = fc.prev.step THEN fc.prev ELSE fc.copy
      BY <2>4 DEF Synthesized, TypeOK, Controllers
    <3>2. fc'.prev = fc.copy
      <4>1. CASE Continues /\ fc.copy.step = fc.prev.step
        <5>1. /\ fc.prev \in Snapshots /\ fc.prev.block = fc.blk /\ fc.prev.pose = fc.prev.step
              /\ fc.prev.gen = fc.copy.gen
          BY <4>1 DEF Continues, ReaderInv, CopyInv
        <5>2. fc.prev = fc.copy
          BY <2>1, <4>1, <5>1 DEF Snapshots
        <5> QED
          BY <3>1, <5>2
      <4>2. CASE ~(Continues /\ fc.copy.step = fc.prev.step)
        BY <3>1, <4>2
      <4> QED
        BY <4>1, <4>2
    <3>3. fc.copy.gen = epochs[fc.copy.block]
      BY <2>1, <2>4 DEF SameWorld, epochs, Snapshots
    <3>4. Register!Answer
      BY <1>1, <2>1, <2>2, <3>1, <3>2, <3>3, EpochsStand DEF Register!Answer, TakenSnapshot, epochs
    <3> QED
      BY <3>4 DEF Register!Next
  <2> QED
    BY <1>5, <2>3, <2>4 DEF read_epoch
<1> QED
  BY <1>3, <1>4, <1>5

(* Every block is a register of whole snapshots for its reader: a read     *)
(* answers with what the block showed at one instant, if its world still   *)
(* runs (seqlock.rs; mapping.rs, read_model_state).                        *)
THEOREM SeqlockIsARegister == Spec => ImplementsRegister
<1>1. Init => Register!Init
  <2> SUFFICES ASSUME Init PROVE Register!Init
    OBVIOUS
  <2>1. \A b \in Blocks : blk[b].gen = 0
    BY DEF Init, ZeroBlock
  <2>2. fc.pc = "open" /\ fc.prev = None /\ shown = [b \in Blocks |-> None]
    BY DEF Init, Started
  <2> QED
    BY <2>1, <2>2 DEF Register!Init, TakenSnapshot
<1>2. ASSUME DataPlaneInv, [Next]_vars PROVE [Register!Next]_(Register!registerVars)
  <2>1. CASE FcStep
    BY <1>2, <2>1, AttachRefines, CheckRefines, ReadRefines DEF FcStep
  <2>2. ASSUME NEW w \in Writers, WriterStep(w) PROVE [Register!Next]_(Register!registerVars)
    BY <1>2, <2>2, WriterRefines
  <2>3. CASE UNCHANGED vars
    BY <2>3 DEF vars, Register!registerVars, TakenSnapshot
  <2> QED
    BY <1>2, <2>1, <2>2, <2>3 DEF Next
<1> QED
  BY <1>1, <1>2, DataPlane, PTL DEF Spec, ImplementsRegister, Register!Spec
=============================================================================
