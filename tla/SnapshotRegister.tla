-------------------------- MODULE SnapshotRegister --------------------------
(***************************************************************************)
(* What the shared simulation block promises a reader: every block behaves *)
(* like a register that holds one whole snapshot of the running world, or  *)
(* nothing.  A reader takes the snapshot the register holds at one instant *)
(* and is answered with it only if the world it was taken from still runs. *)
(* XilShm is the seqlock protocol that implements this register.           *)
(***************************************************************************)
EXTENDS Naturals

CONSTANTS Blocks,       \* the shared-memory objects ever created
          NoSnapshot    \* the register is empty

VARIABLES epoch,        \* [block -> world generation], 0 before creation
          shown,        \* [block -> the snapshot the register holds]
          taken,        \* the snapshot a read in progress has taken
          answer        \* the last snapshot a read returned, until forgotten

registerVars == <<epoch, shown, taken, answer>>

\* A snapshot is whole when its pose belongs to its step.
Whole(s) == s.pose = s.step

Init ==
  /\ epoch = [b \in Blocks |-> 0]
  /\ shown = [b \in Blocks |-> NoSnapshot]
  /\ taken = NoSnapshot
  /\ answer = NoSnapshot

Create(b) ==
  /\ epoch[b] = 0
  /\ epoch' = [epoch EXCEPT ![b] = 1]
  /\ UNCHANGED <<shown, taken, answer>>

\* A new world starts in the same block; the old snapshot may still be held.
Reset(b) ==
  /\ epoch[b] > 0
  /\ epoch' = [epoch EXCEPT ![b] = @ + 1]
  /\ UNCHANGED <<shown, taken, answer>>

Publish(b) ==
  /\ shown' = [shown EXCEPT ![b] = shown'[b]]
  /\ shown'[b] # NoSnapshot
  /\ Whole(shown'[b])
  /\ shown'[b].block = b
  /\ shown'[b].gen = epoch[b]
  /\ UNCHANGED <<epoch, taken, answer>>

Withhold(b) ==
  /\ shown' = [shown EXCEPT ![b] = NoSnapshot]
  /\ UNCHANGED <<epoch, taken, answer>>

Take(b) ==
  /\ taken = NoSnapshot
  /\ shown[b] # NoSnapshot
  /\ taken' = shown[b]
  /\ UNCHANGED <<epoch, shown, answer>>

Refuse ==
  /\ taken # NoSnapshot
  /\ taken' = NoSnapshot
  /\ UNCHANGED <<epoch, shown, answer>>

Answer ==
  /\ taken # NoSnapshot
  /\ taken.gen = epoch[taken.block]
  /\ answer' = taken
  /\ taken' = NoSnapshot
  /\ UNCHANGED <<epoch, shown>>

\* A reader that attaches anew starts without an answer.
Forget ==
  /\ answer' = NoSnapshot
  /\ UNCHANGED <<epoch, shown, taken>>

Next ==
  \/ \E b \in Blocks : Create(b) \/ Reset(b) \/ Publish(b) \/ Withhold(b) \/ Take(b)
  \/ Refuse
  \/ Answer
  \/ Forget

Spec == Init /\ [][Next]_registerVars
=============================================================================
