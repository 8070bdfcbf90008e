------------------------------ MODULE MCXilShm ------------------------------
(***************************************************************************)
(* Instance of XilShm for TLC: two simulator processes, so that a creation *)
(* races a shutdown, and two grants: a block that is left, cleanly or by a *)
(* crash at any of its steps, and its successor.                           *)
(***************************************************************************)
EXTENDS XilShm, TLC

\* Simulator processes are interchangeable.
WriterSymmetry == Permutations(Writers)
=============================================================================
