---------------------------- MODULE MCXPlaneSession ----------------------------
(* A bridge two samples ahead, a step of two samples, evidence of one         *)
(* interval, one reset and one thing that goes wrong.                         *)
EXTENDS XPlaneSession
=============================================================================
