-------------------------- MODULE MCCommandGateway --------------------------
(* An operator with a right clock, a companion without one, and a second     *)
(* identity signing with the operator's key.                                 *)
EXTENDS CommandGateway

CONSTANTS operator, companion, impostor

Slot(p) == IF p = companion THEN 2 ELSE 1

=============================================================================
