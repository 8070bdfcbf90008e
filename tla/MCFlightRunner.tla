----------------------------- MODULE MCFlightRunner -----------------------------
(* A chip of two cycles per microsecond and a period of three microseconds:   *)
(* a step may be quick, overrun its period or overrun several; a turn of the  *)
(* busy loop advances the clock by one microsecond and loses one or two       *)
(* cycles.                                                                    *)
EXTENDS FlightRunner

MCPollCycles == {2, 3}
MCStepCycles == {1, 9, 16}
MCBootCycles == {5, 15}
=============================================================================
