---------------------------- MODULE MCSerialTransport ---------------------------
(* Frames of four or five bytes: one plain, one with the letter d in its      *)
(* payload, one with a digit in it, and one that is no command.               *)
EXTENDS SerialTransport

Setpoint  == <<"STX", "x", "x", "sumS">>
Arm       == <<"STX", "x", "d", "sumA">>
Disarm    == <<"STX", "1", "x", "1", "sumD">>
Heartbeat == <<"STX", "x", "x", "sumH">>

MCFrames == {Setpoint, Arm, Disarm, Heartbeat}
MCCommandOf ==
  [f \in MCFrames |-> CASE f = Setpoint -> "setpoint" [] f = Arm -> "arm"
                        [] f = Disarm -> "disarm" [] OTHER -> NoCommand]
MCCodes == {<<"1", "2">>, <<"2", "1">>}
=============================================================================
