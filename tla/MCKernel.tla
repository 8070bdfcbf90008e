-------------------------------- MODULE MCKernel --------------------------------
(* The kernel with the default check sets of the repository.               *)
EXTENDS WatchedKernel

Est(quat, finite, pos, vel) ==
    [initialized |-> TRUE, quat_fault |-> quat, finite |-> finite, pos |-> pos, vel |-> vel]
Aided == Est(FALSE, TRUE, TRUE, TRUE)
NotFinite == Est(FALSE, FALSE, FALSE, TRUE)
NoAttitude == Est(TRUE, TRUE, FALSE, FALSE)

OnThePad == [height |-> 0, slow |-> TRUE]
Climbing == [height |-> 6, slow |-> FALSE]

(* The IMU comes and goes, and the filter may lose the attitude for good   *)
(* or, between two good cycles, its position and its finiteness.           *)
FlightSensorSets == {Kinds, Kinds \ {"imu"}}
FlightEstOutcomes == {Aided, NotFinite, NoAttitude}
FlightMotions == {OnThePad, Climbing}
FlightHeights == {m.height : m \in FlightMotions}
FlightControlModes == {"PositionHold", "Rate"}
FlightSupported == {"Attitude", "AltitudeHold", "PositionHold"}
=============================================================================
