------------------------------ MODULE MCSitlRunner ------------------------------
(* One simulated vehicle, its simulator, a ground station and a fault      *)
(* injector, with the default check sets of the repository.                *)
EXTENDS SitlRunner

AllGood == [k \in Kinds |-> "good"]

OnThePad == [height |-> 0, slow |-> TRUE]
Climbing == [height |-> 6, slow |-> FALSE]

Est(quat, pos) ==
    [initialized |-> TRUE, quat_fault |-> quat, finite |-> TRUE, pos |-> pos, vel |-> pos]
Aided == Est(FALSE, TRUE)
NoAttitude == Est(TRUE, FALSE)

(* With full packets and faults of the IMU alone, the sets of kinds that    *)
(* can be Good together; ImplementsKernel would notice another.             *)
RunnerSensorSets == {{}, Kinds, Kinds \ {"imu"}}
RunnerEstOutcomes == {Aided, NoAttitude}
RunnerMotions == {OnThePad, Climbing}
FullPackets == {AllGood}
ImuFaults == [kind : {"imu"}, fault : {"HealthFailed", "Dropout", "None"}]
=============================================================================
