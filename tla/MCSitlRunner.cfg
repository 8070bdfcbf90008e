CONSTANTS
    TakeoffHeight = 5
    LandedHeight = 3
    LandedDebounce = 7
    PreArmRequired <- QUAD_MINIMUM
    InFlightRequired <- ATTITUDE_FLIGHT
    TransitionRequired = {}
    MinSamples = 1
    TimingThreshold = 1
    SensorSets <- RunnerSensorSets
    RequestModes = {}
    ControlModes = {"PositionHold"}
    Supported = {"PositionHold", "Attitude"}
    EstOutcomes <- RunnerEstOutcomes
    Motions <- RunnerMotions
    Limited = {FALSE}
    Steps = {7}
    Packets <- FullPackets
    Injections <- ImuFaults
    DropoutCycles = 1
    Discretes = {"Arm", "Disarm", "EmergencyTerminate"}
    Authorizations = {TRUE, FALSE}
    Timeout = 1
SPECIFICATION RunnerSpec
INVARIANTS
    RunnerInv
    FliesOnlyForACommander
PROPERTIES
    ImplementsKernel
    ReadyWhenNominal
