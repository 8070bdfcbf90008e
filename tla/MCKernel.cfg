CONSTANTS
    TakeoffHeight = 5
    LandedHeight = 3
    LandedDebounce = 7
    PreArmRequired <- QUAD_MINIMUM
    InFlightRequired <- ATTITUDE_FLIGHT
    TransitionRequired = {"STABLE_FLIGHT", "ACTUATORS_OK"}
    MinSamples = 2
    TimingThreshold = 1
    SensorSets <- FlightSensorSets
    RequestModes = {"Transition"}
    ControlModes <- FlightControlModes
    Supported <- FlightSupported
    EstOutcomes <- FlightEstOutcomes
    Motions <- FlightMotions
    Limited = {FALSE}
    Steps = {3, 9}
    Heights <- FlightHeights
    CycleTimes = {3, 9}
SPECIFICATION WatchedSpec
INVARIANTS
    TypeOK
    MemoryMatchesLaw
    ReadyIsChecked
    ControlIsJustified
    DebounceIsEarned
    AirborneHasDatum
PROPERTIES
    OnlyCommandLossReleases
    NoRearmAfterLoss
    LandingIsObserved
