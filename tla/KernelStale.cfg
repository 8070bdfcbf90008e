CONSTANTS
    TakeoffHeight = 5
    LandedHeight = 3
    LandedDebounce = 7
    PreArmRequired <- QUAD_MINIMUM
    InFlightRequired <- ATTITUDE_FLIGHT
    TransitionRequired = {}
    MinSamples = 1
    TimingThreshold = 1
    SensorSets <- FlightSensorSets
    RequestModes = {}
    ControlModes <- FlightControlModes
    Supported <- FlightSupported
    EstOutcomes <- FlightEstOutcomes
    Motions <- FlightMotions
    Limited = {FALSE}
    Steps = {7}
    Heights <- FlightHeights
    CycleTimes = {7}
SPECIFICATION WatchedSpec
INVARIANT
    StaleCommandIsNotFlown
