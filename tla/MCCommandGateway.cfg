SPECIFICATION Spec
CONSTANTS
    operator = operator
    companion = companion
    impostor = impostor
    Principals = {operator, companion, impostor}
    credential <- Slot
    Sources = {"GcsDatalink"}
    Honest = {operator}
    MAX_SIGNING_PEERS = 2
    MAX_SOURCE_BINDINGS = 2
    NEW_STREAM_MAX_AGE = 1
    MAX_SKEW = 1
    COUNTER_TICK_US = 1
    MaxClock = 3
    MaxCounter = 3
    MaxBoots = 2
INVARIANTS
    WindowInv
    AdmittedOnce
    ReadmissionIsRecent
    CurrentRefusedForClockOnly
CHECK_DEADLOCK FALSE
