CONSTANTS
    m1 = m1
    m2 = m2
    tail = tail
    servo = servo
    lift = lift
    yaw = yaw
    surface = surface
    NaN = NaN
    Full = 4
    MaxAge = 2
    MaxConsecutive = 1
    Channels <- MCChannels
    Groups <- MCGroups
    Members <- MCMembers
    Strong <- MCStrong
    SafePattern <- MCSafePattern
    SafeValid <- MCSafeValid
    SafeOutput <- MCSafeOutput
    SlewLimit <- MCSlewLimit
    RawOutputs <- MCRawOutputs
SPECIFICATION Spec
INVARIANTS
    GroupsEmitInRange
    StaleVectorExpires
    LimitReportIsExact
PROPERTY
    SlewIsRespected
