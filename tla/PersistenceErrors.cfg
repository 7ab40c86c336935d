CONSTANTS
    m1 = m1
    m2 = m2
    m3 = m3
    m4 = m4
    Message = {m1, m2}
    SentTime <- Together
    NoMessage = none
    SavedCount = 2
    HourlyCap = 1
    Hour = 2
    Year = 9
    IsSigFox = TRUE
    Lateness = 0
    Lasting = 1
    MaxTime = 1
    MaxCrashes = 0
SPECIFICATION Spec
PROPERTY SubscriberErrorsContained
CHECK_DEADLOCK FALSE
