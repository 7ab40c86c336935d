CONSTANTS
    m1 = m1
    m2 = m2
    m3 = m3
    m4 = m4
    Message = {m1, m2, m3}
    SentTime <- Steady
    NoMessage = none
    SavedCount = 2
    HourlyCap = 1
    Hour = 2
    Year = 9
    IsSigFox = TRUE
    Lateness = 3
    Lasting = 1
    MaxTime = 5
    MaxCrashes = 0
SPECIFICATION Spec
INVARIANT LongTermKept
CHECK_DEADLOCK FALSE
