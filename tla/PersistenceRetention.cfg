CONSTANTS
    m1 = m1
    m2 = m2
    m3 = m3
    m4 = m4
    Message = {m1, m2, m3, m4}
    SentTime <- Bursty
    NoMessage = none
    SavedCount = 1
    HourlyCap = 2
    Hour = 2
    Year = 2
    IsSigFox = TRUE
    Lateness = 0
    Lasting = 1
    MaxTime = 4
    MaxCrashes = 1
SPECIFICATION Spec
INVARIANTS TypeOK  MetadataBounded StatsCapped KeptWhenQuiet
CHECK_DEADLOCK FALSE
