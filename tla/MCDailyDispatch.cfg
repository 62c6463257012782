SPECIFICATION FairSpec
CONSTANTS
    None = None
    Sessions = {s1, s2}
    BriefingHour = 0
    RetryHour = 1
    EveningHour = 0
    LastHour = 1
    MaxFaults = 1
INVARIANTS
    TypeOK
    NothingTwice
    ClaimsAreSettled
PROPERTIES
    DayIsServed
