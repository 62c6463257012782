SPECIFICATION FairSpec
CONSTANTS
    m1 = m1
    m2 = m2
    stranger = stranger
    Messages  = {m1, m2, stranger}
    Known     = {m1, m2}
    Batches   <- MCBatches
    Calls     = {d1, d2}
    None      = None
    MaxFaults = 2
CHECK_DEADLOCK FALSE
INVARIANTS
    TypeOK
    MarkerIsHonest
    LockGuards
    AcceptedIsAnswered
PROPERTIES
    AnsweredStaysAnswered
    MarkerCarriesItsRun
    EveryBatchAccepted
