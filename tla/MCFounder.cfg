SPECIFICATION FounderSpec
CONSTANTS
    Flows     <- MCFlows
    Steps     <- AllSteps
    Chart     <- MCChart
    Gathering <- MCGathering
    Triggers  <- MCTriggers
    Starter   <- StartTriggers
    Bills     = {b1, b2, b3}
    MaxBatch  = 3
    OpIds     = {o1, o2}
    None      = None
    Files      <- MCFiles
    MaxUploads = 3
    p1 = p1
    p2 = p2
    unreadable = unreadable
    silent = silent
CHECK_DEADLOCK FALSE
INVARIANTS
    AllTypesOK
    ConversationHangsTogether
    ReuploadAddsNothing
    EveryRowOnceAndWhole
PROPERTIES
    BillsGoInTurn
    OneAnswerOneQuestion
    SwitchNeedsConsent
    NoBillStaysQueued
    EveryUploadEnds
