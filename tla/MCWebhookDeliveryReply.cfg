SPECIFICATION Spec
CONSTANTS
    m1 = m1
    m2 = m2
    stranger = stranger
    Messages  = {m1, m2}
    Known     = {m1, m2}
    Batches   <- MCSingle
    Calls     = {d1, d2}
    None      = None
    MaxFaults = 0
CHECK_DEADLOCK FALSE
INVARIANT
    OneReply
