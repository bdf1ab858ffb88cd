SPECIFICATION Spec
CONSTANTS
    Jobs = {1, 2}
    Targets = {1, 2}
    JobOf <- MCJobOf
    Owners = {w1, w2}
    NoOwner = NoOwner
    NoJob = NoJob
    MaxFailures = 1
    CatchUpLimit = 2
    MaxCount = 1
    MaxRevision = 1
SYMMETRY Symmetry
INVARIANTS TypeOK JobEventLast SummarySettles
PROPERTIES SettledStays NoBlameFromOldDefinitions
CHECK_DEADLOCK FALSE
