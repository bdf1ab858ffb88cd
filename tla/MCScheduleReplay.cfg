SPECIFICATION Spec
CONSTANTS
    Jobs = {1, 2}
    Targets = {1, 2}
    JobOf <- MCJobOf
    Owners = {w1}
    NoOwner = NoOwner
    NoJob = NoJob
    MaxFailures = 1
    CatchUpLimit = 2
    MaxCount = 2
    MaxRevision = 0
INVARIANT FailureCountedOnce
CHECK_DEADLOCK FALSE
