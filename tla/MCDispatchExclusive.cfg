SPECIFICATION Spec
CONSTANTS
    Jobs <- TwoJobs
    Exclusive <- First
    Activations <- NoJob
    Final = 1
    MaxAttempts = 1
    MaxProcess = 1
    MaxSession = 2
    QueueCap = 1
    PrepareFailures <- NeverFails
INVARIANT ExclusiveRunsAlone
CHECK_DEADLOCK FALSE
