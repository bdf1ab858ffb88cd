SPECIFICATION Spec
CONSTANTS
    Jobs <- TwoJobs
    Exclusive <- First
    Activations <- NoJob
    Final = 1
    MaxAttempts = 2
    MaxProcess = 1
    MaxSession = 1
    QueueCap = 2
    PrepareFailures <- NeverFails
INVARIANT RejectedNeverRan
CHECK_DEADLOCK FALSE
