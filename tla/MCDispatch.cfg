SPECIFICATION Spec
CONSTANTS
    Jobs <- OneJob
    Exclusive <- NoJob
    Activations <- OneJob
    Final = 1
    MaxAttempts = 2
    MaxProcess = 2
    MaxSession = 2
    QueueCap = 1
    PrepareFailures <- EitherFails
INVARIANT TypeOK
INVARIANT RunsAtMostOnce
INVARIANT CompletedHasEvidence
INVARIANT OnlyBoundProcessRuns
PROPERTY LateOutputIsIgnored
CHECK_DEADLOCK FALSE
