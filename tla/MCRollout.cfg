SPECIFICATION FairSpec
CONSTANTS
    Targets <- FourTargets
    Batch <- BatchesOfTwo
    LastBatch <- Last
    Policies <- SomePolicies
    MaxRequests = 2
    MaxCrashes = 1
INVARIANTS TypeOK BatchesInOrder FailureGate CanaryReviewed CompletedMeansDone
PROPERTIES AbortIsFinal PauseHolds RolloutMoves
CHECK_DEADLOCK FALSE
