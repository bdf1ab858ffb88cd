SPECIFICATION Spec
CONSTANTS
    Jobs = {1}
    Clients = {1, 2}
    Targets <- MCOneJobTargets
    Workers = {w1, w2}
    NoWorker = NoWorker
    ResultStatuses = {"completed", "failed"}
    ActivationJobs = {1}
    RestartJobs = {}
    Kinds <- TransactionKinds
SYMMETRY Symmetry
INVARIANTS
    TypeOK
    JobCompletesWithLastTarget
    CancelReachesEveryTarget
    ClaimedTargetHasRunningJob
    NoClaimOfCanceledTarget
    EventsTellTheOutcome
PROPERTY
    ImplementsAbstractJobs
