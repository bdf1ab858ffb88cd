SPECIFICATION Spec
CONSTANTS
    Jobs = {1, 2}
    Clients = {1, 2}
    Targets <- MCTargets
    Workers = {w1, w2}
    NoWorker = NoWorker
    ResultStatuses = {"completed"}
    ActivationJobs = {}
    RestartJobs = {}
    Kinds = {"claim", "result"}
INVARIANT
    NoLockCycle
