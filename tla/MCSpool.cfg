SPECIFICATION FairSpec
CONSTANTS
    a = a
    Targets = {a}
    Events = {1, 2, 3, 4}
    Owner <- OneClient
    Outputs = {1, 2, 4}
    QueueCap = 1
    GlobalCap = 2
    RamCap = 2
    DiskCap = 2
    MaxFaults = 1
    MaxRestarts = 1
INVARIANTS
    TypeOK
    CountersExact
    EveryFileHasOneOwner
PROPERTIES
    FilesOutliveTrouble
    ImplementsContract
    EveryEventSettles
CHECK_DEADLOCK FALSE
