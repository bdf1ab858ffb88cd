SPECIFICATION Spec
CONSTANTS
    o = o
    a = a
    Torn = Torn
    None = None
    Jobs = {1, 2, 3}
    Kind <- KindManaged
    Image <- ImageManaged
    Restarting = {1, 2}
    Unmanaged = {1}
    Images = {o, a}
    Original = o
    MaxStops = 1
    MaxHellos = 1
INVARIANTS ActiveIsWhole ConfirmedIsRunning
CHECK_DEADLOCK FALSE
