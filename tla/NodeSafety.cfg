SPECIFICATION Spec
CONSTANTS
    Vm <- MCVm
    Worker = {0, 1}
    Host <- MCHost
    Unit = {1, 2}
    Owner <- MCOwner
    Bytes = {"b"}
    None = None
    Slot = {"sync", "watch"}
    MaxFaults = 2
INVARIANTS
    SweptInv
CHECK_DEADLOCK FALSE
