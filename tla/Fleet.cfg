SPECIFICATION FairSpec
CONSTANTS
    Vm <- MCVm
    Worker = {0, 1}
    Host <- MCHost
    Unit = {1, 2}
    Owner <- MCOwner
    Bytes = {"b"}
    None = None
    Slot = {"sync"}
    MaxFaults = 1
INVARIANTS
    NoOrphanMarker
    Custody
    CleanExitComplete
PROPERTIES
    LedgerSpec
    EventuallyComplete
CHECK_DEADLOCK FALSE
