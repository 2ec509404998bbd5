SPECIFICATION FairSpec
CONSTANTS
    Vm = {v0, v1, v2}
    Lead = v0
    Dataset = {1, 2}
    Revision = {r1, r2}
    None = None
    MaxPolls = 2
    MaxPulls = 3
    AtomicPublish = TRUE
    KeptDisk = FALSE
    MaxLost = 1
    MaxFailures = 1
INVARIANTS
    OneManifest
PROPERTIES
    WriteOnce
    EventuallyPlanned
CHECK_DEADLOCK FALSE
