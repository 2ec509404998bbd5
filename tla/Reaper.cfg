SPECIFICATION FairSpec
CONSTANTS
    VMs = {1, 2}
    Broken = {1}
    NoBeat = NoBeat
    Deadline = 1
    Stale = 1
    MaxLag = 1
    HasTool = FALSE
    Autostart = TRUE
    Relaunch = FALSE
    UploadsFail = TRUE
    AzFails = TRUE
    DeletesFail = TRUE
    Limit <- MCLimit
PROPERTIES
    DeadReaped
    WorkingSpared
