SPECIFICATION FairSpec
CONSTANTS
    VMs = {1}
    Broken = {}
    NoBeat = NoBeat
    Deadline = 3
    Stale = 2
    MaxLag = 1
    HasTool = FALSE
    Autostart = TRUE
    Relaunch = FALSE
    UploadsFail = FALSE
    AzFails = FALSE
    DeletesFail = FALSE
    Limit <- MCLimit
PROPERTIES
    FinishedReaped
