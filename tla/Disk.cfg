SPECIFICATION FairSpec
CONSTANTS
    Worker = {0, 1}
    Unit = {1, 2}
    Owner <- MCOwner
    Dir <- MCDir
    MaxFaults = 2
INVARIANTS
    MarkedIsWhole
    SurvivorCovers
PROPERTIES
    ReturnedStaysDone
    ActsAtomically
    EventuallyMarked
