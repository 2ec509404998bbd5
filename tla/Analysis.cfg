SPECIFICATION Spec
CONSTANTS
    Sample <- MCSample
    Gold <- MCGold
    NullOf <- MCNullOf
    NoInt = NoInt
    Base = "base"
    Rl = "rl"
    Recent = {"new"}
    KTop = 6
INVARIANTS
    OnlyHolesPadded
    Efficiency
    C7IsNull
    C4NeedsTwins
    TopDecides
    ReplicateReweighs
    TailGapIsHardZero
    NoCrossoverIsExpansion
    PassKIsSubsetShare
CHECK_DEADLOCK FALSE
