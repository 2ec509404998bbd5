SPECIFICATION Spec
CONSTANTS
    Sample <- MCSample
    Gold <- MCGold
    NullOf <- MCNullOf
    NoInt = NoInt
    Base = "base"
    Rl = "rl"
    Recent = {"new"}
    KTop = 6
INVARIANTS
    NothingInvented
CHECK_DEADLOCK FALSE
