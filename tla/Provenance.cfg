SPECIFICATION Spec
CONSTANTS
    ma = ma
    mb = mb
    ds = ds
    q1 = q1
    q2 = q2
    q3 = q3
    m1 = m1
    m2 = m2
    boxed = boxed
    fewshot = fewshot
    Model = {ma, mb}
    Dataset = {ds}
    Arm <- MCArm
    Machine = {m1, m2}
    Upstream <- MCUpstream
    None = None
    Refreeze = FALSE
    Shared = TRUE
    MaxEdits = 1
    MaxEpoch = 2
    MaxModel = 2
    MaxDataset = 2
    MaxProblem = 2
    MaxSample = 3
INVARIANTS SeedsUnique SeedsTraceable BlocksDisjoint GoldMatchesQuestion
SYMMETRY Symmetry
CHECK_DEADLOCK FALSE
