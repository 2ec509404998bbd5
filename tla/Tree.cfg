SPECIFICATION Spec
CONSTANTS
    P = 3
    N = 2
    Chunk = {1, 2}
    Workers = {1, 2}
    Shrink = FALSE
    Take = {t1, t2}
    None = None
    Commands = {"rechunk", "resize", "delete", "grade"}
    MaxEdits = 2
SYMMETRY Takes
INVARIANTS
    VerifiedExact
    AnalysisSeesTree
    FinishedRunVerifies
CHECK_DEADLOCK FALSE
