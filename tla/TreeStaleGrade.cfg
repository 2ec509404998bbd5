SPECIFICATION Spec
CONSTANTS
    P = 1
    N = 2
    Chunk = {1, 2}
    Workers = {1}
    Shrink = FALSE
    Take = {1, 2}
    None = None
    Commands = {"redo", "grade"}
    MaxEdits = 1
INVARIANTS
    AnalysisSeesTree
CHECK_DEADLOCK FALSE
