SPECIFICATION PipelineSpec
CONSTANTS
    Writers = {w1, w2}
    MaxCrashes = 1
    MaxGen = 6
    Contents = {blank, a, b}
    Blank = blank
    MaxAttempts = 2
    MaxContentAttempts = 1
    Reverts = FALSE
    MaxVersion = 2
    MaxWrites = 3
    MaxExtra = 1
SYMMETRY Symmetry
INVARIANTS PipelineTypeOK IndexFollowsSource BudgetKept Converged
PROPERTY DocumentSpec
CHECK_DEADLOCK FALSE
