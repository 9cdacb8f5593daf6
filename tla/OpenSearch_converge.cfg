\* Two writers that do not see each other's chunks yet.
SPECIFICATION Spec
CONSTANTS
    w1 = w1
    w2 = w2
    c1 = c1
    c2 = c2
    Workers = {w1, w2}
    MaxGen = 2
    Chunks = {c1, c2}
    MayFail = FALSE
INVARIANT Converged
