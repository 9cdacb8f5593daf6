\* Two workers, generations of two chunks, requests that fail half-way.
SPECIFICATION Spec
CONSTANTS
    w1 = w1
    w2 = w2
    c1 = c1
    c2 = c2
    Workers = {w1, w2}
    MaxGen = 2
    Chunks = {c1, c2}
    MayFail = TRUE
INVARIANTS OnlySupersededDeleted
PROPERTIES DocumentSpec
SYMMETRY Symmetry
