SPECIFICATION Spec
CONSTANTS
    w1 = w1
    w2 = w2
    s1 = s1
    s2 = s2
    Workers = {w1, w2}
    NoStream = NoStream
    MaxAttempts = 2
    Settings <- Everything
INVARIANTS TypeOK QuietMeansOver DeletionsJustified CoversSource
PROPERTIES OutcomeFinal
SYMMETRY Symmetry
