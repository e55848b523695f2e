SPECIFICATION Spec
CONSTANTS
    Server = {1, 2, 3}
    Value = {a, b}
    None = None
    MaxRound = 2
    MaxProposals = 2
SYMMETRY Symmetry
INVARIANTS TypeOK Agreement PromisesAreKept NoSafetyViolation
PROPERTY ImplementsConsensus
