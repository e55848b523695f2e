CONSTANTS
    Server = {1, 2, 3}
    Slot = {1, 2}
    Value = {a, b}
    NoOp = NoOp
    None = None
    Hints = {3}
    Candidate = {1, 2, 3}
    MaxRound = 2
    MaxBallots = 2
SPECIFICATION Spec
CONSTRAINT Explored
SYMMETRY Symmetry
INVARIANTS
    OneValuePerBallot
PROPERTIES
    DecisionsSurvive
    SlotsImplementConsensus
