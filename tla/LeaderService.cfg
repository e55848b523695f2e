SPECIFICATION Spec
CONSTANTS
    Server = {n1, n2, n3}
    Request = {w}
    Barrier = Barrier
    None = None
    Operation = {"write", "read", "check"}
    MaxAttempts = 2
    MaxTerm = 2
    MaxLog = 2
CONSTRAINT Explored
SYMMETRY Symmetry
CHECK_DEADLOCK FALSE
INVARIANTS
    AnswersAreCurrent
    AcknowledgedWritesStay
