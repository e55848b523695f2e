CONSTANTS
    a = a
    b = b
    c = c
    None = None
    Server = {a, b, c}
    Bootstraps <- InitialVoters
    Targets <- ProposedVoters
    MaxTerm = 3
    MaxLog = 2
    MaxTimeoutNow = 2
    MaxAttempt = 2
SPECIFICATION TransferSpec
CONSTRAINT Explored
SYMMETRY Symmetry
CHECK_DEADLOCK FALSE
INVARIANTS
    ElectionSafety
    MembershipIsRecovered
    TransfersAreFenced
