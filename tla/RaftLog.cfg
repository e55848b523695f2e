SPECIFICATION Spec
CONSTANTS
    Server = {n1, n2, n3}
    None = None
    Value = {v}
    MaxTerm = 4
    MaxLog = 2
    MaxInFlight = 2
    MaxApplied = 2
CONSTRAINT Explored
SYMMETRY Symmetry
INVARIANTS
    TypeOK
    LogMatching
    MatchIndexIsTrue
    LeaderCompleteness
    AppliedStaysInLog
    StateMachineSafety
PROPERTY LeaderAppendOnly
