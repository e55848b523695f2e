CONSTANTS
    a = a
    b = b
    c = c
    d = d
    None = None
    Server = {a, b, c, d}
    Bootstraps <- InitialVoters
    Targets <- ProposedVoters
    MaxTerm = 2
    MaxLog = 2
SPECIFICATION Spec
CONSTRAINT Explored
CHECK_DEADLOCK FALSE
INVARIANTS
    CommittedEntriesAgree
