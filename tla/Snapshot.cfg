SPECIFICATION Spec
CONSTANTS
    Server = {n1, n2, n3}
    None = None
    CreateAfterCompact = FALSE
    Crashes = TRUE
    MaxTerm = 2
    MaxLog = 2
CONSTRAINT Explored
SYMMETRY Symmetry
CHECK_DEADLOCK FALSE
INVARIANTS
    DurableStateReconstructs
    MatchIndexIsTrue
PROPERTY NothingIsRolledBack
