CONSTANTS
    NodeId = {n1, n2, n3}
    Nobody = Nobody
    MaxTerm = 2
    MaxMessages = 5
    Server = {1, 2, 3}
    Slot = {1, 2}
    Proposer = {1, 2}
    Value = {a, b}
    None = None
    Recovering = TRUE
    MaxRound = 2
    MaxProposals = 2
SPECIFICATION PartSpec
CONSTRAINT Explored
SYMMETRY Symmetry
INVARIANTS
    ElectionTypeOK
    ElectionSafety
    GenerationTracksLeadership
    TimerArmedUnlessLeading
PROPERTIES
    VoteIsFinal
    DecisionsSurvive
    SlotsImplementPaxos
