SPECIFICATION FairSpec
CONSTANTS
    Server = {1, 2, 3}
    Value = {a}
    None = None
    MaxRound = 2
    MaxProposals = 2
CHECK_DEADLOCK FALSE
PROPERTY EveryoneLearns
