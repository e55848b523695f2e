CONSTANTS
    k = k
    u = u
    Absent = Absent
    Client = {c1, c2}
    Node = {n1, n2}
    Operation <- WritesAndReads
    MaxOps = 4
    MaxRequest = 2
    MaxCopies = 2
    Schedule <- Schedules
    Boundary <- Boundaries
    Nodes = {"a", "b"}
    Plans <- FaultPlans
    Sends <- SendLinks
    Delays = {0, 1}
    LinkDelays = {2}
    MaxSends = 3
    MaxTime = 2
    MaxFaults = 2
SPECIFICATION PartSpec
CONSTRAINT Explored
SYMMETRY Symmetry
CHECK_DEADLOCK FALSE
INVARIANTS
    ClientsSeeLinearizability
    NoCommittedRequestIsDropped
    RecoveryRestoresTheSession
    OneMinimal
    EventsRunInOrder
