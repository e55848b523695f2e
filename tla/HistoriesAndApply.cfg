CONSTANTS
    k = k
    m = m
    u = u
    Absent = Absent
    Client = {"client"}
    Operation <- KeyOperations
    MaxOps = 4
    Server = {n1, n2}
    Request = {a, b}
    NoOp = NoOp
    None = None
    MaxSlot = 2
    Window = 1
    Attempts = 2
SPECIFICATION PartSpec
CONSTRAINT Explored
SYMMETRY Symmetry
INVARIANTS
    CheckersAreExact
    MachinesFollowTheLog
    RealTimeOrder
    AnswersAreFinal
