SPECIFICATION Spec
CONSTANTS
    employee = employee
    agent = agent
    admin = admin
    Nobody = Nobody
    System = System
    NoTicket = NoTicket
    NoTime = NoTime
    Users = {agent}
    RolesOf <- MCRolesOf
    Requests = {r1}
    Workers = {w1, w2}
    MaxTickets = 1
    MaxTime = 2
    MaxComments = 0
    MaxFaults = 1
    SlaTargets = {1}
    ReopenWindow = 0
    IntMax = 1
    Serial = FALSE
CHECK_DEADLOCK FALSE
SYMMETRY WorkersAlike
INVARIANTS
    CutOffCosts
    EscalatedOnlyPastDue
    WarnedOnceAndLate
PROPERTIES
    RecordsOnlyGrow
