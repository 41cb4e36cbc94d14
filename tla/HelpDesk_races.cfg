SPECIFICATION Spec
CONSTANTS
    employee = employee
    agent = agent
    admin = admin
    Nobody = Nobody
    System = System
    NoTicket = NoTicket
    NoTime = NoTime
    Users = {employee, admin}
    RolesOf <- MCRolesOf
    Requests = {r1, r2}
    Workers = {}
    MaxTickets = 1
    MaxTime = 0
    MaxComments = 0
    MaxFaults = 0
    SlaTargets = {}
    ReopenWindow = 0
    IntMax = 2
    Serial = FALSE
CHECK_DEADLOCK FALSE
SYMMETRY Alike
INVARIANTS
    HistoryExplainsStatus
    DatesStamped
    RowsWithinAuthority
