SPECIFICATION Spec
CONSTANTS
    employee = employee
    agent = agent
    admin = admin
    Nobody = Nobody
    System = System
    NoTicket = NoTicket
    NoTime = NoTime
    Users = {admin}
    RolesOf <- MCRolesOf
    Requests = {r1}
    Workers = {}
    MaxTickets = 1
    MaxTime = 2
    MaxComments = 0
    MaxFaults = 0
    SlaTargets = {}
    ReopenWindow = 0
    IntMax = 1
    Serial = TRUE
CHECK_DEADLOCK FALSE
PROPERTIES
    AllowedIsWritten
