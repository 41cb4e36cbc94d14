SPECIFICATION FairSpec
CONSTANTS
    employee = employee
    agent = agent
    admin = admin
    Nobody = Nobody
    System = System
    NoTicket = NoTicket
    NoTime = NoTime
    Users = {admin}
    RolesOf <- MCRolesOf
    Requests = {r1}
    Workers = {w1}
    MaxTickets = 1
    MaxTime = 2
    MaxComments = 0
    MaxFaults = 0
    SlaTargets = {1}
    ReopenWindow = 0
    IntMax = 2
    Serial = FALSE
CHECK_DEADLOCK FALSE
PROPERTIES
    BreachIsHandled
    WarningIsRecorded
