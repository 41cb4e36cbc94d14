SPECIFICATION Spec
CONSTANTS
    employee = employee
    agent = agent
    admin = admin
    Nobody = Nobody
    System = System
    NoTicket = NoTicket
    NoTime = NoTime
    Users = {admin}
    RolesOf <- MCRolesOf
    Requests = {r1}
    Workers = {w1}
    MaxTickets = 1
    MaxTime = 4
    MaxComments = 1
    MaxFaults = 0
    SlaTargets = {2}
    ReopenWindow = 1
    IntMax = 4
    Serial = TRUE
CHECK_DEADLOCK FALSE
PROPERTIES
    ImplementsWorkflow
    ReopenedInWindow
