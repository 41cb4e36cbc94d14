SPECIFICATION Spec
CONSTANTS
    employee = employee
    agent = agent
    manager = manager
    admin = admin
    Nobody = Nobody
    NoJob = NoJob
    s1 = s1
    s2 = s2
    Users = {employee, agent, manager, admin}
    RolesOf <- MCRolesOf
    Slots = {s1, s2}
    JobSlot = s1
    Limit = 0
    Cadence = 1
    MaxDays = 2
    Past <- OnePast
    MaxHolds = 1
    Scenes <- MCScenes
CHECK_DEADLOCK FALSE
INVARIANTS
    StatusTellsDelivery
    EachReaderOnce
    MailOpens
    RemindersSpaced
PROPERTIES
    StrandedByFailure
    CheckSettles
    QueueDrains
