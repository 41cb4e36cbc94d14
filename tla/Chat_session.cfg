SPECIFICATION Spec
CONSTANTS
    c1 = c1
    c2 = c2
    Calls = {c1, c2}
    Waiting = Waiting
    MaxMessages = 3
    MaxFaults = 1
    Tasks = {t1}
    Scheduled = t0
    Editors = {e1, e2}
    MaxVersion = 3
CHECK_DEADLOCK FALSE
INVARIANTS
    SecondTicketNeedsFault
    ConfirmedOrFailed
PROPERTIES
    IndexSettles
