SPECIFICATION Spec
CONSTANTS
    chief = chief
    deputy = deputy
    root = root
    Nobody = Nobody
    NoDevice = NoDevice
    NoRequest = NoRequest
    NoPurchase = NoPurchase
    Users = {chief, deputy}
    RolesOf <- MCRolesOf
    ManagerOf <- MCManagerOf
    Slots = {s1, s2}
    MaxDevices = 1
    MaxRequests = 1
    MaxPurchases = 1
    MaxSteps = 3
    MaxFaults = 1
    HandStatuses = {"AVAILABLE"}
CHECK_DEADLOCK FALSE
SYMMETRY SlotsAlike
INVARIANTS
    OrderedOnlyApproved
    StatusMatchesAllocation
    AllocatedAfterDecision
PROPERTIES
    AllocatedOnce
