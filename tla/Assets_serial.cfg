SPECIFICATION Spec
CONSTANTS
    chief = chief
    deputy = deputy
    root = root
    Nobody = Nobody
    NoDevice = NoDevice
    NoRequest = NoRequest
    NoPurchase = NoPurchase
    Users = {chief, root}
    RolesOf <- MCRolesOf
    ManagerOf <- MCManagerOf
    Slots = {s1}
    MaxDevices = 2
    MaxRequests = 2
    MaxPurchases = 1
    MaxSteps = 2
    MaxFaults = 1
    HandStatuses = {}
CHECK_DEADLOCK FALSE
INVARIANTS
    AllocatedIffHeld
    SeparationOfDuties
    OneDevicePerPurchase
PROPERTIES
    ShortageRaisesPurchase
    ImplementsRegister
