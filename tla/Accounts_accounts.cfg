SPECIFICATION Spec
CONSTANTS
    root = root
    chief = chief
    guest = guest
    Nobody = Nobody
    NoAccount = NoAccount
    Users = {root, chief, guest}
    Seeded = {root, chief}
    RolesOf <- MCRolesOf
    Slots = {s1, s2}
    Grants = {{"IT_ADMIN"}, {"SYS_ADMIN"}}
    MAX_FAILED_ATTEMPTS = 2
    Window = 1
    MaxTime = 2
    MaxFaults = 1
    MaxLogins = 2
    Operations <- MCOperations
SYMMETRY Alike
CHECK_DEADLOCK FALSE
INVARIANTS
    TriesBounded
    DecisionsStand
    SysAdminRemains
    StatesUsedOnce
