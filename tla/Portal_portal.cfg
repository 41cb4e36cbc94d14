SPECIFICATION Spec
CONSTANTS
    Scenes <- AllScenes
    Users = {}
    RolesOf = {}
CHECK_DEADLOCK FALSE
INVARIANTS
    OwnWriteShown
    OfferedIsAccepted
    HolderCanPlay
PROPERTY
    PollsCatchUp
