SPECIFICATION Spec
CONSTANTS
    ada = ada
    alan = alan
    Admins = {ada, alan}
    Cells <- MCCells
    Words <- MCWords
    Folded <- MCFolded
    Files = {"first", "second"}
    Workbook <- MCWorkbook
    Types <- DeviceTypes
    InitialDevices <- MCInitialDevices
    ByHand <- MCByHand
    MaxCommits = 3
    MaxFaults = 1
    NoFile = "none"
    NoDevice = NoDevice
SYMMETRY MCTwins
INVARIANTS
    ReimportCreatesNothing
    UnreportedIsRegistered
