SPECIFICATION Spec
CHECK_DEADLOCK FALSE
CONSTANTS
    n1 = n1  n2 = n2  n3 = n3
    refresh1 = refresh1  refresh2 = refresh2  wait1 = wait1  wait2 = wait2  recycle1 = recycle1
    Names = {n1, n2, n3}
    Scenes <- AllScenes
    MaxUuid = 5
INVARIANTS InstalledHasStorageNode RefreshKeepsEveryNode RefreshFindsEveryDriver
PROPERTY ImplementsDirectory
