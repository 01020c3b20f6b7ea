SPECIFICATION Spec
CONSTANTS
    TriggerFunctions = {"haIncrease"}
    DisruptiveTriggerFunctions = {"rebootNode"}
    BackupFunctions = {}
    OtherEvents <- MCOtherEvents
    InitialEvents <- MCInitialEvents
    ChanCap = 2
    MinRunTimeSet = TRUE
    MaxInvocations = 2
    HopNames <- MCHopNames
    InitialEndpoints <- OneEndpoint
    InitialHops <- OneHop
    InitiallyEnabled <- AllEnabled
    ConfigMaps = {}
    Threshold = 1
    MaxConfigUpdates = 0
INVARIANTS TriggersExclusive UpgradeExcludesDisruptive UpgradeAfterThreshold
