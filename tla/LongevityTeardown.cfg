SPECIFICATION FairSpec
CONSTANTS
    TriggerFunctions = {"haIncrease", "rebootNode"}
    DisruptiveTriggerFunctions = {}
    BackupFunctions = {}
    OtherEvents <- MCOtherEvents
    InitialEvents <- DeployNewApps
    ChanCap = 1
    MinRunTimeSet = TRUE
    MaxInvocations = 1
    InitiallyEnabled <- AllEnabled
    ConfigMaps <- Edits
    MaxConfigUpdates = 1
INVARIANTS
    AppsTornDown
