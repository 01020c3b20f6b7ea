SPECIFICATION FairSpec
CONSTANTS
    TriggerFunctions = {}
    DisruptiveTriggerFunctions = {}
    BackupFunctions = {"createPxBackup", "deployBackupApps"}
    OtherEvents <- MCOtherEvents
    InitialEvents <- BackupSetup
    ChanCap = 2
    MinRunTimeSet = TRUE
    MaxInvocations = 2
    InitiallyEnabled <- AllEnabled
    ConfigMaps <- Edits
    MaxConfigUpdates = 1
INVARIANT RecordsAccounted
PROPERTIES TurnsUnbroken ExitsAfterMinRunTime
