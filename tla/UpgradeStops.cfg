SPECIFICATION FairSpec
CONSTANTS
    TriggerFunctions = {}
    DisruptiveTriggerFunctions = {"rebootNode"}
    BackupFunctions = {}
    OtherEvents <- MCOtherEvents
    InitialEvents <- MCInitialEvents
    ChanCap = 1
    MinRunTimeSet = FALSE
    MaxInvocations = 1
    HopNames <- MCHopNames
    InitialEndpoints <- TwoEndpoints
    InitialHops <- OneHop
    InitiallyEnabled <- TestsEnabled
    ConfigMaps <- Edits
    Threshold = 0
    MaxConfigUpdates = 1
INVARIANTS
    UpgradesInOrder
    NoSendOnClosedChannel
    WaitGroupCounts
PROPERTIES
    TeardownAfterUpgrades
    WaitersRun
