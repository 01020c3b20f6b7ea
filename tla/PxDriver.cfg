SPECIFICATION Spec
CHECK_DEADLOCK FALSE
CONSTANTS
    Callers = {"c1", "c2"}
    Workers <- MCWorkers
    Scenes <- AllScenes
    MaxTries = 2
PROPERTIES VolumeCallsSound NodeCallsSound CallsReturn
