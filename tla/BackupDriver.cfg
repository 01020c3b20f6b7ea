SPECIFICATION Spec
CHECK_DEADLOCK FALSE
CONSTANTS
    Callers = {"c1", "c2"}
    MaxMany = 2
    Scenes <- AllScenes
    NoId = 0
    EnumerateBatchSize = 2
    MaxTries = 2
INVARIANT RequestsAddressed
PROPERTIES AnswersTruthful CallsReturn
