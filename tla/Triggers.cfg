SPECIFICATION TriggersSpec
CHECK_DEADLOCK FALSE
CONSTANTS
  Callers = {"m", "g1", "g2"}
  Main = "m"
  Kids <- GoRoutines
  Scenes <- AllScenes
  MaxTries = 1
  ErrorChannelSize = 3
  N = 2
  MaxRecords = 3
  MaxEmails = 2
INVARIANTS NoLossWithoutOverlap ReportedOnceInOrder  RecordsSound RequestsServed
PROPERTIES RecordFinal TriggersReturn
