SPECIFICATION Spec
CHECK_DEADLOCK FALSE
CONSTANTS
  Callers = {"m", "g1", "g2"}
  Main = "m"
  Kids <- GoRoutines
  Scenes <- AllScenes
  MaxTries = 2
PROPERTIES  MachinesSound CallsReturn
