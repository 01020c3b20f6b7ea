SPECIFICATION Spec
CHECK_DEADLOCK FALSE
CONSTANTS
  Callers = {"m", "g1", "g2"}
  Main = "m"
  Waiter = "g1"
  Striker = "g2"
  Workers <- WorkerNodes
  Scenes <- AllScenes
  MaxTries = 2
  MaxErrors = 10
PROPERTIES ResiliencySound DataServicesSound CallsReturn
