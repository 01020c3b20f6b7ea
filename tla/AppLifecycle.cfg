SPECIFICATION Spec
CHECK_DEADLOCK FALSE
CONSTANTS
    Callers = {"c1", "c2"}
    Apps = {"web", "op", "chart", "other"}
    Tests <- AllTests
INVARIANT AppsSound
PROPERTIES NoCrossDeletion CallsReturn
