SPECIFICATION Spec
CHECK_DEADLOCK FALSE
CONSTANTS
    Callers = {"c1", "c2", "c3"}
    Contexts <- AllContexts
    EssentialRetain = 0
INVARIANTS VolumesSound VolumesAccounted
PROPERTY CallsReturn
