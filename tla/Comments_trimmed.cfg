CONSTANTS
    Comments = {c1}
    Callers = {p1}
    None = None
    EngineType <- MCEngineType
    Registrations <- MCRegistrations
    MaxOps = 3
    MaxCrashes = 1
    MaxFailures = 1
    MaxCompactions = 1
    MaxEvents = 2
    MaxMissed = 0
    MaxLag = 1
SPECIFICATION Spec
INVARIANTS Rebuildable
CHECK_DEADLOCK FALSE
