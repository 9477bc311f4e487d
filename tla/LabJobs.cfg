CONSTANTS
    Jobs = {j1, j2}
    MaxJobs = 1
    EventBound = 4
    MaxSamples = 1
    MaxUpdates = 1
    Reported = {"PULLING", "READY"}
    ExecutorEscapes = TRUE
SPECIFICATION Spec
INVARIANTS
    OneActive
    ResultExposure
    EventsInOrder
PROPERTIES
    TerminalFrozen
    KeepsContract
    JobsEnd
CHECK_DEADLOCK FALSE
