CONSTANTS
    Jobs = {j1, j2, j3}
    MaxJobs = 2
    RunnerEscapes = TRUE
SPECIFICATION Spec
PROPERTIES
    KeepsContract
    
CHECK_DEADLOCK FALSE
