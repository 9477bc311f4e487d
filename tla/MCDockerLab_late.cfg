CONSTANTS
    Runs = {r1, r2}
    Creators = {r1, r2}
    NoRun = NoRun
    Nobody = NoRun
    CleanupInterrupts = TRUE
    LateEffects = TRUE
    ReadyDeadline = 2
SPECIFICATION Spec
SYMMETRY Symmetry
INVARIANTS
    TypeOK
    SuccessLeavesNothing
    WorkSeesOwnEndpoint
    SingleFlight
    FinalizerComplete
    ResultIsEarned
CHECK_DEADLOCK FALSE
