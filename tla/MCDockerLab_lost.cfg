CONSTANTS
    Runs = {r1, r2}
    Creators = {r1, r2}
    NoRun = NoRun
    Nobody = NoRun
    CleanupInterrupts = FALSE
    LateEffects = FALSE
    ReadyDeadline = 2
SPECIFICATION Spec
INVARIANTS
    VerifiedLeavesNothing
PROPERTIES
    StaleHandleFailsClosed
    ImplementsLifecycle
    CancelIsNeverLost
    ExecuteReturns
CHECK_DEADLOCK FALSE
