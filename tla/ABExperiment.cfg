CONSTANTS
    Plan <- MCPlan
    Replies <- MCReplies
    Walls = {1, 2}
    Served <- MCServed
    Trials = 2
    Threshold = 10
SPECIFICATION Spec
INVARIANTS
    EvidenceIsComplete
    ArmsDoNotOverlap
    DecisionIsEarned
    ManifestVerifies
PROPERTY
    ExperimentEnds
CHECK_DEADLOCK FALSE
