CONSTANTS
    w1 = w1
    w2 = w2
    Tools = {"import", "bundle", "experiment", "replay"}
    Contents <- MCContents
    DocOf <- MCDocOf
    Policies <- MCPolicies
    MaxEdits = 1
    Keys = {"k1", "k2"}
    Signers = {"s1", "s2"}
    Bodies = {"b1", "b2"}
    MaxFileEdits = 3
    Writers = {w1, w2}
    Measured = {w1}
    MaxChanges = 3
    Answers <- MCAnswers
    CaseCount = 2
    Protocols = {"p1", "p2"}
    Workloads = {"h1"}
SPECIFICATION Spec
INVARIANTS
    PromotedAsDeserved
    GatePassIsBacked
    LoadedIsWhole
    PublishedIsWhole
    ReplayPassIsClean
CHECK_DEADLOCK FALSE
