CONSTANTS
    MaxAttempts = 1
    MaxIterations = 2
    Files <- TreeFiles
    ProtectedFiles = {"env"}
    Tracked = {"doc"}
    Calls <- LargeCalls
    Setups <- OneSetup
SPECIFICATION Spec
INVARIANT DeliverableWhole
