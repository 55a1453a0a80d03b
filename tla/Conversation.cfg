CONSTANTS
    MaxAttempts = 2
    MaxIterations = 2
    Files <- TreeFiles
    ProtectedFiles = {"env"}
    Tracked = {"doc"}
    Calls <- SomeCalls
    Setups <- SomeSetups
SPECIFICATION FairSpec
INVARIANTS OneLateChange SubmittedIntact TranscriptSound Accounted
PROPERTY RunsEnd
