CONSTANTS
    Stages <- Solo
    Deps <- SoloDeps
    Gates <- PlanGate
    MaxRetries = 2
    Instances = {p1}
    NoInstance = NoInstance
    Publishers = {}
    MaxIterations = 1
    Scenes <- FaultScenes
SPECIFICATION Spec
INVARIANT FailureStoresNothing
