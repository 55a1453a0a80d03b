CONSTANTS
    Stages <- Solo
    Deps <- SoloDeps
    Gates <- PlanGate
    MaxRetries = 1
    Instances = {p1, p2}
    NoInstance = NoInstance
    Publishers = {}
    MaxIterations = 1
    Scenes <- OverlapScenes
SPECIFICATION Spec
INVARIANTS ReviewHistory RetryFresh CopiesFenced ExecutesAcceptedPlan
PROPERTIES NeverUndone ImplementsFlow
SYMMETRY Swap
