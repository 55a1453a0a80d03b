CONSTANTS
    Stages <- Chain
    Deps <- ChainDeps
    Gates <- MixedGates
    MaxRetries = 2
    Instances = {p1}
    NoInstance = NoInstance
    Publishers = {"api"}
    MaxIterations = 1
    Scenes <- ChainScenes
SPECIFICATION Spec
INVARIANTS TypeOK DependenciesFirst StatusHonest RunEndsOnce RunnersCurrent
PROPERTY ImplementsFlow
