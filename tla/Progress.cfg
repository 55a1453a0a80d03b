CONSTANTS
    Stages <- Fork
    Deps <- ForkDeps
    Gates <- HalfGates
    MaxRetries = 1
    Instances = {p1}
    NoInstance = NoInstance
    Publishers = {}
    MaxIterations = 2
    Scenes <- ProgressScenes
SPECIFICATION FairSpec
INVARIANT BudgetOvershoot
PROPERTIES StagesMoveOn StatusCatchesUp RunnersReturn
