CONSTANTS
    Stages <- Fork
    Deps <- ForkDeps
    Gates <- NoGates
    MaxRetries = 2
    Instances = {p1}
    NoInstance = NoInstance
    Publishers = {"api"}
    MaxIterations = 1
    Scenes <- QuietScenes
SPECIFICATION Spec
PROPERTY ResumeRetries
