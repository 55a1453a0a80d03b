CONSTANTS
    Instances = {p1, p2}
    NoInstance = NoInstance
    MaxWakes = 2
    Bounds <- SomeBounds
SPECIFICATION FairSpec
INVARIANT EngineUnderLock
PROPERTIES OnlyFewerJobs ProcessEnds WorkDone
