CONSTANTS
    Ids = {"a", "b", "c"}
    Agents = {"publisher", "be", "fe"}
    BuiltIn = "publisher"
    Patterns <- SomePatterns
    Paths <- SomePaths
    PipelineFiles <- SomePipelines
    AgentFiles <- SomeAgents
    Wild = {"*", "**"}
    Guarded = {"secrets"}
SPECIFICATION FairSpec
INVARIANTS CyclesFound OneOwner
PROPERTY Ends
