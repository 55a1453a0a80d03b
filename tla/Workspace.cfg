CONSTANTS
    Stages = {"api", "web", "pr"}
    Publisher = "pr"
    Deps <- PrDeps
    Reviewed = {"web"}
    Files = {"main", "page"}
    Owner <- TwoOwners
    Tracked = {"main"}
    Modes = {"single", "per-role"}
    Bounds <- WorkBounds
SPECIFICATION FairSpec
INVARIANTS WorkspaceLives ApprovedKept OnlyApproved CleanAttempt PublishedWhole
PROPERTIES Checkpointed OrphansGo
