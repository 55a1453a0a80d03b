CONSTANTS
    Calls = {"c1"}
    MaxEvents = 3
    Capacity = 1
    WireCapacity = 1
    PageSize = 2
    QueryRetries = 0
    Scenes <- AllScenes
SPECIFICATION FairSpec
INVARIANTS TimelineSorted NothingMissed ActivityCurrent
PROPERTIES Settles OnlyJoiningSkips
