CONSTANTS
    p1 = p1
    p2 = p2
    Producer <- TwoProducers
    MaxThread = 2
    Size <- Sizes
    MaxTask = 2
    MaxRetry = 1
    MaxGrow = 2
    MaxShrink = 1
SPECIFICATION FairSpec
INVARIANTS
    CounterMatchesQueue
    NobodySleepsOnWork
    ThreadsMatchControl
    
PROPERTIES
    OnlyRunningEndsTask
    TaskIsTaken
\* Producers stop when MaxTask is reached, and then the pool may rest.
CHECK_DEADLOCK FALSE
