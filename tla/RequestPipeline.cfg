CONSTANTS
    c1 = c1
    w1 = w1
    w2 = w2
    Client <- OneClient
    Worker <- TwoWorkers
    NoClient = NoClient
    Malformed <- ThirdMalformed
    RecvCapacity = 2
    MaxBurst = 2
    MaxRequest = 3
    MaxTask = 2
    MaxRepeat = 1
SPECIFICATION FairSpec
INVARIANTS
    MutualExclusion
    StageMatchesJob
    RetryIsScheduled
    NothingOvertaken
    ReplyOrder
PROPERTIES
    ImplementsService
    InterruptedIsFinished
