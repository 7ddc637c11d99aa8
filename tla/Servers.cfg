SPECIFICATION Spec
CONSTANTS
    Slot <- OneSlot
    Slots <- TwoSlots
    MaxSession = 3
    Streams <- OneOrTwo
    Bad <- Malformed
    Room = 1
    AnswerSize <- AnswerSizes
    SendCap <- SendCaps
    RecvCap = 2
    Worker <- OneWorker
    Workers <- TwoWorkers
CHECK_DEADLOCK FALSE
INVARIANTS
    
    AnswersStayInSlot
    
    UnsentIsWatched
PROPERTIES
    
    EndReturns
