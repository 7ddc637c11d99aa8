CONSTANTS
    MaxClient = 2
    MaxSession = 2
    MaxRequest <- NoneAndTwo
    AnswerSize = 2
    MaxThrow = 1
SPECIFICATION FairSpec
INVARIANTS
    IndexInOnePlace
    RegisteredAsItself
    AnswersComplete
    NoLoopAfterClose
PROPERTIES
    AnswerIsSent
\* Close ends the server.
CHECK_DEADLOCK FALSE
