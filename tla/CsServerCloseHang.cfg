CONSTANTS
    MaxClient = 2
    MaxSession = 1
    MaxRequest <- JustOne
    AnswerSize = 2
    MaxThrow = 0
SPECIFICATION ClientsLeave
PROPERTIES
    CloseReturns
\* Close ends the server.
CHECK_DEADLOCK FALSE
