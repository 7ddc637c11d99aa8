SPECIFICATION Spec
CONSTANTS
    Slot = {1}
    IOThread = {io1, io2}
    MaxBatch = 2
    MaxClient = 2
    MaxSend = 2
    MaxSocket = 5
\* End ends the server.
CHECK_DEADLOCK FALSE
INVARIANTS
    ReceiveInOnePlace
PROPERTIES
    
    EndReturns
