CONSTANTS
    MaxClient = 2
    Base = 8
    MaxTime = 2
    MaxSession = 2
    MaxDatagram = 2
SPECIFICATION Spec
INVARIANTS
    
    DatagramsStayInTheirSlot

    
\* Clients need not send anything, and the server may rest.
CHECK_DEADLOCK FALSE
