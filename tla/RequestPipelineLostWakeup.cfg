CONSTANTS
    c1 = c1
    w1 = w1
    w2 = w2
    Client <- OneClient
    Worker <- TwoWorkers
    NoClient = NoClient
    Malformed <- NoMalformed
    RecvCapacity = 2
    MaxBurst = 1
    MaxRequest = 2
    MaxTask = 0
    MaxRepeat = 0
SPECIFICATION FairSpec
PROPERTIES
    StoredIsServed
\* Clients may stop sending: the server may rest.
CHECK_DEADLOCK FALSE
