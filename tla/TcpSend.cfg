CONSTANTS
    Capacity = 4
    MaxBufs = 2
    SegmentSize = 3
    Size <- FiveSmall
    MaxSession = 3
SPECIFICATION FairSpec
INVARIANTS
    OneSendInFlight
    KernelBytesAreStored
    StreamInOrder
    FreedOnceSent
PROPERTIES
    SentBeforeAnyPeerGoes
\* The peers stop sending requests and the slot may rest.
CHECK_DEADLOCK FALSE
