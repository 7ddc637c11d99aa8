CONSTANTS
    Capacity = 3
    MaxBufs = 2
    SegmentSize = 3
    Size <- TwoSmall
    MaxSession = 2
SPECIFICATION FairSpec
PROPERTIES
    ClientGetsItsPackets
CHECK_DEADLOCK FALSE
