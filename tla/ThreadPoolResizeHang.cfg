CONSTANTS
    p1 = p1
    p2 = p2
    Producer <- OneProducer
    MaxThread = 2
    Size <- StartAndStop
    MaxTask = 2
    MaxRetry = 0
    MaxGrow = 1
    MaxShrink = 1
SPECIFICATION FairSpec
PROPERTIES
    ResizeReturns
CHECK_DEADLOCK FALSE
