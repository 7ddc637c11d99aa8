CONSTANTS
    Message <- TwoClients
    Capacity = 6
    LengthSize = 1
    PeekSize = 2
    HeaderSize = 3
    PacketSize = 10
    ChunkSize <- Chunks
    Width = 32
    Garbage <- SomeNumbers
SPECIFICATION FairSpec
INVARIANTS
    StoredIsTail
    JobsAreMessages
    NothingPastMalformed

    
\* Clients may stop sending, and the worker then finds no request.
CHECK_DEADLOCK FALSE
