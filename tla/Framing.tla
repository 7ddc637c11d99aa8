------------------------------ MODULE Framing -------------------------------
(***************************************************************************)
(* How the bytes of one connection slot become requests (SlideBuffer.cpp,  *)
(* Connection.cpp, ParseReq of GameServer.cpp): the IO thread appends each *)
(* received chunk to the slot's receive buffer; the worker that holds the  *)
(* slot's ProcessLock reads the length in front of the buffer and, once    *)
(* that many bytes are stored, makes a job of them and removes them.       *)
(*                                                                         *)
(* m_RecvLock is held for each of these calls alone: between the worker's  *)
(* calls chunks are stored.  When the client goes, the IO thread that      *)
(* disconnects it clears the buffer without the lock, also in the middle   *)
(* of a call, and the slot's next client fills it again.                   *)
(*                                                                         *)
(* RequestPipeline models how the workers come to serve the slot; here one *)
(* of them always may.                                                     *)
(***************************************************************************)
EXTENDS Naturals, Sequences

CONSTANTS
    Message,        \* Message[s][m]: the m-th message client s sends
    Capacity,       \* MAX_RECV_SLIDEBUFFER_SIZE
    LengthSize,     \* size of msgSize, the first field of a message: 4
    PeekSize,       \* stored bytes from which on Peek looks at msgSize: 5
    HeaderSize,     \* HEADER_SIZE: 12
    PacketSize,     \* PACKET_SIZE, the longest message that is not "too big"
    ChunkSize,      \* sizes that chunks come in, up to MAX_SOCKBUF
    Width,          \* m_Size is a uint32_t: it is counted modulo Width, 2^32
    Garbage         \* numbers that bytes other than a msgSize may be read as

\* A message has a length, the value of its msgSize, and a type that is known to
\* JobFactory or not.
ASSUME FramingAssumption ==
    /\ Message \in Seq(Seq([length : Nat \ {0}, msgSize : Nat, known : BOOLEAN]))
    /\ Capacity \in Nat \ {0} /\ PacketSize \in Nat /\ ChunkSize \subseteq Nat \ {0}
    /\ LengthSize \in Nat \ {0} /\ PeekSize \in Nat /\ HeaderSize \in Nat
    /\ Width \in Nat \ {0} /\ \A n \in ChunkSize : Capacity + n < Width /\ PacketSize < Width
    /\ LengthSize < PeekSize /\ PeekSize <= HeaderSize /\ PeekSize <= Capacity
    /\ Garbage \subseteq Nat

Client == DOMAIN Message
Unset == <<>>   \* a byte of the buffer that was never written

VARIABLES
    m_pData,    \* the memory of the buffer
    m_Size,     \* how many of its bytes, from the first, are stored
    session,    \* number of clients the slot has had
    connected,
    received,   \* bytes received from the present client
    chunk,      \* bytes that an IO thread is in Enqueue with, or <<>>
    pc,         \* where the worker is in ParseReq
    view,       \* length of the std::string_view it was given
    seen,       \* the m_Size that the holder of m_RecvLock has read, 0 if there is none
    jobs,       \* jobs[s]: history: contents of the jobs made while s was the client
                \* and not broken
    broken      \* history: clients whose stream the server cut (a chunk was dropped),
                \* who came while a call for the last one was going on, or around
                \* whose going the buffer was cleared in the middle of a call

memVars == <<m_pData, m_Size>>
connVars == <<session, connected, received>>
workerVars == <<pc, view>>
history == <<jobs, broken>>
vars == <<memVars, connVars, workerVars, chunk, seen, history>>

\* Byte <<s, m, k>> is the k-th of message m of client s.
BytesOf(s, m) == [k \in 1 .. Message[s][m].length |-> <<s, m, k>>]

Stream ==
    [s \in Client |->
        LET upTo[m \in 0 .. Len(Message[s])] ==
                IF m = 0 THEN <<>> ELSE upTo[m - 1] \o BytesOf(s, m)
        IN  upTo[Len(Message[s])]]

Stored == SubSeq(m_pData, 1, m_Size)

Init ==
    /\ m_pData = [i \in 1 .. Capacity |-> Unset]
    /\ m_Size = 0
    /\ session = 0
    /\ connected = FALSE
    /\ received = 0
    /\ chunk = <<>>
    /\ pc = "idle"
    /\ view = 0
    /\ seen = 0
    /\ jobs = [s \in Client |-> <<>>]
    /\ broken = {}

-----------------------------------------------------------------------------
(* SlideBuffer.  Enqueue and Pop check the size, move bytes, and change the *)
(* size; Clear may come between the steps.                                  *)
(*                                                                          *)
(* (Here and below, an operator or action commented as a fault is not part  *)
(* of the model: it is the definition after it with a plausible mistake.)   *)

m_RecvLock == IF chunk # <<>> THEN "io" ELSE IF pc = "popping" THEN "worker" ELSE "free"

Fits(n) == (m_Size + n) % Width <= Capacity

\* Enqueue, after its check: the bytes are appended.  m_Size is read for the copy
\* and for the sum, and may have been cleared before either.  (Memory past the
\* buffer is not modelled.)
Enqueue ==
    /\ chunk # <<>>
    /\ \E read \in {<<seen, seen>>, <<seen, m_Size>>, <<m_Size, m_Size>>} :
         /\ m_pData' = [i \in 1 .. Capacity |->
                           IF i \in read[1] + 1 .. read[1] + Len(chunk)
                           THEN chunk[i - read[1]] ELSE m_pData[i]]
         /\ m_Size' = (read[2] + Len(chunk)) % Width
    /\ chunk' = <<>>
    /\ seen' = 0
    /\ UNCHANGED <<connVars, workerVars, history>>

\* Fault: one byte too many is removed.
PopOneMore ==
    /\ pc = "popping"
    /\ m_pData' = [i \in 1 .. Capacity |->
                       IF i + view + 1 <= Capacity THEN m_pData[i + view + 1] ELSE m_pData[i]]
    /\ m_Size' = IF m_Size > view THEN m_Size - view - 1 ELSE 0
    /\ pc' = "idle"
    /\ view' = 0
    /\ seen' = 0
    /\ UNCHANGED <<connVars, chunk, history>>

\* Pop, after its check: as many bytes as the view had are removed from whatever
\* is stored, and the rest moves to the front.  (If m_Size was cleared before the
\* move, its length is past any memory and the program ends.)
Pop ==
    /\ pc = "popping"
    /\ m_pData' = [i \in 1 .. Capacity |->
                       IF i <= seen - view /\ i + view <= Capacity THEN m_pData[i + view] ELSE m_pData[i]]
    /\ \E read \in {seen, m_Size} : m_Size' = (read + Width - view) % Width
    /\ pc' = "idle"
    /\ view' = 0
    /\ seen' = 0
    /\ UNCHANGED <<connVars, chunk, history>>

Messages == UNION {{s} \X DOMAIN Message[s] : s \in Client}

\* The stored bytes begin with n bytes of one message, from its first on.
StartsWith(s, m, n) == n <= Message[s][m].length /\ n <= Capacity
                       /\ \A k \in 1 .. n : m_pData[k] = <<s, m, k>>

\* The messages whose first n bytes are in front (one at most).
InFront(n) == {sm \in Messages : StartsWith(sm[1], sm[2], n)}

\* What the length field in front may be read as.
Lengths ==
    IF InFront(LengthSize) = {} THEN Garbage ELSE {Message[sm[1]][sm[2]].msgSize : sm \in InFront(LengthSize)}

Peek == IF m_Size < PeekSize THEN {0} ELSE Lengths

-----------------------------------------------------------------------------
(* The connection.                                                          *)

DoAccept ==
    /\ ~connected
    /\ session < Len(Message)
    /\ connected' = TRUE
    /\ session' = session + 1
    /\ received' = 0
    /\ broken' = IF pc = "idle" /\ chunk = <<>> THEN broken ELSE broken \cup {session + 1}
    /\ UNCHANGED <<memVars, workerVars, chunk, seen, jobs>>

\* DoTCPRecv: StorePartialMessage, whose result is not looked at, up to the check
\* of Enqueue.
DoTCPRecv(n) ==
    /\ connected
    /\ m_RecvLock = "free"
    /\ received + n <= Len(Stream[session])
    /\ received' = received + n
    /\ IF Fits(n)
       THEN /\ chunk' = SubSeq(Stream[session], received + 1, received + n)
            /\ seen' = m_Size
            /\ UNCHANGED broken
       ELSE /\ broken' = broken \cup {session}
            /\ UNCHANGED <<chunk, seen>>
    /\ UNCHANGED <<memVars, session, connected, workerVars, jobs>>

\* Fault: the buffer keeps what it holds for the next client.
DoDisconnectKeeps ==
    /\ connected
    /\ connected' = FALSE
    /\ UNCHANGED <<memVars, session, received, chunk, workerVars, seen, history>>

\* DoDisconnect: Connection::Init clears the buffer, which leaves its memory
\* alone.  It does not take m_RecvLock.
DoDisconnect ==
    /\ connected
    /\ connected' = FALSE
    /\ m_Size' = 0
    /\ broken' = IF m_RecvLock = "free" THEN broken ELSE broken \cup ({session, session + 1} \cap Client)
    /\ UNCHANGED <<m_pData, session, received, chunk, workerVars, seen, jobs>>

-----------------------------------------------------------------------------
(* The worker in ParseReq.                                                  *)

\* Fault: the last message is not seen before something follows it.
GetReqMessageLate ==
    /\ pc = "idle"
    /\ m_RecvLock = "free"
    /\ \E len \in Peek :
         /\ len <= PacketSize /\ len # 0 /\ len < m_Size
         /\ view' = len
    /\ pc' = "create"
    /\ UNCHANGED <<memVars, connVars, chunk, seen, history>>

\* GetReqMessage: a view of the message in front, once it is stored completely.
\* (Otherwise ParseReq fails, which changes nothing.)
GetReqMessage ==
    /\ pc = "idle"
    /\ m_RecvLock = "free"
    /\ \E len \in Peek :
         /\ len <= PacketSize
         /\ len # 0
         /\ len <= m_Size
         /\ view' = len
    /\ pc' = "create"
    /\ UNCHANGED <<memVars, connVars, chunk, seen, history>>

\* The type in the viewed header; bytes that are no header may show any.
Known(isKnown) ==
    \/ InFront(HeaderSize) = {}
    \/ \E sm \in InFront(HeaderSize) : Message[sm[1]][sm[2]].known = isKnown

\* Fault: a message without a complete header is taken.
CreateJobOfAnything ==
    /\ pc = "create"
    /\ jobs' = [s \in Client |->
                   IF s = session /\ s \notin broken THEN Append(jobs[s], SubSeq(m_pData, 1, view))
                   ELSE jobs[s]]
    /\ pc' = "pop"
    /\ UNCHANGED <<memVars, connVars, chunk, view, seen, broken>>

\* CreateJob reads the viewed bytes, without the lock.  It rejects a message
\* shorter than a header and one whose type it does not know.
CreateJob ==
    /\ pc = "create"
    /\ view >= HeaderSize
    /\ Known(TRUE)
    /\ jobs' = [s \in Client |->
                   IF s = session /\ s \notin broken THEN Append(jobs[s], SubSeq(m_pData, 1, view))
                   ELSE jobs[s]]
    /\ pc' = "pop"
    /\ UNCHANGED <<memVars, connVars, chunk, view, seen, broken>>

\* The rejected message stays where it is.
RejectMsg ==
    /\ pc = "create"
    /\ view < HeaderSize \/ Known(FALSE)
    /\ pc' = "idle"
    /\ view' = 0
    /\ UNCHANGED <<memVars, connVars, chunk, seen, history>>

\* PopReqMsg: up to the check of Pop, which removes nothing if fewer bytes are
\* stored than the view had.
PopReqMsg ==
    /\ pc = "pop"
    /\ m_RecvLock = "free"
    /\ IF view > m_Size
       THEN pc' = "idle" /\ view' = 0 /\ UNCHANGED seen
       ELSE pc' = "popping" /\ seen' = m_Size /\ UNCHANGED view
    /\ UNCHANGED <<memVars, connVars, chunk, history>>

-----------------------------------------------------------------------------

ParseReq == GetReqMessage \/ CreateJob \/ RejectMsg \/ PopReqMsg \/ Pop

Next ==
    \/ DoAccept
    \/ \E n \in ChunkSize : DoTCPRecv(n)
    \/ Enqueue
    \/ DoDisconnect
    \/ ParseReq

Spec == Init /\ [][Next]_vars

\* A worker looks again for a request as long as there may be one.  (When it does
\* not, because its task was dropped, is RequestPipeline's subject.)  A thread in
\* Enqueue goes on.
Fairness == WF_vars(ParseReq) /\ WF_vars(Enqueue)

FairSpec == Spec /\ Fairness

-----------------------------------------------------------------------------
(* Properties.                                                              *)

Byte == UNION {{Stream[s][k] : k \in DOMAIN Stream[s]} : s \in Client}

TypeOK ==
    /\ m_pData \in [1 .. Capacity -> Byte \cup {Unset}]
    /\ m_Size \in 0 .. Width - 1
    /\ session \in 0 .. Len(Message)
    /\ connected \in BOOLEAN
    /\ received \in Nat
    /\ chunk \in Seq(Byte) /\ (chunk = <<>> \/ Len(chunk) \in ChunkSize)
    /\ pc \in {"idle", "create", "pop", "popping"}
    /\ view \in 0 .. PacketSize
    /\ view = 0 <=> pc = "idle"
    /\ seen \in 0 .. Width - 1
    /\ m_RecvLock = "free" => seen = 0
    /\ broken \subseteq Client

\* The state is well formed, and the stored bytes are those that the present
\* client sent last, in order and without a gap (but for the chunk being stored);
\* nothing is left of another client.
StoredIsTail ==
    /\ TypeOK
    /\ connected /\ session \notin broken =>
         LET end == received - Len(chunk) IN
         m_Size <= end /\ Stored = SubSeq(Stream[session], end - m_Size + 1, end)

Sound(s, m) ==
    LET message == Message[s][m] IN
    /\ message.msgSize = message.length
    /\ message.length >= HeaderSize
    /\ message.length <= PacketSize
    /\ message.known

\* However the stream is cut into chunks, the jobs of a client are made of its
\* messages, whole, in order and none left out, up to its first malformed one;
\* and whatever the last client sent, the next one starts afresh.  (Not for the
\* clients that are broken.)
JobsAreMessages ==
    \A s \in Client \ broken : \A i \in DOMAIN jobs[s] :
        (\A m \in 1 .. i : m \in DOMAIN Message[s] /\ Sound(s, m)) => jobs[s][i] = BytesOf(s, i)

\* A malformed message ends what is made of its client's stream.
NothingPastMalformed ==
    \A s \in Client \ broken : \A m \in DOMAIN Message[s] :
        Len(jobs[s]) >= m => Sound(s, m)

\* EndOf[s][m]: position of the last byte of message m in its stream.
EndOf ==
    [s \in Client |->
        [m \in DOMAIN Message[s] |->
            CHOOSE k \in DOMAIN Stream[s] : Stream[s][k] = <<s, m, Message[s][m].length>>]]

\* A sound message that has arrived becomes a job, unless its client goes or its
\* stream is cut.
MessageIsTaken ==
    \A s \in Client : \A m \in DOMAIN Message[s] :
        (\A k \in 1 .. m : Sound(s, k)) /\ session = s /\ received >= EndOf[s][m] ~>
            Len(jobs[s]) >= m \/ s \in broken \/ session # s \/ ~connected
=============================================================================
