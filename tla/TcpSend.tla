------------------------------ MODULE TcpSend -------------------------------
(***************************************************************************)
(* The TCP sending side of one connection slot (Connection.cpp,            *)
(* SendBuffer.cpp, IOCPCore.cpp): the worker that answers the client's     *)
(* requests one after the other pushes each answer into the ring and       *)
(* starts an overlapped send if none is under way; the IO thread that gets *)
(* the completion removes the sent bytes and sends the rest.  "Under way"  *)
(* is read off the length of the first buffer in the overlapped structure. *)
(*                                                                         *)
(* The slot serves one client after another, and neither the ring nor the  *)
(* overlapped structure is reset in between.                               *)
(***************************************************************************)
EXTENDS SendBuffer

CONSTANTS
    Size,           \* Size[p]: number of bytes of packet p when it is pushed
    MaxSession      \* bound: number of clients the slot serves

Packet == DOMAIN Size

ASSUME TcpSendAssumption ==
    /\ MaxSession \in Nat
    /\ Size \in Seq(Nat \ {0})

VARIABLES
    m_TCPSendBuffer,    \* the ring
    left,               \* left[p]: bytes of p not sent yet (PacketData::m_Size)
    m_wsaBufLen,        \* m_TCPSendOverlapped.m_wsaBuf[0].len
    flight,             \* WSASend operations that have not completed
    socket,             \* accepting, connected, or closing: the peer has gone
                        \* and the receive that tells so has not completed
    session,            \* number of clients accepted so far
    job,                \* the packet the worker has to send, NoPacket if none
    stage,              \* where the worker is in SendMsgTCP
    next,               \* the next packet an executed request produces
    accepted,           \* history: packets pushed into the ring, in order
    sent,               \* history: bytes the kernel has sent, in order
    freed,              \* freed[p]: history: how often p went back to the pool
    gone                \* history: the sessions whose peer has gone

workerVars == <<job, stage, next>>
slotVars == <<socket, session, gone>>
vars == <<m_TCPSendBuffer, left, m_wsaBufLen, flight, slotVars, workerVars, accepted, sent, freed>>

Init ==
    /\ m_TCPSendBuffer = EmptyRing
    /\ left = Size
    /\ m_wsaBufLen = 0
    /\ flight = <<>>
    /\ socket = "accepting"
    /\ session = 0
    /\ job = NoPacket
    /\ stage = "idle"
    /\ next = 1
    /\ accepted = <<>>
    /\ sent = <<>>
    /\ freed = [p \in Packet |-> 0]
    /\ gone = {}

m_IsConnected == socket # "accepting"

Ring == Stored(m_TCPSendBuffer)

\* The bytes of p are <<p, 1>> to <<p, Size[p]>>; its last size[p] ones are left.
Rest(p, size) == [k \in 1 .. size[p] |-> <<p, Size[p] - size[p] + k>>]

Content(packets, size) ==
    LET upTo[i \in 0 .. Len(packets)] ==
            IF i = 0 THEN <<>> ELSE upTo[i - 1] \o Rest(packets[i], size)
    IN  upTo[Len(packets)]

-----------------------------------------------------------------------------
(* SendTCPIO, on the ring as the caller has just left it, while the         *)
(* operations fs are in flight.  ok is the outcome of WSASend: it fails on  *)
(* a socket that is not connected, may fail once the peer has gone, and is  *)
(* accepted otherwise.  The length is set before the call and stays when    *)
(* the call fails.                                                          *)
(* (An action or operator commented as a fault is not part of the model: it *)
(* is the definition after it with a plausible mistake.)                    *)

\* Fault: a call that fails resets the length.
SendTCPIOResets(fs, ok) ==
    LET bufs == GetWSABUF(m_TCPSendBuffer', left')
    IN  /\ ok => m_IsConnected
        /\ ~ok => socket # "connected"
        /\ m_wsaBufLen' = IF bufs = <<>> \/ ~ok THEN 0 ELSE left'[bufs[1]]
        /\ flight' = IF ok THEN Append(fs, [bytes |-> Content(bufs, left'), session |-> session])
                           ELSE fs

SendTCPIO(fs, ok) ==
    LET bufs == GetWSABUF(m_TCPSendBuffer', left')
    IN  /\ ok => m_IsConnected
        /\ ~ok => socket # "connected"
        /\ m_wsaBufLen' = IF bufs = <<>> THEN 0 ELSE left'[bufs[1]]
        /\ flight' = IF ok THEN Append(fs, [bytes |-> Content(bufs, left'), session |-> session])
                           ELSE fs

-----------------------------------------------------------------------------
(* The worker.  SendRes is tried again until SendMsgTCP returns true.       *)

\* A request of some client was executed and left a packet to send.
ExecuteReq ==
    /\ job = NoPacket
    /\ session > 0
    /\ next \in Packet
    /\ job' = next
    /\ next' = next + 1
    /\ UNCHANGED <<m_TCPSendBuffer, left, m_wsaBufLen, flight, slotVars, stage, accepted, sent, freed>>

\* m_IsConnected is read before the lock is taken; SendMsgTCP returns false,
\* which changes nothing, when it is not set.
CheckConnected ==
    /\ job # NoPacket
    /\ stage = "idle"
    /\ m_IsConnected
    /\ stage' = "checked"
    /\ UNCHANGED <<m_TCPSendBuffer, left, m_wsaBufLen, flight, slotVars, job, next, accepted, sent, freed>>

\* The ring is full: false.
PushFails ==
    /\ stage = "checked"
    /\ IsFull(m_TCPSendBuffer)
    /\ stage' = "idle"
    /\ UNCHANGED <<m_TCPSendBuffer, left, m_wsaBufLen, flight, slotVars, job, next, accepted, sent, freed>>

PushPacket ==
    /\ stage = "checked"
    /\ ~IsFull(m_TCPSendBuffer)
    /\ m_TCPSendBuffer' = Push(m_TCPSendBuffer, job)
    /\ accepted' = Append(accepted, job)
    /\ stage' = "idle"
    /\ UNCHANGED <<left, slotVars, next, sent, freed>>

\* Fault: the worker does not look whether a send is under way.
NeverSending == FALSE

Sending == m_wsaBufLen # 0

\* A send is under way: true.
PushOnly ==
    /\ Sending
    /\ PushPacket
    /\ job' = NoPacket
    /\ UNCHANGED <<m_wsaBufLen, flight>>

\* None is: the worker starts one and returns what SendTCPIO returns.
PushAndSend(ok) ==
    /\ ~Sending
    /\ PushPacket
    /\ SendTCPIO(flight, ok)
    /\ job' = IF ok THEN NoPacket ELSE job

-----------------------------------------------------------------------------
(* The IO threads.                                                          *)

\* An operation whose socket is open sends some of its bytes; one whose socket
\* was closed, or whose peer has gone, may have sent none (a cancelled one).
\* An operation without bytes sends none.
CanSend(op, n) ==
    /\ n \in 0 .. Len(op.bytes)
    /\ n = 0 => op.bytes = <<>> \/ op.session # session \/ socket # "connected"

\* Fault: the ring is cleared for the next client.
DoDisconnectClears ==
    /\ socket' = "accepting"
    /\ m_TCPSendBuffer' = EmptyRing
    /\ UNCHANGED <<session, gone, left, m_wsaBufLen, workerVars, accepted, sent, freed>>

\* DoDisconnect: Close and ResetConnection, which accepts the next client.
DoDisconnect ==
    /\ socket' = "accepting"
    /\ UNCHANGED <<session, gone, m_TCPSendBuffer, left, m_wsaBufLen, workerVars, accepted, sent, freed>>

\* A completion of no bytes disconnects whoever is the slot's client now.
SendCancelled(i) ==
    /\ CanSend(flight[i], 0)
    /\ flight' = RemoveAt(flight, i)
    /\ DoDisconnect

\* Fault: the rest of the ring is not sent.
TCPSendCompletedStops(i, n, ok) ==
    /\ n > 0
    /\ CanSend(flight[i], n)
    /\ sent' = sent \o SubSeq(flight[i].bytes, 1, n)
    /\ m_TCPSendBuffer' = Pop(m_TCPSendBuffer, left, n)
    /\ left' = LeftAfterPop(m_TCPSendBuffer, left, n)
    /\ freed' = [p \in Packet |->
                    IF p \in Range(Finished(m_TCPSendBuffer, left, n)) THEN freed[p] + 1 ELSE freed[p]]
    /\ m_wsaBufLen' = 0
    /\ flight' = RemoveAt(flight, i)
    /\ UNCHANGED <<slotVars, workerVars, accepted>>

\* TCPSendCompleted(n): the sent bytes leave the ring and, if it holds more, the
\* next send is started, whose result ok is ignored.
TCPSendCompleted(i, n, ok) ==
    /\ n > 0
    /\ CanSend(flight[i], n)
    /\ sent' = sent \o SubSeq(flight[i].bytes, 1, n)
    /\ m_TCPSendBuffer' = Pop(m_TCPSendBuffer, left, n)
    /\ left' = LeftAfterPop(m_TCPSendBuffer, left, n)
    /\ freed' = [p \in Packet |->
                    IF p \in Range(Finished(m_TCPSendBuffer, left, n)) THEN freed[p] + 1 ELSE freed[p]]
    /\ IF IsEmpty(m_TCPSendBuffer')
       THEN m_wsaBufLen' = 0 /\ flight' = RemoveAt(flight, i)
       ELSE SendTCPIO(RemoveAt(flight, i), ok)
    /\ UNCHANGED <<slotVars, workerVars, accepted>>

\* DoAccept: the slot gets its next client.
DoAccept ==
    /\ socket = "accepting"
    /\ session < MaxSession
    /\ socket' = "connected"
    /\ session' = session + 1
    /\ UNCHANGED <<m_TCPSendBuffer, left, m_wsaBufLen, flight, workerVars, accepted, sent, freed, gone>>

\* The peer closes or resets the connection,
PeerGoes ==
    /\ socket = "connected"
    /\ socket' = "closing"
    /\ gone' = gone \cup {session}
    /\ UNCHANGED <<m_TCPSendBuffer, left, m_wsaBufLen, flight, session, workerVars, accepted, sent, freed>>

\* and the pending receive completes without bytes.
RecvClosed ==
    /\ socket = "closing"
    /\ DoDisconnect
    /\ UNCHANGED flight

-----------------------------------------------------------------------------

Worker == CheckConnected \/ PushFails \/ PushOnly \/ \E ok \in BOOLEAN : PushAndSend(ok)

SendCompletion ==
    \E i \in DOMAIN flight :
        \/ SendCancelled(i)
        \/ \E n \in 1 .. Len(flight[i].bytes), ok \in BOOLEAN : TCPSendCompleted(i, n, ok)

Next ==
    \/ ExecuteReq
    \/ Worker
    \/ SendCompletion
    \/ DoAccept
    \/ PeerGoes
    \/ RecvClosed

Spec == Init /\ [][Next]_vars

\* Threads are scheduled and the kernel completes what it accepted.  Nobody has
\* to connect, to leave or to send a request.
Fairness ==
    /\ WF_vars(Worker)
    /\ WF_vars(SendCompletion)
    /\ WF_vars(RecvClosed)

FairSpec == Spec /\ Fairness

-----------------------------------------------------------------------------
(* Properties.                                                              *)

TypeOK ==
    /\ WellFormed(m_TCPSendBuffer, Packet)
    /\ left \in [Packet -> Nat]
    /\ m_wsaBufLen \in Nat
    /\ \A i \in DOMAIN flight : flight[i].session \in 1 .. session
    /\ socket \in {"accepting", "connected", "closing"}
    /\ session \in 0 .. MaxSession
    /\ job \in Packet \cup {NoPacket}
    /\ stage = "checked" => job # NoPacket
    /\ next \in 1 .. Len(accepted) + 2
    /\ freed \in [Packet -> Nat]

\* The state is well formed; and (Connection.cpp:122) the length tells whether a
\* send is under way: as long as every packet fits into a segment, at most one is,
\* and never without the mark.
OneSendInFlight ==
    /\ TypeOK
    /\ (\A p \in Packet : Size[p] <= SegmentSize) =>
         Len(flight) <= 1 /\ (flight # <<>> => Sending)

\* The memory the kernel sends from is still in the ring, in the order in which
\* it was handed over, whoever the slot's client is by then.
KernelBytesAreStored ==
    \A i \in DOMAIN flight : IsPrefix(flight[i].bytes, Content(Ring, left))

\* What was sent is a prefix of what was pushed: no byte is lost, repeated or
\* overtaken, however the kernel splits the sends.
StreamInOrder == IsPrefix(sent, Content(accepted, Size))

\* A packet goes back to the pool once, when its last byte has been sent.  (It may
\* well be twice in the ring: a failing WSASend makes the worker push it again.)
FreedOnceSent ==
    \A p \in Packet : freed[p] = (IF <<p, Size[p]>> \in Range(sent) THEN 1 ELSE 0)

Waiting(p) == \E i \in DOMAIN Ring : Ring[i] = p

IsSent(p) == <<p, Size[p]>> \in Range(sent)

\* A packet in the ring is sent in the end, as long as no peer has gone yet.
SentBeforeAnyPeerGoes ==
    (\A p \in Packet : Size[p] <= SegmentSize) =>
        \A p \in Packet : Waiting(p) ~> IsSent(p) \/ gone # {}

\* README.md of IOCP_TCP+UDP, lines 31 to 33: the packets in the ring are returned
\* as a WSABUF[] whenever a send takes place, and sent.  So a packet in the ring of
\* a connected client is sent, unless that client goes.
ClientGetsItsPackets ==
    \A s \in 1 .. MaxSession, p \in Packet :
        Waiting(p) /\ session = s /\ socket = "connected" ~> IsSent(p) \/ s \in gone
=============================================================================
