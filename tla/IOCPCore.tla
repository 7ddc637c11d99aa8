------------------------------ MODULE IOCPCore ------------------------------
(***************************************************************************)
(* The connections of the RacingGameServer as its IO threads see them: a   *)
(* slot listens with AcceptEx, its client is accepted, receives are bound  *)
(* one after the other, and when the connection ends the slot listens      *)
(* again.  What completes comes through one completion port to any of the  *)
(* threads, which take several completions at once and look up what each   *)
(* is about in the slot's own structures: by then these may be in use for  *)
(* something else.                                                         *)
(*                                                                         *)
(* TcpSend has the bytes that are sent and UdpToken the datagrams; here a  *)
(* send is under way or not, and a client has a request or none.           *)
(*                                                                         *)
(* (An action commented as a fault is not part of the model: it is the one *)
(* after it with a plausible mistake.)                                     *)
(***************************************************************************)
EXTENDS Naturals, Sequences, FiniteSets

CONSTANTS
    Slot,       \* the indices of m_Connections
    IOThread,   \* m_WorkerThreads
    MaxBatch,   \* bound: completions taken at once (MAX_EVENTS)
    MaxClient,  \* bound: clients that connect, over all slots
    MaxSend,    \* bound: answers that are sent
    MaxSocket   \* bound: sockets open at a time

Socket == 1 .. MaxSocket
None == 0

\* The last conjunct: Start makes a socket for each slot to listen with.
ASSUME IOCPCoreAssumption ==
    /\ IsFiniteSet(Slot) /\ None \notin Slot
    /\ IsFiniteSet(IOThread)
    /\ MaxBatch \in Nat \ {0}
    /\ MaxSocket \in Nat
    /\ \E f \in [Slot -> Socket] : \A i, j \in Slot : f[i] = f[j] => i = j

VARIABLES
    conn,       \* conn[i]: the Connection of slot i
    sock,       \* sock[k]: the kernel's side of socket k
    pending,    \* the operations that the kernel has not completed
    port,       \* the completions queued on m_IOCPHandle
    io,         \* io[t]: an IO thread and the completions it has taken
    requests,   \* requests[i]: whether a request of slot i is to be answered
    main,       \* the thread that starts and ends the server
    clients,    \* how many clients have connected
    sends,      \* how many sends were started
    cut,        \* history: the slots whose connection was closed under a send
    untold      \* history: whether a thread has left with another's request to end

vars == <<conn, sock, pending, port, io, requests, main, clients, sends, cut, untold>>

\* m_TcpSocket; m_IsConnected; what m_RecvOverlapped.m_eOperation says; and
\* whether m_TCPSendOverlapped says that a send is under way.
NewConnection == [m_TcpSocket |-> None, m_IsConnected |-> FALSE, m_eOperation |-> "recv", sending |-> FALSE]

\* A socket is free, or made and not connected, or connected to a client that is
\* there, has closed its end, or has reset the connection.  slot: history, the
\* slot that made it.
NoSocket == [peer |-> "free", slot |-> None]

\* An operation was started for a slot on a socket: accept and recv use
\* m_RecvOverlapped, send uses m_TCPSendOverlapped.
Op(kind, i, k) ==
    LET Numbered(n) == [kind |-> kind, slot |-> i, sock |-> k, n |-> n]
    IN Numbered(CHOOSE n \in 1 .. Cardinality(pending) + 1 : Numbered(n) \notin pending)

\* A completion carries bytes or not (an accept never does), and a status.
Completion(kind, i, bytes, status) == [kind |-> kind, slot |-> i, bytes |-> bytes, status |-> status]
EndRequest == Completion("end", None, 0, "ok")

Waiting == [pc |-> "wait", batch |-> <<>>, again |-> FALSE]

m_IsRun == main = "running"

-----------------------------------------------------------------------------
(* Connection.                                                              *)

Goto(t, pc) == io' = [io EXCEPT ![t].pc = pc]
Handle(t, pc) == io' = [io EXCEPT ![t].pc = pc, ![t].again = FALSE]
Current(t) == Head(io[t].batch)

\* The next completion of the batch; after the last the loop looks at m_IsRun.
NextEntry(t) ==
    LET rest == Tail(io[t].batch)
        pc == IF rest # <<>> THEN "dispatch" ELSE IF m_IsRun THEN "wait" ELSE "exited"
    IN io' = [io EXCEPT ![t] = [pc |-> pc, batch |-> rest, again |-> FALSE]]

\* Closing a socket cancels what was pending on it, with 0 bytes.
CancelledBy(k) == {p \in pending : p.sock = k}
Orders(S) == {seq \in [1 .. Cardinality(S) -> S] : \A p \in S : \E n \in DOMAIN seq : seq[n] = p}
CloseSocket(k) ==
    \E seq \in Orders(CancelledBy(k)) :
        /\ port' = port \o [n \in DOMAIN seq |-> Completion(seq[n].kind, seq[n].slot, 0, "cancelled")]
        /\ pending' = pending \ CancelledBy(k)
        /\ sock' = IF k = None THEN sock ELSE [sock EXCEPT ![k] = NoSocket]

SendInFlight(i) ==
    \/ \E p \in pending : p.kind = "send" /\ p.slot = i
    \/ \E n \in DOMAIN port : port[n].kind = "send" /\ port[n].slot = i
    \/ \E t \in IOThread : \E n \in DOMAIN io[t].batch :
            io[t].batch[n].kind = "send" /\ io[t].batch[n].slot = i

\* Close: the first half of DoDisconnect.
Close(t) ==
    LET i == Current(t).slot IN
    /\ io[t].pc = "close"
    /\ conn' = [conn EXCEPT ![i].m_IsConnected = FALSE, ![i].m_TcpSocket = None]
    /\ CloseSocket(conn[i].m_TcpSocket)
    /\ cut' = IF SendInFlight(i) THEN cut \cup {i} ELSE cut
    /\ Goto(t, "reset")
    /\ UNCHANGED <<requests, main, clients, sends, untold>>

FreeSockets == {k \in Socket : sock[k].peer = "free"}

\* Fault: the structure does not say that it is an accept's.
BindAcceptExUnsaid(i, k) ==
    /\ conn' = [conn EXCEPT ![i].m_TcpSocket = k, ![i].m_IsConnected = FALSE]
    /\ sock' = [sock EXCEPT ![k] = [peer |-> "none", slot |-> i]]
    /\ pending' = pending \cup {Op("accept", i, k)}

\* Init forgets the socket, whatever it is by now; the send's structure and the
\* job of the slot are kept.  BindAcceptEx makes the next socket.
BindAcceptEx(i, k) ==
    /\ conn' = [conn EXCEPT ![i].m_TcpSocket = k, ![i].m_IsConnected = FALSE, ![i].m_eOperation = "accept"]
    /\ sock' = [sock EXCEPT ![k] = [peer |-> "none", slot |-> i]]
    /\ pending' = pending \cup {Op("accept", i, k)}

\* The second half of DoDisconnect.
ResetConnection(t) ==
    LET i == Current(t).slot
        k == CHOOSE free \in FreeSockets : TRUE
    IN
    /\ io[t].pc = "reset"
    /\ FreeSockets # {}
    /\ BindAcceptEx(i, k)
    /\ IF io[t].again THEN Goto(t, "switch") ELSE NextEntry(t)
    /\ UNCHANGED <<port, requests, main, clients, sends, cut, untold>>

\* BindIOCP does not tell whether the socket is connected.
BindIOCP(t) ==
    LET i == Current(t).slot IN
    /\ io[t].pc = "bind_iocp"
    /\ IF conn[i].m_TcpSocket = None
       THEN Goto(t, "close") /\ UNCHANGED conn
       ELSE Goto(t, "bind_recv") /\ conn' = [conn EXCEPT ![i].m_IsConnected = TRUE]
    /\ UNCHANGED <<sock, pending, port, requests, main, clients, sends, cut, untold>>

Receives(k) == k # None /\ sock[k].peer \in {"open", "closed"}

\* Fault: nothing is done if it fails.
BindRecvUnchecked(t) ==
    LET i == Current(t).slot
        k == conn[i].m_TcpSocket
    IN
    /\ io[t].pc = "bind_recv"
    /\ conn' = IF conn[i].m_IsConnected THEN [conn EXCEPT ![i].m_eOperation = "recv"] ELSE conn
    /\ pending' = IF conn[i].m_IsConnected /\ Receives(k) THEN pending \cup {Op("recv", i, k)} ELSE pending
    /\ NextEntry(t)
    /\ UNCHANGED <<sock, port, requests, main, clients, sends, cut, untold>>

\* BindRecv; if it fails the client is disconnected.
BindRecv(t) ==
    LET i == Current(t).slot
        k == conn[i].m_TcpSocket
    IN
    /\ io[t].pc = "bind_recv"
    /\ conn' = IF conn[i].m_IsConnected THEN [conn EXCEPT ![i].m_eOperation = "recv"] ELSE conn
    /\ IF conn[i].m_IsConnected /\ Receives(k)
       THEN pending' = pending \cup {Op("recv", i, k)} /\ NextEntry(t)
       ELSE Goto(t, "close") /\ UNCHANGED pending
    /\ UNCHANGED <<sock, port, requests, main, clients, sends, cut, untold>>

-----------------------------------------------------------------------------
(* WorkerThread.                                                            *)

Take(t) ==
    /\ io[t].pc = "wait"
    /\ port # <<>>
    /\ \E n \in 1 .. MaxBatch :
         /\ n <= Len(port)
         /\ io' = [io EXCEPT ![t] = [pc |-> "dispatch", batch |-> SubSeq(port, 1, n), again |-> FALSE]]
         /\ port' = SubSeq(port, n + 1, Len(port))
    /\ UNCHANGED <<conn, sock, pending, requests, main, clients, sends, cut, untold>>

\* Told to end, a thread leaves the rest of its batch.
TakeEnd(t) ==
    /\ io[t].pc = "dispatch"
    /\ Current(t).kind = "end"
    /\ io' = [io EXCEPT ![t] = [Waiting EXCEPT !.pc = "exited"]]
    /\ untold' = (untold \/ \E n \in 2 .. Len(io[t].batch) : io[t].batch[n].kind = "end")
    /\ UNCHANGED <<conn, sock, pending, port, requests, main, clients, sends, cut>>

\* What the structure of the completed operation says that it is.
Operation(c) == IF c.kind = "send" THEN "send" ELSE conn[c.slot].m_eOperation

\* The completion key is the Connection; of an accept it is the listening socket's.
KeyIsNull(c) == c.kind = "accept"

\* A null Connection is asked for its index: the process ends, and the kernel closes
\* what it had open.
Crash ==
    /\ main' = "crashed"
    /\ io' = [t \in IOThread |-> [Waiting EXCEPT !.pc = "crashed"]]
    /\ pending' = {}
    /\ sock' = [k \in Socket |-> NoSocket]

\* A completion of 0 bytes that is not an accept's is a disconnection.
Disconnected(c) == c.bytes = 0 /\ Operation(c) # "accept"
Failed(c) == ~Disconnected(c) /\ c.status # "ok"

DispatchError(t) ==
    LET c == Current(t) IN
    /\ io[t].pc = "dispatch"
    /\ c.kind # "end"
    /\ Disconnected(c) \/ (Failed(c) /\ c.status # "cancelled")
    /\ IF KeyIsNull(c) THEN Crash
       ELSE /\ io' = [io EXCEPT ![t].pc = "close", ![t].again = Failed(c)]
            /\ UNCHANGED <<main, pending, sock>>
    /\ UNCHANGED <<conn, port, requests, clients, sends, cut, untold>>

\* What was cancelled is dropped; the rest is handled as what the structure says.
Dispatch(t) ==
    LET c == Current(t) IN
    /\ io[t].pc = "dispatch"
    /\ c.kind # "end"
    /\ ~Disconnected(c)
    /\ \/ Failed(c) /\ c.status = "cancelled" /\ NextEntry(t)
       \/ ~Failed(c) /\ Goto(t, "switch")
    /\ UNCHANGED <<conn, sock, pending, port, requests, main, clients, sends, cut, untold>>

Switch(t, op) ==
    /\ io[t].pc = "switch"
    /\ Operation(Current(t)) = op

DoAccept(t) ==
    /\ Switch(t, "accept")
    /\ Handle(t, "bind_iocp")
    /\ UNCHANGED <<conn, sock, pending, port, requests, main, clients, sends, cut, untold>>

\* The bytes are stored and a task is pushed for the slot; then BindRecv.
DoTCPRecv(t) ==
    /\ Switch(t, "recv")
    /\ requests' = [requests EXCEPT ![Current(t).slot] = TRUE]
    /\ Handle(t, "bind_recv")
    /\ UNCHANGED <<conn, sock, pending, port, main, clients, sends, cut, untold>>

CanSend(k) == Receives(k)

\* SendTCPIO: the mark is set whether or not WSASend succeeds.
SendTCPIO(i) ==
    /\ sends < MaxSend
    /\ sends' = sends + 1
    /\ conn' = [conn EXCEPT ![i].sending = TRUE]
    /\ pending' = IF CanSend(conn[i].m_TcpSocket)
                  THEN pending \cup {Op("send", i, conn[i].m_TcpSocket)} ELSE pending

\* What was pushed in the meantime is sent now.
TCPSendCompleted(i) ==
    \/ conn' = [conn EXCEPT ![i].sending = FALSE] /\ UNCHANGED <<pending, sends>>
    \/ SendTCPIO(i)

DoTCPSend(t) ==
    /\ Switch(t, "send")
    /\ TCPSendCompleted(Current(t).slot)
    /\ NextEntry(t)
    /\ UNCHANGED <<sock, port, requests, main, clients, cut, untold>>

DoDisconnect(t) == Close(t) \/ ResetConnection(t)

WorkerThread(t) ==
    Take(t) \/ TakeEnd(t) \/ DispatchError(t) \/ Dispatch(t)
      \/ DoAccept(t) \/ DoTCPRecv(t) \/ DoTCPSend(t)
      \/ BindIOCP(t) \/ BindRecv(t) \/ DoDisconnect(t)

-----------------------------------------------------------------------------
(* The job threads: SendMsgTCP answers the client that is connected.  If it *)
(* fails the job is kept.                                                   *)

SendMsgTCP(i) ==
    /\ m_IsRun
    /\ requests[i]
    /\ conn[i].m_IsConnected
    /\ IF conn[i].sending THEN UNCHANGED <<conn, pending, sends>> ELSE SendTCPIO(i)
    /\ requests' = [requests EXCEPT ![i] = ~conn[i].sending /\ ~CanSend(conn[i].m_TcpSocket)]
    /\ UNCHANGED <<sock, port, io, main, clients, cut, untold>>

-----------------------------------------------------------------------------
(* The clients and the kernel.                                              *)

Complete(p, bytes, status) ==
    /\ pending' = pending \ {p}
    /\ port' = Append(port, Completion(p.kind, p.slot, bytes, status))

\* A client is accepted, or resets its connection before it is.
Connect(p) ==
    /\ p.kind = "accept"
    /\ clients < MaxClient
    /\ clients' = clients + 1
    /\ \/ sock' = [sock EXCEPT ![p.sock].peer = "open"] /\ Complete(p, 0, "ok")
       \/ UNCHANGED sock /\ Complete(p, 0, "reset")
    /\ UNCHANGED <<conn, io, requests, main, sends, cut, untold>>

PeerGoes(k) ==
    /\ \/ sock[k].peer = "open" /\ sock' = [sock EXCEPT ![k].peer = "closed"]
       \/ sock[k].peer \in {"open", "closed"} /\ sock' = [sock EXCEPT ![k].peer = "reset"]
    /\ UNCHANGED <<conn, pending, port, io, requests, main, clients, sends, cut, untold>>

\* A client sends its next request when it has no other.
RequestArrives(p) ==
    /\ p.kind = "recv"
    /\ sock[p.sock].peer = "open"
    /\ ~requests[p.slot]
    /\ Complete(p, 1, "ok")
    /\ UNCHANGED <<conn, sock, io, requests, main, clients, sends, cut, untold>>

\* A receive ends with its client; a send may still be taken by the kernel
\* unless the client has reset the connection.
RecvEnds(p) ==
    /\ p.kind = "recv"
    /\ sock[p.sock].peer \in {"closed", "reset"}
    /\ Complete(p, 0, IF sock[p.sock].peer = "closed" THEN "ok" ELSE "reset")
    /\ UNCHANGED <<conn, sock, io, requests, main, clients, sends, cut, untold>>

SendEnds(p) ==
    /\ p.kind = "send"
    /\ IF sock[p.sock].peer = "reset" THEN Complete(p, 0, "reset") ELSE Complete(p, 1, "ok")
    /\ UNCHANGED <<conn, sock, io, requests, main, clients, sends, cut, untold>>

Kernel(p) == RecvEnds(p) \/ SendEnds(p)

-----------------------------------------------------------------------------
(* Start and End.                                                           *)

SlotNumber == CHOOSE f \in [Slot -> Socket] : \A i, j \in Slot : f[i] = f[j] => i = j

\* ResetConnection was called on each.
CreateConnections ==
    /\ conn = [i \in Slot |-> [NewConnection EXCEPT !.m_TcpSocket = SlotNumber[i], !.m_eOperation = "accept"]]
    /\ sock = [k \in Socket |-> IF \E i \in Slot : SlotNumber[i] = k
                                THEN [peer |-> "none", slot |-> CHOOSE i \in Slot : SlotNumber[i] = k]
                                ELSE NoSocket]
    /\ pending = {[kind |-> "accept", slot |-> i, sock |-> SlotNumber[i], n |-> 1] : i \in Slot}

CreateWorkerThreads == io = [t \in IOThread |-> Waiting]

\* Start has returned.
Init ==
    /\ CreateConnections
    /\ CreateWorkerThreads
    /\ port = <<>>
    /\ requests = [i \in Slot |-> FALSE]
    /\ main = "running"
    /\ clients = 0
    /\ sends = 0
    /\ cut = {}
    /\ untold = FALSE

\* Fault: one thread too few is told to end.
PostEndToAllButOne ==
    /\ main = "running"
    /\ main' = "joining"
    /\ port' = port \o [n \in 1 .. Cardinality(IOThread) - 1 |-> EndRequest]
    /\ UNCHANGED <<conn, sock, pending, io, requests, clients, sends, cut, untold>>

\* The job threads have ended by then.
PostEndToWorkerThreads ==
    /\ main = "running"
    /\ main' = "joining"
    /\ port' = port \o [n \in 1 .. Cardinality(IOThread) |-> EndRequest]
    /\ UNCHANGED <<conn, sock, pending, io, requests, clients, sends, cut, untold>>

DestroyWorkerThreads ==
    /\ main = "joining"
    /\ \A t \in IOThread : io[t].pc = "exited"
    /\ main' = "ended"
    /\ UNCHANGED <<conn, sock, pending, port, io, requests, clients, sends, cut, untold>>

Next ==
    \/ PostEndToWorkerThreads \/ DestroyWorkerThreads
    \/ \E t \in IOThread : WorkerThread(t)
    \/ \E i \in Slot : SendMsgTCP(i)
    \/ \E p \in pending : Connect(p) \/ RequestArrives(p) \/ Kernel(p)
    \/ \E k \in Socket : PeerGoes(k)

\* The threads are scheduled, and the kernel reports what has ended.
Fairness ==
    /\ \A t \in IOThread : WF_vars(WorkerThread(t))
    /\ WF_vars(\E p \in pending : Kernel(p))
    /\ WF_vars(DestroyWorkerThreads)

Spec == Init /\ [][Next]_vars /\ Fairness

-----------------------------------------------------------------------------

(* Properties.                                                              *)

TypeOK ==
    /\ \A i \in Slot :
         /\ conn[i].m_TcpSocket \in Socket \cup {None}
         /\ conn[i].m_IsConnected \in BOOLEAN
         /\ conn[i].m_eOperation \in {"accept", "recv"}
    /\ \A p \in pending : p.slot \in Slot /\ sock[p.sock].peer # "free"
    /\ cut \subseteq Slot

IsReceive(c, i) == c.kind \in {"accept", "recv"} /\ c.slot = i
Started(i) == {p \in pending : IsReceive(p, i)}
Queued(i) == {n \in DOMAIN port : IsReceive(port[n], i)}
Taken(i) == {x \in IOThread \X (1 .. MaxBatch) :
                LET batch == io[x[1]].batch IN
                x[2] \in DOMAIN batch /\ IsReceive(batch[x[2]], i)}

\* m_RecvOverlapped of a slot is in one place: the kernel has one operation on
\* it, or its completion is queued, or one thread has it; it says which operation
\* that is; and the slot knows every socket that it made.  The code keeps no
\* record of any of this, so it holds of slots whose connections never ended
\* under a send: otherwise a second completion, of the send or the receive,
\* disconnects the slot a second time.
ReceiveInOnePlace ==
    /\ TypeOK
    /\ \A i \in Slot \ cut :
         /\ m_IsRun => Cardinality(Started(i)) + Cardinality(Queued(i)) + Cardinality(Taken(i)) = 1
         /\ \A p \in Started(i) : p.kind = conn[i].m_eOperation /\ p.sock = conn[i].m_TcpSocket
         /\ \A n \in Queued(i) : port[n].kind = conn[i].m_eOperation
         /\ \A k \in Socket : sock[k].slot = i => conn[i].m_TcpSocket = k

InUse(i) == \E p \in Started(i) : p.sock = conn[i].m_TcpSocket

\* However connections end, and also if several threads disconnect one slot at
\* once, no slot is lost: again and again it listens, or receives from the client
\* it has, until the server ends (or meets an accept's null completion key).
SlotComesBack == \A i \in Slot : []<>(InUse(i) \/ ~m_IsRun)

\* IOCPCore::End returns, unless a thread took more than one of the completions
\* that tell one thread each to end: it leaves with the first.
EndReturns == main = "joining" ~> (main \in {"ended", "crashed"} \/ untold)
=============================================================================
