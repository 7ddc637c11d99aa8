----------------------------- MODULE IOCPServer -----------------------------
(***************************************************************************)
(* The IOCP server: threads that take completions of accepts, receives and *)
(* sends off a port, job threads that answer, and the thread of main.  A   *)
(* slot is a Connection: its object and its index are used again for the   *)
(* next client, and so is what ResetConnection does not clear.             *)
(*                                                                         *)
(* There are as many threads as completions to be handled, and the reset   *)
(* of a connection waits for the receive that is being handled.            *)
(***************************************************************************)
EXTENDS StreamServer

CONSTANT WorkerThreads  \* how many threads take completions

\* reads and writes are the slots whose receive or send is under way.
\*
\* reader.conn[i] is the rest of connection i.  pc: AcceptEx was called, it
\* receives, or a thread handles what was received.  len: the length of the
\* buffer of the last send, 0 once that has completed.  sender: the session of
\* the send, and done: whether the kernel has taken it.  left: the answers in the
\* send buffer while nobody is connected.
\*
\* reader.threads wait for completions, posted of which tell to end.
NewConnection == [pc |-> "accept", len |-> 0, sender |-> None, done |-> FALSE, left |-> <<>>]

\* The constructor of GameServer has called IOCPServer::Start.
Init ==
    /\ StreamInit
    /\ server = "iocp"
    /\ reader = [conn |-> [i \in Slot |-> NewConnection], threads |-> WorkerThreads, posted |-> 0]
    /\ main = "constructed"

IsRun == main \in {"constructed", "running", "join_jobs"}
JobsRun == main = "running"

conn == reader.conn
SetConn(i, c) == reader' = [reader EXCEPT !.conn[i] = c]

-----------------------------------------------------------------------------
(* Connection.                                                              *)

\* Init closes the socket and clears the buffers, but keeps the overlapped
\* structure of the send; then AcceptEx is called.
InitConnection(i) ==
    /\ Clients' = [Clients EXCEPT ![i] = None]
    /\ socket' = [socket EXCEPT ![i] = None]
    /\ reads' = reads \ {i}
BindAcceptEx(i) == SetConn(i, [conn[i] EXCEPT !.pc = "accept", !.left = <<>>])
ResetConnection(i) == InitConnection(i) /\ BindAcceptEx(i)

\* BindIOCP: the slot is connected; it is recorded who that is now.  What was stored
\* while nobody was connected is the new client's.
BindIOCP(i, s) ==
    /\ Clients' = [Clients EXCEPT ![i] = s]
    /\ ctx' = [ctx EXCEPT ![s].slot = i, ![s].sendBuffer = conn[i].left]
BindRecv(i) ==
    /\ reads' = reads \cup {i}
    /\ SetConn(i, [conn[i] EXCEPT !.pc = "recv", !.left = <<>>])

SendBuffer(i) == IF Clients[i] = None THEN conn[i].left ELSE ctx[Clients[i]].sendBuffer

\* The send buffer of connection i becomes buf, and the rest of it c.
PutBuffer(i, buf, c) ==
    /\ SetConn(i, IF Clients[i] = None THEN [c EXCEPT !.left = buf] ELSE c)
    /\ ctx' = IF Clients[i] = None THEN ctx ELSE [ctx EXCEPT ![Clients[i]].sendBuffer = buf]

\* SendIO, of all that is in buf.  On a socket that is not connected WSASend
\* fails, and the length that was noted stays.
WSASendFails(i) == socket[i] = None \/ net[socket[i]].peer = "reset"
SendIO(i, buf) ==
    /\ PutBuffer(i, buf, [conn[i] EXCEPT !.len = Len(buf), !.sender = socket[i], !.done = FALSE])
    /\ writes' = IF WSASendFails(i) THEN writes \ {i} ELSE writes \cup {i}

-----------------------------------------------------------------------------
(* WorkerThread.                                                            *)

\* If the last send has not completed and never will, the client's answers will not
\* be sent.
DoAccept(s) ==
    /\ IsRun
    /\ Pending(s)
    /\ \E i \in Slot :
         /\ conn[i].pc = "accept"
         /\ socket' = [socket EXCEPT ![i] = s]
         /\ BindIOCP(i, s)
         /\ BindRecv(i)
         /\ Flawed(s, IF conn[i].len > 0 /\ i \notin writes THEN {"unwatched"} ELSE {})
    /\ net' = [net EXCEPT ![s].peer = "open"]
    /\ UNCHANGED <<writes, m_JobQueue, finished, worker, main>>

\* A chunk is stored if it fits: the buffer is no longer than a chunk may be.
StorePartialMessage(s, n) ==
    IF ctx[s].stored + n <= RecvCap
    THEN ctx' = [ctx EXCEPT ![s].stored = @ + n] /\ UNCHANGED flaw
    ELSE Flawed(s, {"cut"}) /\ UNCHANGED ctx

DoRecv(i) ==
    /\ IsRun
    /\ i \in reads
    /\ \E n \in 1 .. RecvCap : Reads(socket[i], n) /\ StorePartialMessage(socket[i], n)
    /\ SetConn(i, [conn[i] EXCEPT !.pc = "parse"])
    /\ reads' = reads \ {i}
    /\ UNCHANGED <<socket, Clients, writes, m_JobQueue, finished, worker, main>>

\* A receive of 0 bytes: the client has closed or reset the connection.
Disconnect(i) ==
    /\ IsRun
    /\ i \in reads
    /\ net[socket[i]].peer \in {"closed", "reset"}
    /\ ResetConnection(i)
    /\ UNCHANGED <<net, ctx, writes, m_JobQueue, finished, worker, main, flaw>>

GetReqMessage(s) == ctx[s].stored >= 2 /\ "cut" \notin flaw[s]
PopRecvBuffer(s) == ctx' = [ctx EXCEPT ![s].stored = @ - 2, ![s].popped = @ + 1]

\* The job factory is empty until Run.
CreateJob(s) ==
    LET job == <<s, ctx[s].popped + 1>> IN
    /\ m_JobQueue' = IF job \in Bad THEN m_JobQueue ELSE Append(m_JobQueue, job)
    /\ main' = IF main = "constructed" THEN "crashed" ELSE main

\* The next request is made a job; it is popped also if none can be made.  When
\* there is none left the connection receives again.
OnReceive(i) ==
    /\ conn[i].pc = "parse"
    /\ IF GetReqMessage(Clients[i])
       THEN CreateJob(Clients[i]) /\ PopRecvBuffer(Clients[i]) /\ UNCHANGED <<reads, reader>>
       ELSE BindRecv(i) /\ UNCHANGED <<ctx, m_JobQueue, main>>
    /\ UNCHANGED <<net, socket, Clients, writes, finished, worker, flaw>>

\* The kernel takes the buffer of a send.
KernelSends(i) ==
    LET s == conn[i].sender IN
    /\ i \in writes /\ ~conn[i].done
    /\ socket[i] = s /\ net[s].peer # "reset"
    /\ net[s].room >= conn[i].len
    /\ GiveKernel(s, ctx[s].sendBuffer, conn[i].len)
    /\ SetConn(i, [conn[i] EXCEPT !.done = TRUE])
    /\ UNCHANGED <<socket, Clients, ctx, reads, writes, m_JobQueue, finished, worker, main, flaw>>

\* A fault: what has come since is not sent.
DoSendStops(i) ==
    LET old == SendBuffer(i)
        n == IF conn[i].len <= Len(old) THEN conn[i].len ELSE 0
    IN
    /\ IsRun
    /\ i \in writes /\ conn[i].done
    /\ PutBuffer(i, Drop(old, n), [conn[i] EXCEPT !.len = 0])
    /\ writes' = writes \ {i}
    /\ UNCHANGED <<net, socket, Clients, reads, m_JobQueue, finished, worker, main, flaw>>

\* SendCompleted pops what was sent, and sends what has come since.  If the
\* connection was given to another client by then, that client's are popped.
DoSend(i) ==
    LET old == SendBuffer(i)
        n == IF conn[i].len <= Len(old) THEN conn[i].len ELSE 0
        others == IF Clients[i] = conn[i].sender THEN {} ELSE {old[k][1] : k \in 1 .. n}
    IN
    /\ IsRun
    /\ i \in writes /\ conn[i].done
    /\ IF n < Len(old)
       THEN SendIO(i, Drop(old, n))
       ELSE PutBuffer(i, <<>>, [conn[i] EXCEPT !.len = 0]) /\ writes' = writes \ {i}
    /\ flaw' = [s \in Session |-> IF s \in others THEN flaw[s] \cup {"popped"} ELSE flaw[s]]
    /\ UNCHANGED <<net, socket, Clients, reads, m_JobQueue, finished, worker, main>>

\* A send that failed, or was cancelled when its socket was closed, has sent 0
\* bytes, and that is a disconnection: of whoever is connected by now.
SendCancelled(i) ==
    LET s == Clients[i] IN
    /\ IsRun
    /\ i \in writes /\ ~conn[i].done
    /\ socket[i] = conn[i].sender => net[conn[i].sender].peer # "open"
    /\ conn[i].pc # "parse"
    /\ ResetConnection(i)
    /\ writes' = writes \ {i}
    /\ IF s # None THEN Flawed(s, {"cut_off"}) ELSE UNCHANGED flaw
    /\ UNCHANGED <<net, ctx, m_JobQueue, finished, worker, main>>

\* A thread takes any number of the completions that tell one thread to end, or
\* some other completion, and ends.
EndWorkerThread ==
    /\ ~IsRun
    /\ reader.threads > 0
    /\ \/ \E n \in 1 .. reader.posted :
            reader' = [reader EXCEPT !.threads = @ - 1, !.posted = @ - n]
       \/ /\ writes # {} \/ \E i \in reads : net[socket[i]].unread > 0 \/ net[socket[i]].peer # "open"
          /\ reader' = [reader EXCEPT !.threads = @ - 1]
    /\ UNCHANGED <<net, socket, Clients, ctx, reads, writes, m_JobQueue, finished, worker, main, flaw>>

WorkerThread(i) == DoRecv(i) \/ Disconnect(i) \/ OnReceive(i) \/ DoSend(i) \/ SendCancelled(i)

-----------------------------------------------------------------------------
(* JobThread, one of several.                                               *)

PopJob(w) ==
    /\ JobsRun
    /\ TakeJob(w, "connected")
    /\ UNCHANGED <<net, socket, Clients, ctx, reads, writes, finished, reader, main, flaw>>

\* Connection::SendMsg fails on a connection that is not connected,
IsConnected(w) ==
    /\ WorkerGoto(w, "connected", IF Clients[JobSlot(w)] = None THEN "requeue" ELSE "send")
    /\ UNCHANGED <<net, socket, Clients, ctx, reads, writes, m_JobQueue, finished, reader, main, flaw>>

\* and under its lock stores the answer, and sends unless a send is under way.
\* If that fails the answer stays stored, and the job is to store it once more.
SendMsg(w) ==
    LET i == JobSlot(w)
        old == SendBuffer(i)
        buf == old \o Answer(worker[w].job)
    IN
    /\ worker[w].pc = "send"
    /\ IF ~Fits(old, worker[w].job)
       THEN /\ WorkerGoto(w, "send", "requeue")
            /\ Flawed(worker[w].job[1], {"overflow"})
            /\ UNCHANGED <<ctx, writes, finished, reader>>
       ELSE /\ IF conn[i].len = 0 THEN SendIO(i, buf)
               ELSE PutBuffer(i, buf, conn[i]) /\ UNCHANGED writes
            /\ IF conn[i].len = 0 /\ WSASendFails(i)
               THEN WorkerGoto(w, "send", "requeue") /\ UNCHANGED finished
               ELSE JobDone(w)
            /\ UNCHANGED flaw
    /\ UNCHANGED <<net, socket, Clients, reads, m_JobQueue, main>>

Requeue(w) ==
    /\ GiveUpJob(w)
    /\ m_JobQueue' = Append(m_JobQueue, worker[w].job)
    /\ UNCHANGED <<net, socket, Clients, ctx, reads, writes, finished, reader, main, flaw>>

EndJobThread(w) ==
    /\ ~JobsRun
    /\ WorkerGoto(w, "idle", "exited")
    /\ UNCHANGED <<net, socket, Clients, ctx, reads, writes, m_JobQueue, finished, reader, main, flaw>>

JobThread(w) == PopJob(w) \/ IsConnected(w) \/ SendMsg(w) \/ Requeue(w) \/ EndJobThread(w)

-----------------------------------------------------------------------------
(* main.                                                                    *)

CreateJobThreads == worker' = [w \in Worker |-> Idle]

Run ==
    /\ MainGoto("constructed", "running")
    /\ CreateJobThreads
    /\ UNCHANGED <<net, socket, Clients, ctx, reads, writes, m_JobQueue, finished, reader, flaw>>

\* GameServer::End waits for the job threads,
End ==
    /\ MainGoto("running", "join_jobs")
    /\ UNCHANGED <<net, socket, Clients, ctx, reads, writes, m_JobQueue, finished, reader, worker, flaw>>

DestroyJobThreads ==
    /\ MainGoto("join_jobs", "post_end")
    /\ \A w \in Worker : worker[w].pc = "exited"
    /\ UNCHANGED <<net, socket, Clients, ctx, reads, writes, m_JobQueue, finished, reader, worker, flaw>>

\* then the destructor of IOCPServer posts one completion for each of the others.
PostEndToWorkerThreads ==
    /\ MainGoto("post_end", "join_threads")
    /\ reader' = [reader EXCEPT !.posted = WorkerThreads]
    /\ UNCHANGED <<net, socket, Clients, ctx, reads, writes, m_JobQueue, finished, worker, flaw>>

DestroyWorkerThreads ==
    /\ MainGoto("join_threads", "ended")
    /\ reader.threads = 0
    /\ UNCHANGED <<net, socket, Clients, ctx, reads, writes, m_JobQueue, finished, reader, worker, flaw>>

MainThread == Run \/ End \/ DestroyJobThreads \/ PostEndToWorkerThreads \/ DestroyWorkerThreads

-----------------------------------------------------------------------------

Runs == RunsAs("iocp")

Next ==
    /\ Runs
    /\ \/ MainThread \/ EndWorkerThread
       \/ \E i \in Slot : WorkerThread(i) \/ KernelSends(i)
       \/ \E w \in Worker : JobThread(w)
       \/ \E s \in Session : DoAccept(s) \/ ClientStep(s) \/ DrainStep(s)

\* The threads are scheduled, and a client that stays receives what it is sent.
Fairness ==
    /\ \A i \in Slot : WF_vars(Runs /\ WorkerThread(i)) /\ WF_vars(Runs /\ KernelSends(i))
    /\ \A w \in Worker : WF_vars(Runs /\ JobThread(w))
    /\ \A s \in Session : WF_vars(Runs /\ DoAccept(s)) /\ WF_vars(Runs /\ DrainStep(s))
=============================================================================
