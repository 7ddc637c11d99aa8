---------------------------- MODULE SelectServer ----------------------------
(***************************************************************************)
(* The select server: a thread that selects on the sockets to read and     *)
(* reads, one that selects on those with something left to send and sends, *)
(* a job thread that answers, and the thread of main.  Job thread and      *)
(* write thread both send from a context's buffer and pop from it, with no *)
(* lock, and change the set of sockets to be written.  A slot is a socket. *)
(***************************************************************************)
EXTENDS StreamServer

\* reader is the read thread and the write thread: n is how many answers the
\* latter has sent, from context s, and not popped yet.
Thread(pc, i, s, n) == [pc |-> pc, i |-> i, ctx |-> s, n |-> n]
Selecting == Thread("select", None, None, 0)

\* The constructor of GameServer has started both.
Init ==
    /\ StreamInit
    /\ server = "select"
    /\ reader = [read |-> Selecting, write |-> Selecting]
    /\ main = "constructed"

ThreadsRun == main \in {"constructed", "running", "join_jobs"}
JobsRun == main = "running"

\* What the pointer to the context of s, looked up under i, points to.  That is
\* deleted when it is released: its memory is then as it was left, closed and with
\* nothing in its buffers, or the context of the next session of the socket (or of
\* another socket's, which is left out).
Memory(s, i) == IF Clients[i] = s THEN {s} ELSE {None, Clients[i]}

CreateContext(i, s) ==
    /\ ctx' = [ctx EXCEPT ![s] = [NewContext EXCEPT !.slot = i]]
    /\ Clients' = [Clients EXCEPT ![i] = IF @ = None THEN s ELSE @]

ReleaseContext(i) ==
    /\ Clients' = [Clients EXCEPT ![i] = None]
    /\ socket' = [socket EXCEPT ![i] = None]

\* The n answers that were sent from the context of r are popped from that of s; if
\* fewer are left, none is.
Popped(s, r, n) ==
    LET buf == ctx[s].sendBuffer IN
    /\ ctx' = [ctx EXCEPT ![s].sendBuffer = IF n <= Len(buf) THEN Drop(buf, n) ELSE buf]
    /\ Flawed(s, IF s = r THEN {} ELSE {"popped"})

-----------------------------------------------------------------------------
(* ReadThread.                                                              *)

ReaderAt(pc) == reader.read.pc = pc
ReaderGoto(pc, i) == reader' = [reader EXCEPT !.read = Thread(pc, i, None, 0)]

\* The sockets of one round of select are taken one by one; who is passed over
\* because the set has changed is found by the next round.
DoAccept(s) ==
    /\ ReaderAt("select")
    /\ ThreadsRun
    /\ Pending(s)
    /\ \E i \in Slot :
         /\ socket[i] = None
         /\ socket' = [socket EXCEPT ![i] = s]
         /\ reads' = reads \cup {i}
         /\ CreateContext(i, s)
    /\ net' = [net EXCEPT ![s].peer = "open"]
    /\ UNCHANGED <<writes, m_JobQueue, finished, reader, worker, main, flaw>>

\* At the end of the stream the context is released: its socket is closed, and
\* cleared from reads, not from writes.
DoDisconnect ==
    /\ ReaderAt("select")
    /\ ThreadsRun
    /\ \E i \in reads :
         /\ net[socket[i]].peer = "closed"
         /\ ReleaseContext(i)
         /\ reads' = reads \ {i}
    /\ UNCHANGED <<net, ctx, writes, m_JobQueue, finished, reader, worker, main, flaw>>

\* A chunk is stored if it fits; nobody looks whether it did.
StorePartialMsg(s, n) ==
    IF ctx[s].stored + n <= RecvCap
    THEN ctx' = [ctx EXCEPT ![s].stored = @ + n] /\ UNCHANGED flaw
    ELSE Flawed(s, {"cut"}) /\ UNCHANGED ctx

DoRecv ==
    /\ ReaderAt("select")
    /\ ThreadsRun
    /\ \E i \in reads : \E n \in 1 .. RecvCap :
         /\ Reads(socket[i], n)
         /\ StorePartialMsg(socket[i], n)
         /\ ReaderGoto("on_receive", i)
    /\ UNCHANGED <<socket, Clients, reads, writes, m_JobQueue, finished, worker, main>>

\* After a reset every recv fails: 2^32 - 1 bytes are stored, which runs off the
\* buffer unless it is empty.  The connection is kept, and read again.
RecvFails ==
    /\ ReaderAt("select")
    /\ ThreadsRun
    /\ \E i \in reads : net[socket[i]].peer = "reset" /\ ctx[socket[i]].stored > 0
    /\ main' = "crashed"
    /\ UNCHANGED <<net, socket, Clients, ctx, reads, writes, m_JobQueue, finished, reader, worker,
                   flaw>>

GetReqMsg(s) == ctx[s].stored >= 2 /\ "cut" \notin flaw[s]
PopMsg(s) == ctx' = [ctx EXCEPT ![s].stored = @ - 2, ![s].popped = @ + 1]
NextJob(s) == <<s, ctx[s].popped + 1>>

\* The job factory is empty until Start.
CreateJob(s) ==
    /\ m_JobQueue' = Append(m_JobQueue, NextJob(s))
    /\ main' = IF main = "constructed" THEN "crashed" ELSE main

\* A request that no job can be made of is not popped, and ends the round.
OnReceive ==
    LET s == socket[reader.read.i] IN
    /\ ReaderAt("on_receive")
    /\ IF GetReqMsg(s) /\ NextJob(s) \notin Bad
       THEN CreateJob(s) /\ PopMsg(s) /\ UNCHANGED reader
       ELSE ReaderGoto("select", None) /\ UNCHANGED <<ctx, m_JobQueue, main>>
    /\ UNCHANGED <<net, socket, Clients, reads, writes, finished, worker, flaw>>

EndReadThread ==
    /\ ReaderAt("select")
    /\ ~ThreadsRun
    /\ ReaderGoto("exited", None)
    /\ UNCHANGED <<net, socket, Clients, ctx, reads, writes, m_JobQueue, finished, worker, main, flaw>>

ReadThread ==
    \/ DoDisconnect \/ DoRecv \/ RecvFails \/ OnReceive \/ EndReadThread
    \/ \E s \in Session : DoAccept(s)

-----------------------------------------------------------------------------
(* WriteThread.                                                             *)

Writer == reader.write
WriterGoto(pc, i, s, n) == reader' = [reader EXCEPT !.write = Thread(pc, i, s, n)]

\* The write thread, or a job thread, has sent from the context and not popped yet.
Sending(s) ==
    \/ Writer.pc = "pop" /\ Writer.ctx = s
    \/ \E w \in Worker : worker[w].pc = "pop" /\ worker[w].ctx = s

\* While writes is empty select is not called.
SelectWrites ==
    /\ Writer.pc = "select"
    /\ ThreadsRun
    /\ \E i \in writes :
         /\ socket[i] # None
         /\ net[socket[i]].room > 0 \/ net[socket[i]].peer = "reset"
         /\ WriterGoto("resume", i, None, 0)
    /\ \A i \in writes : socket[i] # None
    /\ UNCHANGED <<net, socket, Clients, ctx, reads, writes, m_JobQueue, finished, worker, main, flaw>>

\* A fault: only an error ends the thread.
SelectForEver ==
    /\ Writer.pc = "select"
    /\ \E i \in writes : socket[i] = None
    /\ flaw' = [s \in Session |-> flaw[s] \cup {"unwatched"}]
    /\ WriterGoto("exited", None, None, 0)
    /\ UNCHANGED <<net, socket, Clients, ctx, reads, writes, m_JobQueue, finished, worker, main>>

\* With a closed socket in writes select fails, and the thread ends: nobody will
\* send what is left for any client.
SelectFails ==
    /\ Writer.pc = "select"
    /\ \/ /\ ThreadsRun
          /\ \E i \in writes : socket[i] = None
          /\ flaw' = [s \in Session |-> flaw[s] \cup {"unwatched"}]
       \/ ~ThreadsRun /\ UNCHANGED flaw
    /\ WriterGoto("exited", None, None, 0)
    /\ UNCHANGED <<net, socket, Clients, ctx, reads, writes, m_JobQueue, finished, worker, main>>

ResumeSend ==
    LET i == Writer.i
        s == Clients[i]
        buf == ctx[s].sendBuffer
    IN
    /\ Writer.pc = "resume"
    /\ IF s = None \/ (buf # <<>> /\ SendFails(s, buf))
       THEN reader' = [reader EXCEPT !.write = Selecting] /\ UNCHANGED <<net, flaw>>
       ELSE /\ GiveKernel(s, buf, Sent(s, buf))
            /\ IF buf = <<>> THEN WriterGoto("clear", i, None, 0) ELSE WriterGoto("pop", i, s, Sent(s, buf))
            /\ Flawed(s, IF Sending(s) THEN {"both_send"} ELSE {})
    /\ UNCHANGED <<socket, Clients, ctx, reads, writes, m_JobQueue, finished, worker, main>>

PopResumed ==
    /\ Writer.pc = "pop"
    /\ \E s \in Memory(Writer.ctx, Writer.i) :
         IF s = None
         THEN WriterGoto("clear", Writer.i, None, 0) /\ UNCHANGED <<ctx, flaw>>
         ELSE /\ Popped(s, Writer.ctx, Writer.n)
              /\ IF ctx'[s].sendBuffer = <<>> THEN WriterGoto("clear", Writer.i, None, 0)
                 ELSE reader' = [reader EXCEPT !.write = Selecting]
    /\ UNCHANGED <<net, socket, Clients, reads, writes, m_JobQueue, finished, worker, main>>

\* FD_CLR: what the job thread has stored since then is forgotten.
ClearWrites ==
    LET s == Clients[Writer.i] IN
    /\ Writer.pc = "clear"
    /\ writes' = writes \ {Writer.i}
    /\ reader' = [reader EXCEPT !.write = Selecting]
    /\ IF s # None /\ ctx[s].sendBuffer # <<>> THEN Flawed(s, {"unwatched"}) ELSE UNCHANGED flaw
    /\ UNCHANGED <<net, socket, Clients, ctx, reads, m_JobQueue, finished, worker, main>>

WriteThread == SelectWrites \/ SelectFails \/ ResumeSend \/ PopResumed \/ ClearWrites

-----------------------------------------------------------------------------
(* JobThread.                                                               *)

PopJob(w) ==
    /\ JobsRun
    /\ TakeJob(w, "look_up")
    /\ UNCHANGED <<net, socket, Clients, ctx, reads, writes, finished, reader, main, flaw>>

GetContext(w) ==
    LET s == Clients[JobSlot(w)] IN
    /\ worker[w].pc = "look_up"
    /\ worker' = [worker EXCEPT ![w].pc = IF s = None THEN "requeue" ELSE "store", ![w].ctx = s]
    /\ UNCHANGED <<net, socket, Clients, ctx, reads, writes, m_JobQueue, finished, reader, main, flaw>>

\* The job thread goes on with the context of s.
WorkerSends(w, pc, s, n) == worker' = [worker EXCEPT ![w].pc = pc, ![w].ctx = s, ![w].n = n]

\* ClientContext::SendMsg stores the answer, and fails if it does not fit;
StoreAnswer(w) ==
    /\ worker[w].pc = "store"
    /\ \E s \in Memory(worker[w].ctx, JobSlot(w)) :
         IF s = None
         THEN WorkerGoto(w, "store", "watch") /\ UNCHANGED <<ctx, flaw>>
         ELSE IF ~Fits(ctx[s].sendBuffer, worker[w].job)
         THEN WorkerGoto(w, "store", "requeue") /\ Flawed(s, {"overflow"}) /\ UNCHANGED ctx
         ELSE /\ ctx' = [ctx EXCEPT ![s].sendBuffer = @ \o Answer(worker[w].job)]
              /\ WorkerSends(w, "send", s, 0)
              /\ UNCHANGED flaw
    /\ UNCHANGED <<net, socket, Clients, reads, writes, m_JobQueue, finished, reader, main>>

\* it sends from the buffer,
SendAnswers(w) ==
    /\ worker[w].pc = "send"
    /\ \E s \in Memory(worker[w].ctx, JobSlot(w)) :
         LET buf == ctx[s].sendBuffer
             n == Sent(s, buf)
         IN
         IF s = None \/ SendFails(s, buf)
         THEN WorkerGoto(w, "send", "watch") /\ UNCHANGED <<net, flaw>>
         ELSE /\ GiveKernel(s, buf, n)
              /\ WorkerSends(w, "pop", s, n)
              /\ Flawed(s, IF Sending(s) THEN {"both_send"} ELSE {})
    /\ UNCHANGED <<socket, Clients, ctx, reads, writes, m_JobQueue, finished, reader, main>>

\* and pops what was sent.
PopAnswers(w) ==
    /\ worker[w].pc = "pop"
    /\ \E s \in Memory(worker[w].ctx, JobSlot(w)) :
         IF s = None
         THEN JobDone(w) /\ UNCHANGED <<ctx, flaw>>
         ELSE /\ Popped(s, worker[w].ctx, worker[w].n)
              /\ IF ctx'[s].sendBuffer = <<>> THEN JobDone(w)
                 ELSE WorkerGoto(w, "pop", "watch") /\ UNCHANGED finished
    /\ UNCHANGED <<net, socket, Clients, reads, writes, m_JobQueue, reader, main>>

\* FD_SET, of a socket that may be closed by now.
WatchWrites(w) ==
    /\ worker[w].pc = "watch"
    /\ writes' = writes \cup {JobSlot(w)}
    /\ JobDone(w)
    /\ UNCHANGED <<net, socket, Clients, ctx, reads, m_JobQueue, reader, main, flaw>>

\* A fault: the job is deleted as well.
RequeueDeletes(w) ==
    /\ worker[w].pc = "requeue"
    /\ m_JobQueue' = Append(m_JobQueue, worker[w].job)
    /\ JobDone(w)
    /\ UNCHANGED <<net, socket, Clients, ctx, reads, writes, reader, main, flaw>>

Requeue(w) ==
    /\ GiveUpJob(w)
    /\ m_JobQueue' = Append(m_JobQueue, worker[w].job)
    /\ UNCHANGED <<net, socket, Clients, ctx, reads, writes, finished, reader, main, flaw>>

EndJobThread(w) ==
    /\ WorkerGoto(w, "idle", "exited")
    /\ ~JobsRun
    /\ UNCHANGED <<net, socket, Clients, ctx, reads, writes, m_JobQueue, finished, reader, main, flaw>>

JobThread(w) ==
    \/ PopJob(w) \/ GetContext(w) \/ StoreAnswer(w) \/ SendAnswers(w) \/ PopAnswers(w)
    \/ WatchWrites(w) \/ Requeue(w) \/ EndJobThread(w)

-----------------------------------------------------------------------------
(* main.                                                                    *)

CreateJobThread == worker' = [w \in Worker |-> Idle]

Start ==
    /\ MainGoto("constructed", "running")
    /\ CreateJobThread
    /\ UNCHANGED <<net, socket, Clients, ctx, reads, writes, m_JobQueue, finished, reader, flaw>>

End ==
    /\ MainGoto("running", "join_jobs")
    /\ UNCHANGED <<net, socket, Clients, ctx, reads, writes, m_JobQueue, finished, reader, worker, flaw>>

DestroyJobThread ==
    /\ MainGoto("join_jobs", "join_threads")
    /\ \A w \in Worker : worker[w].pc = "exited"
    /\ UNCHANGED <<net, socket, Clients, ctx, reads, writes, m_JobQueue, finished, reader, worker, flaw>>

DestroyThread ==
    /\ MainGoto("join_threads", "release")
    /\ reader.read.pc = "exited" /\ reader.write.pc = "exited"
    /\ UNCHANGED <<net, socket, Clients, ctx, reads, writes, m_JobQueue, finished, reader, worker, flaw>>

\* The contexts are closed and deleted.
ReleaseAllContexts ==
    /\ MainGoto("release", "ended")
    /\ Clients' = [i \in Slot |-> None]
    /\ socket' = [i \in Slot |-> IF Clients[i] = None THEN socket[i] ELSE None]
    /\ UNCHANGED <<net, ctx, reads, writes, m_JobQueue, finished, reader, worker, flaw>>

MainThread == Start \/ End \/ DestroyJobThread \/ DestroyThread \/ ReleaseAllContexts

Runs == RunsAs("select")

Next ==
    /\ Runs
    /\ \/ ReadThread \/ WriteThread \/ MainThread
       \/ \E w \in Worker : JobThread(w)
       \/ \E s \in Session : ClientStep(s) \/ DrainStep(s)

\* The threads are scheduled, and a client that stays receives what it is sent.
Fairness ==
    /\ WF_vars(Runs /\ ReadThread) /\ WF_vars(Runs /\ WriteThread) /\ WF_vars(Runs /\ MainThread)
    /\ \A w \in Worker : WF_vars(Runs /\ JobThread(w))
    /\ \A s \in Session : WF_vars(Runs /\ DrainStep(s))
=============================================================================
