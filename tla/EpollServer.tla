---------------------------- MODULE EpollServer -----------------------------
(***************************************************************************)
(* The Epoll server: one thread that waits for events and reads, one job   *)
(* thread that answers, and the thread of main.  Reader and job thread     *)
(* share a context's send buffer, under a lock, and the set of events that *)
(* epoll watches for its socket, which they change after the lock was      *)
(* released.  A slot is a file descriptor.                                 *)
(***************************************************************************)
EXTENDS StreamServer

\* The reader serves descriptor i and has the events ev of it to handle.
At(pc, i, ev) == [pc |-> pc, i |-> i, ev |-> ev]
Waiting == At("wait", None, {})

\* The constructor of GameServer has started the reader.
Init ==
    /\ StreamInit
    /\ server = "epoll"
    /\ reader = Waiting
    /\ main = "constructed"

\* EpollServer::m_IsRun and GameServer::m_IsRun
ReaderRuns == main \in {"constructed", "running", "join_jobs"}
JobsRun == main = "running"

-----------------------------------------------------------------------------
(* ReadThread.                                                              *)

ReaderAt(pc) == reader.pc = pc
ReaderGoto(pc) == reader' = [reader EXCEPT !.pc = pc]
Handled(e) == reader' = IF reader.ev = {e} THEN Waiting ELSE At("event", reader.i, reader.ev \ {e})

\* What epoll reports of slot i.
Events(i) ==
    {e \in {"HUP", "OUT", "IN"} :
        LET s == socket[i] IN
        \/ e = "HUP" /\ net[s].peer = "reset"
        \/ e = "OUT" /\ i \in writes /\ net[s].room > 0
        \/ e = "IN" /\ (net[s].unread > 0 \/ net[s].peer # "open")}

\* epoll_wait has no timeout: m_IsRun is looked at when there was an event.
EpollWait ==
    /\ ReaderAt("wait")
    /\ \/ \E i \in reads : ReaderRuns /\ Events(i) # {} /\ reader' = At("event", i, Events(i))
       \/ ~ReaderRuns /\ reader' = At("exited", None, {})
    /\ UNCHANGED <<net, socket, Clients, ctx, reads, writes, m_JobQueue, finished, worker, main, flaw>>

\* The context of a connection is new and empty.
InitContext(i, s) == ctx' = [ctx EXCEPT ![s] = [NewContext EXCEPT !.slot = i]]

\* It is watched, and then entered, unless the descriptor has a context.
CreateContext(i, s) ==
    /\ InitContext(i, s)
    /\ reads' = reads \cup {i}
    /\ Clients' = [Clients EXCEPT ![i] = IF @ = None THEN s ELSE @]

\* A connection is accepted and gets the first free descriptor.
DoAccept(s) ==
    /\ ReaderAt("wait")
    /\ ReaderRuns
    /\ Pending(s)
    /\ \E i \in Slot :
         /\ socket[i] = None
         /\ \A j \in Slot : socket[j] = None => i <= j
         /\ socket' = [socket EXCEPT ![i] = s]
         /\ CreateContext(i, s)
    /\ net' = [net EXCEPT ![s].peer = "open"]
    /\ UNCHANGED <<writes, m_JobQueue, finished, reader, worker, main, flaw>>

\* A fault: what was sent stays in the buffer.
ResumeSendKeeps ==
    LET s == Clients[reader.i]
        buf == ctx[s].sendBuffer
        n == Sent(s, buf)
    IN
    /\ ReaderAt("event")
    /\ "OUT" \in reader.ev /\ "HUP" \notin reader.ev
    /\ IF s = None \/ SendFails(s, buf)
       THEN Handled("OUT") /\ UNCHANGED net
       ELSE /\ GiveKernel(s, buf, n)
            /\ IF n = Len(buf) THEN ReaderGoto("unwatch") ELSE Handled("OUT")
    /\ UNCHANGED <<socket, Clients, ctx, reads, writes, m_JobQueue, finished, worker, main, flaw>>

\* The rest of the send buffer is sent, under the context's lock.
SendRest(s) ==
    LET buf == ctx[s].sendBuffer IN
    /\ ~SendFails(s, buf)
    /\ GiveKernel(s, buf, Sent(s, buf))
    /\ ctx' = [ctx EXCEPT ![s].sendBuffer = Drop(buf, Sent(s, buf))]

ResumeSend ==
    LET s == Clients[reader.i] IN
    /\ ReaderAt("event")
    /\ "OUT" \in reader.ev /\ "HUP" \notin reader.ev
    /\ IF s = None \/ SendFails(s, ctx[s].sendBuffer)
       THEN Handled("OUT") /\ UNCHANGED <<net, ctx>>
       ELSE /\ SendRest(s)
            /\ IF ctx'[s].sendBuffer = <<>> THEN ReaderGoto("unwatch") ELSE Handled("OUT")
    /\ UNCHANGED <<socket, Clients, reads, writes, m_JobQueue, finished, worker, main, flaw>>

\* The lock was released: what the job thread has stored since then, and asked
\* to be told of, is forgotten.
Unwatch ==
    LET s == Clients[reader.i] IN
    /\ ReaderAt("unwatch")
    /\ writes' = writes \ {reader.i}
    /\ Handled("OUT")
    /\ IF s # None /\ ctx[s].sendBuffer # <<>> THEN Flawed(s, {"unwatched"}) ELSE UNCHANGED flaw
    /\ UNCHANGED <<net, socket, Clients, ctx, reads, m_JobQueue, finished, worker, main>>

\* A chunk is stored if it fits, and the requests are looked for then; nobody hears
\* of it if it does not fit.
StorePartialMsg(s, n) ==
    IF ctx[s].stored + n <= RecvCap
    THEN ctx' = [ctx EXCEPT ![s].stored = @ + n] /\ ReaderGoto("parse") /\ UNCHANGED flaw
    ELSE reader' = Waiting /\ Flawed(s, {"cut"}) /\ UNCHANGED ctx

\* A read that fails stores 2^32 - 1 bytes; the sum with the bytes stored wraps
\* around and fits, and the copy runs off the buffer; with nothing stored it
\* does not fit.
DoRecv ==
    LET s == socket[reader.i] IN
    /\ ReaderAt("event")
    /\ reader.ev = {"IN"}
    /\ \/ /\ net[s].peer = "reset"
          /\ main' = IF ctx[s].stored > 0 THEN "crashed" ELSE main
          /\ reader' = Waiting
          /\ UNCHANGED <<net, ctx, flaw>>
       \/ /\ net[s].peer = "closed"
          /\ ReaderGoto("close")
          /\ UNCHANGED <<net, ctx, main, flaw>>
       \/ /\ \E n \in 1 .. RecvCap :
               /\ Reads(s, n)
               /\ IF Clients[reader.i] = None
                  THEN reader' = Waiting /\ Flawed(s, {"cut"}) /\ UNCHANGED ctx
                  ELSE StorePartialMsg(s, n)
          /\ UNCHANGED main
    /\ UNCHANGED <<socket, Clients, reads, writes, m_JobQueue, finished, worker>>

\* A whole request is stored.  (After a chunk was lost the stream makes no sense:
\* no request is found.)
GetReqMsg(s) == ctx[s].stored >= 2 /\ "cut" \notin flaw[s]
PopMsg(s) == ctx' = [ctx EXCEPT ![s].stored = @ - 2, ![s].popped = @ + 1]

\* The job made of the next request, if one can be made.  The job factory is
\* empty until Start: to look into it is an access out of bounds.
NextJob(s) == <<s, ctx[s].popped + 1>>
CreateJob(s) ==
    /\ m_JobQueue' = IF NextJob(s) \in Bad THEN m_JobQueue ELSE Append(m_JobQueue, NextJob(s))
    /\ main' = IF main = "constructed" THEN "crashed" ELSE main

\* The job is pushed, under the lock of the queue; then the request is popped, also
\* when no job could be made.
OnReceive ==
    LET s == socket[reader.i] IN
    /\ ReaderAt("parse")
    /\ IF GetReqMsg(s)
       THEN CreateJob(s) /\ PopMsg(s) /\ UNCHANGED reader
       ELSE reader' = Waiting /\ UNCHANGED <<ctx, m_JobQueue, main>>
    /\ UNCHANGED <<net, socket, Clients, reads, writes, finished, worker, flaw>>

\* Close: EPOLL_CTL_DEL,
CloseUnwatch ==
    /\ \/ ReaderAt("event") /\ "HUP" \in reader.ev
       \/ ReaderAt("close")
    /\ reads' = reads \ {reader.i}
    /\ writes' = writes \ {reader.i}
    /\ ReaderGoto("close_socket")
    /\ UNCHANGED <<net, socket, Clients, ctx, m_JobQueue, finished, worker, main, flaw>>

\* the socket,
CloseSocket ==
    /\ ReaderAt("close_socket")
    /\ IF Clients[reader.i] = None
       THEN reader' = Waiting /\ UNCHANGED socket
       ELSE ReaderGoto("release") /\ socket' = [socket EXCEPT ![reader.i] = None]
    /\ UNCHANGED <<net, Clients, ctx, reads, writes, m_JobQueue, finished, worker, main, flaw>>

\* and the context, which is deleted.
ReleaseContext ==
    /\ ReaderAt("release")
    /\ Clients' = [Clients EXCEPT ![reader.i] = None]
    /\ reader' = Waiting
    /\ UNCHANGED <<net, socket, ctx, reads, writes, m_JobQueue, finished, worker, main, flaw>>

ReadThread ==
    \/ EpollWait \/ ResumeSend \/ Unwatch \/ DoRecv \/ OnReceive
    \/ CloseUnwatch \/ CloseSocket \/ ReleaseContext
    \/ \E s \in Session : DoAccept(s)

-----------------------------------------------------------------------------
(* JobThread: EchoJob::Execute looks the context up, sends, and has the     *)
(* descriptor watched.                                                      *)

PopJob(w) ==
    /\ JobsRun
    /\ TakeJob(w, "look_up")
    /\ UNCHANGED <<net, socket, Clients, ctx, reads, writes, finished, reader, main, flaw>>

\* GetContext: the pointer is used after the lock of the table was released.
GetContext(w) ==
    LET s == Clients[JobSlot(w)] IN
    /\ worker[w].pc = "look_up"
    /\ worker' = [worker EXCEPT ![w].pc = IF s = None THEN "requeue" ELSE "send", ![w].ctx = s]
    /\ UNCHANGED <<net, socket, Clients, ctx, reads, writes, m_JobQueue, finished, reader, main, flaw>>

\* ClientContext::SendMsg on the context of session s: the answer is stored if
\* there is room, which is not looked at, and what the kernel takes is sent.
\* If that is nothing, the job will store its answer once more.  Bound: to a client
\* that stays this happens once; after that the job thread comes when there is room.
SendTo(s, w) ==
    LET old == ctx[s].sendBuffer
        full == ~Fits(old, worker[w].job)
        buf == IF full THEN old ELSE old \o Answer(worker[w].job)
        n == IF SendFails(s, buf) THEN 0 ELSE Sent(s, buf)
    IN
    /\ n > 0 \/ net[s].peer # "open" \/ "sent_again" \notin flaw[s]
    /\ ctx' = [ctx EXCEPT ![s].sendBuffer = Drop(buf, n)]
    /\ GiveKernel(s, buf, n)
    /\ IF n = Len(buf)
       THEN JobDone(w)
       ELSE WorkerGoto(w, "send", IF n = 0 THEN "requeue" ELSE "watch") /\ UNCHANGED finished
    /\ Flawed(s, IF full THEN {"overflow"} ELSE IF n = 0 THEN {"sent_again"} ELSE {})

\* The context looked up may be closed, and may be deleted: its memory is then
\* as it was left, or the context of the descriptor's next session (or of
\* another descriptor's, which is left out).
SendMsg(w) ==
    LET i == JobSlot(w)
        s == Clients[i]
    IN
    /\ worker[w].pc = "send"
    /\ \/ s # None /\ socket[i] = s /\ SendTo(s, w)
       \/ /\ s # worker[w].ctx \/ socket[i] # s
          /\ WorkerGoto(w, "send", "requeue")
          /\ UNCHANGED <<net, ctx, finished, flaw>>
    /\ UNCHANGED <<socket, Clients, reads, writes, m_JobQueue, reader, main>>

\* A fault: a part that was not sent is taken for sent.
WatchNothing(w) ==
    /\ worker[w].pc = "watch"
    /\ JobDone(w)
    /\ UNCHANGED <<net, socket, Clients, ctx, reads, writes, m_JobQueue, reader, main, flaw>>

\* The rest is left to the reader, if the descriptor is still watched; if not, the
\* job will send its answer once more.
WatchWrites(w) ==
    LET i == JobSlot(w) IN
    /\ worker[w].pc = "watch"
    /\ IF i \in reads
       THEN writes' = writes \cup {i} /\ JobDone(w) /\ UNCHANGED flaw
       ELSE /\ WorkerGoto(w, "watch", "requeue")
            /\ Flawed(worker[w].job[1], {"sent_again"})
            /\ UNCHANGED <<writes, finished>>
    /\ UNCHANGED <<net, socket, Clients, ctx, reads, m_JobQueue, reader, main>>

\* A job that is not finished is queued again, without the lock.
Requeue(w) ==
    /\ GiveUpJob(w)
    /\ m_JobQueue' = Append(m_JobQueue, worker[w].job)
    /\ UNCHANGED <<net, socket, Clients, ctx, reads, writes, finished, reader, main, flaw>>

\* The reader pushes at the same time: both take the same place of the queue,
\* and one of the two jobs is lost.
PushesCollide(w) ==
    LET s == socket[reader.i] IN
    /\ GiveUpJob(w)
    /\ ReaderAt("parse")
    /\ GetReqMsg(s) /\ NextJob(s) \notin Bad
    /\ \E kept, lost \in {NextJob(s), worker[w].job} :
         /\ kept # lost
         /\ m_JobQueue' = Append(m_JobQueue, kept)
         /\ Flawed(lost[1], {"lost_job"})
    /\ PopMsg(s)
    /\ UNCHANGED <<net, socket, Clients, reads, writes, finished, reader, main>>

\* The jobs that are left are deleted.
EndJobThread(w) ==
    /\ WorkerGoto(w, "idle", "exited")
    /\ ~JobsRun
    /\ finished' = finished \cup {m_JobQueue[k] : k \in DOMAIN m_JobQueue}
    /\ m_JobQueue' = <<>>
    /\ UNCHANGED <<net, socket, Clients, ctx, reads, writes, reader, main, flaw>>

JobThread(w) ==
    \/ PopJob(w) \/ GetContext(w) \/ SendMsg(w) \/ WatchWrites(w) \/ Requeue(w)
    \/ PushesCollide(w) \/ EndJobThread(w)

-----------------------------------------------------------------------------
(* main.                                                                    *)

CreateJobThread == worker' = [w \in Worker |-> Idle]

Start ==
    /\ MainGoto("constructed", "running")
    /\ CreateJobThread
    /\ UNCHANGED <<net, socket, Clients, ctx, reads, writes, m_JobQueue, finished, reader, flaw>>

\* GameServer::End waits for the job thread,
End ==
    /\ MainGoto("running", "join_jobs")
    /\ UNCHANGED <<net, socket, Clients, ctx, reads, writes, m_JobQueue, finished, reader, worker, flaw>>

DestroyJobThread ==
    /\ MainGoto("join_jobs", "release")
    /\ \A w \in Worker : worker[w].pc = "exited"
    /\ UNCHANGED <<net, socket, Clients, ctx, reads, writes, m_JobQueue, finished, reader, worker, flaw>>

\* then EpollServer::End deletes the contexts and waits for the reader.
ReleaseAllContexts ==
    /\ MainGoto("release", "join_reader")
    /\ Clients' = [i \in Slot |-> None]
    /\ UNCHANGED <<net, socket, ctx, reads, writes, m_JobQueue, finished, reader, worker, flaw>>

DestoryThreads ==
    /\ MainGoto("join_reader", "ended")
    /\ ReaderAt("exited")
    /\ UNCHANGED <<net, socket, Clients, ctx, reads, writes, m_JobQueue, finished, reader, worker, flaw>>

MainThread == Start \/ End \/ DestroyJobThread \/ ReleaseAllContexts \/ DestoryThreads

-----------------------------------------------------------------------------

Runs == RunsAs("epoll")

Next ==
    /\ Runs
    /\ \/ ReadThread \/ MainThread
       \/ \E w \in Worker : JobThread(w)
       \/ \E s \in Session : ClientStep(s) \/ DrainStep(s)

\* The threads are scheduled, and a client that stays receives what it is sent.
Fairness ==
    /\ WF_vars(Runs /\ ReadThread)
    /\ \A w \in Worker : WF_vars(Runs /\ JobThread(w))
    /\ \A s \in Session : WF_vars(Runs /\ DrainStep(s))
=============================================================================
