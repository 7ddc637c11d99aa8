--------------------------- MODULE BlockingServer ---------------------------
(***************************************************************************)
(* The blocking server of LinuxBlockingSocket: a thread that accepts, a    *)
(* thread per client that reads, one job thread that writes the answers    *)
(* until all of each was taken, and the thread of main.  Nothing is left   *)
(* in a send buffer; the job queue is pushed to by all of them, and only   *)
(* who pops takes its lock.  A slot is a file descriptor.                  *)
(***************************************************************************)
EXTENDS StreamServer

\* reader[s]: where the thread of session s is; reader[None]: the accept thread.
Thread == Session \cup {None}

\* The constructor of GameServer has called Run.
Init ==
    /\ StreamInit
    /\ server = "blocking"
    /\ reader = [t \in Thread |-> IF t = None THEN "accept" ELSE "none"]
    /\ main = "constructed"

\* SocketServer::m_IsRun and GameServer::m_IsRun
IsRun == main \in {"constructed", "running", "join_jobs"}
JobsRun == main = "running"

ReaderGoto(t, from, to) ==
    /\ reader[t] = from
    /\ reader' = [reader EXCEPT ![t] = to]

-----------------------------------------------------------------------------
(* AcceptThread.                                                            *)

\* A connection gets a context and a thread, which reads.
CreateClientThread(i, s) ==
    /\ ctx' = [ctx EXCEPT ![s] = [NewContext EXCEPT !.slot = i]]
    /\ Clients' = [Clients EXCEPT ![i] = s]
    /\ reader' = [reader EXCEPT ![s] = "read", ![None] = IF IsRun THEN "accept" ELSE "exited"]

\* accept returns; m_IsRun is looked at before the next one.  A connection is
\* never cleaned up: the context of a thread that has ended still says alive.
AcceptThread(s) ==
    /\ Pending(s)
    /\ reader[None] = "accept"
    /\ \E i \in Slot :
         /\ socket[i] = None
         /\ \A j \in Slot : socket[j] = None => i <= j
         /\ socket' = [socket EXCEPT ![i] = s]
         /\ CreateClientThread(i, s)
    /\ net' = [net EXCEPT ![s].peer = "open"]
    /\ UNCHANGED <<reads, writes, m_JobQueue, finished, worker, main, flaw>>

-----------------------------------------------------------------------------
(* ClientThread of session s.                                               *)

\* A chunk is stored if it fits; nobody looks whether it did.
Enqueue(s, n) ==
    IF ctx[s].stored + n <= RecvCap
    THEN ctx' = [ctx EXCEPT ![s].stored = @ + n] /\ UNCHANGED flaw
    ELSE Flawed(s, {"cut"}) /\ UNCHANGED ctx

Read(s) ==
    /\ ReaderGoto(s, "read", "parse")
    /\ \E n \in 1 .. RecvCap :
         /\ Reads(s, n)
         /\ Enqueue(s, n)
    /\ UNCHANGED <<socket, Clients, reads, writes, m_JobQueue, finished, worker, main>>

\* The end of the stream; of a connection that was reset the first read fails,
\* which is passed over, and the next finds the end.
Disconnect(s) ==
    /\ net[s].peer \in {"closed", "reset"}
    /\ ReaderGoto(s, "read", "close")
    /\ UNCHANGED <<net, socket, Clients, ctx, reads, writes, m_JobQueue, finished, worker, main, flaw>>

WholeMessage(s) == reader[s] = "parse" /\ ctx[s].stored >= 2 /\ "cut" \notin flaw[s]
NextJob(s) == <<s, ctx[s].popped + 1>>
Pop(c) == [c EXCEPT !.stored = @ - 2, !.popped = @ + 1]

\* The job factory is empty until Start.
CreateJob(s) ==
    /\ m_JobQueue' = IF NextJob(s) \in Bad THEN m_JobQueue ELSE Append(m_JobQueue, NextJob(s))
    /\ main' = IF main = "constructed" THEN "crashed" ELSE main

\* OnReceive, without the lock of the queue; a request that no job can be made
\* of is popped as well.
OnReceive(s) ==
    /\ WholeMessage(s)
    /\ CreateJob(s)
    /\ ctx' = [ctx EXCEPT ![s] = Pop(@)]
    /\ UNCHANGED <<net, socket, Clients, reads, writes, finished, reader, worker, flaw>>

\* No whole message is left.  Fewer than five bytes look like a message of no
\* bytes, and the thread asks for their job for ever.
NextRead(s) ==
    /\ ~WholeMessage(s)
    /\ \/ ReaderGoto(s, "parse", IF IsRun THEN "read" ELSE "close")
       \/ ctx[s].stored > 0 /\ ReaderGoto(s, "parse", "spin")
    /\ UNCHANGED <<net, socket, Clients, ctx, reads, writes, m_JobQueue, finished, worker, main, flaw>>

Close(s) ==
    /\ ReaderGoto(s, "close", "exited")
    /\ socket' = [socket EXCEPT ![ctx[s].slot] = None]
    /\ UNCHANGED <<net, Clients, ctx, reads, writes, m_JobQueue, finished, worker, main, flaw>>

ClientThread(s) ==
    \/ AcceptThread(s) \/ Read(s) \/ Disconnect(s) \/ OnReceive(s) \/ NextRead(s) \/ Close(s)

\* Two pushes at the same time take the same place of the queue.
Collide(job, other) ==
    \E kept, lost \in {job, other} :
        /\ kept # lost
        /\ m_JobQueue' = Append(m_JobQueue, kept)
        /\ Flawed(lost[1], {"lost_job"})

Pushes(s) == WholeMessage(s) /\ NextJob(s) \notin Bad /\ main # "constructed"

ClientsCollide ==
    /\ \E r, s \in Session :
         /\ r < s
         /\ Pushes(r) /\ Pushes(s)
         /\ Collide(NextJob(r), NextJob(s))
         /\ ctx' = [ctx EXCEPT ![r] = Pop(@), ![s] = Pop(@)]
    /\ UNCHANGED <<net, socket, Clients, reads, writes, finished, reader, worker, main>>

-----------------------------------------------------------------------------
(* JobThread.                                                               *)

PopJob(w) ==
    /\ JobsRun
    /\ TakeJob(w, "send")
    /\ UNCHANGED <<net, socket, Clients, ctx, reads, writes, finished, reader, main, flaw>>

\* write blocks while the kernel has no room.  It fails on a descriptor that was
\* closed; on a connection that was reset it fails once, and from then on its
\* signal ends the process.
SendMsg(w) ==
    LET s == socket[JobSlot(w)]
        gone == s # None => net[s].peer = "reset" \/ (net[s].peer = "closed" /\ net[s].room < Size(worker[w].job))
    IN
    /\ worker[w].pc = "send"
    /\ \/ /\ ~gone
          /\ net[s].room >= Size(worker[w].job)
          /\ GiveKernel(s, Answer(worker[w].job), Size(worker[w].job))
          /\ JobDone(w)
          /\ UNCHANGED main
       \/ /\ gone
          /\ WorkerGoto(w, "send", "requeue")
          /\ UNCHANGED <<net, finished, main>>
       \/ /\ gone /\ s # None
          /\ main' = "crashed"
          /\ UNCHANGED <<net, finished, worker>>
    /\ UNCHANGED <<socket, Clients, ctx, reads, writes, m_JobQueue, reader, flaw>>

\* The job is queued again, without the lock, to write its answer from the start.
Requeue(w) ==
    /\ GiveUpJob(w)
    /\ m_JobQueue' = Append(m_JobQueue, worker[w].job)
    /\ UNCHANGED <<net, socket, Clients, ctx, reads, writes, finished, reader, main, flaw>>

RequeueCollides(w) ==
    /\ GiveUpJob(w)
    /\ \E s \in Session :
         /\ Pushes(s)
         /\ Collide(worker[w].job, NextJob(s))
         /\ ctx' = [ctx EXCEPT ![s] = Pop(@)]
    /\ UNCHANGED <<net, socket, Clients, reads, writes, finished, reader, main>>

\* The jobs that are left stay in the queue.
EndJobThread(w) ==
    /\ ~JobsRun
    /\ WorkerGoto(w, "idle", "exited")
    /\ UNCHANGED <<net, socket, Clients, ctx, reads, writes, m_JobQueue, finished, reader, main, flaw>>

JobThread(w) == PopJob(w) \/ SendMsg(w) \/ Requeue(w) \/ RequeueCollides(w) \/ EndJobThread(w)

-----------------------------------------------------------------------------
(* main.                                                                    *)

CreateJobThread == worker' = [w \in Worker |-> Idle]

Start ==
    /\ MainGoto("constructed", "running")
    /\ CreateJobThread
    /\ UNCHANGED <<net, socket, Clients, ctx, reads, writes, m_JobQueue, finished, reader, flaw>>

\* End waits for the job thread; the destructor calls Stop,
End ==
    /\ MainGoto("running", "join_jobs")
    /\ UNCHANGED <<net, socket, Clients, ctx, reads, writes, m_JobQueue, finished, reader, worker, flaw>>

DestroyJobThread ==
    /\ MainGoto("join_jobs", "join_accept")
    /\ \A w \in Worker : worker[w].pc = "exited"
    /\ UNCHANGED <<net, socket, Clients, ctx, reads, writes, m_JobQueue, finished, reader, worker, flaw>>

\* which waits for threads that are in accept and in read.
DestroyThreads ==
    /\ \/ MainGoto("join_accept", "join_clients") /\ reader[None] = "exited"
       \/ MainGoto("join_clients", "ended") /\ \A s \in Session : reader[s] \in {"none", "exited"}
    /\ UNCHANGED <<net, socket, Clients, ctx, reads, writes, m_JobQueue, finished, reader, worker, flaw>>

-----------------------------------------------------------------------------

Runs == RunsAs("blocking")

Next ==
    /\ Runs
    /\ \/ ClientsCollide \/ Start \/ End \/ DestroyJobThread \/ DestroyThreads
       \/ \E w \in Worker : JobThread(w)
       \/ \E s \in Session : ClientThread(s) \/ ClientStep(s) \/ DrainStep(s)

\* The threads are scheduled, and a client that stays receives what it is sent.
Fairness ==
    /\ \A w \in Worker : WF_vars(Runs /\ JobThread(w))
    /\ \A s \in Session : WF_vars(Runs /\ ClientThread(s)) /\ WF_vars(Runs /\ DrainStep(s))
=============================================================================
