-------------------------- MODULE RequestPipeline ---------------------------
(***************************************************************************)
(* How GameServer turns the bytes of TCP connections into answers: the IO  *)
(* threads of IOCPCore store each received chunk and push a task for its   *)
(* client into the job thread pool; the pool's workers run                 *)
(* GameServer::HandleReq, which serves one client under its ProcessLock,   *)
(* stage by stage, and gives the task back to the pool when a stage could  *)
(* not be finished.                                                        *)
(*                                                                         *)
(* Modelled at the grain of what another thread can see: every access to   *)
(* the receive buffer, the lock, the task queue and the stage is a step of *)
(* its own.  A connection is modelled from its accept to its close; what   *)
(* DoDisconnect leaves behind on the slot is not part of this module.  The *)
(* pool's queue is an atomic FIFO here; ThreadPool models how it blocks    *)
(* and wakes its workers.                                                  *)
(***************************************************************************)
EXTENDS Naturals, Sequences

CONSTANTS
    Client,         \* connection slots
    Worker,         \* threads of the job pool (MAX_JOBTHREAD of them)
    NoClient,       \* a worker that holds no task
    Malformed,      \* numbers of the requests JobFactory::CreateJob rejects
    RecvCapacity,   \* requests m_RecvBuffer can hold
    MaxBurst,       \* bound: requests that one received chunk completes
    MaxRequest,     \* bound: requests one client sends
    MaxTask,        \* bound: queued tasks when a chunk completes no request
    MaxRepeat       \* bound: replies of one client that are pushed once too often

NoJob == 0          \* a null Job*; requests are numbered from 1

ASSUME PipelineAssumption ==
    /\ RecvCapacity \in Nat \ {0}
    /\ MaxBurst \in Nat \ {0}
    /\ MaxRequest \in Nat \ {0}
    /\ MaxTask \in Nat
    /\ MaxRepeat \in Nat
    /\ Malformed \subseteq 1 .. MaxRequest
    /\ NoClient \notin Client

VARIABLES
    rx,             \* rx[c]: where the IO thread is with c's receive
    arrived,        \* arrived[c]: how many requests c has sent so far
    m_RecvBuffer,   \* m_RecvBuffer[c]: complete requests stored, oldest first
    JobThreads,     \* the pool's queue of tasks; a task is the client it is for
    pc,             \* pc[w]: where worker w is in HandleReq
    serving,        \* serving[w]: the client of the task w runs
    ProcessLocks,   \* ProcessLocks[c]: TRUE while some worker holds the lock
    m_eJobProcess,  \* m_eJobProcess[c]: the stage to resume c's request at
    m_Jobs,         \* m_Jobs[c]: the request c's job object was made from
    accepted,       \* history: requests stored in c's buffer, in order
    executed,       \* history: requests whose Execute returned true
    done,           \* history: requests whose SendRes returned true
    wire            \* history: replies pushed into c's TCP send buffer

connVars == <<rx, arrived>>
poolVars == <<pc, serving>>
slotVars == <<ProcessLocks, m_eJobProcess, m_Jobs>>
history == <<accepted, executed, done, wire>>
vars == <<connVars, m_RecvBuffer, JobThreads, poolVars, slotVars, history>>

Request == 1 .. MaxRequest

\* The steps of HandleReq that run between a successful try_lock and the
\* destructor of the guard.
Holding == {"parse", "create", "pop", "execute", "send", "REQ_FAILED", "NOT_FINISHED"}
ProgramCounter == Holding \cup {"idle", "try_lock", "requeue"}
JobProcess == {"PARSING", "EXECUTE", "SEND"}

Init ==
    /\ rx = [c \in Client |-> "bound"]
    /\ arrived = [c \in Client |-> 0]
    /\ m_RecvBuffer = [c \in Client |-> <<>>]
    /\ JobThreads = <<>>
    /\ pc = [w \in Worker |-> "idle"]
    /\ serving = [w \in Worker |-> NoClient]
    /\ ProcessLocks = [c \in Client |-> FALSE]
    /\ m_eJobProcess = [c \in Client |-> "PARSING"]
    /\ m_Jobs = [c \in Client |-> NoJob]
    /\ accepted = [c \in Client |-> <<>>]
    /\ executed = [c \in Client |-> <<>>]
    /\ done = [c \in Client |-> <<>>]
    /\ wire = [c \in Client |-> <<>>]

-----------------------------------------------------------------------------
(* The IO thread that dequeued the completion of c's receive: DoTCPRecv.    *)
(* (Here and below, an action commented as a fault is not part of Next: it  *)
(* is the action after it with a plausible mistake, kept to show that the   *)
(* properties would find it.)                                               *)

\* StorePartialMessage under m_RecvLock.  The chunk completes k requests; it
\* is stored whole, or not at all when it does not fit, and DoTCPRecv goes on
\* as if it had been.
StoreChunk(c, k) ==
    LET chunk == [i \in 1 .. k |-> arrived[c] + i] IN
    /\ rx[c] = "bound"
    /\ arrived[c] + k <= MaxRequest
    /\ k = 0 => Len(JobThreads) < MaxTask
    /\ rx' = [rx EXCEPT ![c] = "stored"]
    /\ arrived' = [arrived EXCEPT ![c] = @ + k]
    /\ IF Len(m_RecvBuffer[c]) + k > RecvCapacity
       THEN UNCHANGED <<m_RecvBuffer, accepted>>
       ELSE /\ m_RecvBuffer' = [m_RecvBuffer EXCEPT ![c] = @ \o chunk]
            /\ accepted' = [accepted EXCEPT ![c] = @ \o chunk]
    /\ UNCHANGED <<JobThreads, poolVars, slotVars, executed, done, wire>>

\* OnTCPReceive -> PushJob -> ThreadPool::Enqueue, then BindRecv.
PushJob(c) ==
    /\ rx[c] = "stored"
    /\ JobThreads' = Append(JobThreads, c)
    /\ rx' = [rx EXCEPT ![c] = "bound"]
    /\ UNCHANGED <<arrived, m_RecvBuffer, poolVars, slotVars, history>>

-----------------------------------------------------------------------------
(* A worker of the pool.                                                    *)

\* ThreadPool::WorkerThread pops the oldest task.
TakeTask(w) ==
    /\ pc[w] = "idle"
    /\ JobThreads # <<>>
    /\ JobThreads' = Tail(JobThreads)
    /\ pc' = [pc EXCEPT ![w] = "try_lock"]
    /\ serving' = [serving EXCEPT ![w] = Head(JobThreads)]
    /\ UNCHANGED <<connVars, m_RecvBuffer, slotVars, history>>

ResumeAt(stage) ==
    IF stage = "PARSING" THEN "parse"
    ELSE IF stage = "EXECUTE" THEN "execute" ELSE "send"

\* SpinLockGuard(..., try_to_lock) succeeded: resume where the request stopped.
TryLock(w) ==
    LET c == serving[w] IN
    /\ pc[w] = "try_lock"
    /\ ~ProcessLocks[c]
    /\ ProcessLocks' = [ProcessLocks EXCEPT ![c] = TRUE]
    /\ pc' = [pc EXCEPT ![w] = ResumeAt(m_eJobProcess[c])]
    /\ UNCHANGED <<connVars, m_RecvBuffer, JobThreads, serving, m_eJobProcess, m_Jobs, history>>

\* Fault: the caller does not ask owns_lock().
EnterAnyway(w) ==
    /\ pc[w] = "try_lock"
    /\ ProcessLocks[serving[w]]
    /\ pc' = [pc EXCEPT ![w] = ResumeAt(m_eJobProcess[serving[w]])]
    /\ UNCHANGED <<connVars, m_RecvBuffer, JobThreads, serving, slotVars, history>>

\* It failed: NOT_MY_TURN, and the pool forgets the task.
NotMyTurn(w) ==
    /\ pc[w] = "try_lock"
    /\ ProcessLocks[serving[w]]
    /\ pc' = [pc EXCEPT ![w] = "idle"]
    /\ serving' = [serving EXCEPT ![w] = NoClient]
    /\ UNCHANGED <<connVars, m_RecvBuffer, JobThreads, slotVars, history>>

\* A stage gives up: SetJobProcess and return with the guard still alive.
Interrupt(w, stage, infoCode) ==
    /\ m_eJobProcess' = [m_eJobProcess EXCEPT ![serving[w]] = stage]
    /\ pc' = [pc EXCEPT ![w] = infoCode]
    /\ UNCHANGED <<connVars, m_RecvBuffer, JobThreads, serving, ProcessLocks>>

\* ParseReq, GetReqMsg under m_RecvLock: no complete request is stored.
NoRequest(w) ==
    /\ pc[w] = "parse"
    /\ m_RecvBuffer[serving[w]] = <<>>
    /\ Interrupt(w, "PARSING", "REQ_FAILED")
    /\ UNCHANGED <<m_Jobs, history>>

\* GetReqMsg returns a view of the oldest request, which stays in the buffer.
GetReqMsg(w) ==
    /\ pc[w] = "parse"
    /\ m_RecvBuffer[serving[w]] # <<>>
    /\ pc' = [pc EXCEPT ![w] = "create"]
    /\ UNCHANGED <<connVars, m_RecvBuffer, JobThreads, serving, slotVars, history>>

\* CreateJob made a job of the request; it replaces the one in m_Jobs.
CreateJob(w) ==
    LET c == serving[w] IN
    /\ pc[w] = "create"
    /\ Head(m_RecvBuffer[c]) \notin Malformed
    /\ m_Jobs' = [m_Jobs EXCEPT ![c] = Head(m_RecvBuffer[c])]
    /\ pc' = [pc EXCEPT ![w] = "pop"]
    /\ UNCHANGED <<connVars, m_RecvBuffer, JobThreads, serving,
                   ProcessLocks, m_eJobProcess, history>>

\* CreateJob returned null: the request is left in the buffer.
RejectMsg(w) ==
    /\ pc[w] = "create"
    /\ Head(m_RecvBuffer[serving[w]]) \in Malformed
    /\ Interrupt(w, "PARSING", "REQ_FAILED")
    /\ UNCHANGED <<m_Jobs, history>>

\* PopReqMsg under m_RecvLock, the last call of ParseReq.
PopReqMsg(w) ==
    /\ pc[w] = "pop"
    /\ m_RecvBuffer' = [m_RecvBuffer EXCEPT ![serving[w]] = Tail(@)]
    /\ pc' = [pc EXCEPT ![w] = "execute"]
    /\ UNCHANGED <<connVars, JobThreads, serving, slotVars, history>>

\* ExecuteReq: the job did its work and prepared its reply ...
ExecuteReq(w) ==
    LET c == serving[w] IN
    /\ pc[w] = "execute"
    /\ m_Jobs[c] # NoJob
    /\ executed' = [executed EXCEPT ![c] = Append(@, m_Jobs[c])]
    /\ pc' = [pc EXCEPT ![w] = "send"]
    /\ UNCHANGED <<connVars, m_RecvBuffer, JobThreads, serving, slotVars, accepted, done, wire>>

\* Fault: an execution that failed starts over at PARSING.
ExecuteFailsToParsing(w) ==
    /\ pc[w] = "execute"
    /\ Interrupt(w, "PARSING", "NOT_FINISHED")
    /\ UNCHANGED <<m_Jobs, history>>

\* ... or it could not (no packet, no job object) and is to be run again.
ExecuteFails(w) ==
    /\ pc[w] = "execute"
    /\ Interrupt(w, "EXECUTE", "NOT_FINISHED")
    /\ UNCHANGED <<m_Jobs, history>>

\* Fault: m_Jobs keeps the job that was deallocated.
SendResKeepsJob(w) ==
    LET c == serving[w] IN
    /\ pc[w] = "send"
    /\ m_Jobs[c] # NoJob
    /\ wire' = [wire EXCEPT ![c] = Append(@, m_Jobs[c])]
    /\ done' = [done EXCEPT ![c] = Append(@, m_Jobs[c])]
    /\ pc' = [pc EXCEPT ![w] = "parse"]
    /\ UNCHANGED <<connVars, m_RecvBuffer, JobThreads, serving, slotVars, accepted, executed>>

\* SendRes: the reply is in the send buffer, the job object goes back to its
\* pool, and the loop looks for the next request.
SendRes(w) ==
    LET c == serving[w] IN
    /\ pc[w] = "send"
    /\ m_Jobs[c] # NoJob
    /\ wire' = [wire EXCEPT ![c] = Append(@, m_Jobs[c])]
    /\ done' = [done EXCEPT ![c] = Append(@, m_Jobs[c])]
    /\ m_Jobs' = [m_Jobs EXCEPT ![c] = NoJob]
    /\ pc' = [pc EXCEPT ![w] = "parse"]
    /\ UNCHANGED <<connVars, m_RecvBuffer, JobThreads, serving,
                   ProcessLocks, m_eJobProcess, accepted, executed>>

\* Fault: the result of the job's SendRes is not looked at.
SendFailsUnnoticed(w) ==
    LET c == serving[w] IN
    /\ pc[w] = "send"
    /\ done' = [done EXCEPT ![c] = Append(@, m_Jobs[c])]
    /\ m_Jobs' = [m_Jobs EXCEPT ![c] = NoJob]
    /\ pc' = [pc EXCEPT ![w] = "parse"]
    /\ UNCHANGED <<connVars, m_RecvBuffer, JobThreads, serving,
                   ProcessLocks, m_eJobProcess, accepted, executed, wire>>

\* Fault: a reply that could not be sent is prepared again.
SendFailsToExecute(w) ==
    /\ pc[w] = "send"
    /\ Interrupt(w, "EXECUTE", "NOT_FINISHED")
    /\ UNCHANGED <<m_Jobs, history>>

\* SendRes fails with nothing sent: the send buffer is full.
SendFails(w) ==
    /\ pc[w] = "send"
    /\ Interrupt(w, "SEND", "NOT_FINISHED")
    /\ UNCHANGED <<m_Jobs, history>>

\* SendMsgTCP pushed the reply and then WSASend failed: the reply stays in the
\* send buffer, and yet false is returned and SendRes will be run again.
SendFailsAfterPush(w) ==
    LET c == serving[w] IN
    /\ pc[w] = "send"
    /\ m_Jobs[c] # NoJob
    /\ Len(wire[c]) < Len(done[c]) + MaxRepeat
    /\ wire' = [wire EXCEPT ![c] = Append(@, m_Jobs[c])]
    /\ Interrupt(w, "SEND", "NOT_FINISHED")
    /\ UNCHANGED <<m_Jobs, accepted, executed, done>>

\* Fault: the pool forgets a task whatever it returned.
UnlockForgets(w) ==
    /\ pc[w] \in {"REQ_FAILED", "NOT_FINISHED"}
    /\ ProcessLocks' = [ProcessLocks EXCEPT ![serving[w]] = FALSE]
    /\ pc' = [pc EXCEPT ![w] = "idle"]
    /\ serving' = [serving EXCEPT ![w] = NoClient]
    /\ UNCHANGED <<connVars, m_RecvBuffer, JobThreads, m_eJobProcess, m_Jobs, history>>

\* HandleReq returns: the guard's destructor releases the lock.
Unlock(w) ==
    /\ pc[w] \in {"REQ_FAILED", "NOT_FINISHED"}
    /\ ProcessLocks' = [ProcessLocks EXCEPT ![serving[w]] = FALSE]
    /\ IF pc[w] = "NOT_FINISHED"
       THEN /\ pc' = [pc EXCEPT ![w] = "requeue"]
            /\ UNCHANGED serving
       ELSE /\ pc' = [pc EXCEPT ![w] = "idle"]
            /\ serving' = [serving EXCEPT ![w] = NoClient]
    /\ UNCHANGED <<connVars, m_RecvBuffer, JobThreads, m_eJobProcess, m_Jobs, history>>

\* Fault: the push of the retried task fails and nobody notices.
RequeueLoses(w) ==
    /\ pc[w] = "requeue"
    /\ pc' = [pc EXCEPT ![w] = "idle"]
    /\ serving' = [serving EXCEPT ![w] = NoClient]
    /\ UNCHANGED <<connVars, m_RecvBuffer, JobThreads, slotVars, history>>

\* ThreadPool::WorkerThread enqueues a task that returned NOT_FINISHED.
Requeue(w) ==
    /\ pc[w] = "requeue"
    /\ JobThreads' = Append(JobThreads, serving[w])
    /\ pc' = [pc EXCEPT ![w] = "idle"]
    /\ serving' = [serving EXCEPT ![w] = NoClient]
    /\ UNCHANGED <<connVars, m_RecvBuffer, slotVars, history>>

ParseReq(w) ==
    NoRequest(w) \/ GetReqMsg(w) \/ CreateJob(w) \/ RejectMsg(w) \/ PopReqMsg(w)

\* Stages that can be interrupted, and the outcome that lets them go on.
Succeed(w) == ExecuteReq(w) \/ SendRes(w)
Fail(w) == ExecuteFails(w) \/ SendFails(w) \/ SendFailsAfterPush(w)

WorkerStep(w) ==
    \/ TakeTask(w)
    \/ TryLock(w)
    \/ NotMyTurn(w)
    \/ ParseReq(w)
    \/ Succeed(w)
    \/ Fail(w)
    \/ Unlock(w)
    \/ Requeue(w)

IOStep(c) == PushJob(c) \/ \E k \in 0 .. MaxBurst : StoreChunk(c, k)

Next == (\E c \in Client : IOStep(c)) \/ (\E w \in Worker : WorkerStep(w))

Spec == Init /\ [][Next]_vars

\* Threads are scheduled: a worker that can take a step takes one, and the IO
\* thread that stored a chunk pushes its task.  A stage that is tried again
\* and again succeeds in the end (packets are returned to their pool, the
\* kernel drains the send buffer).  Nothing obliges a client to send.
Fairness ==
    /\ \A w \in Worker : WF_vars(WorkerStep(w))
    /\ \A w \in Worker : SF_vars(ExecuteReq(w)) /\ SF_vars(SendRes(w))
    /\ \A c \in Client : WF_vars(PushJob(c))

FairSpec == Spec /\ Fairness
-----------------------------------------------------------------------------
(* Properties.                                                              *)

TypeOK ==
    /\ rx \in [Client -> {"bound", "stored"}]
    /\ arrived \in [Client -> 0 .. MaxRequest]
    /\ m_RecvBuffer \in [Client -> Seq(Request)]
    /\ \A c \in Client : Len(m_RecvBuffer[c]) <= RecvCapacity
    /\ JobThreads \in Seq(Client)
    /\ pc \in [Worker -> ProgramCounter]
    /\ serving \in [Worker -> Client \cup {NoClient}]
    /\ \A w \in Worker : serving[w] = NoClient <=> pc[w] = "idle"
    /\ ProcessLocks \in [Client -> BOOLEAN]
    /\ m_eJobProcess \in [Client -> JobProcess]
    /\ m_Jobs \in [Client -> Request \cup {NoJob}]
    /\ accepted \in [Client -> Seq(Request)]
    /\ executed \in [Client -> Seq(Request)]
    /\ done \in [Client -> Seq(Request)]
    /\ wire \in [Client -> Seq(Request)]

Serves(w, c) == serving[w] = c /\ pc[w] \in Holding

\* Two workers never run HandleReq's locked part for the same client, although
\* every chunk pushes a task of its own and retries push more (GameServer.cpp
\* line 157: the try_lock is all that keeps them apart).
MutualExclusion ==
    \A v, w \in Worker, c \in Client : Serves(v, c) /\ Serves(w, c) => v = w

\* Whenever nobody serves a client, its recorded stage and its slot in m_Jobs
\* agree: a job object waits exactly when a stage after PARSING was interrupted.
\* So no resumed stage meets a null job and no parse overwrites a live one.
StageMatchesJob ==
    \A c \in Client :
        ~ProcessLocks[c] => (m_eJobProcess[c] = "PARSING" <=> m_Jobs[c] = NoJob)

Queued(c) == \E i \in DOMAIN JobThreads : JobThreads[i] = c

\* An interrupted request always has a task that will resume it, although
\* tasks that meet the lock are thrown away: the retry's own task is not lost
\* to a NOT_MY_TURN.
RetryIsScheduled ==
    \A c \in Client :
        ~ProcessLocks[c] /\ m_eJobProcess[c] # "PARSING" =>
            \/ Queued(c)
            \/ \E w \in Worker : serving[w] = c /\ pc[w] \in {"requeue", "try_lock"}

\* The requests of c that are stored and not yet taken as a job.
Waiting(c) ==
    IF \E w \in Worker : serving[w] = c /\ pc[w] = "pop"
    THEN Tail(m_RecvBuffer[c])
    ELSE m_RecvBuffer[c]

CurrentJob(c) == IF m_Jobs[c] = NoJob THEN <<>> ELSE <<m_Jobs[c]>>

\* What a connection was accepted for is, at every moment, what was answered,
\* then what is in service, then what waits: no request is skipped, served
\* twice or overtaken, whatever tasks are retried or dropped (README.md of
\* IOCP_TCP+UDP, lines 17 to 20).
NothingOvertaken ==
    \A c \in Client : accepted[c] = done[c] \o CurrentJob(c) \o Waiting(c)

\* The replies on the wire come in the order of the requests; a request that
\* is done has its reply there; and only the request in service can be there
\* besides.  (A reply may be repeated: see SendFailsAfterPush.)
ReplyOrder ==
    \A c \in Client :
        LET replies == {wire[c][i] : i \in DOMAIN wire[c]}
            answers == {done[c][i] : i \in DOMAIN done[c]}
        IN /\ \A i, j \in DOMAIN wire[c] : i < j => wire[c][i] <= wire[c][j]
           /\ answers \subseteq replies
           /\ replies \subseteq answers \cup {m_Jobs[c]}

\* A client's job object is given up only by answering its request: the next
\* request is not turned into a job before.
JobKeptUntilAnswered ==
    [][\A c \in Client :
         m_Jobs[c] # NoJob /\ m_Jobs'[c] # m_Jobs[c] =>
             done'[c] = Append(done[c], m_Jobs[c])]_vars

\* A request that became a job is answered in the end, however often its
\* stages fail and its tasks meet another worker's lock.
InterruptedIsFinished == \A c \in Client : m_Jobs[c] # NoJob ~> m_Jobs[c] = NoJob

\* README.md of IOCP_TCP+UDP, line 68: a worker that fails to take the lock may
\* end its task because another thread will do the work.  So a request that is
\* stored is served in the end.
StoredIsServed ==
    \A c \in Client : m_RecvBuffer[c] # <<>> ~> m_RecvBuffer[c] = <<>>

-----------------------------------------------------------------------------
(* The pipeline implements RequestService: locks, workers, stages and the   *)
(* task queue are invisible to a client.                                    *)

Service == INSTANCE RequestService WITH
    inbox <- [c \in Client |-> Waiting(c)],
    current <- [c \in Client |-> CurrentJob(c)],
    answered <- done

\* Every behaviour of the workers and IO threads is one of the service: one
\* request at a time, in order, executed once, answered after it was executed.
ImplementsService == Service!Spec
=============================================================================
