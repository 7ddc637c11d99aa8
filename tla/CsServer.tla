------------------------------ MODULE CsServer ------------------------------
(***************************************************************************)
(* The C# server (CSSocketServer.cs, ClientContext.cs, ReqHandler.cs): an  *)
(* accept loop that takes an index from a pool for each connection, a      *)
(* receive loop per connection that handles one request after the other    *)
(* and sends its answer itself, a continuation that gives the index back,  *)
(* and Close, which waits for all of them.                                 *)
(*                                                                         *)
(* A flow of control can be suspended at every await, and the flows run on *)
(* the threads of the runtime's pool: the steps of different flows         *)
(* interleave.  A session is one connection; sessions are numbered in the  *)
(* order in which they are accepted.                                       *)
(***************************************************************************)
EXTENDS Naturals, Sequences, FiniteSets

CONSTANTS
    MaxClient,  \* MAX_CLIENT_COUNT, the number of indices
    MaxSession, \* bound: connections accepted
    MaxRequest, \* MaxRequest[s]: bound, requests the client of session s sends
    AnswerSize, \* length of an answer, in the units in which sends are cut short
    MaxThrow    \* bound: accepts that fail

ASSUME CsServerAssumption ==
    /\ MaxClient \in Nat \ {0}
    /\ MaxSession \in Nat
    /\ MaxRequest \in [1 .. MaxSession -> Nat]
    /\ AnswerSize \in Nat \ {0}
    /\ MaxThrow \in Nat

Index == 0 .. MaxClient - 1
Session == 1 .. MaxSession
None == 0       \* no session
NoIndex == MaxClient

VARIABLES
    m_IsRun,
    m_ListenSocket,     \* "open" or "closed"
    m_ClientIndexQueue, \* the free indices
    m_Clients,          \* m_Clients[i]: the session whose context is registered under i
    m_RecvTasks,        \* m_RecvTasks[i]: the session whose receive loop is
    accept,             \* where AcceptLoop is
    idx,                \* the index AcceptLoop holds
    accepted,           \* number of sessions so far; the last is AcceptLoop's
    slot,               \* slot[s]: the index of session s (cc.m_Index)
    loop,               \* loop[s]: where RecvLoop of s is
    cont,               \* cont[s]: how far the continuation of RecvLoop has come
    close,              \* where Close is
    awaited,            \* the sessions whose loops Close waits for
    peer,               \* peer[s]: "open", or "closed" or "reset" by the client
    asked,              \* asked[s]: requests the client sent
    received,           \* received[s]: how many of them were received
    finished,           \* finished[s]: how many of those were handled and popped
    answered,           \* answered[s]: how many of those called for an answer
    m_SendBuffer,       \* m_SendBuffer[s]: bytes stored to be sent
    sent,               \* sent[s]: history, bytes given to the kernel
    lost                \* history: indices of accepts that failed

acceptVars == <<accept, idx, accepted, slot, lost>>
tables == <<m_ClientIndexQueue, m_Clients, m_RecvTasks>>
runVars == <<m_IsRun, m_ListenSocket, close, awaited>>
recvVars == <<received, finished, answered>>
sendVars == <<m_SendBuffer, sent>>
peerVars == <<peer, asked>>
vars == <<acceptVars, tables, runVars, loop, cont, recvVars, sendVars, peerVars>>

\* Start has filled the pool and started AcceptLoop.
Init ==
    /\ m_IsRun = TRUE
    /\ m_ListenSocket = "open"
    /\ m_ClientIndexQueue = [i \in 1 .. MaxClient |-> i - 1]
    /\ m_Clients = [i \in Index |-> None]
    /\ m_RecvTasks = [i \in Index |-> None]
    /\ accept = "top"
    /\ idx = NoIndex
    /\ accepted = 0
    /\ slot = [s \in Session |-> NoIndex]
    /\ loop = [s \in Session |-> "none"]
    /\ cont = [s \in Session |-> "none"]
    /\ close = "no"
    /\ awaited = {}
    /\ peer = [s \in Session |-> "open"]
    /\ asked = [s \in Session |-> 0]
    /\ received = [s \in Session |-> 0]
    /\ finished = [s \in Session |-> 0]
    /\ answered = [s \in Session |-> 0]
    /\ m_SendBuffer = [s \in Session |-> 0]
    /\ sent = [s \in Session |-> 0]
    /\ lost = {}

Live(s) == loop[s] \notin {"none", "completed"}

-----------------------------------------------------------------------------
(* AcceptLoop.                                                              *)

(* (An action commented as a fault, here and below, is not part of Next: it  *)
(* is the action after it with a plausible mistake, kept to show that the   *)
(* properties would find it.)                                               *)

\* Fault: the index is looked at and stays in the pool.
PeekIndex ==
    /\ accept = "top"
    /\ m_IsRun
    /\ m_ClientIndexQueue # <<>>
    /\ idx' = Head(m_ClientIndexQueue)
    /\ accept' = "accepting"
    /\ UNCHANGED <<accepted, slot, lost, tables, runVars, loop, cont, recvVars, sendVars, peerVars>>

\* An index is taken first; without one the loop sleeps and tries again.
TakeIndex ==
    /\ accept = "top"
    /\ m_IsRun
    /\ m_ClientIndexQueue # <<>>
    /\ idx' = Head(m_ClientIndexQueue)
    /\ m_ClientIndexQueue' = Tail(m_ClientIndexQueue)
    /\ accept' = "accepting"
    /\ UNCHANGED <<accepted, slot, lost, m_Clients, m_RecvTasks, runVars, loop, cont,
                   recvVars, sendVars, peerVars>>

\* AcceptAsync returns; RecvLoop is called and runs up to its first await.
AcceptClient ==
    /\ accept = "accepting"
    /\ m_ListenSocket = "open"
    /\ accepted < MaxSession
    /\ accepted' = accepted + 1
    /\ slot' = [slot EXCEPT ![accepted + 1] = idx]
    /\ loop' = [loop EXCEPT ![accepted + 1] = IF m_IsRun THEN "recv" ELSE "finally"]
    /\ accept' = "started"
    /\ UNCHANGED <<idx, lost, tables, runVars, cont, recvVars, sendVars, peerVars>>

\* AcceptAsync throws a SocketException: the loop goes on, without the index.
AcceptThrows ==
    /\ accept = "accepting"
    /\ m_ListenSocket = "open"
    /\ Cardinality(lost) < MaxThrow
    /\ lost' = lost \cup {idx}
    /\ idx' = NoIndex
    /\ accept' = "top"
    /\ UNCHANGED <<accepted, slot, tables, runVars, loop, cont, recvVars, sendVars, peerVars>>

\* The listening socket was closed: m_IsRun is false by then, so AcceptLoop ends
\* whichever exception tells it.
AcceptAborted ==
    /\ accept = "accepting"
    /\ m_ListenSocket = "closed"
    /\ lost' = lost \cup {idx}
    /\ idx' = NoIndex
    /\ accept' = "done"
    /\ UNCHANGED <<accepted, slot, tables, runVars, loop, cont, recvVars, sendVars, peerVars>>

\* Fault: the context is not registered.
AddNoClient ==
    /\ accept = "started"
    /\ accept' = "client_added"
    /\ UNCHANGED <<idx, accepted, slot, lost, tables, runVars, loop, cont, recvVars, sendVars,
                   peerVars>>

\* m_Clients.TryAdd
AddClient ==
    /\ accept = "started"
    /\ m_Clients' = [m_Clients EXCEPT ![idx] = IF @ = None THEN accepted ELSE @]
    /\ accept' = "client_added"
    /\ UNCHANGED <<idx, accepted, slot, lost, m_ClientIndexQueue, m_RecvTasks, runVars, loop,
                   cont, recvVars, sendVars, peerVars>>

\* m_RecvTasks.TryAdd
AddTask ==
    /\ accept = "client_added"
    /\ m_RecvTasks' = [m_RecvTasks EXCEPT ![idx] = IF @ = None THEN accepted ELSE @]
    /\ accept' = "task_added"
    /\ UNCHANGED <<idx, accepted, slot, lost, m_ClientIndexQueue, m_Clients, runVars, loop,
                   cont, recvVars, sendVars, peerVars>>

\* task.ContinueWith, and back to the top of the loop.
RegisterContinuation ==
    /\ accept = "task_added"
    /\ cont' = [cont EXCEPT ![accepted] = "registered"]
    /\ idx' = NoIndex
    /\ accept' = "top"
    /\ UNCHANGED <<accepted, slot, lost, tables, runVars, loop, recvVars, sendVars, peerVars>>

StopAccepting ==
    /\ accept = "top"
    /\ ~m_IsRun
    /\ accept' = "done"
    /\ UNCHANGED <<idx, accepted, slot, lost, tables, runVars, loop, cont, recvVars, sendVars,
                   peerVars>>

AcceptStep ==
    \/ TakeIndex
    \/ AcceptAborted
    \/ AddClient
    \/ AddTask
    \/ RegisterContinuation
    \/ StopAccepting

-----------------------------------------------------------------------------
(* RecvLoop of session s.                                                   *)

Goto(s, from, to) ==
    /\ loop[s] = from
    /\ loop' = [loop EXCEPT ![s] = to]

\* while (m_IsRun)
CheckRunning(s) ==
    /\ Goto(s, "check", IF m_IsRun THEN "recv" ELSE "finally")
    /\ UNCHANGED <<acceptVars, tables, runVars, cont, recvVars, sendVars, peerVars>>

\* RecvAsync: what has come so far is stored.
Receive(s) ==
    /\ peer[s] # "reset"
    /\ received[s] < asked[s]
    /\ Goto(s, "recv", "get_msg")
    /\ \E n \in received[s] + 1 .. asked[s] : received' = [received EXCEPT ![s] = n]
    /\ UNCHANGED <<acceptVars, tables, runVars, cont, finished, answered, sendVars, peerVars>>

\* RecvAsync returns false at the end of the stream, and when it throws.
ReceiveEnds(s) ==
    /\ \/ peer[s] = "closed" /\ received[s] = asked[s]
       \/ peer[s] = "reset"
    /\ Goto(s, "recv", "finally")
    /\ UNCHANGED <<acceptVars, tables, runVars, cont, recvVars, sendVars, peerVars>>

\* while (cc.GetMsg(ref view)): there is a request, for which HandleReq wants an
\* answer or which it rejects;
GetMsg(s) ==
    /\ finished[s] < received[s]
    /\ \/ Goto(s, "get_msg", "send_msg")
       \/ Goto(s, "get_msg", "rejected")
    /\ UNCHANGED <<acceptVars, tables, runVars, cont, recvVars, sendVars, peerVars>>

\* or there is none.
NoMsg(s) ==
    /\ finished[s] = received[s]
    /\ Goto(s, "get_msg", "check")
    /\ UNCHANGED <<acceptVars, tables, runVars, cont, recvVars, sendVars, peerVars>>

\* SendMsg finds the context of the index and stores the answer in its buffer.
\* As long as the index has no context it returns false, and HandleReq sleeps
\* and calls it again.
SendMsg(s) ==
    /\ Goto(s, "send_msg", "sending")
    /\ m_Clients[slot[s]] # None
    /\ m_SendBuffer' = [m_SendBuffer EXCEPT ![m_Clients[slot[s]]] = @ + AnswerSize]
    /\ UNCHANGED <<acceptVars, tables, runVars, cont, recvVars, sent, peerVars>>

\* Fault: everything is popped, however much of it was sent.
SendAsyncPopsAll(s) ==
    /\ loop[s] = "sending"
    /\ m_SendBuffer[s] > 0
    /\ peer[s] # "reset"
    /\ \E n \in 1 .. m_SendBuffer[s] : sent' = [sent EXCEPT ![s] = @ + n]
    /\ m_SendBuffer' = [m_SendBuffer EXCEPT ![s] = 0]
    /\ UNCHANGED <<acceptVars, tables, runVars, loop, cont, recvVars, peerVars>>

\* SendAsync takes some of the bytes, and they are popped.
SendAsync(s) ==
    /\ loop[s] = "sending"
    /\ m_SendBuffer[s] > 0
    /\ peer[s] # "reset"
    /\ \E n \in 1 .. m_SendBuffer[s] :
         /\ sent' = [sent EXCEPT ![s] = @ + n]
         /\ m_SendBuffer' = [m_SendBuffer EXCEPT ![s] = @ - n]
    /\ UNCHANGED <<acceptVars, tables, runVars, loop, cont, recvVars, peerVars>>

\* SendAsync throws a SocketException: HandleSendException says that the
\* connection is kept for now, and the loop calls SendAsync again.
SendThrows(s) ==
    /\ loop[s] = "sending"
    /\ m_SendBuffer[s] > 0
    /\ peer[s] = "reset"
    /\ UNCHANGED vars

\* The buffer is empty: SendMsg, HandleReq and OnReceive return, and PopMsg
\* removes the request.
PopMsg(s) ==
    /\ \/ /\ m_SendBuffer[s] = 0
          /\ Goto(s, "sending", "get_msg")
          /\ answered' = [answered EXCEPT ![s] = @ + 1]
       \/ Goto(s, "rejected", "get_msg") /\ UNCHANGED answered
    /\ finished' = [finished EXCEPT ![s] = @ + 1]
    /\ UNCHANGED <<acceptVars, tables, runVars, cont, received, sendVars, peerVars>>

\* OnDisconnect, Release; the task is completed.
Release(s) ==
    /\ Goto(s, "finally", "completed")
    /\ UNCHANGED <<acceptVars, tables, runVars, cont, recvVars, sendVars, peerVars>>

RecvStep(s) ==
    \/ CheckRunning(s)
    \/ Receive(s)
    \/ ReceiveEnds(s)
    \/ GetMsg(s)
    \/ NoMsg(s)
    \/ SendMsg(s)
    \/ SendAsync(s)
    \/ SendThrows(s)
    \/ PopMsg(s)
    \/ Release(s)

-----------------------------------------------------------------------------
(* The continuation of RecvLoop of s.                                       *)

RemoveTask(s) ==
    /\ cont[s] = "registered"
    /\ loop[s] = "completed"
    /\ m_RecvTasks' = [m_RecvTasks EXCEPT ![slot[s]] = None]
    /\ cont' = [cont EXCEPT ![s] = "task_removed"]
    /\ UNCHANGED <<acceptVars, m_ClientIndexQueue, m_Clients, runVars, loop, recvVars, sendVars,
                   peerVars>>

\* Fault: the index is given back before the context is removed.
RemoveClientLate(s) ==
    /\ \/ /\ cont[s] = "task_removed"
          /\ m_ClientIndexQueue' = Append(m_ClientIndexQueue, slot[s])
          /\ cont' = [cont EXCEPT ![s] = "index_returned"]
          /\ UNCHANGED m_Clients
       \/ /\ cont[s] = "index_returned"
          /\ m_Clients' = [m_Clients EXCEPT ![slot[s]] = None]
          /\ cont' = [cont EXCEPT ![s] = "done"]
          /\ UNCHANGED m_ClientIndexQueue
    /\ UNCHANGED <<acceptVars, m_RecvTasks, runVars, loop, recvVars, sendVars, peerVars>>

RemoveClient(s) ==
    /\ cont[s] = "task_removed"
    /\ m_Clients' = [m_Clients EXCEPT ![slot[s]] = None]
    /\ cont' = [cont EXCEPT ![s] = "client_removed"]
    /\ UNCHANGED <<acceptVars, m_ClientIndexQueue, m_RecvTasks, runVars, loop, recvVars,
                   sendVars, peerVars>>

ReturnIndex(s) ==
    /\ cont[s] = "client_removed"
    /\ m_ClientIndexQueue' = Append(m_ClientIndexQueue, slot[s])
    /\ cont' = [cont EXCEPT ![s] = "done"]
    /\ UNCHANGED <<acceptVars, m_Clients, m_RecvTasks, runVars, loop, recvVars, sendVars,
                   peerVars>>

ContinuationStep(s) == RemoveTask(s) \/ RemoveClient(s) \/ ReturnIndex(s)

-----------------------------------------------------------------------------
(* Close.                                                                   *)

BeginClose ==
    /\ close = "no"
    /\ m_IsRun' = FALSE
    /\ close' = "stopped"
    /\ UNCHANGED <<acceptVars, tables, m_ListenSocket, awaited, loop, cont, recvVars, sendVars,
                   peerVars>>

CloseListenSocket ==
    /\ close = "stopped"
    /\ m_ListenSocket' = "closed"
    /\ close' = "await_accept"
    /\ UNCHANGED <<acceptVars, tables, m_IsRun, awaited, loop, cont, recvVars, sendVars, peerVars>>

\* Fault: the receive loops are counted before AcceptLoop has ended.
AwaitNoAccept ==
    /\ close = "await_accept"
    /\ awaited' = {m_RecvTasks[i] : i \in Index} \ {None}
    /\ close' = "await_loops"
    /\ UNCHANGED <<acceptVars, tables, m_IsRun, m_ListenSocket, loop, cont, recvVars, sendVars,
                   peerVars>>

\* await AcceptTask, then m_RecvTasks.Values.ToArray()
AwaitAccept ==
    /\ close = "await_accept"
    /\ accept = "done"
    /\ awaited' = {m_RecvTasks[i] : i \in Index} \ {None}
    /\ close' = "await_loops"
    /\ UNCHANGED <<acceptVars, tables, m_IsRun, m_ListenSocket, loop, cont, recvVars, sendVars,
                   peerVars>>

\* await Task.WhenAll
AwaitLoops ==
    /\ close = "await_loops"
    /\ \A s \in awaited : loop[s] = "completed"
    /\ close' = "returned"
    /\ UNCHANGED <<acceptVars, tables, m_IsRun, m_ListenSocket, awaited, loop, cont, recvVars,
                   sendVars, peerVars>>

CloseStep == CloseListenSocket \/ AwaitAccept \/ AwaitLoops

-----------------------------------------------------------------------------
(* The client of session s.                                                 *)

Ask(s) ==
    /\ s <= accepted
    /\ peer[s] = "open"
    /\ asked[s] < MaxRequest[s]
    /\ asked' = [asked EXCEPT ![s] = @ + 1]
    /\ UNCHANGED <<acceptVars, tables, runVars, loop, cont, recvVars, sendVars, peer>>

\* It closes the connection, or resets it; a send to a client that has closed
\* makes it reset.
Leave(s) ==
    /\ s <= accepted
    /\ \/ /\ peer[s] = "open"
          /\ peer' \in {[peer EXCEPT ![s] = "closed"], [peer EXCEPT ![s] = "reset"]}
       \/ /\ peer[s] = "closed"
          /\ sent[s] > 0
          /\ peer' = [peer EXCEPT ![s] = "reset"]
    /\ UNCHANGED <<acceptVars, tables, runVars, loop, cont, recvVars, sendVars, asked>>

-----------------------------------------------------------------------------

Next ==
    \/ AcceptStep \/ AcceptClient \/ AcceptThrows
    \/ \E s \in Session : RecvStep(s) \/ ContinuationStep(s) \/ Ask(s) \/ Leave(s)
    \/ BeginClose \/ CloseStep

Spec == Init /\ [][Next]_vars

\* The runtime schedules every flow that can go on.  Nobody has to connect, to
\* ask, to leave or to close the server.
Fairness ==
    /\ WF_vars(AcceptStep)
    /\ WF_vars(CloseStep)
    /\ \A s \in Session : WF_vars(RecvStep(s)) /\ WF_vars(ContinuationStep(s))

FairSpec == Spec /\ Fairness

\* Every client leaves some day, which Close depends on.
ClientsLeave == FairSpec /\ \A s \in Session : WF_vars(Leave(s))

-----------------------------------------------------------------------------
(* Properties.                                                              *)

TypeOK ==
    /\ m_IsRun \in BOOLEAN
    /\ m_ListenSocket \in {"open", "closed"}
    /\ m_ClientIndexQueue \in Seq(Index)
    /\ m_Clients \in [Index -> Session \cup {None}]
    /\ m_RecvTasks \in [Index -> Session \cup {None}]
    /\ accept \in {"top", "accepting", "started", "client_added", "task_added", "done"}
    /\ idx \in Index \cup {NoIndex}
    /\ idx # NoIndex <=> accept \in {"accepting", "started", "client_added", "task_added"}
    /\ accepted \in 0 .. MaxSession
    /\ slot \in [Session -> Index \cup {NoIndex}]
    /\ \A s \in Session : slot[s] # NoIndex <=> s <= accepted
    /\ loop \in [Session -> {"none", "check", "recv", "get_msg", "send_msg", "rejected", "sending",
                             "finally", "completed"}]
    /\ \A s \in Session : loop[s] # "none" <=> s <= accepted
    /\ cont \in [Session -> {"none", "registered", "task_removed", "client_removed", "done"}]
    /\ close \in {"no", "stopped", "await_accept", "await_loops", "returned"}
    /\ awaited \subseteq Session
    /\ peer \in [Session -> {"open", "closed", "reset"}]
    /\ asked \in [Session -> Nat]
    /\ received \in [Session -> Nat]
    /\ finished \in [Session -> Nat]
    /\ answered \in [Session -> Nat]
    /\ \A s \in Session :
         answered[s] <= finished[s] /\ finished[s] <= received[s] /\ received[s] <= asked[s]
    /\ m_SendBuffer \in [Session -> Nat]
    /\ sent \in [Session -> Nat]
    /\ lost \subseteq Index

\* The sessions that hold an index: from the accept until it was given back.
Using == {s \in Session : s <= accepted /\ cont[s] # "done"}

\* The state is well formed, and an index is in one place only: free, in
\* AcceptLoop's hands, used by one session, or lost with an accept that failed;
\* and it is in one of them.
IndexInOnePlace ==
    /\ TypeOK
    /\ \A i, j \in DOMAIN m_ClientIndexQueue :
         m_ClientIndexQueue[i] = m_ClientIndexQueue[j] => i = j
    /\ \A s, t \in Using : slot[s] = slot[t] => s = t
    /\ \A s \in Using : \A i \in DOMAIN m_ClientIndexQueue : m_ClientIndexQueue[i] # slot[s]
    /\ \A s \in Using : slot[s] = idx => s = accepted /\ accept # "accepting"
    /\ \A i \in Index :
         \/ i \in lost
         \/ i = idx
         \/ \E j \in DOMAIN m_ClientIndexQueue : m_ClientIndexQueue[j] = i
         \/ \E s \in Using : slot[s] = i

\* TryAdd, whose result nobody looks at, never meets an old entry: what is
\* registered under the index of a session that is served is that session, and
\* once AcceptLoop is done with it, it is registered.  So an answer goes to the
\* client that asked.
RegisteredAsItself ==
    \A s \in Session : Live(s) =>
        /\ m_Clients[slot[s]] \in {None, s}
        /\ m_RecvTasks[slot[s]] \in {None, s}
        /\ s # accepted \/ accept \in {"top", "accepting", "done"} =>
             m_Clients[slot[s]] = s /\ m_RecvTasks[slot[s]] = s

\* Whenever a session looks for its next request, what it has sent is one
\* complete answer to each request before that called for one, and nothing is
\* left in the send buffer.
AnswersComplete ==
    \A s \in Session : loop[s] \in {"check", "recv", "get_msg", "send_msg", "rejected"} =>
        /\ m_SendBuffer[s] = 0
        /\ sent[s] = answered[s] * AnswerSize

\* Readme.md of the C# server, line 13: before the server ends it waits for the
\* receive loops to end.  When Close has returned, none is running.
NoLoopAfterClose ==
    close = "returned" => \A s \in Session : ~Live(s)

\* A request that calls for an answer is finished, unless the client resets the
\* connection: the retries that HandleReq makes until the context is registered
\* come to an end, and so does the loop that sends the answer piece by piece.
AnswerIsSent ==
    \A s \in Session :
        loop[s] \in {"send_msg", "sending"} ~>
            loop[s] \notin {"send_msg", "sending"} \/ peer[s] = "reset"

\* Readme.md of the C# server, line 13: the wait of Close comes to an end, if
\* the clients leave.
CloseReturns == close # "no" ~> close = "returned"
=============================================================================
