---------------------------- MODULE StreamServer ----------------------------
(***************************************************************************)
(* What the Epoll, select, blocking and IOCP servers have in common: the   *)
(* clients and the kernel, which are theirs, the state that each keeps     *)
(* under the same names, and what each owes its clients.  The servers are  *)
(* EpollServer, SelectServer, BlockingServer and IOCPServer.               *)
(*                                                                         *)
(* A session is one connection; sessions are numbered in the order in      *)
(* which they connect.  Request n of session s is the pair <<s, n>>, and   *)
(* so are the job made of it and its answer.  A request is two units of    *)
(* its client's stream, a part of the header and the rest: a chunk can end *)
(* within a message, and within a header.                                  *)
(***************************************************************************)
EXTENDS Naturals, Sequences, FiniteSets

CONSTANTS
    Slot,       \* the descriptors, sockets or indices that sessions get
    MaxSession, \* bound: connections
    Streams,    \* bound: how many units the clients may send, in each of the behaviours
    Bad,        \* the requests that no job can be made of
    Room,       \* units of answers that the kernel holds for a client
    AnswerSize, \* how many units the answers to a session are, by server: two can be sent in parts
    SendCap,    \* capacity of a send buffer, in units, by server
    RecvCap,    \* capacity of a receive buffer and of a read, in units
    Worker      \* the job threads

Server == {"epoll", "select", "blocking", "iocp"}

ASSUME StreamServerAssumption ==
    /\ Slot \subseteq Nat \ {0}
    /\ MaxSession \in Nat
    /\ Streams \subseteq [1 .. MaxSession -> Nat]
    /\ Room \in Nat \ {0}
    /\ AnswerSize \in [Server -> [1 .. MaxSession -> Nat \ {0}]]
    /\ SendCap \in [Server -> Nat \ {0}]
    /\ RecvCap \in Nat \ {0, 1}

Session == 1 .. MaxSession
None == 0

\* The requests that a job can be made of.
Requests ==
    (UNION {{<<s, n>> : n \in 1 .. units[s] \div 2} : units \in Streams, s \in Session}) \ Bad

VARIABLES
    server,     \* which of the servers it is
    net,        \* net[s]: the client of session s and the kernel's side of its connection
    socket,     \* socket[i]: the session whose socket slot i is, as the kernel knows it
    Clients,    \* Clients[i]: the session whose context the server keeps under i
    ctx,        \* ctx[s]: the context of session s
    reads,      \* the slots watched for something to read,
    writes,     \* and those watched for room to write
    m_JobQueue,
    finished,   \* history: the jobs that were deleted
    reader,     \* the threads that serve the sockets
    worker,     \* worker[w]: a job thread, its job, and the context it looked up
    main,       \* the thread that starts and ends the server
    flaw        \* flaw[s]: history, what befell session s that nobody reports to it

vars == <<server, net, socket, Clients, ctx, reads, writes, m_JobQueue, finished, reader, worker, main,
          flaw>>

\* peer: the client waits to be accepted, is connected, or has closed or reset
\* the connection; one with nothing to send does not come.  unread: units of its
\* stream that were not read yet.  room: units the kernel still takes.
\* replies: history, the units of answers it was given.
NewNet(units) ==
    [peer |-> IF units = 0 THEN "none" ELSE "connecting", unread |-> units, room |-> Room,
     replies |-> <<>>]

\* stored: units in the receive buffer; popped: requests taken from it.
NewContext == [slot |-> None, stored |-> 0, popped |-> 0, sendBuffer |-> <<>>]

\* A job thread: where it is, its job, the context it has looked up, and how
\* many answers it has sent and not popped yet.
NoWork == [pc |-> "none", job |-> <<>>, ctx |-> None, n |-> 0]
Idle == [NoWork EXCEPT !.pc = "idle"]

StreamInit ==
    /\ \E units \in Streams : net = [s \in Session |-> NewNet(units[s])]
    /\ socket = [i \in Slot |-> None]
    /\ Clients = [i \in Slot |-> None]
    /\ ctx = [s \in Session |-> NewContext]
    /\ reads = {}
    /\ writes = {}
    /\ m_JobQueue = <<>>
    /\ finished = {}
    /\ worker = [w \in Worker |-> NoWork]
    /\ flaw = [s \in Session |-> {}]

-----------------------------------------------------------------------------
(* The clients and the kernel.                                              *)

Leave(s) ==
    /\ net[s].peer = "open"
    /\ \E p \in {"closed", "reset"} : net' = [net EXCEPT ![s].peer = p]

\* The client receives a part of an answer.
Drain(s) ==
    /\ net[s].peer = "open"
    /\ net[s].room < Room
    /\ net' = [net EXCEPT ![s].room = @ + 1]

ServerVars == <<socket, Clients, ctx, reads, writes, m_JobQueue, finished, reader, worker, main,
                flaw>>

ClientStep(s) == Leave(s) /\ UNCHANGED ServerVars
DrainStep(s) == Drain(s) /\ UNCHANGED ServerVars

\* The connection that an accept returns.
Pending(s) == net[s].peer = "connecting" /\ \A r \in 1 .. s - 1 : net[r].peer # "connecting"

\* A read finds whatever part of the stream was sent by then; of a client that
\* has closed the connection it may be no more.
Reads(s, n) ==
    /\ net[s].peer # "reset"
    /\ n <= net[s].unread
    /\ net' = [net EXCEPT ![s].unread = @ - n]

\* How many of the units in buf a send takes, and when it returns an error.
Sent(s, buf) == IF Len(buf) <= net[s].room THEN Len(buf) ELSE net[s].room
SendFails(s, buf) == net[s].peer = "reset" \/ (buf # <<>> /\ net[s].room = 0)

Size(job) == AnswerSize[server][job[1]]
Answer(job) == [k \in 1 .. Size(job) |-> job]
Fits(buf, job) == Len(buf) + Size(job) <= SendCap[server]
Drop(buf, n) == SubSeq(buf, n + 1, Len(buf))

\* The kernel takes the first n units of buf.
GiveKernel(s, buf, n) ==
    net' = [net EXCEPT ![s].replies = @ \o SubSeq(buf, 1, n), ![s].room = @ - n]

Flawed(s, names) == flaw' = [flaw EXCEPT ![s] = @ \cup names]

WorkerGoto(w, from, to) ==
    /\ worker[w].pc = from
    /\ worker' = [worker EXCEPT ![w].pc = to]

\* A fault: the number of the request is taken for the descriptor.
NumberAsSlot(w) ==
    LET n == worker[w].job[2] IN IF n \in Slot THEN n ELSE ctx[worker[w].job[1]].slot

\* The descriptor that the job names, which may be another session's by now.
JobSlot(w) == ctx[worker[w].job[1]].slot

TakeJob(w, pc) ==
    /\ worker[w].pc = "idle"
    /\ m_JobQueue # <<>>
    /\ m_JobQueue' = Tail(m_JobQueue)
    /\ worker' = [worker EXCEPT ![w] = [Idle EXCEPT !.pc = pc, !.job = Head(m_JobQueue)]]

GiveUpJob(w) ==
    /\ worker[w].pc = "requeue"
    /\ worker' = [worker EXCEPT ![w] = Idle]

JobDone(w) ==
    /\ finished' = finished \cup {worker[w].job}
    /\ worker' = [worker EXCEPT ![w] = Idle]

\* A thread that runs off a buffer, or out of the job factory, ends the process.
RunsAs(name) == server = name /\ main # "crashed" /\ UNCHANGED server

MainGoto(from, to) ==
    /\ main = from
    /\ main' = to

-----------------------------------------------------------------------------
(* What each of the servers owes its clients.                               *)

InQueue(job) == {k \in DOMAIN m_JobQueue : m_JobQueue[k] = job}
Holders(job) == {w \in DOMAIN worker : worker[w].job = job}
Taken(job) == job[2] <= ctx[job[1]].popped
Replies(s) == net[s].replies

\* How many of the first k units that client s was given are of answer a.
Received(s, a, k) == Cardinality({j \in 1 .. k : Replies(s)[j] = a})
Alive(s) == net[s].peer = "open" /\ Clients[ctx[s].slot] = s /\ socket[ctx[s].slot] = s

\* The buffers stay within their capacities, and what is watched for something to
\* read is a connection, until the sockets are closed at the end.
TypeOK ==
    /\ \A s \in Session :
         /\ net[s].room \in 0 .. Room
         /\ ctx[s].stored \in 0 .. RecvCap
         /\ Len(ctx[s].sendBuffer) <= SendCap[server]
    /\ main \in {"constructed", "running", "join_jobs"} => \A i \in reads : socket[i] # None

\* The state is well formed, and a request that was taken from its client's stream
\* is one job: queued once, held by one job thread, or finished; whatever is queued
\* again on the way.
JobInOnePlace ==
    /\ TypeOK
    /\ \A job \in Requests : "lost_job" \notin flaw[job[1]] =>
         Cardinality(InQueue(job)) + Cardinality(Holders(job))
           = IF Taken(job) /\ job \notin finished THEN 1 ELSE 0

\* An answer goes to the client that asked, or to one that was given its slot
\* after it.
AnswersStayInSlot ==
    \A s \in Session :
        \A k \in DOMAIN Replies(s) :
            LET asker == Replies(s)[k][1] IN
            asker <= s /\ ctx[asker].slot = ctx[s].slot

\* A client's answers come in the order of its requests, none is left out and
\* none comes twice; with several job threads any order is possible.
AnswersInOrder ==
    \A s \in Session : \A k \in DOMAIN Replies(s) :
        LET a == Replies(s)[k] IN
        a[1] = s =>
            /\ (/\ Cardinality(DOMAIN worker) = 1
                /\ flaw[s] \cap {"overflow", "lost_job", "both_send", "popped"} = {}) =>
                 \A n \in 1 .. a[2] - 1 : <<s, n>> \notin Bad => Received(s, <<s, n>>, k) >= Size(<<s, n>>)
            /\ flaw[s] \cap {"sent_again", "both_send", "popped"} = {} => Received(s, a, k) <= Size(a)

\* Somebody will send what is left in a send buffer: the server is told when
\* there is room, or a job thread has a job of the slot to send; unless one was lost,
\* of any client that has had the slot.
UnsentIsWatched ==
    \A s \in Session :
        (/\ ctx[s].sendBuffer # <<>>
         /\ Alive(s)
         /\ main = "running"
         /\ "unwatched" \notin flaw[s]
         /\ \A r \in Session : ctx[r].slot = ctx[s].slot => "lost_job" \notin flaw[r])
        => \/ ctx[s].slot \in writes
           \/ \E w \in DOMAIN worker : worker[w].job # <<>> /\ ctx[worker[w].job[1]].slot = ctx[s].slot
           \/ \E k \in DOMAIN m_JobQueue : ctx[m_JobQueue[k][1]].slot = ctx[s].slot

\* A request is answered, if its client stays and receives what it is sent.
AnswerArrives ==
    \A job \in Requests :
        LET s == job[1] IN
        Taken(job) ~>
            \/ Received(s, job, Len(Replies(s))) >= Size(job)
            \/ net[s].peer # "open"
            \/ flaw[s] \cap {"unwatched", "overflow", "lost_job", "both_send", "popped", "cut_off"} # {}
            \/ main # "running"
=============================================================================
