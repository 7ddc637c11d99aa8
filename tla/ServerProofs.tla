---------------------------- MODULE ServerProofs ----------------------------
(***************************************************************************)
(* Proofs, for any number of sessions, slots and job threads and any sizes *)
(* and streams, that the Epoll, select, blocking and IOCP servers keep a   *)
(* request in one place and an answer in its slot, and that somebody will  *)
(* send what is left in a send buffer.                                     *)
(*                                                                         *)
(* The argument has two parts.  Stream is what the servers have in common: *)
(* it says which session may be found under a slot (the newest that was    *)
(* given it), which answers may be in a session's buffer or with its       *)
(* client (those of requests that were popped, of itself or of earlier     *)
(* sessions of its slot), and where each job is.  A step of any server is  *)
(* one of a few things done to sessions, slots and jobs, and each of those *)
(* is shown to keep Stream.  The rest of each server's invariant says what *)
(* its own threads know of the slots they are at; with that, its actions   *)
(* are seen to be such steps.                                              *)
(*                                                                         *)
(* What is unsent has an invariant of its own, for each server why         *)
(* somebody will look at the buffer (Watching, IocpWatches); its steps     *)
(* rest on the other one.                                                  *)
(***************************************************************************)
EXTENDS StreamServer, SequenceTheorems, FiniteSetTheorems, TLAPS

CONSTANT WorkerThreads  \* as in IOCPServer

E == INSTANCE EpollServer
S == INSTANCE SelectServer
B == INSTANCE BlockingServer
I == INSTANCE IOCPServer

Job == Session \X (Nat \ {0})
NoJob == <<>>

Peers == {"none", "connecting", "open", "closed", "reset"}
Away == {"none", "connecting"}

Net == [peer : Peers, unread : Nat, room : 0 .. Room, replies : Seq(Job)]
Context == [slot : Slot \cup {None}, stored : 0 .. RecvCap, popped : Nat, sendBuffer : Seq(Job)]
Pcs == {"none", "idle", "exited", "look_up", "connected", "store", "send", "pop", "watch", "requeue"}
Flaws == {"cut", "unwatched", "overflow", "sent_again", "both_send", "popped", "cut_off", "lost_job"}
Work == [pc : Pcs, job : Job \cup {NoJob}, ctx : Session \cup {None}, n : Nat]

\* What the variables are, but for reader.
Shapes ==
    /\ net \in [Session -> Net]
    /\ ctx \in [Session -> Context]
    /\ socket \in [Slot -> Session \cup {None}]
    /\ Clients \in [Slot -> Session \cup {None}]
    /\ reads \subseteq Slot
    /\ writes \subseteq Slot
    /\ m_JobQueue \in Seq(Job)
    /\ finished \subseteq Job
    /\ worker \in [Worker -> Work]
    /\ flaw \in [Session -> SUBSET Flaws]

\* The requests that were popped and that a job was made of,
Known == {a \in Job : a \notin Bad /\ a[2] <= ctx[a[1]].popped /\ ctx[a[1]].slot \in Slot}

\* and those whose answers may go to session s.
Of(s) == {a \in Known : a[1] <= s /\ ctx[a[1]].slot = ctx[s].slot}

\* A session has a slot from when it is accepted, and later ones are accepted later.
Fresh ==
    /\ \A s \in Session :
        /\ ctx[s].slot = None <=> net[s].peer \in Away
        /\ ctx[s].slot = None => ctx[s] = NewContext /\ net[s].replies = <<>>
    /\ \A r, s \in Session : ctx[r].slot # None /\ net[s].peer = "connecting" => r < s

\* Under a slot is the newest session that was given it, or none.
Newest(i, s) == ctx[s].slot = i /\ \A r \in Session : ctx[r].slot = i => r <= s
Tables ==
    \A i \in Slot :
        /\ Clients[i] # None => Newest(i, Clients[i])
        /\ socket[i] # None => Newest(i, socket[i])

JobsKnown ==
    /\ m_JobQueue \in Seq(Known)
    /\ finished \subseteq Known
    /\ \A w \in Worker : worker[w].job \in Known \cup {NoJob}

\* A job thread has a job when it is at work, which it is not before the start.
Off == {"none", "idle", "exited"}
Working ==
    /\ \A w \in Worker : worker[w].job = NoJob <=> worker[w].pc \in Off
    /\ main = "constructed" => \A w \in Worker : worker[w].job = NoJob

Buffers == \A s \in Session : ctx[s].sendBuffer \in Seq(Of(s)) /\ net[s].replies \in Seq(Of(s))

\* JobInOnePlace without counting.
In(q, j) == \E k \in DOMAIN q : q[k] = j
Single(q, j) == \A k, l \in DOMAIN q : q[k] = j /\ q[l] = j => k = l
Queued(j) == In(m_JobQueue, j)
Held(j) == \E w \in Worker : worker[w].job = j
OneJob(j) ==
    /\ Single(m_JobQueue, j)
    /\ \A v, w \in Worker : worker[v].job = j /\ worker[w].job = j => v = w
    /\ ~(Queued(j) /\ Held(j))
    /\ Queued(j) \/ Held(j) <=> Taken(j) /\ j \notin finished
OnePlace == \A j \in Job \ Bad : "lost_job" \notin flaw[j[1]] => OneJob(j)

Stream == Shapes /\ Fresh /\ Tables /\ JobsKnown /\ Working /\ Buffers /\ OnePlace

Bounded(cap) == \A s \in Session : Len(ctx[s].sendBuffer) <= cap

EpollPcs == {"wait", "event", "parse", "unwatch", "close", "close_socket", "release", "exited"}
Event == {"HUP", "OUT", "IN"}

\* The one thread that reads, accepts and closes: what it is at has a socket until it
\* closes that, and no slot without a socket has a context, but the one it is about
\* to release.
EpollReader ==
    /\ reader \in [pc : EpollPcs, i : Slot \cup {None}, ev : SUBSET Event]
    /\ reader.pc \notin {"wait", "exited"} => reader.i \in Slot
    /\ reader.pc \in {"event", "parse", "unwatch", "close", "close_socket"} => socket[reader.i] # None
    /\ \A i \in reads : socket[i] # None
    /\ reader.pc \in {"close_socket", "release"} => reader.i \notin reads
    /\ \A i \in Slot : socket[i] = None => Clients[i] = None \/ (reader.pc = "release" /\ reader.i = i)

EpollInv == server = "epoll" /\ Stream /\ Bounded(SendCap["epoll"]) /\ EpollReader

\* The thread that reads, accepts and closes, and the one that sends what was left.
\* main closes the sockets, when the first has ended.
SelectReader ==
    /\ reader \in [read : [pc : {"select", "on_receive", "exited"}, i : Slot \cup {None},
                           ctx : Session \cup {None}, n : Nat],
                   write : [pc : {"select", "resume", "pop", "clear", "exited"}, i : Slot \cup {None},
                            ctx : Session \cup {None}, n : Nat]]
    /\ reader.read.pc = "on_receive" => reader.read.i \in Slot /\ socket[reader.read.i] # None
    /\ main \in {"release", "ended"} => reader.read.pc = "exited"
    /\ main # "ended" => \A i \in reads : socket[i] # None
    /\ \A i \in Slot : socket[i] = None => Clients[i] = None
    /\ reader.write.pc \in {"resume", "pop", "clear"} => reader.write.i \in Slot

SelectInv == server = "select" /\ Stream /\ Bounded(SendCap["select"]) /\ SelectReader

BlockingPcs == {"none", "accept", "read", "parse", "spin", "close", "exited"}

\* A thread for each session that was accepted; there are no send buffers.
BlockingReader ==
    /\ reader \in [Session \cup {None} -> BlockingPcs]
    /\ \A s \in Session : reader[s] # "none" => ctx[s].slot # None
    /\ \A s \in Session : ctx[s].sendBuffer = NoJob
    /\ reads = {}

BlockingInv == server = "blocking" /\ Stream /\ BlockingReader

Connection ==
    [pc : {"accept", "recv", "parse"}, len : Nat, sender : Session \cup {None}, done : BOOLEAN,
     left : Seq(Job)]

\* The jobs whose answers may be in the send buffer of slot i.
Left(i) == {a \in Known : ctx[a[1]].slot = i}

\* A connection that accepts has nobody, and its buffer what was stored since.  As
\* long as a send has not been taken, its sender's buffer has what is to be sent.
IocpConn(i) ==
    /\ reader.conn[i].pc = "accept" <=> Clients[i] = None
    /\ socket[i] = Clients[i]
    /\ i \in reads => reader.conn[i].pc = "recv"
    /\ i \in writes => reader.conn[i].sender # None
    /\ reader.conn[i].sender # None => ctx[reader.conn[i].sender].slot # None
    /\ reader.conn[i].left \in Seq(Left(i)) /\ Len(reader.conn[i].left) <= SendCap["iocp"]
    /\ i \in writes /\ ~reader.conn[i].done /\ socket[i] = reader.conn[i].sender =>
         reader.conn[i].len <= Len(ctx[reader.conn[i].sender].sendBuffer)

IocpReader ==
    /\ reader = [conn |-> reader.conn, threads |-> reader.threads, posted |-> reader.posted]
    /\ reader.conn \in [Slot -> Connection]
    /\ \A i \in Slot : IocpConn(i)

IocpInv == server = "iocp" /\ Stream /\ Bounded(SendCap["iocp"]) /\ IocpReader

-----------------------------------------------------------------------------
(* What the proofs need of numbers and names.                               *)

\* The numbers of slots and sessions, and the empty job.
LEMMA Names ==
    /\ None = 0 /\ None \notin Slot /\ None \notin Session
    /\ Session \subseteq Nat
    /\ Room \in Nat /\ RecvCap \in Nat
    /\ NoJob \notin Job
<1>1. \A j \in Job : j = <<j[1], j[2]>>
  BY DEF Job
<1>2. \A x, y : <<x, y>> # <<>>
  OBVIOUS
<1> QED
  BY <1>1, <1>2, StreamServerAssumption DEF None, Session, NoJob

\* The instances have StreamServer's None and sessions.
LEMMA Instances ==
    /\ E!None = None /\ S!None = None /\ B!None = None /\ I!None = None
    /\ E!Session = Session /\ S!Session = Session /\ B!Session = Session /\ I!Session = Session
BY DEF None, E!None, S!None, B!None, I!None, Session, E!Session, S!Session, B!Session, I!Session

-----------------------------------------------------------------------------
(* Sessions and slots.                                                      *)

\* A session keeps its slot, and the requests popped stay popped.
Grows ==
    \A s \in Session :
        /\ ctx[s].slot # None => ctx'[s].slot = ctx[s].slot
        /\ ctx[s].popped <= ctx'[s].popped

\* What may be answered stays so, and for the same sessions.
LEMMA KnownGrows ==
    ASSUME Shapes, Shapes', Grows
    PROVE  /\ Known \subseteq Known'
           /\ \A s \in Session : Of(s) \subseteq Of(s)'
<1>1. ASSUME NEW a \in Known PROVE a \in Known' /\ ctx'[a[1]].slot = ctx[a[1]].slot
  <2>1. a \in Job /\ a[1] \in Session /\ a[2] \in Nat /\ ctx[a[1]].slot # None
    BY <1>1, Names DEF Known, Job
  <2>2. ctx[a[1]].popped \in Nat /\ ctx'[a[1]].popped \in Nat
    BY <2>1 DEF Shapes, Context
  <2> QED BY <1>1, <2>1, <2>2 DEF Known, Grows
<1>2. ASSUME NEW s \in Session, NEW a \in Of(s) PROVE a \in Of(s)'
  <2>1. a \in Known /\ a[1] <= s /\ ctx[a[1]].slot = ctx[s].slot /\ ctx[s].slot # None
    BY <1>2, Names DEF Of, Known
  <2> QED BY <1>1, <2>1 DEF Of, Grows
<1> QED BY <1>1, <1>2

\* What a step that accepts nobody does to sessions, slots and tables.
Stays ==
    /\ \A s \in Session :
        /\ ctx'[s].slot = ctx[s].slot
        /\ ctx[s].popped <= ctx'[s].popped
        /\ ctx[s].slot = None => ctx'[s] = ctx[s] /\ net'[s] = net[s]
        /\ ctx[s].slot # None => net'[s].peer \notin Away
    /\ \A i \in Slot : Clients'[i] \in {Clients[i], None} /\ socket'[i] \in {socket[i], None}

\* Such a step keeps what is said of sessions and tables.
LEMMA StaysKeeps ==
    ASSUME Shapes, Fresh, Tables, Stays
    PROVE  Fresh' /\ Tables' /\ Grows
<1>1. Grows
  BY DEF Stays, Grows
<1>2. Fresh'
  BY DEF Stays, Fresh, NewContext, Away
<1>3. Tables'
  <2>1. ASSUME NEW i \in Slot, NEW s \in Session, Newest(i, s) PROVE Newest(i, s)'
    BY <2>1 DEF Stays, Newest
  <2> QED BY <2>1 DEF Stays, Tables, Shapes
<1> QED BY <1>1, <1>2, <1>3

\* What a step that accepts session s into slot i does.
Accepts(i, s) ==
    /\ net[s].peer = "connecting"
    /\ \A r \in 1 .. s - 1 : net[r].peer # "connecting"
    /\ net' = [net EXCEPT ![s].peer = "open"]
    /\ \A r \in Session : r # s => ctx'[r] = ctx[r]
    /\ ctx'[s].slot = i /\ ctx'[s].popped = 0
    /\ socket' = [socket EXCEPT ![i] = s]
    /\ Clients' = [Clients EXCEPT ![i] = s]

\* So does one that accepts.
LEMMA AcceptsKeeps ==
    ASSUME Shapes, Shapes', Fresh, Tables, NEW i \in Slot, NEW s \in Session, Accepts(i, s)
    PROVE  Fresh' /\ Tables' /\ Grows /\ ctx[s].slot = None /\ ctx[s].popped = 0
<1>1. ctx[s].slot = None /\ ctx[s].popped = 0 /\ net[s].replies = <<>>
  BY DEF Accepts, Fresh, Away, NewContext
<1>2. Grows
  <2>1. \A r \in Session : ctx[r].popped \in Nat
    BY DEF Shapes, Context
  <2> QED BY <1>1, <2>1 DEF Accepts, Grows
<1>3. \A r \in Session : ctx[r].slot # None => r < s
  BY DEF Fresh, Accepts
<1>4. \A r \in Session : net'[r].peer = IF r = s THEN "open" ELSE net[r].peer
  BY DEF Accepts, Shapes, Net
<1>5. \A r \in Session : net'[r].replies = net[r].replies
  BY DEF Accepts, Shapes, Net
<1>6. \A t \in Session : net'[t].peer = "connecting" => s < t /\ net[t].peer = "connecting"
  <2> SUFFICES ASSUME NEW t \in Session, net'[t].peer = "connecting"
      PROVE s < t /\ net[t].peer = "connecting"
    OBVIOUS
  <2>1. t # s /\ net[t].peer = "connecting"
    BY <1>4
  <2>2. t \notin 1 .. s - 1
    BY <2>1 DEF Accepts
  <2> QED BY <2>1, <2>2 DEF Session
<1>7. Fresh'
  <2>1. \A r \in Session : ctx'[r].slot # None => r = s \/ ctx[r].slot # None
    BY DEF Accepts
  <2>2. \A r, t \in Session : ctx'[r].slot # None /\ net'[t].peer = "connecting" => r < t
    BY <1>3, <1>6, <2>1, Names
  <2>3. \A r \in Session : ctx'[r].slot = None <=> net'[r].peer \in Away
    BY <1>4, Names DEF Accepts, Fresh, Away
  <2>4. \A r \in Session : ctx'[r].slot = None => ctx'[r] = NewContext /\ net'[r].replies = <<>>
    BY <1>5, Names DEF Accepts, Fresh
  <2> QED BY <2>2, <2>3, <2>4 DEF Fresh, NewContext
<1>8. Tables'
  <2>1. ASSUME NEW j \in Slot, NEW r \in Session, Newest(j, r), j # i PROVE Newest(j, r)'
    <3>1. ctx[r].slot = j /\ j # None /\ r # s
      BY <1>1, <2>1, Names DEF Newest
    <3>2. \A q \in Session : ctx'[q].slot = j => ctx[q].slot = j
      BY <2>1 DEF Accepts
    <3> QED BY <2>1, <3>1, <3>2 DEF Accepts, Newest
  <2>2. Newest(i, s)'
    BY <1>3, Names DEF Accepts, Newest
  <2> QED BY <2>1, <2>2 DEF Accepts, Tables, Shapes
<1> QED BY <1>1, <1>2, <1>7, <1>8

\* The answers stay with their slot.
LEMMA BuffersStay ==
    ASSUME Shapes, Shapes', Grows,
           \A s \in Session : ctx'[s].sendBuffer \in Seq(Of(s)) /\ net'[s].replies \in Seq(Of(s))
    PROVE  Buffers'
<1>1. \A s \in Session : Of(s) \subseteq Of(s)'
  BY KnownGrows
<1>2. \A s \in Session : ctx'[s].sendBuffer \in Seq(Of(s)') /\ net'[s].replies \in Seq(Of(s)')
  BY <1>1, SeqMonotonic
<1> QED BY <1>2 DEF Buffers

-----------------------------------------------------------------------------
(* Jobs: what a step can do to them.                                        *)

\* The sessions whose next request a step pops.
Pops(P) == \A s \in Session : ctx'[s].popped = IF s \in P THEN ctx[s].popped + 1 ELSE ctx[s].popped
FlawsStay == \A s \in Session : flaw[s] \subseteq flaw'[s]
Next1(s) == <<s, ctx[s].popped + 1>>

\* Worker w gets job j; the others keep theirs.
Works(w, j) == \A v \in Worker : worker'[v].job = IF v = w THEN j ELSE worker[v].job
WorksOn == \A v \in Worker : worker'[v].job = worker[v].job

JobsInv == JobsKnown /\ OnePlace

\* Nothing happens to any job.
JobsStay == m_JobQueue' = m_JobQueue /\ finished' = finished /\ WorksOn /\ Pops({}) /\ FlawsStay

\* A step that pops makes the next requests taken, and no other.
LEMMA TakenIs ==
    ASSUME Shapes, Shapes', NEW P \in SUBSET Session, Pops(P), NEW j \in Job
    PROVE  /\ Taken(j) => Taken(j)'
           /\ Taken(j)' => Taken(j) \/ (j[1] \in P /\ j = Next1(j[1]))
           /\ j[1] \in P /\ j = Next1(j[1]) => Taken(j)' /\ ~Taken(j)
<1>1. j[1] \in Session /\ j[2] \in Nat /\ j = <<j[1], j[2]>>
  BY DEF Job
<1>2. ctx[j[1]].popped \in Nat
  BY <1>1 DEF Shapes, Context
<1>3. ctx'[j[1]].popped = IF j[1] \in P THEN ctx[j[1]].popped + 1 ELSE ctx[j[1]].popped
  BY <1>1 DEF Pops
<1>4. j = Next1(j[1]) <=> j[2] = ctx[j[1]].popped + 1
  BY <1>1 DEF Next1
<1> QED BY <1>1, <1>2, <1>3, <1>4 DEF Taken

\* Each of the things that happen to jobs keeps them in one place.
LEMMA JobsStayKeep ==
    ASSUME Shapes, Shapes', Grows, JobsInv, JobsStay
    PROVE  JobsInv'
<1>1. Known \subseteq Known'
  BY KnownGrows
<1>2. JobsKnown'
  <2>1. m_JobQueue' \in Seq(Known')
    BY <1>1, SeqMonotonic DEF JobsInv, JobsKnown, JobsStay
  <2> QED BY <1>1, <2>1 DEF JobsInv, JobsKnown, JobsStay, WorksOn
<1>3. OnePlace'
  <2> SUFFICES ASSUME NEW j \in Job, j \notin Bad, "lost_job" \notin flaw'[j[1]] PROVE OneJob(j)'
    BY DEF OnePlace
  <2>1. j[1] \in Session
    BY DEF Job
  <2>2. OneJob(j)
    BY <2>1 DEF JobsInv, OnePlace, JobsStay, FlawsStay
  <2>3. Taken(j)' <=> Taken(j)
    BY TakenIs DEF JobsStay
  <2>4. Queued(j)' <=> Queued(j)
    BY DEF Queued, JobsStay
  <2>5. Held(j)' <=> Held(j)
    BY DEF Held, JobsStay, WorksOn
  <2>6. \A v, w \in Worker : worker'[v].job = j /\ worker'[w].job = j => v = w
    BY <2>2 DEF OneJob, JobsStay, WorksOn
  <2>7. Single(m_JobQueue', j)
    BY <2>2 DEF OneJob, JobsStay
  <2> QED BY <2>2, <2>3, <2>4, <2>5, <2>6, <2>7 DEF OneJob, JobsStay
<1> QED BY <1>2, <1>3 DEF JobsInv

\* What is in a queue when something was appended to it,
LEMMA AppendedIs ==
    ASSUME NEW q \in Seq(Job), NEW e \in Job, NEW j
    PROVE  /\ In(Append(q, e), j) <=> In(q, j) \/ j = e
           /\ Single(q, j) /\ (j = e => ~In(q, j)) => Single(Append(q, e), j)
<1> DEFINE r == Append(q, e)
<1>1. Len(q) \in Nat /\ DOMAIN q = 1 .. Len(q)
  BY LenProperties
<1>2. /\ r \in Seq(Job) /\ Len(r) = Len(q) + 1
      /\ \A k \in 1 .. Len(q) : r[k] = q[k]
      /\ r[Len(q) + 1] = e
  BY AppendProperties
<1>3. DOMAIN r = 1 .. Len(q) + 1
  BY <1>2, LenProperties
<1> HIDE DEF r
<1>4. \A k \in DOMAIN r : k \in DOMAIN q \/ k = Len(q) + 1
  BY <1>1, <1>3
<1>5. DOMAIN q \subseteq DOMAIN r /\ Len(q) + 1 \in DOMAIN r /\ Len(q) + 1 \notin DOMAIN q
  BY <1>1, <1>3
<1>6. \A k \in DOMAIN q : r[k] = q[k]
  BY <1>1, <1>2
<1>7. In(r, j) <=> In(q, j) \/ j = e
  BY <1>2, <1>4, <1>5, <1>6 DEF In
<1>8. Single(q, j) /\ (j = e => ~In(q, j)) => Single(r, j)
  BY <1>2, <1>4, <1>5, <1>6 DEF In, Single
<1> QED BY <1>7, <1>8 DEF r

\* and when its first was taken.
LEMMA TailIs ==
    ASSUME NEW q \in Seq(Job), q # <<>>, NEW j
    PROVE  /\ Head(q) \in Job /\ In(q, Head(q))
           /\ In(q, j) <=> In(Tail(q), j) \/ j = Head(q)
           /\ Single(q, j) => Single(Tail(q), j) /\ ~(In(Tail(q), j) /\ j = Head(q))
<1> DEFINE r == Tail(q)
<1>1. Len(q) \in Nat \ {0} /\ DOMAIN q = 1 .. Len(q)
  BY EmptySeq, LenProperties
<1>2. Head(q) \in Job /\ r \in Seq(Job) /\ Len(r) = Len(q) - 1 /\ \A k \in 1 .. Len(r) : r[k] = q[k + 1]
  BY HeadTailProperties
<1>3. DOMAIN r = 1 .. Len(q) - 1
  BY <1>2, LenProperties
<1>4. Head(q) = q[1]
  OBVIOUS
<1> HIDE DEF r
<1>5. \A k \in DOMAIN r : k + 1 \in DOMAIN q /\ k + 1 # 1 /\ r[k] = q[k + 1]
  BY <1>1, <1>2, <1>3
<1>6. \A k \in DOMAIN q : k = 1 \/ (k - 1 \in DOMAIN r /\ r[k - 1] = q[k])
  <2> TAKE k \in DOMAIN q
  <2>1. CASE k # 1
    <3>1. k - 1 \in DOMAIN r /\ k - 1 + 1 = k
      BY <1>1, <1>3, <2>1
    <3> QED BY <1>5, <3>1
  <2> QED BY <2>1
<1>7. 1 \in DOMAIN q
  BY <1>1
<1>8. In(q, j) <=> In(r, j) \/ j = Head(q)
  BY <1>4, <1>5, <1>6, <1>7 DEF In
<1>9. Single(q, j) => Single(r, j)
  <2>1. \A k, l \in DOMAIN r : k + 1 = l + 1 => k = l
    BY <1>1, <1>3
  <2> QED BY <1>5, <2>1 DEF Single
<1>10. Single(q, j) => ~(In(r, j) /\ j = Head(q))
  BY <1>4, <1>5, <1>7 DEF Single, In
<1> QED BY <1>2, <1>4, <1>7, <1>8, <1>9, <1>10 DEF r, In

\* The next request of session s becomes a job.
JobMade(s) ==
    /\ ctx[s].slot # None
    /\ Next1(s) \notin Bad
    /\ m_JobQueue' = Append(m_JobQueue, Next1(s))
    /\ finished' = finished /\ WorksOn /\ Pops({s}) /\ FlawsStay

\* The request that is popped next is one that may be answered, from then on.
LEMMA Next1Known ==
    ASSUME Shapes, Shapes', Grows, NEW s \in Session, ctx[s].slot # None, ctx'[s].popped = ctx[s].popped + 1,
           Next1(s) \notin Bad
    PROVE  Next1(s) \in Job /\ Next1(s)[1] = s /\ Next1(s) \in Known'
<1>1. ctx[s].popped \in Nat /\ ctx[s].slot \in Slot /\ ctx'[s].slot = ctx[s].slot
  BY DEF Shapes, Context, Grows
<1>2. Next1(s) \in Job /\ Next1(s)[1] = s /\ Next1(s)[2] = ctx[s].popped + 1
  BY <1>1 DEF Next1, Job
<1> QED BY <1>1, <1>2 DEF Known

\* A new job is queued once.
LEMMA JobMadeKeeps ==
    ASSUME Shapes, Shapes', Grows, JobsInv, NEW s \in Session, JobMade(s)
    PROVE  JobsInv'
<1>1. Known \subseteq Known'
  BY KnownGrows
<1>2. Next1(s) \in Job /\ Next1(s)[1] = s /\ Next1(s) \in Known'
  BY Next1Known DEF JobMade, Pops
<1>3. JobsKnown'
  <2>1. m_JobQueue \in Seq(Known')
    BY <1>1, SeqMonotonic DEF JobsInv, JobsKnown
  <2>2. m_JobQueue' \in Seq(Known')
    BY <1>2, <2>1, AppendProperties DEF JobMade
  <2> QED BY <1>1, <2>2 DEF JobsInv, JobsKnown, JobMade, WorksOn
<1>4. OnePlace'
  <2> SUFFICES ASSUME NEW j \in Job, j \notin Bad, "lost_job" \notin flaw'[j[1]] PROVE OneJob(j)'
    BY DEF OnePlace
  <2>1. j[1] \in Session
    BY DEF Job
  <2>2. OneJob(j)
    BY <2>1 DEF JobsInv, OnePlace, JobMade, FlawsStay
  <2>3. (Taken(j)' <=> Taken(j) \/ j = Next1(s)) /\ (j = Next1(s) => ~Taken(j))
    BY <1>2, TakenIs DEF JobMade
  <2>4. j = Next1(s) => ~Queued(j) /\ ~Held(j)
    BY <2>2, <2>3 DEF OneJob
  <2>5. Held(j)' <=> Held(j)
    BY DEF Held, JobMade, WorksOn
  <2>6. (Queued(j)' <=> Queued(j) \/ j = Next1(s)) /\ Single(m_JobQueue', j)
    BY <1>2, <2>2, <2>4, AppendedIs DEF Queued, JobMade, Shapes, OneJob
  <2>7. \A v, w \in Worker : worker'[v].job = j /\ worker'[w].job = j => v = w
    BY <2>2 DEF OneJob, JobMade, WorksOn
  <2>8. j = Next1(s) => j \notin finished
    BY <2>3 DEF JobsInv, JobsKnown, Known, Taken
  <2> QED BY <2>2, <2>3, <2>4, <2>5, <2>6, <2>7, <2>8 DEF OneJob, JobMade
<1> QED BY <1>3, <1>4 DEF JobsInv

\* A request that no job can be made of is popped.
RequestPassed(s) ==
    /\ Next1(s) \in Bad
    /\ m_JobQueue' = m_JobQueue
    /\ finished' = finished /\ WorksOn /\ Pops({s}) /\ FlawsStay

\* A request without a job is in no place.
LEMMA RequestPassedKeeps ==
    ASSUME Shapes, Shapes', Grows, JobsInv, NEW s \in Session, RequestPassed(s)
    PROVE  JobsInv'
<1>1. Known \subseteq Known'
  BY KnownGrows
<1>2. JobsKnown'
  <2>1. m_JobQueue' \in Seq(Known')
    BY <1>1, SeqMonotonic DEF JobsInv, JobsKnown, RequestPassed
  <2> QED BY <1>1, <2>1 DEF JobsInv, JobsKnown, RequestPassed, WorksOn
<1>3. OnePlace'
  <2> SUFFICES ASSUME NEW j \in Job, j \notin Bad, "lost_job" \notin flaw'[j[1]] PROVE OneJob(j)'
    BY DEF OnePlace
  <2>1. j[1] \in Session
    BY DEF Job
  <2>2. OneJob(j)
    BY <2>1 DEF JobsInv, OnePlace, RequestPassed, FlawsStay
  <2>3. Taken(j)' <=> Taken(j)
    BY TakenIs DEF RequestPassed
  <2>4. Held(j)' <=> Held(j)
    BY DEF Held, RequestPassed, WorksOn
  <2>5. \A v, w \in Worker : worker'[v].job = j /\ worker'[w].job = j => v = w
    BY <2>2 DEF OneJob, RequestPassed, WorksOn
  <2> QED BY <2>2, <2>3, <2>4, <2>5 DEF OneJob, Queued, RequestPassed
<1> QED BY <1>2, <1>3 DEF JobsInv

\* Job thread w takes the first job.
JobTaken(w) ==
    /\ worker[w].job = NoJob
    /\ m_JobQueue # <<>>
    /\ m_JobQueue' = Tail(m_JobQueue)
    /\ Works(w, Head(m_JobQueue))
    /\ finished' = finished /\ Pops({}) /\ FlawsStay

\* A job that is taken is held instead of queued.
LEMMA JobTakenKeeps ==
    ASSUME Shapes, Shapes', Grows, JobsInv, NEW w \in Worker, JobTaken(w)
    PROVE  JobsInv'
<1>1. Known \subseteq Known'
  BY KnownGrows
<1>2. JobsKnown'
  <2>1. m_JobQueue \in Seq(Known')
    BY <1>1, SeqMonotonic DEF JobsInv, JobsKnown
  <2>2. m_JobQueue' \in Seq(Known') /\ Head(m_JobQueue) \in Known'
    BY <2>1, HeadTailProperties DEF JobTaken
  <2> QED BY <1>1, <2>2 DEF JobsInv, JobsKnown, JobTaken, Works
<1>3. OnePlace'
  <2> SUFFICES ASSUME NEW j \in Job, j \notin Bad, "lost_job" \notin flaw'[j[1]] PROVE OneJob(j)'
    BY DEF OnePlace
  <2>1. j[1] \in Session
    BY DEF Job
  <2>2. OneJob(j)
    BY <2>1 DEF JobsInv, OnePlace, JobTaken, FlawsStay
  <2>3. Taken(j)' <=> Taken(j)
    BY TakenIs DEF JobTaken
  <2>4. /\ Queued(j) <=> In(m_JobQueue', j) \/ j = Head(m_JobQueue)
        /\ Single(m_JobQueue, j) => Single(m_JobQueue', j) /\ ~(In(m_JobQueue', j) /\ j = Head(m_JobQueue))
    BY TailIs DEF JobTaken, Shapes, Queued
  <2>5. Held(j)' <=> Held(j) \/ j = Head(m_JobQueue)
    BY Names DEF Held, JobTaken, Works
  <2>6. \A u, v \in Worker : worker'[u].job = j /\ worker'[v].job = j => u = v
    <3>1. j = Head(m_JobQueue) => ~Held(j)
      BY <2>2, <2>4 DEF OneJob
    <3> QED BY <2>2, <3>1 DEF OneJob, JobTaken, Works, Held
  <2> QED BY <2>2, <2>3, <2>4, <2>5, <2>6 DEF OneJob, JobTaken, Queued
<1> QED BY <1>2, <1>3 DEF JobsInv

\* Job thread w has finished its job.
JobEnds(w) ==
    /\ worker[w].job # NoJob
    /\ finished' = finished \cup {worker[w].job}
    /\ Works(w, NoJob)
    /\ m_JobQueue' = m_JobQueue /\ Pops({}) /\ FlawsStay

\* A job that ends is finished instead of held.
LEMMA JobEndsKeeps ==
    ASSUME Shapes, Shapes', Grows, JobsInv, NEW w \in Worker, JobEnds(w)
    PROVE  JobsInv'
<1>1. Known \subseteq Known'
  BY KnownGrows
<1>2. JobsKnown'
  <2>1. m_JobQueue' \in Seq(Known')
    BY <1>1, SeqMonotonic DEF JobsInv, JobsKnown, JobEnds
  <2> QED BY <1>1, <2>1 DEF JobsInv, JobsKnown, JobEnds, Works
<1>3. OnePlace'
  <2> SUFFICES ASSUME NEW j \in Job, j \notin Bad, "lost_job" \notin flaw'[j[1]] PROVE OneJob(j)'
    BY DEF OnePlace
  <2>1. j[1] \in Session
    BY DEF Job
  <2>2. OneJob(j)
    BY <2>1 DEF JobsInv, OnePlace, JobEnds, FlawsStay
  <2>3. Taken(j)' <=> Taken(j)
    BY TakenIs DEF JobEnds
  <2>4. Held(j)' <=> Held(j) /\ j # worker[w].job
    BY <2>2, Names DEF Held, JobEnds, Works, OneJob
  <2>5. \A u, v \in Worker : worker'[u].job = j /\ worker'[v].job = j => u = v
    BY <2>2, Names DEF OneJob, JobEnds, Works
  <2>6. j = worker[w].job => Held(j)
    BY DEF Held
  <2> QED BY <2>2, <2>3, <2>4, <2>5, <2>6 DEF OneJob, JobEnds, Queued
<1> QED BY <1>2, <1>3 DEF JobsInv

\* Job thread w queues its job again.
JobQueuedAgain(w) ==
    /\ worker[w].job # NoJob
    /\ m_JobQueue' = Append(m_JobQueue, worker[w].job)
    /\ Works(w, NoJob)
    /\ finished' = finished /\ Pops({}) /\ FlawsStay

\* A job that is queued again is queued instead of held.
LEMMA JobQueuedAgainKeeps ==
    ASSUME Shapes, Shapes', Grows, JobsInv, NEW w \in Worker, JobQueuedAgain(w)
    PROVE  JobsInv'
<1>1. Known \subseteq Known' /\ worker[w].job \in Known /\ worker[w].job \in Job
  BY KnownGrows DEF JobQueuedAgain, JobsInv, JobsKnown, Known
<1>2. JobsKnown'
  <2>1. m_JobQueue \in Seq(Known')
    BY <1>1, SeqMonotonic DEF JobsInv, JobsKnown
  <2>2. m_JobQueue' \in Seq(Known')
    BY <1>1, <2>1, AppendProperties DEF JobQueuedAgain
  <2> QED BY <1>1, <2>2 DEF JobsInv, JobsKnown, JobQueuedAgain, Works
<1>3. OnePlace'
  <2> SUFFICES ASSUME NEW j \in Job, j \notin Bad, "lost_job" \notin flaw'[j[1]] PROVE OneJob(j)'
    BY DEF OnePlace
  <2>1. j[1] \in Session
    BY DEF Job
  <2>2. OneJob(j)
    BY <2>1 DEF JobsInv, OnePlace, JobQueuedAgain, FlawsStay
  <2>3. Taken(j)' <=> Taken(j)
    BY TakenIs DEF JobQueuedAgain
  <2>4. Held(j)' <=> Held(j) /\ j # worker[w].job
    BY <2>2, Names DEF Held, JobQueuedAgain, Works, OneJob
  <2>5. \A u, v \in Worker : worker'[u].job = j /\ worker'[v].job = j => u = v
    BY <2>2, Names DEF OneJob, JobQueuedAgain, Works
  <2>6. j = worker[w].job => Held(j) /\ ~Queued(j)
    BY <2>2 DEF Held, OneJob
  <2>7. (Queued(j)' <=> Queued(j) \/ j = worker[w].job) /\ Single(m_JobQueue', j)
    BY <1>1, <2>2, <2>6, AppendedIs DEF Queued, JobQueuedAgain, Shapes, OneJob
  <2> QED BY <2>2, <2>3, <2>4, <2>5, <2>6, <2>7 DEF OneJob, JobQueuedAgain
<1> QED BY <1>2, <1>3 DEF JobsInv

\* The jobs that wait are deleted.
JobsDeleted ==
    /\ finished' = finished \cup {m_JobQueue[k] : k \in DOMAIN m_JobQueue}
    /\ m_JobQueue' = <<>>
    /\ WorksOn /\ Pops({}) /\ FlawsStay

\* Jobs that are deleted are finished.
LEMMA JobsDeletedKeeps ==
    ASSUME Shapes, Shapes', Grows, JobsInv, JobsDeleted
    PROVE  JobsInv'
<1>1. Known \subseteq Known'
  BY KnownGrows
<1>2. \A k \in DOMAIN m_JobQueue : m_JobQueue[k] \in Known
  BY LenProperties, ElementOfSeq DEF JobsInv, JobsKnown
<1>3. m_JobQueue' \in Seq(Known') /\ DOMAIN m_JobQueue' = {}
  <2>1. m_JobQueue' = <<>> /\ m_JobQueue' \in Seq(Known') /\ Len(m_JobQueue') = 0
    BY EmptySeq DEF JobsDeleted
  <2> QED BY <2>1
<1>4. JobsKnown'
  BY <1>1, <1>2, <1>3 DEF JobsInv, JobsKnown, JobsDeleted, WorksOn
<1>5. OnePlace'
  <2> SUFFICES ASSUME NEW j \in Job, j \notin Bad, "lost_job" \notin flaw'[j[1]] PROVE OneJob(j)'
    BY DEF OnePlace
  <2>1. j[1] \in Session
    BY DEF Job
  <2>2. OneJob(j)
    BY <2>1 DEF JobsInv, OnePlace, JobsDeleted, FlawsStay
  <2>3. Taken(j)' <=> Taken(j)
    BY TakenIs DEF JobsDeleted
  <2>4. Held(j)' <=> Held(j)
    BY DEF Held, JobsDeleted, WorksOn
  <2>5. \A u, v \in Worker : worker'[u].job = j /\ worker'[v].job = j => u = v
    BY <2>2 DEF OneJob, JobsDeleted, WorksOn
  <2>6. ~Queued(j)' /\ Single(m_JobQueue', j)
    BY <1>3 DEF Queued, In, Single
  <2>7. j \in finished' <=> j \in finished \/ Queued(j)
    BY DEF JobsDeleted, Queued, In
  <2> QED BY <2>2, <2>3, <2>4, <2>5, <2>6, <2>7 DEF OneJob
<1> QED BY <1>4, <1>5 DEF JobsInv

\* One of the jobs a and b takes the place of the other.
Collides(a, b) ==
    \E kept, lost \in {a, b} :
        /\ kept # lost
        /\ m_JobQueue' = Append(m_JobQueue, kept)
        /\ "lost_job" \in flaw'[lost[1]]

\* Two threads queue the next requests of r and s at the same time.
BothMade(r, s) ==
    /\ r # s
    /\ ctx[r].slot # None /\ ctx[s].slot # None
    /\ Next1(r) \notin Bad /\ Next1(s) \notin Bad
    /\ Collides(Next1(r), Next1(s))
    /\ finished' = finished /\ WorksOn /\ Pops({r, s}) /\ FlawsStay

\* Of two jobs that are queued at the same time one is lost, and it is recorded which;
LEMMA BothMadeKeep ==
    ASSUME Shapes, Shapes', Grows, JobsInv, NEW r \in Session, NEW s \in Session, BothMade(r, s)
    PROVE  JobsInv'
<1>1. Known \subseteq Known'
  BY KnownGrows
<1>2. /\ Next1(r) \in Job /\ Next1(r)[1] = r /\ Next1(r) \in Known'
      /\ Next1(s) \in Job /\ Next1(s)[1] = s /\ Next1(s) \in Known'
  BY Next1Known DEF BothMade, Pops
<1>3. PICK kept \in {Next1(r), Next1(s)}, lost \in {Next1(r), Next1(s)} :
        /\ kept # lost
        /\ m_JobQueue' = Append(m_JobQueue, kept)
        /\ "lost_job" \in flaw'[lost[1]]
  BY DEF BothMade, Collides
<1>4. JobsKnown'
  <2>1. m_JobQueue \in Seq(Known')
    BY <1>1, SeqMonotonic DEF JobsInv, JobsKnown
  <2>2. m_JobQueue' \in Seq(Known')
    BY <1>2, <1>3, <2>1, AppendProperties
  <2> QED BY <1>1, <2>2 DEF JobsInv, JobsKnown, BothMade, WorksOn
<1>5. OnePlace'
  <2> SUFFICES ASSUME NEW j \in Job, j \notin Bad, "lost_job" \notin flaw'[j[1]] PROVE OneJob(j)'
    BY DEF OnePlace
  <2>1. j[1] \in Session
    BY DEF Job
  <2>2. OneJob(j) /\ j # lost
    BY <1>3, <2>1 DEF JobsInv, OnePlace, BothMade, FlawsStay
  <2>3. (Taken(j)' <=> Taken(j) \/ j = kept) /\ (j = kept => ~Taken(j))
    BY <1>2, <1>3, <2>2, TakenIs DEF BothMade
  <2>4. j = kept => ~Queued(j) /\ ~Held(j)
    BY <2>2, <2>3 DEF OneJob
  <2>5. Held(j)' <=> Held(j)
    BY DEF Held, BothMade, WorksOn
  <2>6. (Queued(j)' <=> Queued(j) \/ j = kept) /\ Single(m_JobQueue', j)
    BY <1>2, <1>3, <2>2, <2>4, AppendedIs DEF Queued, Shapes, OneJob
  <2>7. \A v, w \in Worker : worker'[v].job = j /\ worker'[w].job = j => v = w
    BY <2>2 DEF OneJob, BothMade, WorksOn
  <2>8. j = kept => j \notin finished
    BY <2>3 DEF JobsInv, JobsKnown, Known, Taken
  <2> QED BY <2>2, <2>3, <2>4, <2>5, <2>6, <2>7, <2>8 DEF OneJob, BothMade
<1> QED BY <1>4, <1>5 DEF JobsInv

\* Job thread w queues its job again while the next request of s is queued.
MadeAndQueuedAgain(s, w) ==
    /\ ctx[s].slot # None
    /\ Next1(s) \notin Bad
    /\ worker[w].job # NoJob
    /\ Collides(Next1(s), worker[w].job)
    /\ Works(w, NoJob)
    /\ finished' = finished /\ Pops({s}) /\ FlawsStay

\* also if one of them is queued again.
LEMMA MadeAndQueuedAgainKeep ==
    ASSUME Shapes, Shapes', Grows, JobsInv, NEW s \in Session, NEW w \in Worker, MadeAndQueuedAgain(s, w)
    PROVE  JobsInv'
<1>1. Known \subseteq Known' /\ worker[w].job \in Known /\ worker[w].job \in Job
  BY KnownGrows DEF MadeAndQueuedAgain, JobsInv, JobsKnown, Known
<1>2. Next1(s) \in Job /\ Next1(s)[1] = s /\ Next1(s) \in Known'
  BY Next1Known DEF MadeAndQueuedAgain, Pops
<1>3. PICK kept \in {Next1(s), worker[w].job}, lost \in {Next1(s), worker[w].job} :
        /\ kept # lost
        /\ m_JobQueue' = Append(m_JobQueue, kept)
        /\ "lost_job" \in flaw'[lost[1]]
  BY DEF MadeAndQueuedAgain, Collides
<1>4. JobsKnown'
  <2>1. m_JobQueue \in Seq(Known')
    BY <1>1, SeqMonotonic DEF JobsInv, JobsKnown
  <2>2. m_JobQueue' \in Seq(Known')
    BY <1>1, <1>2, <1>3, <2>1, AppendProperties
  <2> QED BY <1>1, <2>2 DEF JobsInv, JobsKnown, MadeAndQueuedAgain, Works
<1>5. OnePlace'
  <2> SUFFICES ASSUME NEW j \in Job, j \notin Bad, "lost_job" \notin flaw'[j[1]] PROVE OneJob(j)'
    BY DEF OnePlace
  <2>1. j[1] \in Session
    BY DEF Job
  <2>2. OneJob(j) /\ j # lost /\ kept \in Job
    BY <1>1, <1>2, <1>3, <2>1 DEF JobsInv, OnePlace, MadeAndQueuedAgain, FlawsStay
  <2>3. (Taken(j)' <=> Taken(j) \/ j = Next1(s)) /\ (j = Next1(s) => ~Taken(j))
    BY <1>2, TakenIs DEF MadeAndQueuedAgain
  <2>4. Held(j)' <=> Held(j) /\ j # worker[w].job
    BY <2>2, Names DEF Held, MadeAndQueuedAgain, Works, OneJob
  <2>5. \A u, v \in Worker : worker'[u].job = j /\ worker'[v].job = j => u = v
    BY <2>2, Names DEF OneJob, MadeAndQueuedAgain, Works
  <2>6. j = worker[w].job => Held(j) /\ ~Queued(j)
    BY <2>2 DEF Held, OneJob
  <2>7. j = Next1(s) => ~Queued(j) /\ ~Held(j) /\ j \notin finished
    BY <2>2, <2>3 DEF OneJob, JobsInv, JobsKnown, Known, Taken
  <2>8. (Queued(j)' <=> Queued(j) \/ j = kept) /\ Single(m_JobQueue', j)
    BY <1>3, <2>2, <2>6, <2>7, AppendedIs DEF Queued, Shapes, OneJob
  <2>9. (j = Next1(s) \/ j = worker[w].job) <=> j = kept
    BY <1>3, <2>2
  <2>10. ~(j = Next1(s) /\ j = worker[w].job)
    BY <2>6, <2>7
  <2> QED BY <2>2, <2>3, <2>4, <2>5, <2>6, <2>7, <2>8, <2>9, <2>10 DEF OneJob, MadeAndQueuedAgain
<1> QED BY <1>4, <1>5 DEF JobsInv

JobsStep ==
    \/ JobsStay \/ JobsDeleted
    \/ \E s \in Session : JobMade(s) \/ RequestPassed(s)
    \/ \E w \in Worker : JobTaken(w) \/ JobEnds(w) \/ JobQueuedAgain(w)
    \/ \E r, s \in Session : BothMade(r, s)
    \/ \E s \in Session, w \in Worker : MadeAndQueuedAgain(s, w)

\* Whatever happens to jobs keeps them in one place.
LEMMA JobsStepKeeps ==
    ASSUME Shapes, Shapes', Grows, JobsInv, JobsStep
    PROVE  JobsInv'
BY JobsStayKeep, JobsDeletedKeeps, JobMadeKeeps, RequestPassedKeeps, JobTakenKeeps, JobEndsKeeps,
   JobQueuedAgainKeeps, BothMadeKeep, MadeAndQueuedAgainKeep, Zenon DEF JobsStep

BuffersStep == \A s \in Session : ctx'[s].sendBuffer \in Seq(Of(s)) /\ net'[s].replies \in Seq(Of(s))

\* A step that accepts nobody keeps what the servers have in common.
LEMMA StreamKept ==
    ASSUME Stream, Shapes', Stays, Working', JobsStep, BuffersStep
    PROVE  Stream'
<1>1. Fresh' /\ Tables' /\ Grows
  BY StaysKeeps DEF Stream
<1>2. Buffers'
  BY <1>1, BuffersStay DEF Stream, BuffersStep
<1>3. JobsInv'
  BY <1>1, JobsStepKeeps DEF Stream, JobsInv
<1> QED BY <1>1, <1>2, <1>3 DEF Stream, JobsInv

\* One that accepts does so, if the buffer of the new session has answers of its slot.
LEMMA StreamAccepts ==
    ASSUME Stream, Shapes', NEW i \in Slot, NEW s \in Session, Accepts(i, s), Working, Working',
           JobsStay,
           ctx'[s].sendBuffer \in Seq({a \in Known : ctx[a[1]].slot = i})
    PROVE  Stream'
<1>1. Fresh' /\ Tables' /\ Grows /\ ctx[s].slot = None
  BY AcceptsKeeps DEF Stream
<1>2. JobsInv'
  BY <1>1, JobsStayKeep DEF Stream, JobsInv
<1>3. {a \in Known : ctx[a[1]].slot = i} \subseteq Of(s)'
  <2> SUFFICES ASSUME NEW a \in Known, ctx[a[1]].slot = i PROVE a \in Of(s)'
    OBVIOUS
  <2>1. a[1] \in Session /\ ctx[a[1]].slot # None /\ a[1] # s
    BY <1>1, Names DEF Known, Job
  <2>2. a \in Known'
    BY <1>1, KnownGrows DEF Stream
  <2>3. a[1] < s
    BY <2>1 DEF Stream, Fresh, Accepts
  <2>4. a[1] \in Nat /\ s \in Nat
    BY <2>1, Names
  <2> QED BY <2>1, <2>2, <2>3, <2>4 DEF Of, Accepts
<1>4. ctx'[s].sendBuffer \in Seq(Of(s)')
  BY <1>3, SeqMonotonic
<1>5. \A r \in Session : net'[r].replies = net[r].replies
  BY DEF Accepts, Stream, Shapes, Net
<1>6. \A r \in Session : net'[r].replies \in Seq(Of(r)')
  <2> TAKE r \in Session
  <2>1. Of(r) \subseteq Of(r)' /\ net[r].replies \in Seq(Of(r))
    BY <1>1, KnownGrows DEF Stream, Buffers
  <2> QED BY <1>5, <2>1, SeqMonotonic
<1>7. \A r \in Session : r # s => ctx'[r].sendBuffer \in Seq(Of(r)')
  <2> SUFFICES ASSUME NEW r \in Session, r # s PROVE ctx'[r].sendBuffer \in Seq(Of(r)')
    OBVIOUS
  <2>1. Of(r) \subseteq Of(r)' /\ ctx[r].sendBuffer \in Seq(Of(r)) /\ ctx'[r] = ctx[r]
    BY <1>1, KnownGrows DEF Stream, Buffers, Accepts
  <2> QED BY <2>1, SeqMonotonic
<1>8. Buffers'
  BY <1>4, <1>6, <1>7 DEF Buffers
<1> QED BY <1>1, <1>2, <1>8 DEF Stream, JobsInv

-----------------------------------------------------------------------------
(* The steps that the servers share.                                        *)

TablesLose == \A i \in Slot : Clients'[i] \in {Clients[i], None} /\ socket'[i] \in {socket[i], None}

\* Neither clients nor contexts change.
LEMMA ContextsSame ==
    ASSUME Stream, net' = net, ctx' = ctx, TablesLose
    PROVE  Stays /\ BuffersStep /\ Pops({})
<1>1. \A s \in Session : ctx[s].popped \in Nat
  BY DEF Stream, Shapes, Context
<1>2. Stays
  BY <1>1 DEF Stays, Stream, Fresh, TablesLose
<1> QED BY <1>2 DEF Stream, Buffers, BuffersStep, Pops

Leaves(s) == Leave(s) \/ Drain(s)

\* A client leaves, or receives something.
LEMMA ClientStepKeeps ==
    ASSUME Stream, NEW s \in Session, Leaves(s), UNCHANGED ServerVars
    PROVE  Stream' /\ \A r \in Session : net'[r].replies = net[r].replies
<1>1. net' \in [Session -> Net]
  <2>1. CASE Leave(s)
    <3>1. PICK p \in {"closed", "reset"} : net' = [net EXCEPT ![s].peer = p]
      BY <2>1 DEF Leave
    <3>2. net \in [Session -> Net] /\ p \in Peers
      BY DEF Stream, Shapes, Peers
    <3>3. [net[s] EXCEPT !.peer = p] \in Net
      BY <3>2 DEF Net
    <3> QED BY <3>1, <3>2, <3>3
  <2>2. CASE Drain(s)
    <3>1. net[s].room \in 0 .. Room /\ net[s].room < Room
      BY <2>2 DEF Drain, Stream, Shapes, Net
    <3>2. net[s].room + 1 \in 0 .. Room
      BY <3>1, Names
    <3> QED BY <2>2, <3>2 DEF Drain, Stream, Shapes, Net
  <2> QED BY <2>1, <2>2 DEF Leaves
<1>2. /\ net[s].peer = "open" /\ net'[s].peer \in {"open", "closed", "reset"}
      /\ \A r \in Session : r # s => net'[r] = net[r]
      /\ \A r \in Session : net'[r].replies = net[r].replies
  <2>1. CASE Leave(s)
    BY <2>1 DEF Leave, Stream, Shapes, Net
  <2>2. CASE Drain(s)
    BY <2>2 DEF Drain, Stream, Shapes, Net
  <2> QED BY <2>1, <2>2 DEF Leaves
<1>3. Shapes'
  BY <1>1 DEF Stream, Shapes, ServerVars
<1>4. \A r \in Session : ctx[r].popped \in Nat
  BY DEF Stream, Shapes, Context
<1>5. Stays
  BY <1>2, <1>4 DEF Stays, Stream, Fresh, ServerVars, Away
<1>6. Working'
  BY DEF Stream, Working, ServerVars
<1>7. JobsStay
  BY DEF JobsStay, ServerVars, WorksOn, Pops, FlawsStay
<1>8. BuffersStep
  BY <1>2 DEF BuffersStep, Stream, Buffers, ServerVars
<1> QED BY <1>2, <1>3, <1>5, <1>6, <1>7, <1>8, StreamKept DEF JobsStep

\* What a job thread that is at pc "from" does to its record, and the others' to theirs.
Goes(w, c) == worker' = [worker EXCEPT ![w] = c]

\* What becomes of the job threads, when one of them does so.
LEMMA GoesIs ==
    ASSUME Stream, NEW w \in Worker, NEW c \in Work, Goes(w, c), c.job = NoJob <=> c.pc \in Off,
           main' = "constructed" => main = "constructed" /\ c.job = NoJob
    PROVE  worker' \in [Worker -> Work] /\ Works(w, c.job) /\ Working'
<1>1. worker' \in [Worker -> Work] /\ \A v \in Worker : worker'[v] = IF v = w THEN c ELSE worker[v]
  BY DEF Goes, Stream, Shapes
<1>2. Working'
  BY <1>1 DEF Working, Stream
<1> QED BY <1>1, <1>2 DEF Works

\* A job thread that only goes on keeps its job.
LEMMA WorkerGotoIs ==
    ASSUME Stream, NEW w \in Worker, NEW from, NEW to \in Pcs, WorkerGoto(w, from, to),
           from \in Off <=> to \in Off, main' = "constructed" => main = "constructed"
    PROVE  worker' \in [Worker -> Work] /\ WorksOn /\ Working'
<1> DEFINE c == [worker[w] EXCEPT !.pc = to]
<1>1. worker[w] \in Work /\ worker[w].pc = from /\ (worker[w].job = NoJob <=> from \in Off)
  BY DEF Stream, Shapes, Working, WorkerGoto
<1>2. c \in Work /\ c.job = worker[w].job /\ c.pc = to
  BY <1>1 DEF Work, Pcs
<1>3. Goes(w, c)
  BY DEF WorkerGoto, Goes
<1>4. main' = "constructed" => worker[w].job = NoJob
  BY DEF Stream, Working
<1> HIDE DEF c
<1>5. worker' \in [Worker -> Work] /\ Works(w, c.job) /\ Working'
  BY <1>1, <1>2, <1>3, <1>4, GoesIs
<1> QED BY <1>2, <1>5 DEF Works, WorksOn

\* A job thread that is idle has no job.
LEMMA IdleIs ==
    /\ Idle = [pc |-> "idle", job |-> NoJob, ctx |-> None, n |-> 0]
    /\ Idle \in Work /\ Idle.job = NoJob /\ Idle.pc \in Off
<1>1. Idle = [pc |-> "idle", job |-> NoJob, ctx |-> None, n |-> 0]
  BY DEF Idle, NoWork, NoJob
<1>2. Idle.job = NoJob /\ Idle.pc = "idle"
  BY <1>1
<1>3. Idle \in Work
  BY <1>1 DEF Work, Pcs
<1> QED BY <1>1, <1>2, <1>3 DEF Off

\* One that has taken a job has that.
LEMMA TakenJobIs ==
    ASSUME NEW pc \in Pcs, NEW j \in Job
    PROVE  /\ [Idle EXCEPT !.pc = pc, !.job = j] \in Work
           /\ [Idle EXCEPT !.pc = pc, !.job = j].job = j
           /\ [Idle EXCEPT !.pc = pc, !.job = j].pc = pc
BY IdleIs DEF Work

\* TakeJob gives the first job of the queue to a thread that had none.
LEMMA TakeJobIs ==
    ASSUME Stream, NEW w \in Worker, NEW pc \in Pcs \ Off, TakeJob(w, pc), main' # "constructed"
    PROVE  /\ worker' \in [Worker -> Work] /\ Working' /\ m_JobQueue' \in Seq(Job)
           /\ worker[w].job = NoJob /\ Works(w, Head(m_JobQueue))
<1> DEFINE c == [Idle EXCEPT !.pc = pc, !.job = Head(m_JobQueue)]
<1>1. Head(m_JobQueue) \in Job /\ m_JobQueue' \in Seq(Job)
  BY HeadTailProperties DEF TakeJob, Stream, Shapes
<1>3. c \in Work /\ c.job = Head(m_JobQueue) /\ c.pc = pc
  BY <1>1, TakenJobIs
<1>4. Goes(w, c)
  BY DEF TakeJob, Goes
<1>5. worker[w].job = NoJob
  BY DEF TakeJob, Stream, Working, Off
<1> HIDE DEF c
<1>6. worker' \in [Worker -> Work] /\ Works(w, c.job) /\ Working'
  BY <1>1, <1>3, <1>4, GoesIs, Names
<1> QED BY <1>1, <1>3, <1>5, <1>6

\* A job thread that becomes idle gives up its job.
LEMMA IdlesIs ==
    ASSUME Stream, NEW w \in Worker, Goes(w, Idle), main' = "constructed" => main = "constructed"
    PROVE  worker' \in [Worker -> Work] /\ Works(w, NoJob) /\ Working'
BY IdleIs, GoesIs

\* JobDone finishes the job that the thread has.
LEMMA JobDoneIs ==
    ASSUME Stream, NEW w \in Worker, JobDone(w), worker[w].pc \notin Off,
           main' = "constructed" => main = "constructed"
    PROVE  /\ worker' \in [Worker -> Work] /\ Works(w, NoJob) /\ Working'
           /\ worker[w].job # NoJob /\ worker[w].job \in Job
           /\ finished' = finished \cup {worker[w].job} /\ finished' \subseteq Job
<1>1. worker[w].job # NoJob /\ worker[w].job \in Job
  BY DEF Stream, Working, Shapes, Work
<1> QED BY <1>1, IdlesIs DEF JobDone, Goes, Stream, Shapes

\* GiveUpJob takes the job from the thread.
LEMMA GiveUpJobIs ==
    ASSUME Stream, NEW w \in Worker, GiveUpJob(w), main' = "constructed" => main = "constructed"
    PROVE  /\ worker' \in [Worker -> Work] /\ Works(w, NoJob) /\ Working'
           /\ worker[w].job # NoJob /\ worker[w].job \in Job
<1>1. worker[w].job # NoJob /\ worker[w].job \in Job
  BY DEF Stream, Working, Shapes, Work, GiveUpJob, Off
<1> QED BY <1>1, IdlesIs DEF GiveUpJob, Goes

\* The jobs of a job thread that is at work are of sessions that have a slot.
LEMMA JobSlotIs ==
    ASSUME Stream, NEW w \in Worker, worker[w].pc \notin Off
    PROVE  /\ worker[w].job \in Known /\ worker[w].job \in Job /\ worker[w].job # NoJob
           /\ worker[w].job[1] \in Session
           /\ JobSlot(w) \in Slot /\ ctx[worker[w].job[1]].slot = JobSlot(w)
           /\ Clients[JobSlot(w)] \in Session \cup {None}
<1>1. worker[w].job # NoJob
  BY DEF Stream, Working
<1>2. worker[w].job \in Known
  BY <1>1 DEF Stream, JobsKnown
<1> QED BY <1>1, <1>2 DEF Known, Job, JobSlot, Stream, Shapes

\* It is of those whose answers may go to the newest session of the slot.
LEMMA AskerIs ==
    ASSUME Stream, NEW w \in Worker, worker[w].pc \notin Off, NEW s \in Session, Newest(JobSlot(w), s)
    PROVE  worker[w].job \in Of(s)
BY JobSlotIs DEF Of, Newest

-----------------------------------------------------------------------------
(* Buffers.                                                                 *)

\* A send takes no more than there is, and than there is room for.
LEMMA SentIs ==
    ASSUME Shapes, NEW s \in Session, NEW buf \in Seq(Job)
    PROVE  Sent(s, buf) \in Nat /\ Sent(s, buf) <= Len(buf) /\ Sent(s, buf) <= net[s].room
<1>1. net[s].room \in Nat /\ Len(buf) \in Nat
  BY Names, LenProperties DEF Shapes, Net
<1> QED BY <1>1 DEF Sent

\* Drop leaves the rest of a buffer.
LEMMA DropIs ==
    ASSUME NEW A, NEW buf \in Seq(A), NEW n \in Nat, n <= Len(buf)
    PROVE  Drop(buf, n) \in Seq(A) /\ Len(Drop(buf, n)) = Len(buf) - n
<1>1. Len(buf) \in Nat /\ \A i \in n + 1 .. Len(buf) : buf[i] \in A
  BY LenProperties, ElementOfSeq
<1>2. SubSeq(buf, n + 1, Len(buf)) \in Seq(A)
  BY <1>1, SubSeqProperties
<1>3. Len(SubSeq(buf, n + 1, Len(buf))) = IF n + 1 <= Len(buf) THEN Len(buf) - (n + 1) + 1 ELSE 0
  BY <1>1, SubSeqProperties
<1> QED BY <1>1, <1>2, <1>3 DEF Drop

\* An answer is as many units of its job as its size says,
LEMMA AnswerIs ==
    ASSUME NEW A, NEW job \in A, Size(job) \in Nat
    PROVE  Answer(job) \in Seq(A) /\ Len(Answer(job)) = Size(job)
<1>1. Answer(job) \in [1 .. Size(job) -> A] /\ DOMAIN Answer(job) = 1 .. Size(job)
  BY DEF Answer
<1> QED BY <1>1

\* which is a number.
LEMMA SizeIs ==
    ASSUME NEW job \in Job, server \in Server
    PROVE  Size(job) \in Nat
BY StreamServerAssumption DEF Size, Job, Session

\* The kernel takes the first n units of buf for session s.
LEMMA GiveKernelIs ==
    ASSUME Shapes, NEW A, NEW s \in Session, NEW buf \in Seq(A), A \subseteq Job, NEW n \in Nat,
           n <= Len(buf), n <= net[s].room, net[s].replies \in Seq(A), GiveKernel(s, buf, n)
    PROVE  /\ net' \in [Session -> Net]
           /\ \A r \in Session : r # s => net'[r] = net[r]
           /\ net'[s].peer = net[s].peer
           /\ net'[s].replies \in Seq(A)
<1>1. net[s].room \in 0 .. Room /\ net[s].room - n \in 0 .. Room
  BY Names DEF Shapes, Net
<1>2. SubSeq(buf, 1, n) \in Seq(A)
  <2>1. Len(buf) \in Nat /\ \A i \in 1 .. n : buf[i] \in A
    BY LenProperties, ElementOfSeq
  <2> QED BY <2>1, SubSeqProperties
<1>3. net[s].replies \o SubSeq(buf, 1, n) \in Seq(A)
  BY <1>2, ConcatProperties
<1>4. net[s].replies \o SubSeq(buf, 1, n) \in Seq(Job)
  BY <1>3, SeqMonotonic
<1> DEFINE more == net[s].replies \o SubSeq(buf, 1, n)
           less == net[s].room - n
<1>5. net' = [net EXCEPT ![s].replies = more, ![s].room = less]
  BY DEF GiveKernel
<1> HIDE DEF more, less
<1>6. more \in Seq(Job) /\ more \in Seq(A) /\ less \in 0 .. Room
  BY <1>1, <1>3, <1>4 DEF more, less
<1> QED BY <1>5, <1>6 DEF Shapes, Net

\* A step that touches neither clients, contexts nor jobs.
Calm ==
    /\ net' = net /\ ctx' = ctx /\ m_JobQueue' = m_JobQueue /\ finished' = finished
    /\ socket' \in [Slot -> Session \cup {None}] /\ Clients' \in [Slot -> Session \cup {None}]
    /\ TablesLose
    /\ reads' \subseteq Slot /\ writes' \subseteq Slot
    /\ flaw' \in [Session -> SUBSET Flaws] /\ FlawsStay
    /\ worker' \in [Worker -> Work] /\ WorksOn /\ Working'

\* Such a step keeps what the servers have in common.
LEMMA CalmKeeps ==
    ASSUME Stream, Calm
    PROVE  Stream'
<1>1. Shapes'
  BY DEF Stream, Shapes, Calm
<1>2. Stays /\ BuffersStep /\ Pops({})
  BY ContextsSame DEF Calm
<1>3. JobsStay
  BY <1>2 DEF Calm, JobsStay
<1> QED BY <1>1, <1>2, <1>3, StreamKept DEF JobsStep, Calm

\* What does not change keeps its form.
LEMMA SameIs ==
    ASSUME Stream
    PROVE  /\ socket' = socket /\ Clients' = Clients => TablesLose
           /\ flaw' = flaw => flaw' \in [Session -> SUBSET Flaws] /\ FlawsStay
           /\ worker' = worker /\ (main' = "constructed" => main = "constructed") =>
                worker' \in [Worker -> Work] /\ WorksOn /\ Working'
BY DEF Stream, Shapes, TablesLose, FlawsStay, WorksOn, Working

\* Flaws are only ever added.
LEMMA FlawedIs ==
    ASSUME Stream, NEW s \in Session, NEW names \in SUBSET Flaws, Flawed(s, names)
    PROVE  flaw' \in [Session -> SUBSET Flaws] /\ FlawsStay /\ names \subseteq flaw'[s]
BY DEF Stream, Shapes, Flawed, FlawsStay

-----------------------------------------------------------------------------
(* Steps that change one session.                                           *)

\* What happened to session s only, which has a slot and keeps it.
Only(s) ==
    /\ ctx' \in [Session -> Context] /\ net' \in [Session -> Net]
    /\ \A r \in Session : r # s => ctx'[r] = ctx[r] /\ net'[r] = net[r]
    /\ ctx'[s].slot = ctx[s].slot /\ net'[s].peer = net[s].peer
    /\ ctx'[s].popped \in {ctx[s].popped, ctx[s].popped + 1}
    /\ ctx'[s].sendBuffer \in Seq(Of(s)) /\ net'[s].replies \in Seq(Of(s))

\* Such a step accepts nobody, and pops one request of the session or none.
LEMMA OnlyStays ==
    ASSUME Stream, TablesLose, NEW s \in Session, ctx[s].slot # None, Only(s)
    PROVE  /\ Stays /\ BuffersStep
           /\ ctx'[s].popped = ctx[s].popped => Pops({})
           /\ ctx'[s].popped = ctx[s].popped + 1 => Pops({s})
<1>1. \A r \in Session : ctx[r].popped \in Nat /\ ctx[r].popped <= ctx'[r].popped
  <2>1. \A r \in Session : ctx[r].popped \in Nat
    BY DEF Stream, Shapes, Context
  <2> QED BY <2>1 DEF Only
<1>2. Stays
  BY <1>1 DEF Stays, TablesLose, Only, Stream, Fresh
<1>3. BuffersStep
  BY DEF BuffersStep, Only, Stream, Buffers
<1> QED BY <1>2, <1>3 DEF Pops, Only

\* The send buffer of one context is replaced;
LEMMA PutContextIs ==
    ASSUME Stream, NEW s \in Session, NEW buf \in Seq(Of(s)),
           ctx' = [ctx EXCEPT ![s].sendBuffer = buf]
    PROVE  /\ ctx' \in [Session -> Context] /\ \A r \in Session : r # s => ctx'[r] = ctx[r]
           /\ ctx'[s].slot = ctx[s].slot /\ ctx'[s].popped = ctx[s].popped /\ ctx'[s].sendBuffer = buf
<1>1. Of(s) \subseteq Job
  BY DEF Of, Known
<1>2. buf \in Seq(Job)
  BY <1>1, SeqMonotonic
<1> QED BY <1>2 DEF Stream, Shapes, Context

\* The kernel takes the first n units of buf, and the rest is kept.
LEMMA SendIs ==
    ASSUME Stream, NEW s \in Session, NEW buf \in Seq(Of(s)), NEW n \in Nat, n <= Len(buf),
           n <= net[s].room, GiveKernel(s, buf, n), ctx' = [ctx EXCEPT ![s].sendBuffer = Drop(buf, n)]
    PROVE  /\ Only(s) /\ ctx'[s].popped = ctx[s].popped
           /\ Len(ctx'[s].sendBuffer) = Len(buf) - n
<1>1. Of(s) \subseteq Job
  BY DEF Of, Known
<1>2. net[s].replies \in Seq(Of(s))
  BY DEF Stream, Buffers
<1>3. /\ net' \in [Session -> Net] /\ \A r \in Session : r # s => net'[r] = net[r]
      /\ net'[s].peer = net[s].peer /\ net'[s].replies \in Seq(Of(s))
  BY <1>1, <1>2, GiveKernelIs DEF Stream
<1> DEFINE b == Drop(buf, n)
<1>4. b \in Seq(Of(s)) /\ Len(b) = Len(buf) - n
  BY DropIs
<1>5. ctx' = [ctx EXCEPT ![s].sendBuffer = b]
  OBVIOUS
<1> HIDE DEF b
<1>7. /\ ctx' \in [Session -> Context] /\ \A r \in Session : r # s => ctx'[r] = ctx[r]
      /\ ctx'[s].slot = ctx[s].slot /\ ctx'[s].popped = ctx[s].popped /\ ctx'[s].sendBuffer = b
  BY <1>4, <1>5, PutContextIs
<1> QED BY <1>3, <1>4, <1>7 DEF Only

\* The buffer of session s becomes buf.
LEMMA PutIs ==
    ASSUME Stream, NEW s \in Session, NEW buf \in Seq(Of(s)), net' = net,
           ctx' = [ctx EXCEPT ![s].sendBuffer = buf]
    PROVE  Only(s) /\ ctx'[s].popped = ctx[s].popped /\ ctx'[s].sendBuffer = buf
<1>1. /\ ctx' \in [Session -> Context] /\ \A r \in Session : r # s => ctx'[r] = ctx[r]
      /\ ctx'[s].slot = ctx[s].slot /\ ctx'[s].popped = ctx[s].popped /\ ctx'[s].sendBuffer = buf
  BY PutContextIs
<1>2. net' \in [Session -> Net] /\ net'[s].replies \in Seq(Of(s))
  BY DEF Stream, Shapes, Buffers
<1> QED BY <1>1, <1>2 DEF Only

\* Session s sends n units and its server may store them.
Stores(s, n) ==
    \/ ctx' = ctx
    \/ ctx[s].stored + n <= RecvCap /\ ctx' = [ctx EXCEPT ![s].stored = @ + n]

\* less of a client's stream is unread;
LEMMA UnreadIs ==
    ASSUME Stream, NEW s \in Session, NEW u \in Nat, net' = [net EXCEPT ![s].unread = u]
    PROVE  /\ net' \in [Session -> Net] /\ \A r \in Session : r # s => net'[r] = net[r]
           /\ net'[s].peer = net[s].peer /\ net'[s].replies = net[s].replies
BY DEF Stream, Shapes, Net

\* a read stores a chunk, or drops it;
LEMMA ReadIs ==
    ASSUME Stream, NEW s \in Session, NEW n \in 1 .. RecvCap, Reads(s, n), Stores(s, n)
    PROVE  /\ Only(s) /\ ctx'[s].popped = ctx[s].popped
           /\ \A r \in Session : ctx'[r].sendBuffer = ctx[r].sendBuffer
<1>1. net[s].unread - n \in Nat
  BY Names DEF Stream, Shapes, Net, Reads
<1>2. /\ net' \in [Session -> Net] /\ \A r \in Session : r # s => net'[r] = net[r]
      /\ net'[s].peer = net[s].peer /\ net'[s].replies = net[s].replies
  <2> DEFINE u == net[s].unread - n
  <2>1. net' = [net EXCEPT ![s].unread = u]
    BY DEF Reads
  <2> HIDE DEF u
  <2>2. u \in Nat
    BY <1>1 DEF u
  <2> QED BY <2>1, <2>2, UnreadIs
<1>3. /\ ctx' \in [Session -> Context] /\ \A r \in Session : r # s => ctx'[r] = ctx[r]
      /\ ctx'[s].slot = ctx[s].slot /\ ctx'[s].popped = ctx[s].popped
      /\ ctx'[s].sendBuffer = ctx[s].sendBuffer
  <2>1. CASE ctx' = ctx
    BY <2>1 DEF Stream, Shapes
  <2>2. CASE ctx[s].stored + n <= RecvCap /\ ctx' = [ctx EXCEPT ![s].stored = @ + n]
    <3>1. ctx[s].stored + n \in 0 .. RecvCap
      BY <2>2, Names DEF Stream, Shapes, Context
    <3> QED BY <2>2, <3>1 DEF Stream, Shapes, Context
  <2> QED BY <2>1, <2>2 DEF Stores
<1>4. ctx'[s].sendBuffer \in Seq(Of(s)) /\ net'[s].replies \in Seq(Of(s))
  <2>1. ctx[s].sendBuffer \in Seq(Of(s)) /\ net[s].replies \in Seq(Of(s))
    BY DEF Stream, Buffers
  <2>2. ctx'[s].sendBuffer = ctx[s].sendBuffer
    BY <1>3
  <2>3. net'[s].replies = net[s].replies
    BY <1>2
  <2>4. ctx'[s].sendBuffer \in Seq(Of(s))
    BY <2>1, <2>2
  <2>5. net'[s].replies \in Seq(Of(s))
    BY <2>1, <2>3
  <2> QED BY <2>4, <2>5
<1>5. \A r \in Session : ctx'[r].sendBuffer = ctx[r].sendBuffer
  BY <1>3
<1>6. Only(s)
  BY <1>2, <1>3, <1>4 DEF Only
<1> QED BY <1>3, <1>5, <1>6, Zenon

\* A request is taken from what is stored of session s.
LEMMA PopIs ==
    ASSUME Stream, NEW s \in Session, ctx[s].stored >= 2, net' = net,
           ctx' = [ctx EXCEPT ![s].stored = @ - 2, ![s].popped = @ + 1]
    PROVE  /\ Only(s) /\ ctx'[s].popped = ctx[s].popped + 1
           /\ \A r \in Session : ctx'[r].sendBuffer = ctx[r].sendBuffer
<1>1. ctx[s].stored - 2 \in 0 .. RecvCap /\ ctx[s].popped + 1 \in Nat
  BY Names DEF Stream, Shapes, Context
<1>2. /\ ctx' \in [Session -> Context] /\ \A r \in Session : r # s => ctx'[r] = ctx[r]
      /\ ctx'[s].slot = ctx[s].slot /\ ctx'[s].popped = ctx[s].popped + 1
      /\ ctx'[s].sendBuffer = ctx[s].sendBuffer
  BY <1>1 DEF Stream, Shapes, Context
<1> QED BY <1>2 DEF Only, Stream, Shapes, Buffers

-----------------------------------------------------------------------------
(* Steps of the job threads and of main that touch no client and no context. *)

\* Such a step may change who has which job.
Moves ==
    /\ UNCHANGED <<net, socket, Clients, ctx>>
    /\ reads' \subseteq Slot /\ writes' \subseteq Slot
    /\ flaw' \in [Session -> SUBSET Flaws]
    /\ m_JobQueue' \in Seq(Job) /\ finished' \subseteq Job
    /\ worker' \in [Worker -> Work] /\ Working'

\* A step that changes neither contexts nor clients, but jobs.
LEMMA MovesKeep ==
    ASSUME Stream, Moves, JobsStep
    PROVE  Stream'
<1>1. Shapes'
  BY DEF Stream, Shapes, Moves
<1>2. Stays /\ BuffersStep
  BY ContextsSame, SameIs DEF Moves
<1> QED BY <1>1, <1>2, StreamKept DEF Moves

\* A job is queued again.
LEMMA RequeueKeeps ==
    ASSUME Stream, NEW w \in Worker, GiveUpJob(w), m_JobQueue' = Append(m_JobQueue, worker[w].job),
           UNCHANGED <<net, socket, Clients, ctx, reads, writes, finished, main, flaw>>
    PROVE  Stream'
<1>1. /\ worker' \in [Worker -> Work] /\ Works(w, NoJob) /\ Working'
      /\ worker[w].job # NoJob /\ worker[w].job \in Job
  BY GiveUpJobIs
<1>2. m_JobQueue' \in Seq(Job)
  BY <1>1, AppendProperties DEF Stream, Shapes
<1>3. Pops({})
  BY ContextsSame, SameIs
<1>4. JobQueuedAgain(w)
  BY <1>1, <1>3 DEF JobQueuedAgain, FlawsStay
<1>5. Moves
  BY <1>1, <1>2 DEF Moves, Stream, Shapes
<1> QED BY <1>4, <1>5, MovesKeep DEF JobsStep

\* A job is taken.
LEMMA TakeJobKeeps ==
    ASSUME Stream, NEW w \in Worker, NEW pc \in Pcs \ Off, TakeJob(w, pc), main' # "constructed",
           UNCHANGED <<net, socket, Clients, ctx, reads, writes, finished, flaw>>
    PROVE  Stream'
<1>1. /\ worker' \in [Worker -> Work] /\ Working' /\ m_JobQueue' \in Seq(Job)
      /\ worker[w].job = NoJob /\ Works(w, Head(m_JobQueue))
  BY TakeJobIs
<1>2. Pops({})
  BY ContextsSame, SameIs
<1>3. JobTaken(w)
  BY <1>1, <1>2 DEF JobTaken, TakeJob, FlawsStay
<1>4. Moves
  BY <1>1 DEF Moves, Stream, Shapes
<1> QED BY <1>3, <1>4, MovesKeep DEF JobsStep

\* A job is done, and its slot may be watched from now on.
LEMMA JobDoneKeeps ==
    ASSUME Stream, NEW w \in Worker, JobDone(w), worker[w].pc \notin Off, writes' \subseteq Slot,
           UNCHANGED <<net, socket, Clients, ctx, reads, m_JobQueue, main, flaw>>
    PROVE  Stream'
<1>1. /\ worker' \in [Worker -> Work] /\ Works(w, NoJob) /\ Working'
      /\ worker[w].job # NoJob /\ worker[w].job \in Job
      /\ finished' = finished \cup {worker[w].job} /\ finished' \subseteq Job
  BY JobDoneIs
<1>2. Pops({})
  BY ContextsSame, SameIs
<1>3. JobEnds(w)
  BY <1>1, <1>2 DEF JobEnds, FlawsStay
<1>4. Moves
  BY <1>1 DEF Moves, Stream, Shapes
<1> QED BY <1>3, <1>4, MovesKeep DEF JobsStep

\* A job thread goes on, and only what befell the sessions is noted.
LEMMA GotoKeeps ==
    ASSUME Stream, NEW w \in Worker, NEW from, NEW to \in Pcs, WorkerGoto(w, from, to),
           from \in Off <=> to \in Off, flaw' \in [Session -> SUBSET Flaws], FlawsStay,
           UNCHANGED <<net, socket, Clients, ctx, reads, writes, m_JobQueue, finished, main>>
    PROVE  Stream'
<1>1. worker' \in [Worker -> Work] /\ WorksOn /\ Working'
  BY WorkerGotoIs
<1>2. Calm
  BY <1>1, SameIs DEF Calm, Stream, Shapes
<1> QED BY <1>2, CalmKeeps

\* The queue is deleted with the thread.
LEMMA JobsDeletedIs ==
    ASSUME Stream, NEW w \in Worker, WorkerGoto(w, "idle", "exited"),
           finished' = finished \cup {m_JobQueue[k] : k \in DOMAIN m_JobQueue}, m_JobQueue' = <<>>,
           UNCHANGED <<net, socket, Clients, ctx, reads, writes, main, flaw>>
    PROVE  Stream'
<1>1. "exited" \in Pcs /\ "exited" \in Off /\ "idle" \in Off
  BY DEF Pcs, Off
<1>2. worker' \in [Worker -> Work] /\ WorksOn /\ Working'
  BY <1>1, WorkerGotoIs
<1>3. m_JobQueue' \in Seq(Job)
  BY EmptySeq
<1>4. finished' \subseteq Job
  BY LenProperties, ElementOfSeq DEF Stream, Shapes
<1>5. Pops({})
  BY ContextsSame, SameIs
<1>6. JobsDeleted
  BY <1>2, <1>5 DEF JobsDeleted, FlawsStay
<1>7. Moves
  BY <1>2, <1>3, <1>4 DEF Moves, Stream, Shapes
<1> QED BY <1>6, <1>7, MovesKeep DEF JobsStep

\* main starts the job threads,
LEMMA StartKeeps ==
    ASSUME Stream, main = "constructed", main' = "running", worker' = [w \in Worker |-> Idle],
           UNCHANGED <<net, socket, Clients, ctx, reads, writes, m_JobQueue, finished, flaw>>
    PROVE  Stream'
<1>1. worker' \in [Worker -> Work] /\ \A w \in Worker : worker'[w] = Idle
  BY IdleIs
<1>2. \A w \in Worker : worker[w].job = NoJob
  BY DEF Stream, Working
<1>3. WorksOn /\ Working'
  BY <1>1, <1>2, IdleIs DEF WorksOn, Working
<1>4. Calm
  BY <1>1, <1>3, SameIs DEF Calm, Stream, Shapes
<1> QED BY <1>4, CalmKeeps

\* and goes on.
LEMMA MainKeeps ==
    ASSUME Stream, main' # "constructed", TablesLose,
           socket' \in [Slot -> Session \cup {None}], Clients' \in [Slot -> Session \cup {None}],
           UNCHANGED <<net, ctx, reads, writes, m_JobQueue, finished, worker, flaw>>
    PROVE  Stream'
<1>1. Calm
  BY SameIs DEF Calm, Stream, Shapes
<1> QED BY <1>1, CalmKeeps

-----------------------------------------------------------------------------
(* Steps of the job threads that change one session.                        *)

\* A job thread is done with its job, or goes on with it.
GoesOn(w) == \E c \in Work : c.job = worker[w].job /\ c.pc \notin Off /\ Goes(w, c) /\ finished' = finished
DoneOrOn(w) == JobDone(w) \/ GoesOn(w)

\* To go on is to keep the job.
LEMMA GotoIsOn ==
    ASSUME Stream, NEW w \in Worker, NEW from, NEW to \in Pcs \ Off, WorkerGoto(w, from, to),
           finished' = finished
    PROVE  GoesOn(w)
<1> DEFINE c == [worker[w] EXCEPT !.pc = to]
<1>1. worker[w] \in Work
  BY DEF Stream, Shapes
<1>2. c \in Work /\ c.job = worker[w].job /\ c.pc = to
  BY <1>1 DEF Work
<1>3. Goes(w, c)
  BY DEF WorkerGoto, Goes
<1> HIDE DEF c
<1> QED BY <1>2, <1>3 DEF GoesOn

\* Either way a job thread leaves no other's job changed.
LEMMA DoneOrOnIs ==
    ASSUME Stream, NEW w \in Worker, worker[w].pc \notin Off, DoneOrOn(w), m_JobQueue' = m_JobQueue,
           Pops({}), FlawsStay, main' = main
    PROVE  /\ worker' \in [Worker -> Work] /\ Working' /\ finished' \subseteq Job
           /\ JobsStay \/ JobEnds(w)
<1>1. CASE JobDone(w)
  <2>1. /\ worker' \in [Worker -> Work] /\ Works(w, NoJob) /\ Working'
        /\ worker[w].job # NoJob /\ worker[w].job \in Job
        /\ finished' = finished \cup {worker[w].job} /\ finished' \subseteq Job
    BY <1>1, JobDoneIs
  <2> QED BY <2>1 DEF JobEnds
<1>2. CASE GoesOn(w)
  <2>1. PICK c \in Work : c.job = worker[w].job /\ c.pc \notin Off /\ Goes(w, c) /\ finished' = finished
    BY <1>2 DEF GoesOn
  <2>2. c.job # NoJob /\ main' # "constructed"
    BY <2>1 DEF Stream, Working
  <2>3. worker' \in [Worker -> Work] /\ Works(w, c.job) /\ Working'
    BY <2>1, <2>2, GoesIs
  <2>4. WorksOn
    BY <2>1, <2>3 DEF Works, WorksOn
  <2> QED BY <2>1, <2>3, <2>4 DEF JobsStay, Stream, Shapes
<1> QED BY <1>1, <1>2 DEF DoneOrOn

\* A job thread changes one session's context and its client, and finishes its job or goes on.
LEMMA WorkerSendsKeeps ==
    ASSUME Stream, NEW w \in Worker, worker[w].pc \notin Off, NEW s \in Session, ctx[s].slot # None,
           Only(s), ctx'[s].popped = ctx[s].popped, DoneOrOn(w),
           flaw' \in [Session -> SUBSET Flaws], FlawsStay, writes' \subseteq Slot,
           UNCHANGED <<socket, Clients, reads, m_JobQueue, main>>
    PROVE  Stream'
<1>1. Stays /\ BuffersStep /\ Pops({})
  BY OnlyStays, SameIs
<1>2. /\ worker' \in [Worker -> Work] /\ Working' /\ finished' \subseteq Job
      /\ JobsStay \/ JobEnds(w)
  BY <1>1, DoneOrOnIs
<1>3. Shapes'
  BY <1>2 DEF Stream, Shapes, Only
<1> QED BY <1>1, <1>2, <1>3, StreamKept DEF JobsStep

\* A job thread finishes its job or goes on, without any effect on a session.
LEMMA WorkerKeeps ==
    ASSUME Stream, NEW w \in Worker, worker[w].pc \notin Off, DoneOrOn(w),
           flaw' \in [Session -> SUBSET Flaws], FlawsStay, writes' \subseteq Slot,
           UNCHANGED <<net, socket, Clients, ctx, reads, m_JobQueue, main>>
    PROVE  Stream'
<1>1. Pops({})
  BY ContextsSame, SameIs
<1>2. /\ worker' \in [Worker -> Work] /\ Working' /\ finished' \subseteq Job
      /\ JobsStay \/ JobEnds(w)
  BY <1>1, DoneOrOnIs
<1>3. Moves
  BY <1>2 DEF Moves, Stream, Shapes
<1> QED BY <1>2, <1>3, MovesKeep DEF JobsStep

\* A job thread notes the context that it has looked up.
LEMMA LookUpKeeps ==
    ASSUME Stream, NEW w \in Worker, worker[w].pc \notin Off, NEW pc \in Pcs \ Off,
           NEW s \in Session \cup {None}, worker' = [worker EXCEPT ![w].pc = pc, ![w].ctx = s],
           UNCHANGED <<net, socket, Clients, ctx, reads, writes, m_JobQueue, finished, main, flaw>>
    PROVE  Stream'
<1> DEFINE c == [worker[w] EXCEPT !.pc = pc, !.ctx = s]
<1>1. worker[w] \in Work
  BY DEF Stream, Shapes
<1>2. c \in Work /\ c.job = worker[w].job /\ c.pc = pc
  BY <1>1 DEF Work
<1>3. Goes(w, c)
  BY DEF Goes
<1> HIDE DEF c
<1>4. DoneOrOn(w)
  BY <1>2, <1>3 DEF DoneOrOn, GoesOn
<1> QED BY <1>4, SameIs, WorkerKeeps DEF Stream, Shapes

-----------------------------------------------------------------------------
(* Steps of the threads that serve the sockets.                             *)

\* A thread that is no job thread changes one session's context and its client.
LEMMA OnlyKeeps ==
    ASSUME Stream, NEW s \in Session, ctx[s].slot # None, Only(s), ctx'[s].popped = ctx[s].popped,
           UNCHANGED <<socket, Clients, m_JobQueue, finished, worker>>,
           reads' \subseteq Slot, writes' \subseteq Slot, main' = "constructed" => main = "constructed",
           flaw' \in [Session -> SUBSET Flaws], FlawsStay
    PROVE  Stream'
<1>1. Stays /\ BuffersStep /\ Pops({})
  BY OnlyStays, SameIs
<1>2. Shapes'
  BY DEF Stream, Shapes, Only
<1>3. JobsStay /\ Working'
  BY <1>1, SameIs DEF JobsStay
<1> QED BY <1>1, <1>2, <1>3, StreamKept DEF JobsStep

\* The capacity is kept if the session's buffer keeps it.
LEMMA BoundedIs ==
    ASSUME NEW cap, Bounded(cap), NEW s \in Session, Only(s), Len(ctx'[s].sendBuffer) <= cap
    PROVE  Bounded(cap)'
BY DEF Bounded, Only

\* The next request is one.
LEMMA Next1Is ==
    ASSUME Stream, NEW s \in Session
    PROVE  Next1(s) \in Job
BY DEF Stream, Shapes, Context, Next1, Job

\* The next request of session s is taken, and made a job if one can be made.
LEMMA RequestKeeps ==
    ASSUME Stream, NEW s \in Session, ctx[s].slot # None, ctx[s].stored >= 2,
           ctx' = [ctx EXCEPT ![s].stored = @ - 2, ![s].popped = @ + 1],
           m_JobQueue' = IF Next1(s) \in Bad THEN m_JobQueue ELSE Append(m_JobQueue, Next1(s)),
           UNCHANGED <<net, socket, Clients, reads, writes, finished, worker, flaw>>,
           main' = "constructed" => main = "constructed"
    PROVE  Stream' /\ \A r \in Session : ctx'[r].sendBuffer = ctx[r].sendBuffer /\ ctx'[r].slot = ctx[r].slot
<1>1. /\ Only(s) /\ ctx'[s].popped = ctx[s].popped + 1
      /\ \A r \in Session : ctx'[r].sendBuffer = ctx[r].sendBuffer
  BY PopIs
<1>2. Stays /\ BuffersStep /\ Pops({s})
  BY <1>1, OnlyStays, SameIs
<1>3. Working' /\ WorksOn /\ FlawsStay
  BY SameIs
<1>4. JobMade(s) \/ RequestPassed(s)
  BY <1>2, <1>3 DEF JobMade, RequestPassed
<1>5. m_JobQueue' \in Seq(Job)
  BY Next1Is, AppendProperties DEF Stream, Shapes
<1>6. Shapes'
  BY <1>1, <1>5 DEF Stream, Shapes, Only
<1>7. Stream'
  BY <1>2, <1>3, <1>4, <1>6, StreamKept DEF JobsStep
<1> QED BY <1>1, <1>7 DEF Only

\* The answer of a job may be stored for the newest session of its slot.
LEMMA StoredAnswerIs ==
    ASSUME Stream, server \in Server, NEW w \in Worker, worker[w].pc \notin Off,
           NEW s \in Session, Newest(JobSlot(w), s)
    PROVE  /\ ctx[s].sendBuffer \o Answer(worker[w].job) \in Seq(Of(s))
           /\ Fits(ctx[s].sendBuffer, worker[w].job) =>
                Len(ctx[s].sendBuffer \o Answer(worker[w].job)) <= SendCap[server]
<1>1. worker[w].job \in Of(s) /\ worker[w].job \in Job
  BY AskerIs, JobSlotIs
<1>2. Size(worker[w].job) \in Nat
  BY <1>1, SizeIs
<1>3. Answer(worker[w].job) \in Seq(Of(s)) /\ Len(Answer(worker[w].job)) = Size(worker[w].job)
  BY <1>1, <1>2, AnswerIs
<1>4. ctx[s].sendBuffer \in Seq(Of(s))
  BY DEF Stream, Buffers
<1>5. /\ ctx[s].sendBuffer \o Answer(worker[w].job) \in Seq(Of(s))
      /\ Len(ctx[s].sendBuffer \o Answer(worker[w].job))
           = Len(ctx[s].sendBuffer) + Len(Answer(worker[w].job))
  BY <1>3, <1>4, ConcatProperties
<1> QED BY <1>3, <1>5, Zenon DEF Fits

-----------------------------------------------------------------------------
(* Two jobs that are queued at the same time.                               *)

LosesOne(a, b) ==
    \E kept, lost \in {a, b} :
        /\ kept # lost
        /\ m_JobQueue' = Append(m_JobQueue, kept)
        /\ Flawed(lost[1], {"lost_job"})

\* Such a collision leaves one of the two in the queue, and records the loss of the other.
LEMMA LosesOneIs ==
    ASSUME Stream, NEW a \in Job, NEW b \in Job, LosesOne(a, b)
    PROVE  /\ Collides(a, b) /\ m_JobQueue' \in Seq(Job)
           /\ flaw' \in [Session -> SUBSET Flaws] /\ FlawsStay
<1>1. PICK kept \in {a, b}, lost \in {a, b} :
        kept # lost /\ m_JobQueue' = Append(m_JobQueue, kept) /\ Flawed(lost[1], {"lost_job"})
  BY DEF LosesOne
<1>2. lost[1] \in Session /\ {"lost_job"} \in SUBSET Flaws
  BY DEF Job, Flaws
<1>3. flaw' \in [Session -> SUBSET Flaws] /\ FlawsStay /\ "lost_job" \in flaw'[lost[1]]
  BY <1>1, <1>2, FlawedIs
<1>4. m_JobQueue' \in Seq(Job)
  BY <1>1, AppendProperties DEF Stream, Shapes
<1> QED BY <1>1, <1>3, <1>4 DEF Collides

\* A request becomes a job while a job is queued again, and one of them is lost.
LEMMA CollisionKeeps ==
    ASSUME Stream, NEW w \in Worker, GiveUpJob(w), NEW s \in Session, ctx[s].slot # None,
           ctx[s].stored >= 2, Next1(s) \notin Bad, LosesOne(Next1(s), worker[w].job),
           ctx' = [ctx EXCEPT ![s].stored = @ - 2, ![s].popped = @ + 1],
           UNCHANGED <<net, socket, Clients, reads, writes, finished, main>>
    PROVE  Stream' /\ \A r \in Session : ctx'[r].sendBuffer = ctx[r].sendBuffer /\ ctx'[r].slot = ctx[r].slot
<1>1. /\ worker' \in [Worker -> Work] /\ Works(w, NoJob) /\ Working'
      /\ worker[w].job # NoJob /\ worker[w].job \in Job
  BY GiveUpJobIs
<1>2. /\ Only(s) /\ ctx'[s].popped = ctx[s].popped + 1
      /\ \A r \in Session : ctx'[r].sendBuffer = ctx[r].sendBuffer
  BY PopIs
<1>3. Stays /\ BuffersStep /\ Pops({s})
  BY <1>2, OnlyStays, SameIs
<1>4. /\ Collides(Next1(s), worker[w].job) /\ m_JobQueue' \in Seq(Job)
      /\ flaw' \in [Session -> SUBSET Flaws] /\ FlawsStay
  BY <1>1, Next1Is, LosesOneIs
<1>5. MadeAndQueuedAgain(s, w)
  BY <1>1, <1>3, <1>4 DEF MadeAndQueuedAgain
<1>6. Shapes'
  BY <1>1, <1>2, <1>4 DEF Stream, Shapes, Only
<1>7. Stream'
  BY <1>1, <1>3, <1>5, <1>6, StreamKept DEF JobsStep
<1> QED BY <1>2, <1>7 DEF Only

\* All of it holds when a server has started.
LEMMA InitKeeps ==
    ASSUME StreamInit, main = "constructed"
    PROVE  Stream /\ (\A s \in Session : ctx[s].sendBuffer = NoJob) /\ reads = {} /\ writes = {}
           /\ (\A i \in Slot : socket[i] = None /\ Clients[i] = None)
           /\ (\A s \in Session : ctx[s].slot = None)
<1>1. PICK units \in Streams : net = [s \in Session |-> NewNet(units[s])]
  BY DEF StreamInit
<1>2. \A s \in Session : units[s] \in Nat
  BY StreamServerAssumption DEF Session
<1>3. NewContext = [slot |-> None, stored |-> 0, popped |-> 0, sendBuffer |-> NoJob]
  BY DEF NewContext, NoJob
<1>4. \A A : NoJob \in Seq(A)
  BY EmptySeq DEF NoJob
<1>5. m_JobQueue = NoJob /\ DOMAIN m_JobQueue = {}
  BY DEF StreamInit, NoJob
<1>6. \A s \in Session : ctx[s] = NewContext /\ ctx[s].slot = None /\ ctx[s].sendBuffer = NoJob
  BY <1>3 DEF StreamInit
<1>7. \A s \in Session : /\ net[s].peer = IF units[s] = 0 THEN "none" ELSE "connecting"
                         /\ net[s].unread = units[s] /\ net[s].room = Room /\ net[s].replies = NoJob
                         /\ net[s] = [peer |-> net[s].peer, unread |-> units[s], room |-> Room, replies |-> NoJob]
  BY <1>1 DEF NewNet, NoJob
<1>8. NoWork = [pc |-> "none", job |-> NoJob, ctx |-> None, n |-> 0] /\ NoWork.job = NoJob /\ NoWork.pc = "none"
  BY DEF NoWork, NoJob
<1>9. \A w \in Worker : worker[w] = NoWork
  BY DEF StreamInit
<1>10. Shapes
  <2>1. net \in [Session -> Net]
    <3>1. \A s \in Session : net[s].peer \in Peers
      BY <1>7 DEF Peers
    <3>2. Room \in 0 .. Room
      BY Names
    <3>3. ASSUME NEW s \in Session PROVE net[s] \in Net
      <4> DEFINE p == net[s].peer
                 u == units[s]
      <4>1. net[s] = [peer |-> p, unread |-> u, room |-> Room, replies |-> NoJob]
        BY <1>7
      <4>2. p \in Peers /\ u \in Nat /\ NoJob \in Seq(Job)
        BY <1>2, <1>4, <3>1
      <4> HIDE DEF p, u
      <4> QED BY <3>2, <4>1, <4>2 DEF Net
    <3> QED BY <1>1, <3>3
  <2>2. ctx \in [Session -> Context]
    <3>1. NewContext \in Context
      BY <1>3, <1>4, Names DEF Context
    <3> QED BY <3>1 DEF StreamInit
  <2>3. worker \in [Worker -> Work]
    <3>1. NoWork \in Work
      BY <1>8 DEF Work, Pcs
    <3> QED BY <3>1 DEF StreamInit
  <2>4. m_JobQueue \in Seq(Job)
    BY <1>4, <1>5
  <2> QED BY <2>1, <2>2, <2>3, <2>4 DEF StreamInit, Shapes
<1>11. Fresh
  BY <1>6, <1>7 DEF Fresh, Away, NoJob
<1>12. Tables
  BY DEF StreamInit, Tables
<1>13. JobsKnown
  BY <1>4, <1>5, <1>8, <1>9 DEF JobsKnown, StreamInit
<1>14. Working
  BY <1>8, <1>9 DEF Working, Off
<1>15. Buffers
  BY <1>4, <1>6, <1>7 DEF Buffers
<1>16. OnePlace
  <2> SUFFICES ASSUME NEW j \in Job PROVE OneJob(j)
    BY DEF OnePlace
  <2>1. ~Taken(j)
    BY <1>3, <1>6 DEF Taken, Job
  <2>2. ~Queued(j) /\ Single(m_JobQueue, j)
    BY <1>5 DEF Queued, In, Single
  <2>3. ~Held(j)
    BY <1>8, <1>9, Names DEF Held
  <2>4. \A v, w \in Worker : worker[v].job = j /\ worker[w].job = j => v = w
    BY <1>8, <1>9, Names
  <2> QED BY <2>1, <2>2, <2>3, <2>4 DEF OneJob
<1>17. Stream
  BY <1>10, <1>11, <1>12, <1>13, <1>14, <1>15, <1>16 DEF Stream
<1> QED BY <1>6, <1>17 DEF StreamInit

-----------------------------------------------------------------------------
(* What the invariants say of the properties.                               *)

\* The answers are of the session itself or of earlier ones of its slot.
LEMMA AnswersStayInSlotFollows ==
    ASSUME Stream
    PROVE  AnswersStayInSlot
<1>1. ASSUME NEW s \in Session, NEW k \in DOMAIN Replies(s)
      PROVE  Replies(s)[k][1] <= s /\ ctx[Replies(s)[k][1]].slot = ctx[s].slot
  <2>1. Replies(s) \in Seq(Of(s))
    BY DEF Stream, Buffers, Replies
  <2>2. Replies(s)[k] \in Of(s)
    BY <1>1, <2>1, LenProperties, ElementOfSeq
  <2> QED BY <2>2 DEF Of
<1> QED BY <1>1 DEF AnswersStayInSlot

\* The requests that a job can be made of are among the jobs.
LEMMA RequestsAreJobs == Requests \subseteq Job \ Bad
<1> SUFFICES ASSUME NEW job \in Requests PROVE job \in Job /\ job \notin Bad
  OBVIOUS
<1> DEFINE From(units, s) == {<<s, n>> : n \in 1 .. units[s] \div 2}
<1>1. job \notin Bad /\ job \in UNION {From(units, s) : units \in Streams, s \in Session}
  BY DEF Requests
<1> HIDE DEF From
<1>2. \E units \in Streams, s \in Session : job \in From(units, s)
  BY <1>1
<1> USE DEF From
<1>3. PICK units \in Streams, s \in Session : job \in {<<s, n>> : n \in 1 .. units[s] \div 2}
  BY <1>2
<1>4. PICK n \in 1 .. units[s] \div 2 : job = <<s, n>>
  BY <1>3
<1>5. n \in Nat \ {0}
  OBVIOUS
<1> QED BY <1>1, <1>4, <1>5 DEF Job

\* One element at most.
LEMMA AtMostOne ==
    ASSUME NEW A, \A x, y \in A : x = y
    PROVE  Cardinality(A) = IF A = {} THEN 0 ELSE 1
<1>1. CASE A = {}
  BY <1>1, FS_EmptySet
<1>2. CASE A # {}
  <2>1. PICK x \in A : A = {x}
    BY <1>2
  <2> QED BY <1>2, <2>1, FS_Singleton
<1> QED BY <1>1, <1>2

\* A job is in one place, and the state is well formed.
LEMMA JobInOnePlaceFollows ==
    ASSUME Stream, server \in Server, Bounded(SendCap[server]),
           main \in {"constructed", "running", "join_jobs"} => \A i \in reads : socket[i] # None
    PROVE  JobInOnePlace
<1>1. TypeOK
  BY DEF TypeOK, Stream, Shapes, Net, Context, Bounded
<1>2. ASSUME NEW job \in Requests, "lost_job" \notin flaw[job[1]]
      PROVE  Cardinality(InQueue(job)) + Cardinality(Holders(job))
               = IF Taken(job) /\ job \notin finished THEN 1 ELSE 0
  <2>1. OneJob(job)
    BY <1>2, RequestsAreJobs DEF Stream, OnePlace
  <2>2. Cardinality(InQueue(job)) = IF Queued(job) THEN 1 ELSE 0
    <3>1. \A k, l \in InQueue(job) : k = l
      BY <2>1 DEF OneJob, Single, InQueue
    <3>2. InQueue(job) = {} <=> ~Queued(job)
      BY DEF InQueue, Queued, In
    <3> QED BY <3>1, <3>2, AtMostOne
  <2>3. Cardinality(Holders(job)) = IF Held(job) THEN 1 ELSE 0
    <3>1. DOMAIN worker = Worker
      BY DEF Stream, Shapes
    <3>2. \A v, w \in Holders(job) : v = w
      BY <2>1, <3>1 DEF OneJob, Holders
    <3>3. Holders(job) = {} <=> ~Held(job)
      BY <3>1 DEF Holders, Held
    <3> QED BY <3>2, <3>3, AtMostOne
  <2> QED BY <2>1, <2>2, <2>3 DEF OneJob
<1> QED BY <1>1, <1>2 DEF JobInOnePlace

-----------------------------------------------------------------------------
(* Accepting, and sending.                                                  *)

\* The capacities of the send buffers are numbers.
LEMMA CapIs ==
    \A name \in Server : SendCap[name] \in Nat \ {0}
BY StreamServerAssumption

\* A new context in a slot.
LEMMA NewContextIs ==
    ASSUME NEW i \in Slot
    PROVE  /\ [NewContext EXCEPT !.slot = i] \in Context
           /\ [NewContext EXCEPT !.slot = i].slot = i
           /\ [NewContext EXCEPT !.slot = i].popped = 0
           /\ \A A : [NewContext EXCEPT !.slot = i].sendBuffer \in Seq(A)
           /\ Len([NewContext EXCEPT !.slot = i].sendBuffer) = 0
<1>1. NewContext = [slot |-> None, stored |-> 0, popped |-> 0, sendBuffer |-> NoJob]
  BY DEF NewContext, NoJob
<1>2. Len(NoJob) = 0 /\ \A A : NoJob \in Seq(A)
  BY EmptySeq DEF NoJob
<1>3. NewContext.sendBuffer = NoJob /\ NewContext.popped = 0
  BY <1>1
<1>4. NewContext \in Context
  BY <1>1, <1>2, Names DEF Context
<1> QED BY <1>2, <1>3, <1>4 DEF Context

\* Session s is accepted into slot i, with context c.
LEMMA AcceptKeeps ==
    ASSUME Stream, NEW s \in Session, NEW i \in Slot, NEW c \in Context, c.slot = i, c.popped = 0,
           c.sendBuffer \in Seq({a \in Known : ctx[a[1]].slot = i}),
           net[s].peer = "connecting", \A r \in 1 .. s - 1 : net[r].peer # "connecting",
           net' = [net EXCEPT ![s].peer = "open"], ctx' = [ctx EXCEPT ![s] = c],
           socket' = [socket EXCEPT ![i] = s], Clients' = [Clients EXCEPT ![i] = s],
           reads' \subseteq Slot, writes' \subseteq Slot, flaw' \in [Session -> SUBSET Flaws], FlawsStay,
           UNCHANGED <<m_JobQueue, finished, worker, main>>
    PROVE  Stream' /\ \A r \in Session : ctx'[r] = IF r = s THEN c ELSE ctx[r]
<1>1. \A r \in Session : ctx'[r] = IF r = s THEN c ELSE ctx[r]
  BY DEF Stream, Shapes
<1>2. Accepts(i, s)
  BY <1>1 DEF Accepts
<1>3. Shapes'
  <2>1. net' \in [Session -> Net]
    <3> DEFINE p == [net[s] EXCEPT !.peer = "open"]
    <3>1. net' = [net EXCEPT ![s] = p] /\ net \in [Session -> Net]
      BY DEF Stream, Shapes
    <3>2. "open" \in Peers
      BY DEF Peers
    <3>3. p \in Net
      BY <3>1, <3>2 DEF Net
    <3> HIDE DEF p
    <3> QED BY <3>1, <3>3
  <2>2. ctx' \in [Session -> Context]
    BY DEF Stream, Shapes
  <2> QED BY <2>1, <2>2 DEF Stream, Shapes
<1>4. Working /\ Working'
  BY DEF Stream, Working
<1>5. ctx[s].popped = 0
  BY <1>2, <1>3, AcceptsKeeps DEF Stream
<1>6. JobsStay
  BY <1>1, <1>5 DEF JobsStay, WorksOn, Pops
<1>7. ctx'[s].sendBuffer \in Seq({a \in Known : ctx[a[1]].slot = i})
  BY <1>1
<1> QED BY <1>1, <1>2, <1>3, <1>4, <1>6, <1>7, StreamAccepts

\* The kernel takes a part of the buffer of session s, which stays.
LEMMA GiveIs ==
    ASSUME Stream, NEW s \in Session, NEW buf \in Seq(Of(s)), NEW n \in Nat, n <= Len(buf),
           n <= net[s].room, GiveKernel(s, buf, n), ctx' = ctx
    PROVE  /\ Only(s) /\ ctx'[s].popped = ctx[s].popped
           /\ \A r \in Session : ctx'[r].sendBuffer = ctx[r].sendBuffer
<1>1. Of(s) \subseteq Job
  BY DEF Of, Known
<1>2. net[s].replies \in Seq(Of(s))
  BY DEF Stream, Buffers
<1>3. /\ net' \in [Session -> Net] /\ \A r \in Session : r # s => net'[r] = net[r]
      /\ net'[s].peer = net[s].peer /\ net'[s].replies \in Seq(Of(s))
  BY <1>1, <1>2, GiveKernelIs DEF Stream
<1> QED BY <1>3 DEF Only, Stream, Shapes, Buffers

\* What a send takes of the buffer of a session.
LEMMA SentBufferIs ==
    ASSUME Stream, NEW s \in Session
    PROVE  /\ ctx[s].sendBuffer \in Seq(Of(s))
           /\ Sent(s, ctx[s].sendBuffer) \in Nat /\ Sent(s, ctx[s].sendBuffer) <= Len(ctx[s].sendBuffer)
           /\ Sent(s, ctx[s].sendBuffer) <= net[s].room
<1>1. ctx[s].sendBuffer \in Seq(Job) /\ ctx[s].sendBuffer \in Seq(Of(s))
  BY DEF Stream, Shapes, Context, Buffers
<1> QED BY <1>1, SentIs DEF Stream

\* A buffer that becomes shorter keeps its capacity.
LEMMA ShorterKeeps ==
    ASSUME Stream, NEW cap \in Nat, Bounded(cap), NEW s \in Session, Only(s),
           Len(ctx'[s].sendBuffer) <= Len(ctx[s].sendBuffer)
    PROVE  Bounded(cap)'
<1>1. Len(ctx'[s].sendBuffer) \in Nat /\ Len(ctx[s].sendBuffer) \in Nat /\ Len(ctx[s].sendBuffer) <= cap
  BY LenProperties DEF Stream, Shapes, Context, Only, Bounded
<1>2. Len(ctx'[s].sendBuffer) <= cap
  BY <1>1
<1> QED BY <1>2, BoundedIs

-----------------------------------------------------------------------------
(* The epoll server.                                                        *)

\* EpollWait takes the events of a slot that is watched, or ends.
LEMMA EpollWaitKeeps ==
    ASSUME EpollInv, E!EpollWait, server' = server
    PROVE  EpollInv'
<1> USE Instances DEF EpollInv, E!EpollWait
<1>1. Stream'
  <2>1. Calm
    BY SameIs DEF Calm, Stream, Shapes
  <2> QED BY <2>1, CalmKeeps
<1>2. CASE \E i \in reads : E!ReaderRuns /\ E!Events(i) # {} /\ reader' = E!At("event", i, E!Events(i))
  <2>1. PICK i \in reads : reader' = E!At("event", i, E!Events(i))
    BY <1>2
  <2>2. E!Events(i) \subseteq Event
    BY DEF E!Events, Event
  <2>3. reader' = [pc |-> "event", i |-> i, ev |-> E!Events(i)]
    BY <2>1 DEF E!At
  <2>4. EpollReader'
    BY <2>2, <2>3 DEF EpollReader, EpollPcs, Stream, Shapes, E!ReaderAt
  <2> QED BY <1>1, <2>4 DEF Bounded
<1>3. CASE reader' = E!At("exited", None, {})
  <2>1. reader' = [pc |-> "exited", i |-> None, ev |-> {}]
    BY <1>3 DEF E!At
  <2>2. EpollReader'
    BY <2>1 DEF EpollReader, EpollPcs, Stream, Shapes, E!ReaderAt
  <2> QED BY <1>1, <2>2 DEF Bounded
<1> QED BY <1>2, <1>3

\* DoAccept takes a slot that has no socket, and so no context.
LEMMA EpollDoAcceptKeeps ==
    ASSUME EpollInv, NEW s \in Session, E!DoAccept(s), server' = server
    PROVE  EpollInv'
<1>1. PICK i \in Slot : socket[i] = None /\ socket' = [socket EXCEPT ![i] = s] /\ E!CreateContext(i, s)
  BY Instances DEF E!DoAccept
<1> DEFINE c == [NewContext EXCEPT !.slot = i]
<1>2. ctx' = [ctx EXCEPT ![s] = c]
  BY <1>1 DEF E!CreateContext, E!InitContext, E!NewContext, NewContext, E!None, None
<1>3. /\ c \in Context /\ c.slot = i /\ c.popped = 0 /\ Len(c.sendBuffer) = 0
      /\ \A A : c.sendBuffer \in Seq(A)
  BY NewContextIs
<1> HIDE DEF c
<1>4. Clients[i] = None /\ reader.pc = "wait"
  BY <1>1, Names DEF EpollInv, EpollReader, E!DoAccept, E!ReaderAt
<1>5. Clients' = [Clients EXCEPT ![i] = s] /\ reads' = reads \cup {i}
  BY <1>1, <1>4, Instances DEF E!CreateContext
<1>6. /\ net[s].peer = "connecting" /\ \A r \in 1 .. s - 1 : net[r].peer # "connecting"
      /\ net' = [net EXCEPT ![s].peer = "open"]
      /\ UNCHANGED <<writes, m_JobQueue, finished, reader, worker, main, flaw>>
  BY DEF E!DoAccept, E!Pending
<1>7. Stream' /\ \A r \in Session : ctx'[r] = IF r = s THEN c ELSE ctx[r]
  BY <1>1, <1>2, <1>3, <1>5, <1>6, AcceptKeeps, SameIs DEF EpollInv, Stream, Shapes
<1>8. Bounded(SendCap["epoll"])'
  BY <1>3, <1>7, CapIs DEF EpollInv, Bounded, Server
<1>9. EpollReader'
  BY <1>1, <1>4, <1>5, <1>6, Names DEF EpollInv, EpollReader, Stream, Shapes
<1> QED BY <1>7, <1>8, <1>9 DEF EpollInv

\* After an event was handled the reader handles the next, or waits.
LEMMA EpollHandledIs ==
    ASSUME EpollInv, NEW e, E!Handled(e)
    PROVE  reader' \in [pc : EpollPcs, i : Slot \cup {None}, ev : SUBSET Event]
           /\ (reader'.pc = "wait" \/ (reader'.pc = "event" /\ reader'.i = reader.i))
<1>1. reader \in [pc : EpollPcs, i : Slot \cup {None}, ev : SUBSET Event]
  BY DEF EpollInv, EpollReader
<1>2. reader' = [pc |-> "wait", i |-> None, ev |-> {}]
      \/ reader' = [pc |-> "event", i |-> reader.i, ev |-> reader.ev \ {e}]
  BY Instances DEF E!Handled, E!At, E!Waiting
<1> QED BY <1>1, <1>2 DEF EpollPcs

\* While the sockets stay, the reader may go on with its event, or wait.
LEMMA EpollReaderGoes ==
    ASSUME EpollInv, socket' = socket, TablesLose, reads' \subseteq reads,
           reader' \in [pc : EpollPcs, i : Slot \cup {None}, ev : SUBSET Event],
           \/ reader' = reader
           \/ reader'.pc = "wait" /\ reader.pc # "release"
           \/ /\ reader'.pc \in {"event", "parse", "unwatch", "close"}
              /\ reader'.i = reader.i
              /\ reader.pc \in {"event", "parse", "unwatch", "close", "close_socket"}
    PROVE  EpollReader'
BY Names DEF EpollInv, EpollReader, TablesLose, Stream, Shapes

\* The reader goes on with the event of the same slot.
LEMMA EpollReaderGotoIs ==
    ASSUME EpollInv, NEW pc \in EpollPcs, E!ReaderGoto(pc)
    PROVE  /\ reader' \in [pc : EpollPcs, i : Slot \cup {None}, ev : SUBSET Event]
           /\ reader'.pc = pc /\ reader'.i = reader.i
BY DEF EpollInv, EpollReader, E!ReaderGoto

\* A reader that waits is well formed.
LEMMA EpollWaitingIs ==
    ASSUME reader' = E!Waiting
    PROVE  reader' \in [pc : EpollPcs, i : Slot \cup {None}, ev : SUBSET Event] /\ reader'.pc = "wait"
<1>1. reader' = [pc |-> "wait", i |-> None, ev |-> {}]
  BY Instances DEF E!Waiting, E!At
<1> QED BY <1>1 DEF EpollPcs

\* Unwatch takes the slot out of those watched for room.
LEMMA EpollUnwatchKeeps ==
    ASSUME EpollInv, E!Unwatch, server' = server
    PROVE  EpollInv'
<1> DEFINE s == Clients[reader.i]
<1>1. /\ reader.pc = "unwatch" /\ reader.i \in Slot /\ writes' = writes \ {reader.i} /\ E!Handled("OUT")
      /\ UNCHANGED <<net, socket, Clients, ctx, reads, m_JobQueue, finished, worker, main>>
  BY DEF E!Unwatch, E!ReaderAt, EpollInv, EpollReader
<1>2. flaw' \in [Session -> SUBSET Flaws] /\ FlawsStay
  <2>1. CASE flaw' = flaw
    BY <2>1, SameIs DEF EpollInv
  <2>2. CASE s # None /\ E!Flawed(s, {"unwatched"})
    <3>1. s \in Session /\ Flawed(s, {"unwatched"})
      BY <1>1, <2>2 DEF E!Flawed, Flawed, EpollInv, Stream, Shapes
    <3>2. {"unwatched"} \in SUBSET Flaws
      BY DEF Flaws
    <3> QED BY <3>1, <3>2, FlawedIs DEF EpollInv
  <2> QED BY <2>1, <2>2, Instances, Zenon DEF E!Unwatch
<1>3. Calm
  BY <1>1, <1>2, SameIs DEF EpollInv, Calm, Stream, Shapes
<1>4. Stream'
  BY <1>3, CalmKeeps DEF EpollInv
<1>5. EpollReader'
  BY <1>1, <1>3, EpollHandledIs, EpollReaderGoes DEF Calm
<1> QED BY <1>1, <1>4, <1>5 DEF EpollInv, Bounded

\* The reader's steps that change one session, and no job.
LEMMA EpollReads ==
    ASSUME EpollInv, server' = server, NEW s \in Session, ctx[s].slot # None, Only(s),
           ctx'[s].popped = ctx[s].popped, Len(ctx'[s].sendBuffer) <= SendCap["epoll"],
           UNCHANGED <<socket, Clients, reads, writes, m_JobQueue, finished, worker>>,
           main' = "constructed" => main = "constructed",
           flaw' \in [Session -> SUBSET Flaws] /\ FlawsStay, EpollReader'
    PROVE  EpollInv'
<1>1. Stream'
  BY OnlyKeeps DEF EpollInv, Stream, Shapes
<1>2. Bounded(SendCap["epoll"])'
  BY BoundedIs DEF EpollInv
<1> QED BY <1>1, <1>2 DEF EpollInv

\* ResumeSend gives the kernel what is stored, and drops that.
LEMMA EpollResumeSendKeeps ==
    ASSUME EpollInv, E!ResumeSend, server' = server
    PROVE  EpollInv'
<1> DEFINE s == Clients[reader.i]
           buf == ctx[s].sendBuffer
<1>1. /\ reader.pc = "event" /\ reader.i \in Slot /\ s \in Session \cup {None}
      /\ UNCHANGED <<socket, Clients, reads, writes, m_JobQueue, finished, worker, main, flaw>>
  BY DEF E!ResumeSend, E!ReaderAt, EpollInv, EpollReader, Stream, Shapes
<1>3. EpollReader'
  <2>1. E!ReaderGoto("unwatch") \/ E!Handled("OUT")
    BY Zenon DEF E!ResumeSend
  <2>2. "unwatch" \in EpollPcs
    BY DEF EpollPcs
  <2> QED BY <1>1, <2>1, <2>2, SameIs, EpollReaderGotoIs, EpollHandledIs, EpollReaderGoes DEF EpollInv
<1>4. CASE net' = net /\ ctx' = ctx
  <2>1. Calm
    BY <1>1, <1>4, SameIs DEF EpollInv, Calm, Stream, Shapes
  <2>2. Stream'
    BY <2>1, CalmKeeps DEF EpollInv
  <2> QED BY <1>3, <1>4, <2>2 DEF EpollInv, Bounded
<1>5. CASE s # None /\ E!SendRest(s)
  <2>1. s \in Session /\ ctx[s].slot # None
    BY <1>1, <1>5, Names DEF EpollInv, Stream, Tables, Newest
  <2>2. buf \in Seq(Of(s)) /\ buf \in Seq(Job) /\ Len(buf) <= SendCap["epoll"]
    BY <2>1, SMTT(30) DEF EpollInv, Stream, Buffers, Shapes, Context, Bounded
  <2> DEFINE n == Sent(s, buf)
  <2>3. GiveKernel(s, buf, n) /\ ctx' = [ctx EXCEPT ![s].sendBuffer = Drop(buf, n)]
    BY <1>5, Zenon DEF E!SendRest, E!GiveKernel, GiveKernel, E!Sent, Sent, E!Drop, Drop
  <2>4. n \in Nat /\ n <= Len(buf) /\ n <= net[s].room
    BY <2>1, <2>2, SentIs DEF EpollInv, Stream
  <2> HIDE DEF n, buf
  <2>5. Only(s) /\ ctx'[s].popped = ctx[s].popped /\ Len(ctx'[s].sendBuffer) = Len(buf) - n
    BY <2>1, <2>2, <2>3, <2>4, SendIs DEF EpollInv
  <2>6. Len(ctx'[s].sendBuffer) <= SendCap["epoll"]
    BY <2>2, <2>4, <2>5, CapIs, LenProperties DEF Server
  <2> QED BY <1>1, <1>3, <2>1, <2>5, <2>6, EpollReads, SameIs DEF EpollInv
<1> QED BY <1>4, <1>5, Instances, Zenon DEF E!ResumeSend

\* What the reader finds on a socket is the socket of a session.
LEMMA EpollSessionIs ==
    ASSUME EpollInv, reader.pc \in {"event", "parse", "unwatch", "close", "close_socket"}
    PROVE  /\ reader.i \in Slot /\ socket[reader.i] \in Session
           /\ ctx[socket[reader.i]].slot = reader.i /\ ctx[socket[reader.i]].slot # None
BY Names DEF EpollInv, EpollReader, Stream, Shapes, Tables, Newest

\* DoRecv reads a chunk of the session.
LEMMA EpollDoRecvKeeps ==
    ASSUME EpollInv, E!DoRecv, server' = server
    PROVE  EpollInv'
<1> DEFINE s == socket[reader.i]
<1>1. /\ reader.pc = "event"
      /\ UNCHANGED <<socket, Clients, reads, writes, m_JobQueue, finished, worker>>
  BY DEF E!DoRecv, E!ReaderAt
<1>2. s \in Session /\ ctx[s].slot # None
  BY <1>1, EpollSessionIs
<1>3. CASE /\ main' \in {"crashed", main} /\ UNCHANGED <<net, ctx, flaw>>
           /\ reader' = E!Waiting \/ E!ReaderGoto("close")
  <2>1. Calm
    BY <1>1, <1>3, SameIs DEF EpollInv, Calm, Stream, Shapes
  <2>2. Stream'
    BY <2>1, CalmKeeps DEF EpollInv
  <2>3. "close" \in EpollPcs
    BY DEF EpollPcs
  <2>4. EpollReader'
    BY <1>1, <1>3, <2>3, SameIs, EpollWaitingIs, EpollReaderGotoIs, EpollReaderGoes DEF EpollInv
  <2> QED BY <1>3, <2>2, <2>4 DEF EpollInv, Bounded
<1>4. CASE /\ \E n \in 1 .. RecvCap :
                /\ E!Reads(s, n)
                /\ IF Clients[reader.i] = E!None
                   THEN reader' = E!Waiting /\ E!Flawed(s, {"cut"}) /\ UNCHANGED ctx
                   ELSE E!StorePartialMsg(s, n)
           /\ main' = main
  <2>1. PICK n \in 1 .. RecvCap :
             /\ Reads(s, n)
             /\ \/ reader' = E!Waiting /\ Flawed(s, {"cut"}) /\ ctx' = ctx
                \/ /\ ctx[s].stored + n <= RecvCap /\ ctx' = [ctx EXCEPT ![s].stored = @ + n]
                   /\ E!ReaderGoto("parse") /\ flaw' = flaw
    BY <1>4, Zenon DEF E!Reads, Reads, E!Flawed, Flawed, E!StorePartialMsg
  <2>2. Stores(s, n)
    BY <2>1, Zenon DEF Stores
  <2>3. /\ Only(s) /\ ctx'[s].popped = ctx[s].popped
        /\ \A r \in Session : ctx'[r].sendBuffer = ctx[r].sendBuffer
    BY <1>2, <2>1, <2>2, ReadIs DEF EpollInv
  <2>4. "parse" \in EpollPcs /\ {"cut"} \in SUBSET Flaws
    BY DEF EpollPcs, Flaws
  <2>5. flaw' \in [Session -> SUBSET Flaws] /\ FlawsStay
    <3>1. Flawed(s, {"cut"}) \/ flaw' = flaw
      BY <2>1, Zenon
    <3> QED BY <1>2, <2>4, <3>1, FlawedIs, SameIs DEF EpollInv
  <2>6. EpollReader'
    <3>1. reader' = E!Waiting \/ E!ReaderGoto("parse")
      BY <2>1, Zenon
    <3> QED BY <1>1, <2>4, <3>1, SameIs, EpollWaitingIs, EpollReaderGotoIs, EpollReaderGoes DEF EpollInv
  <2>7. Len(ctx'[s].sendBuffer) <= SendCap["epoll"]
    BY <1>2, <2>3 DEF EpollInv, Bounded
  <2> QED BY <1>1, <1>2, <1>4, <2>3, <2>5, <2>6, <2>7, EpollReads
<1> QED BY <1>3, <1>4 DEF E!DoRecv

\* OnReceive makes a job of the session's next request.
LEMMA EpollOnReceiveKeeps ==
    ASSUME EpollInv, E!OnReceive, server' = server
    PROVE  EpollInv'
<1> DEFINE s == socket[reader.i]
<1>1. /\ reader.pc = "parse"
      /\ UNCHANGED <<net, socket, Clients, reads, writes, finished, worker, flaw>>
  BY DEF E!OnReceive, E!ReaderAt
<1>2. s \in Session /\ ctx[s].slot # None
  BY <1>1, EpollSessionIs
<1>3. CASE E!GetReqMsg(s) /\ E!CreateJob(s) /\ E!PopMsg(s) /\ reader' = reader
  <2>1. ctx[s].stored >= 2 /\ ctx' = [ctx EXCEPT ![s].stored = @ - 2, ![s].popped = @ + 1]
    BY <1>3 DEF E!GetReqMsg, E!PopMsg
  <2>2. main' \in {"crashed", main}
        /\ m_JobQueue' = IF Next1(s) \in Bad THEN m_JobQueue ELSE Append(m_JobQueue, Next1(s))
    BY <1>3 DEF E!CreateJob, E!NextJob, Next1
  <2> HIDE DEF s
  <2>3. Stream' /\ \A r \in Session : ctx'[r].sendBuffer = ctx[r].sendBuffer
    BY <1>1, <1>2, <2>1, <2>2, RequestKeeps DEF EpollInv
  <2>4. EpollReader'
    BY <1>1, <1>3, SameIs, EpollReaderGoes DEF EpollInv, EpollReader
  <2> QED BY <2>3, <2>4 DEF EpollInv, Bounded
<1>4. CASE reader' = E!Waiting /\ UNCHANGED <<ctx, m_JobQueue, main>>
  <2>1. Calm
    BY <1>1, <1>4, SameIs DEF EpollInv, Calm, Stream, Shapes
  <2>2. Stream'
    BY <2>1, CalmKeeps DEF EpollInv
  <2>3. EpollReader'
    BY <1>1, <1>4, SameIs, EpollWaitingIs, EpollReaderGoes DEF EpollInv
  <2> QED BY <1>4, <2>2, <2>3 DEF EpollInv, Bounded
<1> QED BY <1>3, <1>4 DEF E!OnReceive

\* CloseUnwatch takes the slot out of those watched.
LEMMA EpollCloseUnwatchKeeps ==
    ASSUME EpollInv, E!CloseUnwatch, server' = server
    PROVE  EpollInv'
<1>1. /\ reader.pc \in {"event", "close"} /\ reader' = [reader EXCEPT !.pc = "close_socket"]
      /\ reads' = reads \ {reader.i} /\ writes' = writes \ {reader.i}
      /\ UNCHANGED <<net, socket, Clients, ctx, m_JobQueue, finished, worker, main, flaw>>
  BY DEF E!CloseUnwatch, E!ReaderAt, E!ReaderGoto
<1>2. Calm
  BY <1>1, SameIs DEF EpollInv, Calm, Stream, Shapes
<1>3. Stream'
  BY <1>2, CalmKeeps DEF EpollInv
<1>4. EpollReader'
  BY <1>1, Names DEF EpollInv, EpollReader, EpollPcs, Stream, Shapes
<1> QED BY <1>1, <1>3, <1>4 DEF EpollInv, Bounded

\* CloseSocket takes the socket from the slot; its context is released next.
LEMMA EpollCloseSocketKeeps ==
    ASSUME EpollInv, E!CloseSocket, server' = server
    PROVE  EpollInv'
<1>1. /\ reader.pc = "close_socket" /\ reader.i \in Slot /\ reader.i \notin reads
      /\ UNCHANGED <<net, Clients, ctx, reads, writes, m_JobQueue, finished, worker, main, flaw>>
  BY DEF E!CloseSocket, E!ReaderAt, EpollInv, EpollReader
<1>2. CASE Clients[reader.i] = None /\ reader' = E!Waiting /\ socket' = socket
  <2>1. Calm
    BY <1>1, <1>2, SameIs DEF EpollInv, Calm, Stream, Shapes
  <2>2. Stream'
    BY <2>1, CalmKeeps DEF EpollInv
  <2>3. EpollReader'
    BY <1>1, <1>2, SameIs, EpollWaitingIs, EpollReaderGoes DEF EpollInv
  <2> QED BY <1>1, <2>2, <2>3 DEF EpollInv, Bounded
<1>3. CASE reader' = [reader EXCEPT !.pc = "release"] /\ socket' = [socket EXCEPT ![reader.i] = None]
  <2>1. TablesLose /\ socket' \in [Slot -> Session \cup {None}]
    BY <1>1, <1>3 DEF TablesLose, EpollInv, Stream, Shapes
  <2>2. Calm
    BY <1>1, <2>1, SameIs DEF EpollInv, Calm, Stream, Shapes
  <2>3. Stream'
    BY <2>2, CalmKeeps DEF EpollInv
  <2>4. EpollReader'
    BY <1>1, <1>3, Names DEF EpollInv, EpollReader, EpollPcs, Stream, Shapes
  <2> QED BY <1>1, <2>3, <2>4 DEF EpollInv, Bounded
<1> QED BY <1>2, <1>3, Instances DEF E!CloseSocket, E!ReaderGoto

\* ReleaseContext takes the context from the slot.
LEMMA EpollReleaseContextKeeps ==
    ASSUME EpollInv, E!ReleaseContext, server' = server
    PROVE  EpollInv'
<1>1. /\ reader.pc = "release" /\ reader.i \in Slot /\ reader' = E!Waiting
      /\ Clients' = [Clients EXCEPT ![reader.i] = None]
      /\ UNCHANGED <<net, socket, ctx, reads, writes, m_JobQueue, finished, worker, main, flaw>>
  BY Instances DEF E!ReleaseContext, E!ReaderAt, EpollInv, EpollReader
<1>2. TablesLose /\ Clients' \in [Slot -> Session \cup {None}]
  BY <1>1 DEF TablesLose, EpollInv, Stream, Shapes
<1>3. Calm
  BY <1>1, <1>2, SameIs DEF EpollInv, Calm, Stream, Shapes
<1>4. Stream'
  BY <1>3, CalmKeeps DEF EpollInv
<1>5. EpollReader'
  BY <1>1, EpollWaitingIs DEF EpollInv, EpollReader, Stream, Shapes
<1> QED BY <1>1, <1>4, <1>5 DEF EpollInv, Bounded

\* The reader's facts do not depend on what the job threads and main change.
LEMMA EpollReaderStays ==
    ASSUME EpollInv, UNCHANGED <<socket, reads, reader>>,
           \A i \in Slot : Clients'[i] \in {Clients[i], None}
    PROVE  EpollReader'
BY DEF EpollInv, EpollReader

\* PopJob takes a job.
LEMMA EpollPopJobKeeps ==
    ASSUME EpollInv, NEW w \in Worker, E!PopJob(w), server' = server
    PROVE  EpollInv'
<1>1. /\ TakeJob(w, "look_up") /\ main = "running"
      /\ UNCHANGED <<net, socket, Clients, ctx, reads, writes, finished, reader, main, flaw>>
  BY DEF E!PopJob, E!JobsRun, E!TakeJob, TakeJob, E!Idle, Idle, E!NoWork, NoWork, E!None, None
<1>2. "look_up" \in Pcs \ Off
  BY DEF Pcs, Off
<1>3. Stream'
  BY <1>1, <1>2, TakeJobKeeps DEF EpollInv
<1> QED BY <1>1, <1>3, EpollReaderStays DEF EpollInv, Bounded

\* GetContext looks up whoever has the slot of the job's session by now.
LEMMA EpollGetContextKeeps ==
    ASSUME EpollInv, NEW w \in Worker, E!GetContext(w), server' = server
    PROVE  EpollInv'
<1> DEFINE s == Clients[JobSlot(w)]
           pc == IF s = None THEN "requeue" ELSE "send"
<1>1. /\ worker[w].pc = "look_up" /\ worker' = [worker EXCEPT ![w].pc = pc, ![w].ctx = s]
      /\ UNCHANGED <<net, socket, Clients, ctx, reads, writes, m_JobQueue, finished, reader, main, flaw>>
  BY DEF E!GetContext, E!JobSlot, JobSlot, E!None, None
<1>2. worker[w].pc \notin Off /\ pc \in Pcs \ Off
  BY <1>1 DEF Off, Pcs
<1>3. s \in Session \cup {None}
  BY <1>2, JobSlotIs DEF EpollInv
<1> HIDE DEF s, pc
<1>4. Stream'
  BY <1>1, <1>2, <1>3, LookUpKeeps DEF EpollInv
<1> QED BY <1>1, <1>4, EpollReaderStays DEF EpollInv, Bounded

\* SendMsg stores an answer with the newest session of the slot, and sends.
LEMMA EpollSendMsgKeeps ==
    ASSUME EpollInv, NEW w \in Worker, E!SendMsg(w), server' = server
    PROVE  EpollInv'
<1> DEFINE i == JobSlot(w)
           s == Clients[i]
           job == worker[w].job
<1>1. /\ worker[w].pc = "send" /\ worker[w].pc \notin Off
      /\ UNCHANGED <<socket, Clients, reads, writes, m_JobQueue, reader, main>>
  BY DEF E!SendMsg, Off
<1>2. EpollReader'
  BY <1>1, SameIs, EpollReaderStays DEF EpollInv, Stream, Shapes
<1>3. CASE s # None /\ E!SendTo(s, w)
  <2> DEFINE old == ctx[s].sendBuffer
             full == ~Fits(old, job)
             buf == IF full THEN old ELSE old \o Answer(job)
             n == IF SendFails(s, buf) THEN 0 ELSE Sent(s, buf)
             names == IF full THEN {"overflow"} ELSE IF n = 0 THEN {"sent_again"} ELSE {}
  <2>1. /\ ctx' = [ctx EXCEPT ![s].sendBuffer = Drop(buf, n)]
        /\ GiveKernel(s, buf, n)
        /\ Flawed(s, names)
        /\ IF n = Len(buf) THEN JobDone(w)
           ELSE WorkerGoto(w, "send", IF n = 0 THEN "requeue" ELSE "watch") /\ finished' = finished
    BY <1>3, Zenon DEF E!SendTo, E!Fits, Fits, E!Answer, Answer, E!Size, Size, E!SendFails, SendFails, E!Sent,
                Sent, E!Drop, Drop, E!GiveKernel, GiveKernel, E!JobDone, JobDone, E!WorkerGoto,
                WorkerGoto, E!Flawed, Flawed, E!Idle, Idle, E!NoWork, NoWork, E!None, None
  <2>2. s \in Session /\ Newest(i, s) /\ ctx[s].slot # None
    <3>1. i \in Slot /\ s \in Session \cup {None}
      BY <1>1, JobSlotIs DEF EpollInv
    <3>2. s \in Session /\ Newest(i, s)
      BY <1>3, <3>1 DEF EpollInv, Stream, Tables
    <3> QED BY <3>1, <3>2, Names DEF Newest
  <2>3. server \in Server /\ SendCap["epoll"] \in Nat
    BY CapIs DEF EpollInv, Server
  <2>4. buf \in Seq(Of(s)) /\ Len(buf) <= SendCap["epoll"]
    <3>1. old \in Seq(Of(s)) /\ Len(old) <= SendCap["epoll"]
      BY <2>2 DEF EpollInv, Stream, Buffers, Bounded
    <3>2. /\ old \o Answer(job) \in Seq(Of(s))
          /\ ~full => Len(old \o Answer(job)) <= SendCap["epoll"]
      BY <1>1, <2>2, <2>3, StoredAnswerIs DEF EpollInv
    <3> QED BY <3>1, <3>2
  <2>5. buf \in Seq(Job)
    <3>1. Of(s) \subseteq Job
      BY DEF Of, Known
    <3> QED BY <2>4, <3>1, SeqMonotonic
  <2> HIDE DEF buf, names, full, old
  <2>6. n \in Nat /\ n <= Len(buf) /\ n <= net[s].room
    <3>1. Sent(s, buf) \in Nat /\ Sent(s, buf) <= Len(buf) /\ Sent(s, buf) <= net[s].room
      BY <2>2, <2>5, SentIs DEF EpollInv, Stream
    <3>2. net[s].room \in 0 .. Room
      BY <2>2 DEF EpollInv, Stream, Shapes, Net
    <3>3. Len(buf) \in Nat
      BY <2>5, LenProperties
    <3> HIDE DEF s
    <3> QED BY <3>1, <3>2, <3>3, Names
  <2>7. names \in SUBSET Flaws
    BY DEF names, Flaws
  <2> HIDE DEF n
  <2>8. Only(s) /\ ctx'[s].popped = ctx[s].popped /\ Len(ctx'[s].sendBuffer) = Len(buf) - n
    BY <2>1, <2>2, <2>4, <2>6, SendIs DEF EpollInv
  <2>9. flaw' \in [Session -> SUBSET Flaws] /\ FlawsStay
    BY <2>1, <2>2, <2>7, FlawedIs DEF EpollInv
  <2>10. DoneOrOn(w)
    <3>1. {"requeue", "watch"} \subseteq Pcs \ Off
      BY DEF Pcs, Off
    <3> QED BY <2>1, <3>1, GotoIsOn DEF EpollInv, DoneOrOn
  <2>11. writes' \subseteq Slot
    BY <1>1 DEF EpollInv, Stream, Shapes
  <2>12. Stream'
    BY <1>1, <2>2, <2>8, <2>9, <2>10, <2>11, WorkerSendsKeeps DEF EpollInv
  <2>13. Len(ctx'[s].sendBuffer) <= SendCap["epoll"]
    BY <2>3, <2>4, <2>5, <2>6, <2>8, LenProperties
  <2>14. Bounded(SendCap["epoll"])'
    BY <2>8, <2>13, SMTT(30) DEF EpollInv, Bounded, Only
  <2> QED BY <1>2, <2>12, <2>14 DEF EpollInv
<1>4. CASE /\ WorkerGoto(w, "send", "requeue")
           /\ UNCHANGED <<net, ctx, finished, flaw>>
  <2>1. "requeue" \in Pcs /\ "requeue" \notin Off /\ "send" \notin Off
    BY DEF Pcs, Off
  <2>2. Stream'
    BY <1>1, <1>4, <2>1, SameIs, GotoKeeps DEF EpollInv
  <2> QED BY <1>2, <1>4, <2>2 DEF EpollInv, Bounded
<1> QED BY <1>3, <1>4, Zenon DEF E!SendMsg, E!JobSlot, JobSlot, E!None, None, E!WorkerGoto, WorkerGoto

\* WatchWrites has the slot watched, or queues the job again.
LEMMA EpollWatchWritesKeeps ==
    ASSUME EpollInv, NEW w \in Worker, E!WatchWrites(w), server' = server
    PROVE  EpollInv'
<1>1. /\ worker[w].pc = "watch" /\ worker[w].pc \notin Off
      /\ UNCHANGED <<net, socket, Clients, ctx, reads, m_JobQueue, reader, main>>
  BY DEF E!WatchWrites, Off
<1>2. CASE writes' = writes \cup {JobSlot(w)} /\ JobDone(w) /\ flaw' = flaw
  <2>1. writes' \subseteq Slot
    BY <1>1, <1>2, JobSlotIs DEF EpollInv, Stream, Shapes
  <2>2. Stream'
    BY <1>1, <1>2, <2>1, JobDoneKeeps DEF EpollInv
  <2> QED BY <1>1, <2>2, EpollReaderStays DEF EpollInv, Bounded
<1>3. CASE /\ WorkerGoto(w, "watch", "requeue")
           /\ Flawed(worker[w].job[1], {"sent_again"})
           /\ writes' = writes /\ finished' = finished
  <2>1. "requeue" \in Pcs /\ "requeue" \notin Off /\ "watch" \notin Off /\ {"sent_again"} \in SUBSET Flaws
    BY DEF Pcs, Off, Flaws
  <2>2. flaw' \in [Session -> SUBSET Flaws] /\ FlawsStay
    BY <1>1, <1>3, <2>1, JobSlotIs, FlawedIs DEF EpollInv
  <2>3. Stream'
    BY <1>1, <1>3, <2>1, <2>2, GotoKeeps DEF EpollInv
  <2> QED BY <1>1, <2>3, EpollReaderStays DEF EpollInv, Bounded
<1> QED BY <1>2, <1>3, Zenon DEF E!WatchWrites, E!JobSlot, JobSlot, E!WorkerGoto, WorkerGoto, E!Flawed,
              Flawed, E!JobDone, JobDone, E!Idle, Idle, E!NoWork, NoWork, E!None, None

\* Requeue queues the job again.
LEMMA EpollRequeueKeeps ==
    ASSUME EpollInv, NEW w \in Worker, E!Requeue(w), server' = server
    PROVE  EpollInv'
<1>1. /\ GiveUpJob(w) /\ m_JobQueue' = Append(m_JobQueue, worker[w].job)
      /\ UNCHANGED <<net, socket, Clients, ctx, reads, writes, finished, reader, main, flaw>>
  BY DEF E!Requeue, E!GiveUpJob, GiveUpJob, E!Idle, Idle, E!NoWork, NoWork, E!None, None
<1>2. Stream'
  BY <1>1, RequeueKeeps DEF EpollInv
<1> QED BY <1>1, <1>2, EpollReaderStays DEF EpollInv, Bounded

\* PushesCollide loses one of two jobs.
LEMMA EpollPushesCollideKeeps ==
    ASSUME EpollInv, NEW w \in Worker, E!PushesCollide(w), server' = server
    PROVE  EpollInv'
<1> DEFINE s == socket[reader.i]
<1>1. /\ GiveUpJob(w) /\ reader.pc = "parse" /\ ctx[s].stored >= 2 /\ Next1(s) \notin Bad
      /\ LosesOne(Next1(s), worker[w].job)
      /\ ctx' = [ctx EXCEPT ![s].stored = @ - 2, ![s].popped = @ + 1]
      /\ UNCHANGED <<net, socket, Clients, reads, writes, finished, reader, main>>
  BY DEF E!PushesCollide, E!GiveUpJob, GiveUpJob, E!Idle, Idle, E!NoWork, NoWork, E!None, None, E!ReaderAt,
         E!GetReqMsg, E!NextJob, Next1, LosesOne, E!Flawed, Flawed, E!PopMsg
<1>2. s \in Session /\ ctx[s].slot # None
  BY <1>1, EpollSessionIs
<1> HIDE DEF s
<1>3. Stream' /\ \A r \in Session : ctx'[r].sendBuffer = ctx[r].sendBuffer
  BY <1>1, <1>2, CollisionKeeps DEF EpollInv
<1>4. EpollReader'
  BY <1>1, SameIs, EpollReaderStays DEF EpollInv, Stream, Shapes
<1> QED BY <1>3, <1>4 DEF EpollInv, Bounded

\* EndJobThread deletes what is queued.
LEMMA EpollEndJobThreadKeeps ==
    ASSUME EpollInv, NEW w \in Worker, E!EndJobThread(w), server' = server
    PROVE  EpollInv'
<1>1. /\ WorkerGoto(w, "idle", "exited")
      /\ finished' = finished \cup {m_JobQueue[k] : k \in DOMAIN m_JobQueue}
      /\ m_JobQueue' = <<>>
      /\ UNCHANGED <<net, socket, Clients, ctx, reads, writes, reader, main, flaw>>
  BY DEF E!EndJobThread, E!WorkerGoto, WorkerGoto
<1>2. Stream'
  BY <1>1, JobsDeletedIs DEF EpollInv
<1> QED BY <1>1, <1>2, EpollReaderStays DEF EpollInv, Bounded

\* The thread of main.
LEMMA EpollMainKeeps ==
    ASSUME EpollInv, E!MainThread, server' = server
    PROVE  EpollInv'
<1>1. /\ UNCHANGED <<net, socket, ctx, reads, writes, m_JobQueue, finished, reader, flaw>>
      /\ Clients' = Clients \/ Clients' = [i \in Slot |-> None]
  BY Instances DEF E!MainThread, E!Start, E!End, E!DestroyJobThread, E!ReleaseAllContexts, E!DestoryThreads
<1>2. TablesLose /\ Clients' \in [Slot -> Session \cup {None}] /\ socket' \in [Slot -> Session \cup {None}]
  BY <1>1 DEF TablesLose, EpollInv, Stream, Shapes
<1>3. EpollReader'
  BY <1>1, <1>2, EpollReaderStays DEF TablesLose
<1>4. Stream'
  <2>1. CASE E!Start
    <3>1. main = "constructed" /\ main' = "running" /\ worker' = [w \in Worker |-> Idle] /\ Clients' = Clients
      BY <2>1 DEF E!Start, E!MainGoto, E!CreateJobThread, E!Idle, Idle, E!NoWork, NoWork, E!None, None
    <3> QED BY <1>1, <3>1, StartKeeps DEF EpollInv
  <2>2. CASE E!End \/ E!DestroyJobThread \/ E!ReleaseAllContexts \/ E!DestoryThreads
    <3>1. worker' = worker /\ main' # "constructed"
      BY <2>2 DEF E!End, E!DestroyJobThread, E!ReleaseAllContexts, E!DestoryThreads, E!MainGoto
    <3> QED BY <1>1, <1>2, <3>1, MainKeeps DEF EpollInv
  <2> QED BY <2>1, <2>2 DEF E!MainThread
<1> QED BY <1>1, <1>3, <1>4 DEF EpollInv, Bounded

\* The clients, and the kernel.
LEMMA EpollClientKeeps ==
    ASSUME EpollInv, NEW s \in Session, E!ClientStep(s) \/ E!DrainStep(s), server' = server
    PROVE  EpollInv'
<1>1. Leaves(s) /\ UNCHANGED ServerVars
  BY DEF E!ClientStep, E!DrainStep, E!Leave, Leave, E!Drain, Drain, Leaves, E!ServerVars, ServerVars
<1>2. Stream'
  BY <1>1, ClientStepKeeps DEF EpollInv
<1>3. EpollReader'
  BY <1>1, SameIs, EpollReaderStays DEF EpollInv, ServerVars, Stream, Shapes
<1> QED BY <1>1, <1>2, <1>3 DEF EpollInv, Bounded, ServerVars

\* The Epoll server's invariant holds at the start,
LEMMA EpollInvInit ==
    ASSUME E!Init
    PROVE  EpollInv
<1>1. StreamInit /\ server = "epoll" /\ reader = [pc |-> "wait", i |-> None, ev |-> {}] /\ main = "constructed"
  BY Instances DEF E!Init, E!StreamInit, StreamInit, E!NewNet, NewNet, E!NewContext, NewContext, E!NoWork, NoWork,
         E!None, None, E!Waiting, E!At
<1>2. /\ Stream /\ \A s \in Session : ctx[s].sendBuffer = NoJob
      /\ reads = {} /\ \A i \in Slot : socket[i] = None /\ Clients[i] = None
  BY <1>1, InitKeeps
<1>3. Bounded(SendCap["epoll"])
  <2>1. Len(NoJob) = 0
    BY DEF NoJob
  <2>2. SendCap["epoll"] \in Nat
    BY CapIs DEF Server
  <2> QED BY <1>2, <2>1, <2>2 DEF Bounded
<1>4. EpollReader
  BY <1>1, <1>2 DEF EpollReader, EpollPcs
<1> QED BY <1>1, <1>2, <1>3, <1>4 DEF EpollInv

\* every step keeps it,
LEMMA EpollInvNext ==
    ASSUME EpollInv, [E!Next]_vars
    PROVE  EpollInv'
<1>1. CASE UNCHANGED vars
  BY <1>1 DEF vars, EpollInv, Stream, Shapes, Fresh, Tables, Newest, JobsKnown, Known, Working, Buffers, Of,
              OnePlace, OneJob, Queued, Held, In, Taken, Bounded, EpollReader
<1>2. CASE E!Next
  <2>1. server' = server
    BY <1>2 DEF E!Next, E!Runs, E!RunsAs
  <2>2. CASE E!ReadThread
    BY <2>1, <2>2, EpollWaitKeeps, EpollResumeSendKeeps, EpollUnwatchKeeps, EpollDoRecvKeeps, EpollOnReceiveKeeps,
       EpollCloseUnwatchKeeps, EpollCloseSocketKeeps, EpollReleaseContextKeeps, EpollDoAcceptKeeps, Instances
       DEF E!ReadThread
  <2>3. CASE E!MainThread
    BY <2>1, <2>3, EpollMainKeeps
  <2>4. CASE \E w \in Worker : E!JobThread(w)
    BY <2>1, <2>4, EpollPopJobKeeps, EpollGetContextKeeps, EpollSendMsgKeeps, EpollWatchWritesKeeps,
       EpollRequeueKeeps, EpollPushesCollideKeeps, EpollEndJobThreadKeeps DEF E!JobThread
  <2>5. CASE \E s \in E!Session : E!ClientStep(s) \/ E!DrainStep(s)
    BY <2>1, <2>5, EpollClientKeeps, Instances
  <2> QED BY <1>2, <2>2, <2>3, <2>4, <2>5 DEF E!Next
<1> QED BY <1>1, <1>2

\* and the properties follow from it.
LEMMA EpollFollows ==
    ASSUME EpollInv
    PROVE  JobInOnePlace /\ AnswersStayInSlot
<1>1. server \in Server /\ Bounded(SendCap[server]) /\ \A i \in reads : socket[i] # None
  BY DEF EpollInv, Server, EpollReader
<1> QED BY <1>1, JobInOnePlaceFollows, AnswersStayInSlotFollows DEF EpollInv

-----------------------------------------------------------------------------
(* The select server.                                                       *)

ReadPcs == {"select", "on_receive", "exited"}
WritePcs == {"select", "resume", "pop", "clear", "exited"}
SelectReads == [pc : ReadPcs, i : Slot \cup {None}, ctx : Session \cup {None}, n : Nat]
SelectWrites == [pc : WritePcs, i : Slot \cup {None}, ctx : Session \cup {None}, n : Nat]
SelectReaders == [read : SelectReads, write : SelectWrites]

\* The read thread goes somewhere,
LEMMA SelectReadGotoIs ==
    ASSUME SelectInv, NEW pc \in ReadPcs, NEW i \in Slot \cup {None}, S!ReaderGoto(pc, i)
    PROVE  /\ reader' \in SelectReaders
           /\ reader'.read.pc = pc /\ reader'.read.i = i /\ reader'.write = reader.write
<1> DEFINE t == S!Thread(pc, i, None, 0)
<1>1. t \in SelectReads /\ t.pc = pc /\ t.i = i
  BY DEF S!Thread, SelectReads
<1>2. reader' = [reader EXCEPT !.read = t]
  BY Instances DEF S!ReaderGoto
<1> HIDE DEF t
<1>3. reader \in SelectReaders
  BY DEF SelectInv, SelectReader, SelectReaders, SelectReads, SelectWrites, ReadPcs, WritePcs
<1> QED BY <1>1, <1>2, <1>3 DEF SelectReaders

\* and so does the write thread.
LEMMA SelectWriteGotoIs ==
    ASSUME SelectInv, NEW pc \in WritePcs, NEW i \in Slot \cup {None}, NEW s \in Session \cup {None},
           NEW n \in Nat, S!WriterGoto(pc, i, s, n)
    PROVE  /\ reader' \in SelectReaders
           /\ reader'.write = S!Thread(pc, i, s, n)
           /\ reader'.write.pc = pc /\ reader'.write.i = i /\ reader'.read = reader.read
<1> DEFINE t == S!Thread(pc, i, s, n)
<1>1. t \in SelectWrites /\ t.pc = pc /\ t.i = i
  BY DEF S!Thread, SelectWrites
<1>2. reader' = [reader EXCEPT !.write = t]
  BY DEF S!WriterGoto
<1> HIDE DEF t
<1>3. reader \in SelectReaders
  BY DEF SelectInv, SelectReader, SelectReaders, SelectReads, SelectWrites, ReadPcs, WritePcs
<1>4. /\ reader' \in SelectReaders /\ reader'.write = t
      /\ reader'.write.pc = pc /\ reader'.write.i = i /\ reader'.read = reader.read
  BY <1>1, <1>2, <1>3 DEF SelectReaders
<1> QED BY <1>4 DEF t

\* To select again is to go somewhere.
LEMMA SelectSelectingIs ==
    ASSUME reader' = [reader EXCEPT !.write = S!Selecting]
    PROVE  S!WriterGoto("select", None, None, 0)
BY Instances DEF S!WriterGoto, S!Selecting

\* The write thread goes on, and the sockets stay.
LEMMA SelectWriteGoes ==
    ASSUME SelectInv, UNCHANGED <<socket, Clients, reads, main>>,
           NEW pc \in WritePcs, NEW i \in Slot \cup {None}, NEW s \in Session \cup {None}, NEW n \in Nat,
           S!WriterGoto(pc, i, s, n), pc \in {"resume", "pop", "clear"} => i \in Slot
    PROVE  SelectReader'
<1>1. /\ reader' \in SelectReaders
      /\ reader'.write.pc = pc /\ reader'.write.i = i /\ reader'.read = reader.read
  BY SelectWriteGotoIs
<1> QED BY <1>1 DEF SelectInv, SelectReader, SelectReaders, SelectReads, SelectWrites, ReadPcs, WritePcs

\* The job threads and main leave the sockets alone.
LEMMA SelectReaderStays ==
    ASSUME SelectInv, UNCHANGED <<socket, Clients, reads, reader, main>>
    PROVE  SelectReader'
BY DEF SelectInv, SelectReader

\* The session of a socket has its slot.
LEMMA SelectSessionIs ==
    ASSUME SelectInv, NEW i \in Slot, socket[i] # None
    PROVE  socket[i] \in Session /\ ctx[socket[i]].slot = i /\ ctx[socket[i]].slot # None
BY Names DEF SelectInv, Stream, Shapes, Tables, Newest

\* DoAccept takes a slot that has no socket, and so no context.
LEMMA SelectDoAcceptKeeps ==
    ASSUME SelectInv, NEW s \in Session, S!DoAccept(s), server' = server
    PROVE  SelectInv'
<1>1. PICK i \in Slot : /\ socket[i] = None /\ socket' = [socket EXCEPT ![i] = s]
                        /\ reads' = reads \cup {i} /\ S!CreateContext(i, s)
  BY Instances DEF S!DoAccept
<1> DEFINE c == [NewContext EXCEPT !.slot = i]
<1>2. ctx' = [ctx EXCEPT ![s] = c]
  BY <1>1 DEF S!CreateContext, S!NewContext, NewContext, S!None, None
<1>3. /\ c \in Context /\ c.slot = i /\ c.popped = 0 /\ Len(c.sendBuffer) = 0
      /\ \A A : c.sendBuffer \in Seq(A)
  BY NewContextIs
<1> HIDE DEF c
<1>4. Clients[i] = None
  BY <1>1 DEF SelectInv, SelectReader
<1>5. Clients' = [Clients EXCEPT ![i] = s]
  BY <1>1, <1>4, Instances DEF S!CreateContext
<1>6. /\ net[s].peer = "connecting" /\ \A r \in 1 .. s - 1 : net[r].peer # "connecting"
      /\ net' = [net EXCEPT ![s].peer = "open"]
      /\ UNCHANGED <<writes, m_JobQueue, finished, reader, worker, main, flaw>>
  BY DEF S!DoAccept, S!Pending
<1>7. Stream' /\ \A r \in Session : ctx'[r] = IF r = s THEN c ELSE ctx[r]
  BY <1>1, <1>2, <1>3, <1>5, <1>6, AcceptKeeps, SameIs DEF SelectInv, Stream, Shapes
<1>8. Bounded(SendCap["select"])'
  BY <1>3, <1>7, CapIs DEF SelectInv, Bounded, Server
<1>9. SelectReader'
  BY <1>1, <1>4, <1>5, <1>6, Names DEF SelectInv, SelectReader, Stream, Shapes
<1> QED BY <1>7, <1>8, <1>9 DEF SelectInv

\* DoDisconnect takes socket and context from the slot.
LEMMA SelectDoDisconnectKeeps ==
    ASSUME SelectInv, S!DoDisconnect, server' = server
    PROVE  SelectInv'
<1>1. PICK i \in reads : /\ Clients' = [Clients EXCEPT ![i] = None] /\ socket' = [socket EXCEPT ![i] = None]
                         /\ reads' = reads \ {i}
  BY Instances DEF S!DoDisconnect, S!ReleaseContext
<1>2. /\ reader.read.pc = "select" /\ i \in Slot
      /\ UNCHANGED <<net, ctx, writes, m_JobQueue, finished, reader, worker, main, flaw>>
  BY DEF S!DoDisconnect, S!ReaderAt, SelectInv, Stream, Shapes
<1>3. /\ TablesLose /\ socket' \in [Slot -> Session \cup {None}] /\ Clients' \in [Slot -> Session \cup {None}]
      /\ reads' \subseteq Slot /\ writes' \subseteq Slot
  BY <1>1, <1>2 DEF TablesLose, SelectInv, Stream, Shapes
<1>4. Calm
  BY <1>2, <1>3, SameIs DEF SelectInv, Calm
<1>5. Stream'
  BY <1>4, CalmKeeps DEF SelectInv
<1>6. SelectReader'
  BY <1>1, <1>2 DEF SelectInv, SelectReader, Stream, Shapes
<1> QED BY <1>2, <1>5, <1>6 DEF SelectInv, Bounded

\* DoRecv reads a chunk of the session.
LEMMA SelectDoRecvKeeps ==
    ASSUME SelectInv, S!DoRecv, server' = server
    PROVE  SelectInv'
<1>1. PICK i \in reads : \E n \in 1 .. RecvCap :
         S!Reads(socket[i], n) /\ S!StorePartialMsg(socket[i], n) /\ S!ReaderGoto("on_receive", i)
  BY DEF S!DoRecv
<1> DEFINE s == socket[i]
<1>2. PICK n \in 1 .. RecvCap : S!Reads(s, n) /\ S!StorePartialMsg(s, n) /\ S!ReaderGoto("on_receive", i)
  BY <1>1
<1>3. /\ main \in {"constructed", "running", "join_jobs"}
      /\ UNCHANGED <<socket, Clients, reads, writes, m_JobQueue, finished, worker, main>>
  BY DEF S!DoRecv, S!ThreadsRun
<1>4. i \in Slot /\ socket[i] # None /\ s \in Session /\ ctx[s].slot # None
  BY <1>3, SelectSessionIs DEF SelectInv, SelectReader, Stream, Shapes
<1>5. /\ Reads(s, n) /\ Stores(s, n)
      /\ flaw' = flaw \/ Flawed(s, {"cut"})
  BY <1>2, Zenon DEF S!Reads, Reads, S!StorePartialMsg, Stores, S!Flawed, Flawed
<1> HIDE DEF s
<1>6. /\ Only(s) /\ ctx'[s].popped = ctx[s].popped
      /\ \A r \in Session : ctx'[r].sendBuffer = ctx[r].sendBuffer
  BY <1>4, <1>5, ReadIs DEF SelectInv
<1>7. flaw' \in [Session -> SUBSET Flaws] /\ FlawsStay
  <2>1. {"cut"} \in SUBSET Flaws
    BY DEF Flaws
  <2> QED BY <1>4, <1>5, <2>1, FlawedIs, SameIs DEF SelectInv
<1>8. Stream'
  BY <1>3, <1>4, <1>6, <1>7, OnlyKeeps DEF SelectInv, Stream, Shapes
<1>9. SelectReader'
  <2>1. "on_receive" \in ReadPcs
    BY DEF ReadPcs
  <2>2. reader' \in SelectReaders /\ reader'.read.pc = "on_receive" /\ reader'.read.i = i /\ reader'.write = reader.write
    BY <1>2, <1>4, <2>1, SelectReadGotoIs
  <2> QED BY <1>3, <1>4, <2>2 DEF SelectInv, SelectReader, SelectReaders, SelectReads, SelectWrites,
                ReadPcs, WritePcs
<1> QED BY <1>6, <1>8, <1>9 DEF SelectInv, Bounded

\* RecvFails ends the process.
LEMMA SelectRecvFailsKeeps ==
    ASSUME SelectInv, S!RecvFails, server' = server
    PROVE  SelectInv'
<1>1. /\ main \in {"constructed", "running", "join_jobs"} /\ main' = "crashed"
      /\ UNCHANGED <<net, socket, Clients, ctx, reads, writes, m_JobQueue, finished, reader, worker, flaw>>
  BY DEF S!RecvFails, S!ThreadsRun
<1>2. Stream'
  BY <1>1, SameIs, MainKeeps DEF SelectInv, Stream, Shapes
<1>3. SelectReader'
  BY <1>1 DEF SelectInv, SelectReader
<1> QED BY <1>1, <1>2, <1>3 DEF SelectInv, Bounded

\* OnReceive makes a job of the session's next request.
LEMMA SelectOnReceiveKeeps ==
    ASSUME SelectInv, S!OnReceive, server' = server
    PROVE  SelectInv'
<1> DEFINE s == socket[reader.read.i]
<1>1. /\ reader.read.pc = "on_receive"
      /\ UNCHANGED <<net, socket, Clients, reads, writes, finished, worker, flaw>>
  BY DEF S!OnReceive, S!ReaderAt
<1>2. s \in Session /\ ctx[s].slot # None
  BY <1>1, SelectSessionIs DEF SelectInv, SelectReader
<1>3. CASE S!GetReqMsg(s) /\ S!NextJob(s) \notin Bad /\ S!CreateJob(s) /\ S!PopMsg(s) /\ reader' = reader
  <2>1. /\ ctx[s].stored >= 2 /\ ctx' = [ctx EXCEPT ![s].stored = @ - 2, ![s].popped = @ + 1]
        /\ m_JobQueue' = IF Next1(s) \in Bad THEN m_JobQueue ELSE Append(m_JobQueue, Next1(s))
        /\ main' = IF main = "constructed" THEN "crashed" ELSE main
    BY <1>3 DEF S!GetReqMsg, S!PopMsg, S!CreateJob, S!NextJob, Next1
  <2> HIDE DEF s
  <2>2. Stream' /\ \A r \in Session : ctx'[r].sendBuffer = ctx[r].sendBuffer
    BY <1>1, <1>2, <2>1, RequestKeeps DEF SelectInv
  <2>3. SelectReader'
    BY <1>1, <1>3, <2>1 DEF SelectInv, SelectReader
  <2> QED BY <2>2, <2>3 DEF SelectInv, Bounded
<1>4. CASE S!ReaderGoto("select", None) /\ UNCHANGED <<ctx, m_JobQueue, main>>
  <2>1. Stream'
    <3>1. Calm
      BY <1>1, <1>4, SameIs DEF SelectInv, Calm, Stream, Shapes
    <3> QED BY <3>1, CalmKeeps DEF SelectInv
  <2>2. SelectReader'
    <3>1. "select" \in ReadPcs
      BY DEF ReadPcs
    <3>2. reader' \in SelectReaders /\ reader'.read.pc = "select" /\ reader'.write = reader.write
      BY <1>4, <3>1, SelectReadGotoIs
    <3>3. main \notin {"release", "ended"}
      BY <1>1 DEF SelectInv, SelectReader
    <3> QED BY <1>1, <1>4, <3>2, <3>3 DEF SelectInv, SelectReader, SelectReaders, SelectReads, SelectWrites,
                  ReadPcs, WritePcs
  <2> QED BY <1>4, <2>1, <2>2 DEF SelectInv, Bounded
<1> QED BY <1>3, <1>4, Instances DEF S!OnReceive

\* EndReadThread ends the thread that reads.
LEMMA SelectEndReadThreadKeeps ==
    ASSUME SelectInv, S!EndReadThread, server' = server
    PROVE  SelectInv'
<1>1. /\ S!ReaderGoto("exited", None)
      /\ UNCHANGED <<net, socket, Clients, ctx, reads, writes, m_JobQueue, finished, worker, main, flaw>>
  BY Instances DEF S!EndReadThread
<1>2. Stream'
  <2>1. Calm
    BY <1>1, SameIs DEF SelectInv, Calm, Stream, Shapes
  <2> QED BY <2>1, CalmKeeps DEF SelectInv
<1>3. SelectReader'
  <2>1. "exited" \in ReadPcs
    BY DEF ReadPcs
  <2>2. reader' \in SelectReaders /\ reader'.read.pc = "exited" /\ reader'.write = reader.write
    BY <1>1, <2>1, SelectReadGotoIs
  <2> QED BY <1>1, <2>2 DEF SelectInv, SelectReader, SelectReaders, SelectReads, SelectWrites,
                ReadPcs, WritePcs
<1> QED BY <1>1, <1>2, <1>3 DEF SelectInv, Bounded

\* SelectWrites picks a slot that is watched.
LEMMA SelectSelectWritesKeeps ==
    ASSUME SelectInv, S!SelectWrites, server' = server
    PROVE  SelectInv'
<1>1. PICK i \in writes : S!WriterGoto("resume", i, None, 0)
  BY Instances DEF S!SelectWrites
<1>2. UNCHANGED <<net, socket, Clients, ctx, reads, writes, m_JobQueue, finished, worker, main, flaw>> /\ i \in Slot
  BY DEF S!SelectWrites, SelectInv, Stream, Shapes
<1>3. Stream'
  <2>1. Calm
    BY <1>2, SameIs DEF SelectInv, Calm, Stream, Shapes
  <2> QED BY <2>1, CalmKeeps DEF SelectInv
<1>4. SelectReader'
  <2>1. "resume" \in WritePcs
    BY DEF WritePcs
  <2> QED BY <1>1, <1>2, <2>1, SelectWriteGoes
<1> QED BY <1>2, <1>3, <1>4 DEF SelectInv, Bounded

\* SelectFails ends the thread that writes.
LEMMA SelectSelectFailsKeeps ==
    ASSUME SelectInv, S!SelectFails, server' = server
    PROVE  SelectInv'
<1>1. /\ S!WriterGoto("exited", None, None, 0)
      /\ flaw' = flaw \/ flaw' = [s \in Session |-> flaw[s] \cup {"unwatched"}]
      /\ UNCHANGED <<net, socket, Clients, ctx, reads, writes, m_JobQueue, finished, worker, main>>
  BY Instances DEF S!SelectFails
<1>2. flaw' \in [Session -> SUBSET Flaws] /\ FlawsStay
  <2>1. "unwatched" \in Flaws
    BY DEF Flaws
  <2> QED BY <1>1, <2>1 DEF SelectInv, Stream, Shapes, FlawsStay
<1>3. Stream'
  <2>1. Calm
    BY <1>1, <1>2, SameIs DEF SelectInv, Calm, Stream, Shapes
  <2> QED BY <2>1, CalmKeeps DEF SelectInv
<1>4. SelectReader'
  <2>1. "exited" \in WritePcs
    BY DEF WritePcs
  <2> QED BY <1>1, <2>1, SelectWriteGoes
<1> QED BY <1>1, <1>3, <1>4 DEF SelectInv, Bounded

\* ResumeSend gives the kernel what is stored, and will drop that.
LEMMA SelectResumeSendKeeps ==
    ASSUME SelectInv, S!ResumeSend, server' = server
    PROVE  SelectInv'
<1> DEFINE i == reader.write.i
           s == Clients[i]
           buf == ctx[s].sendBuffer
<1>1. /\ reader.write.pc = "resume" /\ i \in Slot
      /\ UNCHANGED <<socket, Clients, ctx, reads, writes, m_JobQueue, finished, worker, main>>
  BY DEF S!ResumeSend, S!Writer, SelectInv, SelectReader
<1>2. CASE reader' = [reader EXCEPT !.write = S!Selecting] /\ UNCHANGED <<net, flaw>>
  <2>1. Stream'
    <3>1. Calm
      BY <1>1, <1>2, SameIs DEF SelectInv, Calm, Stream, Shapes
    <3> QED BY <3>1, CalmKeeps DEF SelectInv
  <2>2. SelectReader'
    <3>1. "select" \in WritePcs /\ S!WriterGoto("select", None, None, 0)
      BY <1>2, SelectSelectingIs DEF WritePcs
    <3> QED BY <1>1, <3>1, SelectWriteGoes
  <2> QED BY <1>1, <2>1, <2>2 DEF SelectInv, Bounded
<1>3. CASE /\ s # None
           /\ GiveKernel(s, buf, Sent(s, buf))
           /\ S!WriterGoto("clear", i, None, 0) \/ S!WriterGoto("pop", i, s, Sent(s, buf))
           /\ \E names \in {{"both_send"}, {}} : Flawed(s, names)
  <2>1. s \in Session /\ ctx[s].slot # None
    <3>1. s \in Session /\ Newest(i, s)
      BY <1>1, <1>3 DEF SelectInv, Stream, Shapes, Tables
    <3> QED BY <1>1, <3>1, Names DEF Newest
  <2> DEFINE n == Sent(s, buf)
  <2>2. buf \in Seq(Of(s)) /\ n \in Nat /\ n <= Len(buf) /\ n <= net[s].room
    BY <2>1, SentBufferIs DEF SelectInv
  <2>3. SelectReader'
    <3>1. "clear" \in WritePcs /\ "pop" \in WritePcs
      BY DEF WritePcs
    <3>2. S!WriterGoto("clear", i, None, 0) \/ S!WriterGoto("pop", i, s, n)
      BY <1>3
    <3> HIDE DEF n, i, s
    <3> QED BY <1>1, <2>1, <2>2, <3>1, <3>2, SelectWriteGoes
  <2>4. flaw' \in [Session -> SUBSET Flaws] /\ FlawsStay
    <3>1. {"both_send"} \in SUBSET Flaws /\ {} \in SUBSET Flaws
      BY DEF Flaws
    <3> QED BY <1>3, <2>1, <3>1, FlawedIs DEF SelectInv
  <2> HIDE DEF n
  <2>5. /\ Only(s) /\ ctx'[s].popped = ctx[s].popped
        /\ \A r \in Session : ctx'[r].sendBuffer = ctx[r].sendBuffer
    BY <1>1, <1>3, <2>1, <2>2, GiveIs DEF SelectInv, n
  <2>6. Stream'
    BY <1>1, <2>1, <2>4, <2>5, OnlyKeeps DEF SelectInv, Stream, Shapes
  <2> QED BY <2>3, <2>5, <2>6 DEF SelectInv, Bounded
<1> QED BY <1>2, <1>3, Zenon DEF S!ResumeSend, S!Writer, S!None, None, S!GiveKernel, GiveKernel, S!Sent,
              Sent, S!Flawed, Flawed

\* Answers are popped from the buffer of session s.
LEMMA SelectPoppedIs ==
    ASSUME Stream, NEW s \in Session, NEW r, NEW n \in Nat, S!Popped(s, r, n), net' = net
    PROVE  /\ flaw' \in [Session -> SUBSET Flaws] /\ FlawsStay
           /\ Only(s) /\ ctx'[s].popped = ctx[s].popped
           /\ Len(ctx'[s].sendBuffer) <= Len(ctx[s].sendBuffer)
<1> DEFINE buf == ctx[s].sendBuffer
           rest == IF n <= Len(buf) THEN Drop(buf, n) ELSE buf
<1>1. buf \in Seq(Of(s)) /\ Len(buf) \in Nat
  BY LenProperties DEF Stream, Buffers
<1>2. rest \in Seq(Of(s)) /\ Len(rest) <= Len(buf)
  BY <1>1, DropIs
<1>3. ctx' = [ctx EXCEPT ![s].sendBuffer = rest]
  BY DEF S!Popped, S!Drop, Drop
<1> HIDE DEF rest
<1>4. Only(s) /\ ctx'[s].popped = ctx[s].popped /\ ctx'[s].sendBuffer = rest
  BY <1>2, <1>3, PutIs
<1>5. flaw' \in [Session -> SUBSET Flaws] /\ FlawsStay
  <2>1. {"popped"} \in SUBSET Flaws /\ {} \in SUBSET Flaws
    BY DEF Flaws
  <2> QED BY <2>1, FlawedIs DEF S!Popped, S!Flawed, Flawed
<1> QED BY <1>2, <1>4, <1>5

\* The memory of a context that was looked up is, if any session's, that of whoever has
\* the slot by now: its newest session.
LEMMA SelectMemoryIs ==
    ASSUME SelectInv, NEW i \in Slot, NEW r, NEW s \in S!Memory(r, i), s # None
    PROVE  s \in Session /\ Clients[i] = s /\ Newest(i, s) /\ ctx[s].slot = i /\ ctx[s].slot # None
<1>1. Clients[i] = s
  BY Instances DEF S!Memory
<1>2. s \in Session /\ Newest(i, s)
  BY <1>1 DEF SelectInv, Stream, Shapes, Tables
<1> QED BY <1>1, <1>2, Names DEF Newest

\* PopResumed drops what was given, of whoever has the slot by now.
LEMMA SelectPopResumedKeeps ==
    ASSUME SelectInv, S!PopResumed, server' = server
    PROVE  SelectInv'
<1> DEFINE i == reader.write.i
           r == reader.write.ctx
<1>1. /\ reader.write.pc = "pop" /\ i \in Slot /\ reader.write.n \in Nat
      /\ UNCHANGED <<net, socket, Clients, reads, writes, m_JobQueue, finished, worker, main>>
      /\ S!WriterGoto("clear", i, None, 0) \/ reader' = [reader EXCEPT !.write = S!Selecting]
  BY Instances DEF S!PopResumed, S!Writer, SelectInv, SelectReader
<1>2. SelectReader'
  <2>1. "clear" \in WritePcs /\ "select" \in WritePcs
    BY DEF WritePcs
  <2> HIDE DEF i
  <2> QED BY <1>1, <2>1, SelectSelectingIs, SelectWriteGoes
<1>3. CASE UNCHANGED <<ctx, flaw>>
  <2>1. Stream'
    <3>1. Calm
      BY <1>1, <1>3, SameIs DEF SelectInv, Calm, Stream, Shapes
    <3> QED BY <3>1, CalmKeeps DEF SelectInv
  <2> QED BY <1>2, <1>3, <2>1 DEF SelectInv, Bounded
<1>4. ASSUME NEW s \in S!Memory(r, i), s # None, S!Popped(s, r, reader.write.n) PROVE SelectInv'
  <2>1. s \in Session /\ ctx[s].slot # None
    BY <1>1, <1>4, SelectMemoryIs
  <2>2. /\ flaw' \in [Session -> SUBSET Flaws] /\ FlawsStay
        /\ Only(s) /\ ctx'[s].popped = ctx[s].popped
        /\ Len(ctx'[s].sendBuffer) <= Len(ctx[s].sendBuffer)
    BY <1>1, <1>4, <2>1, SelectPoppedIs DEF SelectInv
  <2>3. Stream'
    BY <1>1, <2>1, <2>2, OnlyKeeps DEF SelectInv, Stream, Shapes
  <2>4. Bounded(SendCap["select"])'
    BY <2>1, <2>2, ShorterKeeps, CapIs DEF SelectInv, Server
  <2> QED BY <1>2, <2>3, <2>4 DEF SelectInv
<1> QED BY <1>3, <1>4, Zenon DEF S!PopResumed, S!Writer, S!None, None

\* ClearWrites takes the slot out of those watched for room.
LEMMA SelectClearWritesKeeps ==
    ASSUME SelectInv, S!ClearWrites, server' = server
    PROVE  SelectInv'
<1> DEFINE s == Clients[reader.write.i]
<1>1. /\ reader.write.pc = "clear" /\ reader.write.i \in Slot /\ writes' = writes \ {reader.write.i}
      /\ reader' = [reader EXCEPT !.write = S!Selecting]
      /\ UNCHANGED <<net, socket, Clients, ctx, reads, m_JobQueue, finished, worker, main>>
      /\ flaw' = flaw \/ (s # None /\ Flawed(s, {"unwatched"}))
  BY DEF S!ClearWrites, S!Writer, SelectInv, SelectReader, S!None, None, S!Flawed, Flawed
<1>2. flaw' \in [Session -> SUBSET Flaws] /\ FlawsStay
  <2>1. CASE s # None /\ Flawed(s, {"unwatched"})
    <3>1. s \in Session /\ {"unwatched"} \in SUBSET Flaws
      BY <1>1, <2>1 DEF SelectInv, Stream, Shapes, Flaws
    <3> QED BY <2>1, <3>1, FlawedIs DEF SelectInv
  <2> QED BY <1>1, <2>1, SameIs DEF SelectInv
<1>3. Stream'
  <2>1. Calm
    BY <1>1, <1>2, SameIs DEF SelectInv, Calm, Stream, Shapes
  <2> QED BY <2>1, CalmKeeps DEF SelectInv
<1>4. SelectReader'
  <2>1. "select" \in WritePcs /\ S!WriterGoto("select", None, None, 0)
    BY <1>1, SelectSelectingIs DEF WritePcs
  <2> QED BY <1>1, <2>1, SelectWriteGoes
<1> QED BY <1>1, <1>3, <1>4 DEF SelectInv, Bounded

\* The definitions that the servers share with StreamServer are the same.
LEMMA SelectWorkerIs ==
    /\ \A w, from, to : S!WorkerGoto(w, from, to) <=> WorkerGoto(w, from, to)
    /\ \A w : S!JobDone(w) <=> JobDone(w)
    /\ \A w : S!GiveUpJob(w) <=> GiveUpJob(w)
    /\ \A w : S!JobSlot(w) = JobSlot(w)
    /\ \A w, pc : S!TakeJob(w, pc) <=> TakeJob(w, pc)
    /\ \A s, names : S!Flawed(s, names) <=> Flawed(s, names)
    /\ \A buf, job : S!Fits(buf, job) <=> Fits(buf, job)
    /\ \A job : S!Answer(job) = Answer(job)
BY DEF S!WorkerGoto, WorkerGoto, S!JobDone, JobDone, S!Idle, Idle, S!NoWork, NoWork, S!None, None,
       S!GiveUpJob, GiveUpJob, S!JobSlot, JobSlot, S!TakeJob, TakeJob, S!Flawed, Flawed, S!Fits, Fits,
       S!Size, Size, S!Answer, Answer

\* PopJob takes a job.
LEMMA SelectPopJobKeeps ==
    ASSUME SelectInv, NEW w \in Worker, S!PopJob(w), server' = server
    PROVE  SelectInv'
<1>1. /\ TakeJob(w, "look_up") /\ main = "running" /\ main' = main
      /\ UNCHANGED <<net, socket, Clients, ctx, reads, writes, finished, reader, flaw>>
  BY SelectWorkerIs DEF S!PopJob, S!JobsRun
<1>2. "look_up" \in Pcs \ Off
  BY DEF Pcs, Off
<1>3. Stream'
  BY <1>1, <1>2, TakeJobKeeps DEF SelectInv
<1> QED BY <1>1, <1>3, SelectReaderStays DEF SelectInv, Bounded

\* GetContext looks up whoever has the slot of the job's session by now.
LEMMA SelectGetContextKeeps ==
    ASSUME SelectInv, NEW w \in Worker, S!GetContext(w), server' = server
    PROVE  SelectInv'
<1> DEFINE s == Clients[JobSlot(w)]
           pc == IF s = None THEN "requeue" ELSE "store"
<1>1. /\ worker[w].pc = "look_up" /\ worker' = [worker EXCEPT ![w].pc = pc, ![w].ctx = s]
      /\ UNCHANGED <<net, socket, Clients, ctx, reads, writes, m_JobQueue, finished, reader, main, flaw>>
  BY SelectWorkerIs, Instances DEF S!GetContext
<1>2. worker[w].pc \notin Off /\ pc \in Pcs \ Off
  BY <1>1 DEF Off, Pcs
<1>3. s \in Session \cup {None}
  BY <1>2, JobSlotIs DEF SelectInv
<1> HIDE DEF s, pc
<1>4. Stream'
  BY <1>1, <1>2, <1>3, LookUpKeeps DEF SelectInv
<1> QED BY <1>1, <1>4, SelectReaderStays DEF SelectInv, Bounded

\* A job thread that goes on with a context keeps its job.
LEMMA SelectSendsIs ==
    ASSUME SelectInv, NEW w \in Worker, NEW pc \in Pcs \ Off, NEW s \in Session, NEW n \in Nat,
           S!WorkerSends(w, pc, s, n), finished' = finished
    PROVE  DoneOrOn(w)
<1> DEFINE c == [worker[w] EXCEPT !.pc = pc, !.ctx = s, !.n = n]
<1>1. worker[w] \in Work
  BY DEF SelectInv, Stream, Shapes
<1>2. c \in Work /\ c.job = worker[w].job /\ c.pc = pc
  BY <1>1 DEF Work
<1>3. Goes(w, c)
  BY DEF S!WorkerSends, Goes
<1> HIDE DEF c
<1> QED BY <1>2, <1>3 DEF DoneOrOn, GoesOn

\* StoreAnswer stores an answer with the session that was looked up.
LEMMA SelectStoreAnswerKeeps ==
    ASSUME SelectInv, NEW w \in Worker, S!StoreAnswer(w), server' = server
    PROVE  SelectInv'
<1> DEFINE job == worker[w].job
<1>1. /\ worker[w].pc = "store" /\ worker[w].pc \notin Off
      /\ UNCHANGED <<net, socket, Clients, reads, writes, m_JobQueue, finished, reader, main>>
  BY DEF S!StoreAnswer, Off
<1>2. SelectReader' /\ writes' \subseteq Slot /\ JobSlot(w) \in Slot
  BY <1>1, SelectReaderStays, JobSlotIs DEF SelectInv, Stream, Shapes
<1>3. PICK s \in S!Memory(worker[w].ctx, JobSlot(w)) :
        IF s = None
        THEN WorkerGoto(w, "store", "watch") /\ UNCHANGED <<ctx, flaw>>
        ELSE IF ~Fits(ctx[s].sendBuffer, job)
        THEN WorkerGoto(w, "store", "requeue") /\ Flawed(s, {"overflow"}) /\ UNCHANGED ctx
        ELSE /\ ctx' = [ctx EXCEPT ![s].sendBuffer = @ \o Answer(job)]
             /\ S!WorkerSends(w, "send", s, 0)
             /\ UNCHANGED flaw
  BY SelectWorkerIs, Instances, Zenon DEF S!StoreAnswer
<1>4. CASE WorkerGoto(w, "store", "watch") /\ UNCHANGED <<ctx, flaw>>
  <2>1. "watch" \in Pcs \ Off
    BY DEF Pcs, Off
  <2>2. DoneOrOn(w)
    BY <1>1, <1>4, <2>1, GotoIsOn DEF SelectInv, DoneOrOn
  <2>3. Stream'
    BY <1>1, <1>2, <1>4, <2>2, SameIs, WorkerKeeps DEF SelectInv
  <2> QED BY <1>2, <1>4, <2>3 DEF SelectInv, Bounded
<1>5. CASE s # None /\ WorkerGoto(w, "store", "requeue") /\ Flawed(s, {"overflow"}) /\ UNCHANGED ctx
  <2>1. "requeue" \in Pcs \ Off /\ {"overflow"} \in SUBSET Flaws
    BY DEF Pcs, Off, Flaws
  <2>2. DoneOrOn(w)
    BY <1>1, <1>5, <2>1, GotoIsOn DEF SelectInv, DoneOrOn
  <2>3. s \in Session
    BY <1>2, <1>5, SelectMemoryIs
  <2>4. flaw' \in [Session -> SUBSET Flaws] /\ FlawsStay
    BY <1>5, <2>1, <2>3, FlawedIs DEF SelectInv
  <2>5. Stream'
    BY <1>1, <1>2, <1>5, <2>2, <2>4, WorkerKeeps DEF SelectInv
  <2> QED BY <1>2, <1>5, <2>5 DEF SelectInv, Bounded
<1>6. CASE /\ s # None /\ Fits(ctx[s].sendBuffer, job)
           /\ ctx' = [ctx EXCEPT ![s].sendBuffer = @ \o Answer(job)]
           /\ S!WorkerSends(w, "send", s, 0) /\ flaw' = flaw
  <2>1. "send" \in Pcs \ Off
    BY DEF Pcs, Off
  <2>2. s \in Session /\ Newest(JobSlot(w), s) /\ ctx[s].slot # None
    BY <1>2, <1>6, SelectMemoryIs
  <2>3. DoneOrOn(w)
    BY <1>1, <1>6, <2>1, <2>2, SelectSendsIs
  <2> DEFINE buf == ctx[s].sendBuffer \o Answer(job)
  <2>4. buf \in Seq(Of(s)) /\ Len(buf) <= SendCap["select"]
    BY <1>1, <1>6, <2>2, StoredAnswerIs DEF SelectInv, Server
  <2>5. ctx' = [ctx EXCEPT ![s].sendBuffer = buf]
    BY <1>6
  <2> HIDE DEF buf
  <2>6. Only(s) /\ ctx'[s].popped = ctx[s].popped /\ ctx'[s].sendBuffer = buf
    BY <1>1, <2>2, <2>4, <2>5, PutIs DEF SelectInv
  <2>7. Stream'
    BY <1>1, <1>2, <1>6, <2>2, <2>3, <2>6, SameIs, WorkerSendsKeeps DEF SelectInv
  <2>8. Bounded(SendCap["select"])'
    BY <2>2, <2>4, <2>6, BoundedIs DEF SelectInv
  <2> QED BY <1>2, <2>7, <2>8 DEF SelectInv
<1> QED BY <1>3, <1>4, <1>5, <1>6, Zenon

\* SendAnswers gives the kernel what is stored, and will drop that.
LEMMA SelectSendAnswersKeeps ==
    ASSUME SelectInv, NEW w \in Worker, S!SendAnswers(w), server' = server
    PROVE  SelectInv'
<1>1. /\ worker[w].pc = "send" /\ worker[w].pc \notin Off
      /\ UNCHANGED <<socket, Clients, ctx, reads, writes, m_JobQueue, finished, reader, main>>
  BY DEF S!SendAnswers, Off
<1>2. SelectReader' /\ writes' \subseteq Slot /\ JobSlot(w) \in Slot
  BY <1>1, SelectReaderStays, JobSlotIs DEF SelectInv, Stream, Shapes
<1>3. PICK s \in S!Memory(worker[w].ctx, JobSlot(w)) :
        \/ WorkerGoto(w, "send", "watch") /\ UNCHANGED <<net, flaw>>
        \/ /\ s # None
           /\ GiveKernel(s, ctx[s].sendBuffer, Sent(s, ctx[s].sendBuffer))
           /\ S!WorkerSends(w, "pop", s, Sent(s, ctx[s].sendBuffer))
           /\ \E names \in {{"both_send"}, {}} : Flawed(s, names)
  BY SelectWorkerIs, Instances, Zenon DEF S!SendAnswers, S!GiveKernel, GiveKernel, S!Sent, Sent
<1> DEFINE buf == ctx[s].sendBuffer
           n == Sent(s, buf)
<1>4. CASE WorkerGoto(w, "send", "watch") /\ UNCHANGED <<net, flaw>>
  <2>1. "watch" \in Pcs \ Off
    BY DEF Pcs, Off
  <2>2. DoneOrOn(w)
    BY <1>1, <1>4, <2>1, GotoIsOn DEF SelectInv, DoneOrOn
  <2>3. Stream'
    BY <1>1, <1>2, <1>4, <2>2, SameIs, WorkerKeeps DEF SelectInv
  <2> QED BY <1>1, <1>2, <2>3 DEF SelectInv, Bounded
<1>5. CASE /\ s # None /\ GiveKernel(s, buf, n) /\ S!WorkerSends(w, "pop", s, n)
           /\ \E names \in {{"both_send"}, {}} : Flawed(s, names)
  <2>1. s \in Session /\ ctx[s].slot # None
    BY <1>2, <1>5, SelectMemoryIs
  <2>2. buf \in Seq(Of(s)) /\ n \in Nat /\ n <= Len(buf) /\ n <= net[s].room
    BY <2>1, SentBufferIs DEF SelectInv
  <2>3. flaw' \in [Session -> SUBSET Flaws] /\ FlawsStay
    <3>1. {"both_send"} \in SUBSET Flaws /\ {} \in SUBSET Flaws
      BY DEF Flaws
    <3> QED BY <1>5, <2>1, <3>1, FlawedIs DEF SelectInv
  <2> HIDE DEF n
  <2>4. DoneOrOn(w)
    <3>1. "pop" \in Pcs \ Off
      BY DEF Pcs, Off
    <3> QED BY <1>1, <1>5, <2>1, <2>2, <3>1, SelectSendsIs
  <2>5. /\ Only(s) /\ ctx'[s].popped = ctx[s].popped
        /\ \A r \in Session : ctx'[r].sendBuffer = ctx[r].sendBuffer
    BY <1>1, <1>5, <2>1, <2>2, GiveIs DEF SelectInv
  <2>6. Stream'
    BY <1>1, <1>2, <2>1, <2>3, <2>4, <2>5, WorkerSendsKeeps DEF SelectInv
  <2> QED BY <1>2, <2>5, <2>6 DEF SelectInv, Bounded
<1> HIDE DEF n
<1> QED BY <1>3, <1>4, <1>5, Zenon DEF n

\* PopAnswers drops as much as was given.
LEMMA SelectPopAnswersKeeps ==
    ASSUME SelectInv, NEW w \in Worker, S!PopAnswers(w), server' = server
    PROVE  SelectInv'
<1>1. /\ worker[w].pc = "pop" /\ worker[w].pc \notin Off /\ worker[w].n \in Nat
      /\ UNCHANGED <<net, socket, Clients, reads, writes, m_JobQueue, reader, main>>
  BY DEF S!PopAnswers, Off, SelectInv, Stream, Shapes, Work
<1>2. SelectReader' /\ writes' \subseteq Slot /\ JobSlot(w) \in Slot
  BY <1>1, SelectReaderStays, JobSlotIs DEF SelectInv, Stream, Shapes
<1>3. DoneOrOn(w)
  <2>1. "watch" \in Pcs \ Off
    BY DEF Pcs, Off
  <2>2. JobDone(w) \/ (WorkerGoto(w, "pop", "watch") /\ finished' = finished)
    BY SelectWorkerIs, Zenon DEF S!PopAnswers
  <2> QED BY <2>1, <2>2, GotoIsOn DEF SelectInv, DoneOrOn
<1>4. CASE UNCHANGED <<ctx, flaw>>
  <2>1. Stream'
    BY <1>1, <1>2, <1>3, <1>4, SameIs, WorkerKeeps DEF SelectInv
  <2> QED BY <1>2, <1>4, <2>1 DEF SelectInv, Bounded
<1>5. ASSUME NEW s \in S!Memory(worker[w].ctx, JobSlot(w)), s # None, S!Popped(s, worker[w].ctx, worker[w].n)
      PROVE  SelectInv'
  <2>1. s \in Session /\ ctx[s].slot # None
    BY <1>2, <1>5, SelectMemoryIs
  <2>2. /\ flaw' \in [Session -> SUBSET Flaws] /\ FlawsStay
        /\ Only(s) /\ ctx'[s].popped = ctx[s].popped
        /\ Len(ctx'[s].sendBuffer) <= Len(ctx[s].sendBuffer)
    BY <1>1, <1>5, <2>1, SelectPoppedIs DEF SelectInv
  <2>3. Stream'
    BY <1>1, <1>2, <1>3, <2>1, <2>2, WorkerSendsKeeps DEF SelectInv
  <2>4. Bounded(SendCap["select"])'
    BY <2>1, <2>2, ShorterKeeps, CapIs DEF SelectInv, Server
  <2> QED BY <1>2, <2>3, <2>4 DEF SelectInv
<1> QED BY <1>4, <1>5, SelectWorkerIs, Instances, Zenon DEF S!PopAnswers

\* WatchWrites has the slot watched.
LEMMA SelectWatchWritesKeeps ==
    ASSUME SelectInv, NEW w \in Worker, S!WatchWrites(w), server' = server
    PROVE  SelectInv'
<1>1. /\ worker[w].pc = "watch" /\ worker[w].pc \notin Off
      /\ writes' = writes \cup {JobSlot(w)} /\ JobDone(w)
      /\ UNCHANGED <<net, socket, Clients, ctx, reads, m_JobQueue, reader, main, flaw>>
  BY SelectWorkerIs DEF S!WatchWrites, Off
<1>2. writes' \subseteq Slot
  BY <1>1, JobSlotIs DEF SelectInv, Stream, Shapes
<1>3. Stream'
  BY <1>1, <1>2, JobDoneKeeps DEF SelectInv
<1> QED BY <1>1, <1>3, SelectReaderStays DEF SelectInv, Bounded

\* Requeue queues the job again.
LEMMA SelectRequeueKeeps ==
    ASSUME SelectInv, NEW w \in Worker, S!Requeue(w), server' = server
    PROVE  SelectInv'
<1>1. /\ GiveUpJob(w) /\ m_JobQueue' = Append(m_JobQueue, worker[w].job)
      /\ UNCHANGED <<net, socket, Clients, ctx, reads, writes, finished, reader, main, flaw>>
  BY SelectWorkerIs DEF S!Requeue
<1>2. Stream'
  BY <1>1, RequeueKeeps DEF SelectInv
<1> QED BY <1>1, <1>2, SelectReaderStays DEF SelectInv, Bounded

\* EndJobThread ends a job thread.
LEMMA SelectEndJobThreadKeeps ==
    ASSUME SelectInv, NEW w \in Worker, S!EndJobThread(w), server' = server
    PROVE  SelectInv'
<1>1. /\ WorkerGoto(w, "idle", "exited")
      /\ UNCHANGED <<net, socket, Clients, ctx, reads, writes, m_JobQueue, finished, reader, main, flaw>>
  BY SelectWorkerIs DEF S!EndJobThread
<1>2. "exited" \in Pcs /\ "exited" \in Off /\ "idle" \in Off
  BY DEF Pcs, Off
<1>3. Stream'
  BY <1>1, <1>2, SameIs, GotoKeeps DEF SelectInv
<1> QED BY <1>1, <1>3, SelectReaderStays DEF SelectInv, Bounded

\* The thread of main.
LEMMA SelectMainKeeps ==
    ASSUME SelectInv, S!MainThread, server' = server
    PROVE  SelectInv'
<1>1. UNCHANGED <<net, ctx, reads, writes, m_JobQueue, finished, reader, flaw>>
  BY DEF S!MainThread, S!Start, S!End, S!DestroyJobThread, S!DestroyThread, S!ReleaseAllContexts
<1>2. CASE S!Start
  <2>1. /\ main = "constructed" /\ main' = "running" /\ worker' = [w \in Worker |-> Idle]
        /\ UNCHANGED <<socket, Clients>>
    BY <1>2 DEF S!Start, S!MainGoto, S!CreateJobThread, S!Idle, Idle, S!NoWork, NoWork, S!None, None
  <2>2. Stream'
    BY <1>1, <2>1, StartKeeps DEF SelectInv
  <2>3. SelectReader'
    BY <1>1, <2>1 DEF SelectInv, SelectReader
  <2> QED BY <1>1, <2>2, <2>3 DEF SelectInv, Bounded
<1>3. CASE S!End \/ S!DestroyJobThread \/ S!DestroyThread
  <2>1. /\ main \in {"running", "join_jobs", "join_threads"} /\ main' \in {"join_jobs", "join_threads", "release"}
        /\ main' = "release" => reader.read.pc = "exited"
        /\ UNCHANGED <<socket, Clients, worker>>
    BY <1>3 DEF S!End, S!DestroyJobThread, S!DestroyThread, S!MainGoto
  <2>2. Stream'
    BY <1>1, <2>1, SameIs, MainKeeps DEF SelectInv, Stream, Shapes
  <2>3. SelectReader'
    BY <1>1, <2>1 DEF SelectInv, SelectReader
  <2> QED BY <1>1, <2>2, <2>3 DEF SelectInv, Bounded
<1>4. CASE S!ReleaseAllContexts
  <2>1. /\ main = "release" /\ main' = "ended" /\ worker' = worker
        /\ Clients' = [i \in Slot |-> None]
        /\ socket' = [i \in Slot |-> IF Clients[i] = None THEN socket[i] ELSE None]
    BY <1>4, Instances DEF S!ReleaseAllContexts, S!MainGoto
  <2>2. TablesLose /\ Clients' \in [Slot -> Session \cup {None}] /\ socket' \in [Slot -> Session \cup {None}]
    BY <2>1 DEF TablesLose, SelectInv, Stream, Shapes
  <2>3. Stream'
    BY <1>1, <2>1, <2>2, MainKeeps DEF SelectInv
  <2>4. SelectReader'
    BY <1>1, <2>1 DEF SelectInv, SelectReader
  <2> QED BY <1>1, <2>3, <2>4 DEF SelectInv, Bounded
<1> QED BY <1>2, <1>3, <1>4 DEF S!MainThread

\* The clients, and the kernel.
LEMMA SelectClientKeeps ==
    ASSUME SelectInv, NEW s \in Session, S!ClientStep(s) \/ S!DrainStep(s), server' = server
    PROVE  SelectInv'
<1>1. Leaves(s) /\ UNCHANGED ServerVars
  BY DEF S!ClientStep, S!DrainStep, S!Leave, Leave, S!Drain, Drain, Leaves, S!ServerVars, ServerVars
<1>2. Stream'
  BY <1>1, ClientStepKeeps DEF SelectInv
<1>3. SelectReader'
  BY <1>1, SelectReaderStays DEF ServerVars
<1> QED BY <1>1, <1>2, <1>3 DEF SelectInv, Bounded, ServerVars

\* The select server's invariant holds at the start,
LEMMA SelectInvInit ==
    ASSUME S!Init
    PROVE  SelectInv
<1> DEFINE t == [pc |-> "select", i |-> None, ctx |-> None, n |-> 0]
<1>1. StreamInit /\ server = "select" /\ reader = [read |-> t, write |-> t] /\ main = "constructed"
  BY Instances DEF S!Init, S!StreamInit, StreamInit, S!NewNet, NewNet, S!NewContext, NewContext, S!NoWork, NoWork,
         S!None, None, S!Selecting, S!Thread
<1>2. /\ Stream /\ \A s \in Session : ctx[s].sendBuffer = NoJob
      /\ reads = {} /\ \A i \in Slot : socket[i] = None /\ Clients[i] = None
  BY <1>1, InitKeeps
<1>3. Bounded(SendCap["select"])
  <2>1. Len(NoJob) = 0
    BY DEF NoJob
  <2>2. SendCap["select"] \in Nat
    BY CapIs DEF Server
  <2> QED BY <1>2, <2>1, <2>2 DEF Bounded
<1>4. SelectReader
  BY <1>1, <1>2 DEF SelectReader
<1> QED BY <1>1, <1>2, <1>3, <1>4 DEF SelectInv

\* every step keeps it,
LEMMA SelectInvNext ==
    ASSUME SelectInv, [S!Next]_vars
    PROVE  SelectInv'
<1>1. CASE UNCHANGED vars
  BY <1>1 DEF vars, SelectInv, Stream, Shapes, Fresh, Tables, Newest, JobsKnown, Known, Working, Buffers, Of,
              OnePlace, OneJob, Queued, Held, In, Taken, Bounded, SelectReader
<1>2. CASE S!Next
  <2>1. server' = server
    BY <1>2 DEF S!Next, S!Runs, S!RunsAs
  <2>2. CASE S!ReadThread
    BY <2>1, <2>2, SelectDoDisconnectKeeps, SelectDoRecvKeeps, SelectRecvFailsKeeps, SelectOnReceiveKeeps,
       SelectEndReadThreadKeeps, SelectDoAcceptKeeps, Instances DEF S!ReadThread
  <2>3. CASE S!WriteThread
    BY <2>1, <2>3, SelectSelectWritesKeeps, SelectSelectFailsKeeps, SelectResumeSendKeeps, SelectPopResumedKeeps,
       SelectClearWritesKeeps DEF S!WriteThread
  <2>4. CASE S!MainThread
    BY <2>1, <2>4, SelectMainKeeps
  <2>5. CASE \E w \in Worker : S!JobThread(w)
    BY <2>1, <2>5, SelectPopJobKeeps, SelectGetContextKeeps, SelectStoreAnswerKeeps, SelectSendAnswersKeeps,
       SelectPopAnswersKeeps, SelectWatchWritesKeeps, SelectRequeueKeeps, SelectEndJobThreadKeeps DEF S!JobThread
  <2>6. CASE \E s \in S!Session : S!ClientStep(s) \/ S!DrainStep(s)
    BY <2>1, <2>6, SelectClientKeeps, Instances
  <2> QED BY <1>2, <2>2, <2>3, <2>4, <2>5, <2>6 DEF S!Next
<1> QED BY <1>1, <1>2

\* and the properties follow from it.
LEMMA SelectFollows ==
    ASSUME SelectInv
    PROVE  JobInOnePlace /\ AnswersStayInSlot
<1>1. /\ server \in Server /\ Bounded(SendCap[server])
      /\ main \in {"constructed", "running", "join_jobs"} => \A i \in reads : socket[i] # None
  BY DEF SelectInv, Server, SelectReader
<1> QED BY <1>1, JobInOnePlaceFollows, AnswersStayInSlotFollows DEF SelectInv

-----------------------------------------------------------------------------
(* The blocking server.                                                     *)

\* The definitions that the server shares with StreamServer are the same.
LEMMA BlockingSharedIs ==
    /\ \A w, from, to : B!WorkerGoto(w, from, to) <=> WorkerGoto(w, from, to)
    /\ \A w : B!JobDone(w) <=> JobDone(w)
    /\ \A w : B!GiveUpJob(w) <=> GiveUpJob(w)
    /\ \A w : B!JobSlot(w) = JobSlot(w)
    /\ \A w, pc : B!TakeJob(w, pc) <=> TakeJob(w, pc)
    /\ \A s, names : B!Flawed(s, names) <=> Flawed(s, names)
    /\ \A job : B!Answer(job) = Answer(job) /\ B!Size(job) = Size(job)
    /\ \A s, buf, n : B!GiveKernel(s, buf, n) <=> GiveKernel(s, buf, n)
    /\ \A s, n : B!Reads(s, n) <=> Reads(s, n)
BY DEF B!WorkerGoto, WorkerGoto, B!JobDone, JobDone, B!Idle, Idle, B!NoWork, NoWork, B!None, None,
       B!GiveUpJob, GiveUpJob, B!JobSlot, JobSlot, B!TakeJob, TakeJob, B!Flawed, Flawed,
       B!Size, Size, B!Answer, Answer, B!GiveKernel, GiveKernel, B!Reads, Reads

\* A thread that serves a socket goes somewhere.
LEMMA BlockingGotoIs ==
    ASSUME BlockingInv, NEW s \in Session, NEW from \in BlockingPcs \ {"none"}, NEW to \in BlockingPcs,
           B!ReaderGoto(s, from, to), reads' = reads,
           \A r \in Session : ctx'[r].slot = ctx[r].slot /\ ctx'[r].sendBuffer = ctx[r].sendBuffer
    PROVE  BlockingReader' /\ reader[s] = from /\ ctx[s].slot # None
<1>1. reader[s] = from /\ reader' = [reader EXCEPT ![s] = to] /\ reader[s] # "none"
  BY DEF B!ReaderGoto
<1>2. ctx[s].slot # None
  BY <1>1 DEF BlockingInv, BlockingReader
<1> QED BY <1>1, <1>2 DEF BlockingInv, BlockingReader

\* The other threads leave theirs alone.
LEMMA BlockingReaderStays ==
    ASSUME BlockingInv, UNCHANGED <<reads, reader>>,
           \A r \in Session : ctx'[r].slot = ctx[r].slot /\ ctx'[r].sendBuffer = ctx[r].sendBuffer
    PROVE  BlockingReader'
BY DEF BlockingInv, BlockingReader

\* AcceptThread takes a slot that has no socket, and starts a thread.
LEMMA BlockingAcceptKeeps ==
    ASSUME BlockingInv, NEW s \in Session, B!AcceptThread(s), server' = server
    PROVE  BlockingInv'
<1>1. PICK i \in Slot : socket' = [socket EXCEPT ![i] = s] /\ B!CreateClientThread(i, s)
  BY Instances DEF B!AcceptThread
<1> DEFINE c == [NewContext EXCEPT !.slot = i]
<1>2. ctx' = [ctx EXCEPT ![s] = c] /\ Clients' = [Clients EXCEPT ![i] = s]
  BY <1>1 DEF B!CreateClientThread, B!NewContext, NewContext, B!None, None
<1>3. PICK a \in {"accept", "exited"} : reader' = [reader EXCEPT ![s] = "read", ![None] = a]
  BY <1>1, Instances DEF B!CreateClientThread
<1>4. /\ c \in Context /\ c.slot = i /\ c.popped = 0 /\ c.sendBuffer = NoJob
      /\ \A A : c.sendBuffer \in Seq(A)
  BY NewContextIs DEF NewContext, NoJob
<1> HIDE DEF c
<1>5. /\ net[s].peer = "connecting" /\ \A r \in 1 .. s - 1 : net[r].peer # "connecting"
      /\ net' = [net EXCEPT ![s].peer = "open"]
      /\ UNCHANGED <<reads, writes, m_JobQueue, finished, worker, main, flaw>>
  BY DEF B!AcceptThread, B!Pending
<1>6. Stream' /\ \A r \in Session : ctx'[r] = IF r = s THEN c ELSE ctx[r]
  BY <1>1, <1>2, <1>4, <1>5, AcceptKeeps, SameIs DEF BlockingInv, Stream, Shapes
<1>7. BlockingReader'
  <2>1. reader' \in [Session \cup {None} -> BlockingPcs]
    BY <1>3 DEF BlockingInv, BlockingReader, BlockingPcs
  <2>2. \A r \in Session : r # s => reader'[r] = reader[r]
    BY <1>3, Names DEF BlockingInv, BlockingReader
  <2> QED BY <1>4, <1>5, <1>6, <2>1, <2>2, Names DEF BlockingInv, BlockingReader
<1> QED BY <1>6, <1>7 DEF BlockingInv

\* Read reads a chunk of the session.
LEMMA BlockingReadKeeps ==
    ASSUME BlockingInv, NEW s \in Session, B!Read(s), server' = server
    PROVE  BlockingInv'
<1>1. /\ B!ReaderGoto(s, "read", "parse")
      /\ UNCHANGED <<socket, Clients, reads, writes, m_JobQueue, finished, worker, main>>
  BY DEF B!Read
<1>2. PICK n \in 1 .. RecvCap : B!Reads(s, n) /\ B!Enqueue(s, n)
  BY DEF B!Read
<1>3. Reads(s, n) /\ Stores(s, n) /\ (flaw' = flaw \/ Flawed(s, {"cut"}))
  BY <1>2, BlockingSharedIs, Zenon DEF B!Enqueue, Stores
<1>4. /\ Only(s) /\ ctx'[s].popped = ctx[s].popped
      /\ \A r \in Session : ctx'[r].sendBuffer = ctx[r].sendBuffer
  BY <1>3, ReadIs DEF BlockingInv
<1>5. BlockingReader' /\ ctx[s].slot # None
  <2>1. \A r \in Session : ctx'[r].slot = ctx[r].slot /\ ctx'[r].sendBuffer = ctx[r].sendBuffer
    BY <1>4 DEF Only
  <2>2. "read" \in BlockingPcs \ {"none"} /\ "parse" \in BlockingPcs
    BY DEF BlockingPcs
  <2> QED BY <1>1, <2>1, <2>2, BlockingGotoIs
<1>6. flaw' \in [Session -> SUBSET Flaws] /\ FlawsStay
  <2>1. {"cut"} \in SUBSET Flaws
    BY DEF Flaws
  <2> QED BY <1>3, <2>1, FlawedIs, SameIs DEF BlockingInv
<1>7. Stream'
  BY <1>1, <1>4, <1>5, <1>6, OnlyKeeps DEF BlockingInv, Stream, Shapes
<1> QED BY <1>5, <1>7 DEF BlockingInv

\* Disconnect ends a thread's reading.
LEMMA BlockingDisconnectKeeps ==
    ASSUME BlockingInv, NEW s \in Session, B!Disconnect(s), server' = server
    PROVE  BlockingInv'
<1>1. /\ B!ReaderGoto(s, "read", "close")
      /\ UNCHANGED <<net, socket, Clients, ctx, reads, writes, m_JobQueue, finished, worker, main, flaw>>
  BY DEF B!Disconnect
<1>2. BlockingReader'
  <2>1. "read" \in BlockingPcs \ {"none"} /\ "close" \in BlockingPcs
    BY DEF BlockingPcs
  <2> QED BY <1>1, <2>1, BlockingGotoIs
<1>3. Calm
  BY <1>1, SameIs DEF BlockingInv, Calm, Stream, Shapes
<1> QED BY <1>2, <1>3, CalmKeeps DEF BlockingInv

\* NextRead goes on reading, or spins, or ends.
LEMMA BlockingNextReadKeeps ==
    ASSUME BlockingInv, NEW s \in Session, B!NextRead(s), server' = server
    PROVE  BlockingInv'
<1>1. UNCHANGED <<net, socket, Clients, ctx, reads, writes, m_JobQueue, finished, worker, main, flaw>>
  BY DEF B!NextRead
<1>2. PICK to \in {"read", "close", "spin"} : B!ReaderGoto(s, "parse", to)
  BY DEF B!NextRead
<1>3. BlockingReader'
  <2>1. "parse" \in BlockingPcs \ {"none"} /\ to \in BlockingPcs
    BY DEF BlockingPcs
  <2> QED BY <1>1, <1>2, <2>1, BlockingGotoIs
<1>4. Calm
  BY <1>1, SameIs DEF BlockingInv, Calm, Stream, Shapes
<1> QED BY <1>3, <1>4, CalmKeeps DEF BlockingInv

\* Close takes the socket from the slot.
LEMMA BlockingCloseKeeps ==
    ASSUME BlockingInv, NEW s \in Session, B!Close(s), server' = server
    PROVE  BlockingInv'
<1>1. /\ B!ReaderGoto(s, "close", "exited") /\ socket' = [socket EXCEPT ![ctx[s].slot] = None]
      /\ UNCHANGED <<net, Clients, ctx, reads, writes, m_JobQueue, finished, worker, main, flaw>>
  BY Instances DEF B!Close
<1>2. BlockingReader' /\ ctx[s].slot # None
  <2>1. "close" \in BlockingPcs \ {"none"} /\ "exited" \in BlockingPcs
    BY DEF BlockingPcs
  <2> QED BY <1>1, <2>1, BlockingGotoIs
<1>3. TablesLose /\ socket' \in [Slot -> Session \cup {None}]
  <2>1. ctx[s].slot \in Slot
    BY <1>2 DEF BlockingInv, Stream, Shapes, Context
  <2> QED BY <1>1, <2>1 DEF BlockingInv, Stream, Shapes, TablesLose
<1>4. Calm
  BY <1>1, <1>3, SameIs DEF BlockingInv, Calm, Stream, Shapes
<1> QED BY <1>2, <1>4, CalmKeeps DEF BlockingInv

\* To pop is to take a request from what is stored.
LEMMA BlockingPopIs ==
    ASSUME Stream, NEW s \in Session, ctx' = [ctx EXCEPT ![s] = B!Pop(@)]
    PROVE  ctx' = [ctx EXCEPT ![s].stored = @ - 2, ![s].popped = @ + 1]
BY DEF B!Pop

\* OnReceive makes a job of the session's next request.
LEMMA BlockingOnReceiveKeeps ==
    ASSUME BlockingInv, NEW s \in Session, B!OnReceive(s), server' = server
    PROVE  BlockingInv'
<1>1. /\ reader[s] = "parse" /\ ctx[s].stored >= 2 /\ ctx' = [ctx EXCEPT ![s] = B!Pop(@)]
      /\ m_JobQueue' = IF Next1(s) \in Bad THEN m_JobQueue ELSE Append(m_JobQueue, Next1(s))
      /\ main' = IF main = "constructed" THEN "crashed" ELSE main
      /\ UNCHANGED <<net, socket, Clients, reads, writes, finished, reader, worker, flaw>>
  BY DEF B!OnReceive, B!WholeMessage, B!CreateJob, B!NextJob, Next1
<1>2. ctx[s].slot # None
  BY <1>1 DEF BlockingInv, BlockingReader
<1>3. Stream' /\ \A r \in Session : ctx'[r].sendBuffer = ctx[r].sendBuffer /\ ctx'[r].slot = ctx[r].slot
  BY <1>1, <1>2, BlockingPopIs, RequestKeeps DEF BlockingInv
<1> QED BY <1>1, <1>3, BlockingReaderStays DEF BlockingInv

\* ClientsCollide loses one of two jobs.
LEMMA BlockingClientsCollideKeeps ==
    ASSUME BlockingInv, B!ClientsCollide, server' = server
    PROVE  BlockingInv'
<1>1. UNCHANGED <<net, socket, Clients, reads, writes, finished, reader, worker, main>>
  BY DEF B!ClientsCollide
<1>2. PICK r \in Session, s \in Session :
         /\ r < s /\ B!Pushes(r) /\ B!Pushes(s) /\ B!Collide(B!NextJob(r), B!NextJob(s))
         /\ ctx' = [ctx EXCEPT ![r] = B!Pop(@), ![s] = B!Pop(@)]
  BY Instances DEF B!ClientsCollide
<1>3. /\ r # s /\ LosesOne(Next1(r), Next1(s))
      /\ reader[r] = "parse" /\ ctx[r].stored >= 2 /\ Next1(r) \notin Bad
      /\ reader[s] = "parse" /\ ctx[s].stored >= 2 /\ Next1(s) \notin Bad
  <2>1. r # s
    BY <1>2, Names
  <2>2. B!NextJob(r) = Next1(r) /\ B!NextJob(s) = Next1(s)
    BY DEF B!NextJob, Next1
  <2>3. \A t, names : B!Flawed(t, names) <=> Flawed(t, names)
    BY BlockingSharedIs, Zenon
  <2>4. \A a, b : B!Collide(a, b) <=> LosesOne(a, b)
    BY <2>3 DEF B!Collide, LosesOne
  <2>5. LosesOne(Next1(r), Next1(s))
    BY <1>2, <2>2, <2>4, Zenon
  <2> QED BY <1>2, <2>1, <2>2, <2>5, Zenon DEF B!Pushes, B!WholeMessage
<1>4. ctx[r].slot # None /\ ctx[s].slot # None
  BY <1>3 DEF BlockingInv, BlockingReader
<1>5. /\ Collides(Next1(r), Next1(s)) /\ m_JobQueue' \in Seq(Job)
      /\ flaw' \in [Session -> SUBSET Flaws] /\ FlawsStay
  BY <1>3, Next1Is, LosesOneIs DEF BlockingInv
<1> DEFINE c(t) == [ctx[t] EXCEPT !.stored = @ - 2, !.popped = @ + 1]
<1>6. ASSUME NEW t \in Session, ctx[t].stored >= 2
      PROVE  /\ c(t) \in Context /\ c(t).slot = ctx[t].slot /\ c(t).popped = ctx[t].popped + 1
             /\ c(t).sendBuffer = ctx[t].sendBuffer
  <2>1. ctx[t] \in Context
    BY DEF BlockingInv, Stream, Shapes
  <2>2. ctx[t].stored \in 0 .. RecvCap /\ ctx[t].popped \in Nat
    BY <2>1 DEF Context
  <2>3. ctx[t].stored - 2 \in 0 .. RecvCap /\ ctx[t].popped + 1 \in Nat
    BY <1>6, <2>2, Names
  <2> QED BY <2>1, <2>3 DEF Context
<1>7. ctx' = [ctx EXCEPT ![r] = c(r), ![s] = c(s)]
  BY <1>2, <1>3 DEF B!Pop
<1> HIDE DEF c
<1>8. ctx' \in [Session -> Context] /\ \A t \in Session : ctx'[t] = IF t \in {r, s} THEN c(t) ELSE ctx[t]
  BY <1>3, <1>6, <1>7 DEF BlockingInv, Stream, Shapes
<1>9. \A t \in Session : ctx'[t].slot = ctx[t].slot /\ ctx'[t].sendBuffer = ctx[t].sendBuffer
  BY <1>3, <1>6, <1>8
<1>10. Pops({r, s})
  BY <1>3, <1>6, <1>8 DEF Pops
<1>11. Stays
  <2>1. \A t \in Session : ctx[t].popped \in Nat
    BY DEF BlockingInv, Stream, Shapes, Context
  <2>2. \A t \in Session : ctx[t].popped <= ctx'[t].popped
    BY <1>10, <2>1 DEF Pops
  <2> QED BY <1>1, <1>4, <1>8, <1>9, <2>2 DEF Stays, BlockingInv, Stream, Fresh
<1>12. BuffersStep
  BY <1>1, <1>9 DEF BuffersStep, BlockingInv, Stream, Buffers
<1>13. Working' /\ WorksOn
  BY <1>1, SameIs DEF BlockingInv
<1>14. BothMade(r, s)
  BY <1>1, <1>3, <1>4, <1>5, <1>10, <1>13 DEF BothMade
<1>15. Shapes'
  BY <1>1, <1>5, <1>8 DEF BlockingInv, Stream, Shapes
<1>16. Stream'
  BY <1>11, <1>12, <1>13, <1>14, <1>15, StreamKept DEF BlockingInv, JobsStep
<1> QED BY <1>1, <1>9, <1>16, BlockingReaderStays DEF BlockingInv

\* PopJob takes a job.
LEMMA BlockingPopJobKeeps ==
    ASSUME BlockingInv, NEW w \in Worker, B!PopJob(w), server' = server
    PROVE  BlockingInv'
<1>1. /\ TakeJob(w, "send") /\ main = "running" /\ main' = main
      /\ UNCHANGED <<net, socket, Clients, ctx, reads, writes, finished, reader, flaw>>
  BY BlockingSharedIs DEF B!PopJob, B!JobsRun
<1>2. "send" \in Pcs \ Off
  BY DEF Pcs, Off
<1>3. Stream'
  BY <1>1, <1>2, TakeJobKeeps DEF BlockingInv
<1> QED BY <1>1, <1>3, BlockingReaderStays DEF BlockingInv

\* SendMsg gives the kernel an answer for whoever has the slot by now, or fails.
LEMMA BlockingSendMsgKeeps ==
    ASSUME BlockingInv, NEW w \in Worker, B!SendMsg(w), server' = server
    PROVE  BlockingInv'
<1> DEFINE s == socket[JobSlot(w)]
           job == worker[w].job
           buf == Answer(job)
<1>1. /\ worker[w].pc = "send" /\ worker[w].pc \notin Off
      /\ UNCHANGED <<socket, Clients, ctx, reads, writes, m_JobQueue, reader, flaw>>
  BY DEF B!SendMsg, Off
<1>2. BlockingReader'
  BY <1>1, BlockingReaderStays
<1>3. writes' \subseteq Slot
  BY <1>1 DEF BlockingInv, Stream, Shapes
<1>4. CASE /\ s # None /\ Size(job) <= net[s].room
           /\ GiveKernel(s, buf, Size(job)) /\ JobDone(w) /\ main' = main
  <2>1. s \in Session /\ Newest(JobSlot(w), s)
    <3>1. JobSlot(w) \in Slot
      BY <1>1, JobSlotIs DEF BlockingInv
    <3> QED BY <1>4, <3>1 DEF BlockingInv, Stream, Shapes, Tables
  <2>2. ctx[s].slot # None
    BY <1>1, <2>1, JobSlotIs, Names DEF BlockingInv, Newest
  <2>3. job \in Of(s) /\ job \in Job
    BY <1>1, <2>1, AskerIs, JobSlotIs DEF BlockingInv
  <2>4. Size(job) \in Nat
    BY <2>3, SizeIs DEF BlockingInv, Server
  <2>5. buf \in Seq(Of(s)) /\ Len(buf) = Size(job)
    BY <2>3, <2>4, AnswerIs
  <2> DEFINE n == Size(job)
  <2> HIDE DEF n, buf
  <2>6. n \in Nat /\ n <= Len(buf) /\ n <= net[s].room /\ GiveKernel(s, buf, n)
    BY <1>4, <2>4, <2>5 DEF n
  <2>7. Only(s) /\ ctx'[s].popped = ctx[s].popped
    BY <1>1, <2>1, <2>5, <2>6, GiveIs DEF BlockingInv
  <2>8. Stream'
    BY <1>1, <1>3, <1>4, <2>1, <2>2, <2>7, SameIs, WorkerSendsKeeps DEF BlockingInv, DoneOrOn
  <2> QED BY <1>2, <2>8 DEF BlockingInv
<1>5. CASE WorkerGoto(w, "send", "requeue") /\ UNCHANGED <<net, finished, main>>
  <2>1. "requeue" \in Pcs \ Off
    BY DEF Pcs, Off
  <2>2. DoneOrOn(w)
    BY <1>5, <2>1, GotoIsOn DEF BlockingInv, DoneOrOn
  <2>3. Stream'
    BY <1>1, <1>3, <1>5, <2>2, SameIs, WorkerKeeps DEF BlockingInv
  <2> QED BY <1>2, <2>3 DEF BlockingInv
<1>6. CASE main' = "crashed" /\ UNCHANGED <<net, finished, worker>>
  <2>1. Stream'
    BY <1>1, <1>6, SameIs, MainKeeps DEF BlockingInv, Stream, Shapes
  <2> QED BY <1>2, <2>1 DEF BlockingInv
<1>7. \/ s # None /\ net[s].room >= Size(job) /\ GiveKernel(s, buf, Size(job)) /\ JobDone(w) /\ main' = main
      \/ WorkerGoto(w, "send", "requeue") /\ UNCHANGED <<net, finished, main>>
      \/ main' = "crashed" /\ UNCHANGED <<net, finished, worker>>
  BY BlockingSharedIs, Instances, Zenon DEF B!SendMsg
<1> QED BY <1>4, <1>5, <1>6, <1>7

\* Requeue queues the job again.
LEMMA BlockingRequeueKeeps ==
    ASSUME BlockingInv, NEW w \in Worker, B!Requeue(w), server' = server
    PROVE  BlockingInv'
<1>1. /\ GiveUpJob(w) /\ m_JobQueue' = Append(m_JobQueue, worker[w].job)
      /\ UNCHANGED <<net, socket, Clients, ctx, reads, writes, finished, reader, main, flaw>>
  BY BlockingSharedIs DEF B!Requeue
<1>2. Stream'
  BY <1>1, RequeueKeeps DEF BlockingInv
<1> QED BY <1>1, <1>2, BlockingReaderStays DEF BlockingInv

\* RequeueCollides loses one of two jobs.
LEMMA BlockingRequeueCollidesKeeps ==
    ASSUME BlockingInv, NEW w \in Worker, B!RequeueCollides(w), server' = server
    PROVE  BlockingInv'
<1>1. GiveUpJob(w) /\ UNCHANGED <<net, socket, Clients, reads, writes, finished, reader, main>>
  BY BlockingSharedIs DEF B!RequeueCollides
<1>2. PICK s \in Session : /\ B!Pushes(s) /\ B!Collide(worker[w].job, B!NextJob(s))
                           /\ ctx' = [ctx EXCEPT ![s] = B!Pop(@)]
  BY Instances DEF B!RequeueCollides
<1>3. reader[s] = "parse" /\ ctx[s].stored >= 2 /\ Next1(s) \notin Bad /\ LosesOne(Next1(s), worker[w].job)
  <2>1. {worker[w].job, Next1(s)} = {Next1(s), worker[w].job}
    OBVIOUS
  <2> QED BY <1>2, <2>1, BlockingSharedIs DEF B!Pushes, B!WholeMessage, B!NextJob, Next1, B!Collide, LosesOne
<1>4. ctx[s].slot # None
  BY <1>3 DEF BlockingInv, BlockingReader
<1>5. Stream' /\ \A r \in Session : ctx'[r].sendBuffer = ctx[r].sendBuffer /\ ctx'[r].slot = ctx[r].slot
  BY <1>1, <1>2, <1>3, <1>4, BlockingPopIs, CollisionKeeps DEF BlockingInv
<1> QED BY <1>1, <1>5, BlockingReaderStays DEF BlockingInv

\* EndJobThread ends a job thread.
LEMMA BlockingEndJobThreadKeeps ==
    ASSUME BlockingInv, NEW w \in Worker, B!EndJobThread(w), server' = server
    PROVE  BlockingInv'
<1>1. /\ WorkerGoto(w, "idle", "exited")
      /\ UNCHANGED <<net, socket, Clients, ctx, reads, writes, m_JobQueue, finished, reader, main, flaw>>
  BY BlockingSharedIs DEF B!EndJobThread
<1>2. "exited" \in Pcs /\ "exited" \in Off /\ "idle" \in Off
  BY DEF Pcs, Off
<1>3. Stream'
  BY <1>1, <1>2, SameIs, GotoKeeps DEF BlockingInv
<1> QED BY <1>1, <1>3, BlockingReaderStays DEF BlockingInv

\* The thread of main.
LEMMA BlockingMainKeeps ==
    ASSUME BlockingInv, B!Start \/ B!End \/ B!DestroyJobThread \/ B!DestroyThreads, server' = server
    PROVE  BlockingInv'
<1>1. UNCHANGED <<net, socket, Clients, ctx, reads, writes, m_JobQueue, finished, reader, flaw>>
  BY DEF B!Start, B!End, B!DestroyJobThread, B!DestroyThreads
<1>2. CASE B!Start
  <2>1. main = "constructed" /\ main' = "running" /\ worker' = [w \in Worker |-> Idle]
    BY <1>2 DEF B!Start, B!MainGoto, B!CreateJobThread, B!Idle, Idle, B!NoWork, NoWork, B!None, None
  <2> QED BY <1>1, <2>1, StartKeeps, BlockingReaderStays DEF BlockingInv
<1>3. CASE B!End \/ B!DestroyJobThread \/ B!DestroyThreads
  <2>1. worker' = worker /\ main' # "constructed"
    BY <1>3 DEF B!End, B!DestroyJobThread, B!DestroyThreads, B!MainGoto
  <2>2. Stream'
    BY <1>1, <2>1, SameIs, MainKeeps DEF BlockingInv, Stream, Shapes
  <2> QED BY <1>1, <2>2, BlockingReaderStays DEF BlockingInv
<1> QED BY <1>2, <1>3

\* The clients, and the kernel.
LEMMA BlockingClientKeeps ==
    ASSUME BlockingInv, NEW s \in Session, B!ClientStep(s) \/ B!DrainStep(s), server' = server
    PROVE  BlockingInv'
<1>1. Leaves(s) /\ UNCHANGED ServerVars
  BY DEF B!ClientStep, B!DrainStep, B!Leave, Leave, B!Drain, Drain, Leaves, B!ServerVars, ServerVars
<1>2. Stream'
  BY <1>1, ClientStepKeeps DEF BlockingInv
<1> QED BY <1>1, <1>2, BlockingReaderStays DEF BlockingInv, ServerVars

\* The blocking server's invariant holds at the start,
LEMMA BlockingInvInit ==
    ASSUME B!Init
    PROVE  BlockingInv
<1>1. StreamInit /\ server = "blocking" /\ main = "constructed"
      /\ reader = [t \in Session \cup {None} |-> IF t = None THEN "accept" ELSE "none"]
  BY Instances DEF B!Init, B!StreamInit, StreamInit, B!NewNet, NewNet, B!NewContext, NewContext, B!NoWork, NoWork,
         B!None, None, B!Thread
<1>2. Stream /\ (\A s \in Session : ctx[s].sendBuffer = NoJob) /\ reads = {}
  BY <1>1, InitKeeps
<1>3. BlockingReader
  BY <1>1, <1>2, Names DEF BlockingReader, BlockingPcs
<1> QED BY <1>1, <1>2, <1>3 DEF BlockingInv

\* every step keeps it,
LEMMA BlockingInvNext ==
    ASSUME BlockingInv, [B!Next]_vars
    PROVE  BlockingInv'
<1>1. CASE UNCHANGED vars
  BY <1>1 DEF vars, BlockingInv, Stream, Shapes, Fresh, Tables, Newest, JobsKnown, Known, Working, Buffers, Of,
              OnePlace, OneJob, Queued, Held, In, Taken, BlockingReader
<1>2. CASE B!Next
  <2>1. server' = server
    BY <1>2 DEF B!Next, B!Runs, B!RunsAs
  <2>2. CASE B!ClientsCollide
    BY <2>1, <2>2, BlockingClientsCollideKeeps
  <2>3. CASE B!Start \/ B!End \/ B!DestroyJobThread \/ B!DestroyThreads
    BY <2>1, <2>3, BlockingMainKeeps
  <2>4. CASE \E w \in Worker : B!JobThread(w)
    BY <2>1, <2>4, BlockingPopJobKeeps, BlockingSendMsgKeeps, BlockingRequeueKeeps, BlockingRequeueCollidesKeeps,
       BlockingEndJobThreadKeeps DEF B!JobThread
  <2>5. CASE \E s \in B!Session : B!ClientThread(s) \/ B!ClientStep(s) \/ B!DrainStep(s)
    BY <2>1, <2>5, BlockingAcceptKeeps, BlockingReadKeeps, BlockingDisconnectKeeps, BlockingOnReceiveKeeps,
       BlockingNextReadKeeps, BlockingCloseKeeps, BlockingClientKeeps, Instances DEF B!ClientThread
  <2> QED BY <1>2, <2>2, <2>3, <2>4, <2>5 DEF B!Next
<1> QED BY <1>1, <1>2

\* and the properties follow from it.
LEMMA BlockingFollows ==
    ASSUME BlockingInv
    PROVE  JobInOnePlace /\ AnswersStayInSlot
<1>1. server \in Server /\ SendCap[server] \in Nat
  BY CapIs DEF BlockingInv, Server
<1>2. Len(NoJob) = 0
  BY DEF NoJob
<1>3. Bounded(SendCap[server]) /\ \A i \in reads : socket[i] # None
  BY <1>1, <1>2 DEF BlockingInv, BlockingReader, Bounded
<1> QED BY <1>1, <1>3, JobInOnePlaceFollows, AnswersStayInSlotFollows DEF BlockingInv

-----------------------------------------------------------------------------
(* The IOCP server.                                                         *)

\* The definitions that the server shares with StreamServer are the same.
LEMMA IocpSharedIs ==
    /\ \A w, from, to : I!WorkerGoto(w, from, to) <=> WorkerGoto(w, from, to)
    /\ \A w : I!JobDone(w) <=> JobDone(w)
    /\ \A w : I!GiveUpJob(w) <=> GiveUpJob(w)
    /\ \A w : I!JobSlot(w) = JobSlot(w)
    /\ \A w, pc : I!TakeJob(w, pc) <=> TakeJob(w, pc)
    /\ \A s, names : I!Flawed(s, names) <=> Flawed(s, names)
    /\ \A buf, job : I!Fits(buf, job) <=> Fits(buf, job)
    /\ \A job : I!Answer(job) = Answer(job)
    /\ \A buf, n : I!Drop(buf, n) = Drop(buf, n)
    /\ \A s, buf, n : I!GiveKernel(s, buf, n) <=> GiveKernel(s, buf, n)
    /\ \A s, n : I!Reads(s, n) <=> Reads(s, n)
BY DEF I!WorkerGoto, WorkerGoto, I!JobDone, JobDone, I!Idle, Idle, I!NoWork, NoWork, I!None, None,
       I!GiveUpJob, GiveUpJob, I!JobSlot, JobSlot, I!TakeJob, TakeJob, I!Flawed, Flawed, I!Fits, Fits,
       I!Size, Size, I!Answer, Answer, I!Drop, Drop, I!GiveKernel, GiveKernel, I!Reads, Reads

\* The answers that may be left to a slot stay so.
LEMMA LeftGrows ==
    ASSUME ctx \in [Session -> Context], ctx' \in [Session -> Context], Grows
    PROVE  \A i \in Slot : Left(i) \subseteq Left(i)'
<1> SUFFICES ASSUME NEW i \in Slot, NEW a \in Left(i) PROVE a \in Left(i)'
  OBVIOUS
<1>1. a \in Job /\ a \notin Bad /\ a[1] \in Session /\ a[2] \in Nat
      /\ a[2] <= ctx[a[1]].popped /\ ctx[a[1]].slot = i /\ ctx[a[1]].slot # None
  BY Names DEF Left, Known, Job
<1>2. ctx[a[1]].popped \in Nat /\ ctx'[a[1]].popped \in Nat
  BY <1>1 DEF Context
<1>3. ctx'[a[1]].slot = i /\ ctx[a[1]].popped <= ctx'[a[1]].popped
  BY <1>1 DEF Grows
<1> QED BY <1>1, <1>2, <1>3 DEF Left, Known

\* They are those of its newest session's buffer.
LEMMA LeftIs ==
    ASSUME Stream, NEW i \in Slot, NEW s \in Session, Newest(i, s)
    PROVE  Of(s) = Left(i) /\ ctx[s].slot # None
BY Names DEF Of, Left, Newest, Known, Job

\* Connection i becomes c.
LEMMA SetConnIs ==
    ASSUME IocpInv, NEW i \in Slot, NEW c \in Connection, I!SetConn(i, c)
    PROVE  /\ reader' = [conn |-> reader'.conn, threads |-> reader'.threads, posted |-> reader'.posted]
           /\ reader'.conn \in [Slot -> Connection]
           /\ \A j \in Slot : reader'.conn[j] = IF j = i THEN c ELSE reader.conn[j]
<1> DEFINE d == [reader.conn EXCEPT ![i] = c]
<1>1. reader = [conn |-> reader.conn, threads |-> reader.threads, posted |-> reader.posted]
  BY DEF IocpInv, IocpReader
<1>2. reader' = [reader EXCEPT !.conn = d]
  BY DEF I!SetConn
<1>3. d \in [Slot -> Connection] /\ \A j \in Slot : d[j] = IF j = i THEN c ELSE reader.conn[j]
  BY DEF IocpInv, IocpReader
<1> HIDE DEF d
<1>4. reader'.conn = d /\ reader' = [conn |-> d, threads |-> reader.threads, posted |-> reader.posted]
  BY <1>1, <1>2
<1> QED BY <1>3, <1>4

\* A step that changes connection i leaves the others as they were.
LEMMA IocpOthersStay ==
    ASSUME IocpInv, ctx' \in [Session -> Context], Grows, NEW i \in Slot, NEW c \in Connection,
           I!SetConn(i, c), IocpConn(i)',
           \A j \in Slot : j # i => /\ socket'[j] = socket[j] /\ Clients'[j] = Clients[j]
                                    /\ j \in reads' => j \in reads
                                    /\ j \in writes' => j \in writes,
           \A s \in Session : ctx[s].slot \notin {None, i} => ctx'[s].sendBuffer = ctx[s].sendBuffer
    PROVE  IocpReader'
<1>1. /\ reader' = [conn |-> reader'.conn, threads |-> reader'.threads, posted |-> reader'.posted]
      /\ reader'.conn \in [Slot -> Connection]
      /\ \A j \in Slot : reader'.conn[j] = IF j = i THEN c ELSE reader.conn[j]
  BY SetConnIs
<1>2. ASSUME NEW j \in Slot, j # i PROVE IocpConn(j)'
  <2> DEFINE d == reader.conn[j]
  <2>1. reader'.conn[j] = d /\ d \in Connection /\ IocpConn(j)
    BY <1>1, <1>2 DEF IocpInv, IocpReader
  <2>2. socket'[j] = socket[j] /\ Clients'[j] = Clients[j] /\ (j \in reads' => j \in reads)
        /\ (j \in writes' => j \in writes)
    BY <1>2
  <2>3. d.left \in Seq(Left(j)')
    <3>1. Left(j) \subseteq Left(j)'
      BY LeftGrows DEF IocpInv, Stream, Shapes
    <3>2. d.left \in Seq(Left(j))
      BY <2>1 DEF IocpConn
    <3> QED BY <3>1, <3>2, SeqMonotonic
  <2>4. d.sender # None => d.sender \in Session /\ ctx[d.sender].slot # None /\ ctx'[d.sender].slot # None
    BY <2>1 DEF IocpConn, Connection, Grows
  <2>5. ASSUME j \in writes', ~d.done, socket'[j] = d.sender
        PROVE  d.len <= Len(ctx'[d.sender].sendBuffer)
    <3>1. d.sender # None /\ socket[j] = d.sender /\ d.len <= Len(ctx[d.sender].sendBuffer)
      BY <2>1, <2>2, <2>5 DEF IocpConn
    <3>2. ctx[d.sender].slot = j
      BY <3>1 DEF IocpInv, Stream, Tables, Newest
    <3>3. ctx'[d.sender].sendBuffer = ctx[d.sender].sendBuffer
      BY <1>2, <2>4, <3>1, <3>2, Names
    <3> QED BY <3>1, <3>3
  <2>6. Len(d.left) <= SendCap["iocp"]
    BY <2>1 DEF IocpConn
  <2> HIDE DEF d
  <2>7. /\ d.pc = "accept" <=> Clients'[j] = None
        /\ socket'[j] = Clients'[j]
        /\ j \in reads' => d.pc = "recv"
        /\ j \in writes' => d.sender # None
    BY <2>1, <2>2 DEF IocpConn, d
  <2>8. (j \in writes' /\ ~d.done /\ socket'[j] = d.sender) => d.len <= Len(ctx'[d.sender].sendBuffer)
    BY <2>5
  <2> QED BY <2>1, <2>3, <2>4, <2>6, <2>7, <2>8 DEF IocpConn
<1> QED BY <1>1, <1>2 DEF IocpReader

\* The connections do not depend on what the other steps change.
LEMMA IocpReaderStays ==
    ASSUME IocpInv, ctx' \in [Session -> Context], Grows, UNCHANGED <<socket, Clients, reads, writes>>,
           reader' = [conn |-> reader.conn, threads |-> reader'.threads, posted |-> reader'.posted],
           \A s \in Session : ctx'[s].sendBuffer = ctx[s].sendBuffer
    PROVE  IocpReader'
<1>1. reader'.conn = reader.conn /\ reader.conn \in [Slot -> Connection]
  BY DEF IocpInv, IocpReader
<1>2. ASSUME NEW i \in Slot PROVE IocpConn(i)'
  <2>1. IocpConn(i) /\ reader.conn[i] \in Connection
    BY <1>1 DEF IocpInv, IocpReader
  <2>2. reader.conn[i].left \in Seq(Left(i)')
    <3>1. Left(i) \subseteq Left(i)'
      BY LeftGrows DEF IocpInv, Stream, Shapes
    <3> QED BY <2>1, <3>1, SeqMonotonic DEF IocpConn
  <2>3. reader.conn[i].sender # None => reader.conn[i].sender \in Session
    BY <2>1 DEF Connection
  <2> QED BY <1>1, <2>1, <2>2, <2>3 DEF IocpConn, Grows
<1> QED BY <1>1, <1>2 DEF IocpReader

\* In particular if no context changes.
LEMMA IocpSame ==
    ASSUME IocpInv, UNCHANGED <<ctx, socket, Clients, reads, writes, reader>>
    PROVE  IocpReader'
<1>1. Grows /\ ctx' \in [Session -> Context]
  BY DEF IocpInv, Stream, Shapes, Context, Grows
<1>2. reader' = [conn |-> reader.conn, threads |-> reader'.threads, posted |-> reader'.posted]
  BY DEF IocpInv, IocpReader
<1> QED BY <1>1, <1>2, IocpReaderStays

\* What is said of a connection in the accept state.
LEMMA IocpConnIs ==
    ASSUME IocpInv, NEW i \in Slot
    PROVE  IocpConn(i) /\ reader.conn[i] \in Connection /\ I!conn = reader.conn
BY DEF IocpInv, IocpReader, I!conn

\* DoAccept gives a new session what was left in the buffer of the connection.
LEMMA IocpDoAcceptKeeps ==
    ASSUME IocpInv, NEW s \in Session, I!DoAccept(s), server' = server
    PROVE  IocpInv'
<1>1. PICK i \in Slot :
        /\ reader.conn[i].pc = "accept"
        /\ socket' = [socket EXCEPT ![i] = s]
        /\ Clients' = [Clients EXCEPT ![i] = s]
        /\ ctx' = [ctx EXCEPT ![s].slot = i, ![s].sendBuffer = reader.conn[i].left]
        /\ reads' = reads \cup {i}
        /\ I!SetConn(i, [reader.conn[i] EXCEPT !.pc = "recv", !.left = <<>>])
        /\ \E names \in {{"unwatched"}, {}} : Flawed(s, names)
  <2>1. \A t, names : I!Flawed(t, names) <=> Flawed(t, names)
    BY IocpSharedIs
  <2> QED BY <2>1 DEF I!DoAccept, I!BindIOCP, I!BindRecv, I!conn
<1> DEFINE c == [ctx[s] EXCEPT !.slot = i, !.sendBuffer = reader.conn[i].left]
           d == [reader.conn[i] EXCEPT !.pc = "recv", !.left = NoJob]
<1>2. ctx' = [ctx EXCEPT ![s] = c] /\ I!SetConn(i, d)
  BY <1>1 DEF IocpInv, Stream, Shapes, NoJob
<1>3. IocpConn(i) /\ reader.conn[i] \in Connection
  BY IocpConnIs
<1>4. /\ net[s].peer = "connecting" /\ \A r \in 1 .. s - 1 : net[r].peer # "connecting"
      /\ net' = [net EXCEPT ![s].peer = "open"]
      /\ UNCHANGED <<writes, m_JobQueue, finished, worker, main>>
  BY DEF I!DoAccept, I!Pending
<1>5. ctx[s].slot = None /\ ctx[s].popped = 0
  BY <1>4 DEF IocpInv, Stream, Fresh, Away, NewContext
<1>6. /\ c \in Context /\ c.slot = i /\ c.popped = 0 /\ c.sendBuffer = reader.conn[i].left
      /\ c.sendBuffer \in Seq({a \in Known : ctx[a[1]].slot = i})
  <2> DEFINE left == reader.conn[i].left
  <2>1. left \in Seq(Job) /\ left \in Seq(Left(i))
    BY <1>3 DEF Connection, IocpConn
  <2>2. ctx[s] \in Context
    BY DEF IocpInv, Stream, Shapes
  <2> HIDE DEF left
  <2>3. [ctx[s] EXCEPT !.slot = i, !.sendBuffer = left] \in Context
    BY <2>1, <2>2 DEF Context
  <2>4. c = [ctx[s] EXCEPT !.slot = i, !.sendBuffer = left]
    BY DEF left
  <2>5. c.slot = i /\ c.popped = 0 /\ c.sendBuffer = left
    BY <1>5, <2>2 DEF Context, left
  <2> QED BY <2>1, <2>3, <2>4, <2>5 DEF Left, left
<1>7. /\ d \in Connection /\ d.pc = "recv" /\ d.left = NoJob
      /\ d.len = reader.conn[i].len /\ d.sender = reader.conn[i].sender /\ d.done = reader.conn[i].done
  <2>1. NoJob \in Seq(Job)
    BY EmptySeq DEF NoJob
  <2> QED BY <1>3, <2>1 DEF Connection
<1> HIDE DEF c, d
<1>8. flaw' \in [Session -> SUBSET Flaws] /\ FlawsStay
  <2>1. {"unwatched"} \in SUBSET Flaws /\ {} \in SUBSET Flaws
    BY DEF Flaws
  <2> QED BY <1>1, <2>1, FlawedIs DEF IocpInv
<1>9. reads' \subseteq Slot /\ writes' \subseteq Slot
  BY <1>1, <1>4 DEF IocpInv, Stream, Shapes
<1>10. Stream' /\ \A r \in Session : ctx'[r] = IF r = s THEN c ELSE ctx[r]
  <2>1. /\ socket' = [socket EXCEPT ![i] = s] /\ Clients' = [Clients EXCEPT ![i] = s]
        /\ ctx' = [ctx EXCEPT ![s] = c] /\ Stream
    BY <1>1, <1>2 DEF IocpInv
  <2>2. c \in Context /\ c.slot = i /\ c.popped = 0
        /\ c.sendBuffer \in Seq({a \in Known : ctx[a[1]].slot = i})
    BY <1>6, Zenon
  <2>3. /\ net[s].peer = "connecting" /\ \A r \in 1 .. s - 1 : net[r].peer # "connecting"
        /\ net' = [net EXCEPT ![s].peer = "open"]
        /\ UNCHANGED <<m_JobQueue, finished, worker, main>>
    BY <1>4
  <2>4. flaw' \in [Session -> SUBSET Flaws] /\ FlawsStay
    BY <1>8, Zenon
  <2>5. reads' \subseteq Slot /\ writes' \subseteq Slot
    BY <1>9, Zenon
  <2> QED BY <2>1, <2>2, <2>3, <2>4, <2>5, AcceptKeeps, Zenon
<1>11. Grows /\ ctx' \in [Session -> Context]
  <2>1. \A r \in Session : ctx[r].popped \in Nat
    BY DEF IocpInv, Stream, Shapes, Context
  <2>2. ctx' \in [Session -> Context]
    BY <1>10 DEF Stream, Shapes
  <2> QED BY <1>5, <1>6, <1>10, <2>1, <2>2 DEF Grows
<1>12. IocpConn(i)'
  <2>1. reader'.conn[i] = d
    BY <1>2, <1>7, SetConnIs
  <2>2. socket'[i] = s /\ Clients'[i] = s /\ s # None
    BY <1>1, Names DEF IocpInv, Stream, Shapes
  <2>3. NoJob \in Seq(Left(i)') /\ Len(NoJob) = 0
    BY EmptySeq DEF NoJob
  <2>4. SendCap["iocp"] \in Nat
    BY CapIs DEF Server
  <2>5. /\ i \in writes => d.sender # None
        /\ d.sender # None => d.sender \in Session /\ ctx[d.sender].slot # None
    BY <1>3, <1>7 DEF IocpConn, Connection
  <2>6. d.sender # None => d.sender # s /\ ctx'[d.sender].slot # None
    BY <1>5, <1>11, <2>5 DEF Grows
  <2>7. i \in writes => d.sender # s
    BY <2>5, <2>6
  <2>8. writes' = writes
    BY <1>4
  <2>9. i \in writes' => d.sender # None /\ d.sender # socket'[i]
    BY <2>2, <2>5, <2>7, <2>8
  <2>10. d.pc # "accept" /\ d.pc = "recv" /\ Clients'[i] # None /\ socket'[i] = Clients'[i]
    BY <1>7, <2>2
  <2>11. d.left \in Seq(Left(i)') /\ Len(d.left) <= SendCap["iocp"]
    BY <1>7, <2>3, <2>4
  <2>12. d.sender # None => ctx'[d.sender].slot # None
    BY <2>6
  <2> QED BY <2>1, <2>9, <2>10, <2>11, <2>12 DEF IocpConn
<1>13. IocpReader'
  <2>1. \A j \in Slot : j # i => /\ socket'[j] = socket[j] /\ Clients'[j] = Clients[j]
                                 /\ j \in reads' => j \in reads
                                 /\ j \in writes' => j \in writes
    BY <1>1, <1>4 DEF IocpInv, Stream, Shapes
  <2>2. \A r \in Session : ctx[r].slot \notin {None, i} => ctx'[r].sendBuffer = ctx[r].sendBuffer
    BY <1>5, <1>10
  <2> QED BY <1>2, <1>7, <1>11, <1>12, <2>1, <2>2, IocpOthersStay
<1>14. Bounded(SendCap["iocp"])'
  BY <1>3, <1>6, <1>10 DEF IocpInv, Bounded, IocpConn
<1> QED BY <1>10, <1>13, <1>14 DEF IocpInv

\* Connection i receives, or what it received is handled; the buffers stay.
LEMMA IocpMovesKeeps ==
    ASSUME IocpInv, NEW i \in Slot, NEW d \in Connection, ctx' \in [Session -> Context], Grows,
           I!SetConn(i, d), reader.conn[i].pc # "accept", d.pc # "accept", i \in reads' => d.pc = "recv",
           d.left = NoJob \/ d.left = reader.conn[i].left,
           d.len = reader.conn[i].len, d.sender = reader.conn[i].sender, d.done = reader.conn[i].done,
           UNCHANGED <<socket, Clients, writes>>, reads' \in {reads \cup {i}, reads \ {i}},
           \A s \in Session : ctx'[s].sendBuffer = ctx[s].sendBuffer
    PROVE  IocpReader'
<1>1. IocpConn(i) /\ reader.conn[i] \in Connection
  BY IocpConnIs
<1>2. reader'.conn[i] = d
  BY SetConnIs
<1>3. d.left \in Seq(Left(i)') /\ Len(d.left) <= SendCap["iocp"]
  <2>1. Left(i) \subseteq Left(i)' /\ reader.conn[i].left \in Seq(Left(i))
        /\ Len(reader.conn[i].left) <= SendCap["iocp"]
    BY <1>1, LeftGrows DEF IocpInv, Stream, Shapes, IocpConn
  <2>2. NoJob \in Seq(Left(i)') /\ Len(NoJob) = 0 /\ SendCap["iocp"] \in Nat
    BY EmptySeq, CapIs DEF NoJob, Server
  <2>3. reader.conn[i].left \in Seq(Left(i)')
    BY <2>1, SeqMonotonic
  <2>4. CASE d.left = NoJob
    <3>1. Len(d.left) = 0
      BY <2>2, <2>4
    <3> QED BY <2>2, <2>4, <3>1
  <2>5. CASE d.left = reader.conn[i].left
    BY <2>1, <2>3, <2>5
  <2> QED BY <2>4, <2>5
<1>4. d.sender # None => d.sender \in Session /\ ctx'[d.sender].slot # None
  BY <1>1 DEF IocpConn, Connection, Grows
<1>5. Clients'[i] # None /\ socket'[i] = Clients'[i]
  BY <1>1 DEF IocpConn
<1>6. i \in writes' => d.sender # None
  BY <1>1 DEF IocpConn
<1>7. i \in writes' /\ ~d.done /\ socket'[i] = d.sender => d.len <= Len(ctx'[d.sender].sendBuffer)
  BY <1>1, <1>4, <1>6 DEF IocpConn
<1>8. IocpConn(i)'
  BY <1>2, <1>3, <1>4, <1>5, <1>6, <1>7 DEF IocpConn
<1> QED BY <1>8, IocpOthersStay

\* In particular BindRecv keeps it,
LEMMA IocpReceivesKeeps ==
    ASSUME IocpInv, NEW i \in Slot, ctx' \in [Session -> Context], Grows, reader.conn[i].pc = "parse",
           I!SetConn(i, [reader.conn[i] EXCEPT !.pc = "recv", !.left = <<>>]),
           UNCHANGED <<socket, Clients, writes>>, reads' = reads \cup {i},
           \A s \in Session : ctx'[s].sendBuffer = ctx[s].sendBuffer
    PROVE  IocpReader'
<1> DEFINE d == [reader.conn[i] EXCEPT !.pc = "recv", !.left = NoJob]
<1>1. reader.conn[i] \in Connection /\ NoJob \in Seq(Job)
  BY IocpConnIs, EmptySeq DEF NoJob
<1>2. /\ d \in Connection /\ d.pc = "recv" /\ d.left = NoJob
      /\ d.len = reader.conn[i].len /\ d.sender = reader.conn[i].sender /\ d.done = reader.conn[i].done
  BY <1>1 DEF Connection
<1>3. I!SetConn(i, d)
  BY DEF NoJob
<1> HIDE DEF d
<1> QED BY <1>2, <1>3, IocpMovesKeeps

\* and so does a completed receive.
LEMMA IocpHandlesKeeps ==
    ASSUME IocpInv, NEW i \in Slot, ctx' \in [Session -> Context], Grows, reader.conn[i].pc # "accept",
           I!SetConn(i, [reader.conn[i] EXCEPT !.pc = "parse"]),
           UNCHANGED <<socket, Clients, writes>>, reads' = reads \ {i},
           \A s \in Session : ctx'[s].sendBuffer = ctx[s].sendBuffer
    PROVE  IocpReader'
<1> DEFINE d == [reader.conn[i] EXCEPT !.pc = "parse"]
<1>1. reader.conn[i] \in Connection
  BY IocpConnIs
<1>2. /\ d \in Connection /\ d.pc = "parse" /\ d.left = reader.conn[i].left
      /\ d.len = reader.conn[i].len /\ d.sender = reader.conn[i].sender /\ d.done = reader.conn[i].done
  BY <1>1 DEF Connection
<1>3. I!SetConn(i, d)
  OBVIOUS
<1> HIDE DEF d
<1> QED BY <1>2, <1>3, IocpMovesKeeps

\* What Disconnect and SendCancelled have in common.
LEMMA IocpResetKeeps ==
    ASSUME IocpInv, NEW i \in Slot, I!ResetConnection(i), writes' \in {writes, writes \ {i}},
           flaw' \in [Session -> SUBSET Flaws], FlawsStay, server' = server,
           UNCHANGED <<net, ctx, m_JobQueue, finished, worker, main>>
    PROVE  IocpInv'
<1> DEFINE d == [reader.conn[i] EXCEPT !.pc = "accept", !.left = NoJob]
<1>1. /\ Clients' = [Clients EXCEPT ![i] = None] /\ socket' = [socket EXCEPT ![i] = None]
      /\ reads' = reads \ {i} /\ I!SetConn(i, d)
  BY Instances DEF I!ResetConnection, I!InitConnection, I!BindAcceptEx, I!conn, NoJob
<1>2. IocpConn(i) /\ reader.conn[i] \in Connection
  BY IocpConnIs
<1>3. /\ d \in Connection /\ d.pc = "accept" /\ d.left = NoJob
      /\ d.len = reader.conn[i].len /\ d.sender = reader.conn[i].sender /\ d.done = reader.conn[i].done
  <2>1. NoJob \in Seq(Job)
    BY EmptySeq DEF NoJob
  <2> QED BY <1>2, <2>1 DEF Connection
<1> HIDE DEF d
<1>4. TablesLose /\ socket' \in [Slot -> Session \cup {None}] /\ Clients' \in [Slot -> Session \cup {None}]
  BY <1>1 DEF TablesLose, IocpInv, Stream, Shapes
<1>5. Calm
  BY <1>1, <1>4, SameIs DEF IocpInv, Calm, Stream, Shapes
<1>6. IocpConn(i)'
  <2>1. reader'.conn[i] = d /\ socket'[i] = None /\ Clients'[i] = None /\ i \notin reads'
    BY <1>1, <1>3, SetConnIs DEF IocpInv, Stream, Shapes
  <2>2. NoJob \in Seq(Left(i)') /\ Len(NoJob) = 0 /\ SendCap["iocp"] \in Nat
    BY EmptySeq, CapIs DEF NoJob, Server
  <2>3. d.left \in Seq(Left(i)') /\ Len(d.left) <= SendCap["iocp"]
    BY <1>3, <2>2
  <2>4. i \in writes' => d.sender # None
    BY <1>2, <1>3 DEF IocpConn
  <2>5. d.sender # None => ctx'[d.sender].slot # None
    BY <1>2, <1>3 DEF IocpConn
  <2>6. i \in writes' => socket'[i] # d.sender
    BY <2>1, <2>4
  <2>7. d.pc = "accept"
    BY <1>3
  <2> QED BY <2>1, <2>3, <2>4, <2>5, <2>6, <2>7 DEF IocpConn
<1>7. IocpReader'
  <2>1. Grows /\ ctx' \in [Session -> Context]
    BY DEF Grows, IocpInv, Stream, Shapes, Context
  <2>2. \A j \in Slot : j # i => /\ socket'[j] = socket[j] /\ Clients'[j] = Clients[j]
                                 /\ j \in reads' => j \in reads
                                 /\ j \in writes' => j \in writes
    BY <1>1 DEF IocpInv, Stream, Shapes
  <2>3. \A s \in Session : ctx'[s].sendBuffer = ctx[s].sendBuffer
    OBVIOUS
  <2> QED BY <1>1, <1>3, <1>6, <2>1, <2>2, <2>3, IocpOthersStay
<1> QED BY <1>5, <1>7, CalmKeeps DEF IocpInv, Bounded

\* Disconnect resets the connection.
LEMMA IocpDisconnectKeeps ==
    ASSUME IocpInv, NEW i \in Slot, I!Disconnect(i), server' = server
    PROVE  IocpInv'
<1>1. /\ I!ResetConnection(i)
      /\ UNCHANGED <<net, ctx, writes, m_JobQueue, finished, worker, main, flaw>>
  BY DEF I!Disconnect
<1> QED BY <1>1, SameIs, IocpResetKeeps DEF IocpInv

\* SendCancelled resets it, whoever has it by now.
LEMMA IocpSendCancelledKeeps ==
    ASSUME IocpInv, NEW i \in Slot, I!SendCancelled(i), server' = server
    PROVE  IocpInv'
<1>1. /\ I!ResetConnection(i) /\ writes' = writes \ {i}
      /\ UNCHANGED <<net, ctx, m_JobQueue, finished, worker, main>>
      /\ flaw' = flaw \/ (Clients[i] # None /\ Flawed(Clients[i], {"cut_off"}))
  BY IocpSharedIs, Instances DEF I!SendCancelled
<1>2. flaw' \in [Session -> SUBSET Flaws] /\ FlawsStay
  <2>1. {"cut_off"} \in SUBSET Flaws
    BY DEF Flaws
  <2>2. Clients[i] # None => Clients[i] \in Session
    BY DEF IocpInv, Stream, Shapes
  <2> QED BY <1>1, <2>1, <2>2, FlawedIs, SameIs DEF IocpInv
<1> QED BY <1>1, <1>2, IocpResetKeeps

\* The session that a receive or a request is of.
LEMMA IocpSessionIs ==
    ASSUME IocpInv, NEW i \in Slot, i \in reads \/ reader.conn[i].pc = "parse"
    PROVE  /\ socket[i] = Clients[i] /\ socket[i] \in Session /\ ctx[socket[i]].slot # None
           /\ reader.conn[i].pc # "accept"
<1>1. reader.conn[i].pc # "accept" /\ socket[i] = Clients[i] /\ socket[i] # None
  BY IocpConnIs DEF IocpConn
<1>2. socket[i] \in Session /\ Newest(i, socket[i])
  BY <1>1 DEF IocpInv, Stream, Shapes, Tables
<1> QED BY <1>1, <1>2, Names DEF Newest

\* DoRecv reads a chunk of the session.
LEMMA IocpDoRecvKeeps ==
    ASSUME IocpInv, NEW i \in Slot, I!DoRecv(i), server' = server
    PROVE  IocpInv'
<1> DEFINE s == socket[i]
<1>1. /\ i \in reads /\ I!SetConn(i, [reader.conn[i] EXCEPT !.pc = "parse"]) /\ reads' = reads \ {i}
      /\ UNCHANGED <<socket, Clients, writes, m_JobQueue, finished, worker, main>>
  BY DEF I!DoRecv, I!conn
<1>2. PICK n \in 1 .. RecvCap : I!Reads(s, n) /\ I!StorePartialMessage(s, n)
  BY DEF I!DoRecv
<1>3. Reads(s, n) /\ Stores(s, n) /\ (flaw' = flaw \/ Flawed(s, {"cut"}))
  BY <1>2, IocpSharedIs, Zenon DEF I!StorePartialMessage, Stores
<1>4. s \in Session /\ ctx[s].slot # None /\ reader.conn[i].pc # "accept"
  BY <1>1, IocpSessionIs
<1> HIDE DEF s
<1>5. /\ Only(s) /\ ctx'[s].popped = ctx[s].popped
      /\ \A r \in Session : ctx'[r].sendBuffer = ctx[r].sendBuffer
  BY <1>3, <1>4, ReadIs DEF IocpInv
<1>6. flaw' \in [Session -> SUBSET Flaws] /\ FlawsStay
  <2>1. {"cut"} \in SUBSET Flaws
    BY DEF Flaws
  <2> QED BY <1>3, <1>4, <2>1, FlawedIs, SameIs DEF IocpInv
<1>7. Stream'
  <2>1. reads' \subseteq Slot /\ writes' \subseteq Slot
    BY <1>1 DEF IocpInv, Stream, Shapes
  <2> QED BY <1>1, <1>4, <1>5, <1>6, <2>1, OnlyKeeps DEF IocpInv
<1>8. Grows
  <2>1. TablesLose
    BY <1>1, SameIs DEF IocpInv
  <2> QED BY <1>4, <1>5, <2>1, OnlyStays, StaysKeeps DEF IocpInv, Stream
<1>9. IocpReader'
  BY <1>1, <1>4, <1>5, <1>8, IocpHandlesKeeps DEF Only
<1> QED BY <1>5, <1>7, <1>9 DEF IocpInv, Bounded

\* OnReceive makes a job of the session's next request.
LEMMA IocpOnReceiveKeeps ==
    ASSUME IocpInv, NEW i \in Slot, I!OnReceive(i), server' = server
    PROVE  IocpInv'
<1> DEFINE s == Clients[i]
<1>1. /\ reader.conn[i].pc = "parse"
      /\ UNCHANGED <<net, socket, Clients, writes, finished, worker, flaw>>
  BY DEF I!OnReceive, I!conn
<1>2. s \in Session /\ ctx[s].slot # None
  BY <1>1, IocpSessionIs
<1>3. CASE /\ ctx[s].stored >= 2
           /\ ctx' = [ctx EXCEPT ![s].stored = @ - 2, ![s].popped = @ + 1]
           /\ m_JobQueue' = IF Next1(s) \in Bad THEN m_JobQueue ELSE Append(m_JobQueue, Next1(s))
           /\ main' = IF main = "constructed" THEN "crashed" ELSE main
           /\ UNCHANGED <<reads, reader>>
  <2> HIDE DEF s
  <2>1. /\ Stream' /\ \A r \in Session : /\ ctx'[r].sendBuffer = ctx[r].sendBuffer
                                         /\ ctx'[r].slot = ctx[r].slot
    BY <1>1, <1>2, <1>3, RequestKeeps DEF IocpInv
  <2>2. Only(s)
    BY <1>1, <1>2, <1>3, PopIs DEF IocpInv
  <2>3. Grows /\ ctx' \in [Session -> Context]
    <3>1. TablesLose
      BY <1>1, SameIs DEF IocpInv
    <3> QED BY <1>2, <2>2, <3>1, OnlyStays, StaysKeeps DEF IocpInv, Stream, Only
  <2>4. IocpReader'
    <3>1. reader' = [conn |-> reader.conn, threads |-> reader'.threads, posted |-> reader'.posted]
      BY <1>3 DEF IocpInv, IocpReader
    <3> QED BY <1>1, <1>3, <2>1, <2>3, <3>1, IocpReaderStays
  <2> QED BY <2>1, <2>4 DEF IocpInv, Bounded
<1>4. CASE /\ reads' = reads \cup {i}
           /\ I!SetConn(i, [reader.conn[i] EXCEPT !.pc = "recv", !.left = <<>>])
           /\ UNCHANGED <<ctx, m_JobQueue, main>>
  <2> HIDE DEF s
  <2>1. Stream'
    <3>1. Calm
      BY <1>1, <1>4, SameIs DEF IocpInv, Calm, Stream, Shapes
    <3> QED BY <3>1, CalmKeeps DEF IocpInv
  <2>2. Grows /\ ctx' \in [Session -> Context]
    BY <1>4 DEF Grows, IocpInv, Stream, Shapes, Context
  <2>3. IocpReader'
    BY <1>1, <1>4, <2>2, IocpReceivesKeeps
  <2> QED BY <1>4, <2>1, <2>3 DEF IocpInv, Bounded
<1>5. I!OnReceive(i) => IF I!GetReqMessage(s) THEN I!CreateJob(s) /\ I!PopRecvBuffer(s) /\ UNCHANGED <<reads, reader>>
                        ELSE I!BindRecv(i) /\ UNCHANGED <<ctx, m_JobQueue, main>>
  BY DEF I!OnReceive
<1>6. CASE I!GetReqMessage(s)
  BY <1>3, <1>5, <1>6 DEF I!GetReqMessage, I!CreateJob, Next1, I!PopRecvBuffer
<1>7. CASE ~I!GetReqMessage(s)
  BY <1>4, <1>5, <1>7 DEF I!BindRecv, I!conn
<1> QED BY <1>6, <1>7

\* The kernel takes what a send is of; it is still in its session's buffer.
LEMMA IocpKernelSendsKeeps ==
    ASSUME IocpInv, NEW i \in Slot, I!KernelSends(i), server' = server
    PROVE  IocpInv'
<1> DEFINE s == reader.conn[i].sender
           n == reader.conn[i].len
           buf == ctx[s].sendBuffer
           d == [reader.conn[i] EXCEPT !.done = TRUE]
<1>1. /\ i \in writes /\ ~reader.conn[i].done /\ socket[i] = s /\ net[s].room >= n
      /\ GiveKernel(s, buf, n) /\ I!SetConn(i, d)
      /\ UNCHANGED <<socket, Clients, ctx, reads, writes, m_JobQueue, finished, worker, main, flaw>>
  BY IocpSharedIs DEF I!KernelSends, I!conn
<1>2. IocpConn(i) /\ reader.conn[i] \in Connection
  BY IocpConnIs
<1>3. s \in Session /\ ctx[s].slot # None /\ n \in Nat /\ n <= Len(buf)
  BY <1>1, <1>2 DEF IocpConn, Connection
<1>4. /\ d \in Connection /\ d.pc = reader.conn[i].pc /\ d.left = reader.conn[i].left
      /\ d.len = n /\ d.sender = s /\ d.done = TRUE
  BY <1>2 DEF Connection
<1> HIDE DEF d
<1>5. buf \in Seq(Of(s)) /\ net[s].room \in Nat
  <2> HIDE DEF s
  <2>1. net[s].room \in 0 .. Room
    BY <1>3 DEF IocpInv, Stream, Shapes, Net
  <2>2. buf \in Seq(Of(s))
    BY <1>3 DEF IocpInv, Stream, Buffers
  <2> QED BY <2>1, <2>2, Names
<1> HIDE DEF s, n
<1>6. n <= net[s].room
  BY <1>1, <1>3, <1>5
<1>7. /\ Only(s) /\ ctx'[s].popped = ctx[s].popped
      /\ \A r \in Session : ctx'[r].sendBuffer = ctx[r].sendBuffer
  BY <1>1, <1>3, <1>5, <1>6, GiveIs DEF IocpInv
<1>8. Stream'
  <2>1. reads' \subseteq Slot /\ writes' \subseteq Slot
    BY <1>1 DEF IocpInv, Stream, Shapes
  <2> QED BY <1>1, <1>3, <1>7, <2>1, SameIs, OnlyKeeps DEF IocpInv
<1>9. Grows /\ ctx' \in [Session -> Context]
  BY <1>1 DEF Grows, IocpInv, Stream, Shapes, Context
<1>10. IocpConn(i)'
  <2>1. reader'.conn[i] = d
    BY <1>1, <1>4, SetConnIs
  <2>2. Left(i) \subseteq Left(i)' /\ d.left \in Seq(Left(i)) /\ Len(d.left) <= SendCap["iocp"]
    BY <1>2, <1>4, <1>9, LeftGrows DEF IocpInv, Stream, Shapes, IocpConn
  <2>3. d.left \in Seq(Left(i)')
    BY <2>2, SeqMonotonic
  <2> QED BY <1>1, <1>2, <1>3, <1>4, <2>1, <2>2, <2>3, Names DEF IocpConn, s
<1>11. IocpReader'
  BY <1>1, <1>4, <1>7, <1>9, <1>10, IocpOthersStay
<1> QED BY <1>7, <1>8, <1>11 DEF IocpInv, Bounded

\* What is stored to be sent on connection i.
LEMMA IocpBufferIs ==
    ASSUME IocpInv, NEW i \in Slot
    PROVE  /\ I!SendBuffer(i) \in Seq(Left(i)) /\ Len(I!SendBuffer(i)) <= SendCap["iocp"]
           /\ Len(I!SendBuffer(i)) \in Nat
           /\ Clients[i] # None => /\ Clients[i] \in Session /\ Newest(i, Clients[i])
                                   /\ I!SendBuffer(i) = ctx[Clients[i]].sendBuffer
<1>1. IocpConn(i) /\ I!conn = reader.conn
  BY IocpConnIs
<1>2. CASE Clients[i] = None
  <2>1. I!SendBuffer(i) = reader.conn[i].left
    BY <1>1, <1>2, Instances DEF I!SendBuffer
  <2>2. I!SendBuffer(i) \in Seq(Left(i)) /\ Len(I!SendBuffer(i)) <= SendCap["iocp"]
    BY <1>1, <2>1 DEF IocpConn
  <2> QED BY <1>2, <2>2, LenProperties
<1>3. CASE Clients[i] # None
  <2> DEFINE s == Clients[i]
  <2>1. I!SendBuffer(i) = ctx[s].sendBuffer
    BY <1>3, Instances DEF I!SendBuffer
  <2>2. s \in Session /\ Newest(i, s)
    BY <1>3 DEF IocpInv, Stream, Shapes, Tables
  <2> HIDE DEF s
  <2>3. Of(s) = Left(i)
    BY <2>2, LeftIs DEF IocpInv
  <2>4. I!SendBuffer(i) \in Seq(Left(i)) /\ Len(I!SendBuffer(i)) <= SendCap["iocp"]
    BY <2>1, <2>2, <2>3 DEF IocpInv, Stream, Buffers, Bounded
  <2> QED BY <2>1, <2>2, <2>4, LenProperties DEF s
<1> QED BY <1>2, <1>3

\* No context changes but for the send buffer of one session.
Puts ==
    \/ ctx' = ctx
    \/ \E s \in Session : ctx[s].slot # None /\ Only(s) /\ ctx'[s].popped = ctx[s].popped

\* The send buffer of connection i becomes buf, and the connection c: what a send that is under way
\* is still to take of its sender's buffer is there.
Putting(i, buf, c) ==
    /\ I!PutBuffer(i, buf, c)
    /\ Len(buf) <= SendCap["iocp"]
    /\ c.pc = reader.conn[i].pc /\ c.left = reader.conn[i].left
    /\ i \in writes' => c.sender # None
    /\ c.sender # None => ctx[c.sender].slot # None
    /\ i \in writes' /\ ~c.done /\ socket[i] = c.sender => c.len <= Len(buf)

\* So the buffer of a connection may be replaced.
LEMMA IocpPutKeeps ==
    ASSUME IocpInv, NEW i \in Slot, NEW buf \in Seq(Left(i)), NEW c \in Connection, Putting(i, buf, c),
           UNCHANGED <<net, socket, Clients, reads>>, writes' \in {writes, writes \cup {i}, writes \ {i}}
    PROVE  IocpReader' /\ Bounded(SendCap["iocp"])' /\ Puts /\ writes' \subseteq Slot
<1> DEFINE d == IF Clients[i] = None THEN [c EXCEPT !.left = buf] ELSE c
           s == Clients[i]
<1>1. /\ I!SetConn(i, d)
      /\ ctx' = IF s = None THEN ctx ELSE [ctx EXCEPT ![s].sendBuffer = buf]
      /\ Len(buf) <= SendCap["iocp"]
  BY Instances DEF Putting, I!PutBuffer
<1>2. IocpConn(i) /\ reader.conn[i] \in Connection /\ SendCap["iocp"] \in Nat
  BY IocpConnIs, CapIs DEF Server
<1>3. s \in Session \cup {None}
  BY DEF IocpInv, Stream, Shapes
<1>4. s # None => s \in Session /\ Newest(i, s) /\ ctx[s].slot # None /\ ctx[s].slot = i /\ Of(s) = Left(i)
  <2> SUFFICES ASSUME s # None
               PROVE  s \in Session /\ Newest(i, s) /\ ctx[s].slot # None /\ ctx[s].slot = i /\ Of(s) = Left(i)
    OBVIOUS
  <2>1. s \in Session /\ Newest(i, s)
    BY <1>3 DEF IocpInv, Stream, Tables
  <2> QED BY <2>1, LeftIs, Names DEF IocpInv, Newest
<1>5. d \in Connection /\ d.pc = c.pc /\ d.len = c.len /\ d.sender = c.sender /\ d.done = c.done
      /\ d.left = IF s = None THEN buf ELSE c.left
  <2>1. buf \in Seq(Job)
    <3>1. Left(i) \subseteq Job
      BY DEF Left, Known
    <3> QED BY <3>1, SeqMonotonic
  <2>2. [c EXCEPT !.left = buf] \in Connection
    BY <2>1 DEF Connection
  <2> QED BY <2>2 DEF Connection
<1> HIDE DEF d
<1>6. s # None => Only(s) /\ ctx'[s].popped = ctx[s].popped /\ ctx'[s].sendBuffer = buf
  <2> HIDE DEF s
  <2> QED BY <1>1, <1>4, PutIs DEF IocpInv
<1>7. Puts
  BY <1>1, <1>4, <1>6 DEF Puts
<1>8. Grows /\ ctx' \in [Session -> Context]
  <2>1. CASE s = None
    BY <1>1, <2>1 DEF Grows, IocpInv, Stream, Shapes, Context
  <2>2. CASE s # None
    <3>1. TablesLose
      BY SameIs DEF IocpInv
    <3> HIDE DEF s
    <3> QED BY <1>4, <1>6, <2>2, <3>1, OnlyStays, StaysKeeps DEF IocpInv, Stream, Only
  <2> QED BY <2>1, <2>2
<1>9. Bounded(SendCap["iocp"])'
  <2>1. CASE s = None
    BY <1>1, <2>1 DEF IocpInv, Bounded
  <2>2. CASE s # None
    <3> HIDE DEF s
    <3> QED BY <1>1, <1>4, <1>6, <2>2, BoundedIs DEF IocpInv
  <2> QED BY <2>1, <2>2
<1>10. IocpConn(i)'
  <2>1. reader'.conn[i] = d
    BY <1>1, <1>5, SetConnIs
  <2>2. Left(i) \subseteq Left(i)'
    BY <1>8, LeftGrows DEF IocpInv, Stream, Shapes
  <2>3. d.left \in Seq(Left(i)') /\ Len(d.left) <= SendCap["iocp"]
    <3>1. c.left \in Seq(Left(i)) /\ Len(c.left) <= SendCap["iocp"]
      BY <1>2 DEF Putting, IocpConn
    <3>2. d.left \in Seq(Left(i)) /\ Len(d.left) <= SendCap["iocp"]
      BY <1>1, <1>5, <3>1
    <3> QED BY <2>2, <3>2, SeqMonotonic
  <2>4. d.sender # None => ctx'[d.sender].slot # None
    BY <1>5, <1>8 DEF Putting, Grows, Connection
  <2>5. i \in writes' => d.sender # None
    BY <1>5 DEF Putting
  <2>6. ASSUME i \in writes', ~d.done, socket'[i] = d.sender
        PROVE  d.len <= Len(ctx'[d.sender].sendBuffer)
    <3>1. d.sender = s /\ s # None
      BY <1>2, <2>5, <2>6 DEF IocpConn
    <3>2. c.len <= Len(buf)
      BY <1>5, <2>6 DEF Putting
    <3> QED BY <1>5, <1>6, <3>1, <3>2
  <2>7. /\ d.pc = "accept" <=> Clients'[i] = None
        /\ socket'[i] = Clients'[i]
        /\ i \in reads' => d.pc = "recv"
    BY <1>2, <1>5 DEF IocpConn, Putting
  <2> QED BY <2>1, <2>3, <2>4, <2>5, <2>6, <2>7 DEF IocpConn
<1>11. IocpReader'
  <2>1. \A r \in Session : ctx[r].slot \notin {None, i} => ctx'[r].sendBuffer = ctx[r].sendBuffer
    <3> HIDE DEF s
    <3>1. s = None => ctx' = ctx
      BY <1>1
    <3> QED BY <1>4, <1>6, <3>1 DEF Only
  <2>2. \A j \in Slot : j # i => /\ socket'[j] = socket[j] /\ Clients'[j] = Clients[j]
                                 /\ j \in reads' => j \in reads
                                 /\ j \in writes' => j \in writes
    OBVIOUS
  <2> QED BY <1>1, <1>5, <1>8, <1>10, <2>1, <2>2, IocpOthersStay
<1> QED BY <1>7, <1>9, <1>11 DEF IocpInv, Stream, Shapes

\* A send of buf on connection i.
LEMMA IocpSendIOKeeps ==
    ASSUME IocpInv, NEW i \in Slot, NEW buf \in Seq(Left(i)), Len(buf) <= SendCap["iocp"], I!SendIO(i, buf),
           UNCHANGED <<net, socket, Clients, reads>>
    PROVE  IocpReader' /\ Bounded(SendCap["iocp"])' /\ Puts /\ writes' \subseteq Slot
<1> DEFINE n == Len(buf)
           d == [reader.conn[i] EXCEPT !.len = n, !.sender = socket[i], !.done = FALSE]
<1>1. /\ I!PutBuffer(i, buf, d)
      /\ writes' = IF I!WSASendFails(i) THEN writes \ {i} ELSE writes \cup {i}
  BY DEF I!SendIO, I!conn
<1>2. IocpConn(i) /\ reader.conn[i] \in Connection /\ n \in Nat
  BY IocpConnIs, LenProperties
<1>3. socket[i] \in Session \cup {None}
  BY DEF IocpInv, Stream, Shapes
<1> HIDE DEF n
<1>4. /\ d \in Connection /\ d.pc = reader.conn[i].pc /\ d.left = reader.conn[i].left
      /\ d.len = n /\ d.sender = socket[i] /\ d.done = FALSE
  BY <1>2, <1>3 DEF Connection
<1> HIDE DEF d
<1>5. socket[i] # None => ctx[socket[i]].slot # None
  BY <1>3, Names DEF IocpInv, Stream, Tables, Newest
<1>6. i \in writes' => socket[i] # None
  BY <1>1, Instances DEF I!WSASendFails, IocpInv, Stream, Shapes
<1>7. n <= Len(buf)
  BY <1>2 DEF n
<1>8. Putting(i, buf, d)
  BY <1>1, <1>4, <1>5, <1>6, <1>7 DEF Putting
<1> QED BY <1>1, <1>4, <1>8, IocpPutKeeps

\* What is stored becomes buf, and nothing is sent: of what is being sent nothing is lost.
LEMMA IocpStoreKeeps ==
    ASSUME IocpInv, NEW i \in Slot, NEW buf \in Seq(Left(i)), Len(buf) <= SendCap["iocp"],
           NEW n \in {0, reader.conn[i].len}, I!PutBuffer(i, buf, [reader.conn[i] EXCEPT !.len = n]),
           writes' = writes \ {i} \/ (writes' = writes /\ Len(I!SendBuffer(i)) <= Len(buf)),
           UNCHANGED <<net, socket, Clients, reads>>
    PROVE  IocpReader' /\ Bounded(SendCap["iocp"])' /\ Puts /\ writes' \subseteq Slot
<1> DEFINE d == [reader.conn[i] EXCEPT !.len = n]
<1>1. I!PutBuffer(i, buf, d)
  OBVIOUS
<1>2. IocpConn(i) /\ reader.conn[i] \in Connection
  BY IocpConnIs
<1>3. n \in Nat
  BY <1>2 DEF Connection
<1>4. /\ d \in Connection /\ d.pc = reader.conn[i].pc /\ d.left = reader.conn[i].left
      /\ d.len = n /\ d.sender = reader.conn[i].sender /\ d.done = reader.conn[i].done
  BY <1>2, <1>3 DEF Connection
<1> HIDE DEF d
<1>5. i \in writes' => i \in writes /\ d.sender # None /\ Len(I!SendBuffer(i)) <= Len(buf)
  BY <1>2, <1>4 DEF IocpConn
<1>6. ASSUME i \in writes', ~d.done, socket[i] = d.sender
      PROVE  d.len <= Len(buf)
  <2>1. Len(I!SendBuffer(i)) \in Nat /\ Len(buf) \in Nat /\ reader.conn[i].len \in Nat
    BY <1>2, IocpBufferIs, LenProperties DEF Connection
  <2>2. reader.conn[i].len <= Len(I!SendBuffer(i))
    <3>1. Clients[i] = d.sender /\ Clients[i] # None
      BY <1>2, <1>5, <1>6 DEF IocpConn
    <3>2. I!SendBuffer(i) = ctx[d.sender].sendBuffer
      BY <3>1, IocpBufferIs
    <3> QED BY <1>2, <1>4, <1>5, <1>6, <3>2 DEF IocpConn
  <2> QED BY <1>3, <1>4, <1>5, <1>6, <2>1, <2>2
<1>7. Putting(i, buf, d)
  BY <1>1, <1>2, <1>4, <1>5, <1>6 DEF Putting, IocpConn
<1> QED BY <1>4, <1>7, IocpPutKeeps

\* DoSend drops what was sent, of whoever has the connection by now.
LEMMA IocpDoSendKeeps ==
    ASSUME IocpInv, NEW i \in Slot, I!DoSend(i), server' = server
    PROVE  IocpInv'
<1> DEFINE old == I!SendBuffer(i)
           n == IF reader.conn[i].len <= Len(old) THEN reader.conn[i].len ELSE 0
<1>1. /\ UNCHANGED <<net, socket, Clients, reads, m_JobQueue, finished, worker, main>>
      /\ IF n < Len(old) THEN I!SendIO(i, Drop(old, n))
         ELSE /\ I!PutBuffer(i, <<>>, [reader.conn[i] EXCEPT !.len = 0])
              /\ writes' = writes \ {i}
  BY IocpSharedIs DEF I!DoSend, I!conn
<1>2. flaw' \in [Session -> SUBSET Flaws] /\ FlawsStay
  <2>1. "popped" \in Flaws
    BY DEF Flaws
  <2>2. PICK others : flaw' = [s \in Session |-> IF s \in others THEN flaw[s] \cup {"popped"} ELSE flaw[s]]
    BY Instances DEF I!DoSend
  <2> QED BY <2>1, <2>2 DEF IocpInv, Stream, Shapes, FlawsStay
<1>3. old \in Seq(Left(i)) /\ Len(old) <= SendCap["iocp"] /\ Len(old) \in Nat
  BY IocpBufferIs
<1>4. reader.conn[i].len \in Nat
  BY IocpConnIs DEF Connection
<1>5. n \in Nat /\ n <= Len(old) /\ SendCap["iocp"] \in Nat
  BY <1>3, <1>4, CapIs DEF Server
<1> HIDE DEF old, n
<1>6. IocpReader' /\ Bounded(SendCap["iocp"])' /\ Puts /\ writes' \subseteq Slot
  <2>1. CASE I!SendIO(i, Drop(old, n))
    <3>1. Drop(old, n) \in Seq(Left(i)) /\ Len(Drop(old, n)) = Len(old) - n
      BY <1>3, <1>5, DropIs
    <3>2. Len(Drop(old, n)) <= SendCap["iocp"]
      BY <1>3, <1>5, <3>1
    <3> QED BY <1>1, <2>1, <3>1, <3>2, IocpSendIOKeeps
  <2>2. CASE I!PutBuffer(i, <<>>, [reader.conn[i] EXCEPT !.len = 0]) /\ writes' = writes \ {i}
    <3>1. NoJob \in Seq(Left(i)) /\ Len(NoJob) = 0 /\ NoJob = <<>>
      BY EmptySeq DEF NoJob
    <3>2. I!PutBuffer(i, NoJob, [reader.conn[i] EXCEPT !.len = 0]) /\ Len(NoJob) <= SendCap["iocp"]
      BY <1>5, <2>2, <3>1
    <3> QED BY <1>1, <2>2, <3>1, <3>2, IocpStoreKeeps
  <2> QED BY <1>1, <2>1, <2>2
<1>7. Stream'
  <2>1. CASE ctx' = ctx
    <3>1. Calm
      BY <1>1, <1>2, <1>6, <2>1, SameIs DEF IocpInv, Calm, Stream, Shapes
    <3> QED BY <3>1, CalmKeeps DEF IocpInv
  <2>2. CASE \E s \in Session : ctx[s].slot # None /\ Only(s) /\ ctx'[s].popped = ctx[s].popped
    <3>1. PICK s \in Session : ctx[s].slot # None /\ Only(s) /\ ctx'[s].popped = ctx[s].popped
      BY <2>2
    <3>2. reads' \subseteq Slot
      BY <1>1 DEF IocpInv, Stream, Shapes
    <3> QED BY <1>1, <1>2, <1>6, <3>1, <3>2, OnlyKeeps DEF IocpInv
  <2> QED BY <1>6, <2>1, <2>2 DEF Puts
<1> QED BY <1>6, <1>7 DEF IocpInv

\* EndWorkerThread ends a thread that takes completions.
LEMMA IocpEndWorkerThreadKeeps ==
    ASSUME IocpInv, I!EndWorkerThread, server' = server
    PROVE  IocpInv'
<1>1. UNCHANGED <<net, socket, Clients, ctx, reads, writes, m_JobQueue, finished, worker, main, flaw>>
  BY DEF I!EndWorkerThread
<1>2. reader = [conn |-> reader.conn, threads |-> reader.threads, posted |-> reader.posted]
  BY DEF IocpInv, IocpReader
<1>3. \/ reader' = [reader EXCEPT !.threads = @ - 1]
      \/ \E n \in 1 .. reader.posted : reader' = [reader EXCEPT !.threads = @ - 1, !.posted = @ - n]
  BY DEF I!EndWorkerThread
<1>4. reader' = [conn |-> reader.conn, threads |-> reader'.threads, posted |-> reader'.posted]
  <2> DEFINE a == reader.conn
             b == reader.threads
             c == reader.posted
  <2>1. reader = [conn |-> a, threads |-> b, posted |-> c]
    BY <1>2
  <2> HIDE DEF a, b, c
  <2>2. CASE reader' = [reader EXCEPT !.threads = @ - 1]
    BY <2>1, <2>2 DEF a
  <2>3. CASE \E n \in 1 .. reader.posted : reader' = [reader EXCEPT !.threads = @ - 1, !.posted = @ - n]
    <3>1. PICK n : reader' = [reader EXCEPT !.threads = @ - 1, !.posted = @ - n]
      BY <2>3
    <3> QED BY <2>1, <3>1 DEF a
  <2> QED BY <1>3, <2>2, <2>3
<1>5. Grows /\ ctx' \in [Session -> Context]
  BY <1>1 DEF Grows, IocpInv, Stream, Shapes, Context
<1>6. IocpReader'
  BY <1>1, <1>4, <1>5, IocpReaderStays
<1>7. Calm
  BY <1>1, SameIs DEF IocpInv, Calm, Stream, Shapes
<1> QED BY <1>1, <1>6, <1>7, CalmKeeps DEF IocpInv, Bounded

\* PopJob takes a job.
LEMMA IocpPopJobKeeps ==
    ASSUME IocpInv, NEW w \in Worker, I!PopJob(w), server' = server
    PROVE  IocpInv'
<1>1. /\ TakeJob(w, "connected") /\ main = "running" /\ main' = main
      /\ UNCHANGED <<net, socket, Clients, ctx, reads, writes, finished, reader, flaw>>
  BY IocpSharedIs DEF I!PopJob, I!JobsRun
<1>2. "connected" \in Pcs \ Off
  BY DEF Pcs, Off
<1>3. Stream'
  BY <1>1, <1>2, TakeJobKeeps DEF IocpInv
<1> QED BY <1>1, <1>3, IocpSame DEF IocpInv, Bounded

\* IsConnected looks at the connection of the job's session.
LEMMA IocpIsConnectedKeeps ==
    ASSUME IocpInv, NEW w \in Worker, I!IsConnected(w), server' = server
    PROVE  IocpInv'
<1>1. UNCHANGED <<net, socket, Clients, ctx, reads, writes, m_JobQueue, finished, reader, main, flaw>>
  BY DEF I!IsConnected
<1>2. PICK to \in {"requeue", "send"} : WorkerGoto(w, "connected", to)
  BY IocpSharedIs DEF I!IsConnected
<1>3. to \in Pcs /\ to \notin Off /\ "connected" \notin Off
  BY DEF Pcs, Off
<1>4. Stream'
  BY <1>1, <1>2, <1>3, SameIs, GotoKeeps DEF IocpInv
<1> QED BY <1>1, <1>4, IocpSame DEF IocpInv, Bounded

\* What is stored on the connection of a job, and its answer.
LEMMA IocpAnswerIs ==
    ASSUME IocpInv, NEW w \in Worker, worker[w].pc \notin Off
    PROVE  LET old == I!SendBuffer(JobSlot(w))
               buf == old \o Answer(worker[w].job)
           IN  /\ buf \in Seq(Left(JobSlot(w)))
               /\ Len(old) <= Len(buf)
               /\ Fits(old, worker[w].job) => Len(buf) <= SendCap["iocp"]
<1> DEFINE i == JobSlot(w)
           old == I!SendBuffer(i)
           job == worker[w].job
<1>1. i \in Slot /\ job \in Known /\ job \in Job /\ ctx[job[1]].slot = i
  BY JobSlotIs DEF IocpInv
<1>2. job \in Left(i)
  BY <1>1 DEF Left
<1>3. old \in Seq(Left(i)) /\ Len(old) \in Nat
  BY <1>1, IocpBufferIs
<1>4. server = "iocp" /\ Size(job) \in Nat
  BY <1>1, SizeIs DEF IocpInv, Server
<1> HIDE DEF old, i, job
<1>5. Answer(job) \in Seq(Left(i)) /\ Len(Answer(job)) = Size(job)
  BY <1>2, <1>4, AnswerIs
<1>6. old \o Answer(job) \in Seq(Left(i)) /\ Len(old \o Answer(job)) = Len(old) + Size(job)
  BY <1>3, <1>5, ConcatProperties
<1>7. Len(old) <= Len(old \o Answer(job))
  BY <1>3, <1>4, <1>6
<1>8. Fits(old, job) => Len(old \o Answer(job)) <= SendCap["iocp"]
  BY <1>4, <1>6 DEF Fits
<1> QED BY <1>6, <1>7, <1>8 DEF old, i, job

\* SendMsg stores an answer on the connection, and sends.
LEMMA IocpSendMsgKeeps ==
    ASSUME IocpInv, NEW w \in Worker, I!SendMsg(w), server' = server
    PROVE  IocpInv'
<1> DEFINE i == JobSlot(w)
           old == I!SendBuffer(i)
           job == worker[w].job
           buf == old \o Answer(job)
<1>1. /\ worker[w].pc = "send" /\ worker[w].pc \notin Off
      /\ UNCHANGED <<net, socket, Clients, reads, m_JobQueue, main>>
  BY DEF I!SendMsg, Off
<1>2. i \in Slot /\ job[1] \in Session
  BY <1>1, JobSlotIs DEF IocpInv
<1>3. "requeue" \in Pcs /\ "requeue" \notin Off /\ "send" \notin Off
  BY DEF Pcs, Off
<1>4. \/ /\ WorkerGoto(w, "send", "requeue") /\ Flawed(job[1], {"overflow"})
         /\ UNCHANGED <<ctx, writes, finished, reader>>
      \/ /\ Fits(old, job)
         /\ \/ I!SendIO(i, buf)
            \/ I!PutBuffer(i, buf, reader.conn[i]) /\ writes' = writes
         /\ (WorkerGoto(w, "send", "requeue") /\ finished' = finished) \/ JobDone(w)
         /\ flaw' = flaw
  BY IocpSharedIs, Zenon DEF I!SendMsg, I!conn
<1>5. CASE /\ WorkerGoto(w, "send", "requeue") /\ Flawed(job[1], {"overflow"})
           /\ UNCHANGED <<ctx, writes, finished, reader>>
  <2>1. {"overflow"} \in SUBSET Flaws
    BY DEF Flaws
  <2>2. flaw' \in [Session -> SUBSET Flaws] /\ FlawsStay
    BY <1>2, <1>5, <2>1, FlawedIs DEF IocpInv
  <2>3. Stream'
    BY <1>1, <1>3, <1>5, <2>2, GotoKeeps DEF IocpInv
  <2> QED BY <1>1, <1>5, <2>3, IocpSame DEF IocpInv, Bounded
<1>6. CASE /\ Fits(old, job)
           /\ I!SendIO(i, buf) \/ (I!PutBuffer(i, buf, reader.conn[i]) /\ writes' = writes)
           /\ (WorkerGoto(w, "send", "requeue") /\ finished' = finished) \/ JobDone(w)
           /\ flaw' = flaw
  <2>1. buf \in Seq(Left(i)) /\ Len(old) <= Len(buf) /\ Len(buf) <= SendCap["iocp"]
    BY <1>1, <1>6, IocpAnswerIs
  <2> HIDE DEF buf, i, job
  <2>2. IocpReader' /\ Bounded(SendCap["iocp"])' /\ Puts /\ writes' \subseteq Slot
    <3>1. CASE I!SendIO(i, buf)
      BY <1>1, <1>2, <2>1, <3>1, IocpSendIOKeeps
    <3>2. CASE I!PutBuffer(i, buf, reader.conn[i]) /\ writes' = writes
      <4> DEFINE n == reader.conn[i].len
      <4>1. reader.conn[i] = [reader.conn[i] EXCEPT !.len = n]
        BY <1>2, IocpConnIs DEF Connection
      <4>2. n \in {0, reader.conn[i].len}
        OBVIOUS
      <4>3. I!PutBuffer(i, buf, [reader.conn[i] EXCEPT !.len = n])
        BY <3>2, <4>1
      <4> HIDE DEF n
      <4> QED BY <1>1, <1>2, <2>1, <3>2, <4>2, <4>3, IocpStoreKeeps
    <3> QED BY <1>6, <3>1, <3>2
  <2>3. DoneOrOn(w)
    BY <1>3, <1>6, GotoIsOn DEF IocpInv, DoneOrOn
  <2>4. flaw' \in [Session -> SUBSET Flaws] /\ FlawsStay
    BY <1>6, SameIs DEF IocpInv
  <2>5. Stream'
    <3>1. CASE ctx' = ctx
      BY <1>1, <2>2, <2>3, <2>4, <3>1, WorkerKeeps DEF IocpInv
    <3>2. CASE \E s \in Session : ctx[s].slot # None /\ Only(s) /\ ctx'[s].popped = ctx[s].popped
      BY <1>1, <2>2, <2>3, <2>4, <3>2, WorkerSendsKeeps DEF IocpInv
    <3> QED BY <2>2, <3>1, <3>2 DEF Puts
  <2> QED BY <2>2, <2>5 DEF IocpInv
<1> QED BY <1>4, <1>5, <1>6

\* Requeue queues the job again.
LEMMA IocpRequeueKeeps ==
    ASSUME IocpInv, NEW w \in Worker, I!Requeue(w), server' = server
    PROVE  IocpInv'
<1>1. /\ GiveUpJob(w) /\ m_JobQueue' = Append(m_JobQueue, worker[w].job)
      /\ UNCHANGED <<net, socket, Clients, ctx, reads, writes, finished, reader, main, flaw>>
  BY IocpSharedIs DEF I!Requeue
<1>2. Stream'
  BY <1>1, RequeueKeeps DEF IocpInv
<1> QED BY <1>1, <1>2, IocpSame DEF IocpInv, Bounded

\* EndJobThread ends a job thread.
LEMMA IocpEndJobThreadKeeps ==
    ASSUME IocpInv, NEW w \in Worker, I!EndJobThread(w), server' = server
    PROVE  IocpInv'
<1>1. /\ WorkerGoto(w, "idle", "exited")
      /\ UNCHANGED <<net, socket, Clients, ctx, reads, writes, m_JobQueue, finished, reader, main, flaw>>
  BY IocpSharedIs DEF I!EndJobThread
<1>2. "exited" \in Pcs /\ "exited" \in Off /\ "idle" \in Off
  BY DEF Pcs, Off
<1>3. Stream'
  BY <1>1, <1>2, SameIs, GotoKeeps DEF IocpInv
<1> QED BY <1>1, <1>3, IocpSame DEF IocpInv, Bounded

\* The thread of main.
LEMMA IocpMainKeeps ==
    ASSUME IocpInv, I!MainThread, server' = server
    PROVE  IocpInv'
<1>1. UNCHANGED <<net, socket, Clients, ctx, reads, writes, m_JobQueue, finished, flaw>>
  BY DEF I!MainThread, I!Run, I!End, I!DestroyJobThreads, I!PostEndToWorkerThreads, I!DestroyWorkerThreads
<1>2. Stream'
  <2>1. CASE I!Run
    <3>1. main = "constructed" /\ main' = "running" /\ worker' = [w \in Worker |-> Idle]
      BY <2>1 DEF I!Run, I!MainGoto, I!CreateJobThreads, I!Idle, Idle, I!NoWork, NoWork, I!None, None
    <3> QED BY <1>1, <3>1, StartKeeps DEF IocpInv
  <2>2. CASE I!End \/ I!DestroyJobThreads \/ I!PostEndToWorkerThreads \/ I!DestroyWorkerThreads
    <3>1. worker' = worker /\ main' # "constructed"
      BY <2>2 DEF I!End, I!DestroyJobThreads, I!PostEndToWorkerThreads, I!DestroyWorkerThreads, I!MainGoto
    <3> QED BY <1>1, <3>1, SameIs, MainKeeps DEF IocpInv, Stream, Shapes
  <2> QED BY <2>1, <2>2 DEF I!MainThread
<1>3. reader' = reader \/ reader' = [reader EXCEPT !.posted = WorkerThreads]
  BY DEF I!MainThread, I!Run, I!End, I!DestroyJobThreads, I!PostEndToWorkerThreads, I!DestroyWorkerThreads
<1>4. reader' = [conn |-> reader.conn, threads |-> reader'.threads, posted |-> reader'.posted]
  <2>1. reader = [conn |-> reader.conn, threads |-> reader.threads, posted |-> reader.posted]
    BY DEF IocpInv, IocpReader
  <2> QED BY <1>3, <2>1
<1>5. Grows /\ ctx' \in [Session -> Context]
  BY <1>1 DEF Grows, IocpInv, Stream, Shapes, Context
<1>6. IocpReader'
  BY <1>1, <1>4, <1>5, IocpReaderStays
<1> QED BY <1>1, <1>2, <1>6 DEF IocpInv, Bounded

\* The clients, and the kernel.
LEMMA IocpClientKeeps ==
    ASSUME IocpInv, NEW s \in Session, I!ClientStep(s) \/ I!DrainStep(s), server' = server
    PROVE  IocpInv'
<1>1. Leaves(s) /\ UNCHANGED ServerVars
  BY DEF I!ClientStep, I!DrainStep, I!Leave, Leave, I!Drain, Drain, Leaves, I!ServerVars, ServerVars
<1>2. Stream'
  BY <1>1, ClientStepKeeps DEF IocpInv
<1>3. IocpReader'
  BY <1>1, IocpSame DEF ServerVars
<1> QED BY <1>1, <1>2, <1>3 DEF IocpInv, Bounded, ServerVars

\* The IOCP server's invariant holds at the start,
LEMMA IocpInvInit ==
    ASSUME I!Init
    PROVE  IocpInv
<1>1. StreamInit /\ server = "iocp" /\ main = "constructed"
      /\ reader = [conn |-> [i \in Slot |-> I!NewConnection], threads |-> WorkerThreads, posted |-> 0]
  BY Instances DEF I!Init, I!StreamInit, StreamInit, I!NewNet, NewNet, I!NewContext, NewContext, I!NoWork, NoWork,
         I!None, None
<1>2. /\ Stream /\ \A s \in Session : ctx[s].sendBuffer = NoJob
      /\ reads = {} /\ writes = {} /\ \A i \in Slot : socket[i] = None /\ Clients[i] = None
  BY <1>1, InitKeeps
<1>3. Len(NoJob) = 0 /\ (\A A : NoJob \in Seq(A)) /\ SendCap["iocp"] \in Nat
  BY EmptySeq, CapIs DEF NoJob, Server
<1>4. Bounded(SendCap["iocp"])
  BY <1>2, <1>3 DEF Bounded
<1>5. I!NewConnection = [pc |-> "accept", len |-> 0, sender |-> None, done |-> FALSE, left |-> NoJob]
  BY Instances DEF I!NewConnection, NoJob
<1>6. I!NewConnection \in Connection
  BY <1>3, <1>5 DEF Connection
<1>7. /\ reader.conn \in [Slot -> Connection] /\ \A i \in Slot : reader.conn[i] = I!NewConnection
      /\ reader = [conn |-> reader.conn, threads |-> reader.threads, posted |-> reader.posted]
  BY <1>1, <1>6
<1>8. \A i \in Slot : IocpConn(i)
  <2> SUFFICES ASSUME NEW i \in Slot PROVE IocpConn(i)
    OBVIOUS
  <2> DEFINE c == reader.conn[i]
  <2>1. c.pc = "accept" /\ c.sender = None /\ c.left = NoJob
    BY <1>5, <1>7
  <2> QED BY <1>2, <1>3, <2>1 DEF IocpConn
<1> QED BY <1>1, <1>2, <1>4, <1>7, <1>8 DEF IocpInv, IocpReader

\* every step keeps it,
LEMMA IocpInvNext ==
    ASSUME IocpInv, [I!Next]_vars
    PROVE  IocpInv'
<1>1. CASE UNCHANGED vars
  <2>1. Calm
    BY <1>1, SameIs DEF vars, IocpInv, Calm, Stream, Shapes
  <2> QED BY <1>1, <2>1, CalmKeeps, IocpSame DEF vars, IocpInv, Bounded
<1>2. CASE I!Next
  <2>1. server' = server
    BY <1>2 DEF I!Next, I!Runs, I!RunsAs
  <2>2. CASE I!MainThread
    BY <2>1, <2>2, IocpMainKeeps
  <2>3. CASE I!EndWorkerThread
    BY <2>1, <2>3, IocpEndWorkerThreadKeeps
  <2>4. CASE \E i \in Slot : I!WorkerThread(i) \/ I!KernelSends(i)
    BY <2>1, <2>4, IocpDoRecvKeeps, IocpDisconnectKeeps, IocpOnReceiveKeeps, IocpDoSendKeeps,
       IocpSendCancelledKeeps, IocpKernelSendsKeeps DEF I!WorkerThread
  <2>5. CASE \E w \in Worker : I!JobThread(w)
    BY <2>1, <2>5, IocpPopJobKeeps, IocpIsConnectedKeeps, IocpSendMsgKeeps, IocpRequeueKeeps,
       IocpEndJobThreadKeeps DEF I!JobThread
  <2>6. CASE \E s \in I!Session : I!DoAccept(s) \/ I!ClientStep(s) \/ I!DrainStep(s)
    BY <2>1, <2>6, IocpDoAcceptKeeps, IocpClientKeeps, Instances
  <2> QED BY <1>2, <2>2, <2>3, <2>4, <2>5, <2>6 DEF I!Next
<1> QED BY <1>1, <1>2

\* and the properties follow from it.
LEMMA IocpFollows ==
    ASSUME IocpInv
    PROVE  JobInOnePlace /\ AnswersStayInSlot
<1>1. server \in Server /\ Bounded(SendCap[server])
  BY DEF IocpInv, Server
<1>2. \A i \in reads : socket[i] # None
  <2> SUFFICES ASSUME NEW i \in reads PROVE socket[i] # None
    OBVIOUS
  <2>1. i \in Slot
    BY DEF IocpInv, Stream, Shapes
  <2> QED BY <2>1, IocpSessionIs, Names
<1> QED BY <1>1, <1>2, JobInOnePlaceFollows, AnswersStayInSlotFollows DEF IocpInv

-----------------------------------------------------------------------------
(* What is left in a send buffer is sent by somebody.                       *)

\* A job thread that has sent, and pops what was sent, will look whether more is left
\* only in the context it has sent from.
Minds(w) == server = "select" /\ worker[w].pc = "pop" => worker[w].ctx = Clients[JobSlot(w)]

\* A job of slot i waits in the queue, or a job thread has one that minds the slot.
Cared(j) == Queued(j) \/ \E w \in Worker : worker[w].job = j /\ Minds(w)
Busy(i) == \E j \in Job : ctx[j[1]].slot = i /\ Cared(j)

\* A client that stays has something left in its send buffer, and nothing befell it.
Lost(i) == \E r \in Session : ctx[r].slot = i /\ "lost_job" \in flaw[r]
Unsent(s) ==
    /\ ctx[s].sendBuffer # NoJob /\ Alive(s)
    /\ "unwatched" \notin flaw[s] /\ ~Lost(ctx[s].slot)

\* Of the Epoll and the select server: until the end of the server is begun, the slot
\* of such a client is watched, or has a job.
Serving == main \in {"constructed", "running"}
Watching ==
    /\ main = "constructed" => \A w \in Worker : worker[w].pc = "none"
    /\ Serving => \A s \in Session : Unsent(s) => ctx[s].slot \in writes \/ Busy(ctx[s].slot)

\* The sessions keep their slots, unless one gets slot i.
SlotsStay(i) ==
    \A s \in Session :
        /\ ctx[s].slot # None => ctx'[s].slot = ctx[s].slot
        /\ ctx'[s].slot \in {ctx[s].slot, i}

\* Jobs stay, but for those of slot i.
JobsCared(i) ==
    /\ \A j \in Job : Queued(j) => Queued(j)'
    /\ \A w \in Worker : worker[w].job # NoJob /\ JobSlot(w) # i =>
         worker'[w] = worker[w] /\ (server = "select" => Clients'[JobSlot(w)] = Clients[JobSlot(w)])

\* But for slot i no buffer gets filled, and what is watched stays so.
Undisturbed(i) ==
    /\ \A s \in Session : ctx'[s].slot # i /\ ctx'[s].sendBuffer # NoJob => ctx[s].sendBuffer # NoJob
    /\ \A s \in Session : ctx'[s].slot # i /\ Alive(s)' => Alive(s)
    /\ writes \subseteq writes' \cup {i}
    /\ FlawsStay

\* What remains to be shown of slot i.
WatchedAt(i) ==
    \A s \in Session : ctx'[s].slot = i /\ Unsent(s)' => i \in writes' \/ Busy(i)'

\* A job of another slot than i is cared for as before.
LEMMA CaredStays ==
    ASSUME Stream, server' = server, NEW i, SlotsStay(i), JobsCared(i),
           NEW j \in Job, ctx[j[1]].slot \in Slot, ctx[j[1]].slot # i, Cared(j)
    PROVE  Cared(j)' /\ ctx'[j[1]].slot = ctx[j[1]].slot
<1>1. j[1] \in Session /\ ctx[j[1]].slot # None
  BY Names DEF Job
<1>2. ctx'[j[1]].slot = ctx[j[1]].slot
  BY <1>1 DEF SlotsStay
<1>3. CASE Queued(j)
  BY <1>2, <1>3 DEF JobsCared, Cared
<1>4. ASSUME NEW w \in Worker, worker[w].job = j, Minds(w) PROVE Cared(j)'
  <2>1. JobSlot(w) = ctx[j[1]].slot /\ worker[w].job # NoJob
    BY <1>4, Names DEF JobSlot
  <2>2. worker'[w] = worker[w] /\ (server = "select" => Clients'[JobSlot(w)] = Clients[JobSlot(w)])
    BY <2>1 DEF JobsCared
  <2>3. JobSlot(w)' = JobSlot(w)
    BY <1>2, <1>4, <2>2 DEF JobSlot
  <2>4. Minds(w)'
    BY <1>4, <2>2, <2>3 DEF Minds
  <2> QED BY <1>4, <2>2, <2>4 DEF Cared
<1> QED BY <1>2, <1>3, <1>4 DEF Cared

\* A step that concerns no slot but i, or none, keeps it, if it does for i.
LEMMA WatchingKept ==
    ASSUME Stream, Stream', Watching, server' = server, NEW i, SlotsStay(i), JobsCared(i), Undisturbed(i),
           Serving' => main' = main,
           main' = "constructed" => \A w \in Worker : worker'[w].pc = worker[w].pc,
           Serving /\ i # None => WatchedAt(i)
    PROVE  Watching'
<1>1. ASSUME Serving', NEW s \in Session, NEW k \in Slot, k # i, ctx[s].slot = k, ctx'[s].slot = k, Unsent(s)'
      PROVE  k \in writes' \/ Busy(k)'
  <2>1. ctx'[s].sendBuffer # NoJob /\ Alive(s)' /\ "unwatched" \notin flaw'[s]
    BY <1>1 DEF Unsent
  <2>2. ctx[s].sendBuffer # NoJob /\ Alive(s) /\ "unwatched" \notin flaw[s]
    BY <1>1, <2>1 DEF Undisturbed, FlawsStay
  <2>3. ~Lost(k)
    <3>1. ~Lost(k)'
      BY <1>1 DEF Unsent
    <3> QED BY <1>1, <3>1, Names DEF Lost, Undisturbed, FlawsStay, SlotsStay
  <2>4. k \in writes \/ Busy(k)
    BY <1>1, <2>2, <2>3 DEF Watching, Unsent, Serving
  <2>5. CASE k \in writes
    BY <1>1, <2>5 DEF Undisturbed
  <2>6. CASE Busy(k)
    <3>1. PICK j \in Job : ctx[j[1]].slot = k /\ Cared(j)
      BY <2>6 DEF Busy
    <3>2. Cared(j)' /\ ctx'[j[1]].slot = k
      BY <1>1, <3>1, CaredStays
    <3> QED BY <3>2 DEF Busy
  <2> QED BY <2>4, <2>5, <2>6
<1>2. ASSUME Serving', NEW s \in Session, NEW k, ctx'[s].slot = k, Unsent(s)'
      PROVE  k \in writes' \/ Busy(k)'
  <2>1. k \in Slot
    <3>1. ctx'[s].sendBuffer # NoJob
      BY <1>2 DEF Unsent
    <3>2. k # None
      BY <1>2, <3>1 DEF Stream, Fresh, NewContext, NoJob
    <3> QED BY <1>2, <3>2 DEF Stream, Shapes, Context
  <2>2. CASE k = i
    <3>1. WatchedAt(i)
      BY <1>2, <2>1, <2>2, Names DEF Serving
    <3> QED BY <1>2, <2>2, <3>1 DEF WatchedAt
  <2>3. CASE k # i
    <3>1. ctx[s].slot = k
      BY <1>2, <2>3 DEF SlotsStay
    <3> QED BY <1>1, <1>2, <2>1, <2>3, <3>1
  <2> QED BY <2>2, <2>3
<1>3. main' = "constructed" => \A w \in Worker : worker'[w].pc = "none"
  BY DEF Watching, Serving
<1> QED BY <1>2, <1>3 DEF Watching

\* Once the end of the server is begun nothing is left to be shown.
LEMMA NotServing ==
    ASSUME ~Serving'
    PROVE  Watching'
BY DEF Watching, Serving

\* Jobs are queued, and none is taken from the queue.
QueueGrows == m_JobQueue' = m_JobQueue \/ \E x \in Job : m_JobQueue' = Append(m_JobQueue, x)

\* A job that is appended is queued, and leaves the others queued.
LEMMA AppendQueues ==
    ASSUME Stream, NEW x \in Job, m_JobQueue' = Append(m_JobQueue, x)
    PROVE  Queued(x)' /\ \A j \in Job : Queued(j) => Queued(j)'
<1>1. m_JobQueue \in Seq(Job)
  BY DEF Stream, Shapes
<1>2. /\ DOMAIN m_JobQueue = 1 .. Len(m_JobQueue) /\ Len(m_JobQueue) \in Nat
      /\ DOMAIN m_JobQueue' = 1 .. Len(m_JobQueue) + 1
      /\ m_JobQueue'[Len(m_JobQueue) + 1] = x
      /\ \A k \in 1 .. Len(m_JobQueue) : m_JobQueue'[k] = m_JobQueue[k]
  BY <1>1, AppendProperties
<1>3. Queued(x)'
  <2>1. Len(m_JobQueue) + 1 \in DOMAIN m_JobQueue'
    BY <1>2
  <2> QED BY <1>2, <2>1 DEF Queued, In
<1>4. ASSUME NEW j \in Job, Queued(j) PROVE Queued(j)'
  <2>1. PICK k \in DOMAIN m_JobQueue : m_JobQueue[k] = j
    BY <1>4 DEF Queued, In
  <2>2. k \in DOMAIN m_JobQueue' /\ m_JobQueue'[k] = j
    BY <1>2, <2>1
  <2> QED BY <2>2 DEF Queued, In
<1> QED BY <1>3, <1>4

\* A queue that grows keeps the jobs that are in it.
LEMMA QueueGrowsKeeps ==
    ASSUME Stream, QueueGrows
    PROVE  \A j \in Job : Queued(j) => Queued(j)'
BY AppendQueues DEF QueueGrows, Queued

\* A step of a thread that serves the sockets.
LEMMA ReaderWatches ==
    ASSUME Stream, Stream', Watching, server' = server, NEW i, SlotsStay(i), Undisturbed(i),
           QueueGrows, worker' = worker,
           \A k \in Slot : k # i /\ server = "select" => Clients'[k] = Clients[k],
           Serving' => main' = main, Serving /\ i # None => WatchedAt(i)
    PROVE  Watching'
<1>1. ASSUME NEW w \in Worker, worker[w].job # NoJob PROVE JobSlot(w) \in Slot
  BY <1>1, JobSlotIs DEF Stream, Working
<1>2. JobsCared(i)
  BY <1>1, QueueGrowsKeeps DEF JobsCared
<1> QED BY <1>2, WatchingKept

\* A step of a job thread that has a job.
LEMMA WorkerWatches ==
    ASSUME Stream, Stream', Watching, server' = server, NEW w \in Worker, worker[w].pc \notin Off,
           \A v \in Worker : v # w => worker'[v] = worker[v], UNCHANGED <<Clients, main>>,
           NEW i, i = JobSlot(w), SlotsStay(None), Undisturbed(i), QueueGrows, Serving => WatchedAt(i)
    PROVE  Watching'
<1>1. JobsCared(i)
  BY QueueGrowsKeeps DEF JobsCared
<1>2. SlotsStay(i)
  BY DEF SlotsStay, Stream, Fresh, Shapes
<1>3. main # "constructed"
  BY DEF Watching, Off
<1> QED BY <1>1, <1>2, <1>3, WatchingKept DEF Serving

\* A job that its thread goes on with, and one that is queued again, is cared for.
LEMMA HeldIsBusy ==
    ASSUME Stream, NEW w \in Worker, worker[w].pc \notin Off, worker'[w].job = worker[w].job,
           \A s \in Session : ctx'[s].slot = ctx[s].slot, Minds(w)', NEW i, i = JobSlot(w)
    PROVE  Busy(i)'
<1> DEFINE j == worker[w].job
<1>1. j \in Job
  BY DEF Stream, Shapes, Work, Working
<1>2. ctx'[j[1]].slot = i
  BY <1>1 DEF JobSlot, Job
<1>3. PICK x \in Job : x = j
  BY <1>1
<1>4. worker'[w].job = x /\ ctx'[x[1]].slot = i
  BY <1>2, <1>3
<1> QED BY <1>4 DEF Busy, Cared

\* So is a job that is queued again.
LEMMA QueuedIsBusy ==
    ASSUME Stream, NEW w \in Worker, worker[w].pc \notin Off,
           m_JobQueue' = Append(m_JobQueue, worker[w].job),
           \A s \in Session : ctx'[s].slot = ctx[s].slot, NEW i, i = JobSlot(w)
    PROVE  Busy(i)' /\ QueueGrows
<1>1. PICK x \in Job : x = worker[w].job
  BY DEF Stream, Shapes, Work, Working
<1>2. ctx'[x[1]].slot = i
  BY <1>1 DEF JobSlot, Job
<1>3. Queued(x)' /\ m_JobQueue' = Append(m_JobQueue, x)
  BY <1>1, AppendQueues
<1> QED BY <1>2, <1>3 DEF Busy, Cared, QueueGrows

\* To take a job from the queue.
LEMMA TakeJobWatches ==
    ASSUME Stream, Stream', Watching, server' = server, NEW w \in Worker, NEW pc \in Pcs \ (Off \cup {"pop"}),
           TakeJob(w, pc), UNCHANGED <<net, socket, Clients, ctx, writes, main, flaw>>
    PROVE  Watching'
<1>1. m_JobQueue \in Seq(Job) /\ m_JobQueue # <<>> /\ m_JobQueue' = Tail(m_JobQueue) /\ worker[w].pc = "idle"
  BY DEF Stream, Shapes, TakeJob
<1>2. /\ worker'[w].job = Head(m_JobQueue) /\ worker'[w].pc = pc
      /\ \A v \in Worker : v # w => worker'[v] = worker[v]
  BY DEF TakeJob, Stream, Shapes, Idle, NoWork
<1>3. worker[w].job = NoJob
  BY <1>1 DEF Stream, Working, Off
<1>4. ASSUME NEW j \in Job, Queued(j) PROVE Queued(j)' \/ worker'[w].job = j
  <2>1. PICK k \in DOMAIN m_JobQueue : m_JobQueue[k] = j
    BY <1>4 DEF Queued, In
  <2>2. CASE k = 1
    BY <1>1, <1>2, <2>1, <2>2
  <2>3. CASE k # 1
    <3>1. /\ k \in 1 .. Len(m_JobQueue) /\ Len(m_JobQueue) \in Nat
          /\ Len(m_JobQueue') = Len(m_JobQueue) - 1 /\ m_JobQueue' \in Seq(Job)
          /\ \A l \in 1 .. Len(m_JobQueue') : m_JobQueue'[l] = m_JobQueue[l + 1]
      BY <1>1, <2>1, HeadTailProperties
    <3>2. k - 1 \in 1 .. Len(m_JobQueue') /\ (k - 1) + 1 = k
      BY <2>3, <3>1
    <3>3. k - 1 \in DOMAIN m_JobQueue' /\ m_JobQueue'[k - 1] = j
      BY <2>1, <3>1, <3>2
    <3> QED BY <3>3 DEF Queued, In
  <2> QED BY <2>2, <2>3
<1>5. ASSUME NEW j \in Job, Cared(j) PROVE Cared(j)'
  <2>1. CASE Queued(j)
    <3>1. worker'[w].job = j => Minds(w)'
      BY <1>2 DEF Minds
    <3> QED BY <1>4, <2>1, <3>1 DEF Cared
  <2>2. ASSUME NEW v \in Worker, worker[v].job = j, Minds(v) PROVE Cared(j)'
    <3>1. v # w
      BY <1>3, <2>2, Names
    <3>2. worker'[v] = worker[v]
      BY <1>2, <3>1
    <3>3. Minds(v)'
      BY <2>2, <3>2 DEF Minds, JobSlot
    <3> QED BY <2>2, <3>2, <3>3 DEF Cared
  <2> QED BY <1>5, <2>1, <2>2 DEF Cared
<1>6. \A k : Busy(k) => Busy(k)'
  BY <1>5 DEF Busy
<1>7. main # "constructed"
  BY <1>1 DEF Watching
<1> QED BY <1>6, <1>7 DEF Watching, Serving, Unsent, Alive, Lost

\* main starts the job threads.
LEMMA StartWatches ==
    ASSUME Stream, Watching, main = "constructed", main' = "running",
           UNCHANGED <<server, net, socket, Clients, ctx, writes, m_JobQueue, flaw>>
    PROVE  Watching'
<1>1. ASSUME NEW j \in Job, Cared(j) PROVE Cared(j)'
  <2>1. Queued(j)
    BY <1>1, Names DEF Cared, Stream, Working
  <2> QED BY <2>1 DEF Cared, Queued
<1>2. \A k : Busy(k) => Busy(k)'
  BY <1>1 DEF Busy
<1> QED BY <1>2 DEF Watching, Serving, Unsent, Alive, Lost

\* At the start nothing is stored.
LEMMA WatchingInit ==
    ASSUME StreamInit
    PROVE  Watching
BY DEF StreamInit, Watching, Unsent, NewContext, NoJob, NoWork

\* What is said of the threads gives the property.
LEMMA UnsentIsWatchedFollows ==
    ASSUME Stream, Watching
    PROVE  UnsentIsWatched
<1> SUFFICES ASSUME main = "running", NEW s \in Session, Unsent(s)
    PROVE  \/ ctx[s].slot \in writes
           \/ \E w \in DOMAIN worker : worker[w].job # <<>> /\ ctx[worker[w].job[1]].slot = ctx[s].slot
           \/ \E k \in DOMAIN m_JobQueue : ctx[m_JobQueue[k][1]].slot = ctx[s].slot
  BY DEF UnsentIsWatched, Unsent, Lost, NoJob
<1>1. DOMAIN worker = Worker
  BY DEF Stream, Shapes
<1>2. CASE Busy(ctx[s].slot)
  <2>1. PICK j \in Job : ctx[j[1]].slot = ctx[s].slot /\ Cared(j)
    BY <1>2 DEF Busy
  <2> QED BY <1>1, <2>1, Names DEF Cared, Queued, In, NoJob
<1> QED BY <1>2 DEF Watching, Serving

\* A sequence that gets no longer does not get filled.
LEMMA ShorterIs ==
    ASSUME NEW a \in Seq(Job), NEW b \in Seq(Job), Len(b) <= Len(a), b # NoJob
    PROVE  a # NoJob
<1>1. Len(b) # 0 /\ Len(a) \in Nat /\ Len(b) \in Nat
  BY EmptySeq, LenProperties DEF NoJob
<1>2. Len(a) # 0
  BY <1>1
<1> QED BY <1>2, EmptySeq DEF NoJob

\* A session that is accepted has nothing stored, and it is the only one of its slot that is found.
LEMMA AcceptWatches ==
    ASSUME Stream, Stream', Watching, server' = server, NEW s \in Session, NEW i \in Slot,
           ctx' = [ctx EXCEPT ![s] = [NewContext EXCEPT !.slot = i]],
           Clients' = [Clients EXCEPT ![i] = s], socket' = [socket EXCEPT ![i] = s],
           net[s].peer = "connecting", net' = [net EXCEPT ![s].peer = "open"],
           UNCHANGED <<writes, m_JobQueue, worker, main, flaw>>
    PROVE  Watching'
<1>1. /\ ctx[s].slot = None /\ ctx'[s].slot = i /\ ctx'[s].sendBuffer = NoJob
      /\ \A r \in Session : r # s => ctx'[r] = ctx[r] /\ net'[r] = net[r]
      /\ \A k \in Slot : k # i => Clients'[k] = Clients[k] /\ socket'[k] = socket[k]
      /\ Clients'[i] = s
  BY DEF Stream, Shapes, Fresh, Away, NewContext, NoJob
<1>2. SlotsStay(i)
  BY <1>1 DEF SlotsStay
<1>3. ASSUME NEW r \in Session, ctx'[r].slot # i, Alive(r)' PROVE Alive(r)
  <2>1. r # s /\ net[r].peer = "open" /\ ctx'[r].slot = ctx[r].slot
    BY <1>1, <1>3 DEF Alive
  <2>2. ctx[r].slot \in Slot
    BY <2>1 DEF Stream, Shapes, Context, Fresh, Away
  <2> QED BY <1>1, <1>3, <2>1, <2>2 DEF Alive
<1>4. Undisturbed(i)
  BY <1>1, <1>3 DEF Undisturbed, FlawsStay
<1>5. WatchedAt(i)
  BY <1>1 DEF WatchedAt, Unsent, Alive
<1> QED BY <1>1, <1>2, <1>4, <1>5, ReaderWatches DEF QueueGrows

\* A slot is no longer watched: what is still stored there is recorded.
LEMMA UnwatchWatches ==
    ASSUME Stream, Stream', Watching, server' = server, NEW i \in Slot, writes' = writes \ {i},
           Clients[i] # None /\ ctx[Clients[i]].sendBuffer # NoJob => Flawed(Clients[i], {"unwatched"}),
           flaw' = flaw \/ Flawed(Clients[i], {"unwatched"}),
           UNCHANGED <<net, socket, Clients, ctx, m_JobQueue, worker, main>>
    PROVE  Watching'
<1>1. SlotsStay(i)
  BY DEF SlotsStay
<1>2. FlawsStay
  BY DEF FlawsStay, Flawed, Stream, Shapes
<1>3. Undisturbed(i)
  BY <1>2 DEF Undisturbed, Alive
<1>4. WatchedAt(i)
  <2> SUFFICES ASSUME NEW s \in Session, ctx[s].slot = i, Unsent(s)' PROVE FALSE
    BY DEF WatchedAt
  <2>1. Clients[i] = s /\ ctx[s].sendBuffer # NoJob /\ "unwatched" \notin flaw'[s]
    BY DEF Unsent, Alive
  <2>2. flaw' = [flaw EXCEPT ![s] = @ \cup {"unwatched"}]
    BY <2>1, Names DEF Flawed
  <2> QED BY <2>1, <2>2 DEF Stream, Shapes
<1> QED BY <1>1, <1>3, <1>4, ReaderWatches DEF QueueGrows

\* Nobody comes.
PeersLeave == \A s \in Session : net'[s].peer = "open" => net[s].peer = "open"

\* A client that is found was found before, unless one comes.
LEMMA AliveStays ==
    ASSUME Stream, PeersLeave, TablesLose, \A s \in Session : ctx'[s].slot = ctx[s].slot
    PROVE  \A s \in Session : Alive(s)' => Alive(s)
<1> SUFFICES ASSUME NEW s \in Session, Alive(s)' PROVE Alive(s)
  OBVIOUS
<1>1. net[s].peer = "open" /\ ctx'[s].slot = ctx[s].slot
  BY DEF Alive, PeersLeave
<1>2. ctx[s].slot \in Slot
  BY <1>1 DEF Stream, Shapes, Context, Fresh, Away
<1> QED BY <1>1, <1>2, Names DEF Alive, TablesLose

\* A step that is of no job thread, accepts nobody, and fills no buffer.
LEMMA TakesWatches ==
    ASSUME Stream, Stream', Watching, server' = server, PeersLeave, TablesLose, FlawsStay, QueueGrows,
           \A s \in Session : ctx'[s].slot = ctx[s].slot,
           \A s \in Session : ctx'[s].sendBuffer # NoJob => ctx[s].sendBuffer # NoJob,
           writes \subseteq writes', worker' = worker, server = "select" => Clients' = Clients,
           Serving' => main' = main
    PROVE  Watching'
<1>1. SlotsStay(None)
  BY DEF SlotsStay
<1>2. Undisturbed(None)
  BY AliveStays DEF Undisturbed
<1> QED BY <1>1, <1>2, ReaderWatches

\* A step of a job thread changes the context of nobody but the session of its slot.
LEMMA WorkerFillsWatches ==
    ASSUME Stream, Stream', Watching, server' = server, NEW w \in Worker, worker[w].pc \notin Off,
           \A v \in Worker : v # w => worker'[v] = worker[v], UNCHANGED <<socket, Clients, main>>,
           NEW i, i = JobSlot(w), PeersLeave, \A s \in Session : ctx'[s].slot = ctx[s].slot,
           \A s \in Session : ctx[s].slot # i => ctx'[s].sendBuffer = ctx[s].sendBuffer,
           writes \subseteq writes', FlawsStay, QueueGrows, Serving => WatchedAt(i)
    PROVE  Watching'
<1>1. SlotsStay(None)
  BY DEF SlotsStay
<1>2. TablesLose
  BY SameIs
<1>3. Undisturbed(i)
  BY <1>2, AliveStays DEF Undisturbed
<1> QED BY <1>1, <1>3, WorkerWatches

\* If a thread goes on with its job, this is enough.
LEMMA GoesOnWatches ==
    ASSUME Stream, Stream', Watching, server' = server, NEW w \in Worker, worker[w].pc \notin Off,
           worker'[w].job = worker[w].job, worker'[w].pc = "pop" => Minds(w)',
           \A v \in Worker : v # w => worker'[v] = worker[v], UNCHANGED <<socket, Clients, main>>,
           NEW i, i = JobSlot(w), PeersLeave, \A s \in Session : ctx'[s].slot = ctx[s].slot,
           \A s \in Session : ctx[s].slot # i => ctx'[s].sendBuffer = ctx[s].sendBuffer,
           writes \subseteq writes', FlawsStay, QueueGrows
    PROVE  Watching'
<1>1. Minds(w)'
  BY DEF Minds
<1>2. Busy(i)'
  BY <1>1, HeldIsBusy
<1>3. WatchedAt(i)
  BY <1>2 DEF WatchedAt
<1> QED BY <1>3, WorkerFillsWatches

\* To go somewhere else is to go on.
LEMMA GotoIs ==
    ASSUME Stream, NEW w \in Worker, NEW from, NEW to, WorkerGoto(w, from, to)
    PROVE  /\ worker'[w].job = worker[w].job /\ worker'[w].pc = to
           /\ \A v \in Worker : v # w => worker'[v] = worker[v]
<1>1. worker[w] \in Work
  BY DEF Stream, Shapes
<1> QED BY <1>1 DEF WorkerGoto, Stream, Shapes, Work

\* A thread that is done leaves the others as they are.
LEMMA OthersAre ==
    ASSUME Stream, NEW w \in Worker, JobDone(w) \/ GiveUpJob(w)
    PROVE  \A v \in Worker : v # w => worker'[v] = worker[v]
BY DEF JobDone, GiveUpJob, Stream, Shapes

\* The job of a thread that gives it up is queued again.
LEMMA RequeueWatches ==
    ASSUME Stream, Stream', Watching, server' = server, NEW w \in Worker, GiveUpJob(w),
           m_JobQueue' = Append(m_JobQueue, worker[w].job),
           UNCHANGED <<net, socket, Clients, ctx, writes, main, flaw>>
    PROVE  Watching'
<1>1. worker[w].pc \notin Off
  BY DEF GiveUpJob, Off
<1>2. PICK i \in Slot : i = JobSlot(w)
  BY <1>1, JobSlotIs
<1>3. Busy(i)' /\ QueueGrows
  BY <1>1, <1>2, QueuedIsBusy
<1>4. WatchedAt(i)
  BY <1>3 DEF WatchedAt
<1>5. FlawsStay /\ PeersLeave
  BY DEF FlawsStay, PeersLeave
<1> QED BY <1>1, <1>2, <1>3, <1>4, <1>5, OthersAre, WorkerFillsWatches

-----------------------------------------------------------------------------
(* What is left in a send buffer of the Epoll server.                       *)

\* The reader only closes a connection that its client has left.
EpollClosing ==
    reader.pc = "close" \/ (reader.pc \in {"event", "unwatch"} /\ "HUP" \in reader.ev) =>
      net[socket[reader.i]].peer # "open"

EpollWatches == Watching /\ EpollClosing

\* It does so as long as the reader stays where it is,
LEMMA ClosingStays ==
    ASSUME EpollInv, EpollClosing, UNCHANGED <<reader, socket>>, PeersLeave
    PROVE  EpollClosing'
BY EpollSessionIs DEF EpollClosing, PeersLeave

\* and when it goes on to the next event, or elsewhere.
LEMMA ClosingGoes ==
    ASSUME EpollInv, EpollClosing, socket' = socket, PeersLeave,
           \/ reader.pc \in {"event", "unwatch"} /\ E!Handled("OUT")
           \/ \E pc : E!ReaderGoto(pc) /\ pc \notin {"close", "event", "unwatch"}
           \/ E!ReaderGoto("unwatch") /\ "HUP" \notin reader.ev
           \/ E!ReaderGoto("close") /\ net[socket[reader.i]].peer # "open" /\ reader.pc = "event"
           \/ reader' = E!Waiting
    PROVE  EpollClosing'
<1>1. reader \in [pc : EpollPcs, i : Slot \cup {None}, ev : SUBSET Event]
  BY DEF EpollInv, EpollReader
<1>2. CASE reader.pc \in {"event", "unwatch"} /\ E!Handled("OUT")
  <2>1. \/ reader' = [pc |-> "wait", i |-> None, ev |-> {}]
        \/ reader' = [pc |-> "event", i |-> reader.i, ev |-> reader.ev \ {"OUT"}]
    BY <1>2, Instances DEF E!Handled, E!At, E!Waiting
  <2> QED BY <1>2, <2>1, EpollSessionIs DEF EpollClosing, PeersLeave
<1>3. CASE \E pc : E!ReaderGoto(pc) /\ pc \notin {"close", "event", "unwatch"}
  BY <1>1, <1>3 DEF E!ReaderGoto, EpollClosing
<1>4. CASE E!ReaderGoto("unwatch") /\ "HUP" \notin reader.ev
  BY <1>1, <1>4 DEF E!ReaderGoto, EpollClosing
<1>5. CASE E!ReaderGoto("close") /\ net[socket[reader.i]].peer # "open" /\ reader.pc = "event"
  <2>1. socket[reader.i] \in Session /\ reader'.i = reader.i
    BY <1>1, <1>5, EpollSessionIs DEF E!ReaderGoto
  <2> QED BY <1>5, <2>1 DEF EpollClosing, PeersLeave
<1>6. CASE reader' = E!Waiting
  <2>1. reader'.pc = "wait"
    BY <1>6, EpollWaitingIs
  <2> QED BY <2>1 DEF EpollClosing
<1> QED BY <1>2, <1>3, <1>4, <1>5, <1>6

\* epoll_wait tells the thread of events; no buffer changes.
LEMMA EpollWaitWatches ==
    ASSUME EpollInv, EpollInv', EpollWatches, E!EpollWait, server' = server
    PROVE  EpollWatches'
<1>1. UNCHANGED <<net, socket, Clients, ctx, reads, writes, m_JobQueue, finished, worker, main, flaw>>
  BY DEF E!EpollWait
<1>2. Watching'
  BY <1>1, SameIs, TakesWatches DEF EpollInv, EpollWatches, PeersLeave, QueueGrows
<1>3. CASE \E i \in reads : reader' = E!At("event", i, E!Events(i))
  <2>1. PICK i \in reads : reader' = E!At("event", i, E!Events(i))
    BY <1>3
  <2>2. reader'.i = i /\ reader'.ev = E!Events(i) /\ reader'.pc = "event"
    BY <2>1 DEF E!At
  <2>3. "HUP" \in E!Events(i) => net[socket[i]].peer = "reset"
    BY DEF E!Events
  <2> QED BY <1>1, <1>2, <2>2, <2>3 DEF EpollClosing, EpollWatches
<1>4. CASE reader' = E!At("exited", None, {})
  BY <1>2, <1>4 DEF E!At, EpollClosing, EpollWatches
<1> QED BY <1>3, <1>4, Instances DEF E!EpollWait

\* A session that is accepted has an empty context.
LEMMA EpollDoAcceptWatches ==
    ASSUME EpollInv, EpollInv', EpollWatches, NEW s \in Session, E!DoAccept(s), server' = server
    PROVE  EpollWatches'
<1>1. PICK i \in Slot : socket[i] = None /\ socket' = [socket EXCEPT ![i] = s] /\ E!CreateContext(i, s)
  BY Instances DEF E!DoAccept
<1>2. ctx' = [ctx EXCEPT ![s] = [NewContext EXCEPT !.slot = i]]
  BY <1>1 DEF E!CreateContext, E!InitContext, E!NewContext, NewContext, E!None, None
<1>3. Clients[i] = None /\ reader.pc = "wait"
  BY <1>1, Names DEF EpollInv, EpollReader, E!DoAccept, E!ReaderAt
<1>4. Clients' = [Clients EXCEPT ![i] = s]
  BY <1>1, <1>3, Instances DEF E!CreateContext
<1>5. /\ net[s].peer = "connecting" /\ net' = [net EXCEPT ![s].peer = "open"]
      /\ UNCHANGED <<writes, m_JobQueue, finished, reader, worker, main, flaw>>
  BY DEF E!DoAccept, E!Pending
<1>6. Watching'
  BY <1>1, <1>2, <1>4, <1>5, AcceptWatches DEF EpollInv, EpollWatches
<1>7. EpollClosing'
  BY <1>3, <1>5 DEF EpollClosing
<1> QED BY <1>6, <1>7 DEF EpollWatches

\* ResumeSend pops what the kernel took; the slot stays watched unless all was sent.
LEMMA EpollResumeSendWatches ==
    ASSUME EpollInv, EpollInv', EpollWatches, E!ResumeSend, server' = server
    PROVE  EpollWatches'
<1> DEFINE s == Clients[reader.i]
           buf == ctx[s].sendBuffer
<1>1. /\ reader.pc = "event" /\ reader.i \in Slot /\ s \in Session \cup {None} /\ "HUP" \notin reader.ev
      /\ UNCHANGED <<socket, Clients, reads, writes, m_JobQueue, finished, worker, main, flaw>>
  BY DEF E!ResumeSend, E!ReaderAt, EpollInv, EpollReader, Stream, Shapes
<1>2. E!ReaderGoto("unwatch") \/ E!Handled("OUT")
  BY Zenon DEF E!ResumeSend
<1>3. /\ PeersLeave /\ \A r \in Session : ctx'[r].slot = ctx[r].slot
      /\ \A r \in Session : ctx'[r].sendBuffer # NoJob => ctx[r].sendBuffer # NoJob
  <2>1. CASE net' = net /\ ctx' = ctx
    BY <2>1 DEF PeersLeave
  <2>2. CASE s # None /\ E!SendRest(s)
    <3>1. s \in Session /\ ctx[s].slot # None
      BY <1>1, <2>2, Names DEF EpollInv, Stream, Tables, Newest
    <3>2. buf \in Seq(Of(s)) /\ buf \in Seq(Job)
      BY <3>1, SMTT(30) DEF EpollInv, Stream, Buffers, Shapes, Context
    <3> DEFINE n == Sent(s, buf)
    <3>3. GiveKernel(s, buf, n) /\ ctx' = [ctx EXCEPT ![s].sendBuffer = Drop(buf, n)]
      BY <2>2, Zenon DEF E!SendRest, E!GiveKernel, GiveKernel, E!Sent, Sent, E!Drop, Drop
    <3>4. n \in Nat /\ n <= Len(buf) /\ n <= net[s].room
      BY <3>1, <3>2, SentIs DEF EpollInv, Stream
    <3> HIDE DEF n, buf
    <3>5. Only(s) /\ Len(ctx'[s].sendBuffer) = Len(buf) - n
      BY <3>1, <3>2, <3>3, <3>4, SendIs DEF EpollInv
    <3>6. ctx'[s].sendBuffer # NoJob => buf # NoJob
      BY <3>1, <3>2, <3>4, <3>5, ShorterIs DEF EpollInv, Stream, Shapes, Context
    <3> QED BY <3>1, <3>5, <3>6 DEF Only, PeersLeave, buf
  <2> QED BY <2>1, <2>2, Instances, Zenon DEF E!ResumeSend
<1>4. Watching'
  BY <1>1, <1>3, SameIs, TakesWatches DEF EpollInv, EpollWatches, QueueGrows
<1>5. EpollClosing'
  BY <1>1, <1>2, <1>3, ClosingGoes DEF EpollWatches
<1> QED BY <1>4, <1>5 DEF EpollWatches

\* What is stored when the slot is no longer watched is recorded.
LEMMA EpollUnwatchWatches ==
    ASSUME EpollInv, EpollInv', EpollWatches, E!Unwatch, server' = server
    PROVE  EpollWatches'
<1> DEFINE i == reader.i
           s == Clients[i]
<1>1. /\ reader.pc = "unwatch" /\ i \in Slot /\ writes' = writes \ {i} /\ E!Handled("OUT")
      /\ UNCHANGED <<net, socket, Clients, ctx, reads, m_JobQueue, finished, worker, main>>
      /\ s # None /\ ctx[s].sendBuffer # NoJob => Flawed(s, {"unwatched"})
      /\ flaw' = flaw \/ Flawed(s, {"unwatched"})
  BY DEF E!Unwatch, E!ReaderAt, EpollInv, EpollReader, E!Flawed, Flawed, NoJob, E!None, None
<1> HIDE DEF i
<1>2. Watching'
  BY <1>1, UnwatchWatches DEF EpollInv, EpollWatches
<1>3. EpollClosing'
  BY <1>1, ClosingGoes DEF EpollWatches, PeersLeave
<1> QED BY <1>2, <1>3 DEF EpollWatches

\* Neither does a client that leaves, or receives, come.
LEMMA LeavesIs ==
    ASSUME Stream, NEW s \in Session, Leave(s) \/ Drain(s)
    PROVE  PeersLeave
<1>1. CASE Leave(s)
  BY <1>1 DEF Leave, PeersLeave, Stream, Shapes, Net
<1>2. CASE Drain(s)
  BY <1>2 DEF Drain, PeersLeave, Stream, Shapes, Net
<1> QED BY <1>1, <1>2

\* A stuttering step keeps it.
LEMMA VarsWatch ==
    ASSUME Watching, UNCHANGED vars
    PROVE  Watching'
BY DEF vars, Watching, Serving, Unsent, Alive, Lost, Busy, Cared, Queued, In, Minds, JobSlot

\* To send to a client does not bring one.
LEMMA GivePeersIs ==
    ASSUME Stream, NEW s \in Session, NEW buf, NEW n, GiveKernel(s, buf, n)
    PROVE  PeersLeave
<1>1. \A r \in Session : net'[r].peer = net[r].peer
  BY DEF GiveKernel, Stream, Shapes, Net
<1> QED BY <1>1 DEF PeersLeave

\* A receive stores a chunk, and no answer.
LEMMA EpollDoRecvWatches ==
    ASSUME EpollInv, EpollInv', EpollWatches, E!DoRecv, server' = server
    PROVE  EpollWatches'
<1> DEFINE s == socket[reader.i]
<1>1. /\ reader.pc = "event"
      /\ UNCHANGED <<socket, Clients, reads, writes, m_JobQueue, finished, worker>>
  BY DEF E!DoRecv, E!ReaderAt
<1>2. s \in Session /\ ctx[s].slot # None
  BY <1>1, EpollSessionIs
<1>3. CASE /\ main' \in {"crashed", main} /\ UNCHANGED <<net, ctx, flaw>>
           /\ reader' = E!Waiting \/ (E!ReaderGoto("close") /\ net[s].peer = "closed")
  <2>1. PeersLeave
    BY <1>3 DEF PeersLeave
  <2>2. EpollClosing'
    BY <1>1, <1>3, <2>1, ClosingGoes DEF EpollWatches
  <2>3. Serving' => main' = main
    BY <1>3 DEF Serving
  <2>4. Watching'
    BY <1>1, <1>3, <2>1, <2>3, SameIs, TakesWatches DEF EpollInv, EpollWatches, QueueGrows
  <2> QED BY <2>2, <2>4 DEF EpollWatches
<1>4. CASE /\ \E n \in 1 .. RecvCap :
                /\ E!Reads(s, n)
                /\ IF Clients[reader.i] = E!None
                   THEN reader' = E!Waiting /\ E!Flawed(s, {"cut"}) /\ UNCHANGED ctx
                   ELSE E!StorePartialMsg(s, n)
           /\ main' = main
  <2>1. PICK n \in 1 .. RecvCap :
             /\ Reads(s, n)
             /\ \/ reader' = E!Waiting /\ Flawed(s, {"cut"}) /\ ctx' = ctx
                \/ /\ ctx[s].stored + n <= RecvCap /\ ctx' = [ctx EXCEPT ![s].stored = @ + n]
                   /\ E!ReaderGoto("parse") /\ flaw' = flaw
    BY <1>4, Zenon DEF E!Reads, Reads, E!Flawed, Flawed, E!StorePartialMsg
  <2>2. Stores(s, n)
    BY <2>1, Zenon DEF Stores
  <2>3. Only(s) /\ \A r \in Session : ctx'[r].sendBuffer = ctx[r].sendBuffer
    BY <1>2, <2>1, <2>2, ReadIs DEF EpollInv
  <2>4. FlawsStay
    <3>1. Flawed(s, {"cut"}) \/ flaw' = flaw
      BY <2>1, Zenon
    <3>2. {"cut"} \in SUBSET Flaws
      BY DEF Flaws
    <3> QED BY <1>2, <3>1, <3>2, FlawedIs, SameIs DEF EpollInv
  <2>5. reader' = E!Waiting \/ E!ReaderGoto("parse")
    BY <2>1, Zenon
  <2> HIDE DEF s
  <2>6. PeersLeave /\ \A r \in Session : ctx'[r].slot = ctx[r].slot
    BY <2>3 DEF Only, PeersLeave
  <2>7. EpollClosing'
    BY <1>1, <2>5, <2>6, ClosingGoes DEF EpollWatches
  <2>8. Watching'
    BY <1>1, <1>4, <2>3, <2>4, <2>6, SameIs, TakesWatches DEF EpollInv, EpollWatches, QueueGrows
  <2> QED BY <2>7, <2>8 DEF EpollWatches
<1> QED BY <1>3, <1>4 DEF E!DoRecv

\* Nor does the handling of what was received store one.
LEMMA EpollOnReceiveWatches ==
    ASSUME EpollInv, EpollInv', EpollWatches, E!OnReceive, server' = server
    PROVE  EpollWatches'
<1> DEFINE s == socket[reader.i]
<1>1. /\ reader.pc = "parse"
      /\ UNCHANGED <<net, socket, Clients, reads, writes, finished, worker, flaw>>
  BY DEF E!OnReceive, E!ReaderAt
<1>2. s \in Session /\ ctx[s].slot # None
  BY <1>1, EpollSessionIs
<1>3. PeersLeave
  BY <1>1 DEF PeersLeave
<1>4. CASE E!GetReqMsg(s) /\ E!CreateJob(s) /\ E!PopMsg(s) /\ reader' = reader
  <2>1. ctx[s].stored >= 2 /\ ctx' = [ctx EXCEPT ![s].stored = @ - 2, ![s].popped = @ + 1]
    BY <1>4 DEF E!GetReqMsg, E!PopMsg
  <2>2. main' = (IF main = "constructed" THEN "crashed" ELSE main)
        /\ m_JobQueue' = IF Next1(s) \in Bad THEN m_JobQueue ELSE Append(m_JobQueue, Next1(s))
    BY <1>4 DEF E!CreateJob, E!NextJob, Next1
  <2> HIDE DEF s
  <2>3. \A r \in Session : ctx'[r].sendBuffer = ctx[r].sendBuffer /\ ctx'[r].slot = ctx[r].slot
    BY <1>1, <1>2, <2>1, <2>2, RequestKeeps DEF EpollInv
  <2>4. QueueGrows
    BY <1>2, <2>2, Next1Is DEF QueueGrows, EpollInv
  <2>5. Serving' => main' = main
    BY <2>2 DEF Serving
  <2>6. Watching'
    BY <1>1, <1>3, <2>3, <2>4, <2>5, SameIs, TakesWatches DEF EpollInv, EpollWatches
  <2>7. EpollClosing'
    BY <1>1, <1>3, <1>4, ClosingStays DEF EpollWatches
  <2> QED BY <2>6, <2>7 DEF EpollWatches
<1>5. CASE reader' = E!Waiting /\ UNCHANGED <<ctx, m_JobQueue, main>>
  <2>1. Watching'
    BY <1>1, <1>3, <1>5, SameIs, TakesWatches DEF EpollInv, EpollWatches, QueueGrows
  <2>2. EpollClosing'
    BY <1>1, <1>3, <1>5, ClosingGoes DEF EpollWatches
  <2> QED BY <2>1, <2>2 DEF EpollWatches
<1> QED BY <1>4, <1>5 DEF E!OnReceive

\* The client of a connection that is closed has left.
LEMMA EpollCloseUnwatchWatches ==
    ASSUME EpollInv, EpollInv', EpollWatches, E!CloseUnwatch, server' = server
    PROVE  EpollWatches'
<1> DEFINE i == reader.i
<1>1. /\ reader.pc = "close" \/ (reader.pc = "event" /\ "HUP" \in reader.ev)
      /\ E!ReaderGoto("close_socket") /\ writes' = writes \ {i}
      /\ UNCHANGED <<net, socket, Clients, ctx, m_JobQueue, finished, worker, main, flaw>>
  BY DEF E!CloseUnwatch, E!ReaderAt
<1>2. i \in Slot /\ socket[i] \in Session /\ net[socket[i]].peer # "open"
  BY <1>1, EpollSessionIs DEF EpollWatches, EpollClosing
<1>3. PeersLeave
  BY <1>1 DEF PeersLeave
<1>4. EpollClosing'
  BY <1>1, <1>3, ClosingGoes DEF EpollWatches
<1> HIDE DEF i
<1>5. SlotsStay(i)
  BY <1>1 DEF SlotsStay
<1>6. Undisturbed(i)
  BY <1>1 DEF Undisturbed, Alive, FlawsStay
<1>7. WatchedAt(i)
  BY <1>1, <1>2 DEF WatchedAt, Unsent, Alive
<1>8. Watching'
  BY <1>1, <1>5, <1>6, <1>7, ReaderWatches DEF QueueGrows, EpollInv, EpollWatches
<1> QED BY <1>4, <1>8 DEF EpollWatches

\* The client of a connection that is closed has left.
LEMMA EpollReleaseWatches ==
    ASSUME EpollInv, EpollInv', EpollWatches, E!CloseSocket \/ E!ReleaseContext, server' = server
    PROVE  EpollWatches'
<1>1. /\ reader.pc \in {"close_socket", "release"} /\ reader.i \in Slot
      /\ UNCHANGED <<net, ctx, reads, writes, m_JobQueue, finished, worker, main, flaw>>
      /\ socket' = socket \/ socket' = [socket EXCEPT ![reader.i] = None]
      /\ Clients' = Clients \/ Clients' = [Clients EXCEPT ![reader.i] = None]
      /\ reader' = E!Waiting \/ E!ReaderGoto("release")
  BY Instances DEF E!CloseSocket, E!ReleaseContext, E!ReaderAt, EpollInv, EpollReader
<1>2. TablesLose
  BY <1>1 DEF TablesLose, EpollInv, Stream, Shapes
<1>3. PeersLeave /\ FlawsStay
  BY <1>1 DEF PeersLeave, FlawsStay
<1>4. Watching'
  BY <1>1, <1>2, <1>3, TakesWatches DEF EpollInv, EpollWatches, QueueGrows
<1>5. EpollClosing'
  <2>1. "release" \in EpollPcs
    BY DEF EpollPcs
  <2>2. reader'.pc \in {"wait", "release"}
    BY <1>1, <2>1, EpollWaitingIs, EpollReaderGotoIs
  <2> QED BY <2>2 DEF EpollClosing
<1> QED BY <1>4, <1>5 DEF EpollWatches

\* A job that is taken from the queue is held.
LEMMA EpollPopJobWatches ==
    ASSUME EpollInv, EpollInv', EpollWatches, NEW w \in Worker, E!PopJob(w), server' = server
    PROVE  EpollWatches'
<1>1. /\ TakeJob(w, "look_up")
      /\ UNCHANGED <<net, socket, Clients, ctx, reads, writes, finished, reader, main, flaw>>
  BY DEF E!PopJob, E!JobsRun, E!TakeJob, TakeJob, E!Idle, Idle, E!NoWork, NoWork, E!None, None
<1>2. "look_up" \in Pcs \ (Off \cup {"pop"})
  BY DEF Pcs, Off
<1>3. Watching'
  BY <1>1, <1>2, TakeJobWatches DEF EpollInv, EpollWatches
<1> QED BY <1>1, <1>3, ClosingStays DEF EpollWatches, PeersLeave

\* A job thread looks up the context, or will queue the job again.
LEMMA EpollGetContextWatches ==
    ASSUME EpollInv, EpollInv', EpollWatches, NEW w \in Worker, E!GetContext(w), server' = server
    PROVE  EpollWatches'
<1> DEFINE s == Clients[JobSlot(w)]
           pc == IF s = None THEN "requeue" ELSE "send"
<1>1. /\ worker[w].pc = "look_up" /\ worker' = [worker EXCEPT ![w].pc = pc, ![w].ctx = s]
      /\ UNCHANGED <<net, socket, Clients, ctx, reads, writes, m_JobQueue, finished, reader, main, flaw>>
  BY DEF E!GetContext, E!JobSlot, JobSlot, E!None, None
<1>2. worker[w].pc \notin Off /\ pc # "pop"
  BY <1>1 DEF Off
<1> HIDE DEF s, pc
<1>3. /\ worker'[w].job = worker[w].job /\ worker'[w].pc = pc
      /\ \A v \in Worker : v # w => worker'[v] = worker[v]
  BY <1>1 DEF EpollInv, Stream, Shapes, Work
<1>4. PeersLeave
  BY <1>1 DEF PeersLeave
<1>5. Watching'
  BY <1>1, <1>2, <1>3, <1>4, SameIs, JobSlotIs, GoesOnWatches DEF EpollInv, EpollWatches, QueueGrows
<1> QED BY <1>1, <1>4, <1>5, ClosingStays DEF EpollWatches

\* A job is done when all was sent; else its thread goes on with it.
LEMMA EpollSendMsgWatches ==
    ASSUME EpollInv, EpollInv', EpollWatches, NEW w \in Worker, E!SendMsg(w), server' = server
    PROVE  EpollWatches'
<1> DEFINE s == Clients[JobSlot(w)]
           job == worker[w].job
<1>1. /\ worker[w].pc = "send" /\ worker[w].pc \notin Off
      /\ UNCHANGED <<socket, Clients, reads, writes, m_JobQueue, reader, main>>
  BY DEF E!SendMsg, Off
<1>2. PICK i \in Slot : i = JobSlot(w)
  BY <1>1, JobSlotIs DEF EpollInv
<1>3. CASE s # None /\ E!SendTo(s, w)
  <2> DEFINE old == ctx[s].sendBuffer
             full == ~Fits(old, job)
             buf == IF full THEN old ELSE old \o Answer(job)
             n == IF SendFails(s, buf) THEN 0 ELSE Sent(s, buf)
             names == IF full THEN {"overflow"} ELSE IF n = 0 THEN {"sent_again"} ELSE {}
  <2>1. /\ ctx' = [ctx EXCEPT ![s].sendBuffer = Drop(buf, n)]
        /\ GiveKernel(s, buf, n)
        /\ Flawed(s, names)
        /\ IF n = Len(buf) THEN JobDone(w)
           ELSE WorkerGoto(w, "send", IF n = 0 THEN "requeue" ELSE "watch") /\ finished' = finished
    BY <1>3, Zenon DEF E!SendTo, E!Fits, Fits, E!Answer, Answer, E!Size, Size, E!SendFails, SendFails, E!Sent,
                Sent, E!Drop, Drop, E!GiveKernel, GiveKernel, E!JobDone, JobDone, E!WorkerGoto,
                WorkerGoto, E!Flawed, Flawed, E!Idle, Idle, E!NoWork, NoWork, E!None, None
  <2>2. s \in Session /\ Newest(i, s) /\ ctx[s].slot = i /\ ctx[s].slot # None
    <3>1. s \in Session /\ Newest(i, s)
      BY <1>2, <1>3 DEF EpollInv, Stream, Shapes, Tables
    <3> QED BY <1>2, <3>1, Names DEF Newest
  <2>3. buf \in Seq(Of(s))
    <3>1. old \in Seq(Of(s)) /\ Len(old) <= SendCap["epoll"]
      BY <2>2 DEF EpollInv, Stream, Buffers, Bounded
    <3>2. old \o Answer(job) \in Seq(Of(s))
      <4>1. server \in Server /\ SendCap["epoll"] \in Nat
        BY CapIs DEF EpollInv, Server
      <4> QED BY <1>1, <1>2, <2>2, <4>1, StoredAnswerIs DEF EpollInv
    <3> QED BY <3>1, <3>2
  <2>4. buf \in Seq(Job)
    <3>1. Of(s) \subseteq Job
      BY DEF Of, Known
    <3> QED BY <2>3, <3>1, SeqMonotonic
  <2> HIDE DEF buf, names, full, old
  <2>5. n \in Nat /\ n <= Len(buf) /\ n <= net[s].room
    <3>1. Sent(s, buf) \in Nat /\ Sent(s, buf) <= Len(buf) /\ Sent(s, buf) <= net[s].room
      BY <2>2, <2>4, SentIs DEF EpollInv, Stream
    <3>2. net[s].room \in 0 .. Room
      BY <2>2 DEF EpollInv, Stream, Shapes, Net
    <3>3. Len(buf) \in Nat
      BY <2>4, LenProperties
    <3> HIDE DEF s
    <3> QED BY <3>1, <3>2, <3>3, Names
  <2>6. names \in SUBSET Flaws
    BY DEF names, Flaws
  <2> HIDE DEF n
  <2>7. Only(s) /\ Len(ctx'[s].sendBuffer) = Len(buf) - n
    BY <2>1, <2>2, <2>3, <2>5, SendIs DEF EpollInv
  <2>8. FlawsStay
    BY <2>1, <2>2, <2>6, FlawedIs DEF EpollInv
  <2>9. /\ PeersLeave /\ \A r \in Session : ctx'[r].slot = ctx[r].slot
        /\ \A r \in Session : ctx[r].slot # i => ctx'[r].sendBuffer = ctx[r].sendBuffer
    BY <2>2, <2>7 DEF Only, PeersLeave
  <2>10. CASE n = Len(buf)
    <3>1. ctx'[s].sendBuffer = NoJob
      <4>1. Len(ctx'[s].sendBuffer) = 0 /\ ctx'[s].sendBuffer \in Seq(Of(s))
        BY <2>4, <2>7, <2>10, LenProperties DEF Only
      <4> QED BY <4>1, EmptySeq DEF NoJob
    <3>2. WatchedAt(i)
      BY <1>1, <1>2, <2>2, <3>1 DEF WatchedAt, Unsent, Alive
    <3>3. \A v \in Worker : v # w => worker'[v] = worker[v]
      BY <2>1, <2>10, OthersAre DEF EpollInv
    <3>4. Watching'
      BY <1>1, <1>2, <2>8, <2>9, <3>2, <3>3, WorkerFillsWatches DEF EpollInv, EpollWatches, QueueGrows
    <3> QED BY <1>1, <2>9, <3>4, ClosingStays DEF EpollWatches
  <2>11. CASE n # Len(buf)
    <3>1. PICK to \in {"requeue", "watch"} : WorkerGoto(w, "send", to)
      BY <2>1, <2>11
    <3>2. /\ worker'[w].job = worker[w].job /\ worker'[w].pc # "pop"
          /\ \A v \in Worker : v # w => worker'[v] = worker[v]
      BY <3>1, GotoIs DEF EpollInv
    <3>3. Watching'
      BY <1>1, <1>2, <2>8, <2>9, <3>2, GoesOnWatches, SMTT(30) DEF EpollInv, EpollWatches, QueueGrows
    <3> QED BY <1>1, <2>9, <3>3, ClosingStays, SMTT(30) DEF EpollWatches
  <2> QED BY <2>10, <2>11
<1>4. CASE /\ WorkerGoto(w, "send", "requeue")
           /\ UNCHANGED <<net, ctx, finished, flaw>>
  <2>1. /\ worker'[w].job = worker[w].job /\ worker'[w].pc # "pop"
        /\ \A v \in Worker : v # w => worker'[v] = worker[v]
    BY <1>4, GotoIs DEF EpollInv
  <2>2. PeersLeave
    BY <1>4 DEF PeersLeave
  <2>3. Watching'
    BY <1>1, <1>2, <1>4, <2>1, <2>2, SameIs, GoesOnWatches DEF EpollInv, EpollWatches, QueueGrows
  <2> QED BY <1>1, <2>2, <2>3, ClosingStays DEF EpollWatches
<1> QED BY <1>3, <1>4, Zenon DEF E!SendMsg, E!JobSlot, JobSlot, E!None, None, E!WorkerGoto, WorkerGoto

\* A slot is watched for room to write when something is left.
LEMMA EpollWatchWritesWatches ==
    ASSUME EpollInv, EpollInv', EpollWatches, NEW w \in Worker, E!WatchWrites(w), server' = server
    PROVE  EpollWatches'
<1>1. /\ worker[w].pc = "watch" /\ worker[w].pc \notin Off
      /\ UNCHANGED <<net, socket, Clients, ctx, reads, m_JobQueue, reader, main>>
  BY DEF E!WatchWrites, Off
<1>2. PeersLeave /\ EpollClosing'
  BY <1>1, ClosingStays DEF EpollWatches, PeersLeave
<1>3. CASE writes' = writes \cup {JobSlot(w)} /\ JobDone(w) /\ flaw' = flaw
  <2>1. WatchedAt(JobSlot(w))
    BY <1>3 DEF WatchedAt
  <2>2. Watching'
    BY <1>1, <1>2, <1>3, <2>1, SameIs, OthersAre, WorkerFillsWatches DEF EpollInv, EpollWatches, QueueGrows
  <2> QED BY <1>2, <2>2 DEF EpollWatches
<1>4. CASE /\ WorkerGoto(w, "watch", "requeue")
           /\ Flawed(worker[w].job[1], {"sent_again"})
           /\ writes' = writes /\ finished' = finished
  <2>1. {"sent_again"} \in SUBSET Flaws
    BY DEF Flaws
  <2>2. FlawsStay
    BY <1>1, <1>4, <2>1, JobSlotIs, FlawedIs DEF EpollInv
  <2>3. /\ worker'[w].job = worker[w].job /\ worker'[w].pc # "pop"
        /\ \A v \in Worker : v # w => worker'[v] = worker[v]
    BY <1>4, GotoIs DEF EpollInv
  <2>4. Watching'
    BY <1>1, <1>2, <1>4, <2>2, <2>3, GoesOnWatches DEF EpollInv, EpollWatches, QueueGrows
  <2> QED BY <1>2, <2>4 DEF EpollWatches
<1> QED BY <1>3, <1>4, Zenon DEF E!WatchWrites, E!JobSlot, JobSlot, E!WorkerGoto, WorkerGoto, E!Flawed,
              Flawed, E!JobDone, JobDone, E!Idle, Idle, E!NoWork, NoWork, E!None, None

\* A job that is given up is queued again.
LEMMA EpollRequeueWatches ==
    ASSUME EpollInv, EpollInv', EpollWatches, NEW w \in Worker, E!Requeue(w), server' = server
    PROVE  EpollWatches'
<1>1. /\ GiveUpJob(w) /\ m_JobQueue' = Append(m_JobQueue, worker[w].job)
      /\ UNCHANGED <<net, socket, Clients, ctx, reads, writes, finished, reader, main, flaw>>
  BY DEF E!Requeue, E!GiveUpJob, GiveUpJob, E!Idle, Idle, E!NoWork, NoWork, E!None, None
<1>2. EpollClosing'
  BY <1>1, ClosingStays DEF EpollWatches, PeersLeave
<1>3. Watching'
  BY <1>1, RequeueWatches DEF EpollInv, EpollWatches
<1> QED BY <1>2, <1>3 DEF EpollWatches

\* The job of the thread is queued, or its loss is recorded.
LEMMA EpollPushesCollideWatches ==
    ASSUME EpollInv, EpollInv', EpollWatches, NEW w \in Worker, E!PushesCollide(w), server' = server
    PROVE  EpollWatches'
<1> DEFINE s == socket[reader.i]
<1>1. /\ GiveUpJob(w) /\ reader.pc = "parse" /\ ctx[s].stored >= 2 /\ Next1(s) \notin Bad
      /\ LosesOne(Next1(s), worker[w].job)
      /\ ctx' = [ctx EXCEPT ![s].stored = @ - 2, ![s].popped = @ + 1]
      /\ UNCHANGED <<net, socket, Clients, reads, writes, finished, reader, main>>
  BY DEF E!PushesCollide, E!GiveUpJob, GiveUpJob, E!Idle, Idle, E!NoWork, NoWork, E!None, None, E!ReaderAt,
         E!GetReqMsg, E!NextJob, Next1, LosesOne, E!Flawed, Flawed, E!PopMsg
<1>2. s \in Session /\ ctx[s].slot # None
  BY <1>1, EpollSessionIs
<1> HIDE DEF s
<1>3. \A r \in Session : ctx'[r].sendBuffer = ctx[r].sendBuffer /\ ctx'[r].slot = ctx[r].slot
  BY <1>1, <1>2, CollisionKeeps DEF EpollInv
<1>4. worker[w].pc \notin Off
  BY <1>1 DEF GiveUpJob, Off
<1>5. PICK i \in Slot : i = JobSlot(w)
  BY <1>4, JobSlotIs DEF EpollInv
<1>6. PICK job \in Job : job = worker[w].job /\ job[1] \in Session /\ ctx[job[1]].slot = i
  BY <1>4, <1>5, JobSlotIs DEF EpollInv
<1>7. PICK made \in Job : made = Next1(s)
  BY <1>2, Next1Is DEF EpollInv
<1>8. FlawsStay
  BY <1>1, <1>6, <1>7, LosesOneIs DEF EpollInv
<1>9. PeersLeave /\ EpollClosing'
  BY <1>1, ClosingStays DEF EpollWatches, PeersLeave
<1>10. \A v \in Worker : v # w => worker'[v] = worker[v]
  BY <1>1, OthersAre DEF EpollInv
<1>11. QueueGrows /\ WatchedAt(i)
  <2>1. CASE m_JobQueue' = Append(m_JobQueue, job)
    <3>1. Busy(i)' /\ QueueGrows
      BY <1>3, <1>4, <1>5, <1>6, <2>1, QueuedIsBusy DEF EpollInv
    <3> QED BY <3>1 DEF WatchedAt
  <2>2. CASE m_JobQueue' = Append(m_JobQueue, made) /\ Flawed(job[1], {"lost_job"})
    <3>1. QueueGrows
      BY <2>2 DEF QueueGrows
    <3>2. "lost_job" \in flaw'[job[1]]
      BY <1>6, <2>2 DEF Flawed, EpollInv, Stream, Shapes
    <3>3. Lost(i)'
      BY <1>3, <1>6, <3>2 DEF Lost
    <3>4. WatchedAt(i)
      BY <3>3 DEF WatchedAt, Unsent
    <3> QED BY <3>1, <3>4
  <2> QED BY <1>1, <1>6, <1>7, <2>1, <2>2 DEF LosesOne
<1>12. Watching'
  BY <1>1, <1>3, <1>4, <1>5, <1>8, <1>9, <1>10, <1>11, WorkerFillsWatches DEF EpollInv, EpollWatches
<1> QED BY <1>9, <1>12 DEF EpollWatches

\* The queue is deleted when the server has been told to end.
LEMMA EpollEndJobThreadWatches ==
    ASSUME EpollInv, EpollInv', EpollWatches, NEW w \in Worker, E!EndJobThread(w), server' = server
    PROVE  EpollWatches'
<1>1. /\ worker[w].pc = "idle" /\ main # "running"
      /\ UNCHANGED <<net, socket, Clients, ctx, reads, writes, reader, main, flaw>>
  BY DEF E!EndJobThread, E!WorkerGoto, E!JobsRun
<1>2. main # "constructed"
  BY <1>1 DEF EpollWatches, Watching
<1>3. Watching'
  BY <1>1, <1>2, NotServing DEF Serving
<1>4. EpollClosing'
  BY <1>1, ClosingStays DEF EpollWatches, PeersLeave
<1> QED BY <1>3, <1>4 DEF EpollWatches

\* main starts the job threads before there are jobs, and ends the server.
LEMMA EpollMainWatches ==
    ASSUME EpollInv, EpollInv', EpollWatches, E!MainThread, server' = server
    PROVE  EpollWatches'
<1>1. UNCHANGED <<net, socket, ctx, reads, writes, m_JobQueue, finished, reader, flaw>>
  BY DEF E!MainThread, E!Start, E!End, E!DestroyJobThread, E!ReleaseAllContexts, E!DestoryThreads
<1>2. EpollClosing'
  BY <1>1, ClosingStays DEF EpollWatches, PeersLeave
<1>3. CASE E!Start
  <2>1. main = "constructed" /\ main' = "running" /\ Clients' = Clients
    BY <1>3 DEF E!Start, E!MainGoto
  <2>2. Watching'
    BY <1>1, <2>1, StartWatches DEF EpollInv, EpollWatches
  <2> QED BY <1>2, <2>2 DEF EpollWatches
<1>4. CASE E!End \/ E!DestroyJobThread \/ E!ReleaseAllContexts \/ E!DestoryThreads
  <2>1. ~Serving'
    BY <1>4 DEF E!End, E!DestroyJobThread, E!ReleaseAllContexts, E!DestoryThreads, E!MainGoto, Serving
  <2> QED BY <1>2, <2>1, NotServing DEF EpollWatches
<1> QED BY <1>3, <1>4 DEF E!MainThread

\* A client that leaves or receives touches no buffer.
LEMMA EpollClientWatches ==
    ASSUME EpollInv, EpollInv', EpollWatches, NEW s \in Session, E!ClientStep(s) \/ E!DrainStep(s), server' = server
    PROVE  EpollWatches'
<1>1. UNCHANGED ServerVars /\ (Leave(s) \/ Drain(s))
  BY DEF E!ClientStep, E!DrainStep, E!Leave, Leave, E!Drain, Drain, E!ServerVars, ServerVars
<1>2. PeersLeave
  BY <1>1, LeavesIs DEF EpollInv
<1>3. UNCHANGED <<socket, Clients, ctx, reads, writes, m_JobQueue, finished, reader, worker, main, flaw>>
  BY <1>1 DEF ServerVars
<1>4. EpollClosing'
  BY <1>2, <1>3, ClosingStays DEF EpollWatches
<1>5. Watching'
  BY <1>2, <1>3, SameIs, TakesWatches DEF EpollInv, EpollWatches, QueueGrows
<1> QED BY <1>4, <1>5 DEF EpollWatches

\* It holds at the start of the Epoll server,
LEMMA EpollWatchesInit ==
    ASSUME E!Init
    PROVE  EpollWatches
<1>1. StreamInit /\ reader = [pc |-> "wait", i |-> None, ev |-> {}]
  BY Instances DEF E!Init, E!StreamInit, StreamInit, E!NewNet, NewNet, E!NewContext, NewContext, E!NoWork, NoWork,
         E!None, None, E!Waiting, E!At
<1> QED BY <1>1, WatchingInit DEF EpollWatches, EpollClosing

\* and each of its steps keeps it.
LEMMA EpollWatchesNext ==
    ASSUME EpollInv, EpollInv', EpollWatches, [E!Next]_vars
    PROVE  EpollWatches'
<1>1. CASE UNCHANGED vars
  BY <1>1, VarsWatch DEF vars, EpollWatches, EpollClosing
<1>2. CASE E!Next
  <2>1. server' = server
    BY <1>2 DEF E!Next, E!Runs, E!RunsAs
  <2>2. CASE E!ReadThread
    BY <2>1, <2>2, EpollWaitWatches, EpollResumeSendWatches, EpollUnwatchWatches, EpollDoRecvWatches,
       EpollOnReceiveWatches, EpollCloseUnwatchWatches, EpollReleaseWatches, EpollDoAcceptWatches, Instances
       DEF E!ReadThread
  <2>3. CASE E!MainThread
    BY <2>1, <2>3, EpollMainWatches
  <2>4. CASE \E w \in Worker : E!JobThread(w)
    BY <2>1, <2>4, EpollPopJobWatches, EpollGetContextWatches, EpollSendMsgWatches, EpollWatchWritesWatches,
       EpollRequeueWatches, EpollPushesCollideWatches, EpollEndJobThreadWatches DEF E!JobThread
  <2>5. CASE \E s \in E!Session : E!ClientStep(s) \/ E!DrainStep(s)
    BY <2>1, <2>5, EpollClientWatches, Instances
  <2> QED BY <1>2, <2>2, <2>3, <2>4, <2>5 DEF E!Next
<1> QED BY <1>1, <1>2

-----------------------------------------------------------------------------
(* What is left in a send buffer of the select server.                      *)

\* A session that is accepted has an empty context.
LEMMA SelectDoAcceptWatches ==
    ASSUME SelectInv, SelectInv', Watching, NEW s \in Session, S!DoAccept(s), server' = server
    PROVE  Watching'
<1>1. PICK i \in Slot : socket[i] = None /\ socket' = [socket EXCEPT ![i] = s] /\ S!CreateContext(i, s)
  BY Instances DEF S!DoAccept
<1>2. ctx' = [ctx EXCEPT ![s] = [NewContext EXCEPT !.slot = i]]
  BY <1>1 DEF S!CreateContext, S!NewContext, NewContext, S!None, None
<1>3. Clients[i] = None
  BY <1>1 DEF SelectInv, SelectReader
<1>4. Clients' = [Clients EXCEPT ![i] = s]
  BY <1>1, <1>3, Instances DEF S!CreateContext
<1>5. /\ net[s].peer = "connecting" /\ net' = [net EXCEPT ![s].peer = "open"]
      /\ UNCHANGED <<writes, m_JobQueue, finished, reader, worker, main, flaw>>
  BY DEF S!DoAccept, S!Pending
<1> QED BY <1>1, <1>2, <1>4, <1>5, AcceptWatches DEF SelectInv

\* The client of a connection that is closed has left.
LEMMA SelectDoDisconnectWatches ==
    ASSUME SelectInv, SelectInv', Watching, S!DoDisconnect, server' = server
    PROVE  Watching'
<1>1. PICK i \in reads : Clients' = [Clients EXCEPT ![i] = None] /\ socket' = [socket EXCEPT ![i] = None]
  BY Instances DEF S!DoDisconnect, S!ReleaseContext
<1>2. UNCHANGED <<net, ctx, writes, m_JobQueue, finished, reader, worker, main, flaw>> /\ i \in Slot
  BY DEF S!DoDisconnect, SelectInv, Stream, Shapes
<1>3. /\ Clients'[i] = None /\ TablesLose
      /\ \A k \in Slot : k # i => Clients'[k] = Clients[k]
  BY <1>1, <1>2 DEF TablesLose, SelectInv, Stream, Shapes
<1>4. SlotsStay(i) /\ PeersLeave
  BY <1>2 DEF SlotsStay, PeersLeave
<1>5. Undisturbed(i)
  BY <1>2, <1>3, <1>4, AliveStays DEF Undisturbed, FlawsStay, SelectInv
<1>6. WatchedAt(i)
  BY <1>3, Names DEF WatchedAt, Unsent, Alive
<1> QED BY <1>2, <1>3, <1>4, <1>5, <1>6, ReaderWatches DEF SelectInv, QueueGrows

\* A receive stores a chunk, and no answer.
LEMMA SelectDoRecvWatches ==
    ASSUME SelectInv, SelectInv', Watching, S!DoRecv, server' = server
    PROVE  Watching'
<1>1. PICK i \in reads : \E n \in 1 .. RecvCap : S!Reads(socket[i], n) /\ S!StorePartialMsg(socket[i], n)
  BY DEF S!DoRecv
<1> DEFINE s == socket[i]
<1>2. PICK n \in 1 .. RecvCap : S!Reads(s, n) /\ S!StorePartialMsg(s, n)
  BY <1>1
<1>3. /\ main \in {"constructed", "running", "join_jobs"}
      /\ UNCHANGED <<socket, Clients, reads, writes, m_JobQueue, finished, worker, main>>
  BY DEF S!DoRecv, S!ThreadsRun
<1>4. s \in Session /\ ctx[s].slot # None
  BY <1>3, SelectSessionIs DEF SelectInv, SelectReader, Stream, Shapes
<1>5. Reads(s, n) /\ Stores(s, n) /\ (flaw' = flaw \/ Flawed(s, {"cut"}))
  BY <1>2, Zenon DEF S!Reads, Reads, S!StorePartialMsg, Stores, S!Flawed, Flawed
<1> HIDE DEF s
<1>6. Only(s) /\ \A r \in Session : ctx'[r].sendBuffer = ctx[r].sendBuffer
  BY <1>4, <1>5, ReadIs DEF SelectInv
<1>7. FlawsStay
  <2>1. {"cut"} \in SUBSET Flaws
    BY DEF Flaws
  <2> QED BY <1>4, <1>5, <2>1, FlawedIs, SameIs DEF SelectInv
<1>8. PeersLeave /\ \A r \in Session : ctx'[r].slot = ctx[r].slot
  BY <1>6 DEF Only, PeersLeave
<1> QED BY <1>3, <1>6, <1>7, <1>8, SameIs, TakesWatches DEF SelectInv, QueueGrows

\* Nor does the handling of what was received store one.
LEMMA SelectOnReceiveWatches ==
    ASSUME SelectInv, SelectInv', Watching, S!OnReceive, server' = server
    PROVE  Watching'
<1> DEFINE s == socket[reader.read.i]
<1>1. /\ reader.read.pc = "on_receive"
      /\ UNCHANGED <<net, socket, Clients, reads, writes, finished, worker, flaw>>
  BY DEF S!OnReceive, S!ReaderAt
<1>2. s \in Session /\ ctx[s].slot # None
  BY <1>1, SelectSessionIs DEF SelectInv, SelectReader
<1>3. PeersLeave
  BY <1>1 DEF PeersLeave
<1>4. CASE S!GetReqMsg(s) /\ S!NextJob(s) \notin Bad /\ S!CreateJob(s) /\ S!PopMsg(s)
  <2>1. /\ ctx[s].stored >= 2 /\ ctx' = [ctx EXCEPT ![s].stored = @ - 2, ![s].popped = @ + 1]
        /\ m_JobQueue' = IF Next1(s) \in Bad THEN m_JobQueue ELSE Append(m_JobQueue, Next1(s))
        /\ main' = IF main = "constructed" THEN "crashed" ELSE main
    BY <1>4 DEF S!GetReqMsg, S!PopMsg, S!CreateJob, S!NextJob, Next1
  <2> HIDE DEF s
  <2>2. \A r \in Session : ctx'[r].sendBuffer = ctx[r].sendBuffer /\ ctx'[r].slot = ctx[r].slot
    BY <1>1, <1>2, <2>1, RequestKeeps DEF SelectInv
  <2>3. QueueGrows
    BY <1>2, <2>1, Next1Is DEF QueueGrows, SelectInv
  <2>4. Serving' => main' = main
    BY <2>1 DEF Serving
  <2> QED BY <1>1, <1>3, <2>2, <2>3, <2>4, SameIs, TakesWatches DEF SelectInv
<1>5. CASE UNCHANGED <<ctx, m_JobQueue, main>>
  BY <1>1, <1>3, <1>5, SameIs, TakesWatches DEF SelectInv, QueueGrows
<1> QED BY <1>4, <1>5 DEF S!OnReceive

\* Steps that touch nothing but the threads' own state.
LEMMA SelectReaderWatches ==
    ASSUME SelectInv, SelectInv', Watching, S!RecvFails \/ S!EndReadThread \/ S!SelectWrites, server' = server
    PROVE  Watching'
<1>1. /\ UNCHANGED <<net, socket, Clients, ctx, reads, writes, m_JobQueue, finished, worker, flaw>>
      /\ main' \in {main, "crashed"}
  BY DEF S!RecvFails, S!EndReadThread, S!SelectWrites
<1>2. PeersLeave /\ (Serving' => main' = main)
  BY <1>1 DEF PeersLeave, Serving
<1> QED BY <1>1, <1>2, SameIs, TakesWatches DEF SelectInv, QueueGrows

\* When the write thread ends, it is recorded for all.
LEMMA SelectSelectFailsWatches ==
    ASSUME SelectInv, SelectInv', Watching, S!SelectFails, server' = server
    PROVE  Watching'
<1>1. /\ main' = main /\ worker' = worker
      /\ main \notin {"constructed", "running"} \/ flaw' = [s \in Session |-> flaw[s] \cup {"unwatched"}]
  BY Instances DEF S!SelectFails, S!ThreadsRun
<1>2. CASE flaw' = [s \in Session |-> flaw[s] \cup {"unwatched"}]
  <2>1. \A s \in Session : ~Unsent(s)'
    BY <1>2 DEF Unsent
  <2> QED BY <1>1, <2>1 DEF Watching
<1> QED BY <1>1, <1>2, NotServing DEF Serving

\* The write thread sends; what it sent is popped later.
LEMMA SelectResumeSendWatches ==
    ASSUME SelectInv, SelectInv', Watching, S!ResumeSend, server' = server
    PROVE  Watching'
<1> DEFINE i == reader.write.i
           s == Clients[i]
           buf == ctx[s].sendBuffer
<1>1. /\ reader.write.pc = "resume" /\ i \in Slot
      /\ UNCHANGED <<socket, Clients, ctx, reads, writes, m_JobQueue, finished, worker, main>>
  BY DEF S!ResumeSend, S!Writer, SelectInv, SelectReader
<1>2. CASE UNCHANGED <<net, flaw>>
  BY <1>1, <1>2, SameIs, TakesWatches DEF SelectInv, QueueGrows, PeersLeave
<1>3. CASE /\ s # None /\ GiveKernel(s, buf, Sent(s, buf))
           /\ \E names \in {{"both_send"}, {}} : Flawed(s, names)
  <2>1. s \in Session
    BY <1>1, <1>3 DEF SelectInv, Stream, Shapes
  <2>2. FlawsStay
    <3>1. {"both_send"} \in SUBSET Flaws /\ {} \in SUBSET Flaws
      BY DEF Flaws
    <3> QED BY <1>3, <2>1, <3>1, FlawedIs DEF SelectInv
  <2>3. PeersLeave
    BY <1>3, <2>1, GivePeersIs DEF SelectInv
  <2> QED BY <1>1, <2>2, <2>3, SameIs, TakesWatches DEF SelectInv, QueueGrows
<1> QED BY <1>2, <1>3, Zenon DEF S!ResumeSend, S!Writer, S!None, None, S!GiveKernel, GiveKernel, S!Sent,
              Sent, S!Flawed, Flawed

\* What is popped does not fill a buffer.
LEMMA SelectPoppedTakes ==
    ASSUME SelectInv, NEW s \in Session, NEW r, NEW n \in Nat, S!Popped(s, r, n), net' = net
    PROVE  /\ FlawsStay /\ PeersLeave
           /\ \A v \in Session : ctx'[v].slot = ctx[v].slot
           /\ \A v \in Session : ctx'[v].sendBuffer # NoJob => ctx[v].sendBuffer # NoJob
           /\ \A v \in Session : v # s => ctx'[v].sendBuffer = ctx[v].sendBuffer
<1>1. FlawsStay /\ Only(s) /\ Len(ctx'[s].sendBuffer) <= Len(ctx[s].sendBuffer)
  BY SelectPoppedIs DEF SelectInv
<1>2. ctx[s].sendBuffer \in Seq(Job) /\ ctx'[s].sendBuffer \in Seq(Job)
  BY <1>1 DEF Only, SelectInv, Stream, Shapes, Context
<1>3. ctx'[s].sendBuffer # NoJob => ctx[s].sendBuffer # NoJob
  BY <1>1, <1>2, ShorterIs
<1> QED BY <1>1, <1>3 DEF Only, PeersLeave

\* The write thread pops, from the context it has sent from, if that is still there.
LEMMA SelectPopResumedWatches ==
    ASSUME SelectInv, SelectInv', Watching, S!PopResumed, server' = server
    PROVE  Watching'
<1> DEFINE i == reader.write.i
           r == reader.write.ctx
<1>1. /\ i \in Slot /\ reader.write.n \in Nat
      /\ UNCHANGED <<net, socket, Clients, reads, writes, m_JobQueue, finished, worker, main>>
  BY DEF S!PopResumed, S!Writer, SelectInv, SelectReader
<1>2. CASE UNCHANGED <<ctx, flaw>>
  BY <1>1, <1>2, SameIs, TakesWatches DEF SelectInv, QueueGrows, PeersLeave
<1>3. ASSUME NEW s \in S!Memory(r, i), s # None, S!Popped(s, r, reader.write.n) PROVE Watching'
  <2>1. s \in Session
    BY <1>1, <1>3, SelectMemoryIs
  <2> QED BY <1>1, <1>3, <2>1, SelectPoppedTakes, SameIs, TakesWatches DEF SelectInv, QueueGrows
<1> QED BY <1>2, <1>3, Zenon DEF S!PopResumed, S!Writer, S!None, None

\* What is stored when the slot is no longer watched is recorded.
LEMMA SelectClearWritesWatches ==
    ASSUME SelectInv, SelectInv', Watching, S!ClearWrites, server' = server
    PROVE  Watching'
<1> DEFINE i == reader.write.i
           s == Clients[i]
<1>1. /\ i \in Slot /\ writes' = writes \ {i}
      /\ UNCHANGED <<net, socket, Clients, ctx, m_JobQueue, finished, worker, main>>
      /\ s # None /\ ctx[s].sendBuffer # NoJob => Flawed(s, {"unwatched"})
      /\ flaw' = flaw \/ Flawed(s, {"unwatched"})
  BY DEF S!ClearWrites, S!Writer, SelectInv, SelectReader, S!None, None, S!Flawed, Flawed, NoJob
<1> HIDE DEF i
<1> QED BY <1>1, UnwatchWatches DEF SelectInv

\* A job that is taken from the queue is held.
LEMMA SelectPopJobWatches ==
    ASSUME SelectInv, SelectInv', Watching, NEW w \in Worker, S!PopJob(w), server' = server
    PROVE  Watching'
<1>1. /\ TakeJob(w, "look_up")
      /\ UNCHANGED <<net, socket, Clients, ctx, reads, writes, finished, reader, main, flaw>>
  BY SelectWorkerIs DEF S!PopJob
<1>2. "look_up" \in Pcs \ (Off \cup {"pop"})
  BY DEF Pcs, Off
<1> QED BY <1>1, <1>2, TakeJobWatches DEF SelectInv

\* A job thread looks up the context, or will queue the job again.
LEMMA SelectGetContextWatches ==
    ASSUME SelectInv, SelectInv', Watching, NEW w \in Worker, S!GetContext(w), server' = server
    PROVE  Watching'
<1> DEFINE s == Clients[JobSlot(w)]
           pc == IF s = None THEN "requeue" ELSE "store"
<1>1. /\ worker[w].pc = "look_up" /\ worker' = [worker EXCEPT ![w].pc = pc, ![w].ctx = s]
      /\ UNCHANGED <<net, socket, Clients, ctx, reads, writes, m_JobQueue, finished, reader, main, flaw>>
  BY SelectWorkerIs, Instances DEF S!GetContext
<1>2. worker[w].pc \notin Off /\ pc # "pop"
  BY <1>1 DEF Off
<1> HIDE DEF s, pc
<1>3. /\ worker'[w].job = worker[w].job /\ worker'[w].pc = pc
      /\ \A v \in Worker : v # w => worker'[v] = worker[v]
  BY <1>1 DEF SelectInv, Stream, Shapes, Work
<1>4. PeersLeave
  BY <1>1 DEF PeersLeave
<1> QED BY <1>1, <1>2, <1>3, <1>4, SameIs, JobSlotIs, GoesOnWatches DEF SelectInv, QueueGrows

\* A job thread that goes on with a context keeps its job.
LEMMA SelectGoesIs ==
    ASSUME SelectInv, NEW w \in Worker, NEW pc, NEW s, NEW n, S!WorkerSends(w, pc, s, n)
    PROVE  /\ worker'[w].job = worker[w].job /\ worker'[w].pc = pc /\ worker'[w].ctx = s
           /\ \A v \in Worker : v # w => worker'[v] = worker[v]
BY DEF S!WorkerSends, SelectInv, Stream, Shapes, Work

\* An answer is stored while the job is held.
LEMMA SelectStoreAnswerWatches ==
    ASSUME SelectInv, SelectInv', Watching, NEW w \in Worker, S!StoreAnswer(w), server' = server
    PROVE  Watching'
<1> DEFINE job == worker[w].job
<1>1. /\ worker[w].pc = "store" /\ worker[w].pc \notin Off
      /\ UNCHANGED <<net, socket, Clients, reads, writes, m_JobQueue, finished, reader, main>>
  BY DEF S!StoreAnswer, Off
<1>2. PICK i \in Slot : i = JobSlot(w)
  BY <1>1, JobSlotIs DEF SelectInv
<1>3. PeersLeave
  BY <1>1 DEF PeersLeave
<1>4. PICK s \in S!Memory(worker[w].ctx, JobSlot(w)) :
        IF s = None
        THEN WorkerGoto(w, "store", "watch") /\ UNCHANGED <<ctx, flaw>>
        ELSE IF ~Fits(ctx[s].sendBuffer, job)
        THEN WorkerGoto(w, "store", "requeue") /\ Flawed(s, {"overflow"}) /\ UNCHANGED ctx
        ELSE /\ ctx' = [ctx EXCEPT ![s].sendBuffer = @ \o Answer(job)]
             /\ S!WorkerSends(w, "send", s, 0)
             /\ UNCHANGED flaw
  BY SelectWorkerIs, Instances, Zenon DEF S!StoreAnswer
<1>5. s # None => s \in Session /\ ctx[s].slot = i
  BY <1>2, SelectMemoryIs
<1>6. /\ worker'[w].job = worker[w].job /\ worker'[w].pc # "pop"
      /\ \A v \in Worker : v # w => worker'[v] = worker[v]
  <2>1. \/ WorkerGoto(w, "store", "watch") \/ WorkerGoto(w, "store", "requeue")
        \/ S!WorkerSends(w, "send", s, 0)
    BY <1>4, Zenon
  <2>2. CASE WorkerGoto(w, "store", "watch")
    BY <2>2, GotoIs DEF SelectInv
  <2>3. CASE WorkerGoto(w, "store", "requeue")
    BY <2>3, GotoIs DEF SelectInv
  <2>4. CASE S!WorkerSends(w, "send", s, 0)
    BY <2>4, SelectGoesIs
  <2> QED BY <2>1, <2>2, <2>3, <2>4
<1>7. FlawsStay
  <2>1. flaw' = flaw \/ (s # None /\ Flawed(s, {"overflow"}))
    BY <1>4, Zenon
  <2>2. {"overflow"} \in SUBSET Flaws
    BY DEF Flaws
  <2> QED BY <1>5, <2>1, <2>2, FlawedIs, SameIs DEF SelectInv
<1>8. /\ \A r \in Session : ctx'[r].slot = ctx[r].slot
      /\ \A r \in Session : ctx[r].slot # i => ctx'[r].sendBuffer = ctx[r].sendBuffer
  <2>1. ctx' = ctx \/ (s # None /\ ctx' = [ctx EXCEPT ![s].sendBuffer = @ \o Answer(job)])
    BY <1>4, Zenon
  <2> QED BY <1>5, <2>1 DEF SelectInv, Stream, Shapes, Context
<1> QED BY <1>1, <1>2, <1>3, <1>6, <1>7, <1>8, GoesOnWatches DEF SelectInv, QueueGrows

\* A thread that has sent from the context that has the slot minds it.
LEMMA SelectSendAnswersWatches ==
    ASSUME SelectInv, SelectInv', Watching, NEW w \in Worker, S!SendAnswers(w), server' = server
    PROVE  Watching'
<1>1. /\ worker[w].pc = "send" /\ worker[w].pc \notin Off
      /\ UNCHANGED <<socket, Clients, ctx, reads, writes, m_JobQueue, finished, reader, main>>
  BY DEF S!SendAnswers, Off
<1>2. PICK i \in Slot : i = JobSlot(w)
  BY <1>1, JobSlotIs DEF SelectInv
<1>3. PICK s \in S!Memory(worker[w].ctx, JobSlot(w)) :
        \/ WorkerGoto(w, "send", "watch") /\ UNCHANGED <<net, flaw>>
        \/ /\ s # None
           /\ GiveKernel(s, ctx[s].sendBuffer, Sent(s, ctx[s].sendBuffer))
           /\ S!WorkerSends(w, "pop", s, Sent(s, ctx[s].sendBuffer))
           /\ \E names \in {{"both_send"}, {}} : Flawed(s, names)
  BY SelectWorkerIs, Instances, Zenon DEF S!SendAnswers, S!GiveKernel, GiveKernel, S!Sent, Sent
<1>4. CASE WorkerGoto(w, "send", "watch") /\ UNCHANGED <<net, flaw>>
  <2>1. /\ worker'[w].job = worker[w].job /\ worker'[w].pc # "pop"
        /\ \A v \in Worker : v # w => worker'[v] = worker[v]
    BY <1>4, GotoIs DEF SelectInv
  <2>2. PeersLeave
    BY <1>4 DEF PeersLeave
  <2> QED BY <1>1, <1>2, <1>4, <2>1, <2>2, SameIs, GoesOnWatches DEF SelectInv, QueueGrows
<1> DEFINE n == Sent(s, ctx[s].sendBuffer)
<1>5. CASE /\ s # None /\ GiveKernel(s, ctx[s].sendBuffer, n) /\ S!WorkerSends(w, "pop", s, n)
           /\ \E names \in {{"both_send"}, {}} : Flawed(s, names)
  <2> HIDE DEF n
  <2>1. s \in Session /\ Clients[i] = s
    BY <1>2, <1>5, SelectMemoryIs
  <2>2. FlawsStay
    <3>1. {"both_send"} \in SUBSET Flaws /\ {} \in SUBSET Flaws
      BY DEF Flaws
    <3> QED BY <1>5, <2>1, <3>1, FlawedIs DEF SelectInv
  <2>3. PeersLeave
    BY <1>5, <2>1, GivePeersIs DEF SelectInv
  <2>4. /\ worker'[w].job = worker[w].job /\ worker'[w].ctx = s
        /\ \A v \in Worker : v # w => worker'[v] = worker[v]
    BY <1>5, SelectGoesIs
  <2>5. Minds(w)'
    <3>1. JobSlot(w)' = i
      BY <1>1, <1>2, <2>4 DEF JobSlot
    <3> QED BY <1>1, <2>1, <2>4, <3>1 DEF Minds
  <2> QED BY <1>1, <1>2, <2>2, <2>3, <2>4, <2>5, GoesOnWatches DEF SelectInv, QueueGrows
<1> HIDE DEF n
<1> QED BY <1>3, <1>4, <1>5, Zenon DEF n

\* A thread that finds the context it has sent from gone did not mind the slot: another
\* thread or the queue has what is stored there.
LEMMA SelectPopAnswersWatches ==
    ASSUME SelectInv, SelectInv', Watching, NEW w \in Worker, S!PopAnswers(w), server' = server
    PROVE  Watching'
<1>1. /\ worker[w].pc = "pop" /\ worker[w].pc \notin Off /\ worker[w].n \in Nat
      /\ UNCHANGED <<net, socket, Clients, reads, writes, m_JobQueue, reader, main>>
  BY DEF S!PopAnswers, Off, SelectInv, Stream, Shapes, Work
<1>2. PICK i \in Slot : i = JobSlot(w)
  BY <1>1, JobSlotIs DEF SelectInv
<1>3. PICK s \in S!Memory(worker[w].ctx, JobSlot(w)) :
        IF s = None
        THEN JobDone(w) /\ UNCHANGED <<ctx, flaw>>
        ELSE /\ S!Popped(s, worker[w].ctx, worker[w].n)
             /\ IF ctx'[s].sendBuffer = <<>> THEN JobDone(w)
                ELSE WorkerGoto(w, "pop", "watch") /\ UNCHANGED finished
  BY SelectWorkerIs, Instances, Zenon DEF S!PopAnswers
<1>4. CASE s = None /\ JobDone(w) /\ UNCHANGED <<ctx, flaw>>
  <2>1. ~Minds(w) \/ Clients[i] = None
    BY <1>1, <1>2, <1>3, <1>4, Instances DEF Minds, S!Memory, SelectInv
  <2>2. \A v \in Worker : v # w => worker'[v] = worker[v]
    BY <1>4, OthersAre DEF SelectInv
  <2>3. PeersLeave
    BY <1>1 DEF PeersLeave
  <2>4. ASSUME Serving PROVE WatchedAt(i)
    <3> SUFFICES ASSUME NEW r \in Session, ctx[r].slot = i, Unsent(r)' PROVE i \in writes' \/ Busy(i)'
      BY <1>4 DEF WatchedAt
    <3>1. Unsent(r) /\ Clients[i] = r
      BY <1>1, <1>4 DEF Unsent, Alive, Lost
    <3>2. ~Minds(w)
      BY <2>1, <3>1, Names
    <3>3. CASE Busy(i)
      <4>1. PICK j \in Job : ctx[j[1]].slot = i /\ Cared(j)
        BY <3>3 DEF Busy
      <4>2. Cared(j)'
        <5>1. CASE Queued(j)
          BY <1>1, <5>1 DEF Cared, Queued
        <5>2. ASSUME NEW v \in Worker, worker[v].job = j, Minds(v) PROVE Cared(j)'
          <6>1. v # w /\ worker'[v] = worker[v]
            BY <2>2, <3>2, <5>2
          <6>2. Minds(v)'
            BY <1>1, <1>4, <5>2, <6>1 DEF Minds, JobSlot
          <6> QED BY <5>2, <6>1, <6>2 DEF Cared
        <5> QED BY <4>1, <5>1, <5>2 DEF Cared
      <4> QED BY <1>4, <4>1, <4>2 DEF Busy
    <3> QED BY <1>1, <2>4, <3>1, <3>3 DEF Watching
  <2> QED BY <1>1, <1>2, <1>4, <2>2, <2>3, <2>4, SameIs, WorkerFillsWatches DEF SelectInv, QueueGrows
<1>5. CASE s # None /\ S!Popped(s, worker[w].ctx, worker[w].n)
  <2>1. s \in Session /\ Clients[i] = s /\ ctx[s].slot = i
    BY <1>2, <1>5, SelectMemoryIs
  <2>2. /\ FlawsStay /\ PeersLeave
        /\ \A v \in Session : ctx'[v].slot = ctx[v].slot
        /\ \A v \in Session : ctx[v].slot # i => ctx'[v].sendBuffer = ctx[v].sendBuffer
    BY <1>1, <1>5, <2>1, SelectPoppedTakes
  <2>3. CASE ctx'[s].sendBuffer = NoJob /\ JobDone(w)
    <3>1. WatchedAt(i)
      BY <1>1, <2>1, <2>3 DEF WatchedAt, Unsent, Alive
    <3>2. \A v \in Worker : v # w => worker'[v] = worker[v]
      BY <2>3, OthersAre DEF SelectInv
    <3> QED BY <1>1, <1>2, <2>2, <3>1, <3>2, WorkerFillsWatches DEF SelectInv, QueueGrows
  <2>4. CASE WorkerGoto(w, "pop", "watch")
    <3>1. /\ worker'[w].job = worker[w].job /\ worker'[w].pc # "pop"
          /\ \A v \in Worker : v # w => worker'[v] = worker[v]
      BY <2>4, GotoIs DEF SelectInv
    <3> QED BY <1>1, <1>2, <2>2, <3>1, GoesOnWatches DEF SelectInv, QueueGrows
  <2> QED BY <1>3, <1>5, <2>3, <2>4, Zenon DEF NoJob
<1> QED BY <1>3, <1>4, <1>5, Zenon

\* A slot is watched for room to write.
LEMMA SelectWatchWritesWatches ==
    ASSUME SelectInv, SelectInv', Watching, NEW w \in Worker, S!WatchWrites(w), server' = server
    PROVE  Watching'
<1>1. /\ worker[w].pc = "watch" /\ worker[w].pc \notin Off
      /\ writes' = writes \cup {JobSlot(w)} /\ JobDone(w)
      /\ UNCHANGED <<net, socket, Clients, ctx, reads, m_JobQueue, reader, main, flaw>>
  BY SelectWorkerIs DEF S!WatchWrites, Off
<1>2. PICK i \in Slot : i = JobSlot(w)
  BY <1>1, JobSlotIs DEF SelectInv
<1>3. WatchedAt(i) /\ PeersLeave
  BY <1>1, <1>2 DEF WatchedAt, PeersLeave
<1> QED BY <1>1, <1>2, <1>3, SameIs, OthersAre, WorkerFillsWatches DEF SelectInv, QueueGrows

\* A job that is given up is queued again.
LEMMA SelectRequeueWatches ==
    ASSUME SelectInv, SelectInv', Watching, NEW w \in Worker, S!Requeue(w), server' = server
    PROVE  Watching'
<1>1. /\ GiveUpJob(w) /\ m_JobQueue' = Append(m_JobQueue, worker[w].job)
      /\ UNCHANGED <<net, socket, Clients, ctx, reads, writes, finished, reader, main, flaw>>
  BY SelectWorkerIs DEF S!Requeue
<1> QED BY <1>1, RequeueWatches DEF SelectInv

\* Job threads end only when the end of the server is begun.
LEMMA SelectEndJobThreadWatches ==
    ASSUME SelectInv, SelectInv', Watching, NEW w \in Worker, S!EndJobThread(w), server' = server
    PROVE  Watching'
<1>1. worker[w].pc = "idle" /\ main # "running" /\ main' = main
  BY DEF S!EndJobThread, S!WorkerGoto, S!JobsRun
<1>2. main # "constructed"
  BY <1>1 DEF Watching
<1> QED BY <1>1, <1>2, NotServing DEF Serving

\* main starts the job threads before there are jobs, and ends the server.
LEMMA SelectMainWatches ==
    ASSUME SelectInv, SelectInv', Watching, S!MainThread, server' = server
    PROVE  Watching'
<1>1. CASE S!Start
  <2>1. /\ main = "constructed" /\ main' = "running"
        /\ UNCHANGED <<net, socket, Clients, ctx, reads, writes, m_JobQueue, finished, reader, flaw>>
    BY <1>1 DEF S!Start, S!MainGoto
  <2> QED BY <2>1, StartWatches DEF SelectInv
<1>2. CASE S!End \/ S!DestroyJobThread \/ S!DestroyThread \/ S!ReleaseAllContexts
  <2>1. ~Serving'
    BY <1>2 DEF S!End, S!DestroyJobThread, S!DestroyThread, S!ReleaseAllContexts, S!MainGoto, Serving
  <2> QED BY <2>1, NotServing
<1> QED BY <1>1, <1>2 DEF S!MainThread

\* A client that leaves or receives touches no buffer.
LEMMA SelectClientWatches ==
    ASSUME SelectInv, SelectInv', Watching, NEW s \in Session, S!ClientStep(s) \/ S!DrainStep(s), server' = server
    PROVE  Watching'
<1>1. UNCHANGED ServerVars /\ (Leave(s) \/ Drain(s))
  BY DEF S!ClientStep, S!DrainStep, S!Leave, Leave, S!Drain, Drain, S!ServerVars, ServerVars
<1>2. PeersLeave
  BY <1>1, LeavesIs DEF SelectInv
<1>3. UNCHANGED <<socket, Clients, ctx, reads, writes, m_JobQueue, finished, reader, worker, main, flaw>>
  BY <1>1 DEF ServerVars
<1> QED BY <1>2, <1>3, SameIs, TakesWatches DEF SelectInv, QueueGrows

\* Each step of the select server keeps it.
LEMMA SelectWatchesNext ==
    ASSUME SelectInv, SelectInv', Watching, [S!Next]_vars
    PROVE  Watching'
<1>1. CASE UNCHANGED vars
  BY <1>1, VarsWatch
<1>2. CASE S!Next
  <2>1. server' = server
    BY <1>2 DEF S!Next, S!Runs, S!RunsAs
  <2>2. CASE S!ReadThread
    BY <2>1, <2>2, SelectDoDisconnectWatches, SelectDoRecvWatches, SelectReaderWatches, SelectOnReceiveWatches,
       SelectDoAcceptWatches, Instances DEF S!ReadThread
  <2>3. CASE S!WriteThread
    BY <2>1, <2>3, SelectReaderWatches, SelectSelectFailsWatches, SelectResumeSendWatches, SelectPopResumedWatches,
       SelectClearWritesWatches DEF S!WriteThread
  <2>4. CASE S!MainThread
    BY <2>1, <2>4, SelectMainWatches
  <2>5. CASE \E w \in Worker : S!JobThread(w)
    BY <2>1, <2>5, SelectPopJobWatches, SelectGetContextWatches, SelectStoreAnswerWatches,
       SelectSendAnswersWatches, SelectPopAnswersWatches, SelectWatchWritesWatches, SelectRequeueWatches,
       SelectEndJobThreadWatches DEF S!JobThread
  <2>6. CASE \E s \in S!Session : S!ClientStep(s) \/ S!DrainStep(s)
    BY <2>1, <2>6, SelectClientWatches, Instances
  <2> QED BY <1>2, <2>2, <2>3, <2>4, <2>5, <2>6 DEF S!Next
<1> QED BY <1>1, <1>2

-----------------------------------------------------------------------------
(* What is left in a send buffer of the IOCP server.                        *)

\* What is stored on connection i is taken up when the last send completes, so there
\* is one: the kernel has it, unless it failed since the client has left, or was lost
\* with the client that had the connection before.
Stored(i) == IF Clients[i] = None THEN reader.conn[i].left ELSE ctx[Clients[i]].sendBuffer
SendStays(i) == \/ i \in writes
                \/ net[Clients[i]].peer # "open"
                \/ "unwatched" \in flaw[Clients[i]]
Sends(i) ==
    /\ Stored(i) # NoJob => reader.conn[i].len # 0
    /\ Clients[i] # None /\ reader.conn[i].len # 0 => SendStays(i)
IocpWatches == \A i \in Slot : Sends(i)

\* The client of a connection.
LEMMA IocpClientIs ==
    ASSUME IocpInv, NEW i \in Slot, Clients[i] # None
    PROVE  Clients[i] \in Session /\ ctx[Clients[i]].slot = i /\ socket[i] = Clients[i]
BY IocpConnIs DEF IocpInv, Stream, Shapes, Tables, Newest, IocpConn

\* A connection that keeps its client and its send keeps it.
LEMMA SendsStays ==
    ASSUME IocpInv, NEW i \in Slot, Sends(i), Clients'[i] = Clients[i], FlawsStay,
           reader'.conn[i].len = reader.conn[i].len,
           reader'.conn[i].left \in {reader.conn[i].left, NoJob},
           i \in writes => i \in writes',
           Clients[i] # None =>
               /\ net'[Clients[i]].peer = "open" => net[Clients[i]].peer = "open"
               /\ ctx'[Clients[i]].sendBuffer = ctx[Clients[i]].sendBuffer
    PROVE  Sends(i)'
<1>1. CASE Clients[i] = None
  BY <1>1 DEF Sends, Stored
<1>2. CASE Clients[i] # None
  <2>1. Clients[i] \in Session
    BY <1>2, IocpClientIs
  <2>2. SendStays(i) => SendStays(i)'
    BY <1>2, <2>1 DEF SendStays, FlawsStay
  <2> QED BY <1>2, <2>2 DEF Sends, Stored
<1> QED BY <1>1, <1>2

\* A step that touches no buffer and no send.
LEMMA IocpQuietWatches ==
    ASSUME IocpInv, IocpWatches, UNCHANGED <<Clients, writes>>, PeersLeave, FlawsStay,
           \A i \in Slot : /\ reader'.conn[i].len = reader.conn[i].len
                           /\ reader'.conn[i].left \in {reader.conn[i].left, NoJob},
           \A s \in Session : ctx'[s].sendBuffer = ctx[s].sendBuffer
    PROVE  IocpWatches'
<1> SUFFICES ASSUME NEW i \in Slot PROVE Sends(i)'
  BY DEF IocpWatches
<1>1. Clients[i] # None => Clients[i] \in Session
  BY IocpClientIs
<1> QED BY <1>1, SendsStays DEF IocpWatches, PeersLeave

\* In particular one that changes no connection.
LEMMA IocpOtherWatches ==
    ASSUME IocpInv, IocpWatches, UNCHANGED <<ctx, Clients, writes, flaw>>, PeersLeave,
           reader'.conn = reader.conn
    PROVE  IocpWatches'
BY SameIs, IocpQuietWatches DEF IocpInv

\* A step that concerns connection i only.
LEMMA IocpOneWatches ==
    ASSUME IocpInv, IocpWatches, NEW i \in Slot, NEW c \in Connection, I!SetConn(i, c), FlawsStay, Sends(i)',
           \A j \in Slot : j # i => Clients'[j] = Clients[j] /\ (j \in writes => j \in writes'),
           \A s \in Session : ctx[s].slot \notin {None, i} =>
               ctx'[s].sendBuffer = ctx[s].sendBuffer /\ net'[s].peer = net[s].peer
    PROVE  IocpWatches'
<1> SUFFICES ASSUME NEW j \in Slot, j # i PROVE Sends(j)'
  BY DEF IocpWatches
<1>1. reader'.conn[j] = reader.conn[j]
  BY SetConnIs
<1>2. Clients[j] # None => Clients[j] \in Session /\ ctx[Clients[j]].slot \notin {None, i}
  BY IocpClientIs, Names
<1> QED BY <1>1, <1>2, SendsStays DEF IocpWatches

\* Whoever is accepted gets what was left; if no send is under way that is recorded.
LEMMA IocpDoAcceptWatches ==
    ASSUME IocpInv, IocpWatches, NEW s \in Session, I!DoAccept(s), server' = server
    PROVE  IocpWatches'
<1>1. PICK i \in Slot :
        /\ reader.conn[i].pc = "accept"
        /\ Clients' = [Clients EXCEPT ![i] = s]
        /\ ctx' = [ctx EXCEPT ![s].slot = i, ![s].sendBuffer = reader.conn[i].left]
        /\ I!SetConn(i, [reader.conn[i] EXCEPT !.pc = "recv", !.left = NoJob])
        /\ Flawed(s, IF reader.conn[i].len > 0 /\ i \notin writes THEN {"unwatched"} ELSE {})
  <2>1. \A t, names : I!Flawed(t, names) <=> Flawed(t, names)
    BY IocpSharedIs
  <2> QED BY <2>1 DEF I!DoAccept, I!BindIOCP, I!BindRecv, I!conn, NoJob
<1> DEFINE d == [reader.conn[i] EXCEPT !.pc = "recv", !.left = NoJob]
<1>2. IocpConn(i) /\ reader.conn[i] \in Connection /\ NoJob \in Seq(Job)
  BY IocpConnIs, EmptySeq DEF NoJob
<1>3. d \in Connection /\ d.len = reader.conn[i].len
  BY <1>2 DEF Connection
<1>4. Clients[i] = None /\ reader.conn[i].len \in Nat
  BY <1>1, <1>2 DEF IocpConn, Connection
<1> HIDE DEF d
<1>5. net[s].peer = "connecting" /\ net' = [net EXCEPT ![s].peer = "open"] /\ UNCHANGED writes
  BY DEF I!DoAccept, I!Pending
<1>6. ctx[s].slot = None
  BY <1>5 DEF IocpInv, Stream, Fresh, Away, NewContext
<1>7. reader'.conn[i] = d
  BY <1>1, <1>3, SetConnIs DEF d
<1>8. FlawsStay /\ (reader.conn[i].len > 0 /\ i \notin writes => "unwatched" \in flaw'[s])
  BY <1>1 DEF FlawsStay, Flawed, IocpInv, Stream, Shapes
<1>9. Sends(i)'
  <2>1. Clients'[i] = s /\ ctx'[s].sendBuffer = reader.conn[i].left
    BY <1>1 DEF IocpInv, Stream, Shapes, Context
  <2>2. Stored(i)' = Stored(i)
    BY <1>4, <2>1, Names DEF Stored
  <2>3. reader'.conn[i].len # 0 => SendStays(i)'
    BY <1>3, <1>4, <1>5, <1>7, <1>8, <2>1 DEF SendStays
  <2> QED BY <1>3, <1>7, <2>2, <2>3 DEF Sends, IocpWatches
<1>10. \A j \in Slot : j # i => Clients'[j] = Clients[j] /\ (j \in writes => j \in writes')
  BY <1>1, <1>5 DEF IocpInv, Stream, Shapes
<1>11. \A r \in Session : ctx[r].slot \notin {None, i} =>
           ctx'[r].sendBuffer = ctx[r].sendBuffer /\ net'[r].peer = net[r].peer
  BY <1>1, <1>5, <1>6 DEF IocpInv, Stream, Shapes
<1> QED BY <1>1, <1>3, <1>8, <1>9, <1>10, <1>11, IocpOneWatches DEF d

\* A connection that is reset has no client, and nothing stored.
LEMMA IocpResetWatches ==
    ASSUME IocpInv, IocpWatches, NEW i \in Slot, I!ResetConnection(i), writes' \in {writes, writes \ {i}},
           FlawsStay, UNCHANGED <<net, ctx>>
    PROVE  IocpWatches'
<1> DEFINE d == [reader.conn[i] EXCEPT !.pc = "accept", !.left = NoJob]
<1>1. Clients' = [Clients EXCEPT ![i] = None] /\ I!SetConn(i, d)
  BY Instances DEF I!ResetConnection, I!InitConnection, I!BindAcceptEx, I!conn, NoJob
<1>2. reader.conn[i] \in Connection /\ NoJob \in Seq(Job)
  BY IocpConnIs, EmptySeq DEF NoJob
<1>3. d \in Connection /\ d.left = NoJob
  BY <1>2 DEF Connection
<1> HIDE DEF d
<1>4. Sends(i)'
  BY <1>1, <1>3, SetConnIs DEF Sends, Stored, IocpInv, Stream, Shapes
<1>5. \A j \in Slot : j # i => Clients'[j] = Clients[j] /\ (j \in writes => j \in writes')
  BY <1>1 DEF IocpInv, Stream, Shapes
<1> QED BY <1>1, <1>3, <1>4, <1>5, IocpOneWatches

\* To disconnect a client resets its connection,
LEMMA IocpDisconnectWatches ==
    ASSUME IocpInv, IocpWatches, NEW i \in Slot, I!Disconnect(i), server' = server
    PROVE  IocpWatches'
<1>1. I!ResetConnection(i) /\ UNCHANGED <<net, ctx, writes, flaw>>
  BY DEF I!Disconnect
<1> QED BY <1>1, SameIs, IocpResetWatches DEF IocpInv

\* and so does a send that was cancelled.
LEMMA IocpSendCancelledWatches ==
    ASSUME IocpInv, IocpWatches, NEW i \in Slot, I!SendCancelled(i), server' = server
    PROVE  IocpWatches'
<1>1. /\ I!ResetConnection(i) /\ writes' = writes \ {i} /\ UNCHANGED <<net, ctx>>
      /\ flaw' = flaw \/ (Clients[i] # None /\ Flawed(Clients[i], {"cut_off"}))
  BY IocpSharedIs, Instances DEF I!SendCancelled
<1>2. FlawsStay
  BY <1>1 DEF FlawsStay, Flawed, IocpInv, Stream, Shapes
<1> QED BY <1>1, <1>2, IocpResetWatches

\* Neither a receive
LEMMA IocpDoRecvWatches ==
    ASSUME IocpInv, IocpWatches, NEW i \in Slot, I!DoRecv(i), server' = server
    PROVE  IocpWatches'
<1> DEFINE s == socket[i]
           d == [reader.conn[i] EXCEPT !.pc = "parse"]
<1>1. i \in reads /\ I!SetConn(i, d) /\ UNCHANGED <<socket, Clients, writes, m_JobQueue, finished, worker, main>>
  BY DEF I!DoRecv, I!conn
<1>2. PICK n \in 1 .. RecvCap : I!Reads(s, n) /\ I!StorePartialMessage(s, n)
  BY DEF I!DoRecv
<1>3. Reads(s, n) /\ Stores(s, n) /\ (flaw' = flaw \/ Flawed(s, {"cut"}))
  BY <1>2, IocpSharedIs, Zenon DEF I!StorePartialMessage, Stores
<1>4. s \in Session /\ ctx[s].slot # None
  BY <1>1, IocpSessionIs
<1>5. reader.conn[i] \in Connection
  BY IocpConnIs
<1>6. d \in Connection /\ d.len = reader.conn[i].len /\ d.left = reader.conn[i].left
  BY <1>5 DEF Connection
<1> HIDE DEF s, d
<1>7. Only(s) /\ \A r \in Session : ctx'[r].sendBuffer = ctx[r].sendBuffer
  BY <1>3, <1>4, ReadIs DEF IocpInv
<1>8. FlawsStay
  BY <1>3, <1>4 DEF FlawsStay, Flawed, IocpInv, Stream, Shapes
<1>9. PeersLeave
  BY <1>7 DEF Only, PeersLeave
<1>10. \A j \in Slot : /\ reader'.conn[j].len = reader.conn[j].len
                       /\ reader'.conn[j].left \in {reader.conn[j].left, NoJob}
  BY <1>1, <1>6, SetConnIs
<1> QED BY <1>1, <1>7, <1>8, <1>9, <1>10, IocpQuietWatches

\* nor the handling of what was received touches a send.
LEMMA IocpOnReceiveWatches ==
    ASSUME IocpInv, IocpWatches, NEW i \in Slot, I!OnReceive(i), server' = server
    PROVE  IocpWatches'
<1> DEFINE s == Clients[i]
           d == [reader.conn[i] EXCEPT !.pc = "recv", !.left = NoJob]
<1>1. reader.conn[i].pc = "parse" /\ UNCHANGED <<net, socket, Clients, writes, finished, worker, flaw>>
  BY DEF I!OnReceive, I!conn
<1>2. s \in Session /\ ctx[s].slot # None
  BY <1>1, IocpSessionIs
<1>3. FlawsStay /\ PeersLeave
  BY <1>1, SameIs DEF IocpInv, PeersLeave
<1>4. CASE /\ ctx' = [ctx EXCEPT ![s].stored = @ - 2, ![s].popped = @ + 1]
           /\ UNCHANGED <<reads, reader>>
  <2> HIDE DEF s
  <2>1. \A r \in Session : ctx'[r].sendBuffer = ctx[r].sendBuffer
    BY <1>2, <1>4 DEF IocpInv, Stream, Shapes, Context
  <2> QED BY <1>1, <1>3, <1>4, <2>1, IocpQuietWatches
<1>5. CASE I!SetConn(i, d) /\ UNCHANGED ctx
  <2>1. reader.conn[i] \in Connection /\ NoJob \in Seq(Job)
    BY IocpConnIs, EmptySeq DEF NoJob
  <2>2. d \in Connection /\ d.len = reader.conn[i].len /\ d.left = NoJob
    BY <2>1 DEF Connection
  <2> HIDE DEF d
  <2>3. \A j \in Slot : /\ reader'.conn[j].len = reader.conn[j].len
                        /\ reader'.conn[j].left \in {reader.conn[j].left, NoJob}
    BY <1>5, <2>2, SetConnIs
  <2> QED BY <1>1, <1>3, <1>5, <2>3, IocpQuietWatches
<1> QED BY <1>4, <1>5 DEF I!OnReceive, I!BindRecv, I!conn, I!PopRecvBuffer, NoJob

\* The kernel takes a send; what it took is popped when the send completes.
LEMMA IocpKernelSendsWatches ==
    ASSUME IocpInv, IocpWatches, NEW i \in Slot, I!KernelSends(i), server' = server
    PROVE  IocpWatches'
<1> DEFINE s == reader.conn[i].sender
           d == [reader.conn[i] EXCEPT !.done = TRUE]
<1>1. /\ i \in writes /\ GiveKernel(s, ctx[s].sendBuffer, reader.conn[i].len) /\ I!SetConn(i, d)
      /\ UNCHANGED <<socket, Clients, ctx, reads, writes, flaw>>
  BY IocpSharedIs DEF I!KernelSends, I!conn
<1>2. IocpConn(i) /\ reader.conn[i] \in Connection
  BY IocpConnIs
<1>3. s \in Session
  BY <1>1, <1>2 DEF IocpConn, Connection
<1>4. d \in Connection /\ d.len = reader.conn[i].len /\ d.left = reader.conn[i].left
  BY <1>2 DEF Connection
<1>5. \A j \in Slot : /\ reader'.conn[j].len = reader.conn[j].len
                      /\ reader'.conn[j].left \in {reader.conn[j].left, NoJob}
  <2> HIDE DEF d
  <2> QED BY <1>1, <1>4, SetConnIs
<1>6. PeersLeave
  <2> HIDE DEF s
  <2> QED BY <1>1, <1>3, GivePeersIs DEF IocpInv
<1>7. FlawsStay
  BY <1>1, SameIs DEF IocpInv
<1> QED BY <1>1, <1>5, <1>6, <1>7, IocpQuietWatches

\* A buffer that is put back with something in it has a send.
LEMMA IocpPutWatches ==
    ASSUME IocpInv, IocpWatches, NEW i \in Slot, NEW buf \in Seq(Left(i)), NEW c \in Connection,
           I!PutBuffer(i, buf, c), UNCHANGED <<net, socket, Clients>>, FlawsStay,
           \A j \in Slot : j # i /\ j \in writes => j \in writes',
           buf # NoJob => c.len # 0,
           Clients[i] # None /\ c.len # 0 => SendStays(i)'
    PROVE  IocpWatches'
<1> DEFINE d == IF Clients[i] = None THEN [c EXCEPT !.left = buf] ELSE c
           s == Clients[i]
<1>1. /\ I!SetConn(i, d)
      /\ ctx' = IF s = None THEN ctx ELSE [ctx EXCEPT ![s].sendBuffer = buf]
  BY Instances DEF I!PutBuffer
<1>2. d \in Connection /\ d.len = c.len /\ (s = None => d.left = buf)
  <2>1. buf \in Seq(Job)
    <3>1. Left(i) \subseteq Job
      BY DEF Left, Known
    <3> QED BY <3>1, SeqMonotonic
  <2> QED BY <2>1 DEF Connection
<1> HIDE DEF d
<1>3. s # None => s \in Session /\ ctx[s].slot = i
  BY IocpClientIs
<1>4. reader'.conn[i] = d
  BY <1>1, <1>2, SetConnIs
<1> HIDE DEF s
<1>5. s # None => ctx'[s].sendBuffer = buf
  BY <1>1, <1>3 DEF IocpInv, Stream, Shapes, Context
<1>6. \A r \in Session : ctx[r].slot \notin {None, i} => ctx'[r].sendBuffer = ctx[r].sendBuffer
  BY <1>1, <1>3 DEF IocpInv, Stream, Shapes, Context
<1>7. Sends(i)'
  <2>1. Stored(i)' = buf
    BY <1>2, <1>4, <1>5 DEF Stored, s
  <2> QED BY <1>2, <1>4, <2>1 DEF Sends
<1> QED BY <1>1, <1>2, <1>6, <1>7, IocpOneWatches

\* A send of all that is stored; it fails only for a client that has left.
LEMMA IocpSendIOWatches ==
    ASSUME IocpInv, IocpWatches, NEW i \in Slot, NEW buf \in Seq(Left(i)), I!SendIO(i, buf),
           UNCHANGED <<net, socket, Clients>>, FlawsStay
    PROVE  IocpWatches'
<1> DEFINE n == Len(buf)
           c == [reader.conn[i] EXCEPT !.len = n, !.sender = socket[i], !.done = FALSE]
<1>1. /\ I!PutBuffer(i, buf, c)
      /\ writes' = IF I!WSASendFails(i) THEN writes \ {i} ELSE writes \cup {i}
  BY DEF I!SendIO, I!conn
<1>2. reader.conn[i] \in Connection /\ n \in Nat /\ (buf # NoJob => n # 0)
  BY IocpConnIs, LenProperties, EmptySeq DEF NoJob
<1>3. socket[i] \in Session \cup {None}
  BY DEF IocpInv, Stream, Shapes
<1> HIDE DEF n
<1>4. c \in Connection /\ c.len = n
  BY <1>2, <1>3 DEF Connection
<1> HIDE DEF c
<1>5. Clients[i] # None => SendStays(i)'
  <2> SUFFICES ASSUME Clients[i] # None PROVE SendStays(i)'
    OBVIOUS
  <2>1. socket[i] = Clients[i]
    BY IocpClientIs
  <2>2. i \in writes' \/ net[Clients[i]].peer = "reset"
    BY <1>1, <2>1, Instances DEF I!WSASendFails
  <2> QED BY <2>2 DEF SendStays
<1>6. \A j \in Slot : j # i /\ j \in writes => j \in writes'
  BY <1>1
<1> QED BY <1>1, <1>2, <1>4, <1>5, <1>6, IocpPutWatches

\* When a send completes, what has come since is sent.
LEMMA IocpDoSendWatches ==
    ASSUME IocpInv, IocpWatches, NEW i \in Slot, I!DoSend(i), server' = server
    PROVE  IocpWatches'
<1> DEFINE old == I!SendBuffer(i)
           n == IF reader.conn[i].len <= Len(old) THEN reader.conn[i].len ELSE 0
           c == [reader.conn[i] EXCEPT !.len = 0]
<1>1. /\ UNCHANGED <<net, socket, Clients, reads, m_JobQueue, finished, worker, main>>
      /\ IF n < Len(old) THEN I!SendIO(i, Drop(old, n))
         ELSE I!PutBuffer(i, NoJob, c) /\ writes' = writes \ {i}
  BY IocpSharedIs DEF I!DoSend, I!conn, NoJob
<1>2. FlawsStay
  <2>1. PICK others : flaw' = [s \in Session |-> IF s \in others THEN flaw[s] \cup {"popped"} ELSE flaw[s]]
    BY Instances DEF I!DoSend
  <2> QED BY <2>1 DEF FlawsStay
<1>3. old \in Seq(Left(i)) /\ Len(old) \in Nat /\ reader.conn[i] \in Connection
  BY IocpBufferIs, IocpConnIs
<1>4. n \in Nat /\ n <= Len(old)
  BY <1>3 DEF Connection
<1>5. c \in Connection /\ c.len = 0
  BY <1>3 DEF Connection
<1> HIDE DEF old, n, c
<1>6. CASE I!SendIO(i, Drop(old, n))
  <2>1. Drop(old, n) \in Seq(Left(i))
    BY <1>3, <1>4, DropIs
  <2> QED BY <1>1, <1>2, <1>6, <2>1, IocpSendIOWatches
<1>7. CASE I!PutBuffer(i, NoJob, c) /\ writes' = writes \ {i}
  <2>1. NoJob \in Seq(Left(i))
    BY EmptySeq DEF NoJob
  <2>2. \A j \in Slot : j # i /\ j \in writes => j \in writes'
    BY <1>7
  <2> QED BY <1>1, <1>2, <1>5, <1>7, <2>1, <2>2, IocpPutWatches
<1> QED BY <1>1, <1>6, <1>7

\* An answer is sent at once, or a send is under way already.
LEMMA IocpSendMsgWatches ==
    ASSUME IocpInv, IocpWatches, NEW w \in Worker, I!SendMsg(w), server' = server
    PROVE  IocpWatches'
<1>1. worker[w].pc \notin Off /\ UNCHANGED <<net, socket, Clients>>
  BY DEF I!SendMsg, Off
<1>2. JobSlot(w) \in Slot /\ worker[w].job[1] \in Session
  BY <1>1, JobSlotIs DEF IocpInv
<1>3. PICK i \in Slot : i = JobSlot(w)
  BY <1>2
<1> DEFINE buf == I!SendBuffer(i) \o Answer(worker[w].job)
           c == reader.conn[i]
<1>4. buf \in Seq(Left(i))
  BY <1>1, <1>3, IocpAnswerIs
<1>5. \/ Flawed(worker[w].job[1], {"overflow"}) /\ UNCHANGED <<ctx, writes, reader>>
      \/ I!SendIO(i, buf) /\ flaw' = flaw
      \/ c.len # 0 /\ I!PutBuffer(i, buf, c) /\ UNCHANGED <<writes, flaw>>
  BY <1>3, IocpSharedIs, Zenon DEF I!SendMsg, I!conn
<1>6. c \in Connection
  BY IocpConnIs
<1> HIDE DEF buf, c
<1>7. FlawsStay
  BY <1>2, <1>5 DEF FlawsStay, Flawed, IocpInv, Stream, Shapes
<1>8. CASE UNCHANGED <<ctx, writes, reader>>
  <2>1. PeersLeave
    BY <1>1 DEF PeersLeave
  <2> QED BY <1>1, <1>7, <1>8, <2>1, IocpQuietWatches
<1>9. CASE I!SendIO(i, buf)
  BY <1>1, <1>2, <1>4, <1>7, <1>9, IocpSendIOWatches
<1>10. CASE c.len # 0 /\ I!PutBuffer(i, buf, c) /\ UNCHANGED <<writes, flaw>>
  <2>1. Clients[i] # None => SendStays(i)'
    <3>1. Sends(i)
      BY DEF IocpWatches
    <3>2. Clients[i] # None => SendStays(i)
      BY <1>10, <3>1 DEF Sends, c
    <3>3. UNCHANGED <<net, Clients, writes, flaw>>
      BY <1>1, <1>10
    <3> QED BY <3>2, <3>3 DEF SendStays
  <2>2. \A j \in Slot : j # i /\ j \in writes => j \in writes'
    BY <1>10
  <2> QED BY <1>1, <1>4, <1>6, <1>7, <1>10, <2>1, <2>2, IocpPutWatches
<1> QED BY <1>5, <1>8, <1>9, <1>10

\* The rest of the steps concern no connection.
LEMMA IocpRestWatches ==
    ASSUME IocpInv, IocpWatches, server' = server,
           \/ I!MainThread \/ I!EndWorkerThread
           \/ \E w \in Worker : I!PopJob(w) \/ I!IsConnected(w) \/ I!Requeue(w) \/ I!EndJobThread(w)
           \/ \E s \in Session : I!ClientStep(s) \/ I!DrainStep(s)
    PROVE  IocpWatches'
<1>1. CASE I!MainThread
  <2>1. UNCHANGED <<net, Clients, ctx, writes, flaw>> /\ (reader' = reader \/ reader' = [reader EXCEPT !.posted = WorkerThreads])
    BY <1>1 DEF I!MainThread, I!Run, I!End, I!DestroyJobThreads, I!PostEndToWorkerThreads, I!DestroyWorkerThreads
  <2>2. reader'.conn = reader.conn
    BY <2>1 DEF IocpInv, IocpReader
  <2> QED BY <2>1, <2>2, IocpOtherWatches DEF PeersLeave
<1>2. CASE I!EndWorkerThread
  <2>1. UNCHANGED <<net, Clients, ctx, writes, flaw>>
    BY <1>2 DEF I!EndWorkerThread
  <2>2. \/ reader' = [reader EXCEPT !.threads = @ - 1]
        \/ \E n \in 1 .. reader.posted : reader' = [reader EXCEPT !.threads = @ - 1, !.posted = @ - n]
    BY <1>2 DEF I!EndWorkerThread
  <2>3. reader'.conn = reader.conn
    <3> DEFINE a == reader.conn
               b == reader.threads
               c == reader.posted
    <3>1. reader = [conn |-> a, threads |-> b, posted |-> c]
      BY DEF IocpInv, IocpReader
    <3> HIDE DEF a, b, c
    <3> QED BY <2>2, <3>1 DEF a
  <2> QED BY <2>1, <2>3, IocpOtherWatches DEF PeersLeave
<1>3. CASE \E w \in Worker : I!PopJob(w) \/ I!IsConnected(w) \/ I!Requeue(w) \/ I!EndJobThread(w)
  <2>1. UNCHANGED <<net, Clients, ctx, writes, reader, flaw>>
    BY <1>3 DEF I!PopJob, I!IsConnected, I!Requeue, I!EndJobThread
  <2> QED BY <2>1, IocpOtherWatches DEF PeersLeave
<1>4. CASE \E s \in Session : I!ClientStep(s) \/ I!DrainStep(s)
  <2>1. PICK s \in Session : (Leave(s) \/ Drain(s)) /\ UNCHANGED ServerVars
    BY <1>4 DEF I!ClientStep, I!DrainStep, I!Leave, Leave, I!Drain, Drain, I!ServerVars, ServerVars
  <2>2. PeersLeave
    BY <2>1, LeavesIs DEF IocpInv
  <2> QED BY <2>1, <2>2, IocpOtherWatches DEF ServerVars
<1> QED BY <1>1, <1>2, <1>3, <1>4

\* It holds at the start,
LEMMA IocpWatchesInit ==
    ASSUME I!Init
    PROVE  IocpWatches
<1>1. /\ Clients = [i \in Slot |-> None]
      /\ reader = [conn |-> [i \in Slot |-> I!NewConnection], threads |-> WorkerThreads, posted |-> 0]
  BY Instances DEF I!Init, I!StreamInit
<1>2. I!NewConnection.left = NoJob
  BY DEF I!NewConnection, NoJob
<1> QED BY <1>1, <1>2 DEF IocpWatches, Sends, Stored

\* and every step keeps it.
LEMMA IocpWatchesNext ==
    ASSUME IocpInv, IocpWatches, [I!Next]_vars
    PROVE  IocpWatches'
<1>1. CASE UNCHANGED vars
  BY <1>1 DEF vars, IocpWatches, Sends, Stored, SendStays
<1>2. CASE I!Next
  <2>1. server' = server
    BY <1>2 DEF I!Next, I!Runs, I!RunsAs
  <2>2. CASE \E i \in Slot : I!WorkerThread(i) \/ I!KernelSends(i)
    BY <2>1, <2>2, IocpDoRecvWatches, IocpDisconnectWatches, IocpOnReceiveWatches, IocpDoSendWatches,
       IocpSendCancelledWatches, IocpKernelSendsWatches DEF I!WorkerThread
  <2>3. CASE \E w \in Worker : I!SendMsg(w)
    BY <2>1, <2>3, IocpSendMsgWatches
  <2>4. CASE \E s \in Session : I!DoAccept(s)
    BY <2>1, <2>4, IocpDoAcceptWatches
  <2>5. \/ \E i \in Slot : I!WorkerThread(i) \/ I!KernelSends(i)
        \/ \E w \in Worker : I!SendMsg(w)
        \/ \E s \in Session : I!DoAccept(s)
        \/ \/ I!MainThread \/ I!EndWorkerThread
           \/ \E w \in Worker : I!PopJob(w) \/ I!IsConnected(w) \/ I!Requeue(w) \/ I!EndJobThread(w)
           \/ \E s \in Session : I!ClientStep(s) \/ I!DrainStep(s)
    BY <1>2, Instances DEF I!Next, I!JobThread
  <2> QED BY <2>1, <2>2, <2>3, <2>4, <2>5, IocpRestWatches
<1> QED BY <1>1, <1>2

\* The client of a connection that is found has a send if something is stored.
LEMMA IocpUnsentIsWatched ==
    ASSUME IocpInv, IocpWatches
    PROVE  UnsentIsWatched
<1> SUFFICES ASSUME NEW s \in Session, Unsent(s) PROVE ctx[s].slot \in writes
  BY DEF UnsentIsWatched, Unsent, Lost, NoJob
<1> DEFINE i == ctx[s].slot
<1>1. ctx[s].sendBuffer # NoJob /\ net[s].peer = "open" /\ Clients[i] = s /\ "unwatched" \notin flaw[s]
  BY DEF Unsent, Alive
<1>2. i \in Slot
  <2>1. ctx[s].slot # None
    BY <1>1 DEF IocpInv, Stream, Fresh, Away, NewContext, NoJob
  <2> QED BY <2>1 DEF IocpInv, Stream, Shapes, Context
<1>3. Stored(i) # NoJob /\ Clients[i] # None
  BY <1>1, Names DEF Stored
<1> HIDE DEF i
<1>4. SendStays(i)
  BY <1>2, <1>3 DEF IocpWatches, Sends
<1> QED BY <1>1, <1>4 DEF SendStays, i

-----------------------------------------------------------------------------
(* The theorems.                                                            *)

Init == E!Init \/ S!Init \/ B!Init \/ I!Init
Next == E!Next \/ S!Next \/ B!Next \/ I!Next
Spec == Init /\ [][Next]_vars

IInv == EpollInv \/ SelectInv \/ BlockingInv \/ IocpInv

\* A step of one of the servers keeps the invariant of that.
LEMMA IInvNext ==
    ASSUME IInv, [Next]_vars
    PROVE  IInv'
<1>1. /\ E!Next => server = "epoll"
      /\ S!Next => server = "select"
      /\ B!Next => server = "blocking"
      /\ I!Next => server = "iocp"
  BY DEF E!Next, E!Runs, E!RunsAs, S!Next, S!Runs, S!RunsAs, B!Next, B!Runs, B!RunsAs, I!Next, I!Runs, I!RunsAs
<1>2. CASE EpollInv
  <2>1. server = "epoll"
    BY <1>2 DEF EpollInv
  <2>2. [E!Next]_vars
    BY <1>1, <2>1 DEF Next
  <2> QED BY <1>2, <2>2, EpollInvNext DEF IInv
<1>3. CASE SelectInv
  <2>1. server = "select"
    BY <1>3 DEF SelectInv
  <2>2. [S!Next]_vars
    BY <1>1, <2>1 DEF Next
  <2> QED BY <1>3, <2>2, SelectInvNext DEF IInv
<1>4. CASE BlockingInv
  <2>1. server = "blocking"
    BY <1>4 DEF BlockingInv
  <2>2. [B!Next]_vars
    BY <1>1, <2>1 DEF Next
  <2> QED BY <1>4, <2>2, BlockingInvNext DEF IInv
<1>5. CASE IocpInv
  <2>1. server = "iocp"
    BY <1>5 DEF IocpInv
  <2>2. [I!Next]_vars
    BY <1>1, <2>1 DEF Next
  <2> QED BY <1>5, <2>2, IocpInvNext DEF IInv
<1> QED BY <1>2, <1>3, <1>4, <1>5 DEF IInv

\* The invariants of the servers are invariants.
THEOREM ServerInvariant == Spec => []IInv
<1>1. Init => IInv
  BY EpollInvInit, SelectInvInit, BlockingInvInit, IocpInvInit DEF Init, IInv
<1>2. IInv /\ [Next]_vars => IInv'
  BY IInvNext
<1> QED BY <1>1, <1>2, PTL DEF Spec

\* For any number of sessions, slots and job threads, and any sizes, a request that
\* was taken from its client's stream is one job: in the queue, held by a job
\* thread, or finished, unless it was lost in the ways that flaw records; and the
\* buffers stay within their capacities.
THEOREM JobInOnePlaceHolds == Spec => []JobInOnePlace
<1>1. IInv => JobInOnePlace
  BY EpollFollows, SelectFollows, BlockingFollows, IocpFollows DEF IInv
<1> QED BY <1>1, ServerInvariant, PTL

\* An answer goes to the client that asked, or to one that was given its slot after
\* it, in each of the servers.
THEOREM AnswersStayInSlotHolds == Spec => []AnswersStayInSlot
<1>1. IInv => AnswersStayInSlot
  BY EpollFollows, SelectFollows, BlockingFollows, IocpFollows DEF IInv
<1> QED BY <1>1, ServerInvariant, PTL

\* Each server's invariant, with what is said of the send buffers.
WatchedInv ==
    \/ EpollInv /\ EpollWatches
    \/ SelectInv /\ Watching
    \/ BlockingInv
    \/ IocpInv /\ IocpWatches

\* A step of one of the servers keeps it.
LEMMA WatchedInvNext ==
    ASSUME WatchedInv, [Next]_vars
    PROVE  WatchedInv'
<1>1. /\ E!Next => server = "epoll"
      /\ S!Next => server = "select"
      /\ B!Next => server = "blocking"
      /\ I!Next => server = "iocp"
  BY DEF E!Next, E!Runs, E!RunsAs, S!Next, S!Runs, S!RunsAs, B!Next, B!Runs, B!RunsAs, I!Next, I!Runs, I!RunsAs
<1>2. CASE EpollInv /\ EpollWatches
  <2>1. server = "epoll"
    BY <1>2 DEF EpollInv
  <2>2. [E!Next]_vars
    BY <1>1, <2>1 DEF Next
  <2>3. EpollInv'
    BY <1>2, <2>2, EpollInvNext
  <2> QED BY <1>2, <2>2, <2>3, EpollWatchesNext DEF WatchedInv
<1>3. CASE SelectInv /\ Watching
  <2>1. server = "select"
    BY <1>3 DEF SelectInv
  <2>2. [S!Next]_vars
    BY <1>1, <2>1 DEF Next
  <2>3. SelectInv'
    BY <1>3, <2>2, SelectInvNext
  <2> QED BY <1>3, <2>2, <2>3, SelectWatchesNext DEF WatchedInv
<1>4. CASE BlockingInv
  <2>1. server = "blocking"
    BY <1>4 DEF BlockingInv
  <2>2. [B!Next]_vars
    BY <1>1, <2>1 DEF Next
  <2> QED BY <1>4, <2>2, BlockingInvNext DEF WatchedInv
<1>5. CASE IocpInv /\ IocpWatches
  <2>1. server = "iocp"
    BY <1>5 DEF IocpInv
  <2>2. [I!Next]_vars
    BY <1>1, <2>1 DEF Next
  <2> QED BY <1>5, <2>2, IocpInvNext, IocpWatchesNext DEF WatchedInv
<1> QED BY <1>2, <1>3, <1>4, <1>5 DEF WatchedInv

\* The blocking server stores nothing.
LEMMA BlockingUnsentIsWatched ==
    ASSUME BlockingInv
    PROVE  UnsentIsWatched
BY DEF BlockingInv, BlockingReader, UnsentIsWatched, NoJob

\* What is left in the send buffer of a client that stays is sent by somebody, in each of
\* the servers: the slot is watched for room to write, or has a job, unless that was lost
\* in one of the ways that flaw records.
THEOREM UnsentIsWatchedHolds == Spec => []UnsentIsWatched
<1>1. Init => WatchedInv
  <2>1. CASE E!Init
    BY <2>1, EpollInvInit, EpollWatchesInit DEF WatchedInv
  <2>2. CASE S!Init
    <3>1. StreamInit
      BY <2>2, Instances DEF S!Init, S!StreamInit, StreamInit, S!NewNet, NewNet, S!NewContext, NewContext,
         S!NoWork, NoWork, S!None, None
    <3> QED BY <2>2, <3>1, SelectInvInit, WatchingInit DEF WatchedInv
  <2>3. CASE B!Init
    BY <2>3, BlockingInvInit DEF WatchedInv
  <2>4. CASE I!Init
    BY <2>4, IocpInvInit, IocpWatchesInit DEF WatchedInv
  <2> QED BY <2>1, <2>2, <2>3, <2>4 DEF Init
<1>2. WatchedInv /\ [Next]_vars => WatchedInv'
  BY WatchedInvNext
<1>3. WatchedInv => UnsentIsWatched
  BY UnsentIsWatchedFollows, BlockingUnsentIsWatched, IocpUnsentIsWatched
     DEF WatchedInv, EpollInv, EpollWatches, SelectInv
<1> QED BY <1>1, <1>2, <1>3, PTL DEF Spec
=============================================================================
