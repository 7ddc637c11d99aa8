----------------------------- MODULE ThreadPool -----------------------------
(***************************************************************************)
(* ThreadPool (ThreadPool.cpp): a lock-free FIFO of tasks and an atomic    *)
(* counter atm on which idle workers sleep (std::atomic_wait(&atm, 0)).    *)
(* Neither operation of the pool is atomic: Enqueue pushes, then counts,   *)
(* then notifies; a worker pops and then uncounts; Resize stores the       *)
(* counter, then the number of threads, then notifies, then joins.         *)
(***************************************************************************)
EXTENDS Integers, Sequences, FiniteSets

CONSTANTS
    Producer,   \* threads that call Enqueue (the IO threads)
    MaxThread,  \* bound: most worker threads Resize is asked for
    Size,       \* sizes the owner passes to Resize, Stop being Resize(0)
    MaxTask,    \* bound: tasks the producers enqueue
    MaxRetry,   \* bound: times a task returns NOT_FINISHED
    MaxGrow,    \* bound: calls of Resize for more threads
    MaxShrink   \* bound: calls of Resize for fewer threads

NoTask == 0     \* tasks are numbered from 1

ASSUME PoolAssumption ==
    /\ MaxThread \in Nat \ {0}
    /\ Size \subseteq 0 .. MaxThread
    /\ MaxTask \in Nat /\ MaxRetry \in Nat /\ MaxGrow \in Nat /\ MaxShrink \in Nat
    /\ IsFiniteSet(Producer)
    /\ Producer \cap Nat = {}

Thread == 0 .. MaxThread - 1
Task == 1 .. MaxTask

VARIABLES
    q,              \* tasks pushed and not popped, oldest first
    atm,            \* the counter the workers sleep on
    m_thControll,   \* the number of threads there should be
    pc,             \* pc[w]: where worker w is in WorkerThread
    func,           \* func[w]: the task w popped last
    enqueuing,      \* enqueuing[e]: how far a call of Enqueue by e has come
    owner,          \* where the owner of the pool is in Resize
    target,         \* the size the owner asked for
    pushed,         \* history: number of tasks the producers have pushed
    retries,        \* history: number of NOT_FINISHED returns so far
    grows,          \* history: number of calls of Resize for more threads
    shrinks         \* history: number of calls of Resize for fewer threads

ownerVars == <<m_thControll, owner, target, grows, shrinks>>
counts == <<pushed, retries>>
vars == <<q, atm, pc, func, enqueuing, ownerVars, counts>>

Init ==
    /\ q = <<>>
    /\ atm = 0
    /\ m_thControll = 0
    /\ pc = [w \in Thread |-> "none"]
    /\ func = [w \in Thread |-> NoTask]
    /\ enqueuing = [e \in Producer \cup Thread |-> "no"]
    /\ owner = "idle"
    /\ target = 0
    /\ pushed = 0
    /\ retries = 0
    /\ grows = 0
    /\ shrinks = 0

-----------------------------------------------------------------------------
(* Enqueue, called by a producer or by a worker that returns a task.        *)
(* (Here and below, an action commented as a fault is not part of Next: it  *)
(* is the action after it with a plausible mistake, kept to show that the   *)
(* properties would find it.)                                               *)

Push(e, t) ==
    /\ enqueuing[e] = "no"
    /\ q' = Append(q, t)
    /\ enqueuing' = [enqueuing EXCEPT ![e] = "pushed"]

Produce(p) ==
    /\ pushed < MaxTask
    /\ Push(p, pushed + 1)
    /\ pushed' = pushed + 1
    /\ UNCHANGED <<atm, pc, func, ownerVars, retries>>

\* atm++
Count(e) ==
    /\ enqueuing[e] = "pushed"
    /\ atm' = atm + 1
    /\ enqueuing' = [enqueuing EXCEPT ![e] = "counted"]
    /\ UNCHANGED <<q, pc, func, ownerVars, counts>>

Asleep == {w \in Thread : pc[w] = "asleep"}

\* Fault: nobody is notified.
NotifyNobody(e) ==
    /\ enqueuing[e] = "counted"
    /\ enqueuing' = [enqueuing EXCEPT ![e] = "no"]
    /\ UNCHANGED <<q, atm, pc, func, ownerVars, counts>>

\* std::atomic_notify_one: one of the sleepers, if any, compares atm again.
Notify(e) ==
    /\ enqueuing[e] = "counted"
    /\ enqueuing' = [enqueuing EXCEPT ![e] = "no"]
    /\ \/ Asleep = {} /\ UNCHANGED pc
       \/ \E s \in Asleep : pc' = [pc EXCEPT ![s] = "wait"]
    /\ UNCHANGED <<q, atm, func, ownerVars, counts>>

-----------------------------------------------------------------------------
(* WorkerThread(w).                                                         *)

\* while (idx_ < m_thControll), reached once an Enqueue of its own returned.
CheckIndex(w) ==
    /\ pc[w] = "check"
    /\ enqueuing[w] = "no"
    /\ pc' = [pc EXCEPT ![w] = IF w < m_thControll THEN "pop" ELSE "exited"]
    /\ UNCHANGED <<q, atm, func, enqueuing, ownerVars, counts>>

\* Fault: the task is copied and stays in the queue.
TryPopCopies(w) ==
    /\ pc[w] = "pop"
    /\ q # <<>>
    /\ func' = [func EXCEPT ![w] = Head(q)]
    /\ pc' = [pc EXCEPT ![w] = "popped"]
    /\ UNCHANGED <<q, atm, enqueuing, ownerVars, counts>>

TryPop(w) ==
    /\ pc[w] = "pop"
    /\ q # <<>>
    /\ q' = Tail(q)
    /\ func' = [func EXCEPT ![w] = Head(q)]
    /\ pc' = [pc EXCEPT ![w] = "popped"]
    /\ UNCHANGED <<atm, enqueuing, ownerVars, counts>>

TryPopFails(w) ==
    /\ pc[w] = "pop"
    /\ q = <<>>
    /\ pc' = [pc EXCEPT ![w] = "wait"]
    /\ UNCHANGED <<q, atm, func, enqueuing, ownerVars, counts>>

\* Fault: the counter is not compared again before going to sleep.
SleepBlindly(w) ==
    /\ pc[w] = "wait"
    /\ pc' = [pc EXCEPT ![w] = "asleep"]
    /\ UNCHANGED <<q, atm, func, enqueuing, ownerVars, counts>>

\* std::atomic_wait(&atm, 0) compares and, if atm is 0, goes to sleep, in one
\* step; a sleeper that was notified compares again.
AtomicWait(w) ==
    /\ pc[w] = "wait"
    /\ pc' = [pc EXCEPT ![w] = IF atm = 0 THEN "asleep" ELSE "check"]
    /\ UNCHANGED <<q, atm, func, enqueuing, ownerVars, counts>>

\* Fault: the pop is not subtracted.
UncountSkipped(w) ==
    /\ pc[w] = "popped"
    /\ pc' = [pc EXCEPT ![w] = "run"]
    /\ UNCHANGED <<q, atm, func, enqueuing, ownerVars, counts>>

\* Fault: a thread that is no longer wanted leaves with the task it popped.
UncountOrLeave(w) ==
    /\ pc[w] = "popped"
    /\ atm' = atm - 1
    /\ IF w < m_thControll
       THEN pc' = [pc EXCEPT ![w] = "run"] /\ UNCHANGED func
       ELSE pc' = [pc EXCEPT ![w] = "exited"] /\ func' = [func EXCEPT ![w] = NoTask]
    /\ UNCHANGED <<q, enqueuing, ownerVars, counts>>

\* atm--
Uncount(w) ==
    /\ pc[w] = "popped"
    /\ atm' = atm - 1
    /\ pc' = [pc EXCEPT ![w] = "run"]
    /\ UNCHANGED <<q, func, enqueuing, ownerVars, counts>>

\* The task runs and returns something else than NOT_FINISHED.
RunTask(w) ==
    /\ pc[w] = "run"
    /\ pc' = [pc EXCEPT ![w] = "check"]
    /\ func' = [func EXCEPT ![w] = NoTask]
    /\ UNCHANGED <<q, atm, enqueuing, ownerVars, counts>>

\* It returns NOT_FINISHED and is enqueued again.
RetryTask(w) ==
    /\ pc[w] = "run"
    /\ retries < MaxRetry
    /\ retries' = retries + 1
    /\ Push(w, func[w])
    /\ func' = [func EXCEPT ![w] = NoTask]
    /\ pc' = [pc EXCEPT ![w] = "check"]
    /\ UNCHANGED <<atm, ownerVars, pushed>>

-----------------------------------------------------------------------------
(* Resize, called by the owner of the pool; Start and Stop call it.         *)

\* More threads: the number is published, then the threads are created.
Grow(n) ==
    /\ owner = "idle"
    /\ grows < MaxGrow
    /\ n > m_thControll
    /\ m_thControll' = n
    /\ pc' = [w \in Thread |-> IF w \in m_thControll .. n - 1 THEN "check" ELSE pc[w]]
    /\ grows' = grows + 1
    /\ UNCHANGED <<q, atm, func, enqueuing, owner, target, shrinks, counts>>

\* Fewer threads: atm.store(m_thControll) to get the sleepers out of the wait,
StoreCounter(n) ==
    /\ owner = "idle"
    /\ shrinks < MaxShrink
    /\ n < m_thControll
    /\ atm' = m_thControll
    /\ owner' = "stored"
    /\ target' = n
    /\ shrinks' = shrinks + 1
    /\ UNCHANGED <<q, pc, func, enqueuing, m_thControll, grows, counts>>

\* then the new number,
StoreControl ==
    /\ owner = "stored"
    /\ m_thControll' = target
    /\ owner' = "published"
    /\ UNCHANGED <<q, atm, pc, func, enqueuing, target, grows, shrinks, counts>>

\* then notify_all,
NotifyAll ==
    /\ owner = "published"
    /\ pc' = [w \in Thread |-> IF w \in Asleep THEN "wait" ELSE pc[w]]
    /\ owner' = "joining"
    /\ UNCHANGED <<q, atm, func, enqueuing, m_thControll, target, grows, shrinks, counts>>

\* Fault: the threads are not waited for.
JoinNobody ==
    /\ owner = "joining"
    /\ owner' = "idle"
    /\ UNCHANGED <<q, atm, pc, func, enqueuing, m_thControll, target, grows, shrinks, counts>>

\* then the threads that are too many are joined.
Join ==
    /\ owner = "joining"
    /\ \A w \in Thread : w >= target => pc[w] \in {"exited", "none"}
    /\ pc' = [w \in Thread |-> IF w >= target THEN "none" ELSE pc[w]]
    /\ owner' = "idle"
    /\ UNCHANGED <<q, atm, func, enqueuing, m_thControll, target, grows, shrinks, counts>>

Resize == StoreControl \/ NotifyAll \/ Join \/ \E n \in Size : Grow(n) \/ StoreCounter(n)

-----------------------------------------------------------------------------

EnqueueStep(e) == Count(e) \/ Notify(e)

WorkerStep(w) ==
    \/ CheckIndex(w)
    \/ TryPop(w)
    \/ TryPopFails(w)
    \/ AtomicWait(w)
    \/ Uncount(w)
    \/ RunTask(w)
    \/ RetryTask(w)
    \/ EnqueueStep(w)

Next ==
    \/ \E p \in Producer : Produce(p) \/ EnqueueStep(p)
    \/ \E w \in Thread : WorkerStep(w)
    \/ Resize

Spec == Init /\ [][Next]_vars

\* Threads are scheduled, tasks return, and the owner goes on with a Resize it
\* has begun.  Nobody has to enqueue or to resize.
Fairness ==
    /\ \A w \in Thread : WF_vars(WorkerStep(w))
    /\ \A p \in Producer : WF_vars(EnqueueStep(p))
    /\ WF_vars(StoreControl \/ NotifyAll \/ Join)

FairSpec == Spec /\ Fairness

-----------------------------------------------------------------------------
(* Properties.                                                              *)

TypeOK ==
    /\ q \in Seq(Task)
    /\ atm \in Int
    /\ m_thControll \in 0 .. MaxThread
    /\ pc \in [Thread -> {"none", "check", "pop", "wait", "asleep", "popped", "run", "exited"}]
    /\ func \in [Thread -> Task \cup {NoTask}]
    /\ \A w \in Thread : func[w] # NoTask <=> pc[w] \in {"popped", "run"}
    /\ enqueuing \in [Producer \cup Thread -> {"no", "pushed", "counted"}]
    /\ \A w \in Thread : enqueuing[w] # "no" => pc[w] = "check"
    /\ owner \in {"idle", "stored", "published", "joining"}
    /\ target \in 0 .. MaxThread
    /\ pushed \in 0 .. MaxTask
    /\ retries \in 0 .. MaxRetry
    /\ grows \in 0 .. MaxGrow
    /\ shrinks \in 0 .. MaxShrink

Pushing == {e \in Producer \cup Thread : enqueuing[e] = "pushed"}
Enqueuing == {e \in Producer \cup Thread : enqueuing[e] # "no"}
Popping == {w \in Thread : pc[w] = "popped"}
Looking == {w \in Thread : pc[w] \in {"check", "pop", "wait"}}

\* As long as no Resize has overwritten it, atm counts the queued tasks, up to
\* the pushes not counted yet and the pops not uncounted yet.
CounterMatchesQueue ==
    shrinks = 0 => atm = Len(q) - Cardinality(Pushing) + Cardinality(Popping)

\* As long as the pool did not shrink, no worker sleeps on a task: if one is
\* asleep, each queued task has an Enqueue that will still notify or an awake
\* worker that will look for it.
NobodySleepsOnWork ==
    shrinks = 0 /\ Asleep # {} => Len(q) <= Cardinality(Looking) + Cardinality(Enqueuing)

\* Between calls of Resize the live threads are exactly the first m_thControll.
ThreadsMatchControl ==
    owner = "idle" => \A w \in Thread : pc[w] \in {"none", "exited"} <=> w >= m_thControll

Outstanding(t) == (\E i \in DOMAIN q : q[i] = t) \/ (\E w \in Thread : func[w] = t)

\* A task is in one place only, and the pool loses none: it is queued, held by
\* one worker, or finished, whatever Resize does to the threads.
TaskInOnePlace ==
    /\ \A i, j \in DOMAIN q : q[i] = q[j] => i = j
    /\ \A w \in Thread : func[w] # NoTask =>
         /\ \A i \in DOMAIN q : q[i] # func[w]
         /\ \A v \in Thread : func[v] = func[w] => v = w

\* A task leaves a worker only by finishing or by going back to the queue, and
\* leaves the queue only into a worker's hands.
OnlyRunningEndsTask ==
    [][\A t \in Task : Outstanding(t) /\ ~Outstanding(t)' =>
         \E w \in Thread : func[w] = t /\ pc[w] = "run"]_vars

\* README.md of IOCP_TCP+UDP, line 39: sleeping workers are woken for tasks.
\* A task that is queued while there are workers is taken by one in the end, as
\* long as the pool does not shrink.
TaskIsTaken ==
    \A t \in Task :
        (\E i \in DOMAIN q : q[i] = t) /\ m_thControll > 0 ~>
            (\A i \in DOMAIN q : q[i] # t) \/ shrinks > 0

\* README.md of IOCP_TCP+UDP, line 40: the number of threads can be adjusted
\* while the pool runs.  So a call of Resize returns.
ResizeReturns == owner # "idle" ~> owner = "idle"
=============================================================================
