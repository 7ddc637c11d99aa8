-------------------------- MODULE ThreadPoolProofs --------------------------
(***************************************************************************)
(* Proofs, for any number of producers, threads, tasks, retries and calls  *)
(* of Resize, of the safety properties of ThreadPool.                      *)
(***************************************************************************)
EXTENDS ThreadPool, FiniteSetTheorems, TLAPS

\* What the owner's step in Resize says of the threads: until the new number is
\* published, those below the old one live; after it, at least those below the
\* new one.
OwnerKnows ==
    /\ owner # "idle" => shrinks > 0
    /\ owner = "stored" => target < m_thControll
    /\ owner \in {"idle", "stored"} =>
         \A w \in Thread : pc[w] \in {"none", "exited"} <=> w >= m_thControll
    /\ owner \in {"published", "joining"} =>
         /\ m_thControll = target
         /\ \A w \in Thread : pc[w] \in {"none", "exited"} => w >= target

\* Only tasks that were produced are in the pool.
OnlyPushedTasks ==
    /\ \A i \in DOMAIN q : q[i] <= pushed
    /\ \A w \in Thread : func[w] <= pushed

IInv ==
    /\ TypeOK
    /\ OwnerKnows
    /\ OnlyPushedTasks
    /\ TaskInOnePlace
    /\ CounterMatchesQueue
    /\ NobodySleepsOnWork

-----------------------------------------------------------------------------

\* The queue after a push and after a pop.
LEMMA QueueFacts ==
    /\ \A s \in Seq(Task), t \in Task :
         /\ Append(s, t) \in Seq(Task)
         /\ Len(Append(s, t)) = Len(s) + 1
         /\ DOMAIN Append(s, t) = 1 .. Len(s) + 1
         /\ DOMAIN s = 1 .. Len(s)
         /\ \A i \in 1 .. Len(s) : Append(s, t)[i] = s[i]
         /\ Append(s, t)[Len(s) + 1] = t
    /\ \A s \in Seq(Task) : s # <<>> =>
         /\ Head(s) \in Task /\ Head(s) = s[1] /\ 1 \in DOMAIN s
         /\ Tail(s) \in Seq(Task)
         /\ Len(Tail(s)) = Len(s) - 1
         /\ Len(s) \in Nat \ {0}
         /\ DOMAIN s = 1 .. Len(s)
         /\ DOMAIN Tail(s) = 1 .. Len(s) - 1
         /\ \A i \in 1 .. Len(s) - 1 : Tail(s)[i] = s[i + 1]
    /\ \A s \in Seq(Task) : Len(s) \in Nat /\ DOMAIN s = 1 .. Len(s) /\ \A i \in DOMAIN s : s[i] \in Task
OBVIOUS

\* Every step keeps the types.
LEMMA TypeInductive == TypeOK /\ OwnerKnows /\ [Next]_vars => TypeOK'
<1> USE PoolAssumption DEF TypeOK, ownerVars, counts, NoTask, Thread
<1> SUFFICES ASSUME TypeOK, OwnerKnows, [Next]_vars PROVE TypeOK'
  OBVIOUS
<1>1. ASSUME NEW p \in Producer, Produce(p) PROVE TypeOK'
  <2>1. pushed + 1 \in Task /\ p \in Producer \cup Thread /\ p \notin Thread
    BY <1>1 DEF Produce, Task
  <2>2. q' \in Seq(Task)
    BY <1>1, <2>1, QueueFacts DEF Produce, Push
  <2> QED BY <1>1, <2>1, <2>2 DEF Produce, Push, Task
<1>2. ASSUME NEW e \in Producer \cup Thread, Count(e) PROVE TypeOK'
  BY <1>2 DEF Count
<1>3. ASSUME NEW e \in Producer \cup Thread, Notify(e) PROVE TypeOK'
  BY <1>3 DEF Notify, Asleep
<1>4. ASSUME NEW w \in Thread, CheckIndex(w) PROVE TypeOK'
  BY <1>4 DEF CheckIndex
<1>5. ASSUME NEW w \in Thread, TryPop(w) PROVE TypeOK'
  <2>1. q' \in Seq(Task) /\ Head(q) \in Task
    BY <1>5, QueueFacts DEF TryPop
  <2> QED BY <1>5, <2>1 DEF TryPop, Task
<1>6. ASSUME NEW w \in Thread, TryPopFails(w) PROVE TypeOK'
  BY <1>6 DEF TryPopFails
<1>7. ASSUME NEW w \in Thread, AtomicWait(w) PROVE TypeOK'
  BY <1>7 DEF AtomicWait
<1>8. ASSUME NEW w \in Thread, Uncount(w) PROVE TypeOK'
  BY <1>8 DEF Uncount
<1>9. ASSUME NEW w \in Thread, RunTask(w) PROVE TypeOK'
  BY <1>9 DEF RunTask
<1>10. ASSUME NEW w \in Thread, RetryTask(w) PROVE TypeOK'
  <2>1. q' \in Seq(Task)
    BY <1>10, QueueFacts DEF RetryTask, Push, Task
  <2> QED BY <1>10, <2>1 DEF RetryTask, Push
<1>11. ASSUME NEW n \in Size, Grow(n) PROVE TypeOK'
  <2>1. n \in 0 .. MaxThread
    OBVIOUS
  <2>2. \A w \in Thread : pc'[w] = "check" \/ pc'[w] = pc[w]
    BY <1>11 DEF Grow
  <2>3. \A w \in Thread : pc[w] \in {"popped", "run", "check"} => pc'[w] = pc[w]
    BY <1>11, SMTT(30) DEF Grow, OwnerKnows
  <2>4. \A w \in Thread : pc'[w] # pc[w] => pc[w] \in {"none", "exited"}
    BY <1>11, <2>1 DEF Grow, OwnerKnows
  <2> QED BY <1>11, <2>1, <2>2, <2>3, <2>4 DEF Grow
<1>12. ASSUME NEW n \in Size, StoreCounter(n) PROVE TypeOK'
  BY <1>12 DEF StoreCounter
<1>13. CASE StoreControl
  BY <1>13 DEF StoreControl
<1>14. CASE NotifyAll
  BY <1>14 DEF NotifyAll, Asleep
<1>15. CASE Join
  BY <1>15 DEF Join
<1>16. CASE UNCHANGED vars
  BY <1>16 DEF vars
<1> QED
  BY <1>1, <1>2, <1>3, <1>4, <1>5, <1>6, <1>7, <1>8, <1>9, <1>10, <1>11, <1>12,
     <1>13, <1>14, <1>15, <1>16
  DEF Next, WorkerStep, EnqueueStep, Resize

\* Resize publishes the number before it creates threads, and joins those above
\* it before it returns.
LEMMA OwnerInductive == TypeOK /\ OwnerKnows /\ [Next]_vars => OwnerKnows'
<1> USE PoolAssumption DEF TypeOK, ownerVars, counts, NoTask, Thread
<1> SUFFICES ASSUME TypeOK, OwnerKnows, [Next]_vars PROVE OwnerKnows'
  OBVIOUS
<1>1. ASSUME NEW p \in Producer, Produce(p) PROVE OwnerKnows'
  BY <1>1 DEF Produce, OwnerKnows
<1>2. ASSUME NEW e \in Producer \cup Thread, Count(e) PROVE OwnerKnows'
  BY <1>2 DEF Count, OwnerKnows
<1>3. ASSUME NEW e \in Producer \cup Thread, Notify(e) PROVE OwnerKnows'
  BY <1>3 DEF Notify, Asleep, OwnerKnows
<1>4. ASSUME NEW w \in Thread, CheckIndex(w) PROVE OwnerKnows'
  BY <1>4 DEF CheckIndex, OwnerKnows
<1>5. ASSUME NEW w \in Thread, TryPop(w) PROVE OwnerKnows'
  BY <1>5 DEF TryPop, OwnerKnows
<1>6. ASSUME NEW w \in Thread, TryPopFails(w) PROVE OwnerKnows'
  BY <1>6 DEF TryPopFails, OwnerKnows
<1>7. ASSUME NEW w \in Thread, AtomicWait(w) PROVE OwnerKnows'
  BY <1>7 DEF AtomicWait, OwnerKnows
<1>8. ASSUME NEW w \in Thread, Uncount(w) PROVE OwnerKnows'
  BY <1>8 DEF Uncount, OwnerKnows
<1>9. ASSUME NEW w \in Thread, RunTask(w) PROVE OwnerKnows'
  BY <1>9 DEF RunTask, OwnerKnows
<1>10. ASSUME NEW w \in Thread, RetryTask(w) PROVE OwnerKnows'
  BY <1>10 DEF RetryTask, Push, OwnerKnows
<1>11. ASSUME NEW n \in Size, Grow(n) PROVE OwnerKnows'
  <2>1. n \in 0 .. MaxThread /\ owner = "idle" /\ owner' = "idle" /\ m_thControll' = n
    BY <1>11 DEF Grow
  <2>2. \A w \in Thread : pc'[w] \in {"none", "exited"} <=> w >= n
    BY <1>11, <2>1 DEF Grow, OwnerKnows
  <2> QED BY <1>11, <2>1, <2>2 DEF Grow, OwnerKnows
<1>12. ASSUME NEW n \in Size, StoreCounter(n) PROVE OwnerKnows'
  BY <1>12 DEF StoreCounter, OwnerKnows
<1>13. CASE StoreControl
  BY <1>13 DEF StoreControl, OwnerKnows
<1>14. CASE NotifyAll
  BY <1>14 DEF NotifyAll, Asleep, OwnerKnows
<1>15. CASE Join
  BY <1>15 DEF Join, OwnerKnows
<1>16. CASE UNCHANGED vars
  BY <1>16 DEF vars, OwnerKnows
<1> QED
  BY <1>1, <1>2, <1>3, <1>4, <1>5, <1>6, <1>7, <1>8, <1>9, <1>10, <1>11, <1>12,
     <1>13, <1>14, <1>15, <1>16
  DEF Next, WorkerStep, EnqueueStep, Resize

\* Enqueue, the pop and the return of a task move it; nothing copies it.
LEMMA TaskInductive ==
    TypeOK /\ OnlyPushedTasks /\ TaskInOnePlace /\ [Next]_vars =>
        OnlyPushedTasks' /\ TaskInOnePlace'
<1> USE PoolAssumption DEF TypeOK, ownerVars, counts, NoTask, Thread
<1> DEFINE Goal == OnlyPushedTasks /\ TaskInOnePlace
<1> SUFFICES ASSUME TypeOK, Goal, [Next]_vars PROVE Goal'
  OBVIOUS
<1>0. /\ q \in Seq(Task) /\ Len(q) \in Nat /\ DOMAIN q = 1 .. Len(q)
      /\ \A i \in DOMAIN q : q[i] \in Task /\ q[i] \in Nat \ {0}
      /\ \A w \in Thread : func[w] \in Nat
  BY QueueFacts DEF Task
\* A step that leaves the queue and the hands of the workers alone, or empties
\* a hand.
<1>f. ASSUME q' = q, pushed' = pushed, \A w \in Thread : func'[w] \in {func[w], NoTask}
      PROVE  Goal'
  <2>1. OnlyPushedTasks'
    <3>1. \A i \in DOMAIN q' : q'[i] <= pushed'
      BY <1>f DEF OnlyPushedTasks
    <3>2. \A w \in Thread : func'[w] <= pushed'
      <4> SUFFICES ASSUME NEW w \in Thread PROVE func'[w] <= pushed'
        OBVIOUS
      <4>1. func'[w] = func[w] \/ func'[w] = 0
        BY <1>f
      <4> QED BY <1>f, <4>1, <1>0 DEF OnlyPushedTasks
    <3> QED BY <3>1, <3>2 DEF OnlyPushedTasks
  <2>2. ASSUME NEW w \in Thread, func'[w] # NoTask PROVE
          /\ \A i \in DOMAIN q' : q'[i] # func'[w]
          /\ \A v \in Thread : func'[v] = func'[w] => v = w
    <3>1. func'[w] = func[w]
      BY <1>f, <2>2
    <3>2. \A v \in Thread : func'[v] = func'[w] => func[v] = func[w]
      BY <1>f, <2>2, <3>1
    <3> QED BY <1>f, <2>2, <3>1, <3>2 DEF TaskInOnePlace
  <2>3. \A i, j \in DOMAIN q' : q'[i] = q'[j] => i = j
    BY <1>f DEF TaskInOnePlace
  <2> QED BY <2>1, <2>2, <2>3 DEF TaskInOnePlace
<1>1. ASSUME NEW p \in Producer, Produce(p) PROVE Goal'
  <2>1. pushed + 1 \in Task /\ q' = Append(q, pushed + 1) /\ pushed' = pushed + 1 /\ func' = func
    BY <1>1 DEF Produce, Push, Task
  <2>2. /\ DOMAIN q' = 1 .. Len(q) + 1
        /\ \A i \in 1 .. Len(q) : q'[i] = q[i] /\ q[i] <= pushed
        /\ q'[Len(q) + 1] = pushed + 1
    BY <2>1, <1>0, QueueFacts DEF OnlyPushedTasks
  <2>3. OnlyPushedTasks'
    BY <2>1, <2>2, <1>0 DEF OnlyPushedTasks
  <2>a. \A i \in DOMAIN q : q[i] # pushed + 1
    BY <1>0 DEF OnlyPushedTasks
  <2>b. \A w \in Thread : func[w] # pushed + 1
    BY <1>0 DEF OnlyPushedTasks
  <2>4. \A i, j \in DOMAIN q' : q'[i] = q'[j] => i = j
    <3> SUFFICES ASSUME NEW i \in DOMAIN q', NEW j \in DOMAIN q', q'[i] = q'[j] PROVE i = j
      OBVIOUS
    <3>1. (i \in DOMAIN q \/ i = Len(q) + 1) /\ (j \in DOMAIN q \/ j = Len(q) + 1)
      BY <2>2, <1>0
    <3>2. CASE i \in DOMAIN q /\ j \in DOMAIN q
      BY <2>2, <1>0, <3>2 DEF TaskInOnePlace
    <3>3. CASE i = Len(q) + 1 \/ j = Len(q) + 1
      BY <2>2, <1>0, <3>1, <3>3, <2>a
    <3> QED BY <3>1, <3>2, <3>3
  <2>5. \A w \in Thread : func[w] # NoTask => \A i \in DOMAIN q' : q'[i] # func[w]
    <3> SUFFICES ASSUME NEW w \in Thread, func[w] # NoTask, NEW i \in DOMAIN q' PROVE q'[i] # func[w]
      OBVIOUS
    <3>1. i \in DOMAIN q \/ i = Len(q) + 1
      BY <2>2, <1>0
    <3> QED BY <2>2, <1>0, <3>1, <2>b DEF TaskInOnePlace
  <2> QED BY <2>1, <2>3, <2>4, <2>5 DEF TaskInOnePlace
<1>2. ASSUME NEW e \in Producer \cup Thread, Count(e) PROVE Goal'
  BY <1>2, <1>f DEF Count
<1>3. ASSUME NEW e \in Producer \cup Thread, Notify(e) PROVE Goal'
  BY <1>3, <1>f DEF Notify
<1>4. ASSUME NEW w \in Thread, CheckIndex(w) PROVE Goal'
  BY <1>4, <1>f DEF CheckIndex
<1>5. ASSUME NEW w \in Thread, TryPop(w) PROVE Goal'
  <2>1. /\ q # <<>> /\ q' = Tail(q) /\ pushed' = pushed
        /\ func' = [func EXCEPT ![w] = q[1]]
        /\ 1 \in DOMAIN q
    BY <1>5, QueueFacts DEF TryPop
  <2>2. /\ DOMAIN q' = 1 .. Len(q) - 1
        /\ \A i \in DOMAIN q' : q'[i] = q[i + 1] /\ i + 1 \in DOMAIN q /\ i + 1 # 1
    BY <2>1, <1>0, QueueFacts
  <2>3. OnlyPushedTasks'
    BY <2>1, <2>2, <1>0 DEF OnlyPushedTasks
  <2>4. \A i, j \in DOMAIN q' : q'[i] = q'[j] => i = j
    <3> SUFFICES ASSUME NEW i \in DOMAIN q', NEW j \in DOMAIN q', q'[i] = q'[j] PROVE i = j
      OBVIOUS
    <3>1. i + 1 = j + 1
      BY <2>2, <1>0 DEF TaskInOnePlace
    <3> QED BY <3>1, <2>2, <1>0
  <2>5. \A i \in DOMAIN q' : q'[i] # q[1]
    <3> SUFFICES ASSUME NEW i \in DOMAIN q', q[i + 1] = q[1] PROVE FALSE
      BY <2>2
    <3>1. i + 1 = 1
      BY <2>1, <2>2 DEF TaskInOnePlace
    <3> QED BY <2>2, <3>1
  <2>6. \A v \in Thread : func[v] # q[1]
    BY <2>1, <1>0 DEF TaskInOnePlace
  <2> QED BY <2>1, <2>2, <2>3, <2>4, <2>5, <2>6, <1>0 DEF TaskInOnePlace
<1>6. ASSUME NEW w \in Thread, TryPopFails(w) PROVE Goal'
  BY <1>6, <1>f DEF TryPopFails
<1>7. ASSUME NEW w \in Thread, AtomicWait(w) PROVE Goal'
  BY <1>7, <1>f DEF AtomicWait
<1>8. ASSUME NEW w \in Thread, Uncount(w) PROVE Goal'
  BY <1>8, <1>f DEF Uncount
<1>9. ASSUME NEW w \in Thread, RunTask(w) PROVE Goal'
  BY <1>9, <1>f DEF RunTask
<1>10. ASSUME NEW w \in Thread, RetryTask(w) PROVE Goal'
  <2>1. /\ func[w] # NoTask /\ func[w] \in Task /\ q' = Append(q, func[w]) /\ pushed' = pushed
        /\ func' = [func EXCEPT ![w] = NoTask]
    BY <1>10 DEF RetryTask, Push
  <2>2. /\ DOMAIN q' = 1 .. Len(q) + 1
        /\ \A i \in 1 .. Len(q) : q'[i] = q[i]
        /\ q'[Len(q) + 1] = func[w]
    BY <2>1, <1>0, QueueFacts
  <2>3. OnlyPushedTasks'
    BY <2>1, <2>2, <1>0 DEF OnlyPushedTasks
  <2>4. \A i, j \in DOMAIN q' : q'[i] = q'[j] => i = j
    <3> SUFFICES ASSUME NEW i \in DOMAIN q', NEW j \in DOMAIN q', q'[i] = q'[j] PROVE i = j
      OBVIOUS
    <3>1. (i \in DOMAIN q \/ i = Len(q) + 1) /\ (j \in DOMAIN q \/ j = Len(q) + 1)
      BY <2>2, <1>0
    <3>2. \A k \in DOMAIN q : q[k] # func[w]
      BY <2>1 DEF TaskInOnePlace
    <3>3. CASE i \in DOMAIN q /\ j \in DOMAIN q
      BY <2>2, <1>0, <3>3 DEF TaskInOnePlace
    <3>4. CASE i = Len(q) + 1 \/ j = Len(q) + 1
      BY <2>2, <1>0, <3>1, <3>2, <3>4
    <3> QED BY <3>1, <3>3, <3>4
  <2>5. ASSUME NEW v \in Thread, func'[v] # NoTask PROVE
          /\ \A i \in DOMAIN q' : q'[i] # func'[v]
          /\ \A u \in Thread : func'[u] = func'[v] => u = v
    BY <2>1, <2>2, <2>5, <1>0 DEF TaskInOnePlace
  <2> QED BY <2>3, <2>4, <2>5 DEF TaskInOnePlace
<1>11. ASSUME NEW n \in Size, Grow(n) PROVE Goal'
  BY <1>11, <1>f DEF Grow
<1>12. ASSUME NEW n \in Size, StoreCounter(n) PROVE Goal'
  BY <1>12, <1>f DEF StoreCounter
<1>13. CASE StoreControl
  BY <1>13, <1>f DEF StoreControl
<1>14. CASE NotifyAll
  BY <1>14, <1>f DEF NotifyAll
<1>15. CASE Join
  BY <1>15, <1>f DEF Join
<1>16. CASE UNCHANGED vars
  BY <1>16, <1>f DEF vars
<1> QED
  BY <1>1, <1>2, <1>3, <1>4, <1>5, <1>6, <1>7, <1>8, <1>9, <1>10, <1>11, <1>12,
     <1>13, <1>14, <1>15, <1>16
  DEF Next, WorkerStep, EnqueueStep, Resize

-----------------------------------------------------------------------------
(* Counting.                                                                *)

\* The sets that the properties count are finite.
LEMMA CountedSets ==
    /\ IsFiniteSet(Producer \cup Thread)
    /\ IsFiniteSet(Pushing) /\ IsFiniteSet(Enqueuing)
    /\ IsFiniteSet(Popping) /\ IsFiniteSet(Looking)
<1>1. IsFiniteSet(Thread)
  BY PoolAssumption, FS_Interval DEF Thread
<1>2. IsFiniteSet(Producer \cup Thread)
  BY <1>1, PoolAssumption, FS_Union
<1>3. /\ Pushing \in SUBSET (Producer \cup Thread) /\ Enqueuing \in SUBSET (Producer \cup Thread)
      /\ Popping \in SUBSET Thread /\ Looking \in SUBSET Thread
  BY DEF Pushing, Enqueuing, Popping, Looking
<1> QED BY <1>1, <1>2, <1>3, FS_Subset

\* A set that gains or loses one element counts one more or one less.
LEMMA CountOne ==
    ASSUME NEW S, NEW x, IsFiniteSet(S)
    PROVE  /\ Cardinality(S) \in Nat
           /\ x \notin S => Cardinality(S \cup {x}) = Cardinality(S) + 1
           /\ x \in S => Cardinality(S \ {x}) = Cardinality(S) - 1 /\ Cardinality(S) >= 1
<1>1. Cardinality(S) \in Nat /\ Cardinality(S \ {x}) \in Nat
  BY FS_CardinalityType, FS_RemoveElement
<1> QED BY <1>1, FS_AddElement, FS_RemoveElement, SMTT(30)

\* As long as the pool has not shrunk, each step changes the counted sets by one
\* thread at most, and a worker goes to sleep only when the counter is 0.
LEMMA CountInductive ==
    TypeOK /\ OwnerKnows /\ CounterMatchesQueue /\ NobodySleepsOnWork /\ [Next]_vars =>
        CounterMatchesQueue' /\ NobodySleepsOnWork'
<1> USE PoolAssumption DEF TypeOK, ownerVars, counts, NoTask
<1> DEFINE P == Cardinality(Pushing)
           E == Cardinality(Enqueuing)
           O == Cardinality(Popping)
           L == Cardinality(Looking)
           Goal == CounterMatchesQueue /\ NobodySleepsOnWork
<1> SUFFICES ASSUME TypeOK, OwnerKnows, Goal, [Next]_vars PROVE Goal'
  OBVIOUS
<1>0. /\ P \in Nat /\ E \in Nat /\ O \in Nat /\ L \in Nat /\ P <= E
      /\ L' \in Nat
      /\ q \in Seq(Task) /\ Len(q) \in Nat /\ atm \in Int /\ shrinks \in Nat
  <2>1. Pushing \in SUBSET Enqueuing
    BY DEF Pushing, Enqueuing
  <2>2. IsFiniteSet(Looking')
    <3>1. Looking' \in SUBSET Thread /\ IsFiniteSet(Thread)
      BY FS_Interval DEF Looking, Thread
    <3> QED BY <3>1, FS_Subset
  <2> QED BY <2>1, <2>2, CountedSets, FS_CardinalityType, FS_Subset
<1>1. \/ shrinks' > 0
      \/ shrinks = 0 /\ shrinks' = 0 /\ owner = "idle" /\ owner' = "idle"
  <2>1. shrinks' \in {shrinks, shrinks + 1} /\ (shrinks' = shrinks => owner' = "idle" \/ owner # "idle")
    BY DEF Next, WorkerStep, EnqueueStep, Resize, Produce, Push, Count, Notify, CheckIndex,
       TryPop, TryPopFails, AtomicWait, Uncount, RunTask, RetryTask, Grow, StoreCounter,
       StoreControl, NotifyAll, Join, vars
  <2> QED BY <1>0, <2>1 DEF OwnerKnows
<1>2. CASE shrinks' > 0
  BY <1>0, <1>2 DEF CounterMatchesQueue, NobodySleepsOnWork
<1>3. CASE shrinks = 0 /\ shrinks' = 0 /\ owner = "idle" /\ owner' = "idle"
  <2>0. atm = Len(q) - P + O /\ (Asleep # {} => Len(q) <= L + E)
    BY <1>3 DEF CounterMatchesQueue, NobodySleepsOnWork
  \* What has to be shown of a step.
  <2>g. ASSUME atm' = Len(q') - P' + O', Asleep' # {} => Len(q') <= L' + E' PROVE Goal'
    BY <2>g DEF CounterMatchesQueue, NobodySleepsOnWork
  <2>1. ASSUME NEW p \in Producer, Produce(p) PROVE Goal'
    <3>1. Len(q') = Len(q) + 1 /\ atm' = atm /\ pc' = pc
      BY <2>1, <1>0, QueueFacts DEF Produce, Push, Task
    <3>2. p \notin Pushing /\ p \notin Enqueuing
      BY <2>1 DEF Produce, Push, Pushing, Enqueuing
    <3>3. Pushing' = Pushing \cup {p} /\ Enqueuing' = Enqueuing \cup {p}
      BY <2>1 DEF Produce, Push, Pushing, Enqueuing
    <3>4. Popping' = Popping /\ Looking' = Looking /\ Asleep' = Asleep
      BY <3>1 DEF Popping, Looking, Asleep
    <3>5. P' = P + 1 /\ E' = E + 1 /\ O' = O /\ L' = L
      BY <3>2, <3>3, <3>4, CountedSets, CountOne
    <3>6. atm' = Len(q') - P' + O'
      BY <1>0, <2>0, <3>1, <3>4, <3>5
    <3>7. Asleep' # {} => Len(q') <= L' + E'
      BY <1>0, <2>0, <3>1, <3>4, <3>5
    <3> QED BY <2>g, <3>6, <3>7
  <2>2. ASSUME NEW e \in Producer \cup Thread, Count(e) PROVE Goal'
    <3>1. q' = q /\ atm' = atm + 1 /\ pc' = pc
      BY <2>2 DEF Count
    <3>2. e \in Pushing /\ Pushing' = Pushing \ {e} /\ Enqueuing' = Enqueuing
      BY <2>2 DEF Count, Pushing, Enqueuing
    <3>3. Popping' = Popping /\ Looking' = Looking /\ Asleep' = Asleep
      BY <3>1 DEF Popping, Looking, Asleep
    <3>4. P' = P - 1 /\ E' = E /\ O' = O /\ L' = L
      BY <3>2, <3>3, CountedSets, CountOne
    <3> QED BY <1>0, <2>0, <2>g, <3>1, <3>3, <3>4
  <2>3. ASSUME NEW e \in Producer \cup Thread, Notify(e) PROVE Goal'
    <3>1. q' = q /\ atm' = atm
      BY <2>3 DEF Notify
    <3>2. e \in Enqueuing /\ Enqueuing' = Enqueuing \ {e} /\ Pushing' = Pushing
      BY <2>3 DEF Notify, Pushing, Enqueuing
    <3>3. P' = P /\ E' = E - 1
      BY <3>2, CountedSets, CountOne
    <3>4. CASE Asleep = {} /\ UNCHANGED pc
      <4>1. Popping' = Popping /\ Looking' = Looking /\ Asleep' = {}
        BY <3>4 DEF Popping, Looking, Asleep
      <4> QED BY <1>0, <2>0, <2>g, <3>1, <3>3, <4>1
    <3>5. ASSUME NEW s \in Asleep, pc' = [pc EXCEPT ![s] = "wait"] PROVE Goal'
      <4>1. /\ s \in Thread /\ s \notin Looking
            /\ Looking' = Looking \cup {s} /\ Popping' = Popping
        BY <3>5 DEF Popping, Looking, Asleep
      <4>2. L' = L + 1 /\ O' = O
        BY <4>1, CountedSets, CountOne
      <4>3. Asleep # {}
        BY <3>5
      <4> QED BY <1>0, <2>0, <2>g, <3>1, <3>3, <4>2, <4>3
    <3> QED BY <2>3, <3>4, <3>5 DEF Notify
  <2>4. ASSUME NEW w \in Thread, CheckIndex(w) PROVE Goal'
    <3>0. pc[w] = "check" /\ w \in Nat /\ m_thControll \in Nat
      BY <2>4 DEF CheckIndex, Thread
    <3>1. w < m_thControll
      BY <1>3, <3>0 DEF OwnerKnows
    <3>2. /\ q' = q /\ atm' = atm /\ enqueuing' = enqueuing
          /\ pc[w] = "check" /\ pc' = [pc EXCEPT ![w] = "pop"]
      BY <2>4, <3>1 DEF CheckIndex
    <3>3. /\ Pushing' = Pushing /\ Enqueuing' = Enqueuing
          /\ Popping' = Popping /\ Looking' = Looking /\ Asleep' = Asleep
      BY <3>2 DEF Pushing, Enqueuing, Popping, Looking, Asleep
    <3> QED BY <2>0, <2>g, <3>2, <3>3
  <2>5. ASSUME NEW w \in Thread, TryPop(w) PROVE Goal'
    <3>1. /\ Len(q') = Len(q) - 1 /\ Len(q) >= 1 /\ atm' = atm /\ enqueuing' = enqueuing
          /\ pc[w] = "pop" /\ pc' = [pc EXCEPT ![w] = "popped"]
      BY <2>5, <1>0, QueueFacts DEF TryPop
    <3>2. Pushing' = Pushing /\ Enqueuing' = Enqueuing /\ Asleep' = Asleep
      BY <3>1 DEF Pushing, Enqueuing, Asleep
    <3>3. /\ w \notin Popping /\ Popping' = Popping \cup {w}
          /\ w \in Looking /\ Looking' = Looking \ {w}
      BY <3>1 DEF Popping, Looking
    <3>4. P' = P /\ E' = E /\ O' = O + 1 /\ L' = L - 1
      BY <3>2, <3>3, CountedSets, CountOne
    <3>6. atm' = Len(q') - P' + O'
      BY <1>0, <2>0, <3>1, <3>2, <3>4
    <3>7. Asleep' # {} => Len(q') <= L' + E'
      BY <1>0, <2>0, <3>1, <3>2, <3>4, SMTT(30)
    <3> QED BY <2>g, <3>6, <3>7
  <2>6. ASSUME NEW w \in Thread, TryPopFails(w) PROVE Goal'
    <3>1. /\ q' = q /\ atm' = atm /\ enqueuing' = enqueuing
          /\ pc[w] = "pop" /\ pc' = [pc EXCEPT ![w] = "wait"]
      BY <2>6 DEF TryPopFails
    <3>2. /\ Pushing' = Pushing /\ Enqueuing' = Enqueuing
          /\ Popping' = Popping /\ Looking' = Looking /\ Asleep' = Asleep
      BY <3>1 DEF Pushing, Enqueuing, Popping, Looking, Asleep
    <3> QED BY <2>0, <2>g, <3>1, <3>2
  <2>7. ASSUME NEW w \in Thread, AtomicWait(w) PROVE Goal'
    <3>1. q' = q /\ atm' = atm /\ enqueuing' = enqueuing /\ pc[w] = "wait"
      BY <2>7 DEF AtomicWait
    <3>2. Pushing' = Pushing /\ Enqueuing' = Enqueuing
      BY <3>1 DEF Pushing, Enqueuing
    <3>3. CASE atm = 0
      <4>1. pc' = [pc EXCEPT ![w] = "asleep"]
        BY <2>7, <3>3 DEF AtomicWait
      <4>2. Popping' = Popping
        BY <3>1, <4>1 DEF Popping
      <4> QED BY <1>0, <2>0, <2>g, <3>1, <3>2, <3>3, <4>2
    <3>4. CASE atm # 0
      <4>1. pc' = [pc EXCEPT ![w] = "check"]
        BY <2>7, <3>4 DEF AtomicWait
      <4>2. Popping' = Popping /\ Looking' = Looking /\ Asleep' = Asleep
        BY <3>1, <4>1 DEF Popping, Looking, Asleep
      <4> QED BY <2>0, <2>g, <3>1, <3>2, <4>2
    <3> QED BY <3>3, <3>4
  <2>8. ASSUME NEW w \in Thread, Uncount(w) PROVE Goal'
    <3>1. /\ q' = q /\ atm' = atm - 1 /\ enqueuing' = enqueuing
          /\ pc[w] = "popped" /\ pc' = [pc EXCEPT ![w] = "run"]
      BY <2>8 DEF Uncount
    <3>2. /\ Pushing' = Pushing /\ Enqueuing' = Enqueuing
          /\ Looking' = Looking /\ Asleep' = Asleep
          /\ w \in Popping /\ Popping' = Popping \ {w}
      BY <3>1 DEF Pushing, Enqueuing, Popping, Looking, Asleep
    <3>3. O' = O - 1
      BY <3>2, CountedSets, CountOne
    <3> QED BY <1>0, <2>0, <2>g, <3>1, <3>2, <3>3
  <2>9. ASSUME NEW w \in Thread, RunTask(w) PROVE Goal'
    <3>1. /\ q' = q /\ atm' = atm /\ enqueuing' = enqueuing
          /\ pc[w] = "run" /\ pc' = [pc EXCEPT ![w] = "check"]
      BY <2>9 DEF RunTask
    <3>2. /\ Pushing' = Pushing /\ Enqueuing' = Enqueuing /\ Asleep' = Asleep
          /\ Popping' = Popping /\ w \notin Looking /\ Looking' = Looking \cup {w}
      BY <3>1 DEF Pushing, Enqueuing, Popping, Looking, Asleep
    <3>3. L' = L + 1
      BY <3>2, CountedSets, CountOne
    <3> QED BY <1>0, <2>0, <2>g, <3>1, <3>2, <3>3
  <2>10. ASSUME NEW w \in Thread, RetryTask(w) PROVE Goal'
    <3>1. /\ Len(q') = Len(q) + 1 /\ atm' = atm
          /\ enqueuing[w] = "no" /\ enqueuing' = [enqueuing EXCEPT ![w] = "pushed"]
          /\ pc[w] = "run" /\ pc' = [pc EXCEPT ![w] = "check"]
      BY <2>10, <1>0, QueueFacts DEF RetryTask, Push
    <3>2. /\ w \notin Pushing /\ Pushing' = Pushing \cup {w}
          /\ w \notin Enqueuing /\ Enqueuing' = Enqueuing \cup {w}
      BY <3>1 DEF Pushing, Enqueuing
    <3>3. /\ Asleep' = Asleep /\ Popping' = Popping
          /\ w \notin Looking /\ Looking' = Looking \cup {w}
      BY <3>1 DEF Popping, Looking, Asleep
    <3>4. P' = P + 1 /\ E' = E + 1 /\ L' = L + 1 /\ O' = O
      BY <3>2, <3>3, CountedSets, CountOne
    <3>6. atm' = Len(q') - P' + O'
      BY <1>0, <2>0, <3>1, <3>3, <3>4
    <3>7. Asleep' # {} => Len(q') <= L' + E'
      BY <1>0, <2>0, <3>1, <3>3, <3>4
    <3> QED BY <2>g, <3>6, <3>7
  <2>11. ASSUME NEW n \in Size, Grow(n) PROVE Goal'
    <3>1. q' = q /\ atm' = atm /\ enqueuing' = enqueuing
      BY <2>11 DEF Grow
    <3>2. \A w \in Thread : pc'[w] = pc[w] \/ (pc[w] \in {"none", "exited"} /\ pc'[w] = "check")
      BY <2>11, <1>3 DEF Grow, OwnerKnows, Thread
    <3>3. /\ Pushing' = Pushing /\ Enqueuing' = Enqueuing
          /\ Popping' = Popping /\ Asleep' = Asleep
      BY <3>1, <3>2 DEF Pushing, Enqueuing, Popping, Asleep
    <3>4. Looking \in SUBSET Looking'
      BY <3>2 DEF Looking
    <3>5. IsFiniteSet(Looking')
      <4>1. Looking' \in SUBSET Thread /\ IsFiniteSet(Thread)
        BY FS_Interval DEF Looking, Thread
      <4> QED BY <4>1, FS_Subset
    <3>6. L <= L'
      BY <3>4, <3>5, FS_Subset
    <3> QED BY <1>0, <2>0, <2>g, <3>1, <3>3, <3>6
  <2>12. ASSUME NEW n \in Size, StoreCounter(n) PROVE Goal'
    BY <2>12, <1>3 DEF StoreCounter
  <2>13. CASE StoreControl \/ NotifyAll \/ Join
    BY <2>13, <1>3 DEF StoreControl, NotifyAll, Join
  <2>14. CASE UNCHANGED vars
    <3>1. /\ q' = q /\ atm' = atm /\ Pushing' = Pushing /\ Enqueuing' = Enqueuing
          /\ Popping' = Popping /\ Looking' = Looking /\ Asleep' = Asleep
      BY <2>14 DEF vars, Pushing, Enqueuing, Popping, Looking, Asleep
    <3> QED BY <2>0, <2>g, <3>1
  <2> QED
    BY <2>1, <2>2, <2>3, <2>4, <2>5, <2>6, <2>7, <2>8, <2>9, <2>10, <2>11, <2>12, <2>13, <2>14
    DEF Next, WorkerStep, EnqueueStep, Resize
<1> QED BY <1>1, <1>2, <1>3

-----------------------------------------------------------------------------

\* The inductive invariant holds before the pool is started.
LEMMA InitIInv == Init => IInv
<1> SUFFICES ASSUME Init PROVE IInv
  OBVIOUS
<1>1. TypeOK /\ OwnerKnows /\ OnlyPushedTasks /\ TaskInOnePlace
  BY PoolAssumption DEF Init, TypeOK, OwnerKnows, OnlyPushedTasks, TaskInOnePlace, NoTask, Thread
<1>2. Pushing = {} /\ Popping = {} /\ Asleep = {}
  BY DEF Init, Pushing, Popping, Asleep
<1>3. CounterMatchesQueue /\ NobodySleepsOnWork
  BY <1>2, FS_EmptySet DEF Init, CounterMatchesQueue, NobodySleepsOnWork
<1> QED BY <1>1, <1>3 DEF IInv

\* It is kept by every step.
LEMMA NextIInv == IInv /\ [Next]_vars => IInv'
BY TypeInductive, OwnerInductive, TaskInductive, CountInductive DEF IInv

\* The inductive invariant of the pool.
THEOREM PoolInvariant == Spec => []IInv
BY InitIInv, NextIInv, PTL DEF Spec

\* Type correctness of the pool.
THEOREM TypeCorrect == Spec => []TypeOK
BY PoolInvariant, PTL DEF IInv

\* The pool loses no task and holds none twice, whatever Resize does.
THEOREM TaskInOnePlaceHolds == Spec => []TaskInOnePlace
BY PoolInvariant, PTL DEF IInv

\* Between calls of Resize the first m_thControll threads run, and no others.
THEOREM ThreadsMatchControlHolds == Spec => []ThreadsMatchControl
<1>1. IInv => ThreadsMatchControl
  BY DEF IInv, OwnerKnows, ThreadsMatchControl
<1> QED BY <1>1, PoolInvariant, PTL

\* The counter follows the queue until the pool shrinks.
THEOREM CounterMatchesQueueHolds == Spec => []CounterMatchesQueue
BY PoolInvariant, PTL DEF IInv

\* No worker sleeps on a task until the pool shrinks.
THEOREM NobodySleepsOnWorkHolds == Spec => []NobodySleepsOnWork
BY PoolInvariant, PTL DEF IInv

\* What a step that ends a task is.
EndsOnlyInRun ==
    \A t \in Task : Outstanding(t) /\ ~Outstanding(t)' =>
        \E w \in Thread : func[w] = t /\ pc[w] = "run"

\* Every step but the end of a run keeps each task queued or in a worker's hands.
LEMMA EndStep == TypeOK /\ [Next]_vars => EndsOnlyInRun
<1> USE DEF TypeOK, ownerVars, counts, NoTask
<1> SUFFICES ASSUME TypeOK, [Next]_vars PROVE EndsOnlyInRun
  OBVIOUS
<1>0. q \in Seq(Task) /\ DOMAIN q = 1 .. Len(q) /\ Len(q) \in Nat
  BY QueueFacts
<1>1. ASSUME q' = q, func' = func PROVE EndsOnlyInRun
  BY <1>1 DEF EndsOnlyInRun, Outstanding
\* What was queued is still queued after a push.
<1>2. ASSUME NEW t \in Task, q' = Append(q, t), func' = func PROVE EndsOnlyInRun
  <2>1. \A i \in DOMAIN q : i \in DOMAIN q' /\ q'[i] = q[i]
    BY <1>0, <1>2, QueueFacts
  <2> QED BY <1>2, <2>1 DEF EndsOnlyInRun, Outstanding
<1>3. ASSUME NEW p \in Producer, Produce(p) PROVE EndsOnlyInRun
  <2>1. pushed + 1 \in Task
    BY <1>3, PoolAssumption DEF Produce, Task
  <2> QED BY <1>2, <1>3, <2>1 DEF Produce, Push
<1>4. ASSUME NEW e \in Producer \cup Thread, EnqueueStep(e) PROVE EndsOnlyInRun
  BY <1>1, <1>4 DEF EnqueueStep, Count, Notify
<1>5. ASSUME NEW w \in Thread, CheckIndex(w) \/ TryPopFails(w) \/ AtomicWait(w) \/ Uncount(w)
      PROVE  EndsOnlyInRun
  BY <1>1, <1>5 DEF CheckIndex, TryPopFails, AtomicWait, Uncount
<1>6. ASSUME NEW w \in Thread, TryPop(w) PROVE EndsOnlyInRun
  <2>1. /\ func[w] = 0 /\ func' = [func EXCEPT ![w] = q[1]]
        /\ DOMAIN q' = 1 .. Len(q) - 1 /\ \A i \in 1 .. Len(q) - 1 : q'[i] = q[i + 1]
    BY <1>0, <1>6, QueueFacts, SMTT(30) DEF TryPop
  <2> SUFFICES ASSUME NEW t \in Task, Outstanding(t) PROVE Outstanding(t)'
    BY DEF EndsOnlyInRun
  <2>2. ASSUME NEW v \in Thread, func[v] = t PROVE Outstanding(t)'
    BY <2>1, <2>2 DEF Outstanding, Task
  <2>3. ASSUME q[1] = t PROVE Outstanding(t)'
    BY <2>1, <2>3 DEF Outstanding
  <2>4. ASSUME NEW i \in DOMAIN q, q[i] = t, i # 1 PROVE Outstanding(t)'
    <3>1. i - 1 \in DOMAIN q' /\ q'[i - 1] = t
      BY <1>0, <2>1, <2>4
    <3> QED BY <3>1 DEF Outstanding
  <2> QED BY <2>2, <2>3, <2>4 DEF Outstanding
<1>7. ASSUME NEW w \in Thread, RunTask(w) PROVE EndsOnlyInRun
  <2>1. pc[w] = "run" /\ q' = q /\ func' = [func EXCEPT ![w] = 0]
    BY <1>7 DEF RunTask
  <2> QED BY <2>1 DEF EndsOnlyInRun, Outstanding
<1>8. ASSUME NEW w \in Thread, RetryTask(w) PROVE EndsOnlyInRun
  <2>1. pc[w] = "run" /\ func' = [func EXCEPT ![w] = 0] /\ q' = Append(q, func[w]) /\ func[w] \in Task
    BY <1>8 DEF RetryTask, Push
  <2>2. \A i \in DOMAIN q : i \in DOMAIN q' /\ q'[i] = q[i]
    BY <1>0, <2>1, QueueFacts
  <2> QED BY <2>1, <2>2 DEF EndsOnlyInRun, Outstanding
<1>9. CASE Resize \/ UNCHANGED vars
  BY <1>1, <1>9 DEF Resize, Grow, StoreCounter, StoreControl, NotifyAll, Join, vars
<1> QED
  BY <1>3, <1>4, <1>5, <1>6, <1>7, <1>8, <1>9 DEF Next, WorkerStep

\* A task ends only by running: the pool drops none.
THEOREM OnlyRunningEndsTaskHolds == Spec => OnlyRunningEndsTask
<1>1. TypeOK /\ [Next]_vars => [EndsOnlyInRun]_vars
  BY EndStep
<1> QED BY <1>1, TypeCorrect, PTL DEF Spec, OnlyRunningEndsTask, EndsOnlyInRun
=============================================================================
