----------------------- MODULE RequestPipelineProofs ------------------------
(***************************************************************************)
(* Proofs, for any number of clients and workers and any bounds, that the  *)
(* request pipeline keeps the invariants of RequestPipeline, and that it   *)
(* serves each client in order: it implements the service of               *)
(* RequestService, and its answers leave in the order of the requests.     *)
(***************************************************************************)
EXTENDS RequestPipeline, SequenceTheorems, TLAPS

\* The lock flag says whether some worker is between its try_lock and the end
\* of its guard.
LockMatchesHolder ==
    \A c \in Client : ProcessLocks[c] <=> \E w \in Worker : Serves(w, c)

\* What the worker that serves a client knows of the client's slot.
Knows(w) ==
    /\ pc[w] \in {"create", "pop"} => m_RecvBuffer[serving[w]] # <<>>
    /\ pc[w] \in {"parse", "create"} => m_Jobs[serving[w]] = NoJob
    /\ pc[w] \in {"pop", "execute", "send"} => m_Jobs[serving[w]] # NoJob
    /\ pc[w] = "REQ_FAILED" =>
         m_eJobProcess[serving[w]] = "PARSING" /\ m_Jobs[serving[w]] = NoJob
    /\ pc[w] = "NOT_FINISHED" =>
         m_eJobProcess[serving[w]] # "PARSING" /\ m_Jobs[serving[w]] # NoJob

HolderKnows == \A w \in Worker : Knows(w)

IInv ==
    /\ TypeOK
    /\ MutualExclusion
    /\ LockMatchesHolder
    /\ HolderKnows
    /\ StageMatchesJob
    /\ RetryIsScheduled

-----------------------------------------------------------------------------

\* What one receive delivers is a sequence of requests.
LEMMA ChunkType ==
    ASSUME PipelineAssumption, NEW a \in 0 .. MaxRequest, NEW k \in Nat,
           a + k <= MaxRequest, NEW s \in Seq(Request)
    PROVE  s \o [i \in 1 .. k |-> a + i] \in Seq(Request)
<1>1. [i \in 1 .. k |-> a + i] \in Seq(Request)
  BY DEF Request, PipelineAssumption
<1> QED BY <1>1

\* Every step of the workers and of the IO thread keeps the types and the
\* capacity of the receive buffer (StorePartialMessage refuses what does not fit).
LEMMA TypeInductive == IInv /\ [Next]_vars => TypeOK'
<1> USE PipelineAssumption DEF TypeOK, Holding, ProgramCounter, JobProcess,
      connVars, poolVars, slotVars, history, NoJob
<1> SUFFICES ASSUME IInv, [Next]_vars PROVE TypeOK'
  OBVIOUS
<1>1. TypeOK /\ HolderKnows
  BY DEF IInv
<1>2. ASSUME NEW c \in Client, NEW k \in 0 .. MaxBurst, StoreChunk(c, k) PROVE TypeOK'
  <2>0. /\ k \in Nat /\ arrived[c] \in 0 .. MaxRequest
        /\ arrived[c] + k <= MaxRequest
        /\ m_RecvBuffer[c] \in Seq(Request) /\ accepted[c] \in Seq(Request)
    BY <1>1, <1>2 DEF StoreChunk
  <2>1. m_RecvBuffer[c] \o [i \in 1 .. k |-> arrived[c] + i] \in Seq(Request)
    BY <2>0, ChunkType
  <2>2. accepted[c] \o [i \in 1 .. k |-> arrived[c] + i] \in Seq(Request)
    BY <2>0, ChunkType
  <2>3. arrived[c] + k \in 0 .. MaxRequest
    BY <2>0
  <2>4. CASE Len(m_RecvBuffer[c]) + k > RecvCapacity
    BY <1>1, <1>2, <2>3, <2>4 DEF StoreChunk
  <2>5. CASE ~(Len(m_RecvBuffer[c]) + k > RecvCapacity)
    <3> DEFINE chunk == [i \in 1 .. k |-> arrived[c] + i]
    <3>0. /\ m_RecvBuffer' = [m_RecvBuffer EXCEPT ![c] = @ \o chunk]
          /\ accepted' = [accepted EXCEPT ![c] = @ \o chunk]
      BY <1>2, <2>5, Zenon DEF StoreChunk
    <3>2. /\ m_RecvBuffer[c] \o chunk \in Seq(Request)
          /\ accepted[c] \o chunk \in Seq(Request)
      BY <2>1, <2>2
    <3>3. Len(m_RecvBuffer[c] \o chunk) <= RecvCapacity
      <4>1. chunk \in Seq(Nat) /\ Len(chunk) = k
        BY <2>0
      <4> QED BY <2>0, <2>5, <4>1
    <3>1. /\ m_RecvBuffer' \in [Client -> Seq(Request)]
          /\ \A d \in Client : Len(m_RecvBuffer'[d]) <= RecvCapacity
          /\ accepted' \in [Client -> Seq(Request)]
      <4> HIDE DEF chunk
      <4> QED BY <1>1, <3>0, <3>2, <3>3
    <3> QED BY <1>1, <1>2, <2>3, <3>1 DEF StoreChunk
  <2> QED BY <2>4, <2>5
<1>3. ASSUME NEW c \in Client, PushJob(c) PROVE TypeOK'
  BY <1>1, <1>3 DEF PushJob
<1>4. ASSUME NEW w \in Worker, TakeTask(w) PROVE TypeOK'
  <2>1. JobThreads \in Seq(Client) /\ JobThreads # <<>>
    BY <1>1, <1>4 DEF TakeTask
  <2>2. Head(JobThreads) \in Client /\ Tail(JobThreads) \in Seq(Client)
    BY <2>1
  <2> QED BY <1>1, <1>4, <2>2 DEF TakeTask
<1>5. ASSUME NEW w \in Worker, TryLock(w) PROVE TypeOK'
  BY <1>1, <1>5 DEF TryLock, ResumeAt
<1>6. ASSUME NEW w \in Worker, NotMyTurn(w) PROVE TypeOK'
  BY <1>1, <1>6 DEF NotMyTurn
<1>7. ASSUME NEW w \in Worker, ParseReq(w) PROVE TypeOK'
  <2>1. CASE NoRequest(w) \/ RejectMsg(w)
    BY <1>1, <2>1, ZenonT(30) DEF NoRequest, RejectMsg, Interrupt
  <2>2. CASE GetReqMsg(w)
    BY <1>1, <2>2 DEF GetReqMsg
  <2>3. CASE CreateJob(w)
    <3>1. serving[w] \in Client /\ m_RecvBuffer[serving[w]] \in Seq(Request)
          /\ m_RecvBuffer[serving[w]] # <<>>
      BY <1>1, <2>3 DEF CreateJob, HolderKnows, Knows
    <3>2. Head(m_RecvBuffer[serving[w]]) \in Request
      BY <3>1
    <3> QED BY <1>1, <2>3, <3>2 DEF CreateJob
  <2>4. CASE PopReqMsg(w)
    <3>1. serving[w] \in Client /\ m_RecvBuffer[serving[w]] \in Seq(Request)
          /\ m_RecvBuffer[serving[w]] # <<>>
      BY <1>1, <2>4 DEF PopReqMsg, HolderKnows, Knows
    <3>2. /\ Tail(m_RecvBuffer[serving[w]]) \in Seq(Request)
          /\ Len(Tail(m_RecvBuffer[serving[w]])) <= RecvCapacity
      BY <1>1, <3>1
    <3> QED BY <1>1, <2>4, <3>2 DEF PopReqMsg
  <2> QED BY <1>7, <2>1, <2>2, <2>3, <2>4 DEF ParseReq
<1>8. ASSUME NEW w \in Worker, Succeed(w) PROVE TypeOK'
  <2>1. CASE ExecuteReq(w)
    BY <1>1, <2>1 DEF ExecuteReq
  <2>2. CASE SendRes(w)
    <3>1. serving[w] \in Client /\ m_Jobs[serving[w]] \in Request
      BY <1>1, <2>2 DEF SendRes
    <3>2. /\ Append(wire[serving[w]], m_Jobs[serving[w]]) \in Seq(Request)
          /\ Append(done[serving[w]], m_Jobs[serving[w]]) \in Seq(Request)
      BY <1>1, <3>1
    <3> QED BY <1>1, <2>2, <3>1, <3>2 DEF SendRes
  <2> QED BY <1>8, <2>1, <2>2 DEF Succeed
<1>9. ASSUME NEW w \in Worker, Fail(w) PROVE TypeOK'
  <2>1. CASE ExecuteFails(w)
    BY <1>1, <2>1 DEF ExecuteFails, Interrupt
  <2>2. CASE SendFails(w)
    BY <1>1, <2>2 DEF SendFails, Interrupt
  <2>3. CASE SendFailsAfterPush(w)
    BY <1>1, <2>3, SMTT(30) DEF SendFailsAfterPush, Interrupt
  <2> QED BY <1>9, <2>1, <2>2, <2>3 DEF Fail
<1>10. ASSUME NEW w \in Worker, Unlock(w) PROVE TypeOK'
  BY <1>1, <1>10, ZenonT(30) DEF Unlock
<1>11. ASSUME NEW w \in Worker, Requeue(w) PROVE TypeOK'
  BY <1>1, <1>11 DEF Requeue
<1>12. CASE UNCHANGED vars
  BY <1>1, <1>12 DEF vars
<1> QED
  BY <1>2, <1>3, <1>4, <1>5, <1>6, <1>7, <1>8, <1>9, <1>10, <1>11, <1>12
     DEF Next, IOStep, WorkerStep

\* try_lock lets a worker in only when nobody holds the client's lock, and only
\* the holder releases it.
LEMMA LockInductive == IInv /\ [Next]_vars => MutualExclusion' /\ LockMatchesHolder'
<1> USE DEF MutualExclusion, LockMatchesHolder, Serves, Holding
<1> SUFFICES ASSUME IInv, [Next]_vars PROVE MutualExclusion' /\ LockMatchesHolder'
  OBVIOUS
<1>1. /\ MutualExclusion /\ LockMatchesHolder
      /\ pc \in [Worker -> ProgramCounter]
      /\ serving \in [Worker -> Client \cup {NoClient}]
      /\ \A w \in Worker : serving[w] = NoClient <=> pc[w] = "idle"
      /\ ProcessLocks \in [Client -> BOOLEAN]
  BY DEF IInv, TypeOK
<1>2. NoClient \notin Client
  BY PipelineAssumption DEF PipelineAssumption
<1>3. ASSUME NEW w \in Worker, TakeTask(w) PROVE MutualExclusion' /\ LockMatchesHolder'
  BY <1>1, <1>3 DEF TakeTask, slotVars
<1>4. ASSUME NEW w \in Worker, TryLock(w) PROVE MutualExclusion' /\ LockMatchesHolder'
  BY <1>1, <1>2, <1>4 DEF TryLock, ResumeAt
<1>5. ASSUME NEW w \in Worker, NotMyTurn(w) PROVE MutualExclusion' /\ LockMatchesHolder'
  BY <1>1, <1>5 DEF NotMyTurn, slotVars
<1>6. ASSUME NEW w \in Worker, Unlock(w) PROVE MutualExclusion' /\ LockMatchesHolder'
  BY <1>1, <1>2, <1>6 DEF Unlock
<1>7. ASSUME NEW w \in Worker, Requeue(w) PROVE MutualExclusion' /\ LockMatchesHolder'
  BY <1>1, <1>7 DEF Requeue, slotVars
<1>8. ASSUME NEW w \in Worker, ParseReq(w) \/ Succeed(w) \/ Fail(w)
      PROVE MutualExclusion' /\ LockMatchesHolder'
  <2>1. /\ pc[w] \in Holding /\ pc'[w] \in Holding
        /\ \A v \in Worker : v # w => pc'[v] = pc[v]
        /\ UNCHANGED <<serving, ProcessLocks>>
    BY <1>1, <1>8 DEF ParseReq, NoRequest, GetReqMsg, CreateJob, RejectMsg, PopReqMsg,
      Succeed, ExecuteReq, SendRes, Fail, ExecuteFails, SendFails, SendFailsAfterPush,
      Interrupt, slotVars
  <2> QED BY <1>1, <2>1
<1>9. ASSUME NEW c \in Client, IOStep(c) PROVE MutualExclusion' /\ LockMatchesHolder'
  BY <1>1, <1>9 DEF IOStep, PushJob, StoreChunk, poolVars, slotVars
<1>10. CASE UNCHANGED vars
  BY <1>1, <1>10 DEF vars, poolVars, slotVars
<1> QED
  BY <1>3, <1>4, <1>5, <1>6, <1>7, <1>8, <1>9, <1>10 DEF Next, WorkerStep

\* A worker in the locked part is the only one that serves its client, and the
\* client's lock is held.
LEMMA HolderAlone ==
    ASSUME IInv, NEW w \in Worker, pc[w] \in Holding
    PROVE  /\ serving[w] \in Client
           /\ ProcessLocks[serving[w]]
           /\ \A v \in Worker : v # w /\ pc[v] \in Holding => serving[v] # serving[w]
BY DEF IInv, TypeOK, MutualExclusion, LockMatchesHolder, Serves, Holding

\* The oldest request of a buffer that is not empty is a request.
LEMMA HeadOfBuffer == ASSUME NEW s \in Seq(Request), s # <<>> PROVE Head(s) \in Request
OBVIOUS

\* What the other workers know, and what is recorded for unlocked clients,
\* survives any step that changes only the slot of the client served by w.
LEMMA SlotFrame ==
    ASSUME IInv, NEW w \in Worker, pc[w] \in Holding,
           \A v \in Worker : v # w => pc'[v] = pc[v] /\ serving'[v] = serving[v],
           \A c \in Client : c # serving[w] =>
               /\ m_RecvBuffer'[c] = m_RecvBuffer[c]
               /\ m_Jobs'[c] = m_Jobs[c]
               /\ m_eJobProcess'[c] = m_eJobProcess[c]
               /\ ProcessLocks'[c] = ProcessLocks[c]
    PROVE  /\ \A v \in Worker : v # w => Knows(v)'
           /\ \A c \in Client : c # serving[w] =>
                 (~ProcessLocks'[c] => (m_eJobProcess'[c] = "PARSING" <=> m_Jobs'[c] = NoJob))
<1>1. \A v \in Worker : v # w /\ pc[v] \in Holding => serving[v] # serving[w]
  BY HolderAlone
<1>2. HolderKnows /\ StageMatchesJob
  BY DEF IInv
<1>3. ASSUME NEW v \in Worker, v # w PROVE Knows(v)'
  <2>1. Knows(v)
    BY <1>2 DEF HolderKnows
  <2>2. CASE pc[v] \in Holding
    <3>1. serving[v] \in Client /\ serving[v] # serving[w]
      BY <1>1, <1>3, <2>2, HolderAlone
    <3> QED BY <1>3, <2>1, <3>1 DEF Knows
  <2>3. CASE pc[v] \notin Holding
    BY <1>3, <2>3 DEF Knows, Holding
  <2> QED BY <2>2, <2>3
<1> QED BY <1>2, <1>3 DEF StageMatchesJob

\* What the holder of a lock knows of its client's job, and what is recorded of
\* clients nobody serves, are kept by every step.
LEMMA HolderInductive == IInv /\ [Next]_vars => HolderKnows' /\ StageMatchesJob'
<1> USE DEF Holding
<1> SUFFICES ASSUME IInv, [Next]_vars PROVE HolderKnows' /\ StageMatchesJob'
  OBVIOUS
<1>1. TypeOK /\ HolderKnows /\ StageMatchesJob
  BY DEF IInv
<1>2. NoJob \notin Request
  BY DEF NoJob, Request
<1>3. ASSUME NEW c \in Client, NEW k \in 0 .. MaxBurst, StoreChunk(c, k)
      PROVE HolderKnows' /\ StageMatchesJob'
  <2>1. ASSUME NEW w \in Worker PROVE Knows(w)'
    <3>1. Knows(w) /\ serving[w] \in Client \cup {NoClient}
      BY <1>1 DEF HolderKnows, TypeOK
    <3>2. ASSUME pc[w] \in {"create", "pop"} PROVE m_RecvBuffer'[serving[w]] # <<>>
      <4>1. serving[w] \in Client /\ m_RecvBuffer[serving[w]] # <<>>
        BY <3>1, <3>2, HolderAlone DEF Knows
      <4>2. /\ m_RecvBuffer[serving[w]] \in Seq(Request)
            /\ m_RecvBuffer \in [Client -> Seq(Request)]
            /\ arrived[c] \in Nat /\ k \in Nat /\ MaxRequest \in Nat
            /\ arrived[c] + k <= MaxRequest
        BY <1>1, <1>3, <4>1, PipelineAssumption DEF TypeOK, PipelineAssumption, StoreChunk
      <4> DEFINE chunk == [i \in 1 .. k |-> arrived[c] + i]
      <4>3. chunk \in Seq(Request)
        BY <4>2 DEF Request
      <4>4. \/ m_RecvBuffer' = m_RecvBuffer
            \/ m_RecvBuffer' = [m_RecvBuffer EXCEPT ![c] = @ \o chunk]
        BY <1>3, Zenon DEF StoreChunk
      <4> HIDE DEF chunk
      <4> QED BY <4>1, <4>2, <4>3, <4>4
    <3> QED BY <1>3, <3>1, <3>2 DEF StoreChunk, poolVars, slotVars, Knows
  <2>2. StageMatchesJob'
    BY <1>1, <1>3 DEF StoreChunk, slotVars, StageMatchesJob
  <2> QED BY <2>1, <2>2 DEF HolderKnows
<1>4. ASSUME NEW c \in Client, PushJob(c) PROVE HolderKnows' /\ StageMatchesJob'
  BY <1>1, <1>4 DEF PushJob, HolderKnows, Knows, StageMatchesJob, poolVars, slotVars
<1>5. ASSUME NEW w \in Worker, TakeTask(w) PROVE HolderKnows' /\ StageMatchesJob'
  BY <1>1, <1>5 DEF TakeTask, TypeOK, HolderKnows, Knows, StageMatchesJob, slotVars
<1>6. ASSUME NEW w \in Worker, NotMyTurn(w) PROVE HolderKnows' /\ StageMatchesJob'
  BY <1>1, <1>6 DEF NotMyTurn, TypeOK, HolderKnows, Knows, StageMatchesJob, slotVars
<1>7. ASSUME NEW w \in Worker, Requeue(w) PROVE HolderKnows' /\ StageMatchesJob'
  BY <1>1, <1>7 DEF Requeue, TypeOK, HolderKnows, Knows, StageMatchesJob, slotVars
<1>8. ASSUME NEW w \in Worker, TryLock(w) PROVE HolderKnows' /\ StageMatchesJob'
  <2>1. /\ serving[w] \in Client
        /\ m_eJobProcess[serving[w]] = "PARSING" <=> m_Jobs[serving[w]] = NoJob
    BY <1>1, <1>8 DEF TryLock, TypeOK, StageMatchesJob
  <2>2. Knows(w)'
    BY <1>1, <1>8, <2>1 DEF TryLock, TypeOK, ResumeAt, Knows
  <2>3. ASSUME NEW v \in Worker, v # w PROVE Knows(v)'
    BY <1>1, <1>8, <2>3 DEF TryLock, TypeOK, HolderKnows, Knows
  <2>4. StageMatchesJob'
    BY <1>1, <1>8 DEF TryLock, TypeOK, StageMatchesJob
  <2> QED BY <2>2, <2>3, <2>4 DEF HolderKnows
\* The steps of the locked part.
<1>9. ASSUME NEW w \in Worker, ParseReq(w) \/ Succeed(w) \/ Fail(w)
      PROVE HolderKnows' /\ StageMatchesJob'
  <2>1. pc[w] \in Holding
    BY <1>9 DEF ParseReq, NoRequest, GetReqMsg, CreateJob, RejectMsg, PopReqMsg,
      Succeed, ExecuteReq, SendRes, Fail, ExecuteFails, SendFails, SendFailsAfterPush
  <2>2. serving[w] \in Client /\ ProcessLocks[serving[w]] /\ Knows(w)
    BY <1>1, <2>1, HolderAlone DEF HolderKnows
  <2>3. /\ \A v \in Worker : v # w => pc'[v] = pc[v] /\ serving'[v] = serving[v]
        /\ \A c \in Client : c # serving[w] =>
             /\ m_RecvBuffer'[c] = m_RecvBuffer[c]
             /\ m_Jobs'[c] = m_Jobs[c]
             /\ m_eJobProcess'[c] = m_eJobProcess[c]
             /\ ProcessLocks'[c] = ProcessLocks[c]
        /\ serving' = serving /\ ProcessLocks' = ProcessLocks
    BY <1>1, <1>9 DEF ParseReq, NoRequest, GetReqMsg, CreateJob, RejectMsg, PopReqMsg,
      Succeed, ExecuteReq, SendRes, Fail, ExecuteFails, SendFails, SendFailsAfterPush,
      Interrupt, slotVars, TypeOK
  <2>4. Knows(w)'
    <3>1. CASE ParseReq(w)
      BY <1>1, <1>2, <2>2, <3>1, HeadOfBuffer DEF ParseReq, NoRequest, GetReqMsg, CreateJob,
        RejectMsg, PopReqMsg, Interrupt, slotVars, TypeOK, Knows
    <3>2. CASE ExecuteReq(w)
      <4>1. /\ pc'[w] = "send" /\ pc[w] = "execute" /\ serving'[w] = serving[w]
            /\ m_Jobs' = m_Jobs
        BY <1>1, <3>2 DEF ExecuteReq, slotVars, TypeOK
      <4> QED BY <2>2, <4>1 DEF Knows
    <3>3. CASE SendRes(w)
      <4>1. pc'[w] = "parse" /\ serving'[w] = serving[w] /\ m_Jobs'[serving[w]] = NoJob
        BY <1>1, <2>2, <3>3 DEF SendRes, TypeOK
      <4> QED BY <4>1 DEF Knows
    <3>4. CASE Fail(w)
      <4>1. /\ pc'[w] = "NOT_FINISHED" /\ pc[w] \in {"execute", "send"}
            /\ serving'[w] = serving[w] /\ m_Jobs' = m_Jobs
            /\ m_eJobProcess'[serving[w]] \in {"EXECUTE", "SEND"}
        BY <1>1, <2>2, <3>4 DEF Fail, ExecuteFails, SendFails, SendFailsAfterPush,
          Interrupt, TypeOK
      <4> QED BY <2>2, <4>1 DEF Knows
    <3> QED BY <1>9, <3>1, <3>2, <3>3, <3>4 DEF Succeed
  <2>5. /\ \A v \in Worker : v # w => Knows(v)'
        /\ \A c \in Client : c # serving[w] =>
             (~ProcessLocks'[c] => (m_eJobProcess'[c] = "PARSING" <=> m_Jobs'[c] = NoJob))
    BY <2>1, <2>3, SlotFrame
  <2> QED BY <2>2, <2>3, <2>4, <2>5 DEF HolderKnows, StageMatchesJob
<1>10. ASSUME NEW w \in Worker, Unlock(w) PROVE HolderKnows' /\ StageMatchesJob'
  <2>1. pc[w] \in {"REQ_FAILED", "NOT_FINISHED"} /\ serving[w] \in Client /\ Knows(w)
    BY <1>1, <1>10, HolderAlone DEF Unlock, HolderKnows
  <2>2. /\ \A v \in Worker : v # w => pc'[v] = pc[v] /\ serving'[v] = serving[v]
        /\ \A c \in Client : c # serving[w] => ProcessLocks'[c] = ProcessLocks[c]
        /\ pc'[w] \in {"idle", "requeue"}
        /\ UNCHANGED <<m_RecvBuffer, m_Jobs, m_eJobProcess>>
    BY <1>1, <1>10 DEF Unlock, TypeOK
  <2>3. /\ \A v \in Worker : v # w => Knows(v)'
        /\ \A c \in Client : c # serving[w] =>
             (~ProcessLocks'[c] => (m_eJobProcess'[c] = "PARSING" <=> m_Jobs'[c] = NoJob))
    BY <2>1, <2>2, SlotFrame
  <2>4. Knows(w)'
    BY <2>2 DEF Knows
  <2>5. m_eJobProcess'[serving[w]] = "PARSING" <=> m_Jobs'[serving[w]] = NoJob
    BY <2>1, <2>2 DEF Knows
  <2> QED BY <2>3, <2>4, <2>5 DEF HolderKnows, StageMatchesJob
<1>11. CASE UNCHANGED vars
  BY <1>1, <1>11 DEF vars, poolVars, slotVars, HolderKnows, Knows, StageMatchesJob
<1> QED
  BY <1>3, <1>4, <1>5, <1>6, <1>7, <1>8, <1>9, <1>10, <1>11 DEF Next, IOStep, WorkerStep

InQueue(q, c) == \E i \in DOMAIN q : q[i] = c

\* Appending to a queue keeps what is queued and adds the new task; taking the
\* head loses that task only.
LEMMA QueueFacts ==
    ASSUME NEW q \in Seq(Client), NEW c \in Client
    PROVE  /\ InQueue(Append(q, c), c)
           /\ \A d \in Client : InQueue(q, d) => InQueue(Append(q, c), d)
           /\ q # <<>> => \A d \in Client : InQueue(q, d) =>
                 d = Head(q) \/ InQueue(Tail(q), d)
<1>1. Append(q, c)[Len(q) + 1] = c /\ Len(q) + 1 \in DOMAIN Append(q, c)
  OBVIOUS
<1>2. ASSUME NEW d \in Client, NEW i \in DOMAIN q, q[i] = d
      PROVE  Append(q, c)[i] = d /\ i \in DOMAIN Append(q, c)
  BY <1>2
<1>3. ASSUME q # <<>>, NEW d \in Client, NEW i \in DOMAIN q, q[i] = d
      PROVE  d = Head(q) \/ \E j \in DOMAIN Tail(q) : Tail(q)[j] = d
  <2>1. CASE i = 1
    BY <1>3, <2>1
  <2>2. CASE i # 1
    <3>1. i - 1 \in DOMAIN Tail(q) /\ Tail(q)[i - 1] = d
      BY <1>3, <2>2
    <3> QED BY <3>1
  <2> QED BY <2>1, <2>2
<1> QED BY <1>1, <1>2, <1>3 DEF InQueue

\* A client is queued when the queue holds a task for it.
LEMMA QueuedIsInQueue == \A c : (Queued(c) <=> InQueue(JobThreads, c))
BY DEF Queued, InQueue

\* The same in the state after a step.
LEMMA QueuedIsInQueueNext == \A c : (Queued(c)' <=> InQueue(JobThreads', c))
BY DEF Queued, InQueue

RetryFor(c) ==
    ~ProcessLocks[c] /\ m_eJobProcess[c] # "PARSING" =>
        \/ Queued(c)
        \/ \E w \in Worker : serving[w] = c /\ pc[w] \in {"requeue", "try_lock"}

\* A step of w disturbs only the retry of the client it serves.
LEMMA RetryFrame ==
    ASSUME RetryIsScheduled, NEW w \in Worker, NEW c \in Client, c # serving[w],
           \A v \in Worker : v # w => pc'[v] = pc[v] /\ serving'[v] = serving[v],
           ProcessLocks'[c] = ProcessLocks[c], m_eJobProcess'[c] = m_eJobProcess[c],
           Queued(c) => Queued(c)'
    PROVE  RetryFor(c)'
<1>1. RetryFor(c)
  BY DEF RetryIsScheduled, RetryFor
<1>2. SUFFICES ASSUME ~ProcessLocks[c], m_eJobProcess[c] # "PARSING", ~Queued(c)
               PROVE  \E v \in Worker : serving'[v] = c /\ pc'[v] \in {"requeue", "try_lock"}
  BY DEF RetryFor
<1>3. PICK v \in Worker : serving[v] = c /\ pc[v] \in {"requeue", "try_lock"}
  BY <1>1, <1>2 DEF RetryFor
<1> QED BY <1>3

\* A task that meets the lock may be dropped: the interrupted request it was for
\* has another task, or a worker that is about to queue one.
LEMMA RetryInductive == IInv /\ [Next]_vars => RetryIsScheduled'
<1> SUFFICES ASSUME IInv, [Next]_vars PROVE RetryIsScheduled'
  OBVIOUS
<1>1. TypeOK /\ RetryIsScheduled /\ HolderKnows
  BY DEF IInv
<1>2. ASSUME NEW c \in Client, IOStep(c) PROVE RetryIsScheduled'
  <2>1. CASE PushJob(c)
    <3>1. JobThreads \in Seq(Client) /\ JobThreads' = Append(JobThreads, c)
      BY <1>1, <2>1 DEF PushJob, TypeOK
    <3>2. \A d \in Client : Queued(d) => Queued(d)'
      BY <3>1, QueueFacts, QueuedIsInQueue, QueuedIsInQueueNext
    <3> QED BY <1>1, <2>1, <3>2 DEF PushJob, RetryIsScheduled, poolVars, slotVars
  <2>2. ASSUME NEW k \in 0 .. MaxBurst, StoreChunk(c, k) PROVE RetryIsScheduled'
    BY <1>1, <2>2 DEF StoreChunk, RetryIsScheduled, Queued, poolVars, slotVars
  <2> QED BY <1>2, <2>1, <2>2 DEF IOStep
<1>3. ASSUME NEW w \in Worker, TakeTask(w) PROVE RetryIsScheduled'
  <2>1. JobThreads \in Seq(Client) /\ JobThreads # <<>> /\ JobThreads' = Tail(JobThreads)
    BY <1>1, <1>3 DEF TakeTask, TypeOK
  <2>2. Head(JobThreads) \in Client
    BY <2>1
  <2>3. \A d \in Client : Queued(d) => d = Head(JobThreads) \/ Queued(d)'
    BY <2>1, <2>2, QueueFacts, QueuedIsInQueue, QueuedIsInQueueNext
  <2>4. serving'[w] = Head(JobThreads) /\ pc'[w] = "try_lock" /\ pc[w] = "idle"
    BY <1>1, <1>3 DEF TakeTask, TypeOK
  <2>5. \A v \in Worker : v # w => serving'[v] = serving[v] /\ pc'[v] = pc[v]
    BY <1>1, <1>3 DEF TakeTask, TypeOK
  <2> QED BY <1>1, <1>3, <2>3, <2>4, <2>5 DEF TakeTask, RetryIsScheduled, slotVars
\* NotMyTurn drops a task of a client whose lock is held: its holder will
\* enqueue another one if it has to.
<1>4. ASSUME NEW w \in Worker, NotMyTurn(w) PROVE RetryIsScheduled'
  <2>1. /\ ProcessLocks'[serving[w]]
        /\ \A v \in Worker : v # w => pc'[v] = pc[v] /\ serving'[v] = serving[v]
        /\ UNCHANGED <<JobThreads, ProcessLocks, m_eJobProcess>>
    BY <1>1, <1>4 DEF NotMyTurn, TypeOK, slotVars
  <2>2. ASSUME NEW c \in Client, c # serving[w] PROVE RetryFor(c)'
    <3>1. Queued(c) => Queued(c)'
      BY <2>1 DEF Queued
    <3> QED BY <1>1, <2>1, <2>2, <3>1, RetryFrame
  <2> QED BY <2>1, <2>2 DEF RetryIsScheduled, RetryFor
<1>5. ASSUME NEW w \in Worker, TryLock(w) PROVE RetryIsScheduled'
  <2>1. /\ \A v \in Worker : v # w => pc'[v] = pc[v] /\ serving'[v] = serving[v]
        /\ \A c \in Client : c # serving[w] => ProcessLocks'[c] = ProcessLocks[c]
        /\ \A c \in Client : c = serving[w] => ProcessLocks'[c]
        /\ UNCHANGED <<JobThreads, m_eJobProcess>>
    BY <1>1, <1>5 DEF TryLock, TypeOK
  <2>2. ASSUME NEW c \in Client, c # serving[w] PROVE RetryFor(c)'
    <3>1. Queued(c) => Queued(c)'
      BY <2>1 DEF Queued
    <3> QED BY <1>1, <2>1, <2>2, <3>1, RetryFrame
  <2> QED BY <2>1, <2>2 DEF RetryIsScheduled, RetryFor
<1>6. ASSUME NEW w \in Worker, ParseReq(w) \/ Succeed(w) \/ Fail(w)
      PROVE RetryIsScheduled'
  <2>1. pc[w] \in Holding
    BY <1>6 DEF ParseReq, NoRequest, GetReqMsg, CreateJob, RejectMsg, PopReqMsg, Holding,
      Succeed, ExecuteReq, SendRes, Fail, ExecuteFails, SendFails, SendFailsAfterPush
  <2>2. serving[w] \in Client /\ ProcessLocks[serving[w]]
    BY <2>1, HolderAlone
  <2>3. /\ \A v \in Worker : v # w => pc'[v] = pc[v]
        /\ \A c \in Client : c # serving[w] => m_eJobProcess'[c] = m_eJobProcess[c]
        /\ UNCHANGED <<serving, ProcessLocks, JobThreads>>
    BY <1>1, <1>6 DEF ParseReq, NoRequest, GetReqMsg, CreateJob, RejectMsg, PopReqMsg,
      Succeed, ExecuteReq, SendRes, Fail, ExecuteFails, SendFails, SendFailsAfterPush,
      Interrupt, slotVars, TypeOK
  <2> QED BY <1>1, <2>1, <2>2, <2>3 DEF RetryIsScheduled, Queued, Holding
<1>7. ASSUME NEW w \in Worker, Unlock(w) PROVE RetryIsScheduled'
  <2>1. pc[w] \in {"REQ_FAILED", "NOT_FINISHED"} /\ serving[w] \in Client /\ Knows(w)
    BY <1>1, <1>7, HolderAlone DEF Unlock, HolderKnows, Holding
  <2>2. /\ \A v \in Worker : v # w => pc'[v] = pc[v] /\ serving'[v] = serving[v]
        /\ \A c \in Client : c # serving[w] => ProcessLocks'[c] = ProcessLocks[c]
        /\ UNCHANGED <<JobThreads, m_eJobProcess>>
    BY <1>1, <1>7 DEF Unlock, TypeOK
  <2>3. ASSUME NEW c \in Client, c # serving[w] PROVE RetryFor(c)'
    <3>1. Queued(c) => Queued(c)'
      BY <2>2 DEF Queued
    <3> QED BY <1>1, <2>2, <2>3, <3>1, RetryFrame
  <2>4. CASE pc[w] = "NOT_FINISHED"
    <3>1. pc'[w] = "requeue" /\ serving'[w] = serving[w]
      BY <1>1, <1>7, <2>4 DEF Unlock, TypeOK
    <3> QED BY <2>3, <3>1 DEF RetryIsScheduled, RetryFor
  <2>5. CASE pc[w] = "REQ_FAILED"
    <3>1. m_eJobProcess'[serving[w]] = "PARSING"
      BY <2>1, <2>2, <2>5 DEF Knows
    <3> QED BY <2>3, <3>1 DEF RetryIsScheduled, RetryFor
  <2> QED BY <2>1, <2>4, <2>5
<1>8. ASSUME NEW w \in Worker, Requeue(w) PROVE RetryIsScheduled'
  <2>1. serving[w] \in Client /\ JobThreads \in Seq(Client)
        /\ JobThreads' = Append(JobThreads, serving[w])
    BY <1>1, <1>8 DEF Requeue, TypeOK
  <2>2. /\ \A c \in Client : c = serving[w] => Queued(c)'
        /\ \A d \in Client : Queued(d) => Queued(d)'
    BY <2>1, QueueFacts, QueuedIsInQueue, QueuedIsInQueueNext
  <2>3. /\ \A v \in Worker : v # w => pc'[v] = pc[v] /\ serving'[v] = serving[v]
        /\ UNCHANGED <<ProcessLocks, m_eJobProcess>>
    BY <1>1, <1>8 DEF Requeue, TypeOK, slotVars
  <2>4. ASSUME NEW c \in Client, c # serving[w] PROVE RetryFor(c)'
    BY <1>1, <2>2, <2>3, <2>4, RetryFrame
  <2> QED BY <2>2, <2>4 DEF RetryIsScheduled, RetryFor
<1>9. CASE UNCHANGED vars
  BY <1>1, <1>9 DEF vars, poolVars, slotVars, RetryIsScheduled, Queued
<1> QED
  BY <1>2, <1>3, <1>4, <1>5, <1>6, <1>7, <1>8, <1>9 DEF Next, WorkerStep

-----------------------------------------------------------------------------

\* The inductive invariant holds when the server has started.
LEMMA InitIInv == Init => IInv
<1> SUFFICES ASSUME Init PROVE IInv
  OBVIOUS
<1>1. TypeOK
  BY PipelineAssumption DEF Init, TypeOK, PipelineAssumption, ProgramCounter, Holding,
    JobProcess, NoJob, Request
<1>2. MutualExclusion /\ LockMatchesHolder /\ HolderKnows
  BY DEF Init, MutualExclusion, LockMatchesHolder, HolderKnows, Knows, Serves, Holding
<1>3. StageMatchesJob /\ RetryIsScheduled
  BY DEF Init, StageMatchesJob, RetryIsScheduled, NoJob
<1> QED BY <1>1, <1>2, <1>3 DEF IInv

\* The inductive invariant is kept by every step.
LEMMA NextIInv == IInv /\ [Next]_vars => IInv'
BY TypeInductive, LockInductive, HolderInductive, RetryInductive DEF IInv

\* Every reachable state satisfies the inductive invariant.
THEOREM PipelineInvariant == Spec => []IInv
BY InitIInv, NextIInv, PTL DEF Spec

\* The variables keep their types: in particular no step reads the head of an
\* empty receive buffer (GameServer.cpp lines 202 to 234).
THEOREM TypeCorrect == Spec => []TypeOK
<1>1. IInv => TypeOK
  BY DEF IInv
<1> QED BY <1>1, PipelineInvariant, PTL

\* Two workers never serve one client at the same time.
THEOREM MutualExclusionHolds == Spec => []MutualExclusion
<1>1. IInv => MutualExclusion
  BY DEF IInv
<1> QED BY <1>1, PipelineInvariant, PTL

\* The recorded stage and the job object of an unlocked client agree.
THEOREM StageMatchesJobHolds == Spec => []StageMatchesJob
<1>1. IInv => StageMatchesJob
  BY DEF IInv
<1> QED BY <1>1, PipelineInvariant, PTL

\* An interrupted request is never left without a task that resumes it.
THEOREM RetryIsScheduledHolds == Spec => []RetryIsScheduled
<1>1. IInv => RetryIsScheduled
  BY DEF IInv
<1> QED BY <1>1, PipelineInvariant, PTL

KeptUntilAnswered ==
    \A c \in Client :
        m_Jobs[c] # NoJob /\ m_Jobs'[c] # m_Jobs[c] =>
            done'[c] = Append(done[c], m_Jobs[c])

\* A job leaves its slot only in SendRes, once its answer was sent.
LEMMA JobStep == IInv /\ [Next]_vars => KeptUntilAnswered
<1> SUFFICES ASSUME IInv, [Next]_vars PROVE KeptUntilAnswered
  OBVIOUS
<1>1. TypeOK /\ HolderKnows
  BY DEF IInv
<1>2. ASSUME NEW w \in Worker, CreateJob(w) PROVE KeptUntilAnswered
  <2>1. Knows(w)
    BY <1>1 DEF HolderKnows
  <2>2. m_Jobs[serving[w]] = NoJob
    BY <1>2, <2>1 DEF CreateJob, Knows
  <2> QED BY <1>1, <1>2, <2>2 DEF CreateJob, TypeOK, KeptUntilAnswered
<1>3. ASSUME NEW w \in Worker, SendRes(w) PROVE KeptUntilAnswered
  BY <1>1, <1>3 DEF SendRes, TypeOK, KeptUntilAnswered
<1>4. CASE UNCHANGED m_Jobs
  BY <1>4 DEF KeptUntilAnswered
<1> QED
  BY <1>2, <1>3, <1>4 DEF Next, IOStep, WorkerStep, StoreChunk, PushJob, TakeTask, TryLock,
    NotMyTurn, ParseReq, NoRequest, GetReqMsg, RejectMsg, PopReqMsg, Succeed, ExecuteReq,
    Fail, ExecuteFails, SendFails, SendFailsAfterPush, Interrupt, Unlock, Requeue,
    vars, slotVars

\* The next request of a client becomes a job only after the current one was
\* answered.
THEOREM JobKeptUntilAnsweredHolds == Spec => JobKeptUntilAnswered
<1>1. IInv /\ [Next]_vars => [KeptUntilAnswered]_vars
  BY JobStep
<1>2. Spec => [][KeptUntilAnswered]_vars
  BY <1>1, PipelineInvariant, PTL DEF Spec
<1> QED BY <1>2 DEF JobKeptUntilAnswered, KeptUntilAnswered

-----------------------------------------------------------------------------
(* The order.  Lock, stages and task queue are forgotten, and each step is   *)
(* seen to be quiet or to do one of four things to one client (the effects).  *)
(* What the order properties say is then a fact about effects.                *)

\* Some worker is about to pop the request it made c's job from.
PopsAt(c) == \E w \in Worker : serving[w] = c /\ pc[w] = "pop"

\* What a step does to the requests of a client, as the client can see it.
SameView(c) ==
    Waiting(c)' = Waiting(c) /\ CurrentJob(c)' = CurrentJob(c) /\ m_Jobs'[c] = m_Jobs[c]

Only(c) == \A d \in Client : d # c => SameView(d)

Quiet ==
    /\ UNCHANGED <<accepted, executed, done>>
    /\ \A c \in Client : SameView(c)

Arrives(c, chunk) ==
    /\ chunk \in Seq(Request) /\ Len(chunk) <= MaxBurst
    /\ accepted' = [accepted EXCEPT ![c] = @ \o chunk]
    /\ Waiting(c)' = Waiting(c) \o chunk
    /\ CurrentJob(c)' = CurrentJob(c)
    /\ Only(c)
    /\ UNCHANGED <<executed, done>>

Begins(c) ==
    /\ m_Jobs[c] = NoJob
    /\ Waiting(c) # <<>>
    /\ m_Jobs'[c] = Head(Waiting(c))
    /\ Waiting(c)' = Tail(Waiting(c))
    /\ Only(c)
    /\ UNCHANGED <<accepted, executed, done>>

Executes(c) ==
    /\ executed' = [executed EXCEPT ![c] = Append(@, m_Jobs[c])]
    /\ \A d \in Client : SameView(d)
    /\ UNCHANGED <<accepted, done>>

Answers(c) ==
    /\ done' = [done EXCEPT ![c] = Append(@, m_Jobs[c])]
    /\ m_Jobs[c] # NoJob
    /\ m_Jobs'[c] = NoJob
    /\ Waiting(c)' = Waiting(c)
    /\ Only(c)
    /\ UNCHANGED <<accepted, executed>>

-----------------------------------------------------------------------------

\* What waits for a client is its buffer, but for the request being popped.
LEMMA WaitingIs ==
    ASSUME NEW c
    PROVE  Waiting(c) = IF PopsAt(c) THEN Tail(m_RecvBuffer[c]) ELSE m_RecvBuffer[c]
BY DEF Waiting, PopsAt

\* The same in the state after a step.
LEMMA WaitingIsNext ==
    ASSUME NEW CONSTANT c
    PROVE  Waiting(c)' = IF PopsAt(c)' THEN Tail(m_RecvBuffer'[c]) ELSE m_RecvBuffer'[c]
BY DEF Waiting, PopsAt

\* A step that leaves the buffer, the job and the pops of a client alone is not
\* seen by it.
LEMMA ViewFrame ==
    ASSUME NEW CONSTANT c, PopsAt(c)' <=> PopsAt(c),
           m_RecvBuffer'[c] = m_RecvBuffer[c], m_Jobs'[c] = m_Jobs[c]
    PROVE  SameView(c)
<1>1. Waiting(c)' = Waiting(c)
  BY WaitingIs, WaitingIsNext
<1>2. CurrentJob(c)' = CurrentJob(c)
  BY DEF CurrentJob
<1> QED BY <1>1, <1>2 DEF SameView

\* A worker that moves to or from a step other than the pop changes no pop.
LEMMA PopFrame ==
    ASSUME NEW w \in Worker, NEW CONSTANT c,
           \A v \in Worker : v # w => pc'[v] = pc[v] /\ serving'[v] = serving[v],
           serving[w] = c => pc[w] # "pop",
           serving'[w] = c => pc'[w] # "pop"
    PROVE  PopsAt(c)' <=> PopsAt(c)
BY DEF PopsAt

\* Nobody but the worker that serves a client pops its requests.
LEMMA HolderPops ==
    ASSUME IInv, NEW w \in Worker, pc[w] \in Holding, NEW c, c = serving[w]
    PROVE  PopsAt(c) <=> pc[w] = "pop"
<1>1. \A v \in Worker : v # w /\ pc[v] \in Holding => serving[v] # serving[w]
  BY HolderAlone
<1> QED BY <1>1 DEF PopsAt, Holding

\* A chunk stored behind the request being popped waits behind the others.
LEMMA TailOfConcat ==
    ASSUME NEW S, NEW s \in Seq(S), NEW t \in Seq(S), s # <<>>
    PROVE  Tail(s \o t) = Tail(s) \o t
<1>1. /\ s \o t \in Seq(S) /\ s \o t # <<>> /\ Tail(s) \in Seq(S)
      /\ Len(Tail(s)) = Len(s) - 1 /\ Len(s) \in Nat \ {0}
  BY HeadTailProperties, ConcatProperties
<1>2. Tail(s \o t) \in Seq(S) /\ Tail(s) \o t \in Seq(S)
  BY <1>1, HeadTailProperties, ConcatProperties
<1>3. Len(Tail(s \o t)) = Len(Tail(s) \o t)
  BY <1>1, HeadTailProperties, ConcatProperties
<1>4. ASSUME NEW i \in 1 .. Len(Tail(s \o t)) PROVE Tail(s \o t)[i] = (Tail(s) \o t)[i]
  BY <1>1, <1>2, <1>3
<1> QED BY <1>2, <1>3, <1>4, SeqEqual

-----------------------------------------------------------------------------

\* Storing a chunk delivers it, or nothing when the buffer is full.
LEMMA StoreEffect ==
    ASSUME IInv, NEW c \in Client, NEW k \in 0 .. MaxBurst, StoreChunk(c, k)
    PROVE  Quiet \/ \E chunk \in Seq(Request) :
                       Arrives(c, chunk) /\ chunk = [i \in 1 .. k |-> arrived[c] + i]
<1>1. TypeOK /\ HolderKnows
  BY DEF IInv
<1>2. \A d \in Client : PopsAt(d)' <=> PopsAt(d)
  BY DEF StoreChunk, poolVars, PopsAt
<1> DEFINE chunk == [i \in 1 .. k |-> arrived[c] + i]
<1>3. CASE Len(m_RecvBuffer[c]) + k > RecvCapacity
  <2>1. UNCHANGED <<m_RecvBuffer, m_Jobs, accepted, executed, done>>
    BY <1>3 DEF StoreChunk, slotVars
  <2> QED BY <1>2, <2>1, ViewFrame DEF Quiet
<1>4. CASE ~(Len(m_RecvBuffer[c]) + k > RecvCapacity)
  <2>1. /\ m_RecvBuffer' = [m_RecvBuffer EXCEPT ![c] = @ \o chunk]
        /\ accepted' = [accepted EXCEPT ![c] = @ \o chunk]
    BY <1>4, Zenon DEF StoreChunk
  <2>2. UNCHANGED <<m_Jobs, executed, done>>
    BY DEF StoreChunk, slotVars
  <2>3. /\ m_RecvBuffer \in [Client -> Seq(Request)]
        /\ arrived[c] \in Nat /\ k \in Nat /\ MaxRequest \in Nat /\ MaxBurst \in Nat
        /\ k <= MaxBurst /\ arrived[c] + k <= MaxRequest
    BY <1>1, PipelineAssumption DEF TypeOK, PipelineAssumption, StoreChunk
  <2>4. chunk \in Seq(Request) /\ Len(chunk) <= MaxBurst
    BY <2>3 DEF Request
  <2> HIDE DEF chunk
  <2>5. Waiting(c)' = Waiting(c) \o chunk
    <3>1. m_RecvBuffer'[c] = m_RecvBuffer[c] \o chunk
      BY <2>1, <2>3
    <3>2. CASE PopsAt(c)
      <4>1. m_RecvBuffer[c] # <<>>
        BY <1>1, <3>2 DEF PopsAt, HolderKnows, Knows
      <4>2. Tail(m_RecvBuffer[c] \o chunk) = Tail(m_RecvBuffer[c]) \o chunk
        BY <2>3, <2>4, <4>1, TailOfConcat
      <4> QED BY <1>2, <3>1, <3>2, <4>2, WaitingIs, WaitingIsNext
    <3>3. CASE ~PopsAt(c)
      BY <1>2, <3>1, <3>3, WaitingIs, WaitingIsNext
    <3> QED BY <3>2, <3>3
  <2>6. CurrentJob(c)' = CurrentJob(c)
    BY <2>2 DEF CurrentJob
  <2>7. Only(c)
    <3>1. \A d \in Client : d # c => m_RecvBuffer'[d] = m_RecvBuffer[d]
      BY <2>1, <2>3
    <3> QED BY <1>2, <2>2, <3>1, ViewFrame DEF Only
  <2>8. Arrives(c, chunk)
    BY <2>1, <2>2, <2>4, <2>5, <2>6, <2>7 DEF Arrives
  <2> QED BY <2>4, <2>8 DEF chunk
<1> QED BY <1>3, <1>4

\* Queueing a task, taking one, locking, unlocking and retrying are invisible.
LEMMA PoolEffect ==
    ASSUME IInv, NEW w \in Worker,
           TakeTask(w) \/ TryLock(w) \/ NotMyTurn(w) \/ Unlock(w) \/ Requeue(w)
    PROVE  Quiet
<1>1. TypeOK
  BY DEF IInv
<1>2. /\ UNCHANGED <<m_RecvBuffer, m_Jobs, accepted, executed, done>>
      /\ \A v \in Worker : v # w => pc'[v] = pc[v] /\ serving'[v] = serving[v]
      /\ pc[w] # "pop" /\ pc'[w] # "pop"
  BY <1>1, ZenonT(30) DEF TypeOK, TakeTask, TryLock, ResumeAt, NotMyTurn, Unlock, Requeue, slotVars, history
<1>3. ASSUME NEW c \in Client PROVE SameView(c)
  <2>1. PopsAt(c)' <=> PopsAt(c)
    BY <1>2, PopFrame
  <2> QED BY <1>2, <2>1, ViewFrame
<1> QED BY <1>2, <1>3 DEF Quiet

\* The parser's steps: looking, rejecting and popping are invisible; making the
\* job of the oldest request begins it.
LEMMA ParseEffect ==
    ASSUME IInv, NEW w \in Worker, ParseReq(w)
    PROVE  Quiet \/ \E c \in Client : Begins(c)
<1>1. TypeOK /\ HolderKnows
  BY DEF IInv
<1>2. pc[w] \in Holding
  BY DEF ParseReq, NoRequest, GetReqMsg, CreateJob, RejectMsg, PopReqMsg, Holding
<1>3. serving[w] \in Client /\ Knows(w)
  BY <1>1, <1>2, HolderAlone DEF HolderKnows
<1>4. /\ UNCHANGED <<serving, accepted, executed, done>>
      /\ \A v \in Worker : v # w => pc'[v] = pc[v] /\ serving'[v] = serving[v]
      /\ \A d \in Client : d # serving[w] =>
           m_RecvBuffer'[d] = m_RecvBuffer[d] /\ m_Jobs'[d] = m_Jobs[d]
  BY <1>1, <1>3 DEF ParseReq, NoRequest, GetReqMsg, CreateJob, RejectMsg, PopReqMsg,
    Interrupt, slotVars, history, TypeOK
<1>5. ASSUME NEW d \in Client, d # serving[w] PROVE SameView(d)
  <2>1. PopsAt(d)' <=> PopsAt(d)
    BY <1>4, <1>5, PopFrame
  <2> QED BY <1>4, <1>5, <2>1, ViewFrame
<1>6. PICK c \in Client : c = serving[w]
  BY <1>3
<1>7. PopsAt(c) <=> pc[w] = "pop"
  BY <1>2, <1>6, HolderPops
<1>8. PopsAt(c)' <=> pc'[w] = "pop"
  <2>1. \A v \in Worker : v # w => ~(serving[v] = c /\ pc[v] = "pop")
    <3>1. \A v \in Worker : v # w /\ pc[v] \in Holding => serving[v] # serving[w]
      BY <1>2, HolderAlone
    <3> QED BY <1>6, <3>1 DEF Holding
  <2> QED BY <1>4, <1>6, <2>1 DEF PopsAt
<1>9. CASE NoRequest(w) \/ GetReqMsg(w) \/ RejectMsg(w)
  <2>1. UNCHANGED <<m_RecvBuffer, m_Jobs>> /\ pc[w] # "pop" /\ pc'[w] # "pop"
    BY <1>1, <1>9 DEF NoRequest, GetReqMsg, RejectMsg, Interrupt, slotVars, TypeOK
  <2>2. SameView(c)
    BY <1>7, <1>8, <2>1, ViewFrame
  <2> QED BY <1>4, <1>5, <1>6, <2>2 DEF Quiet
<1>10. CASE CreateJob(w)
  <2>1. /\ pc[w] = "create" /\ pc'[w] = "pop"
        /\ m_RecvBuffer' = m_RecvBuffer
        /\ m_Jobs'[c] = Head(m_RecvBuffer[c])
        /\ m_Jobs[c] = NoJob /\ m_RecvBuffer[c] # <<>>
    BY <1>1, <1>3, <1>6, <1>10 DEF CreateJob, TypeOK, Knows
  <2>2. Waiting(c) = m_RecvBuffer[c] /\ Waiting(c)' = Tail(m_RecvBuffer[c])
    BY <1>7, <1>8, <2>1, WaitingIs, WaitingIsNext
  <2> QED BY <1>4, <1>5, <1>6, <2>1, <2>2 DEF Begins, Only
<1>11. CASE PopReqMsg(w)
  <2>1. /\ pc[w] = "pop" /\ pc'[w] = "execute"
        /\ m_RecvBuffer'[c] = Tail(m_RecvBuffer[c]) /\ m_Jobs' = m_Jobs
    BY <1>1, <1>6, <1>11 DEF PopReqMsg, slotVars, TypeOK
  <2>2. Waiting(c)' = Waiting(c)
    BY <1>7, <1>8, <2>1, WaitingIs, WaitingIsNext
  <2>3. SameView(c)
    BY <2>1, <2>2 DEF SameView, CurrentJob
  <2> QED BY <1>4, <1>5, <1>6, <2>3 DEF Quiet
<1> QED BY <1>9, <1>10, <1>11 DEF ParseReq

\* The steps after the parser: work done, an answer given, or an interruption.
LEMMA ServeEffect ==
    ASSUME IInv, NEW w \in Worker, Succeed(w) \/ Fail(w), NEW c, c = serving[w]
    PROVE  /\ c \in Client
           /\ ExecuteReq(w) => Executes(c)
           /\ SendRes(w) => Answers(c)
           /\ Fail(w) => Quiet
<1>1. TypeOK
  BY DEF IInv
<1>2. pc[w] \in Holding
  BY DEF Succeed, ExecuteReq, SendRes, Fail, ExecuteFails, SendFails, SendFailsAfterPush, Holding
<1>3. c \in Client
  BY <1>2, HolderAlone
<1>4. /\ m_RecvBuffer' = m_RecvBuffer
      /\ \A v \in Worker : v # w => pc'[v] = pc[v] /\ serving'[v] = serving[v]
      /\ pc[w] # "pop" /\ pc'[w] # "pop"
      /\ accepted' = accepted
  BY <1>1 DEF Succeed, ExecuteReq, SendRes, Fail, ExecuteFails, SendFails,
    SendFailsAfterPush, Interrupt, history, TypeOK
<1>5. \A d \in Client : PopsAt(d)' <=> PopsAt(d)
  BY <1>4, PopFrame
<1>6. \A d \in Client : m_Jobs'[d] = m_Jobs[d] => SameView(d)
  BY <1>4, <1>5, ViewFrame
<1>7. CASE ExecuteReq(w)
  <2>1. /\ executed' = [executed EXCEPT ![c] = Append(@, m_Jobs[c])]
        /\ UNCHANGED <<m_Jobs, done>>
        /\ pc[w] = "execute" /\ pc'[w] = "send"
    BY <1>1, <1>7 DEF ExecuteReq, slotVars, TypeOK
  <2>2. Executes(c)
    BY <1>4, <1>6, <2>1 DEF Executes
  <2>3. ~SendRes(w) /\ ~Fail(w)
    BY <1>1, <2>1 DEF SendRes, Fail, ExecuteFails, SendFails, SendFailsAfterPush,
      Interrupt, TypeOK
  <2> QED BY <1>3, <2>2, <2>3
<1>8. CASE SendRes(w)
  <2>1. /\ done' = [done EXCEPT ![c] = Append(@, m_Jobs[c])]
        /\ m_Jobs[c] # NoJob /\ m_Jobs'[c] = NoJob
        /\ executed' = executed
        /\ \A d \in Client : d # c => m_Jobs'[d] = m_Jobs[d]
        /\ pc[w] = "send" /\ pc'[w] = "parse"
    BY <1>1, <1>3, <1>8 DEF SendRes, TypeOK
  <2>2. Waiting(c)' = Waiting(c)
    BY <1>3, <1>4, <1>5, WaitingIs, WaitingIsNext
  <2>3. Answers(c)
    BY <1>4, <1>6, <2>1, <2>2 DEF Answers, Only
  <2>4. ~ExecuteReq(w) /\ ~Fail(w)
    BY <1>1, <2>1 DEF ExecuteReq, Fail, ExecuteFails, SendFails, SendFailsAfterPush,
      Interrupt, TypeOK
  <2> QED BY <1>3, <2>3, <2>4
<1>9. CASE Fail(w)
  <2>1. UNCHANGED <<m_Jobs, executed, done>> /\ pc'[w] = "NOT_FINISHED"
    BY <1>1, <1>9 DEF Fail, ExecuteFails, SendFails, SendFailsAfterPush, Interrupt,
      history, TypeOK
  <2>2. Quiet
    BY <1>4, <1>6, <2>1 DEF Quiet
  <2>3. ~ExecuteReq(w) /\ ~SendRes(w)
    BY <1>1, <2>1 DEF ExecuteReq, SendRes, TypeOK
  <2> QED BY <1>3, <2>2, <2>3
<1> QED BY <1>7, <1>8, <1>9 DEF Succeed

\* Every step is quiet or has one of the four effects on one client.
LEMMA EveryEffect ==
    IInv /\ [Next]_vars =>
        \/ Quiet
        \/ \E c \in Client :
             \/ \E chunk \in Seq(Request), k \in 0 .. MaxBurst :
                    Arrives(c, chunk) /\ chunk = [i \in 1 .. k |-> arrived[c] + i]
             \/ Begins(c)
             \/ Executes(c)
             \/ Answers(c)
<1> DEFINE Goal ==
        \/ Quiet
        \/ \E c \in Client :
             \/ \E chunk \in Seq(Request), k \in 0 .. MaxBurst :
                    Arrives(c, chunk) /\ chunk = [i \in 1 .. k |-> arrived[c] + i]
             \/ Begins(c)
             \/ Executes(c)
             \/ Answers(c)
<1> SUFFICES ASSUME IInv, [Next]_vars PROVE Goal
  OBVIOUS
<1>1. ASSUME NEW c \in Client, NEW k \in 0 .. MaxBurst, StoreChunk(c, k) PROVE Goal
  <2>1. Quiet \/ \E chunk \in Seq(Request) :
                     Arrives(c, chunk) /\ chunk = [i \in 1 .. k |-> arrived[c] + i]
    BY <1>1, StoreEffect
  <2> QED BY <2>1
<1>2. ASSUME NEW c \in Client, PushJob(c) PROVE Goal
  <2>1. UNCHANGED <<m_RecvBuffer, m_Jobs, pc, serving, accepted, executed, done>>
    BY <1>2 DEF PushJob, poolVars, slotVars, history
  <2>2. Quiet
    BY <2>1, ViewFrame DEF Quiet, PopsAt
  <2> QED BY <2>2
<1>3. ASSUME NEW w \in Worker, WorkerStep(w) PROVE Goal
  <2>1. CASE TakeTask(w) \/ TryLock(w) \/ NotMyTurn(w) \/ Unlock(w) \/ Requeue(w)
    <3>1. Quiet
      BY <2>1, PoolEffect
    <3> QED BY <3>1
  <2>2. CASE ParseReq(w)
    <3>1. Quiet \/ \E c \in Client : Begins(c)
      BY <2>2, ParseEffect
    <3> QED BY <3>1
  <2>3. CASE Succeed(w) \/ Fail(w)
    <3>1. PICK c : c = serving[w]
      OBVIOUS
    <3>2. /\ c \in Client
          /\ ExecuteReq(w) => Executes(c)
          /\ SendRes(w) => Answers(c)
          /\ Fail(w) => Quiet
      BY <2>3, <3>1, ServeEffect
    <3>3. ExecuteReq(w) \/ SendRes(w) \/ Fail(w)
      BY <2>3 DEF Succeed
    <3> QED BY <3>2, <3>3
  <2> QED BY <1>3, <2>1, <2>2, <2>3 DEF WorkerStep
<1>4. CASE UNCHANGED vars
  <2>1. UNCHANGED <<m_RecvBuffer, m_Jobs, pc, serving, accepted, executed, done>>
    BY <1>4 DEF vars, poolVars, slotVars, history
  <2>2. Quiet
    BY <2>1, ViewFrame DEF Quiet, PopsAt
  <2> QED BY <2>2
<1> QED BY <1>1, <1>2, <1>3, <1>4 DEF Next, IOStep

\* What waits, what is in service and what was answered are requests.
LEMMA ViewTypes ==
    ASSUME IInv, NEW c \in Client
    PROVE  /\ Waiting(c) \in Seq(Request)
           /\ CurrentJob(c) \in Seq(Request)
           /\ done[c] \in Seq(Request)
           /\ accepted[c] \in Seq(Request)
           /\ executed[c] \in Seq(Request)
<1>1. TypeOK /\ HolderKnows
  BY DEF IInv
<1>2. m_RecvBuffer[c] \in Seq(Request) /\ m_Jobs[c] \in Request \cup {NoJob}
  BY <1>1 DEF TypeOK
<1>3. PopsAt(c) => m_RecvBuffer[c] # <<>>
  BY <1>1 DEF PopsAt, HolderKnows, Knows
<1>4. Waiting(c) \in Seq(Request)
  BY <1>2, <1>3, WaitingIs, HeadTailProperties
<1>5. CurrentJob(c) \in Seq(Request)
  BY <1>2 DEF CurrentJob
<1> QED BY <1>1, <1>4, <1>5 DEF TypeOK

-----------------------------------------------------------------------------
(* Nothing is skipped, repeated or overtaken.                               *)

\* A request taken from the head of a queue and put before its tail.
LEMMA HeadFirst ==
    ASSUME NEW S, NEW s \in Seq(S), s # <<>>
    PROVE  <<Head(s)>> \o Tail(s) = s /\ Head(s) \in S /\ Tail(s) \in Seq(S)
<1>1. /\ Head(s) \in S /\ Tail(s) \in Seq(S) /\ Len(Tail(s)) = Len(s) - 1
      /\ \A i \in 1 .. Len(Tail(s)) : Tail(s)[i] = s[i + 1]
  BY HeadTailProperties
<1>2. <<Head(s)>> \o Tail(s) \in Seq(S) /\ Len(<<Head(s)>> \o Tail(s)) = Len(s)
  BY <1>1
<1>3. ASSUME NEW i \in 1 .. Len(s) PROVE (<<Head(s)>> \o Tail(s))[i] = s[i]
  BY <1>1, <1>3
<1> QED BY <1>1, <1>2, <1>3, SeqEqual

Line(c) == accepted[c] = done[c] \o CurrentJob(c) \o Waiting(c)

\* Every effect keeps the line of a client's requests.
LEMMA LineInductive == IInv /\ NothingOvertaken /\ [Next]_vars => NothingOvertaken'
<1> SUFFICES ASSUME IInv, NothingOvertaken, [Next]_vars, NEW c \in Client PROVE Line(c)'
  BY DEF NothingOvertaken, Line
<1>1. /\ Line(c)
      /\ Waiting(c) \in Seq(Request) /\ CurrentJob(c) \in Seq(Request)
      /\ done[c] \in Seq(Request) /\ accepted[c] \in Seq(Request)
      /\ m_Jobs[c] \in Request \cup {NoJob}
      /\ accepted \in [Client -> Seq(Request)] /\ done \in [Client -> Seq(Request)]
  BY ViewTypes DEF NothingOvertaken, Line, IInv, TypeOK
<1>2. ASSUME SameView(c), accepted'[c] = accepted[c], done'[c] = done[c] PROVE Line(c)'
  BY <1>1, <1>2 DEF SameView, Line
<1>3. ASSUME NEW chunk \in Seq(Request), Arrives(c, chunk) PROVE Line(c)'
  <2>1. /\ accepted'[c] = accepted[c] \o chunk
        /\ Waiting(c)' = Waiting(c) \o chunk
        /\ CurrentJob(c)' = CurrentJob(c) /\ done'[c] = done[c]
    BY <1>1, <1>3 DEF Arrives
  <2>2. ((done[c] \o CurrentJob(c)) \o Waiting(c)) \o chunk
          = (done[c] \o CurrentJob(c)) \o (Waiting(c) \o chunk)
    <3>1. PICK line \in Seq(Request) : line = done[c] \o CurrentJob(c)
      BY <1>1, ConcatProperties
    <3>2. PICK inbox \in Seq(Request) : inbox = Waiting(c)
      BY <1>1
    <3>3. (line \o inbox) \o chunk = line \o (inbox \o chunk)
      OBVIOUS
    <3> QED BY <3>1, <3>2, <3>3
  <2> QED BY <1>1, <2>1, <2>2 DEF Line
<1>4. ASSUME Begins(c) PROVE Line(c)'
  <2>1. /\ m_Jobs[c] = NoJob /\ Waiting(c) # <<>>
        /\ m_Jobs'[c] = Head(Waiting(c)) /\ Waiting(c)' = Tail(Waiting(c))
        /\ accepted'[c] = accepted[c] /\ done'[c] = done[c]
    BY <1>4 DEF Begins
  <2>2. /\ <<Head(Waiting(c))>> \o Tail(Waiting(c)) = Waiting(c)
        /\ Head(Waiting(c)) \in Request /\ Tail(Waiting(c)) \in Seq(Request)
    BY <1>1, <2>1, HeadFirst
  <2>3. CurrentJob(c) = <<>> /\ CurrentJob(c)' = <<Head(Waiting(c))>>
    BY <2>1, <2>2 DEF CurrentJob, Request, NoJob
  <2>4. <<Head(Waiting(c))>> \in Seq(Request)
    BY <2>2
  <2>5. accepted[c] = done[c] \o Waiting(c)
    BY <1>1, <2>3, ConcatEmptySeq DEF Line
  <2>6. (done[c] \o <<Head(Waiting(c))>>) \o Tail(Waiting(c)) = done[c] \o Waiting(c)
    <3>1. PICK line \in Seq(Request) : line = done[c]
      BY <1>1
    <3>2. PICK first \in Seq(Request) : first = <<Head(Waiting(c))>>
      BY <2>4
    <3>3. PICK rest \in Seq(Request) : rest = Tail(Waiting(c))
      BY <2>2
    <3>4. (line \o first) \o rest = line \o (first \o rest)
      BY ConcatAssociative
    <3>5. first \o rest = Waiting(c)
      BY <2>2, <3>2, <3>3, Zenon
    <3>6. (done[c] \o <<Head(Waiting(c))>>) \o Tail(Waiting(c)) = line \o (first \o rest)
      BY <3>1, <3>2, <3>3, <3>4, Zenon
    <3> QED BY <3>1, <3>5, <3>6, Zenon
  <2> QED BY <2>1, <2>3, <2>5, <2>6 DEF Line
<1>5. ASSUME Answers(c) PROVE Line(c)'
  <2>1. /\ m_Jobs[c] # NoJob /\ m_Jobs'[c] = NoJob
        /\ Waiting(c)' = Waiting(c) /\ accepted'[c] = accepted[c]
        /\ done'[c] = Append(done[c], m_Jobs[c])
    BY <1>1, <1>5 DEF Answers
  <2>2. CurrentJob(c) = <<m_Jobs[c]>> /\ CurrentJob(c)' = <<>>
    BY <2>1 DEF CurrentJob
  <2>3. /\ Append(done[c], m_Jobs[c]) = done[c] \o <<m_Jobs[c]>>
        /\ Append(done[c], m_Jobs[c]) \in Seq(Request)
    <3>1. m_Jobs[c] \in Request /\ done[c] \in Seq(Request)
      BY <1>1, <2>1
    <3>2. Append(done[c], m_Jobs[c]) \in Seq(Request)
      BY <3>1
    <3>3. Append(done[c], m_Jobs[c]) = done[c] \o <<m_Jobs[c]>>
      BY <3>1, AppendIsConcat, Zenon
    <3> QED BY <3>2, <3>3
  <2>4. done'[c] \o CurrentJob(c)' = done[c] \o CurrentJob(c)
    BY <2>1, <2>2, <2>3, ConcatEmptySeq
  <2> QED BY <1>1, <2>1, <2>4 DEF Line
<1>6. CASE Quiet
  BY <1>2, <1>6 DEF Quiet
<1>7. ASSUME NEW d \in Client, d # c,
             \/ \E chunk \in Seq(Request) : Arrives(d, chunk)
             \/ Begins(d) \/ Executes(d) \/ Answers(d)
      PROVE  Line(c)'
  <2>1. SameView(c) /\ accepted'[c] = accepted[c] /\ done'[c] = done[c]
    BY <1>1, <1>7 DEF Arrives, Begins, Executes, Answers, Only
  <2> QED BY <1>2, <2>1
<1>8. ASSUME Executes(c) PROVE Line(c)'
  BY <1>2, <1>8 DEF Executes
<1> QED BY <1>3, <1>4, <1>5, <1>6, <1>7, <1>8, EveryEffect

\* What a connection was accepted for is what was answered, then what is in
\* service, then what waits, for any number of threads (see NothingOvertaken).
THEOREM NothingOvertakenHolds == Spec => []NothingOvertaken
<1>1. Init => NothingOvertaken
  <2> SUFFICES ASSUME Init, NEW c \in Client PROVE Line(c)
    BY DEF NothingOvertaken, Line
  <2>1. CurrentJob(c) = <<>> /\ Waiting(c) = <<>>
    BY DEF Init, CurrentJob, Waiting
  <2>2. accepted[c] = <<>> /\ done[c] = <<>> /\ <<>> \in Seq(Request)
    BY DEF Init
  <2> QED BY <2>1, <2>2, ConcatEmptySeq DEF Line
<1>2. IInv /\ NothingOvertaken /\ [Next]_vars => NothingOvertaken'
  BY LineInductive
<1> QED BY <1>1, <1>2, PipelineInvariant, PTL DEF Spec

-----------------------------------------------------------------------------
(* A request is executed once, however often its stages are interrupted.    *)

\* Everything executed was answered; or only the request in service was not.
Level(c) == executed[c] = done[c]
Ahead(c) == m_Jobs[c] # NoJob /\ executed[c] = Append(done[c], m_Jobs[c])

\* What the recorded stage of a client says of its request.
StageSays(c) == IF m_eJobProcess[c] = "SEND" THEN Ahead(c) ELSE Level(c)

\* What the step its worker is at says of it.
WorkerSays(w) ==
    /\ pc[w] \in {"parse", "create", "pop", "execute"} => Level(serving[w])
    /\ pc[w] = "send" => Ahead(serving[w])
    /\ pc[w] \in {"REQ_FAILED", "NOT_FINISHED"} => StageSays(serving[w])

ExecutedOnce ==
    /\ \A w \in Worker : WorkerSays(w)
    /\ \A c \in Client : ~ProcessLocks[c] => StageSays(c)

SameRecord(c) ==
    /\ m_Jobs'[c] = m_Jobs[c] /\ m_eJobProcess'[c] = m_eJobProcess[c]
    /\ executed'[c] = executed[c] /\ done'[c] = done[c]

\* What the others know survives a step of the worker that holds c's lock.
LEMMA RecordFrame ==
    ASSUME IInv, ExecutedOnce, NEW w \in Worker, NEW c, c = serving[w], pc[w] \in Holding,
           \A v \in Worker : v # w => pc'[v] = pc[v] /\ serving'[v] = serving[v],
           \A d \in Client : d # c => SameRecord(d) /\ ProcessLocks'[d] = ProcessLocks[d],
           WorkerSays(w)',
           ~ProcessLocks'[c] => StageSays(c)'
    PROVE  ExecutedOnce'
<1>1. \A v \in Worker : v # w /\ pc[v] \in Holding => serving[v] # serving[w]
  BY HolderAlone
<1>2. ASSUME NEW d \in Client, SameRecord(d)
      PROVE  /\ StageSays(d) => StageSays(d)'
             /\ Level(d) => Level(d)'
             /\ Ahead(d) => Ahead(d)'
  BY <1>2 DEF StageSays, Level, Ahead, SameRecord
<1>3. ASSUME NEW v \in Worker, v # w PROVE WorkerSays(v)'
  <2>1. WorkerSays(v) /\ pc'[v] = pc[v] /\ serving'[v] = serving[v]
    BY <1>3 DEF ExecutedOnce
  <2>2. CASE pc[v] \in Holding
    <3>1. PICK d \in Client : d = serving[v] /\ d # c
      BY <1>1, <1>3, <2>2, HolderAlone
    <3>2. SameRecord(d)
      BY <3>1
    <3>3. /\ StageSays(d) => StageSays(d)'
          /\ Level(d) => Level(d)'
          /\ Ahead(d) => Ahead(d)'
      BY <1>2, <3>2
    <3>4. /\ StageSays(serving[v]) <=> StageSays(d)
          /\ Level(serving[v]) <=> Level(d)
          /\ Ahead(serving[v]) <=> Ahead(d)
      BY <3>1
    <3>5. /\ StageSays(serving[v])' <=> StageSays(d)'
          /\ Level(serving[v])' <=> Level(d)'
          /\ Ahead(serving[v])' <=> Ahead(d)'
      BY <2>1, <3>1 DEF StageSays, Level, Ahead
    <3> QED BY <2>1, <3>3, <3>4, <3>5 DEF WorkerSays
  <2>3. CASE pc[v] \notin Holding
    BY <2>1, <2>3 DEF WorkerSays, Holding
  <2> QED BY <2>2, <2>3
<1>4. ASSUME NEW d \in Client PROVE ~ProcessLocks'[d] => StageSays(d)'
  BY <1>2 DEF ExecutedOnce
<1> QED BY <1>3, <1>4 DEF ExecutedOnce

\* Only ExecuteReq executes, and a request that was executed is never taken
\* back to a stage before SEND.
LEMMA ExecutedInductive == IInv /\ ExecutedOnce /\ [Next]_vars => ExecutedOnce'
<1> SUFFICES ASSUME IInv, ExecutedOnce, [Next]_vars PROVE ExecutedOnce'
  OBVIOUS
<1>1. TypeOK
  BY DEF IInv
<1>2. ASSUME UNCHANGED <<m_Jobs, m_eJobProcess, executed, done>>
      PROVE  /\ \A c : (Level(c)' <=> Level(c)) /\ (Ahead(c)' <=> Ahead(c))
             /\ \A c : StageSays(c)' <=> StageSays(c)
  BY <1>2 DEF Level, Ahead, StageSays
<1>3. ASSUME NEW c \in Client, IOStep(c) PROVE ExecutedOnce'
  <2>1. UNCHANGED <<pc, serving, ProcessLocks, m_Jobs, m_eJobProcess, executed, done>>
    BY <1>3 DEF IOStep, StoreChunk, PushJob, poolVars, slotVars, history
  <2> QED BY <2>1 DEF ExecutedOnce, WorkerSays, Level, Ahead, StageSays
<1>4. ASSUME NEW w \in Worker, TakeTask(w) \/ NotMyTurn(w) \/ Requeue(w) PROVE ExecutedOnce'
  <2>1. /\ UNCHANGED <<ProcessLocks, m_Jobs, m_eJobProcess, executed, done>>
        /\ \A v \in Worker : v # w => pc'[v] = pc[v] /\ serving'[v] = serving[v]
        /\ pc'[w] \in {"try_lock", "idle"}
    BY <1>1, <1>4 DEF TakeTask, NotMyTurn, Requeue, slotVars, history, TypeOK
  <2>2. WorkerSays(w)'
    BY <2>1 DEF WorkerSays
  <2>3. \A v \in Worker : v # w => WorkerSays(v)'
    BY <2>1, SMTT(30) DEF ExecutedOnce, WorkerSays, Level, Ahead, StageSays
  <2>4. \A c \in Client : ~ProcessLocks'[c] => StageSays(c)'
    BY <2>1 DEF ExecutedOnce, Level, Ahead, StageSays
  <2> QED BY <2>2, <2>3, <2>4 DEF ExecutedOnce
<1>5. ASSUME NEW w \in Worker, TryLock(w) PROVE ExecutedOnce'
  <2>1. /\ UNCHANGED <<m_Jobs, m_eJobProcess, executed, done>>
        /\ \A v \in Worker : v # w => pc'[v] = pc[v] /\ serving'[v] = serving[v]
        /\ serving'[w] = serving[w]
        /\ pc'[w] = ResumeAt(m_eJobProcess[serving[w]])
        /\ serving[w] \in Client /\ ~ProcessLocks[serving[w]]
        /\ \A c \in Client : ~ProcessLocks'[c] => ~ProcessLocks[c]
    BY <1>1, <1>5 DEF TryLock, history, TypeOK
  <2>2. StageSays(serving[w]) /\ m_eJobProcess[serving[w]] \in JobProcess
    BY <1>1, <2>1 DEF ExecutedOnce, TypeOK
  <2>3. WorkerSays(w)'
    BY <2>1, <2>2 DEF WorkerSays, StageSays, Level, Ahead, ResumeAt, JobProcess
  <2>4. \A v \in Worker : v # w => WorkerSays(v)'
    BY <2>1, SMTT(30) DEF ExecutedOnce, WorkerSays, Level, Ahead, StageSays
  <2>5. \A c \in Client : ~ProcessLocks'[c] => StageSays(c)'
    BY <2>1 DEF ExecutedOnce, Level, Ahead, StageSays
  <2> QED BY <2>3, <2>4, <2>5 DEF ExecutedOnce
<1>6. ASSUME NEW w \in Worker, ParseReq(w) \/ Succeed(w) \/ Fail(w) \/ Unlock(w)
      PROVE  ExecutedOnce'
  <2>1. pc[w] \in Holding
    BY <1>6 DEF ParseReq, NoRequest, GetReqMsg, CreateJob, RejectMsg, PopReqMsg, Holding,
      Succeed, ExecuteReq, SendRes, Fail, ExecuteFails, SendFails, SendFailsAfterPush, Unlock
  <2>2. PICK c \in Client : c = serving[w]
    BY <2>1, HolderAlone
  <2>3. /\ \A v \in Worker : v # w => pc'[v] = pc[v] /\ serving'[v] = serving[v]
        /\ \A d \in Client : d # c => ProcessLocks'[d] = ProcessLocks[d]
    BY <1>1, <2>2, <1>6 DEF ParseReq, NoRequest, GetReqMsg, CreateJob, RejectMsg, PopReqMsg,
      Succeed, ExecuteReq, SendRes, Fail, ExecuteFails, SendFails, SendFailsAfterPush,
      Unlock, Interrupt, slotVars, TypeOK
  <2>4. \A d \in Client : d # c => SameRecord(d)
    BY <1>1, <2>2, <1>6 DEF ParseReq, NoRequest, GetReqMsg, CreateJob, RejectMsg, PopReqMsg,
      Succeed, ExecuteReq, SendRes, Fail, ExecuteFails, SendFails, SendFailsAfterPush,
      Unlock, Interrupt, slotVars, history, TypeOK, SameRecord
  <2>5. /\ pc[w] \in {"parse", "create", "pop", "execute"} => Level(c)
        /\ pc[w] = "send" => Ahead(c)
        /\ pc[w] \in {"REQ_FAILED", "NOT_FINISHED"} => StageSays(c)
        /\ ProcessLocks[c]
    BY <2>1, <2>2, HolderAlone DEF ExecutedOnce, WorkerSays
  <2>6. CASE Unlock(w)
    <3>1. /\ UNCHANGED <<m_Jobs, m_eJobProcess, executed, done>>
          /\ pc'[w] \in {"requeue", "idle"}
          /\ pc[w] \in {"REQ_FAILED", "NOT_FINISHED"}
      BY <1>1, <2>6 DEF Unlock, history, TypeOK
    <3>2. StageSays(c)'
      BY <1>2, <2>5, <3>1
    <3>3. WorkerSays(w)'
      BY <3>1 DEF WorkerSays
    <3> QED BY <2>1, <2>2, <2>3, <2>4, <3>2, <3>3, RecordFrame
  \* In the other steps the lock stays held: only what w knows is to be shown.
  <2>7. CASE ParseReq(w) \/ Succeed(w) \/ Fail(w)
    <3>1. ProcessLocks' = ProcessLocks /\ serving' = serving
      BY <2>7 DEF ParseReq, NoRequest, GetReqMsg, CreateJob, RejectMsg, PopReqMsg,
        Succeed, ExecuteReq, SendRes, Fail, ExecuteFails, SendFails, SendFailsAfterPush,
        Interrupt, slotVars
    <3>2. /\ pc'[w] \in {"parse", "create", "pop", "execute"} => Level(c)'
          /\ pc'[w] = "send" => Ahead(c)'
          /\ pc'[w] \in {"REQ_FAILED", "NOT_FINISHED"} => StageSays(c)'
      <4>1. CASE NoRequest(w) \/ RejectMsg(w)
        <5>1. /\ UNCHANGED <<executed, done>> /\ m_eJobProcess'[c] = "PARSING"
              /\ pc'[w] = "REQ_FAILED" /\ pc[w] \in {"parse", "create"}
          BY <1>1, <2>2, <4>1 DEF NoRequest, RejectMsg, Interrupt, history, TypeOK
        <5> QED BY <2>5, <5>1 DEF StageSays, Level
      <4>2. CASE GetReqMsg(w) \/ CreateJob(w) \/ PopReqMsg(w)
        <5>1. /\ UNCHANGED <<executed, done>> /\ pc'[w] \in {"create", "pop", "execute"}
              /\ pc[w] \in {"parse", "create", "pop"}
          BY <1>1, <4>2 DEF GetReqMsg, CreateJob, PopReqMsg, history, TypeOK
        <5> QED BY <2>5, <5>1 DEF Level
      <4>3. CASE ExecuteReq(w)
        <5>1. /\ m_Jobs[c] # NoJob /\ m_Jobs' = m_Jobs /\ done' = done
              /\ executed'[c] = Append(executed[c], m_Jobs[c])
              /\ pc[w] = "execute" /\ pc'[w] = "send"
          BY <1>1, <2>2, <4>3 DEF ExecuteReq, slotVars, TypeOK
        <5> QED BY <2>5, <5>1 DEF Level, Ahead
      <4>4. CASE SendRes(w)
        <5>1. /\ executed' = executed /\ done'[c] = Append(done[c], m_Jobs[c])
              /\ pc[w] = "send" /\ pc'[w] = "parse"
          BY <1>1, <2>2, <4>4 DEF SendRes, TypeOK
        <5> QED BY <2>5, <5>1 DEF Level, Ahead
      <4>5. CASE ExecuteFails(w)
        <5>1. /\ UNCHANGED <<executed, done>> /\ m_eJobProcess'[c] = "EXECUTE"
              /\ pc[w] = "execute" /\ pc'[w] = "NOT_FINISHED"
          BY <1>1, <2>2, <4>5 DEF ExecuteFails, Interrupt, history, TypeOK
        <5> QED BY <2>5, <5>1 DEF StageSays, Level
      <4>6. CASE SendFails(w) \/ SendFailsAfterPush(w)
        <5>1. /\ UNCHANGED <<m_Jobs, executed, done>> /\ m_eJobProcess'[c] = "SEND"
              /\ pc[w] = "send" /\ pc'[w] = "NOT_FINISHED"
          BY <1>1, <2>2, <4>6 DEF SendFails, SendFailsAfterPush, Interrupt, history, TypeOK
        <5> QED BY <2>5, <5>1 DEF StageSays, Ahead
      <4> QED BY <2>7, <4>1, <4>2, <4>3, <4>4, <4>5, <4>6 DEF ParseReq, Succeed, Fail
    <3>3. WorkerSays(w)'
      <4>1. /\ Level(serving[w])' <=> Level(c)'
            /\ Ahead(serving[w])' <=> Ahead(c)'
            /\ StageSays(serving[w])' <=> StageSays(c)'
        BY <2>2, <3>1 DEF Level, Ahead, StageSays
      <4> QED BY <3>2, <4>1 DEF WorkerSays
    <3>4. ProcessLocks'[c]
      BY <2>5, <3>1
    <3> QED BY <2>1, <2>2, <2>3, <2>4, <3>3, <3>4, RecordFrame
  <2> QED BY <1>6, <2>6, <2>7
<1>7. CASE UNCHANGED vars
  <2>1. UNCHANGED <<pc, serving, ProcessLocks, m_Jobs, m_eJobProcess, executed, done>>
    BY <1>7 DEF vars, poolVars, slotVars, history
  <2> QED BY <2>1 DEF ExecutedOnce, WorkerSays, Level, Ahead, StageSays
<1> QED BY <1>3, <1>4, <1>5, <1>6, <1>7 DEF Next, WorkerStep

\* A request is executed at most once before it is answered, and answered only
\* after it was.
LEMMA OneAhead ==
    ASSUME IInv, ExecutedOnce, NEW c \in Client
    PROVE  Level(c) \/ Ahead(c)
<1>1. CASE ~ProcessLocks[c]
  BY <1>1 DEF ExecutedOnce, StageSays
<1>2. CASE ProcessLocks[c]
  <2>1. PICK w \in Worker : serving[w] = c /\ pc[w] \in Holding
    BY <1>2 DEF IInv, LockMatchesHolder, Serves
  <2>2. /\ pc[w] \in {"parse", "create", "pop", "execute"} => Level(c)
        /\ pc[w] = "send" => Ahead(c)
        /\ pc[w] \in {"REQ_FAILED", "NOT_FINISHED"} => StageSays(c)
    BY <2>1 DEF ExecutedOnce, WorkerSays
  <2> QED BY <2>1, <2>2 DEF Holding, StageSays
<1> QED BY <1>1, <1>2

-----------------------------------------------------------------------------
(* The refinement.                                                          *)

\* OneAhead in the state after a step.
LEMMA OneAheadNext ==
    ASSUME IInv', ExecutedOnce', NEW CONSTANT c \in Client
    PROVE  (Level(c) \/ Ahead(c))'
<1>1. CASE ~ProcessLocks'[c]
  BY <1>1 DEF ExecutedOnce, StageSays, Level, Ahead
<1>2. CASE ProcessLocks'[c]
  <2>1. PICK w \in Worker : serving'[w] = c /\ pc'[w] \in Holding
    BY <1>2 DEF IInv, LockMatchesHolder, Serves
  <2>2. WorkerSays(w)'
    BY DEF ExecutedOnce
  <2> QED BY <2>1, <2>2 DEF Holding, WorkerSays, StageSays, Level, Ahead
<1> QED BY <1>1, <1>2

\* The server starts as the service does.
LEMMA InitRefines == Init => Service!Init
BY DEF Init, Service!Init, Waiting, CurrentJob

\* Every effect is a step of the service, or none.
LEMMA StepRefines ==
    IInv /\ IInv' /\ ExecutedOnce /\ ExecutedOnce' /\ [Next]_vars
        => [Service!Next]_(Service!vars)
<1> SUFFICES ASSUME IInv, IInv', ExecutedOnce, ExecutedOnce', [Next]_vars,
                    ~UNCHANGED Service!vars
             PROVE  Service!Next
  OBVIOUS
<1>1. executed \in [Client -> Seq(Request)] /\ done \in [Client -> Seq(Request)]
      /\ m_Jobs \in [Client -> Request \cup {NoJob}]
  BY DEF IInv, TypeOK
<1> DEFINE Inbox == [c \in Client |-> Waiting(c)]
           Current == [c \in Client |-> CurrentJob(c)]
<1>2. ASSUME \A c \in Client : SameView(c) PROVE Inbox' = Inbox /\ Current' = Current
  BY <1>2 DEF SameView
<1>3. CASE Quiet
  BY <1>2, <1>3 DEF Quiet, Service!vars
<1>4. ASSUME NEW c \in Client, NEW chunk \in Seq(Request), NEW k \in 0 .. MaxBurst,
             Arrives(c, chunk), chunk = [i \in 1 .. k |-> arrived[c] + i]
      PROVE  Service!Next
  <2>1. Inbox' = [Inbox EXCEPT ![c] = @ \o chunk] /\ Current' = Current
    BY <1>4 DEF Arrives, Only, SameView
  <2>2. k # 0
    <3>1. SUFFICES ASSUME k = 0 PROVE FALSE
      OBVIOUS
    <3>2. chunk = <<>>
      BY <1>4, <3>1
    <3>3. Waiting(c)' = Waiting(c)
      BY <1>4, <3>2, ViewTypes, ConcatEmptySeq DEF Arrives
    <3>4. Inbox' = Inbox
      BY <1>4, <3>3 DEF Arrives, Only, SameView
    <3> QED BY <1>4, <2>1, <3>4 DEF Arrives, Service!vars
  <2>3. k \in 1 .. MaxBurst /\ chunk \in [1 .. k -> Request]
    BY <1>4, <2>2, PipelineAssumption DEF PipelineAssumption
  <2>4. chunk \in Service!Burst
    BY <2>3 DEF Service!Burst
  <2>5. Service!Arrive(c)
    BY <1>4, <2>1, <2>4 DEF Service!Arrive, Arrives
  <2> QED BY <2>5 DEF Service!Next
<1>5. ASSUME NEW c \in Client, Begins(c) PROVE Service!Next
  <2>1. CurrentJob(c) = <<>> /\ Waiting(c) # <<>>
    BY <1>5 DEF Begins, CurrentJob
  <2>2. CurrentJob(c)' = <<Head(Waiting(c))>>
    <3>1. Head(Waiting(c)) \in Request
      BY <2>1, ViewTypes, HeadTailProperties
    <3> QED BY <1>5, <3>1 DEF Begins, CurrentJob, Request, NoJob
  <2>3. /\ Inbox' = [Inbox EXCEPT ![c] = Tail(@)]
        /\ Current' = [Current EXCEPT ![c] = <<Head(Inbox[c])>>]
    BY <1>5, <2>2 DEF Begins, Only, SameView
  <2>4. Service!Begin(c)
    BY <1>5, <2>1, <2>3 DEF Service!Begin, Begins
  <2> QED BY <2>4 DEF Service!Next
<1>6. ASSUME NEW c \in Client, Executes(c) PROVE Service!Next
  <2>1. /\ executed'[c] = Append(executed[c], m_Jobs[c])
        /\ done' = done /\ m_Jobs'[c] = m_Jobs[c]
    BY <1>1, <1>6 DEF Executes, SameView
  <2>2. Level(c) \/ Ahead(c)
    BY OneAhead
  <2>3. executed'[c] = done'[c] \/ (m_Jobs'[c] # NoJob /\ executed'[c] = Append(done'[c], m_Jobs'[c]))
    BY OneAheadNext DEF Level, Ahead
  <2>4. executed[c] \in Seq(Request) /\ done[c] \in Seq(Request)
    BY <1>1
  <2>5. Len(executed[c]) = Len(done[c]) /\ m_Jobs[c] # NoJob
    BY <2>1, <2>2, <2>3, <2>4 DEF Level, Ahead
  <2>6. CurrentJob(c) = <<m_Jobs[c]>>
    BY <2>5 DEF CurrentJob
  <2>7. Inbox' = Inbox /\ Current' = Current
    BY <1>2, <1>6 DEF Executes
  <2>8. Current[c] # <<>> /\ Head(Current[c]) = m_Jobs[c]
    BY <2>6
  <2>9. executed' = [executed EXCEPT ![c] = Append(@, Head(Current[c]))]
    BY <1>6, <2>8 DEF Executes
  <2> HIDE DEF Inbox, Current
  <2>10. Service!Execute(c)
    BY <2>1, <2>5, <2>7, <2>8, <2>9, Zenon DEF Service!Execute, Inbox, Current
  <2> QED BY <2>10 DEF Service!Next
<1>7. ASSUME NEW c \in Client, Answers(c) PROVE Service!Next
  <2>1. /\ done'[c] = Append(done[c], m_Jobs[c])
        /\ executed' = executed /\ m_Jobs[c] # NoJob /\ m_Jobs'[c] = NoJob
    BY <1>1, <1>7 DEF Answers
  <2>2. executed'[c] = done'[c] \/ (m_Jobs'[c] # NoJob /\ executed'[c] = Append(done'[c], m_Jobs'[c]))
    BY OneAheadNext DEF Level, Ahead
  <2>3. Len(executed[c]) = Len(done[c]) + 1
    BY <1>1, <2>1, <2>2
  <2>4. CurrentJob(c) = <<m_Jobs[c]>> /\ CurrentJob(c)' = <<>>
    BY <2>1 DEF CurrentJob
  <2>5. Inbox' = Inbox /\ Current' = [Current EXCEPT ![c] = <<>>]
    BY <1>7, <2>4 DEF Answers, Only, SameView
  <2>6. Current[c] # <<>> /\ Head(Current[c]) = m_Jobs[c]
    BY <2>4
  <2>7. done' = [done EXCEPT ![c] = Append(@, Head(Current[c]))]
    BY <1>7, <2>6 DEF Answers
  <2> HIDE DEF Inbox, Current
  <2>8. Service!Answer(c)
    BY <2>1, <2>3, <2>5, <2>6, <2>7, Zenon DEF Service!Answer, Inbox, Current
  <2> QED BY <2>8 DEF Service!Next
<1> QED BY <1>3, <1>4, <1>5, <1>6, <1>7, EveryEffect

\* The pipeline implements the service, for any number of clients and workers:
\* locks, stages and queues are never seen by a client (see ImplementsService).
THEOREM ImplementsServiceHolds == Spec => ImplementsService
<1>1. Init => ExecutedOnce
  BY DEF Init, ExecutedOnce, WorkerSays, StageSays, Level
<1>2. IInv /\ ExecutedOnce /\ [Next]_vars => ExecutedOnce'
  BY ExecutedInductive
<1>3. Spec => [](IInv /\ ExecutedOnce)
  BY <1>1, <1>2, PipelineInvariant, PTL DEF Spec
<1>4. Spec => Service!Init
  BY InitRefines DEF Spec
<1>5. Spec => [][Service!Next]_(Service!vars)
  BY <1>3, StepRefines, PTL DEF Spec
<1> QED BY <1>4, <1>5 DEF ImplementsService, Service!Spec

-----------------------------------------------------------------------------
(* The order of the replies.                                                *)

\* Requests are stored in the order in which the client numbered them.
Increasing(c) ==
    /\ \A i \in DOMAIN accepted[c] : accepted[c][i] <= arrived[c]
    /\ \A i, j \in DOMAIN accepted[c] : i < j => accepted[c][i] < accepted[c][j]

AcceptedInOrder == \A c \in Client : Increasing(c)

\* What ReplyOrder says of one client.
RepliesOf(c) ==
    /\ \A i, j \in DOMAIN wire[c] : i < j => wire[c][i] <= wire[c][j]
    /\ \A i \in DOMAIN done[c] : \E j \in DOMAIN wire[c] : wire[c][j] = done[c][i]
    /\ \A j \in DOMAIN wire[c] :
         wire[c][j] = m_Jobs[c] \/ \E i \in DOMAIN done[c] : done[c][i] = wire[c][j]

Replies == \A c \in Client : RepliesOf(c)

\* ReplyOrder, written with quantifiers instead of sets.
LEMMA ReplyOrderIs == ReplyOrder <=> Replies
<1> DEFINE replies(c) == {wire[c][i] : i \in DOMAIN wire[c]}
           answers(c) == {done[c][i] : i \in DOMAIN done[c]}
<1>1. ASSUME NEW c
      PROVE  /\ answers(c) \subseteq replies(c)
                <=> \A i \in DOMAIN done[c] : \E j \in DOMAIN wire[c] : wire[c][j] = done[c][i]
             /\ replies(c) \subseteq answers(c) \cup {m_Jobs[c]}
                <=> \A j \in DOMAIN wire[c] :
                      wire[c][j] = m_Jobs[c] \/ \E i \in DOMAIN done[c] : done[c][i] = wire[c][j]
  <2>1. \A x : x \in replies(c) <=> \E j \in DOMAIN wire[c] : wire[c][j] = x
    OBVIOUS
  <2>2. \A x : x \in answers(c) <=> \E i \in DOMAIN done[c] : done[c][i] = x
    OBVIOUS
  <2> HIDE DEF replies, answers
  <2>3. ASSUME answers(c) \subseteq replies(c), NEW i \in DOMAIN done[c]
        PROVE  \E j \in DOMAIN wire[c] : wire[c][j] = done[c][i]
    BY <2>1, <2>2, <2>3
  <2>4. ASSUME \A i \in DOMAIN done[c] : \E j \in DOMAIN wire[c] : wire[c][j] = done[c][i]
        PROVE  answers(c) \subseteq replies(c)
    BY <2>1, <2>2, <2>4
  <2>5. ASSUME replies(c) \subseteq answers(c) \cup {m_Jobs[c]}, NEW j \in DOMAIN wire[c]
        PROVE  wire[c][j] = m_Jobs[c] \/ \E i \in DOMAIN done[c] : done[c][i] = wire[c][j]
    BY <2>1, <2>2, <2>5
  <2>6. ASSUME \A j \in DOMAIN wire[c] :
                  wire[c][j] = m_Jobs[c] \/ \E i \in DOMAIN done[c] : done[c][i] = wire[c][j]
        PROVE  replies(c) \subseteq answers(c) \cup {m_Jobs[c]}
    BY <2>1, <2>2, <2>6
  <2> QED BY <2>3, <2>4, <2>5, <2>6
<1>2. ReplyOrder <=> \A c \in Client :
          /\ \A i, j \in DOMAIN wire[c] : i < j => wire[c][i] <= wire[c][j]
          /\ answers(c) \subseteq replies(c)
          /\ replies(c) \subseteq answers(c) \cup {m_Jobs[c]}
  BY Zenon DEF ReplyOrder
<1> HIDE DEF replies, answers
<1> QED BY <1>1, <1>2 DEF Replies, RepliesOf

\* A chunk is numbered above everything stored before it.
LEMMA AcceptedInductive == IInv /\ AcceptedInOrder /\ [Next]_vars => AcceptedInOrder'
<1> SUFFICES ASSUME IInv, AcceptedInOrder, [Next]_vars PROVE AcceptedInOrder'
  OBVIOUS
<1>1. TypeOK
  BY DEF IInv
<1>2. ASSUME UNCHANGED <<accepted, arrived>> PROVE AcceptedInOrder'
  BY <1>2 DEF AcceptedInOrder, Increasing
<1>3. ASSUME NEW c \in Client, NEW k \in 0 .. MaxBurst, StoreChunk(c, k) PROVE AcceptedInOrder'
  <2> DEFINE chunk == [i \in 1 .. k |-> arrived[c] + i]
  <2>1. /\ arrived \in [Client -> 0 .. MaxRequest] /\ accepted \in [Client -> Seq(Request)]
        /\ arrived[c] \in Nat /\ k \in Nat /\ MaxRequest \in Nat
    BY <1>1, PipelineAssumption DEF TypeOK, PipelineAssumption
  <2>2. /\ arrived'[c] = arrived[c] + k
        /\ \A d \in Client : d # c => arrived'[d] = arrived[d] /\ accepted'[d] = accepted[d]
        /\ accepted'[c] = accepted[c] \/ accepted'[c] = accepted[c] \o chunk
    <3>1. arrived' = [arrived EXCEPT ![c] = @ + k]
      BY <1>3 DEF StoreChunk
    <3>2. \/ accepted' = accepted
          \/ accepted' = [accepted EXCEPT ![c] = @ \o chunk]
      BY <1>3, Zenon DEF StoreChunk
    <3> HIDE DEF chunk
    <3> QED BY <2>1, <3>1, <3>2
  <2>3. ASSUME NEW d \in Client, d # c PROVE Increasing(d)'
    BY <2>2, <2>3 DEF AcceptedInOrder, Increasing
  <2>4. Increasing(c)'
    <3>1. Increasing(c) /\ accepted[c] \in Seq(Nat)
      BY <2>1 DEF AcceptedInOrder, Request
    <3>2. CASE accepted'[c] = accepted[c]
      BY <2>1, <2>2, <3>1, <3>2 DEF Increasing
    <3>3. CASE accepted'[c] = accepted[c] \o chunk
      <4>1. /\ chunk \in Seq(Nat) /\ Len(chunk) = k
            /\ \A i \in 1 .. k : chunk[i] = arrived[c] + i
        BY <2>1
      <4> HIDE DEF chunk
      <4>2. /\ DOMAIN accepted[c] = 1 .. Len(accepted[c])
            /\ DOMAIN accepted'[c] = 1 .. Len(accepted[c]) + k
            /\ Len(accepted[c]) \in Nat
            /\ \A i \in 1 .. Len(accepted[c]) + k :
                 accepted'[c][i] = IF i <= Len(accepted[c]) THEN accepted[c][i]
                                   ELSE arrived[c] + (i - Len(accepted[c]))
        <5>1. PICK old \in Seq(Nat), new \in Seq(Nat) : old = accepted[c] /\ new = chunk
          BY <3>1, <4>1
        <5>2. /\ Len(old \o new) = Len(old) + Len(new)
              /\ DOMAIN (old \o new) = 1 .. Len(old) + Len(new)
              /\ \A i \in 1 .. Len(old) + Len(new) :
                   (old \o new)[i] = IF i <= Len(old) THEN old[i] ELSE new[i - Len(old)]
          OBVIOUS
        <5>3. Len(old) \in Nat /\ DOMAIN old = 1 .. Len(old) /\ Len(new) = k
          BY <4>1, <5>1
        <5>4. \A i \in 1 .. Len(old) + k : ~(i <= Len(old)) =>
                new[i - Len(old)] = arrived[c] + (i - Len(old))
          BY <2>1, <4>1, <5>1, <5>3
        <5> QED BY <3>3, <5>1, <5>2, <5>3, <5>4
      <4>3. \A i \in 1 .. Len(accepted[c]) : accepted[c][i] \in Nat
        BY <3>1
      <4>4. /\ \A i \in 1 .. Len(accepted[c]) : accepted[c][i] <= arrived[c]
            /\ \A i, j \in 1 .. Len(accepted[c]) : i < j => accepted[c][i] < accepted[c][j]
        BY <3>1, <4>2 DEF Increasing
      <4>5. ASSUME NEW i \in 1 .. Len(accepted[c]) + k PROVE accepted'[c][i] <= arrived'[c]
        <5>1. CASE i <= Len(accepted[c])
          <6>1. i \in 1 .. Len(accepted[c])
            BY <4>2, <5>1
          <6>2. accepted[c][i] \in Nat /\ accepted[c][i] <= arrived[c]
            BY <4>3, <4>4, <6>1
          <6> QED BY <2>1, <2>2, <4>2, <5>1, <6>2
        <5>2. CASE ~(i <= Len(accepted[c]))
          BY <2>1, <2>2, <4>2, <5>2
        <5> QED BY <5>1, <5>2
      <4>6. ASSUME NEW i \in 1 .. Len(accepted[c]) + k, NEW j \in 1 .. Len(accepted[c]) + k, i < j
            PROVE  accepted'[c][i] < accepted'[c][j]
        BY <2>1, <4>2, <4>3, <4>4, <4>6
      <4> QED BY <4>2, <4>5, <4>6 DEF Increasing
    <3> QED BY <2>2, <3>2, <3>3
  <2> QED BY <2>3, <2>4 DEF AcceptedInOrder
<1>4. ASSUME NEW c \in Client, PushJob(c) PROVE AcceptedInOrder'
  BY <1>2, <1>4 DEF PushJob, history
<1>5. ASSUME NEW w \in Worker, WorkerStep(w) PROVE AcceptedInOrder'
  BY <1>2, <1>5 DEF WorkerStep, TakeTask, TryLock, NotMyTurn, ParseReq, NoRequest, GetReqMsg,
    CreateJob, RejectMsg, PopReqMsg, Succeed, ExecuteReq, SendRes, Fail, ExecuteFails, SendFails,
    SendFailsAfterPush, Interrupt, Unlock, Requeue, connVars, history
<1>6. CASE UNCHANGED vars
  BY <1>2, <1>6 DEF vars, connVars, history
<1> QED BY <1>3, <1>4, <1>5, <1>6 DEF Next, IOStep

\* What was answered is numbered below the request in service.
LEMMA AnsweredBefore ==
    ASSUME IInv, NothingOvertaken, AcceptedInOrder, NEW c \in Client, m_Jobs[c] # NoJob
    PROVE  \A i \in DOMAIN done[c] : done[c][i] < m_Jobs[c]
<1>1. /\ done[c] \in Seq(Request) /\ Waiting(c) \in Seq(Request) /\ m_Jobs[c] \in Request
      /\ accepted[c] \in Seq(Request) /\ CurrentJob(c) = <<m_Jobs[c]>>
  BY ViewTypes DEF IInv, TypeOK, CurrentJob
<1>2. accepted[c] = (done[c] \o <<m_Jobs[c]>>) \o Waiting(c)
  BY <1>1 DEF NothingOvertaken
<1> DEFINE n == Len(done[c])
<1>3. n \in Nat /\ DOMAIN done[c] = 1 .. n
  BY <1>1
<1>4. /\ done[c] \o <<m_Jobs[c]>> \in Seq(Request) /\ Len(done[c] \o <<m_Jobs[c]>>) = n + 1
      /\ \A i \in 1 .. n : (done[c] \o <<m_Jobs[c]>>)[i] = done[c][i]
      /\ (done[c] \o <<m_Jobs[c]>>)[n + 1] = m_Jobs[c]
  BY <1>1
<1>5. PICK line \in Seq(Request) : line = done[c] \o <<m_Jobs[c]>>
  BY <1>4
<1>6. /\ 1 .. n + 1 \subseteq DOMAIN accepted[c]
      /\ \A i \in 1 .. n + 1 : accepted[c][i] = line[i]
  BY <1>1, <1>2, <1>3, <1>4, <1>5
<1>7. \A i \in 1 .. n : accepted[c][i] < accepted[c][n + 1]
  BY <1>3, <1>6 DEF AcceptedInOrder, Increasing
<1> QED BY <1>3, <1>4, <1>5, <1>6, <1>7

\* Pushing the reply of the request in service, once or once more, keeps the
\* replies in order; so does giving the request up once its reply is pushed.
LEMMA PushReply ==
    ASSUME IInv, NothingOvertaken, AcceptedInOrder, NEW c \in Client, RepliesOf(c),
           m_Jobs[c] # NoJob, wire'[c] = Append(wire[c], m_Jobs[c]),
           \/ done'[c] = done[c] /\ m_Jobs'[c] = m_Jobs[c]
           \/ done'[c] = Append(done[c], m_Jobs[c])
    PROVE  RepliesOf(c)'
<1>1. wire[c] \in Seq(Request) /\ done[c] \in Seq(Request) /\ m_Jobs[c] \in Request
  BY DEF IInv, TypeOK
<1>2. PICK job \in Nat : job = m_Jobs[c]
  BY <1>1 DEF Request
<1>3. \A i \in DOMAIN done[c] : done[c][i] < job
  BY <1>2, AnsweredBefore
<1>4. /\ DOMAIN wire[c] = 1 .. Len(wire[c]) /\ Len(wire[c]) \in Nat
      /\ DOMAIN wire'[c] = 1 .. Len(wire[c]) + 1
      /\ wire'[c][Len(wire[c]) + 1] = job
      /\ \A i \in 1 .. Len(wire[c]) : wire'[c][i] = wire[c][i] /\ wire[c][i] \in Nat
  <2>1. PICK sent \in Seq(Nat) : sent = wire[c]
    BY <1>1, PipelineAssumption DEF Request, PipelineAssumption
  <2>2. /\ DOMAIN Append(sent, job) = 1 .. Len(sent) + 1
        /\ Append(sent, job)[Len(sent) + 1] = job
        /\ \A i \in 1 .. Len(sent) : Append(sent, job)[i] = sent[i] /\ sent[i] \in Nat
    BY AppendProperties
  <2> QED BY <1>2, <2>1, <2>2
<1>5. /\ DOMAIN done[c] = 1 .. Len(done[c]) /\ Len(done[c]) \in Nat
      /\ \A i \in 1 .. Len(done[c]) : done[c][i] \in Nat
  <2>1. PICK answered \in Seq(Nat) : answered = done[c]
    BY <1>1, PipelineAssumption DEF Request, PipelineAssumption
  <2> QED BY <2>1
<1>6. \A i \in 1 .. Len(wire[c]) : wire[c][i] <= job
  <2>1. ASSUME NEW i \in DOMAIN wire[c] PROVE wire[c][i] <= job
    <3>1. wire[c][i] = job \/ \E n \in DOMAIN done[c] : done[c][n] = wire[c][i]
      BY <1>2 DEF RepliesOf
    <3> QED BY <1>3, <1>4, <1>5, <3>1
  <2> QED BY <1>4, <2>1
<1>7. ASSUME NEW i \in DOMAIN wire'[c], NEW j \in DOMAIN wire'[c], i < j
      PROVE  wire'[c][i] <= wire'[c][j]
  <2>1. i \in 1 .. Len(wire[c])
    BY <1>4, <1>7
  <2>2. CASE j = Len(wire[c]) + 1
    BY <1>4, <1>6, <2>1, <2>2
  <2>3. CASE j # Len(wire[c]) + 1
    <3>1. j \in 1 .. Len(wire[c])
      BY <1>4, <2>3
    <3>2. wire[c][i] <= wire[c][j]
      BY <1>4, <1>7, <2>1, <3>1 DEF RepliesOf
    <3> QED BY <1>4, <2>1, <3>1, <3>2
  <2> QED BY <2>2, <2>3
<1>8. \A i \in DOMAIN done'[c] : done'[c][i] = job \/
         \E n \in DOMAIN done[c] : done'[c][i] = done[c][n]
  <2>1. CASE done'[c] = done[c]
    BY <2>1
  <2>2. CASE done'[c] = Append(done[c], job)
    <3>1. PICK answered \in Seq(Nat) : answered = done[c]
      BY <1>1, PipelineAssumption DEF Request, PipelineAssumption
    <3>2. \A i \in DOMAIN Append(answered, job) :
             Append(answered, job)[i] = job \/
             (i \in DOMAIN answered /\ Append(answered, job)[i] = answered[i])
      OBVIOUS
    <3> QED BY <2>2, <3>1, <3>2
  <2> QED BY <1>2, <2>1, <2>2
<1>9. ASSUME NEW i \in DOMAIN done'[c] PROVE \E j \in DOMAIN wire'[c] : wire'[c][j] = done'[c][i]
  <2>1. CASE done'[c][i] = job
    <3>1. Len(wire[c]) + 1 \in DOMAIN wire'[c]
      BY <1>4
    <3> QED BY <1>4, <2>1, <3>1
  <2>2. ASSUME NEW n \in DOMAIN done[c], done'[c][i] = done[c][n]
        PROVE  \E j \in DOMAIN wire'[c] : wire'[c][j] = done'[c][i]
    <3>1. PICK j \in DOMAIN wire[c] : wire[c][j] = done[c][n]
      BY <2>2 DEF RepliesOf
    <3>2. j \in DOMAIN wire'[c] /\ wire'[c][j] = wire[c][j]
      BY <1>4
    <3> QED BY <2>2, <3>1, <3>2
  <2> QED BY <1>8, <2>1, <2>2
<1>10. \A n \in DOMAIN done[c] : \E i \in DOMAIN done'[c] : done'[c][i] = done[c][n]
  <2>1. CASE done'[c] = done[c]
    BY <2>1
  <2>2. CASE done'[c] = Append(done[c], m_Jobs[c])
    BY <1>1, <1>5, <2>2
  <2> QED BY <2>1, <2>2
<1>11. m_Jobs'[c] = job \/ \E i \in DOMAIN done'[c] : done'[c][i] = job
  <2>1. CASE done'[c] = Append(done[c], m_Jobs[c])
    <3>1. Len(done[c]) + 1 \in DOMAIN done'[c] /\ done'[c][Len(done[c]) + 1] = job
      BY <1>1, <1>2, <2>1
    <3> QED BY <3>1
  <2> QED BY <1>2, <2>1
<1>12. ASSUME NEW j \in DOMAIN wire'[c]
       PROVE  wire'[c][j] = m_Jobs'[c] \/ \E i \in DOMAIN done'[c] : done'[c][i] = wire'[c][j]
  <2>1. CASE wire'[c][j] = job
    BY <1>11, <2>1
  <2>2. CASE wire'[c][j] # job
    <3>1. j \in DOMAIN wire[c] /\ wire'[c][j] = wire[c][j]
      BY <1>4, <2>2
    <3>2. PICK n \in DOMAIN done[c] : done[c][n] = wire[c][j]
      BY <1>2, <2>2, <3>1 DEF RepliesOf
    <3> QED BY <1>10, <3>1, <3>2
  <2> QED BY <2>1, <2>2
<1> QED BY <1>7, <1>9, <1>12 DEF RepliesOf

\* Replies are pushed only for the request in service, which is numbered above
\* all that were answered.
LEMMA ReplyInductive ==
    IInv /\ NothingOvertaken /\ AcceptedInOrder /\ ReplyOrder /\ [Next]_vars => ReplyOrder'
<1> SUFFICES ASSUME IInv, NothingOvertaken, AcceptedInOrder, ReplyOrder, [Next]_vars,
                    NEW c \in Client
             PROVE  RepliesOf(c)'
  <2>1. ReplyOrder' <=> Replies'
    BY ReplyOrderIs, PTL
  <2> QED BY <2>1 DEF Replies
<1>1. TypeOK /\ HolderKnows /\ RepliesOf(c)
  BY ReplyOrderIs DEF IInv, Replies
<1>2. ASSUME wire'[c] = wire[c], done'[c] = done[c], m_Jobs'[c] = m_Jobs[c]
      PROVE  RepliesOf(c)'
  BY <1>1, <1>2 DEF RepliesOf
<1>3. ASSUME NEW w \in Worker, CreateJob(w) PROVE RepliesOf(c)'
  <2>1. CASE serving[w] = c
    <3>1. m_Jobs[c] = NoJob /\ UNCHANGED <<wire, done>>
      BY <1>1, <1>3, <2>1 DEF CreateJob, HolderKnows, Knows, history
    <3>2. \A j \in DOMAIN wire[c] : wire[c][j] # NoJob
      <4>1. PICK sent \in Seq(Request) : sent = wire[c]
        BY <1>1 DEF TypeOK
      <4>2. \A j \in DOMAIN sent : sent[j] \in Request
        OBVIOUS
      <4>3. NoJob \notin Request
        BY DEF NoJob, Request
      <4> QED BY <4>1, <4>2, <4>3
    <3> QED BY <1>1, <3>1, <3>2 DEF RepliesOf
  <2>2. CASE serving[w] # c
    BY <1>1, <1>2, <1>3, <2>2 DEF CreateJob, history, TypeOK
  <2> QED BY <2>1, <2>2
<1>4. ASSUME NEW w \in Worker, SendRes(w) PROVE RepliesOf(c)'
  <2>1. CASE serving[w] = c
    <3>1. /\ m_Jobs[c] # NoJob
          /\ wire'[c] = Append(wire[c], m_Jobs[c])
          /\ done'[c] = Append(done[c], m_Jobs[c])
      BY <1>1, <1>4, <2>1 DEF SendRes, TypeOK
    <3> QED BY <1>1, <3>1, PushReply
  <2>2. CASE serving[w] # c
    BY <1>1, <1>2, <1>4, <2>2 DEF SendRes, TypeOK
  <2> QED BY <2>1, <2>2
<1>5. ASSUME NEW w \in Worker, SendFailsAfterPush(w) PROVE RepliesOf(c)'
  <2>1. CASE serving[w] = c
    <3>1. /\ m_Jobs[c] # NoJob
          /\ wire'[c] = Append(wire[c], m_Jobs[c])
          /\ done'[c] = done[c] /\ m_Jobs'[c] = m_Jobs[c]
      BY <1>1, <1>5, <2>1 DEF SendFailsAfterPush, TypeOK
    <3> QED BY <1>1, <3>1, PushReply
  <2>2. CASE serving[w] # c
    BY <1>1, <1>2, <1>5, <2>2 DEF SendFailsAfterPush, TypeOK
  <2> QED BY <2>1, <2>2
<1>6. CASE UNCHANGED <<wire, done, m_Jobs>>
  BY <1>2, <1>6
<1> QED
  BY <1>3, <1>4, <1>5, <1>6 DEF Next, IOStep, WorkerStep, StoreChunk, PushJob, TakeTask, TryLock,
    NotMyTurn, ParseReq, NoRequest, GetReqMsg, RejectMsg, PopReqMsg, Succeed, ExecuteReq,
    Fail, ExecuteFails, SendFails, Interrupt, Unlock, Requeue, vars, slotVars, history

\* The replies of a client are on the wire in the order of its requests, and
\* only the request in service is there besides those answered (see ReplyOrder).
THEOREM ReplyOrderHolds == Spec => []ReplyOrder
<1>1. Init => AcceptedInOrder /\ ReplyOrder
  BY DEF Init, AcceptedInOrder, Increasing, ReplyOrder
<1>2. IInv /\ AcceptedInOrder /\ [Next]_vars => AcceptedInOrder'
  BY AcceptedInductive
<1>3. IInv /\ NothingOvertaken /\ AcceptedInOrder /\ ReplyOrder /\ [Next]_vars => ReplyOrder'
  BY ReplyInductive
<1> QED BY <1>1, <1>2, <1>3, PipelineInvariant, NothingOvertakenHolds, PTL DEF Spec
=============================================================================
