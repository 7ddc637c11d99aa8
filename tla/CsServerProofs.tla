--------------------------- MODULE CsServerProofs ---------------------------
(***************************************************************************)
(* Proofs, for any number of indices, connections and requests, of the     *)
(* safety properties of CsServer: an index is in one place, an answer goes *)
(* to the client that asked, answers are sent whole, and Close returns to  *)
(* a server whose receive loops have ended.                                *)
(***************************************************************************)
EXTENDS CsServer, TLAPS

\* AcceptLoop has a new connection and has not registered its continuation.
Registering == {"started", "client_added", "task_added"}

\* A request that is being handled is one that was received.
RequestPending ==
    \A s \in Session : loop[s] \in {"send_msg", "sending", "rejected"} => finished[s] < received[s]

\* The continuation of a session is registered by AcceptLoop, once, and runs
\* when the session's loop has completed.
ContinuationOnce ==
    /\ \A s \in Session :
         cont[s] = "none" <=> s > accepted \/ (s = accepted /\ accept \in Registering)
    /\ \A s \in Session :
         cont[s] \in {"task_removed", "client_removed", "done"} => loop[s] = "completed"
    /\ accept \in Registering => accepted \in Session /\ slot[accepted] = idx

\* The index AcceptLoop holds is not free.
HeldIsNotFree == \A i \in DOMAIN m_ClientIndexQueue : m_ClientIndexQueue[i] # idx

\* An entry of a table is a session that uses the index; a session is entered
\* in both before its continuation is registered, and stays until that runs.
TablesMatch ==
    /\ \A i \in Index : m_Clients[i] # None =>
         /\ slot[m_Clients[i]] = i
         /\ cont[m_Clients[i]] \in {"none", "registered", "task_removed"}
    /\ \A i \in Index : m_RecvTasks[i] # None =>
         slot[m_RecvTasks[i]] = i /\ cont[m_RecvTasks[i]] \in {"none", "registered"}
    /\ \A s \in Session :
         /\ cont[s] \in {"registered", "task_removed"} => m_Clients[slot[s]] = s
         /\ cont[s] = "registered" => m_RecvTasks[slot[s]] = s
    /\ accept \in {"client_added", "task_added"} => m_Clients[idx] = accepted
    /\ accept = "task_added" => m_RecvTasks[idx] = accepted

\* A loop that sends has given the kernel, or stored, one answer more than it
\* counted.
SendMatches ==
    \A s \in Session :
        /\ loop[s] = "none" => m_SendBuffer[s] = 0 /\ sent[s] = 0 /\ answered[s] = 0
        /\ loop[s] = "sending" => sent[s] + m_SendBuffer[s] = (answered[s] + 1) * AnswerSize

\* Close waits for every loop that runs.
CloseWaits ==
    /\ close \in {"await_loops", "returned"} => accept = "done"
    /\ close = "await_loops" => \A s \in Session : Live(s) => s \in awaited

IInv ==
    /\ RequestPending
    /\ ContinuationOnce
    /\ IndexInOnePlace
    /\ HeldIsNotFree
    /\ TablesMatch
    /\ AnswersComplete
    /\ SendMatches
    /\ CloseWaits
    /\ NoLoopAfterClose

-----------------------------------------------------------------------------
(* What the steps of a loop, a continuation, Close and a client leave alone. *)

\* A step of a receive loop is the loop's own, and the loop neither starts nor
\* comes back.
LEMMA LoopFrame ==
    ASSUME TypeOK, NEW s \in Session, RecvStep(s)
    PROVE  /\ UNCHANGED <<acceptVars, tables, runVars, cont, peerVars>>
           /\ \A t \in Session : t # s => loop'[t] = loop[t]
           /\ loop[s] \notin {"none", "completed"} /\ loop'[s] # "none"
BY DEF TypeOK, RecvStep, CheckRunning, Receive, ReceiveEnds, GetMsg, NoMsg, SendMsg, SendAsync,
  SendThrows, PopMsg, Release, Goto, recvVars, sendVars, vars

\* A continuation runs after its loop and touches the tables only.
LEMMA ContinuationFrame ==
    ASSUME TypeOK, ContinuationOnce, NEW s \in Session, ContinuationStep(s)
    PROVE  /\ UNCHANGED <<acceptVars, runVars, loop, recvVars, sendVars, peerVars>>
           /\ \A t \in Session : t # s => cont'[t] = cont[t]
           /\ cont[s] # "none" /\ cont'[s] # "none" /\ loop[s] = "completed"
           /\ s \in Using /\ slot[s] \in Index
<1>1. /\ UNCHANGED <<acceptVars, runVars, loop, recvVars, sendVars, peerVars>>
      /\ \A t \in Session : t # s => cont'[t] = cont[t]
      /\ cont[s] \notin {"none", "done"} /\ cont'[s] # "none" /\ loop[s] = "completed"
  BY DEF TypeOK, ContinuationOnce, ContinuationStep, RemoveTask, RemoveClient, ReturnIndex
<1>2. s <= accepted /\ slot[s] \in Index
  BY <1>1 DEF TypeOK
<1> QED BY <1>1, <1>2 DEF Using

\* Close, the closing of the listening socket and the clients' own steps.
LEMMA OutsideFrame ==
    ASSUME \/ BeginClose \/ CloseStep
           \/ \E s \in Session : Ask(s) \/ Leave(s)
    PROVE  UNCHANGED <<acceptVars, tables, loop, cont, recvVars, sendVars>>
BY DEF BeginClose, CloseStep, CloseListenSocket, AwaitAccept, AwaitLoops, Ask, Leave

\* The numbers of the sessions and of the indices are numbers.
LEMMA Numbers ==
    /\ Session \subseteq Nat /\ Index \subseteq Nat /\ None \notin Session
    /\ NoIndex \notin Index /\ NoIndex \in Nat /\ MaxSession \in Nat /\ AnswerSize \in Nat
BY CsServerAssumption DEF CsServerAssumption, Session, Index, None, NoIndex

\* Taking the head of the pool and appending to it.
LEMMA PoolFacts ==
    ASSUME NEW q \in Seq(Index)
    PROVE  /\ q # <<>> =>
                /\ Head(q) \in Index /\ Tail(q) \in Seq(Index)
                /\ 1 \in DOMAIN q /\ Head(q) = q[1]
                /\ \A j \in DOMAIN Tail(q) : j + 1 \in DOMAIN q /\ Tail(q)[j] = q[j + 1]
                /\ \A j \in DOMAIN q : j # 1 => j - 1 \in DOMAIN Tail(q) /\ Tail(q)[j - 1] = q[j]
           /\ DOMAIN q \subseteq Nat \ {0}
           /\ \A i \in Index :
                /\ Append(q, i) \in Seq(Index)
                /\ DOMAIN Append(q, i) = DOMAIN q \cup {Len(q) + 1} /\ Len(q) + 1 \notin DOMAIN q
                /\ Append(q, i)[Len(q) + 1] = i
                /\ \A j \in DOMAIN q : Append(q, i)[j] = q[j]
OBVIOUS

-----------------------------------------------------------------------------

\* The continuation is registered once and runs after the loop.
LEMMA ContinuationInductive == IInv /\ [Next]_vars => ContinuationOnce'
<1> SUFFICES ASSUME IInv, [Next]_vars PROVE ContinuationOnce'
  OBVIOUS
<1> USE DEF Registering
<1>1. TypeOK /\ ContinuationOnce
  BY DEF IInv, IndexInOnePlace
<1>2. accepted \in 0 .. MaxSession /\ MaxSession \in Nat /\ Session = 1 .. MaxSession
  BY <1>1, Numbers DEF TypeOK, Session
<1>3. CASE AcceptClient
  <2>1. /\ accepted' = accepted + 1 /\ accepted' \in Session
        /\ slot' = [slot EXCEPT ![accepted + 1] = idx]
        /\ loop' = [loop EXCEPT ![accepted + 1] = IF m_IsRun THEN "recv" ELSE "finally"]
        /\ accept' = "started" /\ accept = "accepting" /\ cont' = cont /\ idx' = idx
    BY <1>2, <1>3 DEF AcceptClient
  <2>2. cont[accepted + 1] = "none"
    BY <1>1, <1>2, <2>1 DEF ContinuationOnce
  <2>3. \A s \in Session : cont'[s] = "none" <=> s > accepted' \/ s = accepted'
    <3>1. \A s \in Session : cont[s] = "none" <=> s > accepted
      BY <1>1, <2>1 DEF ContinuationOnce
    <3> QED BY <1>2, <2>1, <3>1
  <2>4. ASSUME NEW s \in Session, cont[s] \in {"task_removed", "client_removed", "done"}
        PROVE  loop'[s] = "completed"
    <3>1. s # accepted + 1 /\ loop[s] = "completed"
      BY <1>1, <2>2, <2>4 DEF ContinuationOnce
    <3> QED BY <1>1, <2>1, <3>1 DEF TypeOK
  <2>5. slot'[accepted'] = idx'
    BY <1>1, <2>1 DEF TypeOK
  <2> QED BY <2>1, <2>3, <2>4, <2>5 DEF ContinuationOnce
<1>4. CASE RegisterContinuation
  <2>1. accepted \in Session /\ cont[accepted] = "none"
    BY <1>1, <1>4 DEF RegisterContinuation, ContinuationOnce
  <2> QED BY <1>1, <1>2, <1>4, <2>1, SMTT(30) DEF RegisterContinuation, ContinuationOnce, TypeOK
<1>5. CASE TakeIndex \/ AcceptAborted \/ AddClient \/ AddTask \/ StopAccepting \/ AcceptThrows
  BY <1>1, <1>5 DEF TakeIndex, AcceptAborted, AddClient, AddTask, StopAccepting, AcceptThrows,
    ContinuationOnce
<1>6. ASSUME NEW s \in Session, RecvStep(s) PROVE ContinuationOnce'
  BY <1>1, <1>6, LoopFrame DEF ContinuationOnce, acceptVars
<1>7. ASSUME NEW s \in Session, ContinuationStep(s) PROVE ContinuationOnce'
  BY <1>1, <1>7, ContinuationFrame DEF ContinuationOnce, acceptVars
<1>8. CASE BeginClose \/ CloseStep \/ \E s \in Session : Ask(s) \/ Leave(s)
  BY <1>1, <1>8, OutsideFrame DEF ContinuationOnce, acceptVars
<1>9. CASE UNCHANGED vars
  BY <1>1, <1>9 DEF ContinuationOnce, vars, acceptVars
<1> QED
  BY <1>3, <1>4, <1>5, <1>6, <1>7, <1>8, <1>9 DEF Next, AcceptStep

\* The requests that are handled were received.
LEMMA PendingInductive == IInv /\ [Next]_vars => RequestPending'
<1> SUFFICES ASSUME IInv, [Next]_vars PROVE RequestPending'
  OBVIOUS
<1>1. TypeOK /\ RequestPending
  BY DEF IInv, IndexInOnePlace
<1>2. CASE AcceptClient
  BY <1>1, <1>2 DEF AcceptClient, RequestPending, TypeOK, recvVars
<1>3. ASSUME NEW s \in Session, RecvStep(s) PROVE RequestPending'
  <2>1. \A t \in Session : t # s => /\ loop'[t] = loop[t]
                                    /\ finished'[t] = finished[t] /\ received'[t] = received[t]
    BY <1>1, <1>3 DEF TypeOK, RecvStep, CheckRunning, Receive, ReceiveEnds, GetMsg, NoMsg, SendMsg,
      SendAsync, SendThrows, PopMsg, Release, Goto, recvVars, sendVars, vars
  <2>2. loop'[s] \in {"send_msg", "sending", "rejected"} => finished'[s] < received'[s]
    BY <1>1, <1>3 DEF TypeOK, RequestPending, RecvStep, CheckRunning, Receive, ReceiveEnds, GetMsg,
      NoMsg, SendMsg, SendAsync, SendThrows, PopMsg, Release, Goto, recvVars, vars
  <2> QED BY <1>1, <2>1, <2>2 DEF RequestPending
<1>4. CASE \E s \in Session : ContinuationStep(s)
  BY <1>1, <1>4 DEF ContinuationStep, RemoveTask, RemoveClient, ReturnIndex, RequestPending, recvVars
<1>5. CASE BeginClose \/ CloseStep \/ \E s \in Session : Ask(s) \/ Leave(s)
  BY <1>1, <1>5, OutsideFrame DEF RequestPending, recvVars
<1>6. CASE AcceptStep \/ AcceptThrows \/ UNCHANGED vars
  BY <1>1, <1>6 DEF AcceptStep, TakeIndex, AcceptAborted, AddClient, AddTask,
    RegisterContinuation, StopAccepting, AcceptThrows, RequestPending, recvVars, vars
<1> QED BY <1>2, <1>3, <1>4, <1>5, <1>6 DEF Next

-----------------------------------------------------------------------------

\* Every index the pool gives out comes back to one place.
LEMMA IndexInductive ==
    IInv /\ TypeOK' /\ [Next]_vars => IndexInOnePlace' /\ HeldIsNotFree'
<1> SUFFICES ASSUME IInv, TypeOK', [Next]_vars PROVE IndexInOnePlace' /\ HeldIsNotFree'
  OBVIOUS
<1>1. TypeOK /\ ContinuationOnce /\ IndexInOnePlace /\ HeldIsNotFree
  BY DEF IInv, IndexInOnePlace
<1>2. /\ m_ClientIndexQueue \in Seq(Index) /\ accepted \in 0 .. MaxSession
      /\ Session = 1 .. MaxSession /\ MaxSession \in Nat
  BY <1>1, Numbers DEF TypeOK, Session
<1>3. ASSUME UNCHANGED <<acceptVars, m_ClientIndexQueue, cont>>
      PROVE  IndexInOnePlace' /\ HeldIsNotFree'
  BY <1>1, <1>3 DEF IndexInOnePlace, HeldIsNotFree, Using, acceptVars
<1>4. CASE TakeIndex
  <2> DEFINE q == m_ClientIndexQueue
  <2>1. /\ q # <<>> /\ idx' = Head(q) /\ m_ClientIndexQueue' = Tail(q)
        /\ accept = "top" /\ accept' = "accepting" /\ idx = NoIndex
        /\ UNCHANGED <<accepted, slot, lost, cont>> /\ Using' = Using
    BY <1>1, <1>4 DEF TakeIndex, TypeOK, Using
  <2>2. /\ idx' = q[1] /\ 1 \in DOMAIN q
        /\ \A j \in DOMAIN Tail(q) : j + 1 \in DOMAIN q /\ Tail(q)[j] = q[j + 1] /\ j \in Nat \ {0}
        /\ \A j \in DOMAIN q : j # 1 => j - 1 \in DOMAIN Tail(q) /\ Tail(q)[j - 1] = q[j]
    BY <1>2, <2>1, PoolFacts
  <2> HIDE DEF q
  <2>3. \A i, j \in DOMAIN q : q[i] = q[j] => i = j
    BY <1>1 DEF IndexInOnePlace, q
  <2>4. \A s \in Using : \A i \in DOMAIN q : q[i] # slot[s]
    BY <1>1 DEF IndexInOnePlace, q
  <2>5. \A i, j \in DOMAIN Tail(q) : Tail(q)[i] = Tail(q)[j] => i = j
    BY <2>2, <2>3
  <2>6. \A j \in DOMAIN Tail(q) : Tail(q)[j] # idx'
    BY <2>2, <2>3
  <2>7. \A s \in Using : slot[s] # idx' /\ \A i \in DOMAIN Tail(q) : Tail(q)[i] # slot[s]
    BY <2>2, <2>4
  <2>8. ASSUME NEW i \in Index
        PROVE  \/ i \in lost
               \/ i = idx'
               \/ \E j \in DOMAIN Tail(q) : Tail(q)[j] = i
               \/ \E s \in Using : slot[s] = i
    <3>1. \/ i \in lost \/ \E s \in Using : slot[s] = i
          \/ \E j \in DOMAIN q : q[j] = i
      BY <1>1, <2>1, Numbers DEF IndexInOnePlace, q
    <3>2. ASSUME NEW j \in DOMAIN q, q[j] = i
          PROVE  i = idx' \/ \E n \in DOMAIN Tail(q) : Tail(q)[n] = i
      BY <2>2, <3>2
    <3> QED BY <3>1, <3>2
  <2>9. \A s, t \in Using : slot[s] = slot[t] => s = t
    BY <1>1 DEF IndexInOnePlace
  <2>10. HeldIsNotFree'
    BY <2>1, <2>6 DEF HeldIsNotFree
  <2> QED BY <2>1, <2>5, <2>7, <2>8, <2>9, <2>10 DEF IndexInOnePlace
<1>5. CASE AcceptClient
  <2>1. /\ accepted' = accepted + 1 /\ accepted' \in Session
        /\ slot' = [slot EXCEPT ![accepted + 1] = idx]
        /\ accept' = "started" /\ accept = "accepting"
        /\ UNCHANGED <<cont, idx, m_ClientIndexQueue, lost>>
    BY <1>2, <1>5 DEF AcceptClient, tables
  <2>2. cont[accepted + 1] = "none"
    BY <1>1, <1>2, <2>1 DEF ContinuationOnce
  <2>3. /\ \A s \in Session : s \in Using' <=> s \in Using \/ s = accepted + 1
        /\ accepted + 1 \notin Using
        /\ \A s \in Using : s # accepted + 1 /\ slot'[s] = slot[s] /\ s \in Session
        /\ slot'[accepted + 1] = idx
    <3>1. \A s \in Session : s <= accepted' <=> s <= accepted \/ s = accepted + 1
      BY <1>2, <2>1
    <3>2. accepted + 1 \notin Using /\ ~(accepted + 1 <= accepted)
      BY <1>2 DEF Using
    <3>3. slot \in [Session -> Index \cup {NoIndex}] /\ accepted + 1 \in Session
      BY <1>1, <2>1 DEF TypeOK
    <3> QED BY <2>1, <2>2, <3>1, <3>2, <3>3 DEF Using
  <2>4. \A s \in Using : slot[s] # idx
    BY <1>1, <2>1 DEF IndexInOnePlace
  <2>5. \A s, t \in Using' : slot'[s] = slot'[t] => s = t
    <3>1. \A s, t \in Using : slot[s] = slot[t] => s = t
      BY <1>1 DEF IndexInOnePlace
    <3>2. Using' \subseteq Session
      BY DEF Using
    <3> QED BY <2>3, <2>4, <3>1, <3>2
  <2>6. \A s \in Using' : \A i \in DOMAIN m_ClientIndexQueue : m_ClientIndexQueue[i] # slot'[s]
    <3>1. Using' \subseteq Session
      BY DEF Using
    <3> QED BY <1>1, <2>3, <3>1 DEF IndexInOnePlace, HeldIsNotFree
  <2>7. \A s \in Using' : slot'[s] = idx' => s = accepted' /\ accept' # "accepting"
    <3>1. Using' \subseteq Session
      BY DEF Using
    <3> QED BY <2>1, <2>3, <2>4, <3>1
  <2>8. \A s \in Using : s \in Using' /\ slot'[s] = slot[s]
    BY <2>3
  <2>9. ASSUME NEW i \in Index
        PROVE  \/ i \in lost'
               \/ i = idx'
               \/ \E j \in DOMAIN m_ClientIndexQueue' : m_ClientIndexQueue'[j] = i
               \/ \E s \in Using' : slot'[s] = i
    BY <1>1, <2>1, <2>8 DEF IndexInOnePlace
  <2> QED BY <1>1, <2>1, <2>5, <2>6, <2>7, <2>9 DEF IndexInOnePlace, HeldIsNotFree
<1>6. CASE AcceptThrows \/ AcceptAborted
  <2>1. /\ lost' = lost \cup {idx} /\ idx' = NoIndex /\ idx \in Index
        /\ accept' \in {"top", "done"} /\ Using' = Using
        /\ UNCHANGED <<accepted, slot, m_ClientIndexQueue>>
    BY <1>1, <1>6 DEF AcceptThrows, AcceptAborted, TypeOK, Using, tables
  <2>2. \A j \in DOMAIN m_ClientIndexQueue : m_ClientIndexQueue[j] \in Index
    BY <1>2
  <2>3. \A s \in Using : slot[s] \in Index
    BY <1>1 DEF TypeOK, Using
  <2> QED BY <1>1, <2>1, <2>2, <2>3, Numbers DEF IndexInOnePlace, HeldIsNotFree
<1>7. CASE AddClient \/ AddTask \/ StopAccepting
  <2>1. /\ accept # "accepting" /\ accept' # "accepting" /\ Using' = Using
        /\ UNCHANGED <<idx, accepted, slot, lost, m_ClientIndexQueue>>
    BY <1>7 DEF AddClient, AddTask, StopAccepting, Using, tables
  <2> QED BY <1>1, <2>1 DEF IndexInOnePlace, HeldIsNotFree
<1>8. CASE RegisterContinuation
  <2>1. /\ slot[accepted] = idx /\ accepted \in Session /\ cont[accepted] = "none"
        /\ idx' = NoIndex /\ accept' = "top"
        /\ cont' = [cont EXCEPT ![accepted] = "registered"]
        /\ UNCHANGED <<accepted, slot, lost, m_ClientIndexQueue>>
    BY <1>1, <1>8 DEF RegisterContinuation, ContinuationOnce, Registering, tables
  <2>2. Using' = Using /\ accepted \in Using
    BY <1>1, <1>2, <2>1, SMTT(30) DEF Using, TypeOK
  <2>3. \A j \in DOMAIN m_ClientIndexQueue : m_ClientIndexQueue[j] \in Index
    BY <1>2
  <2>4. \A s \in Using : slot[s] \in Index
    BY <1>1 DEF TypeOK, Using
  <2> QED BY <1>1, <2>1, <2>2, <2>3, <2>4, Numbers DEF IndexInOnePlace, HeldIsNotFree
<1>9. ASSUME NEW s \in Session, RecvStep(s) PROVE IndexInOnePlace' /\ HeldIsNotFree'
  <2>1. UNCHANGED <<acceptVars, tables, cont>>
    BY <1>1, <1>9, LoopFrame
  <2> QED BY <1>3, <2>1 DEF tables
<1>10. ASSUME NEW s \in Session, RemoveTask(s) \/ RemoveClient(s)
       PROVE  IndexInOnePlace' /\ HeldIsNotFree'
  <2>1. UNCHANGED <<acceptVars, m_ClientIndexQueue>> /\ Using' = Using
    <3>1. /\ UNCHANGED <<acceptVars, m_ClientIndexQueue>> /\ cont[s] # "done"
          /\ \E step \in {"task_removed", "client_removed"} : cont' = [cont EXCEPT ![s] = step]
      BY <1>10 DEF RemoveTask, RemoveClient
    <3>2. \A t \in Session : cont'[t] = "done" <=> cont[t] = "done"
      BY <1>1, <3>1 DEF TypeOK
    <3> QED BY <3>1, <3>2 DEF Using, acceptVars
  <2> QED BY <1>1, <2>1 DEF IndexInOnePlace, HeldIsNotFree, acceptVars
<1>11. ASSUME NEW s \in Session, ReturnIndex(s) PROVE IndexInOnePlace' /\ HeldIsNotFree'
  <2> DEFINE q == m_ClientIndexQueue
  <2>1. /\ UNCHANGED <<accept, idx, accepted, slot, lost>> /\ s \in Using /\ slot[s] \in Index
        /\ cont[s] = "client_removed" /\ cont' = [cont EXCEPT ![s] = "done"]
        /\ m_ClientIndexQueue' = Append(q, slot[s])
    BY <1>1, <1>11, ContinuationFrame DEF ReturnIndex, ContinuationStep, acceptVars
  <2>2. /\ DOMAIN Append(q, slot[s]) = DOMAIN q \cup {Len(q) + 1} /\ Len(q) + 1 \notin DOMAIN q
        /\ Append(q, slot[s])[Len(q) + 1] = slot[s]
        /\ \A j \in DOMAIN q : Append(q, slot[s])[j] = q[j]
    BY <1>2, <2>1, PoolFacts
  <2> HIDE DEF q
  <2>3. PICK p : p = Append(q, slot[s])
    OBVIOUS
  <2>4. Using' = Using \ {s}
    BY <1>1, <2>1 DEF Using, TypeOK
  <2>5. /\ \A i, j \in DOMAIN q : q[i] = q[j] => i = j
        /\ \A t, u \in Using : slot[t] = slot[u] => t = u
        /\ \A t \in Using : \A i \in DOMAIN q : q[i] # slot[t]
        /\ \A t \in Using : slot[t] = idx => t = accepted /\ accept # "accepting"
        /\ \A i \in DOMAIN q : q[i] # idx
    BY <1>1 DEF IndexInOnePlace, HeldIsNotFree, q
  <2>6. \A i, j \in DOMAIN p : p[i] = p[j] => i = j
    BY <2>1, <2>2, <2>3, <2>5
  <2>7. \A t \in Using' : \A i \in DOMAIN p : p[i] # slot[t]
    BY <2>1, <2>2, <2>3, <2>4, <2>5
  <2>8. slot[s] # idx
    <3>1. SUFFICES ASSUME slot[s] = idx PROVE FALSE
      OBVIOUS
    <3>2. s = accepted /\ accept \in Registering
      BY <1>1, <2>1, <2>5, <3>1, Numbers DEF TypeOK, Registering
    <3> QED BY <1>1, <2>1, <3>2 DEF ContinuationOnce
  <2>9. \A i \in DOMAIN p : p[i] # idx
    BY <2>2, <2>3, <2>5, <2>8
  <2>10. ASSUME NEW i \in Index
         PROVE  \/ i \in lost
                \/ i = idx
                \/ \E j \in DOMAIN p : p[j] = i
                \/ \E t \in Using' : slot[t] = i
    <3>1. \/ i \in lost \/ i = idx
          \/ \E j \in DOMAIN q : q[j] = i
          \/ \E t \in Using : slot[t] = i
      BY <1>1 DEF IndexInOnePlace, q
    <3>2. ASSUME NEW t \in Using, slot[t] = i
          PROVE  (\E j \in DOMAIN p : p[j] = i) \/ \E u \in Using' : slot[u] = i
      BY <2>2, <2>3, <2>4, <3>2
    <3>3. ASSUME NEW j \in DOMAIN q, q[j] = i PROVE \E n \in DOMAIN p : p[n] = i
      BY <2>2, <2>3, <3>3
    <3> QED BY <3>1, <3>2, <3>3
  <2>11. m_ClientIndexQueue' = p
    BY <2>1, <2>3
  <2>12. HeldIsNotFree'
    BY <2>1, <2>9, <2>11 DEF HeldIsNotFree
  <2> QED BY <2>1, <2>4, <2>5, <2>6, <2>7, <2>10, <2>11, <2>12 DEF IndexInOnePlace
<1>12. CASE BeginClose \/ CloseStep \/ \E s \in Session : Ask(s) \/ Leave(s)
  <2>1. UNCHANGED <<acceptVars, tables, cont>>
    BY <1>12, OutsideFrame
  <2> QED BY <1>3, <2>1 DEF tables
<1>13. CASE UNCHANGED vars
  BY <1>3, <1>13 DEF vars, tables
<1> QED
  BY <1>4, <1>5, <1>6, <1>7, <1>8, <1>9, <1>10, <1>11, <1>12, <1>13
     DEF Next, AcceptStep, ContinuationStep

-----------------------------------------------------------------------------

\* Whoever is entered in a table uses the index, and so does the session that
\* AcceptLoop is registering.
LEMMA EntryIsUsing ==
    ASSUME IInv
    PROVE  /\ \A i \in Index : m_Clients[i] # None => m_Clients[i] \in Using
           /\ \A i \in Index : m_RecvTasks[i] # None => m_RecvTasks[i] \in Using
           /\ \A s \in Session : cont[s] \in {"registered", "task_removed", "client_removed"} =>
                s \in Using /\ slot[s] \in Index
           /\ accept \in Registering =>
                accepted \in Using /\ slot[accepted] = idx /\ idx \in Index /\ cont[accepted] = "none"
           /\ \A s, t \in Using : slot[s] = slot[t] => s = t
           /\ Using \subseteq Session
<1>1. TypeOK /\ ContinuationOnce /\ IndexInOnePlace /\ TablesMatch
  BY DEF IInv, IndexInOnePlace
<1>2. \A s \in Session : slot[s] \in Index => s <= accepted
  BY <1>1, Numbers DEF TypeOK
<1>3. \A i \in Index : m_Clients[i] # None => m_Clients[i] \in Using
  <2>1. \A i \in Index : m_Clients[i] # None =>
          m_Clients[i] \in Session /\ slot[m_Clients[i]] = i /\ cont[m_Clients[i]] # "done"
    <3>1. \A i \in Index : m_Clients[i] \in Session \cup {None}
      BY <1>1 DEF TypeOK
    <3>2. \A i \in Index : m_Clients[i] # None =>
            slot[m_Clients[i]] = i /\ cont[m_Clients[i]] \in {"none", "registered", "task_removed"}
      BY <1>1 DEF TablesMatch
    <3> QED BY <3>1, <3>2
  <2> QED BY <1>2, <2>1 DEF Using
<1>4. \A i \in Index : m_RecvTasks[i] # None => m_RecvTasks[i] \in Using
  <2>1. \A i \in Index : m_RecvTasks[i] # None =>
          m_RecvTasks[i] \in Session /\ slot[m_RecvTasks[i]] = i /\ cont[m_RecvTasks[i]] # "done"
    <3>1. \A i \in Index : m_RecvTasks[i] \in Session \cup {None}
      BY <1>1 DEF TypeOK
    <3>2. \A i \in Index : m_RecvTasks[i] # None =>
            slot[m_RecvTasks[i]] = i /\ cont[m_RecvTasks[i]] \in {"none", "registered"}
      BY <1>1 DEF TablesMatch
    <3> QED BY <3>1, <3>2
  <2> QED BY <1>2, <2>1 DEF Using
<1>5. ASSUME NEW s \in Session, cont[s] \in {"registered", "task_removed", "client_removed"}
      PROVE  s \in Using /\ slot[s] \in Index
  <2>1. ~(s > accepted) /\ s \in Nat /\ accepted \in Nat
    BY <1>1, <1>5, Numbers DEF ContinuationOnce, TypeOK
  <2> QED BY <1>1, <1>5, <2>1 DEF Using, TypeOK
<1>6. ASSUME accept \in Registering
      PROVE  accepted \in Using /\ slot[accepted] = idx /\ idx \in Index /\ cont[accepted] = "none"
  <2>1. accepted \in Session /\ slot[accepted] = idx /\ cont[accepted] = "none"
    BY <1>1, <1>6 DEF ContinuationOnce
  <2>2. idx \in Index
    BY <1>1, <1>6 DEF TypeOK, Registering
  <2> QED BY <1>2, <2>1, <2>2 DEF Using
<1> QED BY <1>1, <1>3, <1>4, <1>5, <1>6 DEF IndexInOnePlace, Using

\* TryAdd never meets an entry of another session, and the continuation removes
\* its own.
LEMMA TablesInductive == IInv /\ [Next]_vars => TablesMatch'
<1> SUFFICES ASSUME IInv, [Next]_vars PROVE TablesMatch'
  OBVIOUS
<1>1. TypeOK /\ ContinuationOnce /\ TablesMatch
  BY DEF IInv, IndexInOnePlace
<1>2. /\ m_Clients \in [Index -> Session \cup {None}]
      /\ m_RecvTasks \in [Index -> Session \cup {None}]
      /\ slot \in [Session -> Index \cup {NoIndex}]
      /\ cont \in [Session -> {"none", "registered", "task_removed", "client_removed", "done"}]
      /\ NoIndex \notin Index /\ None \notin Session
  BY <1>1, Numbers DEF TypeOK
<1>3. ASSUME UNCHANGED <<m_Clients, m_RecvTasks, slot, cont>>,
             accept' \in Registering => accept' = accept /\ idx' = idx /\ accepted' = accepted
      PROVE  TablesMatch'
  BY <1>1, <1>3 DEF TablesMatch, Registering
<1>4. CASE AcceptClient
  <2>1. /\ accepted + 1 \in Session /\ slot[accepted + 1] = NoIndex
        /\ cont[accepted + 1] = "none"
    <3>1. accepted \in 0 .. MaxSession /\ MaxSession \in Nat /\ accepted < MaxSession
      BY <1>1, <1>4, Numbers DEF TypeOK, AcceptClient
    <3>2. accepted + 1 \in Session /\ accepted + 1 > accepted
      BY <3>1 DEF Session
    <3> QED BY <1>1, <3>1, <3>2 DEF TypeOK, ContinuationOnce
  <2>2. /\ \A s \in Session : slot[s] \in Index => slot'[s] = slot[s] /\ s # accepted + 1
        /\ UNCHANGED <<m_Clients, m_RecvTasks, cont>> /\ accept' = "started"
        /\ \A s \in Session : s # accepted + 1 => slot'[s] = slot[s]
    BY <1>2, <1>4, <2>1 DEF AcceptClient, tables
  <2>3. \A i \in Index : m_Clients[i] # None => slot'[m_Clients[i]] = i
    BY <1>1, <1>2, <2>2 DEF TablesMatch
  <2>4. \A i \in Index : m_RecvTasks[i] # None => slot'[m_RecvTasks[i]] = i
    BY <1>1, <1>2, <2>2 DEF TablesMatch
  <2> QED BY <1>1, <1>2, <2>1, <2>2, <2>3, <2>4 DEF TablesMatch
<1>5. CASE TakeIndex \/ AcceptThrows \/ AcceptAborted \/ StopAccepting
  <2>1. UNCHANGED <<m_Clients, m_RecvTasks, slot, cont>> /\ accept' \notin Registering
    BY <1>5 DEF TakeIndex, AcceptThrows, AcceptAborted, StopAccepting, Registering, tables
  <2> QED BY <1>3, <2>1
<1>6. CASE AddClient
  <2>1. /\ accept = "started" /\ accept' = "client_added"
        /\ m_Clients' = [m_Clients EXCEPT ![idx] = IF @ = None THEN accepted ELSE @]
        /\ UNCHANGED <<idx, accepted, m_RecvTasks, slot, cont>>
    BY <1>6 DEF AddClient
  <2>2. /\ accepted \in Using /\ slot[accepted] = idx /\ idx \in Index /\ cont[accepted] = "none"
        /\ accepted \in Session
    BY <2>1, EntryIsUsing DEF Registering, Using
  <2>3. m_Clients[idx] # None => m_Clients[idx] = accepted
    BY <1>1, <2>2, EntryIsUsing DEF TablesMatch
  <2>4. /\ m_Clients'[idx] = accepted
        /\ \A i \in Index : i # idx => m_Clients'[i] = m_Clients[i]
    BY <1>2, <2>1, <2>2, <2>3
  <2>5. \A s \in Session : cont[s] \in {"registered", "task_removed"} => slot[s] # idx /\ slot[s] \in Index
    BY <2>2, EntryIsUsing
  <2>6. \A s \in Session : cont[s] \in {"registered", "task_removed"} => m_Clients'[slot[s]] = s
    BY <1>1, <2>4, <2>5 DEF TablesMatch
  <2> QED BY <1>1, <2>1, <2>2, <2>4, <2>6 DEF TablesMatch
<1>7. CASE AddTask
  <2>1. /\ accept = "client_added" /\ accept' = "task_added"
        /\ m_RecvTasks' = [m_RecvTasks EXCEPT ![idx] = IF @ = None THEN accepted ELSE @]
        /\ UNCHANGED <<idx, accepted, m_Clients, slot, cont>>
    BY <1>7 DEF AddTask
  <2>2. /\ accepted \in Using /\ slot[accepted] = idx /\ idx \in Index /\ cont[accepted] = "none"
        /\ accepted \in Session
    BY <2>1, EntryIsUsing DEF Registering, Using
  <2>3. m_RecvTasks[idx] # None => m_RecvTasks[idx] = accepted
    BY <1>1, <2>2, EntryIsUsing DEF TablesMatch
  <2>4. /\ m_RecvTasks'[idx] = accepted
        /\ \A i \in Index : i # idx => m_RecvTasks'[i] = m_RecvTasks[i]
    BY <1>2, <2>1, <2>2, <2>3
  <2>5. \A s \in Session : cont[s] = "registered" => slot[s] # idx /\ slot[s] \in Index
    BY <2>2, EntryIsUsing
  <2>6. \A s \in Session : cont[s] = "registered" => m_RecvTasks'[slot[s]] = s
    BY <1>1, <2>4, <2>5 DEF TablesMatch
  <2> QED BY <1>1, <2>1, <2>2, <2>4, <2>6 DEF TablesMatch
<1>8. CASE RegisterContinuation
  <2>1. /\ accept = "task_added" /\ accept' = "top"
        /\ cont' = [cont EXCEPT ![accepted] = "registered"]
        /\ UNCHANGED <<m_Clients, m_RecvTasks, slot>>
    BY <1>8 DEF RegisterContinuation, tables
  <2>2. slot[accepted] = idx /\ accepted \in Session /\ cont[accepted] = "none"
    BY <2>1, EntryIsUsing DEF Registering, Using
  <2>3. m_Clients[idx] = accepted /\ m_RecvTasks[idx] = accepted
    BY <1>1, <2>1 DEF TablesMatch
  <2>4. cont'[accepted] = "registered" /\ \A s \in Session : s # accepted => cont'[s] = cont[s]
    BY <1>2, <2>1, <2>2
  <2>5. \A i \in Index : m_Clients[i] # None =>
           cont'[m_Clients[i]] \in {"none", "registered", "task_removed"}
    BY <1>1, <1>2, <2>4 DEF TablesMatch
  <2>6. \A i \in Index : m_RecvTasks[i] # None => cont'[m_RecvTasks[i]] \in {"none", "registered"}
    BY <1>1, <1>2, <2>4 DEF TablesMatch
  <2>7. \A s \in Session :
          /\ cont'[s] \in {"registered", "task_removed"} => m_Clients[slot[s]] = s
          /\ cont'[s] = "registered" => m_RecvTasks[slot[s]] = s
    BY <1>1, <2>2, <2>3, <2>4 DEF TablesMatch
  <2> QED BY <1>1, <2>1, <2>5, <2>6, <2>7 DEF TablesMatch
<1>9. ASSUME NEW s \in Session, ContinuationStep(s) PROVE TablesMatch'
  <2>1. /\ UNCHANGED <<accept, idx, accepted, slot>> /\ s \in Using /\ slot[s] \in Index
        /\ cont[s] # "none"
        /\ \A t \in Session : t # s => cont'[t] = cont[t]
    BY <1>1, <1>9, ContinuationFrame DEF acceptVars
  <2>2. accept \in Registering => slot[s] # idx
    BY <2>1, EntryIsUsing
  <2>3. \A t \in Session : cont[t] \in {"registered", "task_removed"} /\ t # s =>
           slot[t] # slot[s] /\ slot[t] \in Index
    BY <2>1, EntryIsUsing
  <2>4. CASE RemoveTask(s)
    <3>1. /\ cont[s] = "registered" /\ cont'[s] = "task_removed" /\ m_Clients' = m_Clients
          /\ m_RecvTasks'[slot[s]] = None
          /\ \A i \in Index : i # slot[s] => m_RecvTasks'[i] = m_RecvTasks[i]
      BY <1>2, <2>1, <2>4 DEF RemoveTask
    <3>2. \A i \in Index : m_Clients[i] # None =>
             cont'[m_Clients[i]] \in {"none", "registered", "task_removed"}
      BY <1>1, <1>2, <2>1, <3>1 DEF TablesMatch
    <3>3. \A i \in Index : m_RecvTasks'[i] # None =>
             slot[m_RecvTasks'[i]] = i /\ cont'[m_RecvTasks'[i]] \in {"none", "registered"}
      BY <1>1, <1>2, <2>1, <3>1 DEF TablesMatch
    <3>4. \A t \in Session :
            /\ cont'[t] \in {"registered", "task_removed"} => m_Clients[slot[t]] = t
            /\ cont'[t] = "registered" => m_RecvTasks'[slot[t]] = t
      BY <1>1, <2>1, <2>3, <3>1 DEF TablesMatch
    <3>5. accept = "task_added" => m_RecvTasks'[idx] = accepted
      BY <1>1, <2>2, <3>1, EntryIsUsing DEF TablesMatch, Registering
    <3> QED BY <1>1, <2>1, <3>1, <3>2, <3>3, <3>4, <3>5 DEF TablesMatch
  <2>5. CASE RemoveClient(s)
    <3>1. /\ cont[s] = "task_removed" /\ cont'[s] = "client_removed" /\ m_RecvTasks' = m_RecvTasks
          /\ m_Clients'[slot[s]] = None
          /\ \A i \in Index : i # slot[s] => m_Clients'[i] = m_Clients[i]
      BY <1>2, <2>1, <2>5 DEF RemoveClient
    <3>2. \A i \in Index : m_Clients'[i] # None =>
             /\ slot[m_Clients'[i]] = i
             /\ cont'[m_Clients'[i]] \in {"none", "registered", "task_removed"}
      BY <1>1, <1>2, <2>1, <3>1 DEF TablesMatch
    <3>3. \A i \in Index : m_RecvTasks[i] # None =>
             cont'[m_RecvTasks[i]] \in {"none", "registered"}
      BY <1>1, <1>2, <2>1, <3>1 DEF TablesMatch
    <3>4. \A t \in Session :
            /\ cont'[t] \in {"registered", "task_removed"} => m_Clients'[slot[t]] = t
            /\ cont'[t] = "registered" => m_RecvTasks[slot[t]] = t
      BY <1>1, <2>1, <2>3, <3>1 DEF TablesMatch
    <3>5. accept \in {"client_added", "task_added"} => m_Clients'[idx] = accepted
      BY <1>1, <2>2, <3>1, EntryIsUsing DEF TablesMatch, Registering
    <3> QED BY <1>1, <2>1, <3>1, <3>2, <3>3, <3>4, <3>5 DEF TablesMatch
  <2>6. CASE ReturnIndex(s)
    <3>1. /\ cont[s] = "client_removed" /\ cont'[s] = "done"
          /\ UNCHANGED <<m_Clients, m_RecvTasks>>
      BY <1>2, <2>6 DEF ReturnIndex
    <3>2. \A i \in Index : m_Clients[i] # s /\ m_RecvTasks[i] # s
      BY <1>1, <1>2, <3>1 DEF TablesMatch
    <3>3. \A i \in Index : m_Clients[i] # None => cont'[m_Clients[i]] = cont[m_Clients[i]]
      BY <1>2, <2>1, <3>2
    <3>4. \A i \in Index : m_RecvTasks[i] # None => cont'[m_RecvTasks[i]] = cont[m_RecvTasks[i]]
      BY <1>2, <2>1, <3>2
    <3> QED BY <1>1, <2>1, <3>1, <3>3, <3>4 DEF TablesMatch
  <2> QED BY <1>9, <2>4, <2>5, <2>6 DEF ContinuationStep
<1>10. ASSUME NEW s \in Session, RecvStep(s) PROVE TablesMatch'
  BY <1>1, <1>3, <1>10, LoopFrame DEF acceptVars, tables
<1>11. CASE BeginClose \/ CloseStep \/ \E s \in Session : Ask(s) \/ Leave(s)
  BY <1>3, <1>11, OutsideFrame DEF acceptVars, tables
<1>12. CASE UNCHANGED vars
  BY <1>3, <1>12 DEF vars, acceptVars, tables
<1> QED
  BY <1>4, <1>5, <1>6, <1>7, <1>8, <1>9, <1>10, <1>11, <1>12 DEF Next, AcceptStep

\* So an answer is stored in the buffer of the client that asked.
LEMMA RegisteredIsSelf == IInv => RegisteredAsItself
<1> SUFFICES ASSUME IInv, NEW s \in Session, Live(s)
             PROVE  /\ m_Clients[slot[s]] \in {None, s}
                    /\ m_RecvTasks[slot[s]] \in {None, s}
                    /\ s # accepted \/ accept \in {"top", "accepting", "done"} =>
                         m_Clients[slot[s]] = s /\ m_RecvTasks[slot[s]] = s
  BY DEF RegisteredAsItself
<1>1. TypeOK /\ ContinuationOnce /\ TablesMatch
  BY DEF IInv, IndexInOnePlace
<1>2. cont[s] \in {"none", "registered"} /\ s <= accepted /\ slot[s] \in Index
  BY <1>1 DEF Live, TypeOK, ContinuationOnce
<1>3. s \in Using
  BY <1>2 DEF Using
<1>4. m_Clients[slot[s]] \in {None, s} /\ m_RecvTasks[slot[s]] \in {None, s}
  BY <1>1, <1>2, <1>3, EntryIsUsing DEF TablesMatch
<1>5. ASSUME s # accepted \/ accept \in {"top", "accepting", "done"}
      PROVE  m_Clients[slot[s]] = s /\ m_RecvTasks[slot[s]] = s
  <2>1. ~(s > accepted) /\ ~(s = accepted /\ accept \in Registering)
    BY <1>1, <1>2, <1>5, Numbers DEF Registering, TypeOK
  <2>2. cont[s] = "registered"
    BY <1>1, <1>2, <2>1 DEF ContinuationOnce
  <2> QED BY <1>1, <2>2 DEF TablesMatch
<1> QED BY <1>4, <1>5

-----------------------------------------------------------------------------

\* One answer more, in the units of the send buffer.
LEMMA OneAnswerMore ==
    ASSUME NEW n \in Nat, NEW size \in Nat
    PROVE  (n + 1) * size = n * size + size /\ n * size \in Nat
OBVIOUS

\* A loop stores its answer in its own buffer and leaves it empty.
LEMMA SendInductive == IInv /\ [Next]_vars => AnswersComplete' /\ SendMatches'
<1> SUFFICES ASSUME IInv, [Next]_vars PROVE AnswersComplete' /\ SendMatches'
  OBVIOUS
<1> DEFINE Between(l) == l \in {"check", "recv", "get_msg", "send_msg", "rejected"}
           Complete(s) == m_SendBuffer[s] = 0 /\ sent[s] = answered[s] * AnswerSize
<1>1. TypeOK /\ AnswersComplete /\ SendMatches
  BY DEF IInv, IndexInOnePlace
<1>2. /\ loop \in [Session -> {"none", "check", "recv", "get_msg", "send_msg", "rejected", "sending",
                               "finally", "completed"}]
      /\ m_SendBuffer \in [Session -> Nat] /\ sent \in [Session -> Nat]
      /\ answered \in [Session -> Nat] /\ AnswerSize \in Nat
  BY <1>1, Numbers DEF TypeOK
<1>3. ASSUME UNCHANGED <<m_SendBuffer, sent, answered>>,
             \A s \in Session : \/ loop'[s] = loop[s]
                                \/ loop'[s] \in {"finally", "completed"}
                                \/ Between(loop[s]) /\ Between(loop'[s])
                                \/ loop[s] = "none" /\ Between(loop'[s])
      PROVE  AnswersComplete' /\ SendMatches'
  <2>1. ASSUME NEW s \in Session, loop[s] = "none" PROVE Complete(s)
    BY <1>1, <1>2, <2>1 DEF SendMatches
  <2>2. \A s \in Session : Between(loop[s]) => Complete(s)
    BY <1>1 DEF AnswersComplete
  <2>3. AnswersComplete'
    BY <1>3, <2>1, <2>2 DEF AnswersComplete
  <2>4. SendMatches'
    BY <1>1, <1>3 DEF SendMatches
  <2> QED BY <2>3, <2>4
<1>4. CASE AcceptClient
  <2>1. accepted + 1 \in Session /\ loop[accepted + 1] = "none"
    <3>1. accepted \in 0 .. MaxSession /\ MaxSession \in Nat /\ accepted < MaxSession
      BY <1>1, <1>4, Numbers DEF TypeOK, AcceptClient
    <3>2. accepted + 1 \in Session /\ ~(accepted + 1 <= accepted)
      BY <3>1 DEF Session
    <3> QED BY <1>1, <3>2 DEF TypeOK
  <2> QED BY <1>2, <1>3, <1>4, <2>1 DEF AcceptClient, recvVars, sendVars
<1>5. ASSUME NEW s \in Session, RecvStep(s) PROVE AnswersComplete' /\ SendMatches'
  <2>1. \A t \in Session : t # s => loop'[t] = loop[t]
    BY <1>1, <1>5, LoopFrame
  <2>2. CASE CheckRunning(s) \/ Receive(s) \/ ReceiveEnds(s) \/ GetMsg(s) \/ NoMsg(s) \/ Release(s)
             \/ SendThrows(s)
    <3>1. UNCHANGED <<m_SendBuffer, sent, answered>>
      BY <2>2 DEF CheckRunning, Receive, ReceiveEnds, GetMsg, NoMsg, Release, SendThrows,
        recvVars, sendVars, vars
    <3>2. \/ loop'[s] = loop[s] \/ loop'[s] \in {"finally", "completed"}
          \/ Between(loop[s]) /\ Between(loop'[s])
      BY <1>2, <2>2 DEF CheckRunning, Receive, ReceiveEnds, GetMsg, NoMsg, Release, SendThrows,
        Goto, vars
    <3> QED BY <1>3, <2>1, <3>1, <3>2
  \* For the steps that touch the buffer: nothing of the others changes.
  <2>3. ASSUME \A t \in Session : t # s => /\ m_SendBuffer'[t] = m_SendBuffer[t]
                                           /\ sent'[t] = sent[t] /\ answered'[t] = answered[t],
               Between(loop'[s]) => Complete(s)',
               loop'[s] = "sending" =>
                   sent'[s] + m_SendBuffer'[s] = (answered'[s] + 1) * AnswerSize,
               loop'[s] # "none"
        PROVE  AnswersComplete' /\ SendMatches'
    <3>1. ASSUME NEW t \in Session, t # s
          PROVE  /\ Between(loop'[t]) => Complete(t)'
                 /\ loop'[t] = "none" =>
                      m_SendBuffer'[t] = 0 /\ sent'[t] = 0 /\ answered'[t] = 0
                 /\ loop'[t] = "sending" =>
                      sent'[t] + m_SendBuffer'[t] = (answered'[t] + 1) * AnswerSize
      BY <1>1, <2>1, <2>3, <3>1 DEF AnswersComplete, SendMatches
    <3>2. \A t \in Session : Between(loop'[t]) => Complete(t)'
      BY <2>3, <3>1
    <3> QED BY <2>3, <3>1, <3>2 DEF AnswersComplete, SendMatches
  <2>4. CASE SendMsg(s)
    <3>1. /\ loop[s] = "send_msg" /\ loop'[s] = "sending" /\ m_Clients[slot[s]] # None
          /\ m_SendBuffer' = [m_SendBuffer EXCEPT ![m_Clients[slot[s]]] = @ + AnswerSize]
          /\ UNCHANGED <<sent, answered>>
      BY <1>2, <2>4 DEF SendMsg, Goto, recvVars
    <3>2. m_Clients[slot[s]] = s
      BY <3>1, RegisteredIsSelf DEF RegisteredAsItself, Live
    <3>3. m_SendBuffer[s] = 0 /\ sent[s] = answered[s] * AnswerSize
      BY <1>1, <3>1 DEF AnswersComplete
    <3>4. m_SendBuffer'[s] = AnswerSize
          /\ \A t \in Session : t # s => m_SendBuffer'[t] = m_SendBuffer[t]
      BY <1>2, <3>1, <3>2, <3>3
    <3>5. (answered[s] + 1) * AnswerSize = answered[s] * AnswerSize + AnswerSize
      BY <1>2, OneAnswerMore
    <3> QED BY <2>3, <3>1, <3>3, <3>4, <3>5
  <2>5. CASE SendAsync(s)
    <3>1. /\ loop[s] = "sending" /\ loop' = loop /\ answered' = answered
          /\ \E n \in 1 .. m_SendBuffer[s] :
               /\ sent' = [sent EXCEPT ![s] = @ + n]
               /\ m_SendBuffer' = [m_SendBuffer EXCEPT ![s] = @ - n]
      BY <2>5 DEF SendAsync, recvVars
    <3>2. sent[s] + m_SendBuffer[s] = (answered[s] + 1) * AnswerSize
      BY <1>1, <3>1 DEF SendMatches
    <3>3. sent'[s] + m_SendBuffer'[s] = sent[s] + m_SendBuffer[s]
          /\ \A t \in Session : t # s => m_SendBuffer'[t] = m_SendBuffer[t] /\ sent'[t] = sent[t]
      BY <1>2, <3>1
    <3> QED BY <2>3, <3>1, <3>2, <3>3
  <2>6. CASE PopMsg(s)
    <3>1. loop'[s] = "get_msg" /\ UNCHANGED <<m_SendBuffer, sent>>
      BY <1>2, <2>6 DEF PopMsg, Goto, sendVars
    <3>2. CASE loop[s] = "rejected"
      <4>1. answered' = answered
        BY <2>6, <3>2 DEF PopMsg, Goto
      <4> QED BY <1>3, <2>1, <3>1, <3>2, <4>1
    <3>3. CASE loop[s] # "rejected"
      <4>1. /\ loop[s] = "sending" /\ m_SendBuffer[s] = 0
            /\ answered' = [answered EXCEPT ![s] = @ + 1]
        BY <2>6, <3>3 DEF PopMsg, Goto
      <4>2. sent[s] + m_SendBuffer[s] = (answered[s] + 1) * AnswerSize
        BY <1>1, <4>1 DEF SendMatches
      <4>3. answered'[s] = answered[s] + 1
            /\ \A t \in Session : t # s => answered'[t] = answered[t]
        BY <1>2, <4>1
      <4>4. sent[s] = answered'[s] * AnswerSize
        BY <1>2, <4>1, <4>2, <4>3
      <4> QED BY <2>3, <3>1, <4>1, <4>3, <4>4
    <3> QED BY <3>2, <3>3
  <2> QED BY <1>5, <2>2, <2>4, <2>5, <2>6 DEF RecvStep
<1>6. CASE \E s \in Session : ContinuationStep(s)
  BY <1>3, <1>6 DEF ContinuationStep, RemoveTask, RemoveClient, ReturnIndex, recvVars, sendVars
<1>7. CASE BeginClose \/ CloseStep \/ \E s \in Session : Ask(s) \/ Leave(s)
  BY <1>3, <1>7, OutsideFrame DEF recvVars, sendVars
<1>8. CASE AcceptStep \/ AcceptThrows \/ UNCHANGED vars
  BY <1>3, <1>8 DEF AcceptStep, TakeIndex, AcceptAborted, AddClient, AddTask,
    RegisterContinuation, StopAccepting, AcceptThrows, recvVars, sendVars, vars
<1> QED BY <1>4, <1>5, <1>6, <1>7, <1>8 DEF Next

\* Close counts the receive loops once AcceptLoop has ended and can add none.
LEMMA CloseInductive == IInv /\ [Next]_vars => CloseWaits' /\ NoLoopAfterClose'
<1> SUFFICES ASSUME IInv, [Next]_vars PROVE CloseWaits' /\ NoLoopAfterClose'
  OBVIOUS
<1> USE DEF Live
<1>1. TypeOK /\ ContinuationOnce /\ TablesMatch /\ CloseWaits /\ NoLoopAfterClose
  BY DEF IInv, IndexInOnePlace
<1>2. ASSUME UNCHANGED <<close, awaited>>, accept = "done" => accept' = "done",
             accept = "done" => \A s \in Session : Live(s)' => Live(s)
      PROVE  CloseWaits' /\ NoLoopAfterClose'
  BY <1>1, <1>2 DEF CloseWaits, NoLoopAfterClose
<1>3. CASE AcceptStep \/ AcceptClient \/ AcceptThrows
  <2>1. accept # "done" /\ UNCHANGED <<close, awaited>>
    BY <1>3 DEF AcceptStep, TakeIndex, AcceptAborted, AddClient, AddTask, RegisterContinuation,
      StopAccepting, AcceptClient, AcceptThrows, runVars
  <2> QED BY <1>2, <2>1
<1>4. ASSUME NEW s \in Session, RecvStep(s) PROVE CloseWaits' /\ NoLoopAfterClose'
  BY <1>1, <1>2, <1>4, LoopFrame DEF acceptVars, runVars
<1>5. ASSUME NEW s \in Session, ContinuationStep(s) PROVE CloseWaits' /\ NoLoopAfterClose'
  BY <1>1, <1>2, <1>5, ContinuationFrame DEF acceptVars, runVars
<1>6. CASE BeginClose \/ CloseListenSocket
  BY <1>1, <1>6 DEF BeginClose, CloseListenSocket, CloseWaits, NoLoopAfterClose, acceptVars
<1>7. CASE AwaitAccept
  <2>1. /\ accept = "done" /\ accept' = "done" /\ loop' = loop /\ close' = "await_loops"
        /\ awaited' = {m_RecvTasks[i] : i \in Index} \ {None}
    BY <1>7 DEF AwaitAccept, acceptVars
  <2>2. ASSUME NEW s \in Session, Live(s) PROVE s \in awaited'
    <3>1. cont[s] # "none" /\ cont[s] \notin {"task_removed", "client_removed", "done"}
      <4>1. s <= accepted /\ s \in Nat /\ accepted \in Nat
        BY <1>1, <2>2, Numbers DEF TypeOK
      <4> QED BY <1>1, <2>1, <2>2, <4>1 DEF ContinuationOnce, Registering
    <3>2. cont[s] = "registered"
      BY <1>1, <3>1 DEF TypeOK
    <3>3. m_RecvTasks[slot[s]] = s /\ slot[s] \in Index
      BY <1>1, <3>2, EntryIsUsing DEF TablesMatch
    <3> QED BY <2>1, <3>3, Numbers
  <2> QED BY <2>1, <2>2 DEF CloseWaits, NoLoopAfterClose
<1>8. CASE AwaitLoops
  <2>1. /\ close = "await_loops" /\ close' = "returned" /\ loop' = loop /\ accept' = accept
        /\ \A s \in awaited : loop[s] = "completed"
    BY <1>8 DEF AwaitLoops, acceptVars
  <2> QED BY <1>1, <2>1 DEF CloseWaits, NoLoopAfterClose
<1>9. CASE \E s \in Session : Ask(s) \/ Leave(s)
  BY <1>2, <1>9 DEF Ask, Leave, acceptVars, runVars
<1>10. CASE UNCHANGED vars
  BY <1>2, <1>10 DEF vars, acceptVars, runVars
<1> QED
  BY <1>3, <1>4, <1>5, <1>6, <1>7, <1>8, <1>9, <1>10 DEF Next, CloseStep

-----------------------------------------------------------------------------

\* The variables keep their types; what is handled was received, what was
\* received was sent.
LEMMA TypeInductive == IInv /\ [Next]_vars => TypeOK'
<1> SUFFICES ASSUME IInv, [Next]_vars PROVE TypeOK'
  OBVIOUS
<1>1. TypeOK /\ RequestPending /\ ContinuationOnce
  BY DEF IInv, IndexInOnePlace
<1>2. accepted \in 0 .. MaxSession /\ MaxSession \in Nat /\ Session = 1 .. MaxSession
  BY <1>1, Numbers DEF TypeOK, Session
<1>3. CASE TakeIndex
  <2>1. /\ Head(m_ClientIndexQueue) \in Index /\ Tail(m_ClientIndexQueue) \in Seq(Index)
    BY <1>1, <1>3, PoolFacts DEF TypeOK, TakeIndex
  <2> QED BY <1>1, <1>3, <2>1, Numbers
        DEF TakeIndex, TypeOK, runVars, recvVars, sendVars, peerVars
<1>4. CASE AcceptClient
  <2>1. /\ accepted' = accepted + 1 /\ accepted' \in Session /\ idx \in Index /\ idx' = idx
        /\ slot' = [slot EXCEPT ![accepted + 1] = idx]
        /\ \E l \in {"recv", "finally"} : loop' = [loop EXCEPT ![accepted + 1] = l]
        /\ accept' = "started"
        /\ UNCHANGED <<lost, tables, runVars, cont, recvVars, sendVars, peerVars>>
    <3>1. accepted' = accepted + 1 /\ accepted' \in Session
      BY <1>2, <1>4 DEF AcceptClient
    <3>2. idx \in Index
      BY <1>1, <1>4 DEF AcceptClient, TypeOK
    <3> QED BY <1>4, <3>1, <3>2 DEF AcceptClient
  <2>2. \A s \in Session : s <= accepted' <=> s <= accepted \/ s = accepted + 1
    BY <1>2, <2>1
  <2>3. \A s \in Session : slot'[s] # NoIndex <=> s <= accepted'
    BY <1>1, <2>1, <2>2, Numbers DEF TypeOK
  <2>4. \A s \in Session : loop'[s] # "none" <=> s <= accepted'
    BY <1>1, <2>1, <2>2 DEF TypeOK
  <2>5. /\ slot' \in [Session -> Index \cup {NoIndex}]
        /\ loop' \in [Session -> {"none", "check", "recv", "get_msg", "send_msg", "rejected",
                                  "sending", "finally", "completed"}]
        /\ accepted' \in 0 .. MaxSession /\ idx' \in Index \cup {NoIndex} /\ idx' # NoIndex
    <3>1. accepted + 1 \in Session /\ accepted' \in 0 .. MaxSession
      BY <1>2, <2>1
    <3>2. /\ slot \in [Session -> Index \cup {NoIndex}]
          /\ loop \in [Session -> {"none", "check", "recv", "get_msg", "send_msg", "rejected",
                                   "sending", "finally", "completed"}]
      BY <1>1 DEF TypeOK
    <3> QED BY <2>1, <3>1, <3>2, Numbers
  <2> QED BY <1>1, <2>1, <2>3, <2>4, <2>5
        DEF TypeOK, tables, runVars, recvVars, sendVars, peerVars
<1>5. CASE AcceptThrows \/ AcceptAborted
  <2>1. idx \in Index
    BY <1>1, <1>5 DEF AcceptThrows, AcceptAborted, TypeOK
  <2> QED BY <1>1, <1>5, <2>1
        DEF AcceptThrows, AcceptAborted, TypeOK, tables, runVars, recvVars, sendVars, peerVars
<1>6. CASE AddClient \/ AddTask
  <2>1. idx \in Index /\ accepted \in Session
    BY <1>1, <1>6 DEF AddClient, AddTask, TypeOK, ContinuationOnce, Registering
  <2> QED BY <1>1, <1>6, <2>1, ZenonT(30) DEF AddClient, AddTask, TypeOK, runVars, recvVars, sendVars, peerVars
<1>7. CASE RegisterContinuation \/ StopAccepting
  BY <1>1, <1>7, SMTT(30) DEF RegisterContinuation, StopAccepting, TypeOK, tables, runVars, recvVars,
    sendVars, peerVars
<1>8. ASSUME NEW s \in Session, RecvStep(s) PROVE TypeOK'
  <2>1. /\ UNCHANGED <<acceptVars, tables, runVars, cont, peerVars>>
        /\ \A t \in Session : t # s => loop'[t] = loop[t]
        /\ loop[s] # "none" /\ loop'[s] # "none"
    BY <1>1, <1>8, LoopFrame
  <2>2. loop' \in [Session -> {"none", "check", "recv", "get_msg", "send_msg", "rejected",
                               "sending", "finally", "completed"}]
    BY <1>1, <1>8, ZenonT(30) DEF TypeOK, RecvStep, CheckRunning, Receive, ReceiveEnds, GetMsg, NoMsg, SendMsg,
      SendAsync, SendThrows, PopMsg, Release, Goto, vars
  <2>3. m_SendBuffer' \in [Session -> Nat] /\ sent' \in [Session -> Nat]
    <3>1. CASE SendMsg(s)
      <4>1. m_Clients[slot[s]] = s /\ sent' = sent
        BY <3>1, RegisteredIsSelf DEF RegisteredAsItself, SendMsg, Goto, Live
      <4> QED BY <1>1, <3>1, <4>1, Numbers DEF SendMsg, TypeOK
    <3>2. CASE SendAsync(s)
      BY <1>1, <3>2 DEF SendAsync, TypeOK
    <3>3. CASE UNCHANGED sendVars
      BY <1>1, <3>3 DEF TypeOK, sendVars
    <3> QED BY <1>8, <3>1, <3>2, <3>3 DEF RecvStep, CheckRunning, Receive, ReceiveEnds, GetMsg,
          NoMsg, SendThrows, PopMsg, Release, sendVars, vars
  <2>4. /\ received' \in [Session -> Nat] /\ finished' \in [Session -> Nat]
        /\ answered' \in [Session -> Nat]
        /\ \A t \in Session : answered'[t] <= finished'[t] /\ finished'[t] <= received'[t]
                              /\ received'[t] <= asked[t]
    <3> DEFINE Counts == 
                 /\ received \in [Session -> Nat] /\ finished \in [Session -> Nat]
                 /\ answered \in [Session -> Nat] /\ asked \in [Session -> Nat]
                 /\ \A t \in Session : answered[t] <= finished[t] /\ finished[t] <= received[t]
                                       /\ received[t] <= asked[t]
    <3>1. Counts
      BY <1>1 DEF TypeOK
    <3>2. CASE Receive(s)
      <4>1. /\ UNCHANGED <<finished, answered>>
            /\ \E n \in received[s] + 1 .. asked[s] : received' = [received EXCEPT ![s] = n]
        BY <3>2 DEF Receive
      <4> QED BY <3>1, <4>1
    <3>3. CASE PopMsg(s)
      <4>1. finished[s] < received[s]
        BY <1>1, <3>3 DEF PopMsg, Goto, RequestPending
      <4>2. /\ finished' = [finished EXCEPT ![s] = @ + 1] /\ received' = received
            /\ answered' = answered \/ answered' = [answered EXCEPT ![s] = @ + 1]
        BY <3>3 DEF PopMsg
      <4> QED BY <3>1, <4>1, <4>2
    <3>4. CASE UNCHANGED recvVars
      BY <3>1, <3>4 DEF recvVars
    <3> QED BY <1>8, <3>2, <3>3, <3>4 DEF RecvStep, CheckRunning, ReceiveEnds, GetMsg, NoMsg,
          SendMsg, SendAsync, SendThrows, Release, recvVars, vars
  <2>5. \A t \in Session : loop'[t] # "none" <=> t <= accepted
    BY <1>1, <2>1 DEF TypeOK
  <2> QED BY <1>1, <2>1, <2>2, <2>3, <2>4, <2>5
        DEF TypeOK, acceptVars, tables, runVars, peerVars
<1>9. ASSUME NEW s \in Session, ContinuationStep(s) PROVE TypeOK'
  <2>1. /\ UNCHANGED <<acceptVars, runVars, loop, recvVars, sendVars, peerVars>>
        /\ slot[s] \in Index
    BY <1>1, <1>9, ContinuationFrame
  <2>2. Append(m_ClientIndexQueue, slot[s]) \in Seq(Index)
    BY <1>1, <2>1, PoolFacts DEF TypeOK
  <2>3. /\ m_ClientIndexQueue' \in Seq(Index)
        /\ m_Clients' \in [Index -> Session \cup {None}]
        /\ m_RecvTasks' \in [Index -> Session \cup {None}]
        /\ cont' \in [Session -> {"none", "registered", "task_removed", "client_removed", "done"}]
    BY <1>1, <1>9, <2>2 DEF TypeOK, ContinuationStep, RemoveTask, RemoveClient, ReturnIndex
  <2> QED BY <1>1, <2>1, <2>3 DEF TypeOK, acceptVars, runVars, recvVars, sendVars, peerVars
<1>10. CASE BeginClose \/ CloseListenSocket \/ AwaitLoops
  BY <1>1, <1>10 DEF BeginClose, CloseListenSocket, AwaitLoops, TypeOK, acceptVars, tables,
    recvVars, sendVars, peerVars
<1>11. CASE AwaitAccept
  <2>1. {m_RecvTasks[i] : i \in Index} \ {None} \subseteq Session
    BY <1>1 DEF TypeOK
  <2> QED BY <1>1, <1>11, <2>1 DEF AwaitAccept, TypeOK, acceptVars, tables, recvVars, sendVars,
        peerVars
<1>12. ASSUME NEW s \in Session, Ask(s) \/ Leave(s) PROVE TypeOK'
  <2>1. UNCHANGED <<acceptVars, tables, runVars, loop, cont, recvVars, sendVars>>
    BY <1>12 DEF Ask, Leave
  <2>2. /\ peer' \in [Session -> {"open", "closed", "reset"}] /\ asked' \in [Session -> Nat]
        /\ \A t \in Session : received[t] <= asked'[t]
    <3>1. /\ peer \in [Session -> {"open", "closed", "reset"}]
          /\ asked \in [Session -> Nat] /\ received \in [Session -> Nat]
          /\ \A t \in Session : received[t] <= asked[t]
      BY <1>1 DEF TypeOK
    <3>2. CASE Ask(s)
      BY <3>1, <3>2 DEF Ask
    <3>3. CASE Leave(s)
      BY <3>1, <3>3 DEF Leave
    <3> QED BY <1>12, <3>2, <3>3
  <2> QED BY <1>1, <2>1, <2>2 DEF TypeOK, acceptVars, tables, runVars, recvVars, sendVars
<1>13. CASE UNCHANGED vars
  BY <1>1, <1>13 DEF TypeOK, vars, acceptVars, tables, runVars, recvVars, sendVars, peerVars
<1> QED
  BY <1>3, <1>4, <1>5, <1>6, <1>7, <1>8, <1>9, <1>10, <1>11, <1>12, <1>13
     DEF Next, AcceptStep, CloseStep

\* The inductive invariant holds when Start has returned.
LEMMA InitIInv == Init => IInv
<1> SUFFICES ASSUME Init PROVE IInv
  OBVIOUS
<1> DEFINE pool == [i \in 1 .. MaxClient |-> i - 1]
<1>1. MaxClient \in Nat \ {0} /\ MaxSession \in Nat /\ Session = 1 .. MaxSession
  BY CsServerAssumption DEF CsServerAssumption, Session
<1>2. /\ pool \in Seq(Index) /\ DOMAIN pool = 1 .. MaxClient
      /\ \A i, j \in DOMAIN pool : pool[i] = pool[j] => i = j
      /\ \A i \in Index : i + 1 \in DOMAIN pool /\ pool[i + 1] = i
      /\ \A i \in DOMAIN pool : pool[i] # NoIndex
  BY <1>1 DEF Index, NoIndex
<1> HIDE DEF pool
<1>3. m_ClientIndexQueue = pool
  BY DEF Init, pool
<1>4. TypeOK
  <2>1. \A s \in Session : ~(s <= accepted) /\ accepted \in 0 .. MaxSession
    BY <1>1 DEF Init
  <2>2. /\ m_Clients \in [Index -> Session \cup {None}]
        /\ m_RecvTasks \in [Index -> Session \cup {None}]
        /\ slot = [s \in Session |-> NoIndex] /\ loop = [s \in Session |-> "none"]
        /\ accept = "top" /\ idx = NoIndex
    BY DEF Init
  <2>3. /\ asked \in [Session -> Nat] /\ received \in [Session -> Nat]
        /\ finished \in [Session -> Nat] /\ answered \in [Session -> Nat]
        /\ m_SendBuffer \in [Session -> Nat] /\ sent \in [Session -> Nat]
        /\ \A s \in Session :
             answered[s] <= finished[s] /\ finished[s] <= received[s] /\ received[s] <= asked[s]
    BY DEF Init
  <2>4. /\ m_IsRun \in BOOLEAN /\ m_ListenSocket = "open" /\ close = "no"
        /\ cont = [s \in Session |-> "none"] /\ peer = [s \in Session |-> "open"]
        /\ awaited = {} /\ lost = {}
    BY DEF Init
  <2>5. /\ slot \in [Session -> Index \cup {NoIndex}]
        /\ \A s \in Session : slot[s] # NoIndex <=> s <= accepted
    BY <2>1, <2>2
  <2>6. /\ loop \in [Session -> {"none", "check", "recv", "get_msg", "send_msg", "rejected",
                                 "sending", "finally", "completed"}]
        /\ \A s \in Session : loop[s] # "none" <=> s <= accepted
    BY <2>1, <2>2
  <2>7. /\ cont \in [Session -> {"none", "registered", "task_removed", "client_removed", "done"}]
        /\ peer \in [Session -> {"open", "closed", "reset"}]
    BY <2>4
  <2>8. /\ m_SendBuffer \in [Session -> Nat] /\ sent \in [Session -> Nat]
        /\ asked \in [Session -> Nat] /\ received \in [Session -> Nat]
        /\ finished \in [Session -> Nat] /\ answered \in [Session -> Nat]
    BY <2>3
  <2>9. /\ accept \in {"top", "accepting", "started", "client_added", "task_added", "done"}
        /\ idx \in Index \cup {NoIndex}
        /\ idx # NoIndex <=> accept \in {"accepting", "started", "client_added", "task_added"}
        /\ accepted \in 0 .. MaxSession
        /\ m_Clients \in [Index -> Session \cup {None}]
        /\ m_RecvTasks \in [Index -> Session \cup {None}]
    <3>1. accepted \in 0 .. MaxSession
      BY <1>1 DEF Init
    <3> QED BY <2>2, <3>1
  <2>10. m_ClientIndexQueue \in Seq(Index)
    BY <1>2, <1>3
  <2>11. /\ m_IsRun \in BOOLEAN /\ m_ListenSocket \in {"open", "closed"}
         /\ close \in {"no", "stopped", "await_accept", "await_loops", "returned"}
         /\ awaited \subseteq Session /\ lost \subseteq Index
    BY <2>4
  <2> QED BY <2>3, <2>5, <2>6, <2>7, <2>8, <2>9, <2>10, <2>11 DEF TypeOK
<1>5. Using = {}
  BY <1>1 DEF Init, Using
<1>6. \A i \in Index : \E j \in DOMAIN m_ClientIndexQueue : m_ClientIndexQueue[j] = i
  BY <1>2, <1>3
<1>7. IndexInOnePlace
  BY <1>2, <1>3, <1>4, <1>5, <1>6 DEF IndexInOnePlace
<1>8. HeldIsNotFree
  BY <1>2, <1>3 DEF HeldIsNotFree, Init
<1>9. RequestPending /\ ContinuationOnce
  BY <1>1 DEF Init, RequestPending, ContinuationOnce, Registering
<1>10. TablesMatch /\ AnswersComplete /\ SendMatches /\ CloseWaits /\ NoLoopAfterClose
  BY DEF Init, TablesMatch, AnswersComplete, SendMatches, CloseWaits, NoLoopAfterClose
<1> QED BY <1>7, <1>8, <1>9, <1>10 DEF IInv

\* Every reachable state satisfies the inductive invariant.
THEOREM CsServerInvariant == Spec => []IInv
<1>1. IInv /\ [Next]_vars => IInv'
  BY TypeInductive, PendingInductive, ContinuationInductive, IndexInductive, TablesInductive,
    SendInductive, CloseInductive DEF IInv
<1> QED BY <1>1, InitIInv, PTL DEF Spec

\* An index is free, held by AcceptLoop, used by one session or lost with an
\* accept that failed, for any number of indices and sessions.
THEOREM IndexInOnePlaceHolds == Spec => []IndexInOnePlace
<1>1. IInv => IndexInOnePlace
  BY DEF IInv
<1> QED BY <1>1, CsServerInvariant, PTL

\* The context and the task under a session's index are its own: TryAdd never
\* fails, and an answer goes to the client that asked.
THEOREM RegisteredAsItselfHolds == Spec => []RegisteredAsItself
BY RegisteredIsSelf, CsServerInvariant, PTL

\* Between two requests a session has sent whole answers and stores none.
THEOREM AnswersCompleteHolds == Spec => []AnswersComplete
<1>1. IInv => AnswersComplete
  BY DEF IInv
<1> QED BY <1>1, CsServerInvariant, PTL

\* When Close has returned, no receive loop runs or can start.
THEOREM NoLoopAfterCloseHolds == Spec => []NoLoopAfterClose
<1>1. IInv => NoLoopAfterClose
  BY DEF IInv
<1> QED BY <1>1, CsServerInvariant, PTL
=============================================================================
