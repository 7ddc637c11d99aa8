----------------------------- MODULE MCServers ------------------------------
(***************************************************************************)
(* The four servers, with the instances that TLC checks each on.           *)
(***************************************************************************)
EXTENDS StreamServer

CONSTANTS Slots, Workers

E == INSTANCE EpollServer
S == INSTANCE SelectServer
B == INSTANCE BlockingServer WITH Slot <- Slots
I == INSTANCE IOCPServer WITH Worker <- Workers, WorkerThreads <- 2

Init == E!Init \/ S!Init \/ B!Init \/ I!Init
Next == E!Next \/ S!Next \/ B!Next \/ I!Next
Fairness == E!Fairness /\ S!Fairness /\ B!Fairness /\ I!Fairness

OneSlot == {1}
TwoSlots == {1, 2}
OneWorker == {"w1"}
TwoWorkers == {"w1", "w2"}

\* The epoll server's answers to the first client can be sent in two parts.
AnswerSizes == [name \in Server |-> [s \in Session |-> IF name = "epoll" /\ s = 1 THEN 2 ELSE 1]]
SendCaps == [epoll |-> 3, select |-> 2, blocking |-> 1, iocp |-> 2]

\* One client with three requests, or two clients with one each.
OneOrTwo == {<<6, 0, 0>>, <<0, 2, 2>>}
Malformed == {<<1, 2>>}

Spec == Init /\ [][Next]_vars /\ Fairness

-----------------------------------------------------------------------------

\* End returns once it was called: the select server's threads do not block.
EndReturns == (server = "select" /\ main = "join_jobs") ~> main \in {"ended", "crashed"}
=============================================================================
