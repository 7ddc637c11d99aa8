------------------------------ MODULE UdpToken ------------------------------
(***************************************************************************)
(* How UDP datagrams find their TCP connection (IOCPCore.cpp): over TCP a  *)
(* client is given a token, made of its slot and of the clock; it puts the *)
(* token into its datagrams; the IO thread looks the token up, notes the   *)
(* datagram's source as the slot's UDP address and hands the request to a  *)
(* worker, which answers to the address noted by then.                     *)
(*                                                                         *)
(* The tokens are read and written by a worker (GetUDPToken), by the IO    *)
(* thread that disconnects (ClearUDPToken) and by the one that receives    *)
(* (DoUDPRecv); only the map and the writes are under m_UDPTokenLock.      *)
(***************************************************************************)
EXTENDS Integers, FiniteSets

CONSTANTS
    MaxClient,      \* number of connection slots
    Base,           \* number of values of half a token: 2^32
    MaxTime,        \* bound: how far the clock runs
    MaxSession,     \* bound: number of clients a slot serves
    MaxDatagram     \* bound: number of datagrams sent

ASSUME UdpTokenAssumption ==
    /\ MaxClient \in Nat /\ Base \in Nat /\ MaxClient < Base
    /\ MaxTime \in Nat /\ MaxSession \in Nat /\ MaxDatagram \in Nat

Client == 0 .. MaxClient - 1
NoToken == 0
NoAddress == <<>>

\* A client is known to the model by its slot and by its number there.
Peer == Client \X (1 .. MaxSession)

VARIABLES
    now,            \* milliseconds since the process started, from the first on: no
                    \* client asks within it (slot 0 would be given NoToken)
    connected,      \* connected[c]: yes, no, or clearing: the IO thread has
                    \* cleared the token and goes on with the disconnection
    session,        \* number of clients slot c has had
    m_UDPToken,     \* m_UDPToken[c]: the token in the connection object
    m_UDPTokens,    \* the map from tokens to slots, as a set of pairs
    m_UDPAddr,      \* m_UDPAddr[c]: the peer the slot's UDP answers go to
    issuing,        \* issuing[c]: a token a worker has made and not stored yet
    answer,         \* answer[c]: a token a worker has to send over TCP
    known,          \* known[c]: the token the client of slot c was told
    net,            \* datagrams sent: the token and the peer that sent it
    datagrams,      \* number of datagrams sent so far
    receiver,       \* the slot and sender of the datagram DoUDPRecv looked up
    requests,       \* UDP requests queued for the workers: slot and sender
    replies         \* history: who asked and who was answered

tokenVars == <<m_UDPToken, m_UDPTokens>>
workerVars == <<issuing, answer>>
udpVars == <<m_UDPAddr, net, datagrams, receiver, requests, replies>>
vars == <<now, connected, session, tokenVars, workerVars, known, udpVars>>

Idle == <<>>

Init ==
    /\ now = 1
    /\ connected = [c \in Client |-> "no"]
    /\ session = [c \in Client |-> 0]
    /\ m_UDPToken = [c \in Client |-> NoToken]
    /\ m_UDPTokens = {}
    /\ m_UDPAddr = [c \in Client |-> NoAddress]
    /\ issuing = [c \in Client |-> NoToken]
    /\ answer = [c \in Client |-> NoToken]
    /\ known = [c \in Client |-> NoToken]
    /\ net = {}
    /\ datagrams = 0
    /\ receiver = Idle
    /\ requests = {}
    /\ replies = {}

\* clock_t is signed and as wide as half a token: clock() returns -1 from the
\* day on which the time no longer fits.
Clock == IF now < Base \div 2 THEN now ELSE -1

\* (Here and below, an operator or action commented as a fault is not part of the
\* model: it is the definition after it with a plausible mistake.)

\* Fault: the slot is left out of the token.
MakeTokenWithoutSlot(c) == IF Clock >= 0 THEN Clock ELSE Base * Base - 1

\* ((uint64_t)c << 32) | (uint64_t)clock(): a negative clock is sign-extended and
\* covers the slot.
MakeToken(c) == IF Clock >= 0 THEN c * Base + Clock ELSE Base * Base - 1

Tick ==
    /\ now < MaxTime
    /\ now' = now + 1
    /\ UNCHANGED <<connected, session, tokenVars, workerVars, known, udpVars>>

-----------------------------------------------------------------------------
(* The TCP connection.                                                      *)

DoAccept(c) ==
    /\ connected[c] = "no"
    /\ session[c] < MaxSession
    /\ connected' = [connected EXCEPT ![c] = "yes"]
    /\ session' = [session EXCEPT ![c] = @ + 1]
    /\ UNCHANGED <<now, tokenVars, workerVars, known, udpVars>>

\* Fault: the token stays in the map.
ClearUDPTokenKeepsMap(c) ==
    /\ connected[c] = "yes"
    /\ connected' = [connected EXCEPT ![c] = "clearing"]
    /\ known' = [known EXCEPT ![c] = NoToken]
    /\ m_UDPToken' = [m_UDPToken EXCEPT ![c] = NoToken]
    /\ UNCHANGED <<now, session, m_UDPTokens, workerVars, udpVars>>

\* DoDisconnect begins with ClearUDPToken, under the lock.
ClearUDPToken(c) ==
    /\ connected[c] = "yes"
    /\ connected' = [connected EXCEPT ![c] = "clearing"]
    /\ known' = [known EXCEPT ![c] = NoToken]
    /\ m_UDPToken' = [m_UDPToken EXCEPT ![c] = NoToken]
    /\ m_UDPTokens' = IF m_UDPToken[c] # NoToken
                      THEN {e \in m_UDPTokens : e[1] # m_UDPToken[c]}
                      ELSE m_UDPTokens
    /\ UNCHANGED <<now, session, workerVars, udpVars>>

\* It ends with Close and ResetConnection, which forget the UDP address.
ResetConnection(c) ==
    /\ connected[c] = "clearing"
    /\ connected' = [connected EXCEPT ![c] = "no"]
    /\ m_UDPAddr' = [m_UDPAddr EXCEPT ![c] = NoAddress]
    /\ UNCHANGED <<now, session, tokenVars, workerVars, known, net, datagrams, receiver, requests, replies>>

-----------------------------------------------------------------------------
(* GetUDPToken, run by the one worker that serves the client at a time.     *)

\* Fault: a token is made although the connection has one.
MakeUDPTokenAgain(c) ==
    /\ connected[c] = "yes"
    /\ issuing[c] = NoToken /\ answer[c] = NoToken
    /\ issuing' = [issuing EXCEPT ![c] = MakeToken(c)]
    /\ UNCHANGED <<now, connected, session, tokenVars, answer, known, udpVars>>

\* The connection has no token, as read without the lock: a new one is made.
MakeUDPToken(c) ==
    /\ connected[c] = "yes"
    /\ issuing[c] = NoToken /\ answer[c] = NoToken
    /\ m_UDPToken[c] = NoToken
    /\ issuing' = [issuing EXCEPT ![c] = MakeToken(c)]
    /\ UNCHANGED <<now, connected, session, tokenVars, answer, known, udpVars>>

\* It has one, which is returned.
GetUDPToken(c) ==
    /\ connected[c] = "yes"
    /\ issuing[c] = NoToken /\ answer[c] = NoToken
    /\ m_UDPToken[c] # NoToken
    /\ answer' = [answer EXCEPT ![c] = m_UDPToken[c]]
    /\ UNCHANGED <<now, connected, session, tokenVars, issuing, known, udpVars>>

\* Under the lock the new token is stored, whatever has become of the client, and
\* entered into the map unless it is there already (std::map::emplace).
StoreUDPToken(c) ==
    /\ issuing[c] # NoToken
    /\ m_UDPToken' = [m_UDPToken EXCEPT ![c] = issuing[c]]
    /\ m_UDPTokens' = IF \E e \in m_UDPTokens : e[1] = issuing[c]
                      THEN m_UDPTokens
                      ELSE m_UDPTokens \cup {<<issuing[c], c>>}
    /\ issuing' = [issuing EXCEPT ![c] = NoToken]
    /\ answer' = [answer EXCEPT ![c] = issuing[c]]
    /\ UNCHANGED <<now, connected, session, known, udpVars>>

\* The answer is sent, again and again until the slot has a client to take it.
SendToken(c) ==
    /\ answer[c] # NoToken
    /\ connected[c] = "yes"
    /\ known' = [known EXCEPT ![c] = answer[c]]
    /\ answer' = [answer EXCEPT ![c] = NoToken]
    /\ UNCHANGED <<now, connected, session, tokenVars, issuing, udpVars>>

-----------------------------------------------------------------------------
(* Datagrams.  The network delays, reorders and duplicates them: one that   *)
(* was sent may be received any number of times, or never.                  *)

SendDatagram(c) ==
    /\ known[c] # NoToken
    /\ datagrams < MaxDatagram
    /\ datagrams' = datagrams + 1
    /\ net' = net \cup {[token |-> known[c], from |-> <<c, session[c]>>]}
    /\ UNCHANGED <<now, connected, session, tokenVars, workerVars, known, m_UDPAddr, receiver, requests, replies>>

\* DoUDPRecv looks the token up under the lock.  A datagram whose token it does
\* not find is dropped (which changes nothing).
LookUp(d, c) ==
    /\ receiver = Idle
    /\ <<d.token, c>> \in m_UDPTokens
    /\ receiver' = [slot |-> c, from |-> d.from]
    /\ UNCHANGED <<now, connected, session, tokenVars, workerVars, known, m_UDPAddr, net, datagrams, requests, replies>>

\* Then, without the lock, it notes the address, queues the request and binds
\* the next receive.
SetUDPIP ==
    /\ receiver # Idle
    /\ m_UDPAddr' = [m_UDPAddr EXCEPT ![receiver.slot] = receiver.from]
    /\ requests' = requests \cup {receiver}
    /\ receiver' = Idle
    /\ UNCHANGED <<now, connected, session, tokenVars, workerVars, known, net, datagrams, replies>>

\* A worker executes the request and answers, once, to the address noted for the
\* slot; without an address SendMsgUDP fails and the answer is dropped.
SendMsgUDP(r) ==
    /\ requests' = requests \ {r}
    /\ replies' = IF m_UDPAddr[r.slot] # NoAddress
                  THEN replies \cup {<<r.from, m_UDPAddr[r.slot]>>}
                  ELSE replies
    /\ UNCHANGED <<now, connected, session, tokenVars, workerVars, known, m_UDPAddr, net, datagrams, receiver>>

-----------------------------------------------------------------------------

Next ==
    \/ Tick
    \/ \E c \in Client :
        \/ DoAccept(c) \/ ClearUDPToken(c) \/ ResetConnection(c)
        \/ MakeUDPToken(c) \/ GetUDPToken(c) \/ StoreUDPToken(c) \/ SendToken(c)
        \/ SendDatagram(c)
    \/ \E d \in net, c \in Client : LookUp(d, c)
    \/ SetUDPIP
    \/ \E r \in requests : SendMsgUDP(r)

Spec == Init /\ [][Next]_vars

-----------------------------------------------------------------------------
(* Properties.                                                              *)

Token == 1 .. Base * Base - 1

Receipt == [slot : Client, from : Peer]

TypeOK ==
    /\ now \in Nat \ {0}
    /\ connected \in [Client -> {"yes", "no", "clearing"}]
    /\ session \in [Client -> 0 .. MaxSession]
    /\ m_UDPToken \in [Client -> Token \cup {NoToken}]
    /\ m_UDPTokens \subseteq Token \X Client
    /\ m_UDPAddr \in [Client -> Peer \cup {NoAddress}]
    /\ issuing \in [Client -> Token \cup {NoToken}]
    /\ answer \in [Client -> Token \cup {NoToken}]
    /\ \A c \in Client : issuing[c] = NoToken \/ answer[c] = NoToken
    /\ known \in [Client -> Token \cup {NoToken}]
    /\ \A c \in Client : known[c] # NoToken => connected[c] = "yes"
    /\ net \subseteq [token : Token, from : Peer]
    /\ datagrams \in 0 .. MaxDatagram
    /\ receiver \in Receipt \cup {Idle}
    /\ requests \subseteq Receipt
    /\ replies \subseteq Peer \X Peer

TimeFits == now < Base \div 2

\* While the clock fits into half a token, the map and the connection objects
\* agree, across disconnections and tokens that are stored late: the map holds
\* exactly the tokens of the connections, each for its own slot.
MapMatchesConnections ==
    TimeFits => m_UDPTokens = {<<m_UDPToken[c], c>> : c \in {k \in Client : m_UDPToken[k] # NoToken}}

\* While the clock fits, a datagram is never taken for another slot's, nor an
\* answer sent to a client of another slot.
DatagramsStayInTheirSlot ==
    TimeFits =>
        /\ \A r \in requests : r.from[1] = r.slot
        /\ \A c \in Client : m_UDPAddr[c] # NoAddress => m_UDPAddr[c][1] = c
        /\ \A e \in replies : e[1][1] = e[2][1]

\* A connection keeps its token until it is disconnected, although GetUDPToken
\* does not look again when it has taken the lock.
TokenIsKept ==
    [][\A c \in Client :
         m_UDPToken[c] # NoToken => m_UDPToken'[c] \in {m_UDPToken[c], NoToken}]_vars

\* README.md of IOCP_TCP+UDP, line 12: since the slot is part of the token, the
\* tokens of two connections never collide.
TokensDoNotCollide ==
    \A c, d \in Client : m_UDPToken[c] = m_UDPToken[d] /\ m_UDPToken[c] # NoToken => c = d
=============================================================================
