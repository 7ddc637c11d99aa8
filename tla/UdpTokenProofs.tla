--------------------------- MODULE UdpTokenProofs ---------------------------
(***************************************************************************)
(* Proofs, for any number of slots, any width of the token and any bounds, *)
(* that the UDP tokens keep the invariants of UdpToken.                    *)
(***************************************************************************)
EXTENDS UdpToken, TLAPS

\* The tokens that name slot c are those of one interval.
Names(t, c) == c * Base <= t /\ t < (c + 1) * Base

\* A worker makes a token only for a connection that has none, and nobody else
\* gives the connection one in the meantime.
NoneWhileIssuing == \A c \in Client : issuing[c] # NoToken => m_UDPToken[c] = NoToken

SessionStarted == \A c \in Client : connected[c] # "no" => session[c] >= 1

\* While the clock fits, every token that is anywhere names the slot it is kept,
\* sent or used for.
TokensOfSlots ==
    TimeFits =>
        /\ \A c \in Client : issuing[c] # NoToken => Names(issuing[c], c)
        /\ \A c \in Client : m_UDPToken[c] # NoToken => Names(m_UDPToken[c], c)
        /\ \A c \in Client : answer[c] # NoToken => Names(answer[c], c)
        /\ \A c \in Client : known[c] # NoToken => Names(known[c], c)
        /\ \A d \in net : Names(d.token, d.from[1])

ReceiverOfSlot == TimeFits /\ receiver # Idle => receiver.from[1] = receiver.slot

IInv ==
    /\ TypeOK
    /\ SessionStarted
    /\ NoneWhileIssuing
    /\ TokensOfSlots
    /\ MapMatchesConnections
    /\ ReceiverOfSlot
    /\ DatagramsStayInTheirSlot

-----------------------------------------------------------------------------

\* No token names two slots.
LEMMA NamesUnique ==
    ASSUME NEW B \in Nat, NEW t \in Nat, NEW c \in Nat, NEW d \in Nat,
           c * B <= t, t < (c + 1) * B, d * B <= t, t < (d + 1) * B
    PROVE  c = d
<1>1. ASSUME NEW a \in Nat, NEW b \in Nat, a < b, t < (a + 1) * B, b * B <= t PROVE FALSE
  <2>1. (a + 1) * B <= b * B
    BY <1>1
  <2> QED BY <1>1, <2>1
<1>2. ~(c < d) BY <1>1
<1>3. ~(d < c) BY <1>1
<1> QED BY <1>2, <1>3

\* A token that is made is a token, and names its slot while the clock fits.
LEMMA MadeToken ==
    ASSUME UdpTokenAssumption, now \in Nat \ {0}, NEW c \in Client
    PROVE  /\ MakeToken(c) \in Token
           /\ MakeToken(c) # NoToken
           /\ TimeFits => Names(MakeToken(c), c)
<1>0. /\ Base \in Nat /\ c \in Nat /\ c + 1 <= MaxClient /\ MaxClient < Base
      /\ MaxClient \in Nat /\ Base >= 2
  BY DEF UdpTokenAssumption, Client
<1>1. /\ c * Base \in Nat /\ (c + 1) * Base = c * Base + Base /\ Base * Base \in Nat
  BY <1>0
<1>2. (c + 1) * Base <= Base * Base
  BY <1>0
<1>3. Base * Base - 1 >= 1
  BY <1>0
<1>4. Base \div 2 \in Nat /\ Base \div 2 <= Base
  BY <1>0
<1>5. CASE now < Base \div 2
  <2>1. MakeToken(c) = c * Base + now
    BY <1>5 DEF MakeToken, Clock
  <2>2. c * Base + now < (c + 1) * Base /\ c * Base + now >= 1
    BY <1>1, <1>4, <1>5
  <2> QED BY <1>1, <1>2, <2>1, <2>2 DEF Token, NoToken, Names, TimeFits
<1>6. CASE ~(now < Base \div 2)
  <2>1. MakeToken(c) = Base * Base - 1
    BY <1>6 DEF MakeToken, Clock
  <2> QED BY <1>1, <1>3, <1>6, <2>1 DEF Token, NoToken, TimeFits
<1> QED BY <1>5, <1>6

\* Every step keeps the types; a connection has had a session once it is open.
LEMMA TypeInductive == IInv /\ [Next]_vars => TypeOK' /\ SessionStarted'
<1> SUFFICES ASSUME IInv, [Next]_vars PROVE TypeOK' /\ SessionStarted'
  OBVIOUS
<1>0. TypeOK /\ SessionStarted /\ UdpTokenAssumption
  BY UdpTokenAssumption DEF IInv
<1> USE DEF TypeOK, SessionStarted, tokenVars, workerVars, udpVars
<1>1. CASE Tick
  BY <1>0, <1>1 DEF Tick
<1>2. ASSUME NEW c \in Client, DoAccept(c) PROVE TypeOK' /\ SessionStarted'
  BY <1>0, <1>2 DEF DoAccept, UdpTokenAssumption
<1>3. ASSUME NEW c \in Client, ClearUDPToken(c) PROVE TypeOK' /\ SessionStarted'
  <2>1. m_UDPTokens' \subseteq Token \X Client
    BY <1>0, <1>3, Zenon DEF ClearUDPToken
  <2> QED BY <1>0, <1>3, <2>1 DEF ClearUDPToken
<1>4. ASSUME NEW c \in Client, ResetConnection(c) PROVE TypeOK' /\ SessionStarted'
  BY <1>0, <1>4 DEF ResetConnection
<1>5. ASSUME NEW c \in Client, MakeUDPToken(c) PROVE TypeOK' /\ SessionStarted'
  <2>1. MakeToken(c) \in Token
    BY <1>0, MadeToken
  <2> QED BY <1>0, <1>5, <2>1 DEF MakeUDPToken
<1>6. ASSUME NEW c \in Client, GetUDPToken(c) PROVE TypeOK' /\ SessionStarted'
  BY <1>0, <1>6 DEF GetUDPToken
<1>7. ASSUME NEW c \in Client, StoreUDPToken(c) PROVE TypeOK' /\ SessionStarted'
  <2>1. issuing[c] \in Token
    BY <1>0, <1>7 DEF StoreUDPToken
  <2>2. m_UDPTokens' \subseteq Token \X Client
    BY <1>0, <1>7, <2>1 DEF StoreUDPToken
  <2> QED BY <1>0, <1>7, <2>1, <2>2 DEF StoreUDPToken
<1>8. ASSUME NEW c \in Client, SendToken(c) PROVE TypeOK' /\ SessionStarted'
  BY <1>0, <1>8 DEF SendToken
<1>9. ASSUME NEW c \in Client, SendDatagram(c) PROVE TypeOK' /\ SessionStarted'
  <2>1. known[c] \in Token /\ <<c, session[c]>> \in Peer
    BY <1>0, <1>9 DEF SendDatagram, Peer
  <2>2. [token |-> known[c], from |-> <<c, session[c]>>] \in [token : Token, from : Peer]
    BY <2>1
  <2>3. net' \subseteq [token : Token, from : Peer]
    BY <1>0, <1>9, <2>2, Zenon DEF SendDatagram
  <2> QED BY <1>0, <1>9, <2>3 DEF SendDatagram, UdpTokenAssumption
<1>10. ASSUME NEW d \in net, NEW c \in Client, LookUp(d, c) PROVE TypeOK' /\ SessionStarted'
  <2>1. d.from \in Peer
    BY <1>0
  <2>2. receiver' \in Receipt
    BY <1>10, <2>1 DEF LookUp, Receipt
  <2> QED BY <1>0, <1>10, <2>2 DEF LookUp
<1>11. CASE SetUDPIP
  <2>1. receiver \in Receipt
    BY <1>0, <1>11 DEF SetUDPIP
  <2> QED BY <1>0, <1>11, <2>1 DEF SetUDPIP, Receipt
<1>12. ASSUME NEW r \in requests, SendMsgUDP(r) PROVE TypeOK' /\ SessionStarted'
  <2>1. r.slot \in Client /\ r.from \in Peer
    BY <1>0 DEF Receipt
  <2>2. m_UDPAddr[r.slot] # NoAddress => <<r.from, m_UDPAddr[r.slot]>> \in Peer \X Peer
    BY <1>0, <2>1
  <2> QED BY <1>0, <1>12, <2>2 DEF SendMsgUDP
<1>13. CASE UNCHANGED vars
  BY <1>0, <1>13 DEF vars
<1> QED
  BY <1>1, <1>2, <1>3, <1>4, <1>5, <1>6, <1>7, <1>8, <1>9, <1>10, <1>11, <1>12, <1>13 DEF Next

-----------------------------------------------------------------------------

\* The clock does not run backwards.
LEMMA TimeFitted == IInv /\ [Next]_vars /\ TimeFits' => TimeFits
<1> SUFFICES ASSUME IInv, [Next]_vars, TimeFits' PROVE TimeFits
  OBVIOUS
<1>1. now \in Nat /\ Base \div 2 \in Nat
  <2>1. Base \in Nat /\ now \in Nat
    BY UdpTokenAssumption DEF UdpTokenAssumption, IInv, TypeOK
  <2> QED BY <2>1
<1>2. now' = now \/ now' = now + 1
  BY DEF Next, Tick, DoAccept, ClearUDPToken, ResetConnection, MakeUDPToken, GetUDPToken,
         StoreUDPToken, SendToken, SendDatagram, LookUp, SetUDPIP, SendMsgUDP, vars
<1> QED BY <1>1, <1>2 DEF TimeFits

\* GetUDPToken goes on to make a token only for a connection without one.
LEMMA NoneWhileIssuingInductive == IInv /\ [Next]_vars => NoneWhileIssuing'
<1> SUFFICES ASSUME IInv, [Next]_vars PROVE NoneWhileIssuing'
  OBVIOUS
<1>0. NoneWhileIssuing /\ TypeOK
  BY DEF IInv
<1> USE DEF NoneWhileIssuing
<1>1. ASSUME NEW c \in Client, ClearUDPToken(c) PROVE NoneWhileIssuing'
  BY <1>0, <1>1 DEF ClearUDPToken, TypeOK, workerVars
<1>2. ASSUME NEW c \in Client, MakeUDPToken(c) PROVE NoneWhileIssuing'
  BY <1>0, <1>2 DEF MakeUDPToken, TypeOK, tokenVars
<1>3. ASSUME NEW c \in Client, StoreUDPToken(c) PROVE NoneWhileIssuing'
  BY <1>0, <1>3 DEF StoreUDPToken, TypeOK
<1>4. CASE UNCHANGED <<issuing, m_UDPToken>>
  BY <1>0, <1>4
<1> QED
  BY <1>1, <1>2, <1>3, <1>4 DEF Next, Tick, DoAccept, ResetConnection, GetUDPToken,
     SendToken, SendDatagram, LookUp, SetUDPIP, SendMsgUDP, vars, tokenVars, workerVars

\* Tokens are made, stored, sent and looked up for one slot only.
LEMMA TokensOfSlotsInductive == IInv /\ [Next]_vars => TokensOfSlots'
<1> SUFFICES ASSUME IInv, [Next]_vars, TimeFits' PROVE TokensOfSlots'
  BY DEF TokensOfSlots
<1>0. TypeOK /\ TokensOfSlots /\ TimeFits
  BY TimeFitted DEF IInv
<1> USE DEF TokensOfSlots
<1>1. ASSUME NEW c \in Client, ClearUDPToken(c) PROVE TokensOfSlots'
  BY <1>0, <1>1 DEF ClearUDPToken, TypeOK, workerVars, udpVars, Names
<1>2. ASSUME NEW c \in Client, MakeUDPToken(c) PROVE TokensOfSlots'
  <2>1. Names(MakeToken(c), c)
    BY <1>0, MadeToken, UdpTokenAssumption DEF TypeOK
  <2> QED BY <1>0, <1>2, <2>1 DEF MakeUDPToken, TypeOK, tokenVars, udpVars, Names
<1>3. ASSUME NEW c \in Client, GetUDPToken(c) PROVE TokensOfSlots'
  BY <1>0, <1>3 DEF GetUDPToken, TypeOK, tokenVars, udpVars, Names
<1>4. ASSUME NEW c \in Client, StoreUDPToken(c) PROVE TokensOfSlots'
  BY <1>0, <1>4 DEF StoreUDPToken, TypeOK, udpVars, Names
<1>5. ASSUME NEW c \in Client, SendToken(c) PROVE TokensOfSlots'
  BY <1>0, <1>5 DEF SendToken, TypeOK, tokenVars, udpVars, Names
<1>6. ASSUME NEW c \in Client, SendDatagram(c) PROVE TokensOfSlots'
  <2> DEFINE d == [token |-> known[c], from |-> <<c, session[c]>>]
  <2>1. Names(d.token, d.from[1])
    BY <1>0, <1>6 DEF SendDatagram
  <2>2. net' = net \cup {d} /\ UNCHANGED <<issuing, m_UDPToken, answer, known>>
    BY <1>6 DEF SendDatagram, tokenVars, workerVars
  <2> HIDE DEF d
  <2> QED BY <1>0, <2>1, <2>2 DEF Names
<1>7. CASE UNCHANGED <<issuing, m_UDPToken, answer, known, net>>
  BY <1>0, <1>7 DEF Names
<1> QED
  BY <1>1, <1>2, <1>3, <1>4, <1>5, <1>6, <1>7 DEF Next, Tick, DoAccept, ResetConnection,
     LookUp, SetUDPIP, SendMsgUDP, vars, tokenVars, workerVars, udpVars

\* While the clock fits, no two connections have the same token.
LEMMA TokensDistinct ==
    ASSUME IInv, TimeFits, NEW c \in Client, NEW d \in Client,
           m_UDPToken[c] = m_UDPToken[d], m_UDPToken[c] # NoToken
    PROVE  c = d
<1>1. Base \in Nat /\ c \in Nat /\ d \in Nat
  BY UdpTokenAssumption DEF UdpTokenAssumption, Client
<1>2. m_UDPToken[c] \in Nat
  BY DEF IInv, TypeOK, Token, NoToken
<1>3. Names(m_UDPToken[c], c) /\ Names(m_UDPToken[c], d)
  BY DEF IInv, TokensOfSlots
<1> QED BY <1>1, <1>2, <1>3, NamesUnique DEF Names

\* The map and the connections change together, under the lock of the map.
LEMMA MapInductive == IInv /\ [Next]_vars => MapMatchesConnections'
<1> SUFFICES ASSUME IInv, [Next]_vars, TimeFits' PROVE MapMatchesConnections'
  BY DEF MapMatchesConnections
<1>0. TypeOK /\ TimeFits /\ MapMatchesConnections
  BY TimeFitted DEF IInv
<1>1. ASSUME NEW c \in Client, ClearUDPToken(c) PROVE MapMatchesConnections'
  <2>1. m_UDPToken' = [m_UDPToken EXCEPT ![c] = NoToken]
    BY <1>1 DEF ClearUDPToken
  <2>2. CASE m_UDPToken[c] = NoToken
    BY <1>0, <1>1, <2>1, <2>2 DEF ClearUDPToken, TypeOK, MapMatchesConnections
  <2>3. CASE m_UDPToken[c] # NoToken
    <3>1. m_UDPTokens' = {e \in m_UDPTokens : e[1] # m_UDPToken[c]}
      BY <1>1, <2>3 DEF ClearUDPToken
    <3>2. \A k \in Client : m_UDPToken[k] = m_UDPToken[c] => k = c
      BY <1>0, <2>3, TokensDistinct
    <3> QED BY <1>0, <2>1, <2>3, <3>1, <3>2 DEF TypeOK, MapMatchesConnections
  <2> QED BY <2>2, <2>3
<1>2. ASSUME NEW c \in Client, StoreUDPToken(c) PROVE MapMatchesConnections'
  <2>1. m_UDPToken[c] = NoToken /\ issuing[c] # NoToken
    BY <1>2 DEF StoreUDPToken, IInv, NoneWhileIssuing
  <2>2. m_UDPToken' = [m_UDPToken EXCEPT ![c] = issuing[c]]
    BY <1>2 DEF StoreUDPToken
  <2>3. ASSUME NEW k \in Client, m_UDPToken[k] = issuing[c] PROVE FALSE
    <3>1. Base \in Nat /\ c \in Nat /\ k \in Nat
      BY UdpTokenAssumption DEF UdpTokenAssumption, Client
    <3>2. issuing[c] \in Nat /\ Names(issuing[c], c) /\ Names(issuing[c], k)
      BY <1>0, <2>1, <2>3 DEF IInv, TypeOK, Token, NoToken, TokensOfSlots
    <3> QED BY <2>1, <2>3, <3>1, <3>2, NamesUnique DEF Names
  <2>4. ~\E e \in m_UDPTokens : e[1] = issuing[c]
    BY <1>0, <2>3 DEF MapMatchesConnections
  <2>5. m_UDPTokens' = m_UDPTokens \cup {<<issuing[c], c>>}
    BY <1>2, <2>4 DEF StoreUDPToken
  <2> QED BY <1>0, <2>1, <2>2, <2>5 DEF TypeOK, MapMatchesConnections
<1>3. CASE UNCHANGED <<m_UDPToken, m_UDPTokens>>
  BY <1>0, <1>3 DEF MapMatchesConnections
<1> QED
  BY <1>1, <1>2, <1>3 DEF Next, Tick, DoAccept, ResetConnection, MakeUDPToken, GetUDPToken,
     SendToken, SendDatagram, LookUp, SetUDPIP, SendMsgUDP, vars, tokenVars

\* While the clock fits, what the receiver looked up is the sender's slot.
LEMMA ReceiverInductive == IInv /\ [Next]_vars => ReceiverOfSlot'
<1> SUFFICES ASSUME IInv, [Next]_vars, TimeFits' PROVE ReceiverOfSlot'
  BY DEF ReceiverOfSlot
<1>0. TypeOK /\ TimeFits /\ ReceiverOfSlot
  BY TimeFitted DEF IInv
<1>1. ASSUME NEW d \in net, NEW c \in Client, LookUp(d, c) PROVE ReceiverOfSlot'
  <2>1. <<d.token, c>> \in m_UDPTokens /\ receiver' = [slot |-> c, from |-> d.from]
    BY <1>1 DEF LookUp
  <2>2. m_UDPToken[c] = d.token /\ d.token # NoToken
    BY <1>0, <2>1 DEF IInv, MapMatchesConnections
  <2>3. d.token \in Nat /\ d.from[1] \in Client
    BY <1>0 DEF TypeOK, Token, Peer
  <2>4. Names(d.token, c) /\ Names(d.token, d.from[1])
    BY <1>0, <2>2 DEF IInv, TokensOfSlots
  <2>5. Base \in Nat /\ c \in Nat /\ d.from[1] \in Nat
    BY <2>3, UdpTokenAssumption DEF UdpTokenAssumption, Client
  <2>6. d.from[1] = c
    BY <2>3, <2>4, <2>5, NamesUnique DEF Names
  <2> QED BY <2>1, <2>6 DEF ReceiverOfSlot
<1>2. CASE SetUDPIP
  BY <1>2 DEF SetUDPIP, ReceiverOfSlot
<1>3. CASE UNCHANGED receiver
  BY <1>0, <1>3 DEF ReceiverOfSlot
<1> QED
  BY <1>1, <1>2, <1>3 DEF Next, Tick, DoAccept, ClearUDPToken, ResetConnection, MakeUDPToken,
     GetUDPToken, StoreUDPToken, SendToken, SendDatagram, SendMsgUDP, vars, udpVars

\* While the clock fits, addresses are stored for the slot they came from.
LEMMA DatagramsInductive == IInv /\ [Next]_vars => DatagramsStayInTheirSlot'
<1> SUFFICES ASSUME IInv, [Next]_vars, TimeFits' PROVE DatagramsStayInTheirSlot'
  BY DEF DatagramsStayInTheirSlot
<1>0. TypeOK /\ TimeFits /\ DatagramsStayInTheirSlot /\ ReceiverOfSlot
  BY TimeFitted DEF IInv
<1> USE DEF DatagramsStayInTheirSlot
<1>1. ASSUME NEW c \in Client, ResetConnection(c) PROVE DatagramsStayInTheirSlot'
  BY <1>0, <1>1 DEF ResetConnection, TypeOK
<1>2. CASE SetUDPIP
  <2>1. receiver \in Receipt /\ receiver.from[1] = receiver.slot
    BY <1>0, <1>2 DEF SetUDPIP, TypeOK, ReceiverOfSlot
  <2> QED BY <1>0, <1>2, <2>1 DEF SetUDPIP, TypeOK, Receipt
<1>3. ASSUME NEW r \in requests, SendMsgUDP(r) PROVE DatagramsStayInTheirSlot'
  <2>1. r.slot \in Client /\ r.from[1] = r.slot
    BY <1>0 DEF TypeOK, Receipt
  <2>2. m_UDPAddr[r.slot] # NoAddress => m_UDPAddr[r.slot][1] = r.slot
    BY <1>0, <2>1
  <2> QED BY <1>0, <1>3, <2>1, <2>2 DEF SendMsgUDP
<1>4. CASE UNCHANGED <<requests, m_UDPAddr, replies>>
  BY <1>0, <1>4
<1> QED
  BY <1>1, <1>2, <1>3, <1>4 DEF Next, Tick, DoAccept, ClearUDPToken, MakeUDPToken, GetUDPToken,
     StoreUDPToken, SendToken, SendDatagram, LookUp, vars, udpVars

-----------------------------------------------------------------------------

\* The inductive invariant holds in every state.
THEOREM UdpTokenInvariant == Spec => []IInv
<1>1. Init => IInv
  BY UdpTokenAssumption
     DEF Init, IInv, TypeOK, SessionStarted, NoneWhileIssuing, TokensOfSlots,
         MapMatchesConnections, ReceiverOfSlot, DatagramsStayInTheirSlot, UdpTokenAssumption
<1>2. IInv /\ [Next]_vars => IInv'
  BY TypeInductive, NoneWhileIssuingInductive, TokensOfSlotsInductive, MapInductive,
     ReceiverInductive, DatagramsInductive DEF IInv
<1> QED BY <1>1, <1>2, PTL DEF Spec

\* Type correctness.
THEOREM TypeCorrect == Spec => []TypeOK
<1>1. IInv => TypeOK
  BY DEF IInv
<1> QED BY <1>1, UdpTokenInvariant, PTL

\* The map of tokens and the tokens in the connection objects agree, although
\* GetUDPToken decides outside the lock that a new token is needed.
THEOREM MapMatchesConnectionsHolds == Spec => []MapMatchesConnections
<1>1. IInv => MapMatchesConnections
  BY DEF IInv
<1> QED BY <1>1, UdpTokenInvariant, PTL

\* As long as the clock fits into half a token, no datagram is attributed to, and
\* no UDP answer reaches, a client of another slot.
THEOREM DatagramsStayInTheirSlotHolds == Spec => []DatagramsStayInTheirSlot
<1>1. IInv => DatagramsStayInTheirSlot
  BY DEF IInv
<1> QED BY <1>1, UdpTokenInvariant, PTL

\* As long as the clock fits, the tokens of two connections differ: what the README
\* says of them, under the condition it needs.
THEOREM TokensDoNotCollideInTime == Spec => [](TimeFits => TokensDoNotCollide)
<1>1. IInv => (TimeFits => TokensDoNotCollide)
  BY TokensDistinct DEF TokensDoNotCollide
<1> QED BY <1>1, UdpTokenInvariant, PTL

\* A connection keeps its token until it is disconnected.
THEOREM TokenIsKeptHolds == Spec => TokenIsKept
<1> DEFINE Kept == \A c \in Client :
                     m_UDPToken[c] # NoToken => m_UDPToken'[c] \in {m_UDPToken[c], NoToken}
<1>1. IInv /\ [Next]_vars => [Kept]_vars
  <2> SUFFICES ASSUME IInv, [Next]_vars PROVE Kept
    OBVIOUS
  <2>1. ASSUME NEW c \in Client, ClearUDPToken(c) PROVE Kept
    BY <2>1 DEF ClearUDPToken, IInv, TypeOK
  <2>2. ASSUME NEW c \in Client, StoreUDPToken(c) PROVE Kept
    BY <2>2 DEF StoreUDPToken, IInv, TypeOK, NoneWhileIssuing
  <2>3. CASE UNCHANGED m_UDPToken
    BY <2>3
  <2> QED
    BY <2>1, <2>2, <2>3 DEF Next, Tick, DoAccept, ResetConnection, MakeUDPToken, GetUDPToken,
       SendToken, SendDatagram, LookUp, SetUDPIP, SendMsgUDP, vars, tokenVars
<1> QED BY <1>1, UdpTokenInvariant, PTL DEF Spec, TokenIsKept
=============================================================================
