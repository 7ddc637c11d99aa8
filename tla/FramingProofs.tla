---------------------------- MODULE FramingProofs ---------------------------
(***************************************************************************)
(* Proofs about Framing: whatever the clients send, however it is cut into *)
(* chunks, and for every size of the buffer and of the messages, the       *)
(* buffer holds the tail of the stream and the jobs are the messages.      *)
(***************************************************************************)
EXTENDS Framing, SequenceTheorems, WellFoundedInduction, TLAPS

-----------------------------------------------------------------------------
(* Induction over the elements of a set, and functions defined by recursion. *)

\* A set of numbers that is not empty has a least element.
LEMMA LeastNumber ==
    ASSUME NEW T, T \subseteq Nat, T # {}
    PROVE  \E x \in T : \A y \in T : x <= y
<1>1. PICK x \in T : \A y \in T : ~(<<y, x>> \in OpToRel(<, Nat))
  BY NatLessThanWellFounded, WFMin
<1>2. \A y \in T : ~(y < x)
  BY <1>1 DEF OpToRel
<1> QED BY <1>2

AgreeOnStep(f, g, n) == \A i \in 1 .. n : f[i - 1] = g[i - 1] => f[i] = g[i]

\* Two functions that agree at 0, and at i whenever they do at i - 1, agree.
LEMMA SameValues ==
    ASSUME NEW f, NEW g, NEW n \in Nat, f[0] = g[0], AgreeOnStep(f, g, n)
    PROVE  f[n] = g[n]
<1> DEFINE T == {i \in 0 .. n : f[i] # g[i]}
<1>1. SUFFICES ASSUME T # {} PROVE FALSE
  OBVIOUS
<1>2. T \subseteq Nat
  OBVIOUS
<1>3. PICK i \in T : \A j \in T : i <= j
  BY <1>1, <1>2, LeastNumber
<1>4. i \in 1 .. n /\ i - 1 \in 0 .. n
  BY <1>3
<1>5. i - 1 \notin T
  BY <1>3, <1>4
<1> QED BY <1>3, <1>4, <1>5 DEF AgreeOnStep

Steps(n, D) == [1 .. n -> [D -> D]]

\* f has values in D, the first one at 0, each further one a step from the one before.
IsRecursive(f, n, D, first, step) ==
    f \in [0 .. n -> D] /\ f[0] = first /\ \A i \in 1 .. n : f[i] = step[i][f[i - 1]]

\* A function defined by recursion on its argument exists.
LEMMA RecursiveFunction ==
    ASSUME NEW n \in Nat, NEW D, NEW first \in D, NEW step \in Steps(n, D)
    PROVE  \E f : IsRecursive(f, n, D, first, step)
<1> DEFINE IsUpTo(f, k) == \A i \in 0 .. k : f[i] = IF i = 0 THEN first ELSE step[i][f[i - 1]]
           T == {k \in 0 .. n : ~\E f \in [0 .. k -> D] : IsUpTo(f, k)}
<1> USE DEF Steps
<1>1. T = {}
  <2>1. SUFFICES ASSUME T # {} PROVE FALSE
    OBVIOUS
  <2>2. T \subseteq Nat
    OBVIOUS
  <2>3. PICK k \in T : \A m \in T : k <= m
    BY <2>1, <2>2, LeastNumber
  <2>4. k # 0
    <3> DEFINE f0 == [i \in 0 .. 0 |-> first]
    <3>1. f0 \in [0 .. 0 -> D] /\ IsUpTo(f0, 0)
      OBVIOUS
    <3> QED BY <2>3, <3>1
  <2>5. k - 1 \in 0 .. n /\ k - 1 \notin T /\ k \in 1 .. n
    BY <2>3, <2>4
  <2>6. PICK f \in [0 .. k - 1 -> D] : IsUpTo(f, k - 1)
    BY <2>5
  <2>7. step[k][f[k - 1]] \in D
    BY <2>5, <2>6
  <2> DEFINE g == [i \in 0 .. k |-> IF i = k THEN step[k][f[k - 1]] ELSE f[i]]
  <2>8. g \in [0 .. k -> D]
    BY <2>5, <2>6, <2>7
  <2>9. ASSUME NEW i \in 0 .. k
        PROVE  g[i] = IF i = 0 THEN first ELSE step[i][g[i - 1]]
    <3>1. CASE i = k
      <4>1. g[k] = step[k][f[k - 1]] /\ g[k - 1] = f[k - 1]
        BY <2>5
      <4> QED BY <2>5, <3>1, <4>1
    <3>2. CASE i # k
      <4>1. i \in 0 .. k - 1
        BY <2>5, <3>2
      <4>2. f[i] = IF i = 0 THEN first ELSE step[i][f[i - 1]]
        BY <2>6, <4>1
      <4>3. g[i] = f[i] /\ (i # 0 => g[i - 1] = f[i - 1])
        BY <2>5, <3>2, <4>1
      <4> QED BY <4>2, <4>3
    <3> QED BY <3>1, <3>2
  <2>10. IsUpTo(g, k)
    BY <2>9
  <2> QED BY <2>3, <2>8, <2>10
<1>2. PICK f \in [0 .. n -> D] : IsUpTo(f, n)
  BY <1>1
<1>3. f[0] = first /\ \A i \in 1 .. n : f[i] = step[i][f[i - 1]]
  BY <1>2
<1> QED BY <1>3 DEF IsRecursive

-----------------------------------------------------------------------------
(* Pieces of a sequence.                                                    *)

\* The n elements of s that follow the m-th.
LEMMA PieceIs ==
    ASSUME NEW S, NEW s, NEW m \in Nat, NEW n \in Nat, \A i \in m + 1 .. m + n : s[i] \in S
    PROVE  /\ SubSeq(s, m + 1, m + n) \in Seq(S)
           /\ Len(SubSeq(s, m + 1, m + n)) = n
           /\ \A i \in 1 .. n : SubSeq(s, m + 1, m + n)[i] = s[m + i]
<1> DEFINE a == m + 1
           b == m + n
<1>1. a \in Int /\ b \in Int /\ \A i \in a .. b : s[i] \in S
  OBVIOUS
<1>2. b - a + 1 = n /\ (a <= b <=> n # 0) /\ \A i \in 1 .. n : a + i - 1 = m + i
  OBVIOUS
<1>3. /\ SubSeq(s, a, b) \in Seq(S)
      /\ Len(SubSeq(s, a, b)) = IF a <= b THEN b - a + 1 ELSE 0
      /\ \A i \in 1 .. b - a + 1 : SubSeq(s, a, b)[i] = s[a + i - 1]
  <2> HIDE DEF a, b
  <2> QED BY <1>1, SubSeqProperties
<1>4. Len(SubSeq(s, a, b)) = n /\ \A i \in 1 .. n : SubSeq(s, a, b)[i] = s[m + i]
  <2> HIDE DEF a, b
  <2> QED BY <1>2, <1>3
<1> QED BY <1>3, <1>4

\* What follows s in s \o t is t.
LEMMA ConcatTail ==
    ASSUME NEW S, NEW s \in Seq(S), NEW t \in Seq(S)
    PROVE  /\ Len(s \o t) = Len(s) + Len(t)
           /\ \A k \in 1 .. Len(t) : (s \o t)[Len(s) + k] = t[k]
<1>1. Len(s) \in Nat /\ Len(t) \in Nat
  BY LenProperties
<1>2. \A k \in 1 .. Len(t) : Len(s) + k \in 1 .. Len(s) + Len(t) /\ ~(Len(s) + k <= Len(s)) /\ Len(s) + k - Len(s) = k
  BY <1>1
<1> QED BY <1>2, ConcatProperties

-----------------------------------------------------------------------------
(* The streams: where a message is in the stream of its client.             *)

\* Parts(s)[m]: the bytes of the first m messages of client s.
Parts(s) ==
    LET upTo[m \in 0 .. Len(Message[s])] ==
            IF m = 0 THEN <<>> ELSE upTo[m - 1] \o BytesOf(s, m)
    IN  upTo

\* Where message m ends.
At(s, m) == Len(Parts(s)[m])

Places == Client \X Nat \X Nat

NoBytes == <<>>

\* The messages and their lengths are what the assumption says of them.
LEMMA MessageType ==
    ASSUME NEW s \in Client
    PROVE  /\ Len(Message[s]) \in Nat /\ DOMAIN Message[s] = 1 .. Len(Message[s])
           /\ Client = 1 .. Len(Message) /\ Len(Message) \in Nat
           /\ \A m \in 1 .. Len(Message[s]) :
                /\ Message[s][m].length \in Nat \ {0}
                /\ Message[s][m].msgSize \in Nat
                /\ Message[s][m].known \in BOOLEAN
<1> DEFINE Fields == [length : Nat \ {0}, msgSize : Nat, known : BOOLEAN]
<1>1. Message \in Seq(Seq(Fields))
  BY FramingAssumption
<1>2. Client = 1 .. Len(Message) /\ Len(Message) \in Nat
  BY <1>1, LenProperties DEF Client
<1>3. Message[s] \in Seq(Fields)
  BY <1>1, <1>2, ElementOfSeq
<1>4. Len(Message[s]) \in Nat /\ DOMAIN Message[s] = 1 .. Len(Message[s])
  BY <1>3, LenProperties
<1>5. \A m \in 1 .. Len(Message[s]) : Message[s][m] \in Fields
  BY <1>3, <1>4, ElementOfSeq
<1> QED BY <1>2, <1>4, <1>5

\* The bytes of a message.
LEMMA BytesOfType ==
    ASSUME NEW s \in Client, NEW m \in 1 .. Len(Message[s])
    PROVE  /\ BytesOf(s, m) \in Seq(Places)
           /\ Len(BytesOf(s, m)) = Message[s][m].length
           /\ \A k \in 1 .. Message[s][m].length : BytesOf(s, m)[k] = <<s, m, k>>
<1>1. Message[s][m].length \in Nat /\ m \in Nat
  BY MessageType
<1>2. \A k \in 1 .. Message[s][m].length : <<s, m, k>> \in Places
  BY <1>1 DEF Places
<1>3. BytesOf(s, m) \in [1 .. Message[s][m].length -> Places]
  BY <1>2 DEF BytesOf
<1>4. \A k \in 1 .. Message[s][m].length : BytesOf(s, m)[k] = <<s, m, k>>
  BY DEF BytesOf
<1> QED BY <1>1, <1>3, <1>4, LenProperties

\* Parts(s) is a function into the sequences of bytes, and Stream[s] its last value.
LEMMA PartsFunction ==
    ASSUME NEW s \in Client
    PROVE  /\ Parts(s) \in [0 .. Len(Message[s]) -> Seq(Places)]
           /\ Parts(s)[0] = NoBytes
           /\ \A m \in 1 .. Len(Message[s]) : Parts(s)[m] = Parts(s)[m - 1] \o BytesOf(s, m)
           /\ Stream[s] = Parts(s)[Len(Message[s])]
<1> DEFINE N == Len(Message[s])
<1>1. N \in Nat
  BY MessageType
<1>2. PICK f \in [0 .. N -> Seq(Places)] :
        f[0] = NoBytes /\ \A m \in 1 .. N : f[m] = f[m - 1] \o BytesOf(s, m)
  <2> DEFINE step == [m \in 1 .. N |-> [x \in Seq(Places) |-> x \o BytesOf(s, m)]]
  <2>1. step \in [1 .. N -> [Seq(Places) -> Seq(Places)]]
    BY <1>1, BytesOfType, ConcatProperties
  <2>2. \A m \in 1 .. N : \A x \in Seq(Places) : step[m][x] = x \o BytesOf(s, m)
    OBVIOUS
  <2>3. NoBytes \in Seq(Places)
    BY DEF NoBytes
  <2>4. step \in Steps(N, Seq(Places))
    BY <2>1 DEF Steps
  <2>5. \A m \in 1 .. N : m - 1 \in 0 .. N
    BY <1>1
  <2> HIDE DEF step, N
  <2>6. PICK f : IsRecursive(f, N, Seq(Places), NoBytes, step)
    BY <1>1, <2>3, <2>4, RecursiveFunction
  <2>7. /\ f \in [0 .. N -> Seq(Places)] /\ f[0] = NoBytes
        /\ \A m \in 1 .. N : f[m] = step[m][f[m - 1]]
    BY <2>6 DEF IsRecursive
  <2>8. \A m \in 1 .. N : f[m - 1] \in Seq(Places)
    BY <2>5, <2>7, Zenon
  <2>9. \A m \in 1 .. N : f[m] = f[m - 1] \o BytesOf(s, m)
    BY <2>2, <2>7, <2>8, Zenon
  <2> QED BY <2>7, <2>9, Zenon
<1> DEFINE h == CHOOSE g : g = [m \in 0 .. N |-> IF m = 0 THEN NoBytes ELSE g[m - 1] \o BytesOf(s, m)]
<1>3. Parts(s) = h
  BY DEF Parts, NoBytes
<1>4. Stream[s] = h[N]
  BY DEF Stream, NoBytes
<1>5. f = [m \in 0 .. N |-> IF m = 0 THEN NoBytes ELSE f[m - 1] \o BytesOf(s, m)]
  <2> HIDE DEF h
  <2> QED BY <1>1, <1>2
<1>6. h = [m \in 0 .. N |-> IF m = 0 THEN NoBytes ELSE h[m - 1] \o BytesOf(s, m)]
  BY <1>5
<1> HIDE DEF h, N
<1>7. h[0] = NoBytes /\ \A m \in 1 .. N : h[m] = h[m - 1] \o BytesOf(s, m)
  <2>1. 0 \in 0 .. N /\ \A m \in 1 .. N : m \in 0 .. N /\ m # 0
    BY <1>1
  <2>2. \A m \in 0 .. N : h[m] = IF m = 0 THEN NoBytes ELSE h[m - 1] \o BytesOf(s, m)
    BY <1>6, Zenon
  <2> QED BY <2>1, <2>2, Zenon
<1>8. \A m \in 0 .. N : h[m] = f[m]
  <2>1. SUFFICES ASSUME NEW m \in 0 .. N PROVE h[m] = f[m]
    OBVIOUS
  <2>2. m \in Nat /\ \A i \in 1 .. m : i \in 1 .. N
    BY <1>1
  <2>3. AgreeOnStep(h, f, m)
    BY <1>2, <1>7, <2>2, Zenon DEF AgreeOnStep
  <2>4. h[0] = f[0]
    BY <1>2, <1>7, Zenon
  <2> QED BY <2>2, <2>3, <2>4, SameValues
<1>9. h = f
  BY <1>2, <1>6, <1>8
<1> QED BY <1>2, <1>3, <1>4, <1>9, Zenon DEF N

\* What the first m messages are, the first n are too, if n is at least m.
LEMMA PartsGrow ==
    ASSUME NEW s \in Client, NEW m \in 0 .. Len(Message[s]), NEW n \in m .. Len(Message[s])
    PROVE  /\ At(s, m) \in Nat /\ At(s, n) \in Nat /\ At(s, m) <= At(s, n)
           /\ \A k \in 1 .. At(s, m) : Parts(s)[n][k] = Parts(s)[m][k]
<1> DEFINE N == Len(Message[s])
           P == Parts(s)
           Agree(i) == Len(P[m]) <= Len(P[i]) /\ \A k \in 1 .. Len(P[m]) : P[i][k] = P[m][k]
           T == {i \in m .. N : ~Agree(i)}
<1>1. N \in Nat /\ P \in [0 .. N -> Seq(Places)] /\ \A i \in 1 .. N : P[i] = P[i - 1] \o BytesOf(s, i)
  BY MessageType, PartsFunction
<1>2. \A i \in 0 .. N : P[i] \in Seq(Places) /\ Len(P[i]) \in Nat
  BY <1>1, LenProperties
<1>3. T = {}
  <2>1. SUFFICES ASSUME T # {} PROVE FALSE
    OBVIOUS
  <2>2. T \subseteq Nat
    BY <1>1
  <2>3. PICK i \in T : \A j \in T : i <= j
    BY <2>1, <2>2, LeastNumber
  <2>4. Agree(m)
    BY <1>1, <1>2
  <2>5. i \in 1 .. N /\ i - 1 \in m .. N /\ i - 1 < i /\ i - 1 \in 0 .. N
    BY <1>1, <2>3, <2>4
  <2>6. Agree(i - 1)
    BY <2>3, <2>5
  <2> HIDE DEF P
  <2>7. /\ Len(P[i]) = Len(P[i - 1]) + Len(BytesOf(s, i))
        /\ \A k \in 1 .. Len(P[i - 1]) : P[i][k] = P[i - 1][k]
    <3>1. P[i] = P[i - 1] \o BytesOf(s, i) /\ P[i - 1] \in Seq(Places) /\ BytesOf(s, i) \in Seq(Places)
      BY <1>1, <1>2, <2>5, BytesOfType
    <3> QED BY <3>1
  <2>8. Len(BytesOf(s, i)) \in Nat /\ Len(P[i - 1]) \in Nat /\ Len(P[m]) \in Nat
    BY <1>1, <1>2, <2>5, BytesOfType, MessageType
  <2>9. Agree(i)
    BY <2>6, <2>7, <2>8, SMTT(30)
  <2> QED BY <2>3, <2>9
<1>4. Agree(n)
  BY <1>3
<1> QED BY <1>1, <1>2, <1>4 DEF At

\* Each message follows the one before it, byte by byte.
LEMMA StreamIs ==
    ASSUME NEW s \in Client
    PROVE  /\ Stream[s] \in Seq(Places) /\ Len(Stream[s]) \in Nat
           /\ At(s, 0) = 0
           /\ At(s, Len(Message[s])) = Len(Stream[s])
           /\ \A m \in 0 .. Len(Message[s]) : At(s, m) \in Nat /\ At(s, m) <= Len(Stream[s])
           /\ \A m \in 1 .. Len(Message[s]) :
                /\ At(s, m) = At(s, m - 1) + Message[s][m].length
                /\ \A k \in 1 .. Message[s][m].length : Stream[s][At(s, m - 1) + k] = <<s, m, k>>
<1> DEFINE N == Len(Message[s])
           P == Parts(s)
<1>1. /\ N \in Nat /\ P \in [0 .. N -> Seq(Places)] /\ P[0] = NoBytes /\ Stream[s] = P[N]
      /\ \A i \in 1 .. N : P[i] = P[i - 1] \o BytesOf(s, i)
  BY MessageType, PartsFunction
<1>2. \A i \in 0 .. N : P[i] \in Seq(Places) /\ Len(P[i]) \in Nat
  BY <1>1, LenProperties
<1>3. Len(NoBytes) = 0
  BY DEF NoBytes
<1>4. ASSUME NEW m \in 0 .. N
      PROVE  At(s, m) \in Nat /\ At(s, m) <= Len(Stream[s])
  <2>1. N \in m .. N
    BY <1>1
  <2> QED BY <1>1, <2>1, PartsGrow DEF At
<1>5. ASSUME NEW m \in 1 .. N
      PROVE  /\ At(s, m) = At(s, m - 1) + Message[s][m].length
             /\ \A k \in 1 .. Message[s][m].length : Stream[s][At(s, m - 1) + k] = <<s, m, k>>
  <2>1. m - 1 \in 0 .. N /\ m \in 0 .. N /\ N \in m .. N /\ Message[s][m].length \in Nat
    BY <1>1, MessageType
  <2> HIDE DEF P
  <2>2. /\ Len(P[m]) = Len(P[m - 1]) + Message[s][m].length
        /\ \A k \in 1 .. Message[s][m].length : P[m][Len(P[m - 1]) + k] = <<s, m, k>>
    <3>1. P[m] = P[m - 1] \o BytesOf(s, m) /\ P[m - 1] \in Seq(Places) /\ Len(P[m - 1]) \in Nat
      BY <1>1, <1>2, <2>1
    <3>2. /\ BytesOf(s, m) \in Seq(Places) /\ Len(BytesOf(s, m)) = Message[s][m].length
          /\ \A k \in 1 .. Message[s][m].length : BytesOf(s, m)[k] = <<s, m, k>>
      BY BytesOfType
    <3>3. /\ Len(P[m]) = Len(P[m - 1]) + Len(BytesOf(s, m))
          /\ \A k \in 1 .. Len(BytesOf(s, m)) : P[m][Len(P[m - 1]) + k] = BytesOf(s, m)[k]
      <4>1. /\ Len(P[m - 1] \o BytesOf(s, m)) = Len(P[m - 1]) + Len(BytesOf(s, m))
            /\ \A k \in 1 .. Len(BytesOf(s, m)) :
                 (P[m - 1] \o BytesOf(s, m))[Len(P[m - 1]) + k] = BytesOf(s, m)[k]
        <5>1. P[m - 1] \in Seq(Places) /\ BytesOf(s, m) \in Seq(Places)
          BY <3>1, <3>2
        <5> QED BY <5>1, ConcatTail
      <4>2. P[m] = P[m - 1] \o BytesOf(s, m)
        BY <3>1
      <4> QED BY <4>1, <4>2, Zenon
    <3> QED BY <3>2, <3>3, Zenon
  <2>3. \A k \in 1 .. Len(P[m]) : P[N][k] = P[m][k]
    BY <2>1, PartsGrow DEF At, P
  <2>4. ASSUME NEW k \in 1 .. Message[s][m].length
        PROVE  Stream[s][Len(P[m - 1]) + k] = <<s, m, k>>
    <3>1. Len(P[m - 1]) + k \in 1 .. Len(P[m])
      BY <1>2, <2>1, <2>2
    <3> QED BY <1>1, <2>2, <2>3, <3>1
  <2> QED BY <2>2, <2>4 DEF At, P
<1>6. At(s, 0) = 0 /\ At(s, N) = Len(Stream[s])
  BY <1>1, <1>3 DEF At
<1>7. Stream[s] \in Seq(Places) /\ Len(Stream[s]) \in Nat
  <2>1. N \in 0 .. N
    BY <1>1
  <2> HIDE DEF P, N
  <2> QED BY <1>1, <1>2, <2>1
<1> QED BY <1>4, <1>5, <1>6, <1>7, Zenon

-----------------------------------------------------------------------------
(* The invariant.                                                           *)

\* The present client is not broken.
Clean == session \in Client \ broken

\* How far the stream has come to the buffer.
End == received - Len(chunk)

\* How many jobs were made of the present client's messages.
Made == Len(jobs[session])

Whole(s, n) == \A m \in 1 .. n : m \in DOMAIN Message[s] /\ Sound(s, m)

\* A message whose length can be read.
Framed(s, m) ==
    /\ m \in DOMAIN Message[s]
    /\ Message[s][m].msgSize = Message[s][m].length
    /\ LengthSize <= Message[s][m].length

\* Clients that put the length of each message in front of it.
WellFramed == \A s \in Client : \A m \in DOMAIN Message[s] : Framed(s, m)

Types ==
    /\ TypeOK
    /\ connected => session # 0
    /\ chunk = <<>> \/ pc # "popping"
    /\ jobs \in [Client -> Seq(Seq(Byte \cup {Unset}))]
    /\ \A s \in Client : s > session => jobs[s] = <<>>

\* The buffer and the chunk hold what the client sent last, the chunk fits, the
\* buffer has grown since a view of it was taken, and was not cleared since its
\* size was read.
BufferIsTail ==
    connected /\ Clean =>
        /\ received <= Len(Stream[session])
        /\ m_Size <= End
        /\ m_Size + Len(chunk) <= Capacity
        /\ \A i \in 1 .. m_Size : m_pData[i] = Stream[session][End - m_Size + i]
        /\ \A i \in 1 .. Len(chunk) : chunk[i] = Stream[session][End + i]
        /\ view <= m_Size
        /\ m_RecvLock # "free" => seen = m_Size

\* Between two clients, unless both are broken, the buffer is empty and stays so.
EmptyBetween ==
    ~connected /\ ({session, session + 1} \cap Client) \ broken # {} =>
        m_Size = 0 /\ m_RecvLock = "free"

\* The buffer begins where the last message made a job ends, or, until its bytes
\* are removed, where it begins.
BufferIsNext ==
    connected /\ Clean /\ Whole(session, Made) =>
        IF pc \in {"idle", "create"}
        THEN End - m_Size = At(session, Made)
        ELSE /\ Made # 0
             /\ view = Message[session][Made].length
             /\ End - m_Size = At(session, Made - 1)

\* A view is of the next message, if its length can be read; its bytes stay there
\* even when the client goes.
ViewIsNext ==
    pc = "create" /\ Clean =>
        /\ view <= Capacity
        /\ Whole(session, Made) =>
             /\ Made + 1 \in DOMAIN Message[session]
             /\ Framed(session, Made + 1) =>
                  /\ view = Message[session][Made + 1].length
                  /\ \A k \in 1 .. view : m_pData[k] = <<session, Made + 1, k>>

IInv ==
    /\ Types
    /\ BufferIsTail
    /\ EmptyBetween
    /\ BufferIsNext
    /\ ViewIsNext
    /\ JobsAreMessages
    /\ WellFramed => \A s \in Client \ broken : Whole(s, Len(jobs[s]))

-----------------------------------------------------------------------------
(* What the invariant says, and where it starts.                            *)

\* The bytes of a stream.
LEMMA StreamByte ==
    ASSUME NEW s \in Client, NEW k \in 1 .. Len(Stream[s])
    PROVE  Stream[s][k] \in Byte
<1>1. DOMAIN Stream[s] = 1 .. Len(Stream[s])
  BY StreamIs, LenProperties
<1>2. Stream[s][k] \in {Stream[s][j] : j \in DOMAIN Stream[s]}
  BY <1>1, Zenon
<1> DEFINE bytes == {{Stream[t][j] : j \in DOMAIN Stream[t]} : t \in Client}
<1>3. {Stream[s][j] : j \in DOMAIN Stream[s]} \in bytes
  BY Zenon
<1> QED BY <1>2, <1>3, Zenon DEF Byte

\* The numbers of a state.
LEMMA StateNumbers ==
    ASSUME Types
    PROVE  /\ m_Size \in Nat /\ m_Size < Width /\ Width \in Nat /\ Width # 0
           /\ session \in Nat /\ received \in Nat /\ view \in Nat /\ seen \in Nat /\ seen < Width
           /\ Len(chunk) \in Nat /\ Len(Message) \in Nat /\ Client = 1 .. Len(Message)
           /\ Len(chunk) = 0 <=> chunk = <<>>
           /\ chunk # <<>> => Len(chunk) \in ChunkSize /\ Capacity + Len(chunk) < Width
           /\ connected => session \in Client
           /\ Capacity \in Nat
<1>1. Width \in Nat /\ Width # 0 /\ Capacity \in Nat /\ \A n \in ChunkSize : Capacity + n < Width
  BY FramingAssumption
<1>2. chunk \in Seq(Byte) /\ (chunk = <<>> \/ Len(chunk) \in ChunkSize)
  BY DEF Types, TypeOK
<1>3. Len(chunk) \in Nat /\ (Len(chunk) = 0 <=> chunk = <<>>)
  BY <1>2, LenProperties, EmptySeq
<1>4. Len(Message) \in Nat /\ Client = 1 .. Len(Message)
  BY FramingAssumption, LenProperties DEF Client
<1>5. /\ m_Size \in 0 .. Width - 1 /\ session \in 0 .. Len(Message) /\ received \in Nat
      /\ view \in 0 .. PacketSize /\ seen \in 0 .. Width - 1
      /\ connected => session # 0
  BY DEF Types, TypeOK
<1>6. PacketSize \in Nat
  BY FramingAssumption
<1> QED BY <1>1, <1>2, <1>3, <1>4, <1>5, <1>6

\* The jobs of a client are a sequence.
LEMMA MadeType ==
    ASSUME Types, NEW s \in Client
    PROVE  jobs[s] \in Seq(Seq(Byte \cup {Unset})) /\ Len(jobs[s]) \in Nat
           /\ DOMAIN jobs[s] = 1 .. Len(jobs[s])
<1>1. jobs[s] \in Seq(Seq(Byte \cup {Unset}))
  BY DEF Types
<1> QED BY <1>1, LenProperties

\* The bytes at the front of the buffer belong to one message.
LEMMA InFrontIs ==
    ASSUME NEW s \in Client, NEW m \in DOMAIN Message[s], NEW n \in 1 .. Message[s][m].length,
           n <= Capacity, \A k \in 1 .. n : m_pData[k] = <<s, m, k>>
    PROVE  InFront(n) = {<<s, m>>}
<1>1. <<s, m>> \in Messages /\ StartsWith(s, m, n)
  BY MessageType DEF Messages, StartsWith
<1>2. ASSUME NEW sm \in Messages, StartsWith(sm[1], sm[2], n)
      PROVE  sm = <<s, m>>
  <2>1. PICK a, b : a \in Client /\ b \in DOMAIN Message[a] /\ sm = <<a, b>>
    BY DEF Messages
  <2>2. 1 \in 1 .. n
    BY MessageType
  <2>3. m_pData[1] = <<a, b, 1>> /\ m_pData[1] = <<s, m, 1>>
    BY <1>2, <2>1, <2>2 DEF StartsWith
  <2> QED BY <2>1, <2>3
<1> QED BY <1>1, <1>2 DEF InFront

\* The invariant gives the properties.
LEMMA IInvImplies == IInv => StoredIsTail /\ JobsAreMessages /\ (WellFramed => NothingPastMalformed)
<1> SUFFICES ASSUME IInv PROVE StoredIsTail /\ (WellFramed => NothingPastMalformed)
  BY DEF IInv
<1>1. Types
  BY DEF IInv
<1>2. ASSUME connected, session \notin broken
      PROVE  m_Size <= End /\ Stored = SubSeq(Stream[session], End - m_Size + 1, End)
  <2>1. session \in Client /\ Clean
    BY <1>1, <1>2, StateNumbers DEF Clean
  <2>2. /\ m_Size \in Nat /\ End \in Int /\ m_Size <= End /\ m_Size <= Capacity /\ Capacity \in Nat
        /\ \A i \in 1 .. m_Size : m_pData[i] = Stream[session][End - m_Size + i]
    BY <1>1, <1>2, <2>1, StateNumbers DEF IInv, BufferIsTail, End
  <2>3. Stored = [i \in 1 .. m_Size |-> m_pData[i]]
    BY <2>2 DEF Stored
  <2>4. SubSeq(Stream[session], End - m_Size + 1, End)
          = [i \in 1 .. m_Size |-> Stream[session][End - m_Size + i]]
    BY <2>2
  <2> QED BY <2>2, <2>3, <2>4
<1>3. StoredIsTail
  BY <1>1, <1>2 DEF StoredIsTail, Types, End
<1>4. ASSUME WellFramed, NEW s \in Client \ broken, NEW m \in DOMAIN Message[s], Len(jobs[s]) >= m
      PROVE  Sound(s, m)
  <2>1. Whole(s, Len(jobs[s]))
    BY <1>4 DEF IInv
  <2>2. m \in 1 .. Len(jobs[s])
    BY <1>1, <1>4, MadeType, MessageType
  <2> QED BY <2>1, <2>2 DEF Whole
<1> QED BY <1>3, <1>4 DEF NothingPastMalformed

\* Before the first client there is nothing.
LEMMA InitIInv == Init => IInv
<1> SUFFICES ASSUME Init PROVE IInv
  OBVIOUS
<1>1. Len(Message) \in Nat /\ Width \in Nat \ {0} /\ Capacity \in Nat /\ PacketSize \in Nat /\ NoBytes \in Seq(Byte)
  BY FramingAssumption, LenProperties DEF NoBytes
<1>2. \A s \in Client : jobs[s] = NoBytes
  BY DEF Init, NoBytes
<1>3. Len(NoBytes) = 0 /\ NoBytes \in Seq(Seq(Byte \cup {Unset}))
  BY DEF NoBytes
<1>4. chunk = NoBytes /\ broken = {} /\ session = 0 /\ connected = FALSE /\ pc = "idle" /\ m_Size = 0
  BY DEF Init, NoBytes
<1>5. TypeOK
  <2>1. m_pData \in [1 .. Capacity -> Byte \cup {Unset}]
    BY DEF Init
  <2>2. chunk = <<>> /\ chunk \in Seq(Byte)
    BY <1>4 DEF NoBytes
  <2>3. /\ m_Size \in 0 .. Width - 1 /\ session \in 0 .. Len(Message) /\ connected \in BOOLEAN
        /\ received \in Nat /\ pc \in {"idle", "create", "pop", "popping"} /\ view \in 0 .. PacketSize
        /\ (view = 0 <=> pc = "idle") /\ seen \in 0 .. Width - 1 /\ seen = 0 /\ broken \subseteq Client
    <3>1. /\ received = 0 /\ view = 0 /\ seen = 0 /\ session = 0 /\ m_Size = 0 /\ pc = "idle"
          /\ connected = FALSE /\ broken = {}
      BY DEF Init
    <3>2. 0 \in 0 .. Width - 1 /\ 0 \in 0 .. Len(Message) /\ 0 \in 0 .. PacketSize /\ 0 \in Nat
      BY <1>1
    <3> QED BY <3>1, <3>2, Zenon
  <2> QED BY <2>1, <2>2, <2>3, Zenon DEF TypeOK
<1>6. jobs \in [Client -> Seq(Seq(Byte \cup {Unset}))]
  BY <1>3 DEF Init, NoBytes
<1>7. Types
  BY <1>2, <1>4, <1>5, <1>6 DEF Types, NoBytes
<1>8. \A s \in Client : Len(jobs[s]) = 0 /\ DOMAIN jobs[s] = {}
  BY <1>2, <1>3 DEF NoBytes
<1>9. JobsAreMessages /\ \A s \in Client \ broken : Whole(s, Len(jobs[s]))
  BY <1>8 DEF JobsAreMessages, Whole
<1>10. m_RecvLock = "free"
  BY <1>4 DEF m_RecvLock, NoBytes
<1> QED BY <1>4, <1>7, <1>9, <1>10 DEF IInv, BufferIsTail, EmptyBetween, BufferIsNext, ViewIsNext

\* What was made of a client's messages stays as it is while no job is made.
LEMMA JobsKept ==
    ASSUME IInv, jobs' = jobs, broken \subseteq broken'
    PROVE  /\ JobsAreMessages'
           /\ (WellFramed => \A s \in Client \ broken : Whole(s, Len(jobs[s])))'
BY DEF IInv, JobsAreMessages, Whole, Sound, BytesOf, WellFramed, Framed

-----------------------------------------------------------------------------
(* The IO thread's steps and the client's.                                  *)

\* The next client finds the slot as it is, or comes while a call is going on.
LEMMA DoAcceptStep == IInv /\ DoAccept => IInv'
<1> SUFFICES ASSUME IInv, DoAccept PROVE IInv'
  OBVIOUS
<1>1. Types
  BY DEF IInv
<1>2. /\ ~connected /\ session < Len(Message) /\ connected' = TRUE /\ session' = session + 1 /\ received' = 0
      /\ broken' = IF pc = "idle" /\ chunk = <<>> THEN broken ELSE broken \cup {session + 1}
      /\ m_pData' = m_pData /\ m_Size' = m_Size /\ pc' = pc /\ view' = view /\ chunk' = chunk
      /\ seen' = seen /\ jobs' = jobs
  BY DEF DoAccept, memVars, workerVars
<1>3. session' \in Client /\ session' \in Nat /\ session' # 0
  BY <1>1, <1>2, StateNumbers
<1>4. m_RecvLock' = m_RecvLock
  BY <1>2 DEF m_RecvLock
<1>5. Types'
  <2>1. \A s \in Client : s > session' => jobs[s] = <<>>
    BY <1>1, <1>2, StateNumbers, SMTT(30) DEF Types
  <2>2. broken' \subseteq Client /\ session' \in 0 .. Len(Message)
    BY <1>1, <1>2, <1>3, StateNumbers DEF Types, TypeOK
  <2>3. TypeOK'
    BY <1>1, <1>2, <1>4, <2>2 DEF Types, TypeOK
  <2> QED BY <1>1, <1>2, <1>3, <2>1, <2>3 DEF Types
<1>6. ASSUME Clean'
      PROVE  m_Size = 0 /\ m_RecvLock = "free" /\ pc = "idle" /\ Len(chunk) = 0 /\ view = 0
  <2>1. pc = "idle" /\ chunk = <<>> /\ session + 1 \in Client \ broken
    BY <1>2, <1>6 DEF Clean
  <2>2. m_Size = 0 /\ m_RecvLock = "free"
    BY <1>2, <2>1 DEF IInv, EmptyBetween
  <2> QED BY <1>1, <2>1, <2>2, StateNumbers DEF Types, TypeOK
<1>7. BufferIsTail'
  <2>1. Len(Stream[session']) \in Nat \/ ~Clean'
    BY <1>3, StreamIs
  <2> QED BY <1>1, <1>2, <1>4, <1>6, <2>1, StateNumbers DEF BufferIsTail, End, Clean
<1>8. EmptyBetween'
  BY <1>2 DEF EmptyBetween
<1>9. BufferIsNext'
  <2>1. jobs[session'] = <<>>
    BY <1>1, <1>2, <1>3, StateNumbers DEF Types
  <2>2. Made' = 0
    BY <1>2, <2>1 DEF Made
  <2>3. At(session', 0) = 0
    BY <1>3, StreamIs
  <2> QED BY <1>2, <1>6, <2>2, <2>3 DEF BufferIsNext, End
<1>10. ViewIsNext'
  BY <1>2, <1>6 DEF ViewIsNext
<1> QED BY <1>2, <1>5, <1>7, <1>8, <1>9, <1>10, JobsKept DEF IInv

\* A chunk that fits continues the stream; one that does not cuts it.
LEMMA DoTCPRecvStep == ASSUME IInv, NEW n \in ChunkSize, DoTCPRecv(n) PROVE IInv'
<1>1. Types
  BY DEF IInv
<1>2. /\ connected /\ m_RecvLock = "free" /\ received + n <= Len(Stream[session]) /\ received' = received + n
      /\ m_pData' = m_pData /\ m_Size' = m_Size /\ session' = session /\ connected' = connected
      /\ pc' = pc /\ view' = view /\ jobs' = jobs
  BY DEF DoTCPRecv, memVars, workerVars
<1>3. /\ n \in Nat /\ n # 0 /\ Capacity + n < Width /\ Capacity \in Nat
  BY FramingAssumption
<1>4. chunk = <<>> /\ Len(chunk) = 0 /\ pc # "popping" /\ session \in Client /\ received \in Nat
  BY <1>1, <1>2, StateNumbers DEF m_RecvLock
<1>5. EmptyBetween'
  BY <1>2 DEF EmptyBetween
<1>6. CASE Fits(n)
  <2>1. chunk' = SubSeq(Stream[session], received + 1, received + n) /\ seen' = m_Size /\ broken' = broken
    BY <1>6 DEF DoTCPRecv
  <2>2. /\ chunk' \in Seq(Byte) /\ Len(chunk') = n
        /\ \A i \in 1 .. n : chunk'[i] = Stream[session][received + i]
    <3>1. \A i \in received + 1 .. received + n : Stream[session][i] \in Byte
      BY <1>2, <1>3, <1>4, StreamIs, StreamByte
    <3>2. n \in Nat /\ received \in Nat
      BY <1>3, <1>4
    <3> QED BY <2>1, <3>1, <3>2, PieceIs
  <2>3. chunk' # <<>>
    BY <1>3, <2>2
  <2>4. m_RecvLock' = "io"
    BY <2>3 DEF m_RecvLock
  <2>5. Types'
    <3>1. TypeOK'
      BY <1>1, <1>2, <1>3, <1>4, <2>1, <2>2, <2>4 DEF Types, TypeOK
    <3> QED BY <1>1, <1>2, <1>4, <3>1 DEF Types
  <2>6. ASSUME Clean
        PROVE  /\ received <= Len(Stream[session]) /\ m_Size <= received /\ m_Size <= Capacity
               /\ \A i \in 1 .. m_Size : m_pData[i] = Stream[session][received - m_Size + i]
               /\ view <= m_Size
    BY <1>1, <1>2, <1>4, <2>6, StateNumbers DEF IInv, BufferIsTail, End
  <2>7. ASSUME Clean
        PROVE  m_Size + n <= Capacity
    <3>1. m_Size + n \in 0 .. Width - 1 /\ Width \in Nat
      BY <1>1, <1>3, <2>6, <2>7, StateNumbers
    <3>2. (m_Size + n) % Width = m_Size + n
      BY <3>1
    <3> QED BY <1>6, <3>2 DEF Fits
  <2>8. Clean' <=> Clean
    BY <1>2, <2>1 DEF Clean
  <2>9. End' = received /\ received' - n = received
    BY <1>2, <1>3, <1>4, <2>2 DEF End
  <2>10. Len(Stream[session]) \in Nat
    BY <1>4, StreamIs
  <2>11. BufferIsTail'
    BY <1>1, <1>2, <1>3, <1>4, <2>1, <2>2, <2>6, <2>7, <2>8, <2>9, <2>10, StateNumbers DEF BufferIsTail
  <2>12. End = received
    BY <1>1, <1>4 DEF End
  <2>13. BufferIsNext'
    BY <1>2, <2>8, <2>9, <2>12 DEF IInv, BufferIsNext, Made, Whole, Sound
  <2>14. ViewIsNext'
    BY <1>2, <2>8 DEF IInv, ViewIsNext, Made, Whole, Sound, Framed
  <2> QED BY <1>2, <1>5, <2>1, <2>5, <2>11, <2>13, <2>14, JobsKept DEF IInv
<1>7. CASE ~Fits(n)
  <2>1. chunk' = chunk /\ seen' = seen /\ broken' = broken \cup {session}
    BY <1>7 DEF DoTCPRecv
  <2>2. ~Clean'
    BY <1>2, <2>1 DEF Clean
  <2>3. m_RecvLock' = m_RecvLock
    BY <1>2, <2>1 DEF m_RecvLock
  <2>4. TypeOK'
    BY <1>1, <1>2, <1>3, <1>4, <2>1, <2>3 DEF Types, TypeOK
  <2>5. Types'
    BY <1>1, <1>2, <2>1, <2>4 DEF Types
  <2> QED BY <1>2, <1>5, <2>1, <2>2, <2>5, JobsKept DEF IInv, BufferIsTail, BufferIsNext, ViewIsNext
<1> QED BY <1>6, <1>7

\* What is appended continues what is stored, unless the buffer was cleared meanwhile.
LEMMA EnqueueStep == IInv /\ Enqueue => IInv'
<1> SUFFICES ASSUME IInv, Enqueue PROVE IInv'
  OBVIOUS
<1>1. Types
  BY DEF IInv
<1>2. /\ chunk # <<>> /\ chunk' = <<>> /\ seen' = 0
      /\ session' = session /\ connected' = connected /\ received' = received
      /\ pc' = pc /\ view' = view /\ jobs' = jobs /\ broken' = broken
  BY DEF Enqueue, connVars, workerVars, history
<1>3. PICK a, b : /\ a \in {seen, m_Size} /\ b \in {seen, m_Size}
                  /\ m_pData' = [i \in 1 .. Capacity |->
                                    IF i \in a + 1 .. a + Len(chunk) THEN chunk[i - a] ELSE m_pData[i]]
                  /\ m_Size' = (b + Len(chunk)) % Width
  <2>1. PICK read \in {<<seen, seen>>, <<seen, m_Size>>, <<m_Size, m_Size>>} :
             /\ m_pData' = [i \in 1 .. Capacity |->
                               IF i \in read[1] + 1 .. read[1] + Len(chunk)
                               THEN chunk[i - read[1]] ELSE m_pData[i]]
             /\ m_Size' = (read[2] + Len(chunk)) % Width
    BY DEF Enqueue
  <2>2. read[1] \in {seen, m_Size} /\ read[2] \in {seen, m_Size}
    BY <2>1
  <2> QED BY <2>1, <2>2
<1>4. /\ a \in Nat /\ b \in Nat /\ Len(chunk) \in Nat /\ Len(chunk) # 0 /\ Capacity + Len(chunk) < Width
      /\ m_Size \in Nat /\ received \in Nat /\ view \in Nat /\ Capacity \in Nat /\ Width \in Nat /\ Width # 0
  BY <1>1, <1>2, <1>3, StateNumbers
<1>5. m_RecvLock = "io" /\ m_RecvLock' = "free" /\ pc # "popping" /\ Len(chunk') = 0
  BY <1>1, <1>2 DEF m_RecvLock, Types
<1>6. Types'
  <2>1. m_pData' \in [1 .. Capacity -> Byte \cup {Unset}]
    <3>1. chunk \in Seq(Byte) /\ m_pData \in [1 .. Capacity -> Byte \cup {Unset}]
      BY <1>1 DEF Types, TypeOK
    <3>2. \A i \in 1 .. Capacity : i \in a + 1 .. a + Len(chunk) => chunk[i - a] \in Byte
      <4>1. \A i \in 1 .. Capacity : i \in a + 1 .. a + Len(chunk) => i - a \in 1 .. Len(chunk)
        BY <1>4
      <4> QED BY <3>1, <4>1, ElementOfSeq
    <3> QED BY <1>3, <3>1, <3>2
  <2>2. m_Size' \in 0 .. Width - 1
    BY <1>3, <1>4
  <2>3. chunk' \in Seq(Byte) /\ seen' \in 0 .. Width - 1
    BY <1>2, <1>4
  <2>4. TypeOK'
    BY <1>1, <1>2, <1>5, <2>1, <2>2, <2>3 DEF Types, TypeOK
  <2> QED BY <1>1, <1>2, <2>4 DEF Types
<1>7. Clean' <=> Clean
  BY <1>2 DEF Clean
<1>8. ASSUME Clean
      PROVE  /\ connected /\ a = m_Size /\ b = m_Size /\ view <= m_Size
             /\ m_Size + Len(chunk) <= Capacity
             /\ m_Size' = m_Size + Len(chunk)
  <2>1. connected
    BY <1>5, <1>8 DEF IInv, EmptyBetween, Clean
  <2>2. a = m_Size /\ b = m_Size /\ view <= m_Size /\ m_Size + Len(chunk) <= Capacity
    BY <1>3, <1>5, <1>8, <2>1 DEF IInv, BufferIsTail
  <2>3. m_Size + Len(chunk) \in 0 .. Width - 1
    BY <1>4, <2>2
  <2>4. (m_Size + Len(chunk)) % Width = m_Size + Len(chunk)
    BY <1>4, <2>3
  <2> QED BY <1>3, <2>1, <2>2, <2>4
<1>9. ASSUME Clean
      PROVE  \A i \in 1 .. Capacity :
               m_pData'[i] = IF i \in m_Size + 1 .. m_Size + Len(chunk) THEN chunk[i - m_Size] ELSE m_pData[i]
  BY <1>3, <1>8, <1>9
<1>10. End' = received /\ End = received - Len(chunk)
  BY <1>2, <1>4, <1>5 DEF End
<1>11. BufferIsTail'
  <2>1. SUFFICES ASSUME Clean
                 PROVE  /\ received <= Len(Stream[session])
                        /\ m_Size' <= received
                        /\ m_Size' <= Capacity
                        /\ \A i \in 1 .. m_Size' : m_pData'[i] = Stream[session][received - m_Size' + i]
                        /\ view <= m_Size'
    <3>1. m_Size' \in 0 .. Width - 1 /\ m_Size' \in Nat
      BY <1>4, <1>6 DEF Types, TypeOK
    <3>3. m_Size' + 0 = m_Size'
      BY <3>1
    <3>2. \A i : i \notin 1 .. Len(chunk')
      BY <1>5
    <3> QED BY <1>2, <1>5, <1>7, <1>10, <2>1, <3>3, <3>2 DEF BufferIsTail
  <2>2. /\ received <= Len(Stream[session])
        /\ m_Size <= received - Len(chunk)
        /\ \A i \in 1 .. m_Size : m_pData[i] = Stream[session][received - Len(chunk) - m_Size + i]
        /\ \A i \in 1 .. Len(chunk) : chunk[i] = Stream[session][received - Len(chunk) + i]
    BY <1>8, <1>10, <2>1 DEF IInv, BufferIsTail
  <2>3. ASSUME NEW i \in 1 .. m_Size'
        PROVE  m_pData'[i] = Stream[session][received - m_Size' + i]
    <3>1. CASE i <= m_Size
      <4>1. i \in 1 .. m_Size /\ i \in 1 .. Capacity /\ i \notin m_Size + 1 .. m_Size + Len(chunk)
            /\ received - m_Size' + i = received - Len(chunk) - m_Size + i
        BY <1>4, <1>8, <2>1, <3>1
      <4> QED BY <1>9, <2>1, <2>2, <4>1
    <3>2. CASE ~(i <= m_Size)
      <4>1. i - m_Size \in 1 .. Len(chunk) /\ i \in 1 .. Capacity /\ i \in m_Size + 1 .. m_Size + Len(chunk)
            /\ received - m_Size' + i = received - Len(chunk) + (i - m_Size)
        BY <1>4, <1>8, <2>1, <3>2
      <4> QED BY <1>9, <2>1, <2>2, <4>1
    <3> QED BY <3>1, <3>2
  <2>4. m_Size' <= received /\ m_Size' <= Capacity /\ view <= m_Size'
    BY <1>4, <1>8, <2>1, <2>2
  <2> QED BY <2>2, <2>3, <2>4
<1>12. EmptyBetween'
  BY <1>2, <1>5 DEF IInv, EmptyBetween
<1>13. BufferIsNext'
  <2>1. Clean => End' - m_Size' = End - m_Size
    BY <1>4, <1>8, <1>10
  <2> QED BY <1>2, <1>7, <2>1 DEF IInv, BufferIsNext, Made, Whole, Sound
<1>14. ViewIsNext'
  <2>1. Clean => \A k \in 1 .. view : k \in 1 .. Capacity => m_pData'[k] = m_pData[k]
    BY <1>4, <1>8, <1>9
  <2>2. Clean => \A k \in 1 .. view : m_pData'[k] = m_pData[k]
    BY <1>4, <1>8, <2>1
  <2> QED BY <1>2, <1>7, <2>2 DEF IInv, ViewIsNext, Made, Whole, Sound, Framed
<1> QED BY <1>2, <1>6, <1>11, <1>12, <1>13, <1>14, JobsKept DEF IInv

\* A clear in the middle of a call leaves nothing to say of this client and the next.
LEMMA DoDisconnectStep == IInv /\ DoDisconnect => IInv'
<1> SUFFICES ASSUME IInv, DoDisconnect PROVE IInv'
  OBVIOUS
<1>1. Types
  BY DEF IInv
<1>2. /\ connected' = FALSE /\ m_Size' = 0
      /\ broken' = IF m_RecvLock = "free" THEN broken ELSE broken \cup ({session, session + 1} \cap Client)
      /\ m_pData' = m_pData /\ session' = session /\ received' = received /\ chunk' = chunk
      /\ pc' = pc /\ view' = view /\ seen' = seen /\ jobs' = jobs
  BY DEF DoDisconnect, workerVars
<1>3. m_RecvLock' = m_RecvLock
  BY <1>2 DEF m_RecvLock
<1>4. broken \subseteq broken' /\ (Clean' => Clean)
  BY <1>2 DEF Clean
<1>5. Types'
  <2>1. TypeOK'
    <3>1. m_Size' \in 0 .. Width - 1
      BY <1>1, <1>2, StateNumbers
    <3>2. broken' \subseteq Client /\ connected' \in BOOLEAN
      BY <1>1, <1>2 DEF Types, TypeOK
    <3> QED BY <1>1, <1>2, <1>3, <3>1, <3>2 DEF Types, TypeOK
  <2> QED BY <1>1, <1>2, <2>1 DEF Types
<1>6. EmptyBetween'
  BY <1>2, <1>3 DEF EmptyBetween
<1>7. ViewIsNext'
  BY <1>2, <1>4 DEF IInv, ViewIsNext, Made, Whole, Sound, Framed
<1> QED BY <1>2, <1>4, <1>5, <1>6, <1>7, JobsKept DEF IInv, BufferIsTail, BufferIsNext

-----------------------------------------------------------------------------
(* The worker's steps.                                                      *)

\* The messages made jobs are the client's first ones.
LEMMA WholeIs ==
    ASSUME NEW s \in Client, NEW n \in Nat, Whole(s, n)
    PROVE  n \in 0 .. Len(Message[s])
<1>1. n # 0 => n \in 1 .. n
  OBVIOUS
<1>2. n # 0 => n \in DOMAIN Message[s]
  BY <1>1 DEF Whole
<1> QED BY <1>2, MessageType

\* A view is of the message that follows the last job.
LEMMA GetReqMessageStep == IInv /\ GetReqMessage => IInv'
<1> SUFFICES ASSUME IInv, GetReqMessage PROVE IInv'
  OBVIOUS
<1>1. Types
  BY DEF IInv
<1>2. PICK len \in Peek :
        /\ pc = "idle" /\ m_RecvLock = "free" /\ len <= PacketSize /\ len # 0 /\ len <= m_Size
        /\ view' = len /\ pc' = "create"
        /\ m_pData' = m_pData /\ m_Size' = m_Size /\ session' = session /\ connected' = connected
        /\ received' = received /\ chunk' = chunk /\ seen' = seen /\ jobs' = jobs /\ broken' = broken
  BY DEF GetReqMessage, memVars, connVars, history
<1>3. len \in Nat
  <2>1. \A l \in Lengths : l \in Nat
    <3>1. \A g \in Garbage : g \in Nat
      BY FramingAssumption
    <3>2. \A sm \in Messages : Message[sm[1]][sm[2]].msgSize \in Nat
      BY MessageType DEF Messages
    <3>3. InFront(LengthSize) \subseteq Messages
      BY DEF InFront
    <3> QED BY <3>1, <3>2, <3>3 DEF Lengths
  <2> QED BY <2>1 DEF Peek
<1>4. chunk = <<>> /\ m_RecvLock' = "free" /\ m_Size \in Nat /\ m_Size # 0 /\ m_Size >= PeekSize /\ len \in Lengths
  <2>1. chunk = <<>> /\ m_RecvLock' = "free"
    BY <1>2 DEF m_RecvLock
  <2>2. m_Size \in Nat /\ m_Size # 0
    BY <1>1, <1>2, <1>3, StateNumbers
  <2>3. PeekSize \in Nat /\ ~(m_Size < PeekSize) /\ len \in Lengths
    BY <1>2, FramingAssumption DEF Peek
  <2> QED BY <2>1, <2>2, <2>3
<1>5. Types'
  <2>1. view' \in 0 .. PacketSize /\ view' # 0
    BY <1>2, <1>3, FramingAssumption
  <2>2. TypeOK'
    BY <1>1, <1>2, <1>4, <2>1 DEF Types, TypeOK
  <2> QED BY <1>1, <1>2, <2>2 DEF Types
<1>6. (Clean' <=> Clean) /\ End' = End
  BY <1>2 DEF Clean, End
<1>7. BufferIsTail'
  BY <1>2, <1>4, <1>6 DEF IInv, BufferIsTail
<1>8. EmptyBetween'
  BY <1>2, <1>4 DEF IInv, EmptyBetween
<1>9. BufferIsNext'
  BY <1>2, <1>6 DEF IInv, BufferIsNext, Made, Whole, Sound
<1>10. ViewIsNext'
  <2>1. SUFFICES ASSUME Clean
                 PROVE  /\ len <= Capacity
                        /\ Whole(session, Made) =>
                             /\ Made + 1 \in DOMAIN Message[session]
                             /\ Framed(session, Made + 1) =>
                                  /\ len = Message[session][Made + 1].length
                                  /\ \A k \in 1 .. len : m_pData[k] = <<session, Made + 1, k>>
    BY <1>2, <1>6 DEF ViewIsNext, Made, Whole, Sound, Framed
  <2>2. session \in Client /\ session \notin broken
    BY <2>1 DEF Clean
  <2>3. connected
    BY <1>4, <2>2 DEF IInv, EmptyBetween
  <2>4. /\ End \in Int /\ End <= Len(Stream[session]) /\ Len(Stream[session]) \in Nat
        /\ m_Size <= Capacity /\ Capacity \in Nat
        /\ \A i \in 1 .. m_Size : m_pData[i] = Stream[session][End - m_Size + i]
    BY <1>1, <1>4, <2>1, <2>2, <2>3, StateNumbers, StreamIs DEF IInv, BufferIsTail, End
  <2>5. len <= Capacity
    BY <1>2, <1>3, <1>4, <2>4
  <2>6. ASSUME Whole(session, Made)
        PROVE  Made + 1 \in 1 .. Len(Message[session]) /\ DOMAIN Message[session] = 1 .. Len(Message[session])
               /\ End - m_Size = At(session, Made)
    <3>1. End - m_Size = At(session, Made)
      BY <1>2, <2>1, <2>3, <2>6 DEF IInv, BufferIsNext
    <3>2. Made \in 0 .. Len(Message[session])
      BY <1>1, <2>2, <2>6, MadeType, WholeIs DEF Made
    <3>3. At(session, Made) < Len(Stream[session])
      BY <1>4, <2>4, <3>1
    <3>4. Made # Len(Message[session])
      BY <2>2, <2>4, <3>3, StreamIs
    <3> QED BY <2>2, <3>1, <3>2, <3>4, MessageType
  <2>7. ASSUME Whole(session, Made), Framed(session, Made + 1)
        PROVE  /\ len = Message[session][Made + 1].length
               /\ \A k \in 1 .. len : m_pData[k] = <<session, Made + 1, k>>
    <3> DEFINE m == Made + 1
               length == Message[session][m].length
    <3>1. m \in 1 .. Len(Message[session]) /\ m - 1 = Made /\ length \in Nat /\ m \in DOMAIN Message[session]
      BY <1>1, <2>2, <2>6, <2>7, MessageType, MadeType DEF Made
    <3>2. \A k \in 1 .. length : Stream[session][At(session, Made) + k] = <<session, m, k>>
      BY <2>2, <3>1, StreamIs
    <3> HIDE DEF m, length
    <3>3. \A k \in 1 .. length : k <= m_Size => m_pData[k] = <<session, m, k>>
      <4>1. \A k \in 1 .. length : k <= m_Size => k \in 1 .. m_Size
        BY <1>4
      <4> QED BY <2>4, <2>6, <2>7, <3>1, <3>2, <4>1
    <3>4. LengthSize \in 1 .. length /\ LengthSize <= m_Size /\ LengthSize <= Capacity
      BY <1>4, <2>4, <2>7, <3>1, FramingAssumption DEF Framed, length, m
    <3>5. \A k \in 1 .. LengthSize : m_pData[k] = <<session, m, k>>
      BY <1>4, <3>1, <3>3, <3>4
    <3>6. InFront(LengthSize) = {<<session, m>>}
      BY <2>2, <3>1, <3>4, <3>5, InFrontIs DEF length
    <3>7. len = length
      BY <1>4, <2>7, <3>6 DEF Lengths, Framed, length, m
    <3>8. \A k \in 1 .. len : m_pData[k] = <<session, m, k>>
      BY <1>2, <1>3, <1>4, <3>3, <3>7
    <3> QED BY <3>7, <3>8 DEF length, m
  <2> QED BY <2>5, <2>6, <2>7
<1> QED BY <1>2, <1>5, <1>7, <1>8, <1>9, <1>10, JobsKept DEF IInv

\* The viewed bytes, made a job, are the next message.
LEMMA CreateJobStep == IInv /\ CreateJob => IInv'
<1> SUFFICES ASSUME IInv, CreateJob PROVE IInv'
  OBVIOUS
<1> DEFINE new == SubSeq(m_pData, 1, view)
<1>1. Types
  BY DEF IInv
<1>2. /\ pc = "create" /\ pc' = "pop" /\ view >= HeaderSize /\ Known(TRUE)
      /\ jobs' = [s \in Client |-> IF s = session /\ s \notin broken THEN Append(jobs[s], new) ELSE jobs[s]]
      /\ m_pData' = m_pData /\ m_Size' = m_Size /\ session' = session /\ connected' = connected
      /\ received' = received /\ chunk' = chunk /\ view' = view /\ seen' = seen /\ broken' = broken
  BY DEF CreateJob, memVars, connVars
<1>3. view \in Nat /\ view # 0
  BY <1>1, <1>2, StateNumbers DEF Types, TypeOK
<1>4. ASSUME Clean
      PROVE  /\ view <= Capacity
             /\ new \in Seq(Byte \cup {Unset}) /\ Len(new) = view
             /\ \A k \in 1 .. view : new[k] = m_pData[k]
  <2>1. view <= Capacity
    BY <1>2, <1>4 DEF IInv, ViewIsNext
  <2>2. \A k \in 0 + 1 .. 0 + view : m_pData[k] \in Byte \cup {Unset}
    <3>1. m_pData \in [1 .. Capacity -> Byte \cup {Unset}] /\ Capacity \in Nat
      BY <1>1, StateNumbers DEF Types, TypeOK
    <3>2. \A k \in 0 + 1 .. 0 + view : k \in 1 .. Capacity
      BY <1>3, <2>1, <3>1
    <3> QED BY <3>1, <3>2
  <2>3. /\ SubSeq(m_pData, 0 + 1, 0 + view) \in Seq(Byte \cup {Unset})
        /\ Len(SubSeq(m_pData, 0 + 1, 0 + view)) = view
        /\ \A k \in 1 .. view : SubSeq(m_pData, 0 + 1, 0 + view)[k] = m_pData[0 + k]
    BY <1>3, <2>2, PieceIs
  <2>4. 0 + 1 = 1 /\ 0 + view = view /\ \A k \in 1 .. view : 0 + k = k
    BY <1>3
  <2> QED BY <2>1, <2>3, <2>4
<1> HIDE DEF new
<1>5. (Clean' <=> Clean) /\ End' = End
  BY <1>2 DEF Clean, End
<1>6. m_RecvLock' = m_RecvLock
  BY <1>2 DEF m_RecvLock
<1>7. ASSUME Clean
      PROVE  /\ Made \in Nat /\ jobs'[session] = Append(jobs[session], new) /\ Made' = Made + 1
             /\ \A i \in 1 .. Made : jobs'[session][i] = jobs[session][i]
             /\ jobs'[session][Made + 1] = new
             /\ DOMAIN jobs'[session] = 1 .. Made + 1
             /\ jobs'[session] \in Seq(Seq(Byte \cup {Unset}))
  <2>1. session \in Client /\ session \notin broken
    BY <1>7 DEF Clean
  <2>2. jobs[session] \in Seq(Seq(Byte \cup {Unset})) /\ Made \in Nat
    BY <1>1, <2>1, MadeType DEF Made
  <2>3. jobs'[session] = Append(jobs[session], new)
    BY <1>2, <2>1
  <2>4. Made' = Len(jobs'[session])
    BY <1>2 DEF Made
  <2>5. new \in Seq(Byte \cup {Unset})
    BY <1>4, <1>7
  <2> QED BY <2>2, <2>3, <2>4, <2>5, AppendProperties DEF Made
<1>8. \A s \in Client : s # session \/ ~Clean => jobs'[s] = jobs[s]
  BY <1>2 DEF Clean
<1>9. Types'
  <2>1. TypeOK'
    BY <1>1, <1>2, <1>3, <1>6 DEF Types, TypeOK
  <2>2. ASSUME NEW s \in Client
        PROVE  jobs'[s] \in Seq(Seq(Byte \cup {Unset}))
    BY <1>1, <1>7, <1>8, MadeType
  <2>3. jobs' \in [Client -> Seq(Seq(Byte \cup {Unset}))]
    BY <1>2, <2>2
  <2>4. \A s \in Client : s > session => jobs'[s] = <<>>
    <3>1. \A s \in Client : s > session => s # session
      BY <1>1, StateNumbers
    <3> QED BY <1>1, <1>8, <3>1 DEF Types
  <2> QED BY <1>1, <1>2, <2>1, <2>3, <2>4 DEF Types
<1>10. BufferIsTail'
  BY <1>2, <1>5, <1>6 DEF IInv, BufferIsTail
<1>11. EmptyBetween'
  BY <1>2, <1>6 DEF IInv, EmptyBetween
<1>12. ViewIsNext'
  BY <1>2 DEF ViewIsNext
<1>13. HeaderSize \in Nat /\ LengthSize \in Nat /\ LengthSize < HeaderSize /\ HeaderSize \in 1 .. HeaderSize
  BY FramingAssumption
<1>14. ASSUME Clean, Whole(session, Made)
       PROVE  /\ Made + 1 \in 1 .. Len(Message[session]) /\ DOMAIN Message[session] = 1 .. Len(Message[session])
              /\ session \in Client
              /\ Framed(session, Made + 1) =>
                   /\ view = Message[session][Made + 1].length
                   /\ \A k \in 1 .. view : m_pData[k] = <<session, Made + 1, k>>
  <2>1. session \in Client
    BY <1>14 DEF Clean
  <2> QED BY <1>2, <1>14, <2>1, MessageType DEF IInv, ViewIsNext
<1>15. ASSUME Clean, Whole(session, Made + 1)
       PROVE  /\ Whole(session, Made) /\ Sound(session, Made + 1) /\ Framed(session, Made + 1)
              /\ view = Message[session][Made + 1].length
              /\ new = BytesOf(session, Made + 1)
  <2>1. Whole(session, Made)
    BY <1>7, <1>15 DEF Whole
  <2>2. Made + 1 \in DOMAIN Message[session] /\ Sound(session, Made + 1)
    BY <1>7, <1>15 DEF Whole
  <2>3. Framed(session, Made + 1)
    <3>1. Message[session][Made + 1].length \in Nat
      BY <1>14, <1>15, <2>1, MessageType
    <3> QED BY <1>13, <2>2, <3>1 DEF Framed, Sound
  <2>4. /\ view = Message[session][Made + 1].length
        /\ \A k \in 1 .. view : m_pData[k] = <<session, Made + 1, k>>
    BY <1>14, <1>15, <2>1, <2>3
  <2>5. \A k \in 1 .. view : new[k] = BytesOf(session, Made + 1)[k]
    BY <1>4, <1>15, <2>4 DEF BytesOf
  <2>6. BytesOf(session, Made + 1) = [k \in 1 .. view |-> BytesOf(session, Made + 1)[k]]
    BY <2>4 DEF BytesOf
  <2>7. new = [k \in 1 .. view |-> new[k]]
    BY <1>4, <1>15, LenProperties
  <2> QED BY <2>1, <2>2, <2>3, <2>4, <2>5, <2>6, <2>7
<1>16. BufferIsNext'
  <2>1. SUFFICES ASSUME connected, Clean, Whole(session, Made + 1)
                 PROVE  /\ Made + 1 # 0
                        /\ view = Message[session][Made + 1].length
                        /\ End - m_Size = At(session, Made + 1 - 1)
    BY <1>2, <1>5, <1>7 DEF BufferIsNext, Whole, Sound
  <2>2. Made \in Nat /\ Made + 1 # 0 /\ Made + 1 - 1 = Made
    BY <1>7, <2>1
  <2>3. End - m_Size = At(session, Made)
    BY <1>2, <1>15, <2>1 DEF IInv, BufferIsNext
  <2> QED BY <1>15, <2>1, <2>2, <2>3
<1>17. JobsAreMessages'
  <2>1. SUFFICES ASSUME NEW s \in Client \ broken, NEW i \in DOMAIN jobs'[s], Whole(s, i)
                 PROVE  jobs'[s][i] = BytesOf(s, i)
    BY <1>2 DEF JobsAreMessages, Whole, Sound, BytesOf
  <2>2. CASE s # session
    BY <1>8, <2>1, <2>2 DEF IInv, JobsAreMessages, Whole
  <2>3. CASE s = session
    <3>1. Clean
      BY <2>1, <2>3 DEF Clean
    <3>2. i \in 1 .. Made + 1
      BY <1>7, <2>1, <2>3, <3>1
    <3>3. CASE i = Made + 1
      BY <1>7, <1>15, <2>1, <2>3, <3>1, <3>3
    <3>4. CASE i # Made + 1
      <4>1. i \in 1 .. Made
        BY <1>7, <3>1, <3>2, <3>4
      <4>2. i \in DOMAIN jobs[session]
        BY <1>1, <2>1, <2>3, <4>1, MadeType DEF Made
      <4> QED BY <1>7, <2>1, <2>3, <3>1, <4>1, <4>2 DEF IInv, JobsAreMessages, Whole
    <3> QED BY <3>3, <3>4
  <2> QED BY <2>2, <2>3
<1>18. (WellFramed => \A s \in Client \ broken : Whole(s, Len(jobs[s])))'
  <2>1. SUFFICES ASSUME WellFramed, NEW s \in Client \ broken
                 PROVE  Whole(s, Len(jobs'[s]))
    BY <1>2 DEF WellFramed, Framed, Whole, Sound
  <2>2. CASE s # session
    BY <1>8, <2>1, <2>2 DEF IInv
  <2>3. CASE s = session
    <3> DEFINE m == Made + 1
    <3>1. Clean /\ s = session
      BY <2>1, <2>3 DEF Clean
    <3>2. Whole(session, Made)
      BY <2>1, <3>1 DEF IInv, Made
    <3>3. m \in 1 .. Len(Message[session]) /\ m \in DOMAIN Message[session] /\ session \in Client /\ Made \in Nat
      BY <1>7, <1>14, <3>1, <3>2
    <3>4. Framed(session, m)
      BY <2>1, <3>3 DEF WellFramed
    <3>5. view = Message[session][m].length /\ \A k \in 1 .. view : m_pData[k] = <<session, m, k>>
      BY <1>14, <3>1, <3>2, <3>4
    <3> HIDE DEF m
    <3>6. InFront(HeaderSize) = {<<session, m>>}
      <4>1. HeaderSize \in 1 .. Message[session][m].length /\ HeaderSize <= Capacity
        <5>1. view <= Capacity /\ Capacity \in Nat /\ LengthSize # 0
          BY <1>4, <3>1, FramingAssumption
        <5>2. HeaderSize \in 1 .. view /\ HeaderSize <= Capacity
          BY <1>2, <1>3, <1>13, <5>1
        <5> QED BY <3>5, <5>2
      <4>2. \A k \in 1 .. HeaderSize : m_pData[k] = <<session, m, k>>
        BY <1>2, <1>3, <1>13, <3>5
      <4> QED BY <3>3, <4>1, <4>2, InFrontIs
    <3>7. Message[session][m].known = TRUE
      <4>1. \E sm \in InFront(HeaderSize) : Message[sm[1]][sm[2]].known = TRUE
        BY <1>2, <3>6 DEF Known
      <4> QED BY <3>6, <4>1
    <3>8. view <= PacketSize
      BY <1>1, <1>3, FramingAssumption DEF Types, TypeOK
    <3>9. Sound(session, m)
      BY <1>2, <3>4, <3>5, <3>7, <3>8 DEF Sound, Framed
    <3>10. Whole(session, m)
      <4>1. \A i \in 1 .. m : i = m \/ i \in 1 .. Made
        BY <3>3 DEF m
      <4> QED BY <3>2, <3>3, <3>9, <4>1 DEF Whole
    <3>11. Len(jobs'[session]) = m
      BY <1>2, <1>7, <3>1 DEF m, Made
    <3> QED BY <3>1, <3>10, <3>11
  <2> QED BY <2>2, <2>3
<1> QED BY <1>9, <1>10, <1>11, <1>12, <1>16, <1>17, <1>18 DEF IInv

\* A rejected message stays where it is.
LEMMA RejectMsgStep == IInv /\ RejectMsg => IInv'
<1> SUFFICES ASSUME IInv, RejectMsg PROVE IInv'
  OBVIOUS
<1>1. Types
  BY DEF IInv
<1>2. /\ pc = "create" /\ pc' = "idle" /\ view' = 0
      /\ m_pData' = m_pData /\ m_Size' = m_Size /\ session' = session /\ connected' = connected
      /\ received' = received /\ chunk' = chunk /\ seen' = seen /\ jobs' = jobs /\ broken' = broken
  BY DEF RejectMsg, memVars, connVars, history
<1>3. m_RecvLock' = m_RecvLock /\ (Clean' <=> Clean) /\ End' = End /\ m_Size \in Nat
  BY <1>1, <1>2, StateNumbers DEF m_RecvLock, Clean, End
<1>4. Types'
  <2>1. view' \in 0 .. PacketSize
    BY <1>2, FramingAssumption
  <2>2. TypeOK'
    BY <1>1, <1>2, <1>3, <2>1 DEF Types, TypeOK
  <2> QED BY <1>1, <1>2, <2>2 DEF Types
<1>5. BufferIsTail'
  BY <1>2, <1>3 DEF IInv, BufferIsTail
<1>6. EmptyBetween'
  BY <1>2, <1>3 DEF IInv, EmptyBetween
<1>7. BufferIsNext'
  BY <1>2, <1>3 DEF IInv, BufferIsNext, Made, Whole, Sound
<1>8. ViewIsNext'
  BY <1>2 DEF ViewIsNext
<1> QED BY <1>2, <1>4, <1>5, <1>6, <1>7, <1>8, JobsKept DEF IInv

\* A connected client's job is removed; the buffer of one that went is empty already.
LEMMA PopReqMsgStep == IInv /\ PopReqMsg => IInv'
<1> SUFFICES ASSUME IInv, PopReqMsg PROVE IInv'
  OBVIOUS
<1>1. Types
  BY DEF IInv
<1>2. /\ pc = "pop" /\ m_RecvLock = "free"
      /\ m_pData' = m_pData /\ m_Size' = m_Size /\ session' = session /\ connected' = connected
      /\ received' = received /\ chunk' = chunk /\ jobs' = jobs /\ broken' = broken
  BY DEF PopReqMsg, memVars, connVars, history
<1>3. (Clean' <=> Clean) /\ End' = End /\ m_Size \in Nat /\ view \in Nat /\ view # 0
  BY <1>1, <1>2, StateNumbers DEF Clean, End, Types, TypeOK
<1>4. chunk = <<>>
  BY <1>2 DEF m_RecvLock
<1>5. ViewIsNext'
  BY <1>2 DEF PopReqMsg, ViewIsNext
<1>6. CASE view > m_Size
  <2>1. pc' = "idle" /\ view' = 0 /\ seen' = seen
    BY <1>6 DEF PopReqMsg
  <2>2. m_RecvLock' = "free"
    BY <1>2, <1>4, <2>1 DEF m_RecvLock
  <2>3. ~(connected /\ Clean)
    BY <1>3, <1>6 DEF IInv, BufferIsTail
  <2>4. Types'
    <3>1. view' \in 0 .. PacketSize
      BY <2>1, FramingAssumption
    <3>2. TypeOK'
      BY <1>1, <1>2, <2>1, <2>2, <3>1 DEF Types, TypeOK
    <3> QED BY <1>1, <1>2, <1>4, <3>2 DEF Types
  <2>5. EmptyBetween'
    BY <1>2, <2>2 DEF IInv, EmptyBetween
  <2>6. BufferIsTail' /\ BufferIsNext'
    BY <1>2, <1>3, <2>3 DEF BufferIsTail, BufferIsNext
  <2> QED BY <1>2, <1>5, <2>4, <2>5, <2>6, JobsKept DEF IInv
<1>7. CASE ~(view > m_Size)
  <2>1. pc' = "popping" /\ view' = view /\ seen' = m_Size
    BY <1>7 DEF PopReqMsg
  <2>2. m_RecvLock' = "worker"
    BY <1>2, <1>4, <2>1 DEF m_RecvLock
  <2>3. Types'
    <3>1. TypeOK'
      BY <1>1, <1>2, <2>1, <2>2 DEF Types, TypeOK
    <3> QED BY <1>1, <1>2, <1>4, <3>1 DEF Types
  <2>4. m_Size # 0
    BY <1>3, <1>7
  <2>5. EmptyBetween'
    BY <1>2, <2>4 DEF IInv, EmptyBetween
  <2>6. BufferIsTail'
    BY <1>2, <1>3, <2>1 DEF IInv, BufferIsTail
  <2>7. BufferIsNext'
    BY <1>2, <1>3, <2>1 DEF IInv, BufferIsNext, Made, Whole, Sound
  <2> QED BY <1>2, <1>5, <2>3, <2>5, <2>6, <2>7, JobsKept DEF IInv
<1> QED BY <1>6, <1>7

\* What stays in the buffer is what followed the message that leaves it.
LEMMA PopStep == IInv /\ Pop => IInv'
<1> SUFFICES ASSUME IInv, Pop PROVE IInv'
  OBVIOUS
<1>1. Types
  BY DEF IInv
<1>2. /\ pc = "popping" /\ pc' = "idle" /\ view' = 0 /\ seen' = 0
      /\ m_pData' = [i \in 1 .. Capacity |->
                        IF i <= seen - view /\ i + view <= Capacity THEN m_pData[i + view] ELSE m_pData[i]]
      /\ session' = session /\ connected' = connected
      /\ received' = received /\ chunk' = chunk /\ jobs' = jobs /\ broken' = broken
  BY DEF Pop, connVars, history
<1>3. PICK r \in {seen, m_Size} : m_Size' = (r + Width - view) % Width
  BY DEF Pop
<1>4. /\ (Clean' <=> Clean) /\ End' = End /\ m_Size \in Nat /\ view \in Nat /\ view # 0 /\ seen \in Nat
      /\ Width \in Nat /\ Width # 0 /\ m_Size < Width /\ r \in Nat /\ Capacity \in Nat /\ End \in Int
  BY <1>1, <1>2, <1>3, StateNumbers DEF Clean, End, Types, TypeOK
<1>5. chunk = <<>> /\ Len(chunk) = 0 /\ Len(chunk') = 0
  BY <1>1, <1>2, StateNumbers DEF Types
<1>6. m_RecvLock = "worker" /\ m_RecvLock' = "free"
  BY <1>2, <1>5 DEF m_RecvLock
<1>7. Types'
  <2>1. m_pData' \in [1 .. Capacity -> Byte \cup {Unset}]
    <3>1. m_pData \in [1 .. Capacity -> Byte \cup {Unset}]
      BY <1>1 DEF Types, TypeOK
    <3>2. \A i \in 1 .. Capacity : i + view <= Capacity => i + view \in 1 .. Capacity
      BY <1>4
    <3> QED BY <1>2, <3>1, <3>2
  <2>2. m_Size' \in 0 .. Width - 1
    BY <1>3, <1>4
  <2>3. view' \in 0 .. PacketSize /\ seen' \in 0 .. Width - 1
    BY <1>2, <1>4, FramingAssumption
  <2>4. TypeOK'
    BY <1>1, <1>2, <1>6, <2>1, <2>2, <2>3 DEF Types, TypeOK
  <2> QED BY <1>1, <1>2, <1>5, <2>4 DEF Types
<1>8. EmptyBetween'
  BY <1>2, <1>6 DEF IInv, EmptyBetween
<1>9. ViewIsNext'
  BY <1>2 DEF ViewIsNext
<1>10. ASSUME connected, Clean
       PROVE  /\ seen = m_Size /\ view <= m_Size /\ m_Size <= Capacity /\ m_Size <= End
              /\ m_Size' = m_Size - view
              /\ received <= Len(Stream[session])
              /\ \A i \in 1 .. m_Size : m_pData[i] = Stream[session][End - m_Size + i]
  <2>1. /\ seen = m_Size /\ view <= m_Size /\ m_Size <= Capacity /\ m_Size <= End
        /\ received <= Len(Stream[session])
        /\ \A i \in 1 .. m_Size : m_pData[i] = Stream[session][End - m_Size + i]
    BY <1>4, <1>5, <1>6, <1>10 DEF IInv, BufferIsTail
  <2>2. r = m_Size /\ m_Size - view \in 0 .. Width - 1 /\ r + Width - view = (m_Size - view) + Width
    BY <1>3, <1>4, <2>1
  <2>3. ((m_Size - view) + Width) % Width = m_Size - view
    BY <1>4, <2>2
  <2> QED BY <1>3, <2>1, <2>2, <2>3
<1>11. BufferIsTail'
  <2>1. SUFFICES ASSUME connected, Clean
                 PROVE  /\ received <= Len(Stream[session])
                        /\ m_Size' <= End
                        /\ m_Size' + Len(chunk') <= Capacity
                        /\ \A i \in 1 .. m_Size' : m_pData'[i] = Stream[session][End - m_Size' + i]
                        /\ 0 <= m_Size'
    <3>1. \A i : i \notin 1 .. Len(chunk')
      BY <1>5
    <3> QED BY <1>2, <1>4, <1>6, <3>1 DEF BufferIsTail
  <2>2. ASSUME NEW i \in 1 .. m_Size'
        PROVE  m_pData'[i] = Stream[session][End - m_Size' + i]
    <3>1. /\ i \in 1 .. Capacity /\ i <= seen - view /\ i + view <= Capacity /\ i + view \in 1 .. m_Size
          /\ End - m_Size + (i + view) = End - m_Size' + i
      BY <1>4, <1>10, <2>1
    <3> QED BY <1>2, <1>10, <2>1, <3>1
  <2>3. m_Size' <= End /\ m_Size' + 0 <= Capacity /\ 0 <= m_Size'
    BY <1>4, <1>10, <2>1
  <2> QED BY <1>5, <1>10, <2>1, <2>2, <2>3
<1>12. BufferIsNext'
  <2>1. SUFFICES ASSUME connected, Clean, Whole(session, Made)
                 PROVE  End - m_Size' = At(session, Made)
    BY <1>2, <1>4 DEF BufferIsNext, Made, Whole, Sound
  <2>2. /\ Made # 0 /\ view = Message[session][Made].length
        /\ End - m_Size = At(session, Made - 1)
    BY <1>2, <2>1 DEF IInv, BufferIsNext
  <2>3. session \in Client /\ Made \in 1 .. Len(Message[session])
    BY <1>1, <2>1, <2>2, MadeType, WholeIs DEF Clean, Made
  <2>4. At(session, Made) = At(session, Made - 1) + view
    BY <2>2, <2>3, StreamIs
  <2> QED BY <1>4, <1>10, <2>1, <2>2, <2>4
<1> QED BY <1>2, <1>7, <1>8, <1>9, <1>11, <1>12, JobsKept DEF IInv

-----------------------------------------------------------------------------
(* The invariant holds, and with it the properties.                         *)

\* Every step keeps the invariant.
LEMMA NextIInv == IInv /\ [Next]_vars => IInv'
<1> SUFFICES ASSUME IInv, [Next]_vars PROVE IInv'
  OBVIOUS
<1>1. CASE DoAccept
  BY <1>1, DoAcceptStep
<1>2. CASE \E n \in ChunkSize : DoTCPRecv(n)
  BY <1>2, DoTCPRecvStep
<1>3. CASE Enqueue
  BY <1>3, EnqueueStep
<1>4. CASE DoDisconnect
  BY <1>4, DoDisconnectStep
<1>5. CASE ParseReq
  BY <1>5, GetReqMessageStep, CreateJobStep, RejectMsgStep, PopReqMsgStep, PopStep DEF ParseReq
<1>6. CASE UNCHANGED vars
  <2>1. /\ m_pData' = m_pData /\ m_Size' = m_Size /\ session' = session /\ connected' = connected
        /\ received' = received /\ chunk' = chunk /\ pc' = pc /\ view' = view /\ seen' = seen
        /\ jobs' = jobs /\ broken' = broken
    BY <1>6 DEF vars, memVars, connVars, workerVars, history
  <2>2. m_RecvLock' = m_RecvLock /\ (Clean' <=> Clean) /\ End' = End
    BY <2>1 DEF m_RecvLock, Clean, End
  <2>3. Types'
    <3>1. TypeOK'
      BY <2>1, <2>2 DEF IInv, Types, TypeOK
    <3> QED BY <2>1, <3>1 DEF IInv, Types
  <2>4. BufferIsTail' /\ EmptyBetween'
    BY <2>1, <2>2 DEF IInv, BufferIsTail, EmptyBetween
  <2>5. BufferIsNext'
    BY <2>1, <2>2 DEF IInv, BufferIsNext, Made, Whole, Sound
  <2>6. ViewIsNext'
    BY <2>1, <2>2 DEF IInv, ViewIsNext, Made, Whole, Sound, Framed
  <2> QED BY <2>1, <2>3, <2>4, <2>5, <2>6, JobsKept DEF IInv
<1> QED BY <1>1, <1>2, <1>3, <1>4, <1>5, <1>6 DEF Next

\* The invariant of the framing.
THEOREM IInvHolds == Spec => []IInv
<1>1. Init => IInv
  BY InitIInv
<1>2. IInv /\ [Next]_vars => IInv'
  BY NextIInv
<1> QED BY <1>1, <1>2, PTL DEF Spec

\* The receive buffer holds the tail of its client's stream, whatever chunks
\* StorePartialMessage got and whatever the last client left.
THEOREM StoredIsTailHolds == Spec => []StoredIsTail
<1>1. IInv => StoredIsTail
  BY IInvImplies
<1> QED BY <1>1, IInvHolds, PTL

\* GetReqMessage, CreateJob and PopReqMsg make jobs of a client's messages whole,
\* in order and none left out.
THEOREM JobsAreMessagesHolds == Spec => []JobsAreMessages
<1>1. IInv => JobsAreMessages
  BY IInvImplies
<1> QED BY <1>1, IInvHolds, PTL

\* When clients put the length of each message in front of it, ParseReq makes no
\* job of a malformed message, nor of what follows it.
THEOREM NothingPastMalformedHolds == WellFramed => (Spec => []NothingPastMalformed)
<1>1. SUFFICES ASSUME WellFramed PROVE Spec => []NothingPastMalformed
  OBVIOUS
<1>2. IInv => NothingPastMalformed
  BY <1>1, IInvImplies
<1> QED BY <1>2, IInvHolds, PTL

=============================================================================
