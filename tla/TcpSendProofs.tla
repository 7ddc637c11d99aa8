--------------------------- MODULE TcpSendProofs ----------------------------
(***************************************************************************)
(* Proofs about TcpSend and its ring, for every capacity, segment size and *)
(* sequence of packet sizes.                                               *)
(***************************************************************************)
EXTENDS TcpSend, SequenceTheorems, WellFoundedInduction, TLAPS

-----------------------------------------------------------------------------
(* Induction over the elements of a set, and functions defined by recursion. *)

\* A set of numbers that is not empty has a least element.
LEMMA LeastNumber ==
    ASSUME NEW T, T \subseteq Nat, T # {}
    PROVE  \E x \in T : \A y \in T : x <= y
<1>1. PICK x \in T : \A y \in T : ~(<<y, x>> \in OpToRel(<, Nat))
  BY NatLessThanWellFounded, WFMin
<1>2. \A y \in T : ~(y < x)
  BY <1>1 DEF OpToRel
<1> QED BY <1>2

\* One that is bounded has a greatest element, and that is its Max.
LEMMA GreatestNumber ==
    ASSUME NEW T, NEW n \in Nat, T \subseteq 0 .. n, T # {}
    PROVE  Max(T) \in T /\ \A y \in T : y <= Max(T)
<1> DEFINE Gaps == {n - y : y \in T}
<1>1. \A y \in T : y \in 0 .. n /\ n - y \in Gaps /\ n - y \in Nat
  OBVIOUS
<1>2. Gaps \subseteq Nat /\ Gaps # {}
  BY <1>1
<1>3. PICK g \in Gaps : \A h \in Gaps : g <= h
  BY <1>2, LeastNumber
<1>4. PICK x \in T : g = n - x
  BY <1>3
<1>5. \A y \in T : x >= y
  <2>1. \A y \in T : g <= n - y
    BY <1>1, <1>3
  <2> QED BY <1>1, <1>4, <2>1
<1>6. Max(T) \in T /\ \A y \in T : Max(T) >= y
  BY <1>4, <1>5 DEF Max
<1> QED BY <1>1, <1>6

AgreeOnStep(f, g, n) == \A i \in 1 .. n : f[i - 1] = g[i - 1] => f[i] = g[i]

\* Two functions that agree at 0, and at i whenever they do at i - 1, agree.
LEMMA SameValues ==
    ASSUME NEW f, NEW g, NEW n \in Nat, f[0] = g[0], AgreeOnStep(f, g, n)
    PROVE  f[n] = g[n]
<1> DEFINE T == {i \in 0 .. n : f[i] # g[i]}
<1>1. SUFFICES ASSUME T # {} PROVE FALSE
  OBVIOUS
<1>2. T \subseteq Nat
  OBVIOUS
<1>3. PICK i \in T : \A j \in T : i <= j
  BY <1>1, <1>2, LeastNumber
<1>4. i \in 1 .. n /\ i - 1 \in 0 .. n
  BY <1>3
<1>5. i - 1 \notin T
  BY <1>3, <1>4
<1> QED BY <1>3, <1>4, <1>5 DEF AgreeOnStep

Steps(n, D) == [1 .. n -> [D -> D]]

\* f has values in D, the first one at 0, each further one a step from the one before.
IsRecursive(f, n, D, first, step) ==
    f \in [0 .. n -> D] /\ f[0] = first /\ \A i \in 1 .. n : f[i] = step[i][f[i - 1]]

\* A function defined by recursion on its argument exists.
LEMMA RecursiveFunction ==
    ASSUME NEW n \in Nat, NEW D, NEW first \in D, NEW step \in Steps(n, D)
    PROVE  \E f : IsRecursive(f, n, D, first, step)
<1> DEFINE IsUpTo(f, k) == \A i \in 0 .. k : f[i] = IF i = 0 THEN first ELSE step[i][f[i - 1]]
           T == {k \in 0 .. n : ~\E f \in [0 .. k -> D] : IsUpTo(f, k)}
<1> USE DEF Steps
<1>1. T = {}
  <2>1. SUFFICES ASSUME T # {} PROVE FALSE
    OBVIOUS
  <2>2. T \subseteq Nat
    OBVIOUS
  <2>3. PICK k \in T : \A m \in T : k <= m
    BY <2>1, <2>2, LeastNumber
  <2>4. k # 0
    <3> DEFINE f0 == [i \in 0 .. 0 |-> first]
    <3>1. f0 \in [0 .. 0 -> D] /\ IsUpTo(f0, 0)
      OBVIOUS
    <3> QED BY <2>3, <3>1
  <2>5. k - 1 \in 0 .. n /\ k - 1 \notin T /\ k \in 1 .. n
    BY <2>3, <2>4
  <2>6. PICK f \in [0 .. k - 1 -> D] : IsUpTo(f, k - 1)
    BY <2>5
  <2>7. step[k][f[k - 1]] \in D
    BY <2>5, <2>6
  <2> DEFINE g == [i \in 0 .. k |-> IF i = k THEN step[k][f[k - 1]] ELSE f[i]]
  <2>8. g \in [0 .. k -> D]
    BY <2>5, <2>6, <2>7
  <2>9. ASSUME NEW i \in 0 .. k
        PROVE  g[i] = IF i = 0 THEN first ELSE step[i][g[i - 1]]
    <3>1. CASE i = k
      <4>1. g[k] = step[k][f[k - 1]] /\ g[k - 1] = f[k - 1]
        BY <2>5
      <4> QED BY <2>5, <3>1, <4>1
    <3>2. CASE i # k
      <4>1. i \in 0 .. k - 1
        BY <2>5, <3>2
      <4>2. f[i] = IF i = 0 THEN first ELSE step[i][f[i - 1]]
        BY <2>6, <4>1
      <4>3. g[i] = f[i] /\ (i # 0 => g[i - 1] = f[i - 1])
        BY <2>5, <3>2, <4>1
      <4> QED BY <4>2, <4>3
    <3> QED BY <3>1, <3>2
  <2>10. IsUpTo(g, k)
    BY <2>9
  <2> QED BY <2>3, <2>8, <2>10
<1>2. PICK f \in [0 .. n -> D] : IsUpTo(f, n)
  BY <1>1
<1>3. f[0] = first /\ \A i \in 1 .. n : f[i] = step[i][f[i - 1]]
  BY <1>2
<1> QED BY <1>3 DEF IsRecursive

\* A set of sequences with the empty one, and with every extension of its own, has all.
LEMMA AllSequences ==
    ASSUME NEW S, NEW T, <<>> \in T, \A s \in Seq(S), e \in S : s \in T => Append(s, e) \in T
    PROVE  Seq(S) \subseteq T
<1> DEFINE Lengths == {n \in Nat : \E s \in Seq(S) : Len(s) = n /\ s \notin T}
<1>1. SUFFICES ASSUME Lengths # {} PROVE FALSE
  OBVIOUS
<1>2. PICK n \in Lengths : \A m \in Lengths : n <= m
  BY <1>1, LeastNumber
<1>3. PICK s \in Seq(S) : Len(s) = n /\ s \notin T
  BY <1>2
<1>4. PICK r \in Seq(S), e \in S : s = Append(r, e)
  BY <1>3, SequenceEmptyOrAppend
<1>5. Len(r) \in Nat /\ Len(r) < n
  BY <1>3, <1>4
<1>6. r \in T
  BY <1>2, <1>5
<1> QED BY <1>3, <1>4, <1>6

-----------------------------------------------------------------------------
(* Prefixes and removal.                                                    *)

\* Append adds one element to those of the sequence.
LEMMA AppendRange ==
    ASSUME NEW S, NEW s \in Seq(S), NEW e \in S
    PROVE  Range(Append(s, e)) = Range(s) \cup {e}
<1>1. /\ Len(s) \in Nat /\ DOMAIN s = 1 .. Len(s)
      /\ DOMAIN Append(s, e) = 1 .. Len(s) + 1
      /\ \A i \in 1 .. Len(s) : Append(s, e)[i] = s[i]
      /\ Append(s, e)[Len(s) + 1] = e
  BY AppendProperties, LenProperties
<1>2. 1 .. Len(s) + 1 = (1 .. Len(s)) \cup {Len(s) + 1}
  BY <1>1
<1> QED BY <1>1, <1>2 DEF Range

\* A sequence is a prefix if something can be appended that makes it the other one.
LEMMA PrefixIs ==
    ASSUME NEW S, NEW s \in Seq(S), NEW t \in Seq(S)
    PROVE  IsPrefix(s, t) <=> \E u \in Seq(S) : t = s \o u
<1>1. ASSUME IsPrefix(s, t)
      PROVE  \E u \in Seq(S) : t = s \o u
  <2>1. Len(s) \in Nat /\ Len(t) \in Nat /\ Len(s) <= Len(t) /\ SubSeq(s, 1, Len(s)) = SubSeq(t, 1, Len(s))
    BY <1>1 DEF IsPrefix
  <2>2. SubSeq(t, 1, Len(s)) \o SubSeq(t, Len(s) + 1, Len(t)) = SubSeq(t, 1, Len(t))
    <3>1. 1 \in 1 .. Len(t) + 1 /\ Len(s) \in 1 - 1 .. Len(t) /\ Len(t) \in Len(s) .. Len(t)
      BY <2>1
    <3> QED BY <3>1, ConcatAdjacentSubSeq
  <2>3. SubSeq(t, Len(s) + 1, Len(t)) \in Seq(S)
    BY <2>1, SubSeqProperties
  <2> QED BY <2>1, <2>2, <2>3, SubSeqFull
<1>2. ASSUME NEW u \in Seq(S), t = s \o u
      PROVE  IsPrefix(s, t)
  <2>1. Len(s) \in Nat /\ Len(u) \in Nat /\ Len(t) = Len(s) + Len(u)
    BY <1>2, LenProperties, ConcatProperties
  <2>2. CASE s = <<>>
    BY <2>1, <2>2, SubSeqEmpty DEF IsPrefix
  <2>3. CASE s # <<>>
    <3>1. SubSeq(s \o u, 1, Len(s)) = SubSeq(s, 1, Len(s))
      BY <2>1, <2>3, EmptySeq, SubSeqOfConcat1
    <3> QED BY <1>2, <2>1, <3>1 DEF IsPrefix
  <2> QED BY <2>2, <2>3
<1> QED BY <1>1, <1>2

\* What follows the prefix of the same length is the same.
LEMMA PrefixOf ==
    ASSUME NEW S, NEW s \in Seq(S), NEW t \in Seq(S), IsPrefix(s, t), NEW n \in 0 .. Len(s)
    PROVE  SubSeq(s, 1, n) = SubSeq(t, 1, n)
<1>1. PICK u \in Seq(S) : t = s \o u
  BY PrefixIs
<1>2. CASE n = 0
  BY <1>2, SubSeqEmpty
<1>3. CASE n # 0
  <2>1. Len(s) \in Nat /\ 1 \in 1 .. Len(s) /\ n \in 1 .. Len(s)
    BY <1>3, LenProperties
  <2> QED BY <1>1, <2>1, SubSeqOfConcat1
<1> QED BY <1>2, <1>3

\* RemoveAt takes one element out and keeps the others in their order.
LEMMA RemoveAtIs ==
    ASSUME NEW S, NEW s \in Seq(S), NEW i \in 1 .. Len(s)
    PROVE  /\ RemoveAt(s, i) \in Seq(S)
           /\ Len(RemoveAt(s, i)) = Len(s) - 1
           /\ \A j \in 1 .. Len(s) - 1 : RemoveAt(s, i)[j] = IF j < i THEN s[j] ELSE s[j + 1]
<1> DEFINE a == SubSeq(s, 1, i - 1)
           b == SubSeq(s, i + 1, Len(s))
<1>1. Len(s) \in Nat
  BY LenProperties
<1>2. /\ a \in Seq(S) /\ Len(a) = i - 1
      /\ \A j \in 1 .. i - 1 : a[j] = s[j]
  <2>1. \A j \in 1 .. i - 1 : s[j] \in S
    BY <1>1, ElementOfSeq
  <2> QED BY <1>1, <2>1, SubSeqProperties
<1>3. /\ b \in Seq(S) /\ Len(b) = Len(s) - i
      /\ \A j \in 1 .. Len(s) - i : b[j] = s[i + j]
  <2>1. \A j \in i + 1 .. Len(s) : s[j] \in S
    BY <1>1, ElementOfSeq
  <2>2. /\ b \in Seq(S)
        /\ Len(b) = IF i + 1 <= Len(s) THEN Len(s) - (i + 1) + 1 ELSE 0
        /\ \A j \in 1 .. Len(s) - (i + 1) + 1 : b[j] = s[i + 1 + j - 1]
    BY <1>1, <2>1, SubSeqProperties
  <2> QED BY <1>1, <2>2
<1> HIDE DEF a, b
<1>4. /\ a \o b \in Seq(S) /\ Len(a \o b) = Len(a) + Len(b)
      /\ \A j \in 1 .. Len(a) + Len(b) : (a \o b)[j] = IF j <= Len(a) THEN a[j] ELSE b[j - Len(a)]
  BY <1>2, <1>3, ConcatProperties
<1>5. RemoveAt(s, i) = a \o b
  BY DEF RemoveAt, a, b
<1>6. ASSUME NEW j \in 1 .. Len(s) - 1
      PROVE  (a \o b)[j] = IF j < i THEN s[j] ELSE s[j + 1]
  <2>1. CASE j < i
    BY <1>1, <1>2, <1>3, <1>4, <2>1
  <2>2. CASE ~(j < i)
    <3>1. j - (i - 1) \in 1 .. Len(s) - i
      BY <1>1, <2>2
    <3>2. (a \o b)[j] = b[j - (i - 1)]
      BY <1>1, <1>2, <1>3, <1>4, <2>2
    <3>3. b[j - (i - 1)] = s[i + (j - (i - 1))]
      BY <1>3, <3>1
    <3>4. i + (j - (i - 1)) = j + 1
      BY <1>1
    <3> QED BY <2>2, <3>2, <3>3, <3>4
  <2> QED BY <2>1, <2>2
<1>7. Len(a \o b) = Len(s) - 1
  BY <1>1, <1>2, <1>3, <1>4
<1> QED BY <1>4, <1>5, <1>6, <1>7

\* A byte of a packet.  (Only those with a number from 1 to Size[p] are ever there.)
Byte == Packet \X Int

Sizes == [Packet -> Nat]

NoBytes == <<>>

-----------------------------------------------------------------------------
(* Content and Bytes, the two recursive definitions: their values on the    *)
(* empty sequence and on one packet more.                                   *)

\* The rest of a packet has the length that is left.
LEMMA RestType ==
    ASSUME NEW p \in Packet, NEW size \in Sizes
    PROVE  /\ Rest(p, size) \in Seq(Byte)
           /\ Len(Rest(p, size)) = size[p]
           /\ DOMAIN Rest(p, size) = 1 .. size[p]
           /\ \A k \in 1 .. size[p] : Rest(p, size)[k] = <<p, Size[p] - size[p] + k>>
<1>1. size[p] \in Nat /\ Size[p] \in Nat
  BY TcpSendAssumption DEF Sizes, Packet
<1>2. \A k \in 1 .. size[p] : <<p, Size[p] - size[p] + k>> \in Byte
  BY <1>1 DEF Byte
<1> QED BY <1>1, <1>2 DEF Rest

\* Content is the last value of a function into the sequences of bytes.
LEMMA ContentFunction ==
    ASSUME NEW s \in Seq(Packet), NEW size \in Sizes
    PROVE  \E f \in [0 .. Len(s) -> Seq(Byte)] :
             /\ f[0] = NoBytes
             /\ \A i \in 1 .. Len(s) : f[i] = f[i - 1] \o Rest(s[i], size)
             /\ Content(s, size) = f[Len(s)]
<1>1. Len(s) \in Nat /\ \A i \in 1 .. Len(s) : s[i] \in Packet
  BY LenProperties, ElementOfSeq
<1>2. PICK f \in [0 .. Len(s) -> Seq(Byte)] :
        f[0] = NoBytes /\ \A i \in 1 .. Len(s) : f[i] = f[i - 1] \o Rest(s[i], size)
  <2> DEFINE step == [i \in 1 .. Len(s) |-> [x \in Seq(Byte) |-> x \o Rest(s[i], size)]]
  <2>1. step \in [1 .. Len(s) -> [Seq(Byte) -> Seq(Byte)]]
    BY <1>1, RestType, ConcatProperties
  <2>2. \A i \in 1 .. Len(s) : \A x \in Seq(Byte) : step[i][x] = x \o Rest(s[i], size)
    OBVIOUS
  <2>3. NoBytes \in Seq(Byte)
    BY DEF NoBytes
  <2>4. step \in Steps(Len(s), Seq(Byte))
    BY <2>1 DEF Steps
  <2>5. \A i \in 1 .. Len(s) : i - 1 \in 0 .. Len(s)
    BY <1>1
  <2> HIDE DEF step
  <2>6. PICK f : IsRecursive(f, Len(s), Seq(Byte), NoBytes, step)
    BY <1>1, <2>3, <2>4, RecursiveFunction
  <2>7. /\ f \in [0 .. Len(s) -> Seq(Byte)] /\ f[0] = NoBytes
        /\ \A i \in 1 .. Len(s) : f[i] = step[i][f[i - 1]]
    BY <2>6 DEF IsRecursive
  <2>8. \A i \in 1 .. Len(s) : f[i - 1] \in Seq(Byte)
    BY <2>5, <2>7, Zenon
  <2>9. \A i \in 1 .. Len(s) : f[i] = f[i - 1] \o Rest(s[i], size)
    BY <2>2, <2>7, <2>8, Zenon
  <2> QED BY <2>7, <2>9, Zenon
<1> DEFINE h == CHOOSE g : g = [i \in 0 .. Len(s) |->
                                  IF i = 0 THEN NoBytes ELSE g[i - 1] \o Rest(s[i], size)]
<1>3. Content(s, size) = h[Len(s)]
  BY DEF Content, NoBytes
<1>4. f = [i \in 0 .. Len(s) |-> IF i = 0 THEN NoBytes ELSE f[i - 1] \o Rest(s[i], size)]
  <2> HIDE DEF h
  <2> QED BY <1>1, <1>2
<1>5. h = [i \in 0 .. Len(s) |-> IF i = 0 THEN NoBytes ELSE h[i - 1] \o Rest(s[i], size)]
  BY <1>4
<1> HIDE DEF h
<1>6. h[0] = NoBytes /\ \A i \in 1 .. Len(s) : h[i] = h[i - 1] \o Rest(s[i], size)
  BY <1>1, <1>5
<1>7. AgreeOnStep(h, f, Len(s))
  BY <1>2, <1>6, Zenon DEF AgreeOnStep
<1>8. h[0] = f[0]
  BY <1>2, <1>6, Zenon
<1>9. h[Len(s)] = f[Len(s)]
  BY <1>1, <1>7, <1>8, SameValues
<1> QED BY <1>2, <1>3, <1>9, Zenon

\* No packets have no bytes.
LEMMA ContentEmpty ==
    ASSUME NEW size \in Sizes
    PROVE  Content(<<>>, size) = <<>>
<1>1. <<>> \in Seq(Packet) /\ Len(<<>>) = 0
  OBVIOUS
<1>2. PICK f : f[0] = NoBytes /\ Content(<<>>, size) = f[0]
  BY <1>1, ContentFunction
<1> QED BY <1>2 DEF NoBytes

\* One packet more has its rest more.
LEMMA ContentAppend ==
    ASSUME NEW s \in Seq(Packet), NEW p \in Packet, NEW size \in Sizes
    PROVE  Content(Append(s, p), size) = Content(s, size) \o Rest(p, size)
<1> DEFINE t == Append(s, p)
<1>1. /\ t \in Seq(Packet) /\ Len(t) = Len(s) + 1 /\ Len(s) \in Nat
      /\ \A i \in 1 .. Len(s) : t[i] = s[i]
      /\ t[Len(s) + 1] = p
  BY AppendProperties, LenProperties
<1>2. PICK f :
        /\ f \in [0 .. Len(s) -> Seq(Byte)]
        /\ f[0] = NoBytes
        /\ \A i \in 1 .. Len(s) : f[i] = f[i - 1] \o Rest(s[i], size)
        /\ Content(s, size) = f[Len(s)]
  BY ContentFunction
<1>3. PICK g :
        /\ g \in [0 .. Len(s) + 1 -> Seq(Byte)]
        /\ g[0] = NoBytes
        /\ \A i \in 1 .. Len(s) + 1 : g[i] = g[i - 1] \o Rest(t[i], size)
        /\ Content(t, size) = g[Len(s) + 1]
  <2> HIDE DEF t
  <2>1. PICK g : /\ g \in [0 .. Len(t) -> Seq(Byte)]
                 /\ g[0] = NoBytes
                 /\ \A i \in 1 .. Len(t) : g[i] = g[i - 1] \o Rest(t[i], size)
                 /\ Content(t, size) = g[Len(t)]
    BY <1>1, ContentFunction, Zenon
  <2> QED BY <1>1, <2>1, Zenon
<1> HIDE DEF t
<1>4. \A i \in 1 .. Len(s) : i \in 1 .. Len(s) + 1
  BY <1>1
<1>5. \A i \in 1 .. Len(s) : g[i] = g[i - 1] \o Rest(s[i], size)
  BY <1>1, <1>3, <1>4, Zenon
<1>6. AgreeOnStep(g, f, Len(s))
  BY <1>2, <1>5, Zenon DEF AgreeOnStep
<1>7. g[0] = f[0]
  BY <1>2, <1>3, Zenon
<1>8. g[Len(s)] = f[Len(s)]
  BY <1>1, <1>6, <1>7, SameValues
<1>9. Len(s) + 1 \in 1 .. Len(s) + 1 /\ (Len(s) + 1) - 1 = Len(s)
  BY <1>1
<1>10. g[Len(s) + 1] = g[Len(s)] \o Rest(p, size)
  BY <1>1, <1>3, <1>9, Zenon
<1> QED BY <1>2, <1>3, <1>8, <1>10, Zenon DEF t

\* Content is a sequence of bytes.
LEMMA ContentType ==
    ASSUME NEW s \in Seq(Packet), NEW size \in Sizes
    PROVE  Content(s, size) \in Seq(Byte)
<1>1. Len(s) \in 0 .. Len(s)
  BY LenProperties
<1>2. PICK f \in [0 .. Len(s) -> Seq(Byte)] : Content(s, size) = f[Len(s)]
  BY ContentFunction, Zenon
<1> QED BY <1>1, <1>2, Zenon

\* Bytes is the last value of a function into the numbers.
LEMMA BytesFunction ==
    ASSUME NEW s \in Seq(Packet), NEW size \in Sizes
    PROVE  \E f \in [0 .. Len(s) -> Nat] :
             /\ f[0] = 0
             /\ \A i \in 1 .. Len(s) : f[i] = f[i - 1] + size[s[i]]
             /\ Bytes(s, size) = f[Len(s)]
<1>1. Len(s) \in Nat /\ \A i \in 1 .. Len(s) : s[i] \in Packet
  BY LenProperties, ElementOfSeq
<1>2. PICK f \in [0 .. Len(s) -> Nat] :
        f[0] = 0 /\ \A i \in 1 .. Len(s) : f[i] = f[i - 1] + size[s[i]]
  <2> DEFINE step == [i \in 1 .. Len(s) |-> [x \in Nat |-> x + size[s[i]]]]
  <2>1. step \in [1 .. Len(s) -> [Nat -> Nat]]
    BY <1>1 DEF Sizes
  <2>2. \A i \in 1 .. Len(s) : \A x \in Nat : step[i][x] = x + size[s[i]]
    OBVIOUS
  <2>3. 0 \in Nat
    OBVIOUS
  <2>4. step \in Steps(Len(s), Nat)
    BY <2>1 DEF Steps
  <2>5. \A i \in 1 .. Len(s) : i - 1 \in 0 .. Len(s)
    BY <1>1
  <2> HIDE DEF step
  <2>6. PICK f : IsRecursive(f, Len(s), Nat, 0, step)
    BY <1>1, <2>3, <2>4, RecursiveFunction
  <2>7. /\ f \in [0 .. Len(s) -> Nat] /\ f[0] = 0
        /\ \A i \in 1 .. Len(s) : f[i] = step[i][f[i - 1]]
    BY <2>6 DEF IsRecursive
  <2>8. \A i \in 1 .. Len(s) : f[i - 1] \in Nat
    BY <2>5, <2>7, Zenon
  <2>9. \A i \in 1 .. Len(s) : f[i] = f[i - 1] + size[s[i]]
    BY <2>2, <2>7, <2>8, Zenon
  <2> QED BY <2>7, <2>9, Zenon
<1> DEFINE h == CHOOSE g : g = [i \in 0 .. Len(s) |->
                                  IF i = 0 THEN 0 ELSE g[i - 1] + size[s[i]]]
<1>3. Bytes(s, size) = h[Len(s)]
  BY DEF Bytes
<1>4. f = [i \in 0 .. Len(s) |-> IF i = 0 THEN 0 ELSE f[i - 1] + size[s[i]]]
  <2> HIDE DEF h
  <2> QED BY <1>1, <1>2
<1>5. h = [i \in 0 .. Len(s) |-> IF i = 0 THEN 0 ELSE h[i - 1] + size[s[i]]]
  BY <1>4
<1> HIDE DEF h
<1>6. h[0] = 0 /\ \A i \in 1 .. Len(s) : h[i] = h[i - 1] + size[s[i]]
  BY <1>1, <1>5
<1>7. AgreeOnStep(h, f, Len(s))
  BY <1>2, <1>6, Zenon DEF AgreeOnStep
<1>8. h[0] = f[0]
  BY <1>2, <1>6, Zenon
<1>9. h[Len(s)] = f[Len(s)]
  BY <1>1, <1>7, <1>8, SameValues
<1> QED BY <1>2, <1>3, <1>9, Zenon

\* No packets have no bytes,
LEMMA BytesEmpty ==
    ASSUME NEW size \in Sizes
    PROVE  Bytes(<<>>, size) = 0
<1>1. <<>> \in Seq(Packet) /\ Len(<<>>) = 0
  OBVIOUS
<1>2. PICK f : f[0] = 0 /\ Bytes(<<>>, size) = f[0]
  BY <1>1, BytesFunction, Zenon
<1> QED BY <1>2

\* and one packet more has what is left of it more.
LEMMA BytesAppend ==
    ASSUME NEW s \in Seq(Packet), NEW p \in Packet, NEW size \in Sizes
    PROVE  Bytes(Append(s, p), size) = Bytes(s, size) + size[p]
<1> DEFINE t == Append(s, p)
<1>1. /\ t \in Seq(Packet) /\ Len(t) = Len(s) + 1 /\ Len(s) \in Nat
      /\ \A i \in 1 .. Len(s) : t[i] = s[i]
      /\ t[Len(s) + 1] = p
  BY AppendProperties, LenProperties
<1>2. PICK f :
        /\ f \in [0 .. Len(s) -> Nat]
        /\ f[0] = 0
        /\ \A i \in 1 .. Len(s) : f[i] = f[i - 1] + size[s[i]]
        /\ Bytes(s, size) = f[Len(s)]
  BY BytesFunction
<1>3. PICK g :
        /\ g \in [0 .. Len(s) + 1 -> Nat]
        /\ g[0] = 0
        /\ \A i \in 1 .. Len(s) + 1 : g[i] = g[i - 1] + size[t[i]]
        /\ Bytes(t, size) = g[Len(s) + 1]
  <2> HIDE DEF t
  <2>1. PICK g : /\ g \in [0 .. Len(t) -> Nat]
                 /\ g[0] = 0
                 /\ \A i \in 1 .. Len(t) : g[i] = g[i - 1] + size[t[i]]
                 /\ Bytes(t, size) = g[Len(t)]
    BY <1>1, BytesFunction, Zenon
  <2> QED BY <1>1, <2>1, Zenon
<1> HIDE DEF t
<1>4. \A i \in 1 .. Len(s) : i \in 1 .. Len(s) + 1
  BY <1>1
<1>5. \A i \in 1 .. Len(s) : g[i] = g[i - 1] + size[s[i]]
  BY <1>1, <1>3, <1>4, Zenon
<1>6. AgreeOnStep(g, f, Len(s))
  BY <1>2, <1>5, Zenon DEF AgreeOnStep
<1>7. g[0] = f[0]
  BY <1>2, <1>3, Zenon
<1>8. g[Len(s)] = f[Len(s)]
  BY <1>1, <1>6, <1>7, SameValues
<1>9. Len(s) + 1 \in 1 .. Len(s) + 1 /\ (Len(s) + 1) - 1 = Len(s)
  BY <1>1
<1>10. g[Len(s) + 1] = g[Len(s)] + size[p]
  BY <1>1, <1>3, <1>9, Zenon
<1> QED BY <1>2, <1>3, <1>8, <1>10, Zenon DEF t

\* Bytes is a number.
LEMMA BytesType ==
    ASSUME NEW s \in Seq(Packet), NEW size \in Sizes
    PROVE  Bytes(s, size) \in Nat
BY BytesFunction, LenProperties

\* The bytes of two sequences of packets, one after the other.
LEMMA ContentConcat ==
    ASSUME NEW s \in Seq(Packet), NEW t \in Seq(Packet), NEW size \in Sizes
    PROVE  Content(s \o t, size) = Content(s, size) \o Content(t, size)
<1> DEFINE T == {u \in Seq(Packet) : Content(s \o u, size) = Content(s, size) \o Content(u, size)}
<1> HIDE DEF T
<1>1. <<>> \in T
  <2>1. s \o <<>> = s /\ Content(s, size) \o <<>> = Content(s, size) /\ <<>> \in Seq(Packet)
    BY ConcatEmptySeq, ContentType
  <2> QED BY <2>1, ContentEmpty DEF T
<1>2. ASSUME NEW u \in Seq(Packet), NEW p \in Packet, u \in T
      PROVE  Append(u, p) \in T
  <2>1. s \o Append(u, p) = Append(s \o u, p) /\ s \o u \in Seq(Packet) /\ Append(u, p) \in Seq(Packet)
    OBVIOUS
  <2>2. Content(s \o Append(u, p), size) = Content(s \o u, size) \o Rest(p, size)
    BY <2>1, ContentAppend, ZenonT(30)
  <2>3. Content(Append(u, p), size) = Content(u, size) \o Rest(p, size)
    BY ContentAppend
  <2>4. (Content(s, size) \o Content(u, size)) \o Rest(p, size)
        = Content(s, size) \o (Content(u, size) \o Rest(p, size))
    <3>1. /\ Content(s, size) \in Seq(Byte) /\ Content(u, size) \in Seq(Byte)
          /\ Rest(p, size) \in Seq(Byte)
      BY ContentType, RestType
    <3> QED BY <3>1, ConcatAssociative, SMTT(30)
  <2>5. Content(s \o u, size) = Content(s, size) \o Content(u, size)
    BY <1>2 DEF T
  <2> QED BY <2>1, <2>2, <2>3, <2>4, <2>5 DEF T
<1>3. Seq(Packet) \subseteq T
  BY <1>1, <1>2, AllSequences
<1> QED BY <1>3 DEF T

\* There are as many as Bytes says.
LEMMA ContentLength ==
    ASSUME NEW s \in Seq(Packet), NEW size \in Sizes
    PROVE  Len(Content(s, size)) = Bytes(s, size)
<1> DEFINE T == {u \in Seq(Packet) : Len(Content(u, size)) = Bytes(u, size)}
<1>1. <<>> \in T
  BY ContentEmpty, BytesEmpty
<1>2. ASSUME NEW u \in Seq(Packet), NEW p \in Packet, u \in T
      PROVE  Append(u, p) \in T
  <2>1. Len(Content(u, size) \o Rest(p, size)) = Len(Content(u, size)) + Len(Rest(p, size))
    BY ContentType, RestType, ConcatProperties
  <2>2. Len(Rest(p, size)) = size[p]
    BY RestType
  <2> QED BY <1>2, <2>1, <2>2, ContentAppend, BytesAppend
<1> HIDE DEF T
<1>3. Seq(Packet) \subseteq T
  BY <1>1, <1>2, AllSequences
<1> QED BY <1>3 DEF T

\* The bytes of the rest of a packet are its last ones.
LEMMA RestRange ==
    ASSUME NEW p \in Packet, NEW size \in Sizes, NEW q, NEW k \in Int
    PROVE  <<q, k>> \in Range(Rest(p, size)) <=> q = p /\ Size[p] - size[p] < k /\ k <= Size[p]
<1>1. size[p] \in Nat /\ Size[p] \in Nat
  BY TcpSendAssumption DEF Sizes, Packet
<1>2. ASSUME q = p, Size[p] - size[p] < k, k <= Size[p]
      PROVE  <<q, k>> \in Range(Rest(p, size))
  <2> DEFINE i == k - (Size[p] - size[p])
  <2>1. i \in 1 .. size[p] /\ k = Size[p] - size[p] + i
    BY <1>1, <1>2
  <2> HIDE DEF i
  <2> QED BY <1>2, <2>1, RestType DEF Range
<1>3. ASSUME <<q, k>> \in Range(Rest(p, size))
      PROVE  q = p /\ Size[p] - size[p] < k /\ k <= Size[p]
  <2>1. PICK i \in 1 .. size[p] : <<q, k>> = <<p, Size[p] - size[p] + i>>
    BY <1>3, RestType DEF Range
  <2> QED BY <1>1, <2>1
<1> QED BY <1>2, <1>3

\* A sequence of packets holds the last bytes of each of its packets.
LEMMA ContentRange ==
    ASSUME NEW s \in Seq(Packet), NEW size \in Sizes, NEW q, NEW k \in Int
    PROVE  <<q, k>> \in Range(Content(s, size)) <=>
             q \in Range(s) /\ Size[q] - size[q] < k /\ k <= Size[q]
<1> DEFINE AtEnd(u) == q \in Range(u) /\ Size[q] - size[q] < k /\ k <= Size[q]
           T == {u \in Seq(Packet) : <<q, k>> \in Range(Content(u, size)) <=> AtEnd(u)}
<1>1. <<>> \in T
  BY ContentEmpty DEF Range
<1>2. ASSUME NEW u \in Seq(Packet), NEW p \in Packet, u \in T
      PROVE  Append(u, p) \in T
  <2>1. Range(Content(Append(u, p), size)) = Range(Content(u, size)) \cup Range(Rest(p, size))
    <3>1. Content(u, size) \in Seq(Byte) /\ Rest(p, size) \in Seq(Byte)
      BY ContentType, RestType
    <3>2. Range(Content(u, size) \o Rest(p, size)) = Range(Content(u, size)) \cup Range(Rest(p, size))
      BY <3>1, RangeConcatenation
    <3> QED BY <3>2, ContentAppend
  <2>2. Range(Append(u, p)) = Range(u) \cup {p}
    BY AppendRange
  <2>3. <<q, k>> \in Range(Content(u, size)) <=> AtEnd(u)
    BY <1>2
  <2>4. <<q, k>> \in Range(Rest(p, size)) <=> q = p /\ Size[p] - size[p] < k /\ k <= Size[p]
    BY RestRange
  <2>5. Append(u, p) \in Seq(Packet)
    OBVIOUS
  <2> QED BY <2>1, <2>2, <2>3, <2>4, <2>5
<1> HIDE DEF T
<1>3. Seq(Packet) \subseteq T
  BY <1>1, <1>2, AllSequences
<1> QED BY <1>3 DEF T

\* Content depends on nothing but what is left of its own packets.
LEMMA ContentSame ==
    ASSUME NEW s \in Seq(Packet), NEW a \in Sizes, NEW b \in Sizes,
           \A i \in 1 .. Len(s) : a[s[i]] = b[s[i]]
    PROVE  Content(s, a) = Content(s, b)
<1>1. PICK f : /\ f \in [0 .. Len(s) -> Seq(Byte)]
               /\ f[0] = NoBytes
               /\ \A i \in 1 .. Len(s) : f[i] = f[i - 1] \o Rest(s[i], a)
               /\ Content(s, a) = f[Len(s)]
  BY ContentFunction, Zenon
<1>2. PICK g : /\ g \in [0 .. Len(s) -> Seq(Byte)]
               /\ g[0] = NoBytes
               /\ \A i \in 1 .. Len(s) : g[i] = g[i - 1] \o Rest(s[i], b)
               /\ Content(s, b) = g[Len(s)]
  BY ContentFunction, Zenon
<1>3. \A i \in 1 .. Len(s) : Rest(s[i], a) = Rest(s[i], b)
  BY Zenon DEF Rest
<1>4. AgreeOnStep(f, g, Len(s))
  BY <1>1, <1>2, <1>3, Zenon DEF AgreeOnStep
<1>5. f[0] = g[0]
  BY <1>1, <1>2, Zenon
<1>6. f[Len(s)] = g[Len(s)]
  BY <1>4, <1>5, LenProperties, SameValues
<1> QED BY <1>1, <1>2, <1>6, Zenon

\* The packets that fit into n bytes are the most that have no more than n.
LEMMA FittingIs ==
    ASSUME NEW s \in Seq(Packet), NEW size \in Sizes, NEW n \in Nat
    PROVE  /\ Fitting(s, size, n) \in 0 .. Len(s)
           /\ Bytes(SubSeq(s, 1, Fitting(s, size, n)), size) <= n
           /\ Fitting(s, size, n) < Len(s) =>
                Bytes(SubSeq(s, 1, Fitting(s, size, n) + 1), size) > n
<1> DEFINE T == {i \in 0 .. Len(s) : Bytes(SubSeq(s, 1, i), size) <= n}
<1>1. Len(s) \in Nat /\ T \subseteq 0 .. Len(s)
  BY LenProperties
<1>2. 0 \in T
  <2>1. SubSeq(s, 1, 0) = <<>>
    BY SubSeqEmpty
  <2>2. Bytes(SubSeq(s, 1, 0), size) = 0
    BY <2>1, BytesEmpty, Zenon
  <2> QED BY <1>1, <2>2
<1>3. Fitting(s, size, n) = Max(T)
  BY DEF Fitting
<1>4. Max(T) \in T /\ \A y \in T : y <= Max(T)
  <2>1. T # {}
    BY <1>2
  <2> HIDE DEF T
  <2> QED BY <1>1, <2>1, GreatestNumber
<1>5. ASSUME Max(T) < Len(s)
      PROVE  Bytes(SubSeq(s, 1, Max(T) + 1), size) > n
  <2> DEFINE m == Max(T)
  <2>1. m \in 0 .. Len(s)
    BY <1>4
  <2>2. m + 1 \in 0 .. Len(s) /\ m + 1 \notin T
    <3> HIDE DEF m, T
    <3>1. m \in 0 .. Len(s) /\ m < Len(s) /\ \A y \in T : y <= m
      BY <1>4, <1>5, <2>1 DEF m
    <3> QED BY <1>1, <3>1
  <2> HIDE DEF m
  <2>3. ~(Bytes(SubSeq(s, 1, m + 1), size) <= n)
    BY <2>2
  <2>4. Bytes(SubSeq(s, 1, m + 1), size) \in Nat
    <3>1. \A i \in 1 .. m + 1 : s[i] \in Packet
      BY <1>1, <2>2, ElementOfSeq
    <3>2. SubSeq(s, 1, m + 1) \in Seq(Packet)
      BY <2>1, <3>1, SubSeqProperties
    <3> QED BY <3>2, BytesType
  <2> QED BY <2>3, <2>4 DEF m
<1> HIDE DEF T
<1>6. Max(T) \in 0 .. Len(s) /\ Bytes(SubSeq(s, 1, Max(T)), size) <= n
  BY <1>4 DEF T
<1> QED BY <1>3, <1>5, <1>6

-----------------------------------------------------------------------------
(* The ring: its offsets wrap around, what it stores does not.              *)

IsRing(ring) ==
    /\ ring \in [m_Data : [Slot -> Packet \cup {NoPacket}], m_ReadOffset : Slot, m_WriteOffset : Slot]
    /\ WellFormed(ring, Packet)

\* No packet is the null pointer.
LEMMA PacketIsNumber == Packet = 1 .. Len(Size) /\ Len(Size) \in Nat /\ NoPacket \notin Packet /\ \A p \in Packet : Size[p] \in Nat \ {0}
<1>1. Packet = 1 .. Len(Size) /\ Len(Size) \in Nat
  BY TcpSendAssumption DEF Packet
<1>2. \A p \in Packet : Size[p] \in Nat \ {0}
  BY TcpSendAssumption DEF Packet
<1> QED BY <1>1, <1>2 DEF NoPacket

\* An offset moves on and wraps around once at most.
LEMMA AfterIs ==
    ASSUME NEW o \in Slot, NEW n \in 0 .. Capacity
    PROVE  After(o, n) = (IF o + n < Capacity THEN o + n ELSE o + n - Capacity) /\ After(o, n) \in Slot
<1>1. Capacity \in Nat \ {0, 1} /\ o \in 0 .. Capacity - 1
  BY SendBufferAssumption DEF Slot
<1>2. CASE o + n < Capacity
  <2>1. o + n \in 0 .. Capacity - 1
    BY <1>1, <1>2
  <2>2. (o + n) % Capacity = o + n
    BY <1>1, <2>1
  <2> QED BY <1>2, <2>1, <2>2 DEF After, Slot
<1>3. CASE ~(o + n < Capacity)
  <2>1. o + n \in Capacity .. 2 * Capacity - 1
    BY <1>1, <1>3
  <2>2. (o + n) % Capacity = o + n - Capacity
    BY <1>1, <2>1
  <2>3. o + n - Capacity \in 0 .. Capacity - 1
    BY <1>1, <2>1
  <2> QED BY <1>3, <2>2, <2>3 DEF After, Slot
<1> QED BY <1>2, <1>3

\* The number of packets is the distance from the one offset to the other.
LEMMA CountIs ==
    ASSUME NEW ring, ring.m_ReadOffset \in Slot, ring.m_WriteOffset \in Slot
    PROVE  /\ Count(ring) = IF ring.m_ReadOffset <= ring.m_WriteOffset
                            THEN ring.m_WriteOffset - ring.m_ReadOffset
                            ELSE ring.m_WriteOffset - ring.m_ReadOffset + Capacity
           /\ Count(ring) \in 0 .. Capacity - 1
<1> DEFINE r == ring.m_ReadOffset
           w == ring.m_WriteOffset
<1>1. Capacity \in Nat \ {0, 1} /\ r \in 0 .. Capacity - 1 /\ w \in 0 .. Capacity - 1
  BY SendBufferAssumption DEF Slot
<1>2. Count(ring) = (w - r) % Capacity
  BY DEF Count
<1> HIDE DEF r, w
<1>3. CASE r <= w
  <2>1. w - r \in 0 .. Capacity - 1
    BY <1>1, <1>3
  <2>2. (w - r) % Capacity = w - r
    BY <1>1, <2>1
  <2> QED BY <1>2, <1>3, <2>1, <2>2 DEF r, w
<1>4. CASE ~(r <= w)
  <2>1. w - r \in -Capacity .. -1
    BY <1>1, <1>4
  <2>2. (w - r) % Capacity = w - r + Capacity
    BY <1>1, <2>1
  <2>3. w - r + Capacity \in 0 .. Capacity - 1
    BY <1>1, <1>4
  <2> QED BY <1>2, <1>4, <2>2, <2>3 DEF r, w
<1> QED BY <1>3, <1>4

\* What a ring stores is a sequence of packets, the slots from the read offset on.
LEMMA StoredIs ==
    ASSUME NEW ring, IsRing(ring)
    PROVE  /\ Stored(ring) \in Seq(Packet)
           /\ Len(Stored(ring)) = Count(ring)
           /\ Count(ring) \in 0 .. Capacity - 1
           /\ \A i \in 1 .. Count(ring) : Stored(ring)[i] = ring.m_Data[After(ring.m_ReadOffset, i - 1)]
           /\ IsEmpty(ring) <=> Stored(ring) = <<>>
<1>1. /\ ring.m_Data \in [Slot -> Packet \cup {NoPacket}]
      /\ ring.m_ReadOffset \in Slot /\ ring.m_WriteOffset \in Slot
      /\ \A s \in Slot : ring.m_Data[s] # NoPacket <=>
           \E i \in 0 .. Count(ring) - 1 : s = After(ring.m_ReadOffset, i)
  BY DEF IsRing, WellFormed
<1>2. Count(ring) \in 0 .. Capacity - 1 /\ Capacity \in Nat
  BY <1>1, CountIs, SendBufferAssumption
<1>3. ASSUME NEW i \in 1 .. Count(ring)
      PROVE  ring.m_Data[After(ring.m_ReadOffset, i - 1)] \in Packet
  <2>1. i - 1 \in 0 .. Count(ring) - 1 /\ i - 1 \in 0 .. Capacity
    BY <1>2
  <2>2. After(ring.m_ReadOffset, i - 1) \in Slot
    BY <1>1, <2>1, AfterIs
  <2> QED BY <1>1, <2>1, <2>2
<1>4. Stored(ring) \in Seq(Packet) /\ Len(Stored(ring)) = Count(ring)
  BY <1>2, <1>3 DEF Stored
<1>5. \A i \in 1 .. Count(ring) : Stored(ring)[i] = ring.m_Data[After(ring.m_ReadOffset, i - 1)]
  BY DEF Stored
<1>6. IsEmpty(ring) <=> Count(ring) = 0
  <2>1. ring.m_ReadOffset \in 0 .. Capacity - 1 /\ ring.m_WriteOffset \in 0 .. Capacity - 1
    BY <1>1 DEF Slot
  <2> QED BY <1>1, <1>2, <2>1, CountIs DEF IsEmpty
<1>7. Stored(ring) = <<>> <=> Len(Stored(ring)) = 0
  BY <1>4, EmptySeq
<1> QED BY <1>2, <1>4, <1>5, <1>6, <1>7

\* Two offsets less than a turn apart are different ones.
LEMMA AfterInjective ==
    ASSUME NEW o \in Slot, NEW i \in 0 .. Capacity - 1, NEW j \in 0 .. Capacity - 1, After(o, i) = After(o, j)
    PROVE  i = j
<1>1. Capacity \in Nat /\ o \in 0 .. Capacity - 1 /\ i \in 0 .. Capacity /\ j \in 0 .. Capacity
  BY SendBufferAssumption DEF Slot
<1>2. /\ After(o, i) = IF o + i < Capacity THEN o + i ELSE o + i - Capacity
      /\ After(o, j) = IF o + j < Capacity THEN o + j ELSE o + j - Capacity
  BY <1>1, AfterIs
<1>3. (IF o + i < Capacity THEN o + i ELSE o + i - Capacity) = (IF o + j < Capacity THEN o + j ELSE o + j - Capacity)
  BY <1>2
<1> QED BY <1>1, <1>3

\* Moving on twice is moving on by the sum.
LEMMA AfterAfter ==
    ASSUME NEW o \in Slot, NEW i \in 0 .. Capacity, NEW j \in 0 .. Capacity, i + j <= Capacity
    PROVE  After(After(o, i), j) = After(o, i + j)
<1>1. Capacity \in Nat /\ o \in 0 .. Capacity - 1 /\ i + j \in 0 .. Capacity
  BY SendBufferAssumption DEF Slot
<1>2. /\ After(o, i) = IF o + i < Capacity THEN o + i ELSE o + i - Capacity
      /\ After(o, i) \in Slot
      /\ After(o, i + j) = IF o + (i + j) < Capacity THEN o + (i + j) ELSE o + (i + j) - Capacity
  BY <1>1, AfterIs
<1>3. After(After(o, i), j) = IF After(o, i) + j < Capacity THEN After(o, i) + j ELSE After(o, i) + j - Capacity
  BY <1>2, AfterIs
<1> QED BY <1>1, <1>2, <1>3

\* The write offset is as far from the read offset as there are packets.
LEMMA WriteOffsetIs ==
    ASSUME NEW ring, IsRing(ring)
    PROVE  ring.m_WriteOffset = After(ring.m_ReadOffset, Count(ring))
<1>1. ring.m_ReadOffset \in Slot /\ ring.m_WriteOffset \in Slot
  BY DEF IsRing, WellFormed
<1>2. /\ ring.m_ReadOffset \in 0 .. Capacity - 1
      /\ ring.m_WriteOffset \in 0 .. Capacity - 1
      /\ Capacity \in Nat
  BY <1>1, SendBufferAssumption DEF Slot
<1>3. /\ Count(ring) = IF ring.m_ReadOffset <= ring.m_WriteOffset
                       THEN ring.m_WriteOffset - ring.m_ReadOffset
                       ELSE ring.m_WriteOffset - ring.m_ReadOffset + Capacity
      /\ Count(ring) \in 0 .. Capacity
  BY <1>1, <1>2, CountIs
<1>4. After(ring.m_ReadOffset, Count(ring)) =
        IF ring.m_ReadOffset + Count(ring) < Capacity THEN ring.m_ReadOffset + Count(ring)
        ELSE ring.m_ReadOffset + Count(ring) - Capacity
  BY <1>1, <1>3, AfterIs
<1> QED BY <1>2, <1>3, <1>4

\* The packets are counted from the offsets.
LEMMA CountAfter ==
    ASSUME NEW ring, NEW o \in Slot, NEW n \in 0 .. Capacity - 1,
           ring.m_ReadOffset = o, ring.m_WriteOffset = After(o, n)
    PROVE  Count(ring) = n
<1>1. Capacity \in Nat /\ o \in 0 .. Capacity - 1 /\ n \in 0 .. Capacity
  BY SendBufferAssumption DEF Slot
<1>2. After(o, n) = (IF o + n < Capacity THEN o + n ELSE o + n - Capacity) /\ After(o, n) \in Slot
  BY <1>1, AfterIs
<1>3. Count(ring) = IF o <= After(o, n) THEN After(o, n) - o ELSE After(o, n) - o + Capacity
  BY <1>2, CountIs
<1> QED BY <1>1, <1>2, <1>3

\* Push adds the packet behind the others.
LEMMA PushIs ==
    ASSUME NEW ring, IsRing(ring), ~IsFull(ring), NEW p \in Packet
    PROVE  IsRing(Push(ring, p)) /\ Stored(Push(ring, p)) = Append(Stored(ring), p)
<1> DEFINE r == ring.m_ReadOffset
           w == ring.m_WriteOffset
           c == Count(ring)
           after == Push(ring, p)
<1>1. /\ ring \in [m_Data : [Slot -> Packet \cup {NoPacket}], m_ReadOffset : Slot, m_WriteOffset : Slot]
      /\ r \in Slot /\ w \in Slot
      /\ \A s \in Slot : ring.m_Data[s] # NoPacket <=> \E i \in 0 .. c - 1 : s = After(r, i)
  BY DEF IsRing, WellFormed
<1>2. Capacity \in Nat \ {0, 1} /\ c \in 0 .. Capacity - 1 /\ w = After(r, c)
  BY StoredIs, WriteOffsetIs, SendBufferAssumption
<1>3. /\ after.m_Data = [ring.m_Data EXCEPT ![w] = p]
      /\ after.m_ReadOffset = r
      /\ after.m_WriteOffset = After(w, 1)
  BY <1>1 DEF Push
<1>4. After(w, 1) \in Slot
  BY <1>1, <1>2, AfterIs
<1>5. after \in [m_Data : [Slot -> Packet \cup {NoPacket}], m_ReadOffset : Slot, m_WriteOffset : Slot]
  BY <1>1, <1>4 DEF Push
<1>6. After(w, 1) = After(r, c + 1) /\ c + 1 \in 0 .. Capacity - 1
  <2>1. After(w, 1) = After(r, c + 1)
    BY <1>1, <1>2, AfterAfter
  <2>2. c + 1 # Capacity
    <3>1. SUFFICES ASSUME c + 1 = Capacity PROVE FALSE
      OBVIOUS
    <3>2. r \in 0 .. Capacity - 1
      BY <1>1 DEF Slot
    <3>3. After(r, Capacity) = r
      BY <1>1, <1>2, <3>2, AfterIs
    <3> QED BY <2>1, <3>1, <3>3 DEF IsFull
  <2> QED BY <1>2, <2>1, <2>2
<1>7. Count(after) = c + 1
  BY <1>1, <1>3, <1>6, CountAfter
<1>8. ASSUME NEW s \in Slot
      PROVE  after.m_Data[s] # NoPacket <=> \E i \in 0 .. Count(after) - 1 : s = After(r, i)
  <2>1. 0 .. Count(after) - 1 = (0 .. c - 1) \cup {c}
    BY <1>2, <1>7
  <2>2. after.m_Data[s] = IF s = w THEN p ELSE ring.m_Data[s]
    BY <1>1, <1>3
  <2>3. p # NoPacket
    BY PacketIsNumber
  <2> HIDE DEF after, r, w, c
  <2> QED BY <1>1, <1>2, <2>1, <2>2, <2>3
<1>9. IsRing(after)
  <2>1. /\ after.m_Data \in [Slot -> Packet \cup {NoPacket}]
        /\ after.m_ReadOffset \in Slot /\ after.m_WriteOffset \in Slot
    BY <1>5
  <2> QED BY <1>3, <1>5, <1>8, <2>1 DEF IsRing, WellFormed
<1>10. Stored(after) = Append(Stored(ring), p)
  <2>1. /\ Stored(after) \in Seq(Packet) /\ Len(Stored(after)) = c + 1
        /\ \A i \in 1 .. c + 1 : Stored(after)[i] = after.m_Data[After(r, i - 1)]
    <3> HIDE DEF after, r, c
    <3> QED BY <1>3, <1>7, <1>9, StoredIs
  <2>2. /\ Stored(ring) \in Seq(Packet) /\ Len(Stored(ring)) = c
        /\ \A i \in 1 .. c : Stored(ring)[i] = ring.m_Data[After(r, i - 1)]
    BY StoredIs
  <2>3. Stored(after)[c + 1] = p
    <3>1. c + 1 \in 1 .. c + 1 /\ (c + 1) - 1 = c
      BY <1>2
    <3>2. after.m_Data[w] = p
      BY <1>1, <1>3
    <3> HIDE DEF after, r, w, c
    <3> QED BY <1>2, <2>1, <3>1, <3>2
  <2>4. ASSUME NEW i \in 1 .. c
        PROVE  Stored(after)[i] = Stored(ring)[i]
    <3>1. i \in 1 .. c + 1 /\ i - 1 \in 0 .. Capacity - 1 /\ c \in 0 .. Capacity - 1 /\ i - 1 # c
      BY <1>2
    <3>2. After(r, i - 1) # w /\ After(r, i - 1) \in Slot
      <4>1. i - 1 \in 0 .. Capacity
        BY <1>2
      <4> HIDE DEF after, r, w, c
      <4> QED BY <1>1, <1>2, <3>1, <4>1, AfterInjective, AfterIs
    <3>3. after.m_Data[After(r, i - 1)] = ring.m_Data[After(r, i - 1)]
      BY <1>1, <1>3, <3>2
    <3> HIDE DEF after, r, w, c
    <3> QED BY <2>1, <2>2, <3>1, <3>3
  <2> HIDE DEF after, r, w, c
  <2>5. /\ Append(Stored(ring), p) \in Seq(Packet)
        /\ Len(Append(Stored(ring), p)) = c + 1
        /\ \A i \in 1 .. c : Append(Stored(ring), p)[i] = Stored(ring)[i]
        /\ Append(Stored(ring), p)[c + 1] = p
    BY <2>2, AppendProperties
  <2>6. 1 .. c + 1 = (1 .. c) \cup {c + 1}
    BY <1>2
  <2>7. \A i \in 1 .. c + 1 : Stored(after)[i] = Append(Stored(ring), p)[i]
    BY <2>3, <2>4, <2>5, <2>6
  <2> QED BY <2>1, <2>5, <2>7, SeqEqual
<1> QED BY <1>9, <1>10

\* Release takes the first packets out.
LEMMA ReleaseIs ==
    ASSUME NEW ring, IsRing(ring), NEW k \in 0 .. Count(ring)
    PROVE  IsRing(Release(ring, k)) /\ Stored(Release(ring, k)) = SubSeq(Stored(ring), k + 1, Len(Stored(ring)))
<1> DEFINE r == ring.m_ReadOffset
           w == ring.m_WriteOffset
           c == Count(ring)
           after == Release(ring, k)
<1>1. /\ ring \in [m_Data : [Slot -> Packet \cup {NoPacket}], m_ReadOffset : Slot, m_WriteOffset : Slot]
      /\ r \in Slot /\ w \in Slot
      /\ \A s \in Slot : ring.m_Data[s] # NoPacket <=> \E i \in 0 .. c - 1 : s = After(r, i)
  BY DEF IsRing, WellFormed
<1>2. /\ Capacity \in Nat \ {0, 1} /\ c \in 0 .. Capacity - 1 /\ w = After(r, c)
      /\ k \in 0 .. Capacity /\ c - k \in 0 .. Capacity - 1
  BY StoredIs, WriteOffsetIs, SendBufferAssumption
<1>3. /\ after.m_Data = [s \in Slot |-> IF \E i \in 0 .. k - 1 : s = After(r, i) THEN NoPacket ELSE ring.m_Data[s]]
      /\ after.m_ReadOffset = After(r, k)
      /\ after.m_WriteOffset = w
  BY <1>1 DEF Release
<1>4. After(r, k) \in Slot
  BY <1>1, <1>2, AfterIs
<1>5. after \in [m_Data : [Slot -> Packet \cup {NoPacket}], m_ReadOffset : Slot, m_WriteOffset : Slot]
  BY <1>1, <1>4 DEF Release
<1>6. After(After(r, k), c - k) = w
  <2>1. c - k \in 0 .. Capacity /\ k + (c - k) = c /\ c <= Capacity
    BY <1>2
  <2> HIDE DEF r, w, c
  <2> QED BY <1>1, <1>2, <2>1, AfterAfter
<1>7. Count(after) = c - k
  BY <1>2, <1>3, <1>4, <1>6, CountAfter
<1>8. \A i \in 0 .. c - k - 1 : i + k \in k .. c - 1 /\ i \in 0 .. Capacity /\ After(After(r, k), i) = After(r, i + k)
  <2>1. ASSUME NEW i \in 0 .. c - k - 1
        PROVE  i + k \in k .. c - 1 /\ i \in 0 .. Capacity /\ k + i <= Capacity /\ k + i = i + k
    BY <1>2
  <2> HIDE DEF r, w, c
  <2> QED BY <1>1, <1>2, <2>1, AfterAfter
<1>9. ASSUME NEW s \in Slot
      PROVE  after.m_Data[s] # NoPacket <=> \E i \in 0 .. Count(after) - 1 : s = After(After(r, k), i)
  <2>1. after.m_Data[s] = IF \E i \in 0 .. k - 1 : s = After(r, i) THEN NoPacket ELSE ring.m_Data[s]
    BY <1>3
  <2> HIDE DEF after, r, w, c
  <2>2. ASSUME NEW i \in 0 .. Count(after) - 1, s = After(After(r, k), i)
        PROVE  after.m_Data[s] # NoPacket
    <3>1. i \in 0 .. c - k - 1 /\ i + k \in 0 .. c - 1 /\ i + k \in k .. c - 1 /\ s = After(r, i + k)
      BY <1>2, <1>7, <1>8, <2>2
    <3>2. \A j \in 0 .. k - 1 : After(r, j) # s
      <4>1. ASSUME NEW j \in 0 .. k - 1, After(r, j) = s
            PROVE  FALSE
        <5>1. j \in 0 .. Capacity - 1 /\ i + k \in 0 .. Capacity - 1 /\ j # i + k
          BY <1>2, <3>1
        <5> QED BY <1>1, <3>1, <4>1, <5>1, AfterInjective
      <4> QED BY <4>1
    <3> QED BY <1>1, <2>1, <3>1, <3>2
  <2>3. ASSUME after.m_Data[s] # NoPacket
        PROVE  \E i \in 0 .. Count(after) - 1 : s = After(After(r, k), i)
    <3>1. ring.m_Data[s] # NoPacket /\ ~\E j \in 0 .. k - 1 : s = After(r, j)
      BY <2>1, <2>3
    <3>2. PICK j \in 0 .. c - 1 : s = After(r, j)
      BY <1>1, <3>1
    <3>3. j \notin 0 .. k - 1
      BY <3>1, <3>2
    <3>4. j - k \in 0 .. c - k - 1 /\ (j - k) + k = j
      BY <1>2, <3>3
    <3>5. After(After(r, k), j - k) = s
      BY <1>8, <3>2, <3>4
    <3> QED BY <1>7, <3>4, <3>5
  <2> QED BY <2>2, <2>3
<1>10. IsRing(after)
  <2>1. /\ after.m_Data \in [Slot -> Packet \cup {NoPacket}]
        /\ after.m_ReadOffset \in Slot /\ after.m_WriteOffset \in Slot
    BY <1>5
  <2> QED BY <1>3, <1>5, <1>9, <2>1 DEF IsRing, WellFormed
<1>11. Stored(after) = SubSeq(Stored(ring), k + 1, Len(Stored(ring)))
  <2>1. /\ Stored(after) \in Seq(Packet) /\ Len(Stored(after)) = c - k
        /\ \A i \in 1 .. c - k : Stored(after)[i] = after.m_Data[After(After(r, k), i - 1)]
    <3> HIDE DEF after, r, c
    <3>1. /\ Stored(after) \in Seq(Packet) /\ Len(Stored(after)) = Count(after)
          /\ \A i \in 1 .. Count(after) : Stored(after)[i] = after.m_Data[After(after.m_ReadOffset, i - 1)]
      BY <1>10, StoredIs
    <3> QED BY <1>3, <1>7, <3>1, Zenon
  <2>2. /\ Stored(ring) \in Seq(Packet) /\ Len(Stored(ring)) = c
        /\ \A i \in 1 .. c : Stored(ring)[i] = ring.m_Data[After(r, i - 1)]
    BY StoredIs
  <2>3. ASSUME NEW i \in 1 .. c - k
        PROVE  Stored(after)[i] = Stored(ring)[k + i]
    <3>1. i - 1 \in 0 .. c - k - 1 /\ (i - 1) + k = (k + i) - 1 /\ k + i \in 1 .. c /\ i - 1 \in 0 .. Count(after) - 1
      BY <1>2, <1>7
    <3> HIDE DEF r, w, c
    <3>2. After(After(r, k), i - 1) = After(r, (k + i) - 1)
      BY <1>8, <3>1
    <3>3. After(After(r, k), i - 1) \in Slot
      BY <1>2, <1>4, <1>8, <3>1, AfterIs
    <3>4. after.m_Data[After(After(r, k), i - 1)] = ring.m_Data[After(After(r, k), i - 1)]
      <4>1. after.m_Data[After(After(r, k), i - 1)] # NoPacket
        BY <1>9, <3>1, <3>3
      <4> QED BY <1>3, <3>3, <4>1
    <3> HIDE DEF after
    <3> QED BY <2>1, <2>2, <3>1, <3>2, <3>4
  <2> HIDE DEF after, r, w, c
  <2> DEFINE rest == SubSeq(Stored(ring), k + 1, c)
  <2>4. /\ rest \in Seq(Packet) /\ Len(rest) = c - k
        /\ \A i \in 1 .. c - k : rest[i] = Stored(ring)[k + i]
    <3>1. \A i \in k + 1 .. c : Stored(ring)[i] \in Packet
      BY <1>2, <2>2, ElementOfSeq
    <3>2. /\ rest \in Seq(Packet) /\ Len(rest) = IF k + 1 <= c THEN c - (k + 1) + 1 ELSE 0
          /\ \A i \in 1 .. c - (k + 1) + 1 : rest[i] = Stored(ring)[(k + 1) + i - 1]
      BY <1>2, <3>1, SubSeqProperties
    <3> HIDE DEF rest
    <3> QED BY <1>2, <3>2
  <2>5. \A i \in 1 .. c - k : Stored(after)[i] = rest[i]
    BY <2>3, <2>4
  <2> HIDE DEF rest
  <2>6. Stored(after) = rest
    BY <2>1, <2>4, <2>5, SeqEqual
  <2> QED BY <2>2, <2>6 DEF rest
<1> QED BY <1>10, <1>11

-----------------------------------------------------------------------------
(* What a send hands to the kernel, and what its completion takes away.     *)

\* The bytes of a sequence are those of its first packets, then of the others.
LEMMA ContentSplit ==
    ASSUME NEW s \in Seq(Packet), NEW m \in 0 .. Len(s), NEW size \in Sizes
    PROVE  /\ SubSeq(s, 1, m) \in Seq(Packet) /\ Len(SubSeq(s, 1, m)) = m
           /\ SubSeq(s, m + 1, Len(s)) \in Seq(Packet) /\ Len(SubSeq(s, m + 1, Len(s))) = Len(s) - m
           /\ \A i \in 1 .. m : SubSeq(s, 1, m)[i] = s[i]
           /\ \A i \in 1 .. Len(s) - m : SubSeq(s, m + 1, Len(s))[i] = s[m + i]
           /\ Content(s, size) = Content(SubSeq(s, 1, m), size) \o Content(SubSeq(s, m + 1, Len(s)), size)
<1>1. Len(s) \in Nat /\ \A i \in 1 .. Len(s) : s[i] \in Packet
  BY LenProperties, ElementOfSeq
<1>2. /\ SubSeq(s, 1, m) \in Seq(Packet) /\ Len(SubSeq(s, 1, m)) = m
      /\ \A i \in 1 .. m : SubSeq(s, 1, m)[i] = s[i]
  <2>1. \A i \in 1 .. m : s[i] \in Packet
    BY <1>1
  <2> QED BY <1>1, <2>1, SubSeqProperties
<1>3. /\ SubSeq(s, m + 1, Len(s)) \in Seq(Packet) /\ Len(SubSeq(s, m + 1, Len(s))) = Len(s) - m
      /\ \A i \in 1 .. Len(s) - m : SubSeq(s, m + 1, Len(s))[i] = s[m + i]
  <2> DEFINE rest == SubSeq(s, m + 1, Len(s))
  <2>1. \A i \in m + 1 .. Len(s) : s[i] \in Packet
    BY <1>1
  <2>2. /\ rest \in Seq(Packet) /\ Len(rest) = IF m + 1 <= Len(s) THEN Len(s) - (m + 1) + 1 ELSE 0
        /\ \A i \in 1 .. Len(s) - (m + 1) + 1 : rest[i] = s[(m + 1) + i - 1]
    BY <1>1, <2>1, SubSeqProperties
  <2> HIDE DEF rest
  <2>3. rest \in Seq(Packet) /\ Len(rest) = Len(s) - m /\ \A i \in 1 .. Len(s) - m : rest[i] = s[m + i]
    BY <1>1, <2>2
  <2> QED BY <2>3 DEF rest
<1>4. SubSeq(s, 1, m) \o SubSeq(s, m + 1, Len(s)) = s
  <2>1. /\ 1 \in 1 .. Len(s) + 1 /\ m \in 1 - 1 .. Len(s) /\ Len(s) \in m .. Len(s)
    BY <1>1
  <2>2. SubSeq(s, 1, m) \o SubSeq(s, m + 1, Len(s)) = SubSeq(s, 1, Len(s))
    BY <2>1, ConcatAdjacentSubSeq
  <2> QED BY <2>2, SubSeqFull
<1>5. Content(SubSeq(s, 1, m) \o SubSeq(s, m + 1, Len(s)), size)
      = Content(SubSeq(s, 1, m), size) \o Content(SubSeq(s, m + 1, Len(s)), size)
  BY <1>2, <1>3, ContentConcat
<1> QED BY <1>2, <1>3, <1>4, <1>5

\* A packet has no more bytes than a sequence it is in.
LEMMA BytesAtLeast ==
    ASSUME NEW s \in Seq(Packet), NEW i \in 1 .. Len(s), NEW size \in Sizes
    PROVE  size[s[i]] <= Bytes(s, size)
<1> DEFINE T == {u \in Seq(Packet) : \A j \in 1 .. Len(u) : size[u[j]] <= Bytes(u, size)}
<1>1. <<>> \in T
  OBVIOUS
<1>2. ASSUME NEW u \in Seq(Packet), NEW p \in Packet, u \in T
      PROVE  Append(u, p) \in T
  <2>1. Bytes(Append(u, p), size) = Bytes(u, size) + size[p]
    BY BytesAppend
  <2>2. Bytes(u, size) \in Nat /\ size[p] \in Nat
    BY BytesType DEF Sizes
  <2>3. ASSUME NEW j \in 1 .. Len(Append(u, p))
        PROVE  size[Append(u, p)[j]] <= Bytes(Append(u, p), size)
    <3>1. CASE j = Len(u) + 1
      BY <2>1, <2>2, <3>1
    <3>2. CASE j # Len(u) + 1
      <4>1. j \in 1 .. Len(u) /\ Append(u, p)[j] = u[j] /\ u[j] \in Packet
        BY <3>2
      <4>2. size[u[j]] <= Bytes(u, size) /\ size[u[j]] \in Nat
        BY <1>2, <4>1 DEF Sizes
      <4> QED BY <2>1, <2>2, <4>1, <4>2
    <3> QED BY <3>1, <3>2
  <2>4. Append(u, p) \in Seq(Packet)
    OBVIOUS
  <2> QED BY <2>3, <2>4
<1> HIDE DEF T
<1>3. Seq(Packet) \subseteq T
  BY <1>1, <1>2, AllSequences
<1> QED BY <1>3 DEF T

\* A sequence of one packet.
LEMMA BytesOne ==
    ASSUME NEW s \in Seq(Packet), Len(s) = 1, NEW size \in Sizes
    PROVE  /\ Bytes(s, size) = size[s[1]]
           /\ Content(s, size) = Rest(s[1], size)
<1>1. PICK r \in Seq(Packet), p \in Packet : s = Append(r, p)
  <2>1. s # <<>>
    OBVIOUS
  <2> QED BY <2>1, SequenceEmptyOrAppend
<1>2. Len(r) = 0 /\ s[1] = p
  BY <1>1, AppendProperties
<1>3. r = <<>> /\ size[p] \in Nat
  BY <1>2, EmptySeq DEF Sizes
<1>4. Bytes(s, size) = Bytes(<<>>, size) + size[p] /\ Content(s, size) = Content(<<>>, size) \o Rest(p, size)
  BY <1>1, <1>3, BytesAppend, ContentAppend, Zenon
<1>5. Bytes(<<>>, size) = 0
  BY BytesEmpty
<1>6. Content(<<>>, size) \o Rest(p, size) = Rest(p, size)
  <2>1. <<>> \o Rest(p, size) = Rest(p, size)
    BY RestType, ConcatEmptySeq
  <2> QED BY <2>1, ContentEmpty
<1> QED BY <1>2, <1>3, <1>4, <1>5, <1>6

\* GetWSABUF returns the first packets of the ring: none if the ring is empty or
\* its first packet is larger than a segment, and the first one otherwise.
LEMMA GetWSABUFIs ==
    ASSUME NEW ring, IsRing(ring), NEW size \in Sizes
    PROVE  \E m \in 0 .. Len(Stored(ring)) :
             /\ GetWSABUF(ring, size) = SubSeq(Stored(ring), 1, m)
             /\ m = 0 <=> Stored(ring) = <<>> \/ size[Stored(ring)[1]] > SegmentSize
<1> DEFINE s == Stored(ring)
           n == Min({Len(s), MaxBufs})
           u == SubSeq(s, 1, n)
           m == Fitting(u, size, SegmentSize)
<1>1. s \in Seq(Packet) /\ Len(s) \in Nat
  BY StoredIs, LenProperties
<1>2. MaxBufs \in Nat \ {0} /\ SegmentSize \in Nat \ {0}
  BY SendBufferAssumption
<1>3. n \in 0 .. Len(s) /\ (n = 0 => Len(s) = 0)
  <2>1. \A x \in {Len(s), MaxBufs} : x \in Nat
    BY <1>1, <1>2
  <2>2. n \in {Len(s), MaxBufs} /\ \A y \in {Len(s), MaxBufs} : n <= y
    <3> HIDE DEF s
    <3>1. \E x \in {Len(s), MaxBufs} : \A y \in {Len(s), MaxBufs} : x <= y
      BY <1>1, <1>2
    <3> QED BY <3>1 DEF Min
  <2> HIDE DEF n, s
  <2> QED BY <1>1, <1>2, <2>2
<1>4. GetWSABUF(ring, size) = SubSeq(s, 1, m)
  BY DEF GetWSABUF
<1> HIDE DEF s, n
<1>5. /\ u \in Seq(Packet) /\ Len(u) = n
      /\ \A i \in 1 .. n : u[i] = s[i]
  BY <1>1, <1>3, ContentSplit
<1> HIDE DEF u
<1>6. /\ m \in 0 .. n
      /\ Bytes(SubSeq(u, 1, m), size) <= SegmentSize
      /\ m < n => Bytes(SubSeq(u, 1, m + 1), size) > SegmentSize
  BY <1>2, <1>5, FittingIs
<1> HIDE DEF m
<1>7. ASSUME m = 0, s # <<>>
      PROVE  size[s[1]] > SegmentSize
  <2>1. Len(s) # 0 /\ n # 0 /\ n \in Nat /\ 1 \in 1 .. n /\ 1 \in 0 .. Len(u)
    BY <1>1, <1>3, <1>5, <1>7, EmptySeq
  <2>2. Bytes(SubSeq(u, 1, 1), size) > SegmentSize
    BY <1>6, <1>7, <2>1
  <2>3. /\ SubSeq(u, 1, 1) \in Seq(Packet) /\ Len(SubSeq(u, 1, 1)) = 1
        /\ SubSeq(u, 1, 1)[1] = u[1]
    BY <1>5, <2>1, ContentSplit
  <2>4. Bytes(SubSeq(u, 1, 1), size) = size[u[1]]
    BY <2>3, BytesOne
  <2> QED BY <1>5, <2>1, <2>2, <2>4
<1>8. ASSUME m # 0
      PROVE  s # <<>> /\ ~(size[s[1]] > SegmentSize)
  <2>1. n \in Nat /\ m \in 1 .. n /\ 1 \in 1 .. m /\ 1 \in 1 .. n /\ m \in 0 .. Len(u) /\ Len(s) # 0
    BY <1>1, <1>3, <1>5, <1>6, <1>8
  <2>2. /\ SubSeq(u, 1, m) \in Seq(Packet) /\ Len(SubSeq(u, 1, m)) = m
        /\ SubSeq(u, 1, m)[1] = u[1]
    BY <1>5, <2>1, ContentSplit
  <2>3. size[u[1]] <= Bytes(SubSeq(u, 1, m), size) /\ Bytes(SubSeq(u, 1, m), size) \in Nat
    BY <2>1, <2>2, BytesAtLeast, BytesType
  <2>4. u[1] = s[1] /\ s[1] \in Packet /\ size[s[1]] \in Nat
    BY <1>1, <1>3, <1>5, <2>1, ElementOfSeq DEF Sizes
  <2> QED BY <1>1, <1>2, <1>6, <2>1, <2>3, <2>4
<1>9. m \in 0 .. Len(s)
  BY <1>1, <1>3, <1>6
<1> QED BY <1>4, <1>7, <1>8, <1>9 DEF s

\* A packet of which m bytes more are sent: the rest begins with them.
LEMMA RestSplit ==
    ASSUME NEW p \in Packet, NEW a \in Sizes, NEW b \in Sizes, NEW m \in Nat, a[p] = b[p] + m
    PROVE  \E u \in Seq(Byte) :
             /\ Len(u) = m
             /\ Rest(p, a) = u \o Rest(p, b)
             /\ \A q \in Packet, k \in Int : <<q, k>> \in Range(u) <=> q = p /\ Size[p] - a[p] < k /\ k <= Size[p] - b[p]
<1> DEFINE u == [k \in 1 .. m |-> <<p, Size[p] - a[p] + k>>]
<1>1. a[p] \in Nat /\ b[p] \in Nat /\ Size[p] \in Nat
  BY PacketIsNumber DEF Sizes
<1>2. u \in Seq(Byte) /\ Len(u) = m /\ DOMAIN u = 1 .. m
  BY <1>1 DEF Byte
<1>3. \A k \in 1 .. m : u[k] = <<p, Size[p] - a[p] + k>>
  OBVIOUS
<1> HIDE DEF u
<1>4. Rest(p, a) = u \o Rest(p, b)
  <2>1. /\ Rest(p, a) \in Seq(Byte) /\ Len(Rest(p, a)) = b[p] + m
        /\ \A k \in 1 .. b[p] + m : Rest(p, a)[k] = <<p, Size[p] - a[p] + k>>
    BY RestType
  <2>2. /\ Rest(p, b) \in Seq(Byte) /\ Len(Rest(p, b)) = b[p]
        /\ \A k \in 1 .. b[p] : Rest(p, b)[k] = <<p, Size[p] - b[p] + k>>
    BY RestType
  <2>3. /\ u \o Rest(p, b) \in Seq(Byte) /\ Len(u \o Rest(p, b)) = m + b[p]
        /\ \A k \in 1 .. m + b[p] : (u \o Rest(p, b))[k] = IF k <= m THEN u[k] ELSE Rest(p, b)[k - m]
    <3>1. /\ u \o Rest(p, b) \in Seq(Byte) /\ Len(u \o Rest(p, b)) = Len(u) + Len(Rest(p, b))
          /\ \A k \in 1 .. Len(u) + Len(Rest(p, b)) :
               (u \o Rest(p, b))[k] = IF k <= Len(u) THEN u[k] ELSE Rest(p, b)[k - Len(u)]
      BY <1>2, <2>2, ConcatProperties
    <3> QED BY <1>2, <2>2, <3>1, Zenon
  <2>4. ASSUME NEW k \in 1 .. b[p] + m
        PROVE  Rest(p, a)[k] = (u \o Rest(p, b))[k]
    <3>1. k \in 1 .. m + b[p]
      BY <1>1
    <3>2. CASE k <= m
      <4>1. k \in 1 .. m
        BY <3>2
      <4> QED BY <1>3, <2>1, <2>3, <3>1, <3>2, <4>1, Zenon
    <3>3. CASE ~(k <= m)
      <4>1. k - m \in 1 .. b[p] /\ Size[p] - b[p] + (k - m) = Size[p] - a[p] + k
        BY <1>1, <3>3
      <4>2. (u \o Rest(p, b))[k] = Rest(p, b)[k - m]
        BY <2>3, <3>1, <3>3
      <4>3. Rest(p, b)[k - m] = <<p, Size[p] - b[p] + (k - m)>>
        BY <2>2, <4>1, Zenon
      <4> QED BY <2>1, <4>1, <4>2, <4>3, Zenon
    <3> QED BY <3>2, <3>3
  <2>5. m + b[p] = b[p] + m
    BY <1>1
  <2> QED BY <2>1, <2>3, <2>4, <2>5, SeqEqual
<1>5. ASSUME NEW q \in Packet, NEW k \in Int
      PROVE  <<q, k>> \in Range(u) <=> q = p /\ Size[p] - a[p] < k /\ k <= Size[p] - b[p]
  <2>1. ASSUME <<q, k>> \in Range(u)
        PROVE  q = p /\ Size[p] - a[p] < k /\ k <= Size[p] - b[p]
    <3>1. PICK i \in 1 .. m : <<q, k>> = <<p, Size[p] - a[p] + i>>
      BY <1>2, <1>3, <2>1 DEF Range
    <3> QED BY <1>1, <3>1
  <2>2. ASSUME q = p, Size[p] - a[p] < k, k <= Size[p] - b[p]
        PROVE  <<q, k>> \in Range(u)
    <3> DEFINE i == k - (Size[p] - a[p])
    <3>1. i \in 1 .. m /\ k = Size[p] - a[p] + i
      BY <1>1, <2>2
    <3> HIDE DEF i
    <3> QED BY <1>2, <1>3, <2>2, <3>1 DEF Range
  <2> QED BY <2>1, <2>2
<1> QED BY <1>2, <1>4, <1>5

Distinct(s) == \A i, j \in 1 .. Len(s) : s[i] = s[j] => i = j

\* What a Pop that finishes f packets makes of the stored packets s and of the sizes.
PopTakes(s, size, n, f, s2, later) ==
    /\ f \in 0 .. Len(s)
    /\ s2 = SubSeq(s, f + 1, Len(s))
    /\ \A i \in 1 .. f : later[s[i]] = 0
    /\ \A i \in f + 1 .. Len(s) : 0 < size[s[i]] => 0 < later[s[i]]
    /\ \A p \in Packet : later[p] <= size[p] /\ (p \notin Range(s) => later[p] = size[p])
    /\ \E u \in Seq(Byte) :
         /\ Len(u) = n
         /\ Content(s, size) = u \o Content(s2, later)
         /\ \A p \in Packet, k \in Int :
              <<p, k>> \in Range(u) <=> Size[p] - size[p] < k /\ k <= Size[p] - later[p]

\* Pop(n) takes n bytes off the front of what the ring holds, and nothing else.
LEMMA PopIs ==
    ASSUME NEW ring, IsRing(ring), NEW size \in Sizes, Distinct(Stored(ring)),
           NEW n \in Nat, n <= Bytes(Stored(ring), size)
    PROVE  /\ IsRing(Pop(ring, size, n))
           /\ LeftAfterPop(ring, size, n) \in Sizes
           /\ Finished(ring, size, n) = SubSeq(Stored(ring), 1, Fitting(Stored(ring), size, n))
           /\ PopTakes(Stored(ring), size, n, Fitting(Stored(ring), size, n),
                       Stored(Pop(ring, size, n)), LeftAfterPop(ring, size, n))
<1> DEFINE s == Stored(ring)
           f == Fitting(s, size, n)
           first == SubSeq(s, 1, f)
           rest == SubSeq(s, f + 1, Len(s))
           m == n - Bytes(first, size)
           later == LeftAfterPop(ring, size, n)
<1>1. s \in Seq(Packet) /\ Len(s) \in Nat /\ Len(s) = Count(ring) /\ \A i \in 1 .. Len(s) : s[i] \in Packet
  BY StoredIs, LenProperties, ElementOfSeq
<1> HIDE DEF s
<1>2. /\ f \in 0 .. Len(s)
      /\ Bytes(first, size) <= n
      /\ f < Len(s) => Bytes(SubSeq(s, 1, f + 1), size) > n
  BY <1>1, FittingIs
<1> HIDE DEF f
<1>3. /\ first \in Seq(Packet) /\ Len(first) = f
      /\ rest \in Seq(Packet) /\ Len(rest) = Len(s) - f
      /\ \A i \in 1 .. f : first[i] = s[i]
      /\ \A i \in 1 .. Len(s) - f : rest[i] = s[f + i]
      /\ Content(s, size) = Content(first, size) \o Content(rest, size)
  BY <1>1, <1>2, ContentSplit
<1>4. Finished(ring, size, n) = first /\ Len(Finished(ring, size, n)) = f
  BY <1>3 DEF Finished, s, f
<1>5. IsRing(Pop(ring, size, n)) /\ Stored(Pop(ring, size, n)) = rest
  BY <1>1, <1>2, <1>4, ReleaseIs DEF Pop, s
<1> HIDE DEF first, rest
<1>6. Bytes(first, size) \in Nat /\ m \in Nat
  BY <1>2, <1>3, BytesType
<1> HIDE DEF m
<1>7. later = [p \in Packet |->
                 IF p \in Range(first) THEN 0
                 ELSE IF Len(s) > f /\ p = s[f + 1] THEN size[p] - m ELSE size[p]]
  BY <1>4 DEF LeftAfterPop, s, m, Sizes
<1> HIDE DEF later
<1>8. Range(first) = {s[i] : i \in 1 .. f}
  <2>1. DOMAIN first = 1 .. f
    BY <1>3, LenProperties
  <2> QED BY <1>3, <2>1, ZenonT(30) DEF Range
<1>9. ASSUME f < Len(s)
      PROVE  m < size[s[f + 1]]
  <2>1. f + 1 \in 1 .. Len(s) /\ s[f + 1] \in Packet /\ f \in Nat /\ size[s[f + 1]] \in Nat
    BY <1>1, <1>2, <1>9 DEF Sizes
  <2>2. SubSeq(s, 1, f + 1) = Append(first, s[f + 1])
    <3>1. /\ SubSeq(s, 1, f + 1) \in Seq(Packet) /\ Len(SubSeq(s, 1, f + 1)) = f + 1
          /\ \A i \in 1 .. f + 1 : SubSeq(s, 1, f + 1)[i] = s[i]
      BY <1>1, <2>1, ContentSplit
    <3>2. /\ Append(first, s[f + 1]) \in Seq(Packet) /\ Len(Append(first, s[f + 1])) = f + 1
          /\ \A i \in 1 .. f : Append(first, s[f + 1])[i] = first[i]
          /\ Append(first, s[f + 1])[f + 1] = s[f + 1]
      BY <1>3, <2>1, AppendProperties
    <3>3. 1 .. f + 1 = (1 .. f) \cup {f + 1}
      BY <2>1
    <3>4. \A i \in 1 .. f + 1 : SubSeq(s, 1, f + 1)[i] = Append(first, s[f + 1])[i]
      BY <1>3, <3>1, <3>2, <3>3
    <3> QED BY <3>1, <3>2, <3>4, SeqEqual
  <2>3. Bytes(SubSeq(s, 1, f + 1), size) = Bytes(first, size) + size[s[f + 1]]
    <3>1. Bytes(Append(first, s[f + 1]), size) = Bytes(first, size) + size[s[f + 1]]
      BY <1>3, <2>1, BytesAppend
    <3> QED BY <2>2, <3>1
  <2> QED BY <1>2, <1>6, <1>9, <2>1, <2>3 DEF m
<1>10. \A i \in 1 .. f : later[s[i]] = 0
  <2>1. \A i \in 1 .. f : s[i] \in Packet /\ s[i] \in Range(first)
    BY <1>1, <1>2, <1>8
  <2> QED BY <1>7, <2>1
<1>11. \A i \in f + 1 .. Len(s) : i \in 1 .. Len(s) /\ s[i] \in Packet /\ s[i] \notin Range(first)
  <2>1. \A i \in f + 1 .. Len(s), j \in 1 .. f : s[i] # s[j]
    BY <1>1, <1>2 DEF Distinct, s
  <2> QED BY <1>1, <1>2, <1>8, <2>1
<1>12. \A i \in f + 1 .. Len(s) : later[s[i]] = IF i = f + 1 THEN size[s[i]] - m ELSE size[s[i]]
  <2>1. ASSUME NEW i \in f + 1 .. Len(s)
        PROVE  later[s[i]] = IF i = f + 1 THEN size[s[i]] - m ELSE size[s[i]]
    <3>1. later[s[i]] = IF Len(s) > f /\ s[i] = s[f + 1] THEN size[s[i]] - m ELSE size[s[i]]
      BY <1>7, <1>11
    <3>2. Len(s) > f /\ (s[i] = s[f + 1] <=> i = f + 1)
      BY <1>1, <1>2 DEF Distinct, s
    <3> QED BY <3>1, <3>2
  <2> QED BY <2>1
<1>13. \A p \in Packet : later[p] \in Nat /\ later[p] <= size[p] /\ (p \notin Range(s) => later[p] = size[p])
  <2>1. ASSUME NEW p \in Packet
        PROVE  later[p] \in Nat /\ later[p] <= size[p] /\ (p \notin Range(s) => later[p] = size[p])
    <3>1. size[p] \in Nat
      BY DEF Sizes
    <3>2. CASE p \in Range(first)
      <4>1. later[p] = 0
        BY <1>7, <3>2
      <4>2. p \in Range(s)
        <5>1. PICK i \in 1 .. f : p = s[i]
          BY <1>8, <3>2
        <5> QED BY <1>1, <1>2, <5>1, LenProperties DEF Range
      <4> QED BY <3>1, <4>1, <4>2
    <3>3. CASE p \notin Range(first) /\ Len(s) > f /\ p = s[f + 1]
      <4>1. later[p] = size[p] - m
        BY <1>7, <3>3
      <4>2. m < size[p]
        BY <1>1, <1>2, <1>9, <3>3
      <4>3. p \in Range(s)
        BY <1>1, <1>2, <3>3, LenProperties DEF Range
      <4> QED BY <1>6, <3>1, <4>1, <4>2, <4>3
    <3>4. CASE p \notin Range(first) /\ ~(Len(s) > f /\ p = s[f + 1])
      <4>1. later[p] = size[p]
        BY <1>7, <3>4
      <4> QED BY <3>1, <4>1
    <3> QED BY <3>2, <3>3, <3>4
  <2> QED BY <2>1
<1>14. later \in Sizes
  BY <1>7, <1>13 DEF Sizes
<1>15. \A i \in f + 1 .. Len(s) : 0 < size[s[i]] => 0 < later[s[i]]
  <2>1. ASSUME NEW i \in f + 1 .. Len(s), 0 < size[s[i]]
        PROVE  0 < later[s[i]]
    <3>1. size[s[i]] \in Nat /\ f < Len(s)
      BY <1>1, <1>2, <1>11 DEF Sizes
    <3> QED BY <1>6, <1>9, <1>12, <2>1, <3>1
  <2> QED BY <2>1
<1>16. ASSUME NEW p \in Packet, NEW k \in Int
       PROVE  <<p, k>> \in Range(Content(first, size)) <=>
                p \in Range(first) /\ Size[p] - size[p] < k /\ k <= Size[p] - later[p]
  <2>1. p \in Range(first) => later[p] = 0
    BY <1>7
  <2>2. Size[p] \in Nat
    BY PacketIsNumber
  <2> QED BY <1>3, <2>1, <2>2, ContentRange
<1>17. ASSUME f = Len(s)
       PROVE  PopTakes(s, size, n, f, rest, later)
  <2>1. rest = <<>>
    BY <1>1, <1>3, <1>17, EmptySeq
  <2>2. Content(rest, size) = <<>> /\ Content(rest, later) = <<>>
    BY <1>14, <2>1, ContentEmpty
  <2>3. Content(s, size) = Content(first, size) /\ Content(first, size) \o Content(rest, later) = Content(first, size)
    BY <1>3, <2>2, ContentType, ConcatEmptySeq
  <2>4. Len(Content(first, size)) = n
    <3>1. Bytes(s, size) = Bytes(first, size)
      BY <1>1, <1>3, <2>3, ContentLength
    <3> QED BY <1>2, <1>3, <1>6, <3>1, ContentLength DEF s
  <2>5. ASSUME NEW p \in Packet, NEW k \in Int
        PROVE  <<p, k>> \in Range(Content(first, size)) <=> Size[p] - size[p] < k /\ k <= Size[p] - later[p]
    <3>1. CASE p \in Range(first)
      BY <1>16, <3>1
    <3>2. CASE p \notin Range(first)
      <4>1. later[p] = size[p] /\ size[p] \in Nat /\ Size[p] \in Nat
        BY <1>1, <1>7, <1>17, <3>2, PacketIsNumber DEF Sizes
      <4> QED BY <1>16, <3>2, <4>1
    <3> QED BY <3>1, <3>2
  <2>6. Content(first, size) \in Seq(Byte)
    BY <1>3, ContentType
  <2>7. Content(s, size) = Content(first, size) \o Content(rest, later)
    BY <2>3
  <2> QED BY <1>2, <1>10, <1>13, <1>15, <2>4, <2>5, <2>6, <2>7 DEF PopTakes, rest
<1>18. ASSUME f # Len(s)
       PROVE  PopTakes(s, size, n, f, rest, later)
  <2> DEFINE q == s[f + 1]
             head == SubSeq(rest, 1, 1)
             tail == SubSeq(rest, 1 + 1, Len(rest))
  <2>1. f < Len(s) /\ f + 1 \in 1 .. Len(s) /\ f + 1 \in f + 1 .. Len(s) /\ q \in Packet /\ 1 \in 1 .. Len(s) - f
    BY <1>1, <1>2, <1>18
  <2>2. /\ head \in Seq(Packet) /\ Len(head) = 1 /\ head[1] = rest[1]
        /\ tail \in Seq(Packet) /\ Len(tail) = Len(rest) - 1
        /\ \A i \in 1 .. Len(rest) - 1 : tail[i] = rest[1 + i]
        /\ Content(rest, size) = Content(head, size) \o Content(tail, size)
        /\ Content(rest, later) = Content(head, later) \o Content(tail, later)
    <3>1. 1 \in 0 .. Len(rest) /\ 1 \in 1 .. 1
      BY <1>3, <2>1
    <3>2. \A b \in Sizes :
            /\ head \in Seq(Packet) /\ Len(head) = 1 /\ head[1] = rest[1]
            /\ tail \in Seq(Packet) /\ Len(tail) = Len(rest) - 1
            /\ \A i \in 1 .. Len(rest) - 1 : tail[i] = rest[1 + i]
            /\ Content(rest, b) = Content(head, b) \o Content(tail, b)
      BY <1>3, <3>1, ContentSplit, ZenonT(30)
    <3> QED BY <1>14, <3>2, Zenon
  <2> HIDE DEF q, head, tail
  <2>3. rest[1] = q
    BY <1>3, <2>1 DEF q
  <2>4. Content(head, size) = Rest(q, size) /\ Content(head, later) = Rest(q, later)
    BY <1>14, <2>2, <2>3, BytesOne
  <2>5. Content(tail, size) = Content(tail, later)
    <3>1. ASSUME NEW i \in 1 .. Len(tail)
          PROVE  size[tail[i]] = later[tail[i]]
      <4>1. i \in 1 .. Len(rest) - 1 /\ 1 + i \in 1 .. Len(s) - f /\ f + (1 + i) \in f + 1 .. Len(s) /\ f + (1 + i) # f + 1
        BY <1>1, <1>2, <1>3, <2>2, SMTT(30)
      <4>2. tail[i] = s[f + (1 + i)]
        BY <1>3, <2>2, <4>1
      <4> QED BY <1>12, <4>1, <4>2
    <3> QED BY <1>14, <2>2, <3>1, ContentSame
  <2>6. size[q] = later[q] + m
    <3>1. later[q] = size[q] - m /\ size[q] \in Nat
      BY <1>12, <2>1 DEF q, Sizes
    <3> QED BY <1>6, <3>1
  <2>7. PICK v \in Seq(Byte) :
          /\ Len(v) = m
          /\ Rest(q, size) = v \o Rest(q, later)
          /\ \A p \in Packet, k \in Int : <<p, k>> \in Range(v) <=> p = q /\ Size[q] - size[q] < k /\ k <= Size[q] - later[q]
    BY <1>6, <1>14, <2>1, <2>6, RestSplit
  <2> DEFINE cf == Content(first, size)
             ct == Content(tail, later)
             u == cf \o v
  <2>8. cf \in Seq(Byte) /\ ct \in Seq(Byte) /\ Rest(q, later) \in Seq(Byte) /\ Len(cf) = Bytes(first, size)
    BY <1>3, <1>14, <2>1, <2>2, ContentType, ContentLength, RestType DEF q
  <2>9. Content(s, size) = cf \o ((v \o Rest(q, later)) \o ct) /\ Content(rest, later) = Rest(q, later) \o ct
    BY <1>3, <2>2, <2>4, <2>5, <2>7
  <2> HIDE DEF cf, ct
  <2>10. Content(s, size) = u \o Content(rest, later)
    <3>1. (v \o Rest(q, later)) \o ct = v \o (Rest(q, later) \o ct)
      BY <2>8, ConcatAssociative, SMTT(30)
    <3>2. Rest(q, later) \o ct \in Seq(Byte)
      BY <2>8, ConcatProperties
    <3>3. (cf \o v) \o (Rest(q, later) \o ct) = cf \o (v \o (Rest(q, later) \o ct))
      BY <2>8, <3>2, ConcatAssociative, SMTT(30)
    <3> QED BY <2>9, <3>1, <3>3, Zenon
  <2>11. u \in Seq(Byte) /\ Len(u) = n
    <3>1. u \in Seq(Byte) /\ Len(u) = Len(cf) + Len(v)
      BY <2>8, ConcatProperties
    <3> QED BY <1>6, <2>7, <2>8, <3>1 DEF m
  <2>12. Range(u) = Range(cf) \cup Range(v)
    BY <2>8, RangeConcatenation
  <2> HIDE DEF u
  <2>13. ASSUME NEW p \in Packet, NEW k \in Int
         PROVE  <<p, k>> \in Range(u) <=> Size[p] - size[p] < k /\ k <= Size[p] - later[p]
    <3>1. <<p, k>> \in Range(cf) <=> p \in Range(first) /\ Size[p] - size[p] < k /\ k <= Size[p] - later[p]
      BY <1>16 DEF cf
    <3>2. <<p, k>> \in Range(v) <=> p = q /\ Size[p] - size[p] < k /\ k <= Size[p] - later[p]
      BY <2>7
    <3>3. CASE p \in Range(first) \/ p = q
      BY <2>12, <3>1, <3>2, <3>3
    <3>4. CASE ~(p \in Range(first) \/ p = q)
      <4>1. later[p] = size[p] /\ size[p] \in Nat /\ Size[p] \in Nat
        BY <1>7, <3>4, PacketIsNumber DEF Sizes, q
      <4> QED BY <2>12, <3>1, <3>2, <3>4, <4>1
    <3> QED BY <3>3, <3>4
  <2> QED BY <1>2, <1>10, <1>13, <1>15, <2>10, <2>11, <2>13 DEF PopTakes, rest
<1>19. PopTakes(s, size, n, f, Stored(Pop(ring, size, n)), later)
  BY <1>5, <1>17, <1>18
<1> QED BY <1>4, <1>5, <1>14, <1>19 DEF f, s, first, later

-----------------------------------------------------------------------------
(* The inductive invariant.                                                 *)

Flight == [bytes : Seq(Byte), session : Int]

\* A packet is produced after the previous one was accepted.  (A send that fails
\* leaves its packet with the worker, which offers it again.)
Types ==
    /\ IsRing(m_TCPSendBuffer)
    /\ left \in Sizes
    /\ m_wsaBufLen \in Nat
    /\ flight \in Seq(Flight)
    /\ \A i \in 1 .. Len(flight) : flight[i].session \in 1 .. session
    /\ socket \in {"accepting", "connected", "closing"}
    /\ session \in 0 .. MaxSession
    /\ socket # "accepting" => session # 0
    /\ job \in Packet \cup {NoPacket}
    /\ stage = "checked" => job # NoPacket
    /\ accepted \in Seq(Packet)
    /\ sent \in Seq(Byte)
    /\ freed \in [Packet -> Nat]
    /\ next \in Nat \ {0}
    /\ next <= Len(accepted) + (IF job = NoPacket THEN 1 ELSE 2)

UnderWay(i) == flight[i].bytes # <<>>

NoneUnderWay == \A i \in 1 .. Len(flight) : ~UnderWay(i)

AllSmall == \A p \in Packet : Size[p] <= SegmentSize

\* At most one operation has bytes to send, and not without the mark; and one
\* without bytes comes from a packet that is larger than a segment.
OneIsUnderWay ==
    /\ \A i, j \in 1 .. Len(flight) : UnderWay(i) /\ UnderWay(j) => i = j
    /\ \A i \in 1 .. Len(flight) : UnderWay(i) => Sending
    /\ AllSmall => \A i \in 1 .. Len(flight) : UnderWay(i)

BigFirst == Ring # <<>> /\ left[Ring[1]] > SegmentSize

\* Packets rest in the ring without the mark only behind one too large to be sent.
RestsOnlyBehindBig == ~Sending => Ring = <<>> \/ BigFirst

\* Nothing will be sent any more: the mark was left behind by an operation that
\* failed or was cancelled, or the first packet is larger than a segment.
Stuck == NoneUnderWay /\ (Sending \/ BigFirst)

\* What is left of a packet is what has not been sent.
LeftIsNotSent ==
    \A p \in Packet :
        /\ left[p] <= Size[p]
        /\ freed[p] = IF left[p] = 0 THEN 1 ELSE 0
        /\ \A k \in 1 .. Size[p] : <<p, k>> \in Range(sent) <=> k <= Size[p] - left[p]

\* The packets are accepted in their order, the ring holds the last of them, whose
\* bytes follow those that were sent.
RingIsTheRest ==
    /\ \A i \in 1 .. Len(accepted) : accepted[i] = i
    /\ Len(Ring) <= Len(accepted)
    /\ \A j \in 1 .. Len(Ring) : Ring[j] = Len(accepted) - Len(Ring) + j /\ left[Ring[j]] > 0
    /\ \A p \in Packet : p > Len(accepted) => left[p] = Size[p]
    /\ sent \o Content(Ring, left) = Content(accepted, Size)

JobIsNext ==
    /\ next = Len(accepted) + (IF job = NoPacket THEN 1 ELSE 2)
    /\ job # NoPacket => job = Len(accepted) + 1

IInv ==
    /\ Types
    /\ OneIsUnderWay
    /\ RestsOnlyBehindBig
    /\ LeftIsNotSent
    /\ \A i \in 1 .. Len(flight) : IsPrefix(flight[i].bytes, Content(Ring, left))
    /\ IsPrefix(sent, Content(accepted, Size))
    /\ ~Stuck => RingIsTheRest /\ JobIsNext

\* The sizes are numbers.
LEMMA SizeType == Size \in Sizes /\ Packet = 1 .. Len(Size) /\ Len(Size) \in Nat
<1>1. Packet = 1 .. Len(Size) /\ Len(Size) \in Nat /\ \A p \in Packet : Size[p] \in Nat
  BY PacketIsNumber
<1>2. Size = [p \in Packet |-> Size[p]]
  BY TcpSendAssumption DEF Packet
<1> QED BY <1>1, <1>2 DEF Sizes

\* The empty sequence is a prefix of every other.
LEMMA EmptyIsPrefix ==
    ASSUME NEW S, NEW t \in Seq(S)
    PROVE  IsPrefix(<<>>, t)
<1>1. <<>> \in Seq(S) /\ t = <<>> \o t
  BY ConcatEmptySeq
<1> QED BY <1>1, PrefixIs

\* The invariant implies what the runs check.
LEMMA IInvImplies == IInv => OneSendInFlight /\ KernelBytesAreStored /\ StreamInOrder /\ FreedOnceSent
<1> SUFFICES ASSUME IInv PROVE OneSendInFlight /\ KernelBytesAreStored /\ StreamInOrder /\ FreedOnceSent
  OBVIOUS
<1>1. DOMAIN flight = 1 .. Len(flight) /\ Len(flight) \in Nat /\ Len(accepted) \in Nat
  BY LenProperties DEF IInv, Types
<1>2. TypeOK
  <2>1. next \in 1 .. Len(accepted) + 2
    BY <1>1 DEF IInv, Types
  <2> QED BY <1>1, <2>1 DEF IInv, Types, TypeOK, IsRing, Sizes
<1>3. AllSmall => Len(flight) <= 1 /\ (flight # <<>> => Sending)
  <2>1. SUFFICES ASSUME AllSmall PROVE Len(flight) <= 1 /\ (flight # <<>> => Sending)
    OBVIOUS
  <2>2. /\ \A i, j \in 1 .. Len(flight) : i = j
        /\ \A i \in 1 .. Len(flight) : Sending
    BY <2>1 DEF IInv, OneIsUnderWay
  <2>3. Len(flight) <= 1
    <3>1. SUFFICES ASSUME Len(flight) > 1 PROVE FALSE
      BY <1>1
    <3>2. 1 \in 1 .. Len(flight) /\ 2 \in 1 .. Len(flight)
      BY <1>1, <3>1
    <3> QED BY <2>2, <3>2
  <2>4. ASSUME flight # <<>> PROVE Sending
    <3>1. Len(flight) # 0
      BY <2>4, EmptySeq DEF IInv, Types
    <3>2. 1 \in 1 .. Len(flight)
      BY <1>1, <3>1
    <3> QED BY <2>2, <3>2
  <2> QED BY <2>3, <2>4
<1>4. FreedOnceSent
  <2>1. ASSUME NEW p \in Packet
        PROVE  freed[p] = IF <<p, Size[p]>> \in Range(sent) THEN 1 ELSE 0
    <3>1. Size[p] \in 1 .. Size[p] /\ Size[p] \in Nat /\ left[p] \in Nat
      BY PacketIsNumber, SMTT(30) DEF IInv, Types, Sizes
    <3>2. <<p, Size[p]>> \in Range(sent) <=> Size[p] <= Size[p] - left[p]
      BY <3>1 DEF IInv, LeftIsNotSent
    <3>3. freed[p] = IF left[p] = 0 THEN 1 ELSE 0
      BY DEF IInv, LeftIsNotSent
    <3> QED BY <3>1, <3>2, <3>3
  <2> QED BY <2>1 DEF FreedOnceSent
<1>5. KernelBytesAreStored /\ StreamInOrder
  BY <1>1 DEF IInv, KernelBytesAreStored, StreamInOrder
<1> QED BY <1>2, <1>3, <1>4, <1>5 DEF OneSendInFlight, AllSmall

\* It holds in the initial state.
LEMMA InitIInv == Init => IInv
<1> SUFFICES ASSUME Init PROVE IInv
  OBVIOUS
<1>1. IsRing(EmptyRing) /\ Stored(EmptyRing) = <<>>
  <2>1. 0 \in Slot /\ Capacity \in Nat
    BY SendBufferAssumption DEF Slot
  <2>2. EmptyRing \in [m_Data : [Slot -> Packet \cup {NoPacket}], m_ReadOffset : Slot, m_WriteOffset : Slot]
    BY <2>1 DEF EmptyRing
  <2>3. Count(EmptyRing) = 0
    <3>1. EmptyRing.m_ReadOffset = 0 /\ EmptyRing.m_WriteOffset = 0
      BY DEF EmptyRing
    <3> QED BY <2>1, <3>1, CountIs
  <2>4. IsRing(EmptyRing)
    <3>1. \A s \in Slot : EmptyRing.m_Data[s] = NoPacket
      BY DEF EmptyRing
    <3>2. 0 .. Count(EmptyRing) - 1 = {}
      BY <2>3
    <3> QED BY <2>2, <3>1, <3>2 DEF IsRing, WellFormed
  <2>5. Stored(EmptyRing) \in Seq(Packet) /\ Len(Stored(EmptyRing)) = 0
    BY <2>3, <2>4, StoredIs
  <2> QED BY <2>4, <2>5, EmptySeq
<1>2. Types
  BY <1>1, SizeType, TcpSendAssumption DEF Init, Types
<1>3. Ring = <<>>
  BY <1>1 DEF Init, Ring
<1>4. OneIsUnderWay /\ RestsOnlyBehindBig
  BY <1>3 DEF Init, OneIsUnderWay, RestsOnlyBehindBig
<1>5. LeftIsNotSent
  <2>1. ASSUME NEW p \in Packet
        PROVE  /\ left[p] <= Size[p]
               /\ freed[p] = IF left[p] = 0 THEN 1 ELSE 0
               /\ \A k \in 1 .. Size[p] : <<p, k>> \in Range(sent) <=> k <= Size[p] - left[p]
    <3>1. left[p] = Size[p] /\ Size[p] \in Nat \ {0} /\ freed[p] = 0
      BY PacketIsNumber DEF Init
    <3>2. Range(sent) = {}
      BY DEF Init, Range
    <3> QED BY <3>1, <3>2
  <2> QED BY <2>1 DEF LeftIsNotSent
<1>6. Content(Ring, left) = <<>> /\ Content(accepted, Size) = <<>>
  BY <1>3, SizeType, ContentEmpty DEF Init
<1>7. IsPrefix(sent, Content(accepted, Size))
  <2>1. IsPrefix(<<>>, Content(accepted, Size))
    BY <1>2, SizeType, ContentType, EmptyIsPrefix DEF Types
  <2> QED BY <2>1 DEF Init
<1>8. RingIsTheRest
  BY <1>3, <1>6 DEF Init, RingIsTheRest
<1>9. JobIsNext
  BY DEF Init, JobIsNext
<1>10. \A i \in 1 .. Len(flight) : IsPrefix(flight[i].bytes, Content(Ring, left))
  BY DEF Init
<1> QED BY <1>2, <1>4, <1>5, <1>7, <1>8, <1>9, <1>10 DEF IInv

-----------------------------------------------------------------------------
(* The steps.                                                               *)

\* SendTCPIO, on a ring that holds something, while no operation has bytes to send:
\* the new one has the first of the ring's bytes; without one nothing is sent any more.
LEMMA SendTCPIOStep ==
    ASSUME IsRing(m_TCPSendBuffer'), left' \in Sizes, Ring' # <<>>, left'[Ring'[1]] > 0,
           NEW fs \in Seq(Flight), \A i \in 1 .. Len(fs) : fs[i].bytes = <<>>, session \in Int,
           NEW ok \in BOOLEAN, SendTCPIO(fs, ok)
    PROVE  /\ m_wsaBufLen' \in Nat
           /\ RestsOnlyBehindBig'
           /\ \/ ok /\ \E op \in Flight :
                  /\ flight' = Append(fs, op)
                  /\ op.session = session
                  /\ IsPrefix(op.bytes, Content(Ring, left)')
                  /\ op.bytes # <<>> => Sending'
                  /\ op.bytes = <<>> <=> BigFirst'
              \/ ~ok /\ flight' = fs /\ (Sending' \/ BigFirst')
<1> DEFINE bufs == GetWSABUF(m_TCPSendBuffer', left')
           s == Ring'
<1>1. s \in Seq(Packet) /\ Len(s) \in Nat /\ Len(s) # 0 /\ 1 \in 1 .. Len(s) /\ s[1] \in Packet /\ left'[s[1]] \in Nat
  <2>1. s \in Seq(Packet) /\ Len(s) \in Nat
    BY StoredIs, LenProperties DEF Ring
  <2>2. Len(s) # 0
    BY <2>1, EmptySeq
  <2> QED BY <2>1, <2>2, ElementOfSeq DEF Sizes
<1>2. PICK m \in 0 .. Len(s) :
        /\ bufs = SubSeq(s, 1, m)
        /\ m = 0 <=> s = <<>> \/ left'[s[1]] > SegmentSize
  BY GetWSABUFIs DEF Ring
<1> DEFINE op == [bytes |-> Content(bufs, left'), session |-> session]
<1>3. /\ m_wsaBufLen' = IF bufs = <<>> THEN 0 ELSE left'[bufs[1]]
      /\ flight' = IF ok THEN Append(fs, op) ELSE fs
  BY DEF SendTCPIO
<1> HIDE DEF bufs, s
<1>4. /\ bufs \in Seq(Packet) /\ Len(bufs) = m
      /\ \A i \in 1 .. m : bufs[i] = s[i]
      /\ SubSeq(s, m + 1, Len(s)) \in Seq(Packet)
      /\ Content(s, left') = Content(bufs, left') \o Content(SubSeq(s, m + 1, Len(s)), left')
  BY <1>1, <1>2, ContentSplit
<1>5. Content(bufs, left') \in Seq(Byte) /\ Content(s, left') \in Seq(Byte)
  BY <1>1, <1>4, ContentType
<1>6. op \in Flight
  BY <1>5 DEF Flight
<1>7. IsPrefix(Content(bufs, left'), Content(s, left'))
  BY <1>1, <1>4, <1>5, ContentType, PrefixIs
<1>8. CASE m = 0
  <2>1. bufs = <<>>
    BY <1>4, <1>8, EmptySeq
  <2>2. BigFirst'
    BY <1>2, <1>8 DEF BigFirst, s
  <2>3. m_wsaBufLen' = 0
    BY <1>3, <2>1
  <2>4. RestsOnlyBehindBig'
    BY <2>2 DEF RestsOnlyBehindBig
  <2>5. op.bytes = <<>>
    BY <2>1, ContentEmpty
  <2> QED BY <1>3, <1>6, <1>7, <2>2, <2>3, <2>4, <2>5 DEF s
<1>9. CASE m # 0
  <2>1. bufs # <<>> /\ 1 \in 1 .. m /\ 1 \in 1 .. Len(bufs) /\ bufs[1] = s[1]
    BY <1>1, <1>2, <1>4, <1>9
  <2>2. m_wsaBufLen' \in Nat /\ Sending' /\ ~BigFirst'
    <3>1. m_wsaBufLen' = left'[s[1]]
      BY <1>3, <2>1
    <3>2. left'[s[1]] > 0 /\ ~(left'[s[1]] > SegmentSize)
      BY <1>2, <1>9 DEF s
    <3> QED BY <1>1, <3>1, <3>2 DEF Sending, BigFirst, s
  <2>3. RestsOnlyBehindBig'
    BY <2>2 DEF RestsOnlyBehindBig
  <2>4. op.bytes # <<>>
    <3>1. left'[bufs[1]] <= Bytes(bufs, left') /\ Bytes(bufs, left') \in Nat
      BY <1>4, <2>1, BytesAtLeast, BytesType
    <3>2. left'[bufs[1]] > 0
      BY <2>1 DEF s
    <3>3. Len(op.bytes) # 0
      BY <1>1, <1>4, <2>1, <3>1, <3>2, ContentLength
    <3> QED BY <3>3
  <2> QED BY <1>3, <1>6, <1>7, <2>2, <2>3, <2>4 DEF s
<1> QED BY <1>8, <1>9

\* What the invariant says of the operations after SendTCPIO.
LEMMA SendTCPIOKeeps ==
    ASSUME IsRing(m_TCPSendBuffer'), left' \in Sizes, Ring' # <<>>, left'[Ring'[1]] > 0,
           NEW fs \in Seq(Flight), \A i \in 1 .. Len(fs) : fs[i].bytes = <<>>,
           \A i \in 1 .. Len(fs) : fs[i].session \in 1 .. session,
           AllSmall => fs = <<>> /\ ~BigFirst',
           session \in Nat, m_IsConnected => session # 0,
           NEW ok \in BOOLEAN, SendTCPIO(fs, ok)
    PROVE  /\ m_wsaBufLen' \in Nat
           /\ flight' \in Seq(Flight)
           /\ \A i \in 1 .. Len(flight') : flight'[i].session \in 1 .. session
           /\ OneIsUnderWay'
           /\ RestsOnlyBehindBig'
           /\ \A i \in 1 .. Len(flight') : IsPrefix(flight'[i].bytes, Content(Ring, left)')
           /\ ~ok \/ BigFirst' => Stuck'
<1>1. /\ m_wsaBufLen' \in Nat
      /\ RestsOnlyBehindBig'
      /\ \/ ok /\ \E op \in Flight :
             /\ flight' = Append(fs, op)
             /\ op.session = session
             /\ IsPrefix(op.bytes, Content(Ring, left)')
             /\ op.bytes # <<>> => Sending'
             /\ op.bytes = <<>> <=> BigFirst'
         \/ ~ok /\ flight' = fs /\ (Sending' \/ BigFirst')
  BY SendTCPIOStep
<1>2. Content(Ring, left)' \in Seq(Byte) /\ IsPrefix(<<>>, Content(Ring, left)')
  BY StoredIs, ContentType, EmptyIsPrefix DEF Ring
<1>3. Len(fs) \in Nat
  BY LenProperties
<1>4. CASE ~ok
  <2>1. flight' = fs /\ (Sending' \/ BigFirst')
    BY <1>1, <1>4
  <2>2. NoneUnderWay' /\ OneIsUnderWay'
    BY <1>3, <2>1, EmptySeq DEF NoneUnderWay, OneIsUnderWay, UnderWay
  <2>3. \A i \in 1 .. Len(flight') : flight'[i].bytes = <<>>
    BY <2>1
  <2> QED BY <1>1, <1>2, <2>1, <2>2, <2>3 DEF Stuck
<1>5. CASE ok
  <2>1. PICK op \in Flight :
             /\ flight' = Append(fs, op)
             /\ op.session = session
             /\ IsPrefix(op.bytes, Content(Ring, left)')
             /\ op.bytes # <<>> => Sending'
             /\ op.bytes = <<>> <=> BigFirst'
    BY <1>1, <1>5
  <2>2. /\ flight' \in Seq(Flight) /\ Len(flight') = Len(fs) + 1
        /\ \A i \in 1 .. Len(fs) : flight'[i] = fs[i]
        /\ flight'[Len(fs) + 1] = op
    BY <2>1, AppendProperties
  <2>3. 1 .. Len(flight') = (1 .. Len(fs)) \cup {Len(fs) + 1}
    BY <1>3, <2>2
  <2>4. \A i \in 1 .. Len(flight') : UnderWay(i)' => i = Len(fs) + 1
    BY <2>2, <2>3 DEF UnderWay
  <2>5. session \in 1 .. session
    BY <1>5 DEF SendTCPIO
  <2>6. \A i \in 1 .. Len(flight') : flight'[i].session \in 1 .. session
    BY <2>1, <2>2, <2>3, <2>5
  <2>7. \A i \in 1 .. Len(flight') : IsPrefix(flight'[i].bytes, Content(Ring, left)')
    BY <1>2, <2>1, <2>2, <2>3
  <2>8. \A i \in 1 .. Len(flight') : UnderWay(i)' => Sending'
    BY <2>1, <2>2, <2>4 DEF UnderWay
  <2>9. AllSmall' => \A i \in 1 .. Len(flight') : UnderWay(i)'
    <3>1. SUFFICES ASSUME AllSmall PROVE \A i \in 1 .. Len(flight') : UnderWay(i)'
      BY DEF AllSmall
    <3>2. Len(fs) = 0 /\ op.bytes # <<>>
      BY <2>1, <3>1
    <3> QED BY <2>2, <2>3, <3>2 DEF UnderWay
  <2>10. OneIsUnderWay'
    BY <2>4, <2>8, <2>9 DEF OneIsUnderWay
  <2>11. BigFirst' => Stuck'
    <3>1. SUFFICES ASSUME BigFirst' PROVE NoneUnderWay'
      BY DEF Stuck
    <3>2. op.bytes = <<>>
      BY <2>1, <3>1
    <3>3. \A i \in 1 .. Len(flight') : ~UnderWay(i)'
      BY <2>2, <2>3, <3>2 DEF UnderWay
    <3> QED BY <3>3 DEF NoneUnderWay
  <2> QED BY <1>1, <1>5, <2>2, <2>6, <2>7, <2>10, <2>11
<1> QED BY <1>4, <1>5

\* A prefix stays one when the other sequence grows.
LEMMA PrefixGrows ==
    ASSUME NEW S, NEW s \in Seq(S), NEW t \in Seq(S), NEW u \in Seq(S), IsPrefix(s, t)
    PROVE  IsPrefix(s, t \o u)
<1>1. PICK v \in Seq(S) : t = s \o v
  BY PrefixIs
<1>2. v \o u \in Seq(S) /\ t \o u \in Seq(S)
  BY ConcatProperties
<1>3. (s \o v) \o u = s \o (v \o u)
  BY ConcatAssociative
<1> QED BY <1>1, <1>2, <1>3, PrefixIs

\* The worker's push: the packet's bytes come last, in the ring and in the stream.
LEMMA PushKeeps ==
    ASSUME IInv, PushPacket
    PROVE  /\ job \in Packet
           /\ IsRing(m_TCPSendBuffer') /\ Ring' = Append(Ring, job)
           /\ left' \in Sizes /\ sent' \in Seq(Byte) /\ freed' \in [Packet -> Nat]
           /\ accepted' \in Seq(Packet) /\ Len(accepted') = Len(accepted) + 1
           /\ \A i \in 1 .. Len(flight) : IsPrefix(flight[i].bytes, Content(Ring, left)')
           /\ IsPrefix(sent, Content(accepted, Size))'
           /\ LeftIsNotSent'
           /\ RingIsTheRest /\ JobIsNext => RingIsTheRest'
<1>1. job \in Packet /\ ~IsFull(m_TCPSendBuffer) /\ IsRing(m_TCPSendBuffer) /\ left \in Sizes
  BY DEF IInv, Types, PushPacket
<1>2. /\ m_TCPSendBuffer' = Push(m_TCPSendBuffer, job) /\ accepted' = Append(accepted, job)
      /\ left' = left /\ sent' = sent /\ freed' = freed /\ next' = next
  BY DEF PushPacket
<1>3. IsRing(m_TCPSendBuffer') /\ Ring' = Append(Ring, job)
  BY <1>1, <1>2, PushIs DEF Ring
<1>4. Ring \in Seq(Packet) /\ Len(Ring) \in Nat
  BY <1>1, StoredIs, LenProperties DEF Ring
<1>5. /\ accepted \in Seq(Packet) /\ Len(accepted) \in Nat
      /\ accepted' \in Seq(Packet) /\ Len(accepted') = Len(accepted) + 1
      /\ \A i \in 1 .. Len(accepted) : accepted'[i] = accepted[i]
      /\ accepted'[Len(accepted) + 1] = job
  BY <1>1, <1>2, AppendProperties, LenProperties DEF IInv, Types
<1>6. Content(Ring, left)' = Content(Ring, left) \o Rest(job, left)
  BY <1>1, <1>2, <1>3, <1>4, ContentAppend
<1>7. Content(accepted, Size)' = Content(accepted, Size) \o Rest(job, Size)
  BY <1>1, <1>2, <1>5, SizeType, ContentAppend
<1>8. /\ Content(Ring, left) \in Seq(Byte) /\ Rest(job, left) \in Seq(Byte)
      /\ Content(accepted, Size) \in Seq(Byte) /\ Rest(job, Size) \in Seq(Byte)
      /\ sent \in Seq(Byte)
  BY <1>1, <1>4, <1>5, SizeType, ContentType, RestType DEF IInv, Types
<1>9. \A i \in 1 .. Len(flight) : IsPrefix(flight[i].bytes, Content(Ring, left)')
  <2>1. ASSUME NEW i \in 1 .. Len(flight)
        PROVE  IsPrefix(flight[i].bytes, Content(Ring, left)')
    <3>1. flight[i].bytes \in Seq(Byte)
      <4>1. flight \in Seq(Flight)
        BY DEF IInv, Types
      <4>2. flight[i] \in Flight
        BY <4>1, ElementOfSeq
      <4> QED BY <4>2 DEF Flight
    <3>2. IsPrefix(flight[i].bytes, Content(Ring, left))
      BY DEF IInv
    <3> QED BY <1>6, <1>8, <3>1, <3>2, PrefixGrows
  <2> QED BY <2>1
<1>10. IsPrefix(sent, Content(accepted, Size))'
  <2>1. IsPrefix(sent, Content(accepted, Size))
    BY DEF IInv
  <2>2. IsPrefix(sent, Content(accepted, Size) \o Rest(job, Size))
    BY <1>8, <2>1, PrefixGrows
  <2> QED BY <1>2, <1>7, <2>2
<1>11. LeftIsNotSent'
  BY <1>2 DEF IInv, LeftIsNotSent
<1>12. ASSUME RingIsTheRest, JobIsNext
       PROVE  RingIsTheRest'
  <2>1. job = Len(accepted) + 1
    BY <1>1, <1>12, PacketIsNumber DEF JobIsNext
  <2>2. left[job] = Size[job] /\ left[job] > 0
    BY <1>1, <1>5, <1>12, <2>1, PacketIsNumber DEF RingIsTheRest
  <2>3. \A i \in 1 .. Len(accepted') : accepted'[i] = i
    <3>1. 1 .. Len(accepted') = (1 .. Len(accepted)) \cup {Len(accepted) + 1}
      BY <1>5
    <3> QED BY <1>5, <1>12, <2>1, <3>1 DEF RingIsTheRest
  <2>4. /\ Len(Ring') = Len(Ring) + 1
        /\ \A j \in 1 .. Len(Ring) : Ring'[j] = Ring[j]
        /\ Ring'[Len(Ring) + 1] = job
    BY <1>1, <1>3, <1>4, AppendProperties
  <2>5. /\ Len(Ring) <= Len(accepted)
        /\ \A j \in 1 .. Len(Ring) : Ring[j] = Len(accepted) - Len(Ring) + j /\ left[Ring[j]] > 0
    BY <1>12 DEF RingIsTheRest
  <2>6. ASSUME NEW j \in 1 .. Len(Ring')
        PROVE  Ring'[j] = Len(accepted') - Len(Ring') + j /\ left'[Ring'[j]] > 0
    <3>1. Len(accepted') - Len(Ring') + j = Len(accepted) - Len(Ring) + j
      BY <1>4, <1>5, <2>4
    <3>2. CASE j = Len(Ring) + 1
      BY <1>2, <1>4, <1>5, <2>1, <2>2, <2>4, <3>1, <3>2
    <3>3. CASE j # Len(Ring) + 1
      <4>1. j \in 1 .. Len(Ring)
        BY <1>4, <2>4, <3>3
      <4>2. Ring'[j] = Ring[j] /\ Ring[j] = Len(accepted) - Len(Ring) + j /\ left[Ring[j]] > 0
        BY <2>4, <2>5, <4>1
      <4> QED BY <1>2, <3>1, <4>2
    <3> QED BY <3>2, <3>3
  <2>7. Len(Ring') <= Len(accepted')
    BY <1>4, <1>5, <2>4, <2>5
  <2>8. \A p \in Packet : p > Len(accepted') => left'[p] = Size[p]
    <3>1. \A p \in Packet : p > Len(accepted) => left[p] = Size[p]
      BY <1>12 DEF RingIsTheRest
    <3>2. \A p \in Packet : p > Len(accepted') => p > Len(accepted)
      BY <1>5, PacketIsNumber
    <3> QED BY <1>2, <3>1, <3>2
  <2>9. sent' \o Content(Ring, left)' = Content(accepted, Size)'
    <3>1. Rest(job, left) = Rest(job, Size)
      BY <2>2 DEF Rest
    <3>2. (sent \o Content(Ring, left)) \o Rest(job, left) = sent \o (Content(Ring, left) \o Rest(job, left))
      BY <1>8, ConcatAssociative, SMTT(30)
    <3>3. sent \o Content(Ring, left) = Content(accepted, Size)
      BY <1>12 DEF RingIsTheRest
    <3> QED BY <1>2, <1>6, <1>7, <3>1, <3>2, <3>3
  <2> QED BY <2>3, <2>6, <2>7, <2>8, <2>9 DEF RingIsTheRest
<1> QED BY <1>1, <1>2, <1>3, <1>5, <1>9, <1>10, <1>11, <1>12, SizeType DEF IInv, Types

\* The steps that neither push nor send nor complete change nothing the invariant
\* is about but the worker's and the slot's state.
LEMMA SlotStep ==
    ASSUME IInv, UNCHANGED <<m_TCPSendBuffer, left, m_wsaBufLen, flight, accepted, sent, freed>>,
           Types', JobIsNext => JobIsNext'
    PROVE  IInv'
<1>1. Ring' = Ring /\ (NoneUnderWay' <=> NoneUnderWay) /\ (Sending' <=> Sending) /\ (BigFirst' <=> BigFirst)
  BY DEF Ring, NoneUnderWay, UnderWay, Sending, BigFirst
<1>2. Stuck' <=> Stuck
  BY <1>1 DEF Stuck
<1>3. OneIsUnderWay' /\ RestsOnlyBehindBig' /\ LeftIsNotSent'
  BY <1>1 DEF IInv, OneIsUnderWay, UnderWay, AllSmall, RestsOnlyBehindBig, LeftIsNotSent
<1>4. /\ (\A i \in 1 .. Len(flight) : IsPrefix(flight[i].bytes, Content(Ring, left)))'
      /\ IsPrefix(sent, Content(accepted, Size))'
  BY <1>1 DEF IInv
<1>5. RingIsTheRest => RingIsTheRest'
  BY <1>1 DEF RingIsTheRest
<1> QED BY <1>2, <1>3, <1>4, <1>5 DEF IInv

\* A job takes its packet: nothing else changes.
LEMMA ExecuteReqStep == IInv /\ ExecuteReq => IInv'
<1> SUFFICES ASSUME IInv, ExecuteReq PROVE IInv'
  OBVIOUS
<1>1. next \in Packet /\ next # NoPacket /\ next \in Nat /\ Len(accepted) \in Nat
  BY PacketIsNumber, LenProperties DEF ExecuteReq, IInv, Types
<1>2. Types'
  BY <1>1 DEF IInv, Types, ExecuteReq, slotVars
<1>3. JobIsNext => JobIsNext'
  BY <1>1 DEF JobIsNext, ExecuteReq
<1> QED BY <1>2, <1>3, SlotStep DEF ExecuteReq

\* A worker that finds the slot connected goes on, and nothing else changes.
LEMMA CheckConnectedStep == IInv /\ CheckConnected => IInv'
<1> SUFFICES ASSUME IInv, CheckConnected PROVE IInv'
  OBVIOUS
<1>1. Types'
  BY DEF IInv, Types, CheckConnected, slotVars
<1>2. JobIsNext => JobIsNext'
  BY DEF JobIsNext, CheckConnected
<1> QED BY <1>1, <1>2, SlotStep DEF CheckConnected

\* A packet that finds the ring full stays with its job.
LEMMA PushFailsStep == IInv /\ PushFails => IInv'
<1> SUFFICES ASSUME IInv, PushFails PROVE IInv'
  OBVIOUS
<1>1. Types'
  BY DEF IInv, Types, PushFails, slotVars
<1>2. JobIsNext => JobIsNext'
  BY DEF JobIsNext, PushFails
<1> QED BY <1>1, <1>2, SlotStep DEF PushFails

\* Connecting and disconnecting leave the ring, the packets and the operations alone.
LEMMA SlotSteps == IInv /\ (DoAccept \/ PeerGoes \/ RecvClosed) => IInv'
<1> SUFFICES ASSUME IInv, DoAccept \/ PeerGoes \/ RecvClosed PROVE IInv'
  OBVIOUS
<1>1. UNCHANGED <<m_TCPSendBuffer, left, m_wsaBufLen, flight, accepted, sent, freed, job, stage, next>>
  BY DEF DoAccept, PeerGoes, RecvClosed, DoDisconnect, workerVars
<1>2. /\ socket' \in {"accepting", "connected", "closing"}
      /\ session' \in 0 .. MaxSession
      /\ socket' # "accepting" => session' # 0
      /\ session' \in Nat /\ session \in Nat /\ session <= session'
  BY TcpSendAssumption DEF IInv, Types, DoAccept, PeerGoes, RecvClosed, DoDisconnect
<1>3. \A i \in 1 .. Len(flight) : flight[i].session \in 1 .. session'
  BY <1>2 DEF IInv, Types
<1>4. Types'
  BY <1>1, <1>2, <1>3 DEF IInv, Types
<1>5. JobIsNext => JobIsNext'
  BY <1>1 DEF JobIsNext
<1> QED BY <1>1, <1>4, <1>5, SlotStep

\* A send is under way: the worker only pushes.
LEMMA PushOnlyStep == IInv /\ PushOnly => IInv'
<1> SUFFICES ASSUME IInv, PushOnly PROVE IInv'
  OBVIOUS
<1>1. /\ job \in Packet /\ job' = NoPacket /\ Sending
      /\ m_wsaBufLen' = m_wsaBufLen /\ flight' = flight /\ next' = next
      /\ UNCHANGED <<socket, session, gone>> /\ stage' = "idle"
  BY DEF PushOnly, PushPacket, slotVars, IInv, Types
<1>2. /\ job \in Packet
      /\ IsRing(m_TCPSendBuffer') /\ Ring' = Append(Ring, job)
      /\ left' \in Sizes /\ sent' \in Seq(Byte) /\ freed' \in [Packet -> Nat]
      /\ accepted' \in Seq(Packet) /\ Len(accepted') = Len(accepted) + 1
      /\ \A i \in 1 .. Len(flight) : IsPrefix(flight[i].bytes, Content(Ring, left)')
      /\ IsPrefix(sent, Content(accepted, Size))'
      /\ LeftIsNotSent'
      /\ RingIsTheRest /\ JobIsNext => RingIsTheRest'
  BY PushKeeps DEF PushOnly
<1>3. Len(accepted) \in Nat /\ job # NoPacket
  BY PacketIsNumber, <1>2, LenProperties DEF IInv, Types
<1>4. Types'
  <2>1. next <= Len(accepted) + 2
    BY <1>3 DEF IInv, Types
  <2>2. next' <= Len(accepted') + 1
    BY <1>1, <1>2, <1>3, <2>1 DEF IInv, Types
  <2> QED BY <1>1, <1>2, <1>3, <2>2 DEF IInv, Types
<1>5. Sending' /\ (NoneUnderWay' <=> NoneUnderWay) /\ OneIsUnderWay' /\ RestsOnlyBehindBig'
  BY <1>1 DEF IInv, Sending, NoneUnderWay, UnderWay, OneIsUnderWay, AllSmall, RestsOnlyBehindBig
<1>6. ~Stuck' => ~Stuck
  BY <1>1, <1>5 DEF Stuck
<1>7. JobIsNext => JobIsNext'
  BY <1>1, <1>2, <1>3 DEF JobIsNext
<1>8. (\A i \in 1 .. Len(flight) : IsPrefix(flight[i].bytes, Content(Ring, left)))'
  BY <1>1, <1>2
<1> QED BY <1>2, <1>4, <1>5, <1>6, <1>7, <1>8 DEF IInv

\* None is: then the ring is empty or its first packet too large, and the worker sends.
LEMMA PushAndSendStep ==
    ASSUME IInv, NEW ok \in BOOLEAN, PushAndSend(ok)
    PROVE  IInv'
<1>1. /\ ~Sending /\ SendTCPIO(flight, ok) /\ job' = IF ok THEN NoPacket ELSE job
      /\ UNCHANGED <<socket, session, gone>> /\ next' = next /\ stage' = "idle" /\ left' = left
  BY DEF PushAndSend, PushPacket, slotVars
<1>2. /\ job \in Packet
      /\ IsRing(m_TCPSendBuffer') /\ Ring' = Append(Ring, job)
      /\ left' \in Sizes /\ sent' \in Seq(Byte) /\ freed' \in [Packet -> Nat]
      /\ accepted' \in Seq(Packet) /\ Len(accepted') = Len(accepted) + 1
      /\ IsPrefix(sent, Content(accepted, Size))'
      /\ LeftIsNotSent'
      /\ RingIsTheRest /\ JobIsNext => RingIsTheRest'
  BY PushKeeps DEF PushAndSend
<1>3. Len(accepted) \in Nat /\ job # NoPacket /\ flight \in Seq(Flight) /\ DOMAIN flight = 1 .. Len(flight)
  BY PacketIsNumber, <1>2, LenProperties DEF IInv, Types
<1>4. NoneUnderWay
  BY <1>1 DEF NoneUnderWay, IInv, OneIsUnderWay
<1>5. Ring \in Seq(Packet) /\ Len(Ring) \in Nat
  BY StoredIs, LenProperties DEF IInv, Types, Ring
<1>6. /\ Len(Ring') = Len(Ring) + 1 /\ Ring' # <<>>
      /\ \A j \in 1 .. Len(Ring) : Ring'[j] = Ring[j]
      /\ Ring'[Len(Ring) + 1] = job
  BY <1>2, <1>5, AppendProperties
<1>7. Ring = <<>> => Len(Ring) = 0 /\ Ring'[1] = job
  BY <1>5, <1>6
<1>8. Ring # <<>> => Ring'[1] = Ring[1]
  BY <1>5, <1>6, EmptySeq
<1>9. Ring = <<>> \/ BigFirst
  BY <1>1 DEF IInv, RestsOnlyBehindBig
<1>10. BigFirst => BigFirst' /\ Stuck
  BY <1>1, <1>4, <1>6, <1>8 DEF BigFirst, Stuck
<1>11. ~BigFirst => Ring = <<>> /\ RingIsTheRest /\ JobIsNext /\ ~Stuck
  <2>1. ~BigFirst => ~Stuck
    BY <1>1 DEF Stuck
  <2> QED BY <1>9, <2>1 DEF IInv
<1>12. left'[Ring'[1]] > 0
  <2>1. CASE BigFirst
    <3>1. Ring[1] \in Packet /\ left[Ring[1]] > SegmentSize
      BY <1>5, <2>1, EmptySeq, ElementOfSeq DEF BigFirst
    <3>2. left[Ring[1]] \in Nat /\ SegmentSize \in Nat
      BY <3>1, SendBufferAssumption DEF IInv, Types, Sizes
    <3> QED BY <1>1, <1>8, <2>1, <3>1, <3>2 DEF BigFirst
  <2>2. CASE ~BigFirst
    <3>1. job > Len(accepted)
      BY <1>3, <1>11, <2>2 DEF JobIsNext
    <3>2. left[job] = Size[job]
      BY <1>2, <1>11, <2>2, <3>1 DEF RingIsTheRest
    <3> QED BY <1>1, <1>2, <1>7, <1>11, <2>2, <3>2, PacketIsNumber
  <2> QED BY <2>1, <2>2
<1>13. AllSmall => flight = <<>> /\ ~BigFirst'
  <2>1. SUFFICES ASSUME AllSmall PROVE flight = <<>> /\ ~BigFirst'
    OBVIOUS
  <2>2. flight = <<>>
    <3>1. \A i \in 1 .. Len(flight) : FALSE
      BY <1>4, <2>1 DEF NoneUnderWay, IInv, OneIsUnderWay
    <3>2. Len(flight) = 0
      <4>1. Len(flight) \in Nat
        BY <1>3, LenProperties
      <4>2. SUFFICES ASSUME Len(flight) # 0 PROVE FALSE
        OBVIOUS
      <4>3. 1 \in 1 .. Len(flight)
        BY <4>1, <4>2
      <4> QED BY <3>1, <4>3
    <3> QED BY <1>3, <3>2, EmptySeq
  <2>3. \A p \in Packet : ~(left'[p] > SegmentSize)
    <3>1. \A p \in Packet : left[p] \in Nat /\ Size[p] \in Nat /\ left[p] <= Size[p] /\ Size[p] <= SegmentSize
      BY <2>1, PacketIsNumber DEF IInv, Types, Sizes, LeftIsNotSent, AllSmall
    <3>2. SegmentSize \in Nat
      BY SendBufferAssumption
    <3> QED BY <1>1, <3>1, <3>2
  <2>4. Ring'[1] \in Packet
    BY <1>2, <1>5, <1>6, ElementOfSeq, <1>7, <1>8, EmptySeq
  <2> QED BY <2>2, <2>3, <2>4 DEF BigFirst
<1>14. /\ \A i \in 1 .. Len(flight) : flight[i].bytes = <<>>
       /\ \A i \in 1 .. Len(flight) : flight[i].session \in 1 .. session
       /\ session \in Nat /\ (m_IsConnected => session # 0)
  BY <1>4, TcpSendAssumption DEF NoneUnderWay, UnderWay, IInv, Types, m_IsConnected
<1>15. /\ m_wsaBufLen' \in Nat
       /\ flight' \in Seq(Flight)
       /\ \A i \in 1 .. Len(flight') : flight'[i].session \in 1 .. session
       /\ OneIsUnderWay'
       /\ RestsOnlyBehindBig'
       /\ \A i \in 1 .. Len(flight') : IsPrefix(flight'[i].bytes, Content(Ring, left)')
       /\ ~ok \/ BigFirst' => Stuck'
  BY <1>1, <1>2, <1>3, <1>6, <1>12, <1>13, <1>14, SendTCPIOKeeps
<1>16. Types'
  <2>1. next <= Len(accepted) + 2
    BY <1>3 DEF IInv, Types
  <2>2. next' <= Len(accepted') + 1 /\ Len(accepted') + 1 <= Len(accepted') + 2
    BY <1>1, <1>2, <1>3, <2>1 DEF IInv, Types
  <2>3. next' <= Len(accepted') + (IF job' = NoPacket THEN 1 ELSE 2)
    BY <1>1, <1>2, <1>3, <2>2 DEF IInv, Types
  <2> QED BY <1>1, <1>2, <1>15, <2>3 DEF IInv, Types
<1>17. ASSUME ~Stuck'
       PROVE  RingIsTheRest' /\ JobIsNext'
  <2>1. ok /\ ~BigFirst
    BY <1>10, <1>15, <1>17
  <2>2. RingIsTheRest'
    BY <1>2, <1>11, <2>1
  <2>3. JobIsNext'
    BY <1>1, <1>2, <1>3, <1>11, <2>1 DEF JobIsNext
  <2> QED BY <2>2, <2>3
<1> QED BY <1>2, <1>15, <1>16, <1>17 DEF IInv

\* A cancelled operation leaves the others, and the mark, behind.
LEMMA SendCancelledStep ==
    ASSUME IInv, NEW i \in DOMAIN flight, SendCancelled(i)
    PROVE  IInv'
<1>1. /\ flight' = RemoveAt(flight, i) /\ socket' = "accepting"
      /\ UNCHANGED <<session, gone, m_TCPSendBuffer, left, m_wsaBufLen, job, stage, next, accepted, sent, freed>>
  BY DEF SendCancelled, DoDisconnect, workerVars
<1>2. flight \in Seq(Flight) /\ i \in 1 .. Len(flight) /\ Len(flight) \in Nat
  BY LenProperties DEF IInv, Types
<1>3. /\ flight' \in Seq(Flight) /\ Len(flight') = Len(flight) - 1
      /\ \A j \in 1 .. Len(flight) - 1 : flight'[j] = IF j < i THEN flight[j] ELSE flight[j + 1]
  BY <1>1, <1>2, RemoveAtIs
<1>4. \A j \in 1 .. Len(flight') : \E k \in 1 .. Len(flight) :
        flight'[j] = flight[k] /\ k = IF j < i THEN j ELSE j + 1
  BY <1>2, <1>3
<1>5. Types'
  BY <1>1, <1>3, <1>4 DEF IInv, Types
<1>6. Ring' = Ring /\ (Sending' <=> Sending) /\ (BigFirst' <=> BigFirst) /\ (AllSmall' <=> AllSmall)
  BY <1>1 DEF Ring, Sending, BigFirst, AllSmall
<1>7. OneIsUnderWay'
  <2>1. ASSUME NEW j \in 1 .. Len(flight'), NEW k \in 1 .. Len(flight'), UnderWay(j)', UnderWay(k)'
        PROVE  j = k
    <3>1. PICK a \in 1 .. Len(flight) : flight'[j] = flight[a] /\ a = IF j < i THEN j ELSE j + 1
      BY <1>4
    <3>2. PICK b \in 1 .. Len(flight) : flight'[k] = flight[b] /\ b = IF k < i THEN k ELSE k + 1
      BY <1>4
    <3>3. a = b
      BY <2>1, <3>1, <3>2 DEF UnderWay, IInv, OneIsUnderWay
    <3> QED BY <1>2, <1>3, <3>1, <3>2, <3>3
  <2>2. \A j \in 1 .. Len(flight') : UnderWay(j)' => Sending
    BY <1>4 DEF UnderWay, IInv, OneIsUnderWay
  <2>3. AllSmall => \A j \in 1 .. Len(flight') : UnderWay(j)'
    BY <1>4 DEF UnderWay, IInv, OneIsUnderWay
  <2> QED BY <1>6, <2>1, <2>2, <2>3 DEF OneIsUnderWay
<1>8. NoneUnderWay => NoneUnderWay'
  BY <1>4 DEF NoneUnderWay, UnderWay
<1>9. Stuck => Stuck'
  BY <1>6, <1>8 DEF Stuck
<1>10. RestsOnlyBehindBig' /\ LeftIsNotSent'
  BY <1>1, <1>6 DEF IInv, RestsOnlyBehindBig, LeftIsNotSent
<1>11. (\A j \in 1 .. Len(flight) : IsPrefix(flight[j].bytes, Content(Ring, left)))'
  BY <1>1, <1>4, <1>6 DEF IInv
<1>12. IsPrefix(sent, Content(accepted, Size))'
  BY <1>1 DEF IInv
<1>13. (RingIsTheRest => RingIsTheRest') /\ (JobIsNext => JobIsNext')
  BY <1>1, <1>6 DEF RingIsTheRest, JobIsNext
<1> QED BY <1>5, <1>7, <1>9, <1>10, <1>11, <1>12, <1>13 DEF IInv

\* What a completion takes out of the ring is what was sent.
LEMMA CompletionIs ==
    ASSUME IInv, NEW i \in DOMAIN flight, NEW n \in 1 .. Len(flight[i].bytes), NEW ok \in BOOLEAN,
           TCPSendCompleted(i, n, ok)
    PROVE  /\ UnderWay(i) /\ i \in 1 .. Len(flight)
           /\ RingIsTheRest /\ JobIsNext
           /\ IsRing(m_TCPSendBuffer') /\ left' \in Sizes /\ sent' \in Seq(Byte) /\ freed' \in [Packet -> Nat]
           /\ \A p \in Packet : left'[p] <= left[p]
           /\ IsPrefix(sent, Content(accepted, Size))'
           /\ LeftIsNotSent'
           /\ RingIsTheRest'
<1> DEFINE f == Fitting(Ring, left, n)
           first == SubSeq(Ring, 1, f)
<1>1. /\ sent' = sent \o SubSeq(flight[i].bytes, 1, n)
      /\ m_TCPSendBuffer' = Pop(m_TCPSendBuffer, left, n)
      /\ left' = LeftAfterPop(m_TCPSendBuffer, left, n)
      /\ freed' = [p \in Packet |->
                     IF p \in Range(Finished(m_TCPSendBuffer, left, n)) THEN freed[p] + 1 ELSE freed[p]]
      /\ accepted' = accepted
  BY DEF TCPSendCompleted
<1>2. /\ IsRing(m_TCPSendBuffer) /\ left \in Sizes /\ flight \in Seq(Flight)
      /\ accepted \in Seq(Packet) /\ sent \in Seq(Byte) /\ freed \in [Packet -> Nat]
      /\ i \in 1 .. Len(flight)
  BY LenProperties DEF IInv, Types
<1>3. /\ flight[i].bytes \in Seq(Byte) /\ Len(flight[i].bytes) \in Nat /\ n \in Nat /\ n # 0
      /\ n <= Len(flight[i].bytes) /\ n \in 0 .. Len(flight[i].bytes)
  <2>1. flight[i] \in Flight
    BY <1>2, ElementOfSeq
  <2>2. flight[i].bytes \in Seq(Byte) /\ Len(flight[i].bytes) \in Nat
    BY <2>1, LenProperties DEF Flight
  <2> QED BY <2>2
<1>4. UnderWay(i)
  BY <1>3 DEF UnderWay
<1>5. RingIsTheRest /\ JobIsNext
  BY <1>2, <1>4 DEF IInv, Stuck, NoneUnderWay
<1>6. Ring \in Seq(Packet) /\ Len(Ring) \in Nat /\ Len(accepted) \in Nat
  BY <1>2, StoredIs, LenProperties DEF Ring
<1>7. Distinct(Ring)
  BY <1>5, <1>6 DEF RingIsTheRest, Distinct
<1>8. Content(Ring, left) \in Seq(Byte) /\ IsPrefix(flight[i].bytes, Content(Ring, left))
  BY <1>2, <1>6, ContentType DEF IInv
<1>9. n <= Bytes(Ring, left)
  <2>1. Len(flight[i].bytes) <= Len(Content(Ring, left)) /\ Len(Content(Ring, left)) \in Nat
    BY <1>8, LenProperties DEF IsPrefix
  <2> QED BY <1>2, <1>3, <1>6, <2>1, ContentLength
<1>10. /\ IsRing(m_TCPSendBuffer')
       /\ left' \in Sizes
       /\ f \in 0 .. Len(Ring)
       /\ Finished(m_TCPSendBuffer, left, n) = first
       /\ Ring' = SubSeq(Ring, f + 1, Len(Ring))
       /\ \A j \in 1 .. f : left'[Ring[j]] = 0
       /\ \A j \in f + 1 .. Len(Ring) : 0 < left[Ring[j]] => 0 < left'[Ring[j]]
       /\ \A p \in Packet : left'[p] <= left[p] /\ (p \notin Range(Ring) => left'[p] = left[p])
       /\ \E u \in Seq(Byte) :
            /\ Len(u) = n
            /\ Content(Ring, left) = u \o Content(Ring, left)'
            /\ \A p \in Packet, k \in Int :
                 <<p, k>> \in Range(u) <=> Size[p] - left[p] < k /\ k <= Size[p] - left'[p]
  <2> HIDE DEF f, first
  <2>1. /\ IsRing(Pop(m_TCPSendBuffer, left, n))
        /\ LeftAfterPop(m_TCPSendBuffer, left, n) \in Sizes
        /\ Finished(m_TCPSendBuffer, left, n) = SubSeq(Ring, 1, Fitting(Ring, left, n))
        /\ PopTakes(Ring, left, n, Fitting(Ring, left, n),
                    Stored(Pop(m_TCPSendBuffer, left, n)), LeftAfterPop(m_TCPSendBuffer, left, n))
    BY <1>2, <1>3, <1>7, <1>9, PopIs DEF Ring
  <2>2. Ring' = Stored(Pop(m_TCPSendBuffer, left, n))
    BY <1>1 DEF Ring
  <2>3. PopTakes(Ring, left, n, f, Ring', left')
    BY <1>1, <2>1, <2>2, Zenon DEF f
  <2>4. Finished(m_TCPSendBuffer, left, n) = first
    BY <2>1 DEF f, first
  <2> QED BY <1>1, <2>1, <2>3, <2>4, Zenon DEF PopTakes
<1>11. PICK u \in Seq(Byte) :
            /\ Len(u) = n
            /\ Content(Ring, left) = u \o Content(Ring, left)'
            /\ \A p \in Packet, k \in Int :
                 <<p, k>> \in Range(u) <=> Size[p] - left[p] < k /\ k <= Size[p] - left'[p]
  BY <1>10
<1> HIDE DEF f, first
<1>12. Ring' \in Seq(Packet) /\ Content(Ring, left)' \in Seq(Byte)
  BY <1>10, StoredIs, ContentType DEF Ring
<1>13. sent' = sent \o u /\ sent' \in Seq(Byte)
  <2>1. SubSeq(flight[i].bytes, 1, n) = SubSeq(Content(Ring, left), 1, n)
    BY <1>3, <1>8, PrefixOf
  <2>2. IsPrefix(u, Content(Ring, left))
    BY <1>8, <1>11, <1>12, PrefixIs
  <2>3. SubSeq(u, 1, n) = SubSeq(Content(Ring, left), 1, n)
    BY <1>3, <1>8, <1>11, <2>2, PrefixOf
  <2>4. SubSeq(u, 1, n) = u
    BY <1>11, SubSeqFull
  <2> QED BY <1>1, <1>2, <2>1, <2>3, <2>4, ConcatProperties
<1>14. sent' \o Content(Ring, left)' = Content(accepted, Size)'
  <2>1. (sent \o u) \o Content(Ring, left)' = sent \o (u \o Content(Ring, left)')
    BY <1>2, <1>12, ConcatAssociative, SMTT(30)
  <2>2. sent \o Content(Ring, left) = Content(accepted, Size)
    BY <1>5 DEF RingIsTheRest
  <2> QED BY <1>1, <1>11, <1>13, <2>1, <2>2
<1>15. IsPrefix(sent, Content(accepted, Size))'
  BY <1>1, <1>2, <1>12, <1>13, <1>14, SizeType, ContentType, PrefixIs
<1>16. \A j \in 1 .. Len(Ring) : Ring[j] \in Packet /\ left[Ring[j]] > 0 /\ Ring[j] = Len(accepted) - Len(Ring) + j
  BY <1>5, <1>6, ElementOfSeq DEF RingIsTheRest
<1>17. RingIsTheRest'
  <2>1. /\ Len(Ring') = Len(Ring) - f
        /\ \A j \in 1 .. Len(Ring) - f : Ring'[j] = Ring[f + j]
    BY <1>2, <1>6, <1>10, ContentSplit
  <2>2. ASSUME NEW j \in 1 .. Len(Ring')
        PROVE  Ring'[j] = Len(accepted') - Len(Ring') + j /\ left'[Ring'[j]] > 0
    <3>1. j \in 1 .. Len(Ring) - f /\ f + j \in f + 1 .. Len(Ring) /\ f + j \in 1 .. Len(Ring)
      BY <1>6, <1>10, <2>1
    <3>2. Ring'[j] = Ring[f + j] /\ left[Ring[f + j]] > 0 /\ Ring[f + j] = Len(accepted) - Len(Ring) + (f + j)
      BY <1>16, <2>1, <3>1
    <3>3. left'[Ring[f + j]] > 0
      BY <1>10, <3>1, <3>2
    <3>4. j \in Int /\ f \in Int /\ Len(Ring') = Len(Ring) - f /\ Len(accepted') = Len(accepted)
      BY <1>1, <1>10, <2>1
    <3>5. Len(accepted) - Len(Ring) + (f + j) = Len(accepted') - Len(Ring') + j
      BY <1>6, <3>4
    <3> QED BY <3>2, <3>3, <3>5
  <2>3. Len(Ring') <= Len(accepted')
    BY <1>1, <1>5, <1>6, <1>10, <2>1 DEF RingIsTheRest
  <2>4. ASSUME NEW p \in Packet, p > Len(accepted')
        PROVE  left'[p] = Size[p]
    <3>1. left[p] = Size[p]
      BY <1>1, <1>5, <2>4 DEF RingIsTheRest
    <3>2. p \notin Range(Ring)
      <4>1. SUFFICES ASSUME p \in Range(Ring) PROVE FALSE
        OBVIOUS
      <4>2. PICK j \in 1 .. Len(Ring) : p = Ring[j]
        BY <1>6, <4>1, LenProperties DEF Range
      <4> QED BY <1>1, <1>6, <1>16, <2>4, <4>2
    <3> QED BY <1>10, <3>1, <3>2
  <2>5. \A j \in 1 .. Len(accepted') : accepted'[j] = j
    BY <1>1, <1>5 DEF RingIsTheRest
  <2> QED BY <1>14, <2>2, <2>3, <2>4, <2>5 DEF RingIsTheRest
<1>18. Range(first) = {Ring[j] : j \in 1 .. f}
  <2>1. DOMAIN first = 1 .. f /\ \A j \in 1 .. f : first[j] = Ring[j]
    <3>1. /\ SubSeq(Ring, 1, f) \in Seq(Packet) /\ Len(SubSeq(Ring, 1, f)) = f
          /\ \A j \in 1 .. f : SubSeq(Ring, 1, f)[j] = Ring[j]
      BY <1>2, <1>6, <1>10, ContentSplit
    <3>2. DOMAIN SubSeq(Ring, 1, f) = 1 .. f
      BY <3>1, LenProperties
    <3> QED BY <3>1, <3>2 DEF first
  <2> QED BY <2>1, Zenon DEF Range
<1>19. ASSUME NEW p \in Packet
       PROVE  /\ left'[p] <= Size[p]
              /\ freed'[p] = IF left'[p] = 0 THEN 1 ELSE 0
              /\ \A k \in 1 .. Size[p] : <<p, k>> \in Range(sent)' <=> k <= Size[p] - left'[p]
  <2>1. /\ left[p] <= Size[p] /\ left[p] \in Nat /\ Size[p] \in Nat
        /\ left'[p] \in Nat /\ left'[p] <= left[p]
        /\ freed[p] = IF left[p] = 0 THEN 1 ELSE 0
        /\ \A k \in 1 .. Size[p] : <<p, k>> \in Range(sent) <=> k <= Size[p] - left[p]
    BY <1>2, <1>10, PacketIsNumber DEF Sizes, IInv, LeftIsNotSent
  <2>2. freed'[p] = IF p \in Range(first) THEN freed[p] + 1 ELSE freed[p]
    BY <1>1, <1>10
  <2>3. freed'[p] = IF left'[p] = 0 THEN 1 ELSE 0
    <3>1. CASE p \in Range(first)
      <4>1. PICK j \in 1 .. f : p = Ring[j]
        BY <1>18, <3>1
      <4>2. left'[p] = 0 /\ left[p] > 0
        BY <1>6, <1>10, <1>16, <4>1
      <4> QED BY <2>1, <2>2, <3>1, <4>2
    <3>2. CASE p \notin Range(first)
      <4>1. left'[p] = 0 <=> left[p] = 0
        <5>1. CASE p \in Range(Ring)
          <6>1. PICK j \in 1 .. Len(Ring) : p = Ring[j]
            BY <1>6, <5>1, LenProperties DEF Range
          <6>2. j \notin 1 .. f
            BY <1>18, <3>2, <6>1
          <6>3. j \in f + 1 .. Len(Ring)
            BY <1>6, <1>10, <6>2
          <6> QED BY <1>10, <1>16, <2>1, <6>1, <6>3, SMTT(30)
        <5>2. CASE p \notin Range(Ring)
          BY <1>10, <5>2
        <5> QED BY <5>1, <5>2
      <4> QED BY <2>1, <2>2, <3>2, <4>1
    <3> QED BY <3>1, <3>2
  <2>4. ASSUME NEW k \in 1 .. Size[p]
        PROVE  <<p, k>> \in Range(sent)' <=> k <= Size[p] - left'[p]
    <3>1. Range(sent)' = Range(sent) \cup Range(u)
      BY <1>2, <1>13, RangeConcatenation
    <3>2. <<p, k>> \in Range(u) <=> Size[p] - left[p] < k /\ k <= Size[p] - left'[p]
      BY <1>11
    <3>3. <<p, k>> \in Range(sent) <=> k <= Size[p] - left[p]
      BY <2>1
    <3> QED BY <2>1, <3>1, <3>2, <3>3
  <2> QED BY <2>1, <2>3, <2>4
<1>20. LeftIsNotSent'
  BY <1>19 DEF LeftIsNotSent
<1>21. freed' \in [Packet -> Nat]
  BY <1>1, <1>2
<1> QED BY <1>2, <1>4, <1>5, <1>10, <1>13, <1>15, <1>17, <1>20, <1>21

\* A completion sends the rest of the ring, if there is any, once the operation is gone.
LEMMA TCPSendCompletedStep ==
    ASSUME IInv, NEW i \in DOMAIN flight, NEW n \in 1 .. Len(flight[i].bytes), NEW ok \in BOOLEAN,
           TCPSendCompleted(i, n, ok)
    PROVE  IInv'
<1> DEFINE fs == RemoveAt(flight, i)
<1>1. /\ UnderWay(i) /\ i \in 1 .. Len(flight)
      /\ RingIsTheRest /\ JobIsNext
      /\ IsRing(m_TCPSendBuffer') /\ left' \in Sizes /\ sent' \in Seq(Byte) /\ freed' \in [Packet -> Nat]
      /\ \A p \in Packet : left'[p] <= left[p]
      /\ IsPrefix(sent, Content(accepted, Size))'
      /\ LeftIsNotSent'
      /\ RingIsTheRest'
  BY CompletionIs
<1>2. /\ IF IsEmpty(m_TCPSendBuffer') THEN m_wsaBufLen' = 0 /\ flight' = fs ELSE SendTCPIO(fs, ok)
      /\ UNCHANGED <<socket, session, gone, job, stage, next, accepted>>
  BY DEF TCPSendCompleted, slotVars, workerVars
<1>3. flight \in Seq(Flight) /\ Len(flight) \in Nat
  BY LenProperties DEF IInv, Types
<1>4. /\ fs \in Seq(Flight) /\ Len(fs) = Len(flight) - 1
      /\ \A j \in 1 .. Len(flight) - 1 : fs[j] = IF j < i THEN flight[j] ELSE flight[j + 1]
  BY <1>1, <1>3, RemoveAtIs
<1> HIDE DEF fs
<1>5. \A j \in 1 .. Len(fs) : \E k \in 1 .. Len(flight) : fs[j] = flight[k] /\ k # i
  <2>1. ASSUME NEW j \in 1 .. Len(fs)
        PROVE  \E k \in 1 .. Len(flight) : fs[j] = flight[k] /\ k # i
    <3>1. CASE j < i
      BY <1>1, <1>3, <1>4, <3>1
    <3>2. CASE ~(j < i)
      <4>1. j + 1 \in 1 .. Len(flight) /\ j + 1 # i
        BY <1>1, <1>3, <1>4, <3>2
      <4> QED BY <1>4, <3>2, <4>1
    <3> QED BY <3>1, <3>2
  <2> QED BY <2>1
<1>6. \A j \in 1 .. Len(fs) : fs[j].bytes = <<>> /\ fs[j].session \in 1 .. session
  BY <1>1, <1>5, ZenonT(30) DEF IInv, Types, OneIsUnderWay, UnderWay
<1>7. AllSmall => fs = <<>>
  <2>1. SUFFICES ASSUME AllSmall PROVE fs = <<>>
    OBVIOUS
  <2>2. \A j \in 1 .. Len(fs) : FALSE
    BY <1>1, <1>5, <2>1 DEF IInv, OneIsUnderWay
  <2>3. Len(fs) \in Nat
    BY <1>4, LenProperties
  <2>4. Len(fs) = 0
    <3>1. SUFFICES ASSUME Len(fs) # 0 PROVE FALSE
      OBVIOUS
    <3>2. 1 \in 1 .. Len(fs)
      BY <2>3, <3>1
    <3> QED BY <2>2, <3>2
  <2> QED BY <1>4, <2>4, EmptySeq
<1>8. /\ m_wsaBufLen' \in Nat
      /\ flight' \in Seq(Flight)
      /\ \A j \in 1 .. Len(flight') : flight'[j].session \in 1 .. session
      /\ OneIsUnderWay'
      /\ RestsOnlyBehindBig'
      /\ \A j \in 1 .. Len(flight') : IsPrefix(flight'[j].bytes, Content(Ring, left)')
  <2>1. CASE IsEmpty(m_TCPSendBuffer')
    <3>1. m_wsaBufLen' = 0 /\ flight' = fs
      BY <1>2, <2>1
    <3>2. Ring' = <<>>
      BY <1>1, <2>1, StoredIs DEF Ring
    <3>3. RestsOnlyBehindBig'
      BY <3>2 DEF RestsOnlyBehindBig
    <3>4. OneIsUnderWay'
      <4>1. \A j \in 1 .. Len(flight') : ~UnderWay(j)'
        BY <1>6, <3>1 DEF UnderWay
      <4>2. AllSmall' => Len(flight') = 0
        BY <1>7, <3>1 DEF AllSmall
      <4> QED BY <4>1, <4>2 DEF OneIsUnderWay
    <3>5. IsPrefix(<<>>, Content(Ring, left)')
      BY <1>1, StoredIs, ContentType, EmptyIsPrefix DEF Ring
    <3> QED BY <1>4, <1>6, <3>1, <3>3, <3>4, <3>5
  <2>2. CASE ~IsEmpty(m_TCPSendBuffer')
    <3>1. SendTCPIO(fs, ok)
      BY <1>2, <2>2
    <3>2. Ring' # <<>> /\ Ring' \in Seq(Packet) /\ Len(Ring') \in Nat
      BY <1>1, <2>2, StoredIs, LenProperties DEF Ring
    <3>3. 1 \in 1 .. Len(Ring')
      BY <3>2, EmptySeq
    <3>4. left'[Ring'[1]] > 0 /\ Ring'[1] \in Packet
      BY <1>1, <3>2, <3>3, ElementOfSeq DEF RingIsTheRest
    <3>5. AllSmall => ~BigFirst'
      <4>1. SUFFICES ASSUME AllSmall PROVE ~(left'[Ring'[1]] > SegmentSize)
        BY DEF BigFirst
      <4> DEFINE p == Ring'[1]
      <4>2. /\ left[p] <= Size[p] /\ Size[p] <= SegmentSize /\ left'[p] <= left[p]
            /\ left[p] \in Nat /\ Size[p] \in Nat /\ left'[p] \in Nat /\ SegmentSize \in Nat
        <5> HIDE DEF p
        <5>1. p \in Packet
          BY <3>4 DEF p
        <5>2. left \in Sizes /\ LeftIsNotSent
          BY DEF IInv, Types
        <5> QED BY <1>1, <4>1, <5>1, <5>2, PacketIsNumber, SendBufferAssumption DEF AllSmall, Sizes, LeftIsNotSent
      <4> HIDE DEF p
      <4>3. ~(left'[p] > SegmentSize)
        BY <4>2
      <4> QED BY <4>3 DEF p
    <3>6. session \in Nat /\ (m_IsConnected => session # 0)
      BY TcpSendAssumption DEF IInv, Types, m_IsConnected
    <3> QED BY <1>1, <1>4, <1>6, <1>7, <3>1, <3>2, <3>4, <3>5, <3>6, SendTCPIOKeeps
  <2> QED BY <2>1, <2>2
<1>9. Types'
  BY <1>1, <1>2, <1>8 DEF IInv, Types
<1>10. JobIsNext'
  BY <1>1, <1>2 DEF JobIsNext
<1> QED BY <1>1, <1>8, <1>9, <1>10 DEF IInv

-----------------------------------------------------------------------------
(* The theorems.                                                            *)

\* Every step keeps the invariant.
LEMMA NextIInv == IInv /\ [Next]_vars => IInv'
<1> SUFFICES ASSUME IInv, [Next]_vars PROVE IInv'
  OBVIOUS
<1>1. CASE ExecuteReq
  BY <1>1, ExecuteReqStep
<1>2. CASE Worker
  <2>1. CASE CheckConnected
    BY <2>1, CheckConnectedStep
  <2>2. CASE PushFails
    BY <2>2, PushFailsStep
  <2>3. CASE PushOnly
    BY <2>3, PushOnlyStep
  <2>4. ASSUME NEW ok \in BOOLEAN, PushAndSend(ok)
        PROVE  IInv'
    BY <2>4, PushAndSendStep
  <2> QED BY <1>2, <2>1, <2>2, <2>3, <2>4 DEF Worker
<1>3. CASE SendCompletion
  <2>1. PICK i \in DOMAIN flight :
          \/ SendCancelled(i)
          \/ \E n \in 1 .. Len(flight[i].bytes), ok \in BOOLEAN : TCPSendCompleted(i, n, ok)
    BY <1>3 DEF SendCompletion
  <2>2. CASE SendCancelled(i)
    BY <2>2, SendCancelledStep
  <2>3. ASSUME NEW n \in 1 .. Len(flight[i].bytes), NEW ok \in BOOLEAN, TCPSendCompleted(i, n, ok)
        PROVE  IInv'
    BY <2>3, TCPSendCompletedStep
  <2> QED BY <2>1, <2>2, <2>3
<1>4. CASE DoAccept \/ PeerGoes \/ RecvClosed
  BY <1>4, SlotSteps
<1>5. CASE UNCHANGED vars
  <2>1. UNCHANGED <<m_TCPSendBuffer, left, m_wsaBufLen, flight, socket, session, job, stage, next, accepted, sent, freed>>
    BY <1>5 DEF vars, slotVars, workerVars
  <2>2. Types' /\ (JobIsNext => JobIsNext')
    BY <2>1 DEF IInv, Types, JobIsNext
  <2> QED BY <2>1, <2>2, SlotStep
<1> QED BY <1>1, <1>2, <1>3, <1>4, <1>5 DEF Next

\* The invariant holds throughout.
THEOREM IInvHolds == Spec => []IInv
BY InitIInv, NextIInv, PTL DEF Spec

\* The mark (the length of the first buffer) tells whether a send is under way: if
\* every packet fits into a segment, there is one operation at most, and only with
\* the mark set, however the worker, the IO threads and the slot's clients interleave.
THEOREM OneSendInFlightHolds == Spec => []OneSendInFlight
<1>1. IInv => OneSendInFlight
  BY IInvImplies
<1> QED BY <1>1, IInvHolds, PTL

\* The kernel never sends from memory that the ring has given up or put in another
\* order: what an operation was given is the beginning of what the ring holds.
THEOREM KernelBytesAreStoredHolds == Spec => []KernelBytesAreStored
<1>1. IInv => KernelBytesAreStored
  BY IInvImplies
<1> QED BY <1>1, IInvHolds, PTL

\* No byte is lost, repeated or overtaken, for every capacity of the ring, number of
\* buffers, segment size and sequence of packets, however the kernel splits the sends.
THEOREM StreamInOrderHolds == Spec => []StreamInOrder
<1>1. IInv => StreamInOrder
  BY IInvImplies
<1> QED BY <1>1, IInvHolds, PTL

\* A packet goes back to the pool once, and not before its last byte was sent.
THEOREM FreedOnceSentHolds == Spec => []FreedOnceSent
<1>1. IInv => FreedOnceSent
  BY IInvImplies
<1> QED BY <1>1, IInvHolds, PTL
=============================================================================
