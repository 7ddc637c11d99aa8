----------------------------- MODULE SendBuffer -----------------------------
(***************************************************************************)
(* SendBuffer (SendBuffer.cpp): a ring of pointers to packets that wait to *)
(* be sent.  A ring is a record of its slots and its two offsets; the      *)
(* operations are operators from rings to rings, used under the lock of    *)
(* the connection that owns the ring.  left[p] is PacketData::m_Size, the  *)
(* number of bytes of packet p that are still to be sent.                  *)
(***************************************************************************)
EXTENDS Integers, Sequences, SequencesExt, FiniteSetsExt

CONSTANTS
    Capacity,       \* MAX_SEND_SLIDEBUFFER_SIZE, one slot of which stays free
    MaxBufs,        \* MAX_WSABUFS
    SegmentSize     \* MAX_TCP_SEGMENT_SIZE

NoPacket == 0       \* the null pointer: packets are numbered from 1

ASSUME SendBufferAssumption ==
    Capacity \in Nat \ {0, 1} /\ MaxBufs \in Nat \ {0} /\ SegmentSize \in Nat \ {0}

Slot == 0 .. Capacity - 1

EmptyRing == [m_Data |-> [s \in Slot |-> NoPacket], m_ReadOffset |-> 0, m_WriteOffset |-> 0]

After(offset, n) == (offset + n) % Capacity

IsEmpty(ring) == ring.m_ReadOffset = ring.m_WriteOffset

IsFull(ring) == After(ring.m_WriteOffset, 1) = ring.m_ReadOffset

Count(ring) == (ring.m_WriteOffset - ring.m_ReadOffset) % Capacity

\* The packets from m_ReadOffset up to m_WriteOffset, in the order of the ring.
Stored(ring) == [i \in 1 .. Count(ring) |-> ring.m_Data[After(ring.m_ReadOffset, i - 1)]]

Push(ring, p) ==
    [ring EXCEPT !.m_Data[ring.m_WriteOffset] = p, !.m_WriteOffset = After(@, 1)]

Bytes(packets, left) ==
    LET upTo[i \in 0 .. Len(packets)] == IF i = 0 THEN 0 ELSE upTo[i - 1] + left[packets[i]]
    IN  upTo[Len(packets)]

\* How many of the packets, from the first, fit into n bytes.
Fitting(packets, left, n) ==
    Max({i \in 0 .. Len(packets) : Bytes(SubSeq(packets, 1, i), left) <= n})

\* The packets that n sent bytes finish.
Finished(ring, left, n) ==
    SubSeq(Stored(ring), 1, Fitting(Stored(ring), left, n))

\* The first k packets leave the ring.
Release(ring, k) ==
    [ring EXCEPT
        !.m_Data = [s \in Slot |->
            IF \E i \in 0 .. k - 1 : s = After(ring.m_ReadOffset, i) THEN NoPacket ELSE @[s]],
        !.m_ReadOffset = After(@, k)]

\* Fault: a packet that was sent in part is dropped with the finished ones.
PopRoundsUp(ring, left, n) ==
    LET k == Len(Finished(ring, left, n))
    IN  Release(ring, IF n > Bytes(Finished(ring, left, n), left) THEN k + 1 ELSE k)

\* Pop(n): the packets that n bytes finish leave the ring.
Pop(ring, left, n) == Release(ring, Len(Finished(ring, left, n)))

\* What Pop(n) leaves of each packet: nothing of a finished one, which is cleared
\* and returned to the pool, and the tail of the one that was sent in part.
LeftAfterPop(ring, left, n) ==
    LET finished == Finished(ring, left, n)
        stored == Stored(ring)
        rest == n - Bytes(finished, left)
    IN  [p \in DOMAIN left |->
            IF p \in Range(finished) THEN 0
            ELSE IF Len(stored) > Len(finished) /\ p = stored[Len(finished) + 1]
                 THEN left[p] - rest
                 ELSE left[p]]

\* GetWSABUF: the leading packets that fit into the buffers and one segment.
GetWSABUF(ring, left) ==
    LET stored == Stored(ring)
        n == Min({Len(stored), MaxBufs})
    IN  SubSeq(stored, 1, Fitting(SubSeq(stored, 1, n), left, SegmentSize))

\* The occupied slots are those between the offsets.
WellFormed(ring, Packet) ==
    /\ ring.m_Data \in [Slot -> Packet \cup {NoPacket}]
    /\ ring.m_ReadOffset \in Slot
    /\ ring.m_WriteOffset \in Slot
    /\ \A s \in Slot :
         ring.m_Data[s] # NoPacket <=>
             \E i \in 0 .. Count(ring) - 1 : s = After(ring.m_ReadOffset, i)
=============================================================================
