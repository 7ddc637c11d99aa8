--------------------------- MODULE IOCPCoreProofs ---------------------------
(***************************************************************************)
(* Proofs about IOCPCore: for any number of slots, IO threads, clients and *)
(* completions taken at once, the structure that a slot receives with is   *)
(* in one place, as long as no connection of the slot ended under a send.  *)
(*                                                                         *)
(* A slot's receive is a token: an operation that the kernel has, a        *)
(* completion that is queued, or an entry of a batch.  An IO thread that   *)
(* handles the entry holds the token until it starts the next operation,   *)
(* so nobody else touches the slot's socket meanwhile; unless a completion *)
(* of a send is handled as a disconnection, which is when the slot is cut. *)
(***************************************************************************)
EXTENDS IOCPCore, FiniteSetTheorems, SequenceTheorems, TLAPS

-----------------------------------------------------------------------------
(* The inductive invariant.                                                 *)

Peers == {"free", "none", "open", "closed", "reset"}
Connection ==
    [m_TcpSocket : Socket \cup {None}, m_IsConnected : BOOLEAN, m_eOperation : {"accept", "recv"},
     sending : BOOLEAN]
Completions ==
    [kind : {"accept", "recv", "send", "end"}, slot : Slot \cup {None}, bytes : {0, 1},
     status : {"ok", "reset", "cancelled"}]

\* A completion that is not a request to end is of a slot; an accept's has no bytes,
\* and what carries bytes has not failed.
Sound(c) ==
    /\ c.kind # "end" => c.slot \in Slot
    /\ c.kind = "accept" => c.bytes = 0
    /\ c.bytes = 0 \/ c.status = "ok"
SoundOnes == {c \in Completions : Sound(c)}

Resting == {"wait", "exited", "crashed"}
Handling == {"close", "reset", "bind_iocp", "bind_recv"}
Pcs == Resting \cup Handling \cup {"dispatch", "switch"}
Thread == [pc : Pcs, batch : Seq(SoundOnes), again : BOOLEAN]

Shapes ==
    /\ conn \in [Slot -> Connection]
    /\ sock \in [Socket -> [peer : Peers, slot : Slot \cup {None}]]
    /\ \A k \in Socket : sock[k].peer = "free" <=> sock[k].slot = None
    /\ IsFiniteSet(pending)
    /\ \A p \in pending : p.kind \in {"accept", "recv", "send"} /\ p.slot \in Slot /\ p.sock \in Socket
    /\ port \in Seq(SoundOnes)
    /\ io \in [IOThread -> Thread]
    /\ main \in {"running", "joining", "ended", "crashed"}
    /\ cut \subseteq Slot

\* An operation is on a socket that its slot made.  A slot has a socket that it made,
\* and, unless it was cut, no other.
Sockets ==
    /\ \A p \in pending : sock[p.sock].slot = p.slot
    /\ main # "crashed" => \A i \in Slot : conn[i].m_TcpSocket # None => sock[conn[i].m_TcpSocket].slot = i
    /\ \A i \in Slot \ cut, k \in Socket : sock[k].slot = i => conn[i].m_TcpSocket = k

Crashed ==
    main = "crashed" =>
        /\ pending = {}
        /\ \A k \in Socket : sock[k] = NoSocket
        /\ \A t \in IOThread : io[t].pc = "crashed"

IsOfReceive(c) == c.kind \in {"accept", "recv"}

\* What a thread knows of what it handles.
ThreadKnows(t) ==
    /\ io[t].batch = <<>> <=> io[t].pc \in Resting
    /\ Len(io[t].batch) <= MaxBatch
    /\ io[t].pc \in Handling \cup {"switch"} => Current(t).kind # "end"
    /\ io[t].pc \in {"bind_iocp", "bind_recv"} => IsOfReceive(Current(t))
    /\ io[t].pc \in Handling /\ Current(t).slot \notin cut => ~io[t].again
    /\ io[t].pc = "reset" /\ Current(t).slot \notin cut =>
         /\ IsOfReceive(Current(t))
         /\ conn[Current(t).slot].m_TcpSocket = None
         /\ ~conn[Current(t).slot].m_IsConnected
Threads == \A t \in IOThread : ThreadKnows(t)

\* Nobody is told to end before the end.
NoneToldYet ==
    m_IsRun =>
        /\ \A n \in DOMAIN port : port[n].kind # "end"
        /\ \A t \in IOThread : \A n \in DOMAIN io[t].batch : io[t].batch[n].kind # "end"

\* ReceiveInOnePlace of one slot, without counting.
TakenAt(t, n, i) == n \in DOMAIN io[t].batch /\ IsReceive(io[t].batch[n], i)
Held(i) == \E t \in IOThread : \E n \in 1 .. MaxBatch : TakenAt(t, n, i)
OnePlace(i) ==
    /\ \A p, q \in Started(i) : p = q
    /\ \A m, n \in Queued(i) : m = n
    /\ \A t, u \in IOThread : \A m, n \in 1 .. MaxBatch :
         TakenAt(t, m, i) /\ TakenAt(u, n, i) => t = u /\ m = n
    /\ Started(i) # {} => Queued(i) = {} /\ ~Held(i)
    /\ Queued(i) # {} => ~Held(i)
    /\ m_IsRun => Started(i) # {} \/ Queued(i) # {} \/ Held(i)

\* The structure says what the operation is, until its completion is handled; and
\* what was cancelled is not an accept.
SaysWhat(c, i) == c.kind = conn[i].m_eOperation
Uncut(c) == c.kind = "accept" => c.status # "cancelled"
Structure(i) ==
    /\ \A p \in Started(i) : SaysWhat(p, i)
    /\ \A n \in Queued(i) : SaysWhat(port[n], i) /\ Uncut(port[n])
    /\ \A t \in IOThread : \A n \in 1 .. MaxBatch :
         TakenAt(t, n, i) =>
            /\ Uncut(io[t].batch[n])
            /\ n # 1 \/ io[t].pc \in {"dispatch", "switch"} => SaysWhat(io[t].batch[n], i)

SlotInv(i) == OnePlace(i) /\ Structure(i) /\ (SendInFlight(i) => conn[i].m_IsConnected)

IInv ==
    /\ Shapes /\ Sockets /\ Crashed /\ Threads /\ NoneToldYet
    /\ \A i \in Slot \ cut : SlotInv(i)

-----------------------------------------------------------------------------
(* Numbers, sequences and threads.                                          *)

\* The empty batch.
NoBatch == <<>>

\* What the constants are.
LEMMA Constants ==
    /\ None = 0 /\ None \notin Slot /\ None \notin Socket
    /\ MaxBatch \in Nat /\ 1 \in 1 .. MaxBatch
BY IOCPCoreAssumption DEF None, Socket

\* A batch and its first entry.
LEMMA BatchIs ==
    ASSUME Shapes, NEW t \in IOThread
    PROVE  /\ io[t].batch \in Seq(SoundOnes) /\ Len(io[t].batch) \in Nat
           /\ DOMAIN io[t].batch = 1 .. Len(io[t].batch)
           /\ \A n \in DOMAIN io[t].batch : io[t].batch[n] \in SoundOnes
           /\ io[t].batch # <<>> =>
                /\ 1 \in DOMAIN io[t].batch /\ Current(t) = io[t].batch[1]
                /\ Current(t) \in SoundOnes
<1>1. io[t].batch \in Seq(SoundOnes)
  BY DEF Shapes, Thread
<1>2. /\ Len(io[t].batch) \in Nat /\ DOMAIN io[t].batch = 1 .. Len(io[t].batch)
      /\ \A n \in DOMAIN io[t].batch : io[t].batch[n] \in SoundOnes
  BY <1>1, LenProperties, ElementOfSeq
<1>3. ASSUME io[t].batch # <<>>
      PROVE  1 \in DOMAIN io[t].batch /\ Current(t) = io[t].batch[1]
  <2>1. Len(io[t].batch) \in Nat \ {0}
    BY <1>1, <1>3, EmptySeq
  <2> QED BY <1>2, <2>1 DEF Current
<1> QED BY <1>1, <1>2, <1>3

\* A thread that is not at rest handles the first entry of its batch.
LEMMA CurrentIs ==
    ASSUME Shapes, Threads, NEW t \in IOThread, io[t].pc \notin Resting
    PROVE  /\ io[t].batch # <<>> /\ 1 \in DOMAIN io[t].batch /\ Current(t) = io[t].batch[1]
           /\ Current(t) \in SoundOnes
           /\ Current(t).kind # "end" => Current(t).slot \in Slot
<1>1. io[t].batch # <<>>
  BY DEF Threads, ThreadKnows
<1> QED BY <1>1, BatchIs DEF SoundOnes, Sound

\* A thread goes on with the entry it handles.
LEMMA GotoIs ==
    ASSUME Shapes, NEW t \in IOThread, NEW pc \in Pcs, Goto(t, pc)
    PROVE  /\ io' \in [IOThread -> Thread]
           /\ \A u \in IOThread : u # t => io'[u] = io[u]
           /\ io'[t].pc = pc /\ io'[t].batch = io[t].batch /\ io'[t].again = io[t].again
<1>1. io[t] \in Thread /\ io \in [IOThread -> Thread]
  BY DEF Shapes
<1>2. [io[t] EXCEPT !.pc = pc] \in Thread
  BY <1>1 DEF Thread
<1> QED BY <1>1, <1>2 DEF Goto, Thread

\* So does one that begins to handle it.
LEMMA HandleIs ==
    ASSUME Shapes, NEW t \in IOThread, NEW pc \in Pcs, Handle(t, pc)
    PROVE  /\ io' \in [IOThread -> Thread]
           /\ \A u \in IOThread : u # t => io'[u] = io[u]
           /\ io'[t].pc = pc /\ io'[t].batch = io[t].batch /\ io'[t].again = FALSE
<1>1. io[t] \in Thread /\ io \in [IOThread -> Thread]
  BY DEF Shapes
<1>2. [io[t] EXCEPT !.pc = pc, !.again = FALSE] \in Thread
  BY <1>1 DEF Thread
<1> QED BY <1>1, <1>2 DEF Handle, Thread

\* After the next entry the batch has lost its first one.
LEMMA NextEntryIs ==
    ASSUME Shapes, NEW t \in IOThread, io[t].batch # <<>>, NextEntry(t)
    PROVE  /\ io' \in [IOThread -> Thread]
           /\ \A u \in IOThread : u # t => io'[u] = io[u]
           /\ io'[t].batch \in Seq(SoundOnes)
           /\ Len(io'[t].batch) = Len(io[t].batch) - 1
           /\ DOMAIN io'[t].batch = 1 .. Len(io[t].batch) - 1
           /\ \A n \in 1 .. Len(io[t].batch) - 1 : io'[t].batch[n] = io[t].batch[n + 1]
           /\ io'[t].pc \in {"dispatch", "wait", "exited"}
           /\ io'[t].batch = <<>> <=> io'[t].pc \in Resting
<1> DEFINE rest == Tail(io[t].batch)
           pc == IF rest # <<>> THEN "dispatch" ELSE IF m_IsRun THEN "wait" ELSE "exited"
           next == [pc |-> pc, batch |-> rest, again |-> FALSE]
<1>1. /\ rest \in Seq(SoundOnes) /\ Len(rest) = Len(io[t].batch) - 1
      /\ \A n \in 1 .. Len(rest) : rest[n] = io[t].batch[n + 1]
  BY BatchIs, HeadTailProperties
<1>2. DOMAIN rest = 1 .. Len(rest)
  BY <1>1, LenProperties
<1>3. /\ pc \in {"dispatch", "wait", "exited"}
      /\ rest = <<>> <=> pc \in Resting
  BY DEF Resting
<1>4. io' = [io EXCEPT ![t] = next]
  BY DEF NextEntry
<1>5. pc \in Pcs
  BY <1>3 DEF Pcs, Resting
<1> HIDE DEF rest, pc
<1>6. next \in Thread
  BY <1>1, <1>5 DEF Thread
<1>7. io \in [IOThread -> Thread]
  BY DEF Shapes
<1>8. next.batch = rest /\ next.pc = pc
  OBVIOUS
<1> HIDE DEF next
<1>9. io'[t] = next /\ io' \in [IOThread -> Thread] /\ \A u \in IOThread : u # t => io'[u] = io[u]
  BY <1>4, <1>6, <1>7
<1> QED BY <1>1, <1>2, <1>3, <1>8, <1>9

-----------------------------------------------------------------------------
(* What a step does to the port and to the batches.                         *)

\* Completions are queued at the end of the port.
LEMMA PortGrows ==
    ASSUME Shapes, NEW new \in Seq(SoundOnes), port' = port \o new
    PROVE  /\ port' \in Seq(SoundOnes)
           /\ Len(port) \in Nat /\ DOMAIN port = 1 .. Len(port)
           /\ \A n \in DOMAIN port : n \in DOMAIN port' /\ port'[n] = port[n]
           /\ \A n \in DOMAIN port' \ DOMAIN port :
                n - Len(port) \in DOMAIN new /\ port'[n] = new[n - Len(port)]
<1>1. port \in Seq(SoundOnes)
  BY DEF Shapes
<1>2. /\ Len(port) \in Nat /\ DOMAIN port = 1 .. Len(port)
      /\ Len(new) \in Nat /\ DOMAIN new = 1 .. Len(new)
  BY <1>1, LenProperties
<1>3. /\ port' \in Seq(SoundOnes) /\ Len(port') = Len(port) + Len(new)
      /\ \A n \in 1 .. Len(port) + Len(new) : port'[n] = IF n <= Len(port) THEN port[n] ELSE new[n - Len(port)]
  BY <1>1, ConcatProperties
<1>4. DOMAIN port' = 1 .. Len(port) + Len(new)
  BY <1>3, LenProperties
<1> QED BY <1>2, <1>3, <1>4

\* If none of them is of slot i's receive, what is queued for that stays.
LEMMA OthersQueued ==
    ASSUME Shapes, NEW new \in Seq(SoundOnes), port' = port \o new, NEW i,
           \A n \in DOMAIN new : ~IsReceive(new[n], i)
    PROVE  Queued(i)' = Queued(i) /\ \A n \in Queued(i) : port'[n] = port[n]
BY PortGrows DEF Queued

\* One completion is queued.
LEMMA PortAppended ==
    ASSUME Shapes, NEW c \in SoundOnes, port' = Append(port, c)
    PROVE  /\ port' \in Seq(SoundOnes)
           /\ Len(port) \in Nat /\ DOMAIN port = 1 .. Len(port)
           /\ DOMAIN port' = 1 .. Len(port) + 1
           /\ \A n \in DOMAIN port : port'[n] = port[n]
           /\ port'[Len(port) + 1] = c
<1>1. port \in Seq(SoundOnes)
  BY DEF Shapes
<1>2. Len(port) \in Nat /\ DOMAIN port = 1 .. Len(port)
  BY <1>1, LenProperties
<1>3. /\ port' \in Seq(SoundOnes) /\ Len(port') = Len(port) + 1
      /\ \A n \in 1 .. Len(port) : port'[n] = port[n]
      /\ port'[Len(port) + 1] = c
  BY <1>1, AppendProperties
<1>4. DOMAIN port' = 1 .. Len(port) + 1
  BY <1>3, LenProperties
<1> QED BY <1>2, <1>3, <1>4

Looking == {"dispatch", "switch"}

\* A batch stays as it is, loses its first entry, or is given up; when it stays, a first
\* entry that is of slot i's receive is not handled anew.
Stays(u, i) ==
    /\ io'[u].batch = io[u].batch
    /\ io'[u].pc \in Looking => io[u].pc \in Looking \/ ~IsReceive(Current(u), i)
Pops(u) ==
    /\ io[u].batch # NoBatch
    /\ DOMAIN io'[u].batch = 1 .. Len(io[u].batch) - 1
    /\ \A n \in 1 .. Len(io[u].batch) - 1 : io'[u].batch[n] = io[u].batch[n + 1]
Empties(u) == io'[u].batch = NoBatch

\* What is dropped is not of slot i's receive, as long as the server runs.
BatchesKept(i) ==
    \A u \in IOThread :
        \/ Stays(u, i)
        \/ Pops(u) /\ ~IsReceive(Current(u), i)
        \/ Empties(u) /\ ~m_IsRun'

\* A batch that stays has its entries where they were.
LEMMA StaysIs ==
    ASSUME NEW u \in IOThread, NEW i, NEW n, Stays(u, i)
    PROVE  /\ TakenAt(u, n, i)' <=> TakenAt(u, n, i)
           /\ io'[u].batch[n] = io[u].batch[n]
BY DEF Stays, TakenAt, IsReceive

\* In one that lost its first entry they have moved by one.
LEMMA PopsIs ==
    ASSUME Shapes, Threads, NEW u \in IOThread, NEW i, Pops(u), NEW n \in Nat \ {0}
    PROVE  /\ TakenAt(u, n, i)' => n + 1 \in 1 .. MaxBatch
           /\ TakenAt(u, n, i)' <=> TakenAt(u, n + 1, i)
           /\ TakenAt(u, n, i)' => io'[u].batch[n] = io[u].batch[n + 1]
<1>1. /\ Len(io[u].batch) \in Nat /\ DOMAIN io[u].batch = 1 .. Len(io[u].batch)
      /\ Len(io[u].batch) <= MaxBatch /\ MaxBatch \in Nat
  BY BatchIs, Constants DEF Threads, ThreadKnows
<1>2. n \in 1 .. Len(io[u].batch) - 1 <=> n + 1 \in 1 .. Len(io[u].batch)
  BY <1>1
<1>3. n \in DOMAIN io'[u].batch <=> n + 1 \in DOMAIN io[u].batch
  BY <1>1, <1>2 DEF Pops
<1>4. n \in DOMAIN io'[u].batch => io'[u].batch[n] = io[u].batch[n + 1] /\ n + 1 \in 1 .. MaxBatch
  BY <1>1 DEF Pops
<1> QED BY <1>3, <1>4 DEF TakenAt, IsReceive

\* One that was given up has none.
LEMMA EmptiesIs ==
    ASSUME NEW u \in IOThread, NEW i, NEW n, Empties(u)
    PROVE  ~TakenAt(u, n, i)'
BY DEF Empties, TakenAt, NoBatch

\* Where the entries of slot i's receive were before.
LEMMA TakenKept ==
    ASSUME Shapes, Threads, NEW i, BatchesKept(i)
    PROVE  /\ \A u \in IOThread : \A n \in 1 .. MaxBatch :
                TakenAt(u, n, i)' =>
                   \/ Stays(u, i) /\ TakenAt(u, n, i) /\ io'[u].batch[n] = io[u].batch[n]
                   \/ /\ ~Stays(u, i) /\ n + 1 \in 1 .. MaxBatch
                      /\ TakenAt(u, n + 1, i) /\ io'[u].batch[n] = io[u].batch[n + 1]
           /\ m_IsRun' /\ Held(i) => Held(i)'
<1>1. ASSUME NEW u \in IOThread, NEW n \in 1 .. MaxBatch, TakenAt(u, n, i)'
      PROVE  \/ Stays(u, i) /\ TakenAt(u, n, i) /\ io'[u].batch[n] = io[u].batch[n]
             \/ /\ ~Stays(u, i) /\ n + 1 \in 1 .. MaxBatch
                /\ TakenAt(u, n + 1, i) /\ io'[u].batch[n] = io[u].batch[n + 1]
  <2>1. CASE Stays(u, i)
    BY <1>1, <2>1, StaysIs
  <2>2. CASE ~Stays(u, i) /\ Pops(u)
    <3>1. n \in Nat \ {0}
      BY Constants
    <3> QED BY <1>1, <2>2, <3>1, PopsIs
  <2>3. CASE Empties(u)
    BY <1>1, <2>3, EmptiesIs
  <2> QED BY <2>1, <2>2, <2>3 DEF BatchesKept
<1>2. ASSUME m_IsRun', Held(i)
      PROVE  Held(i)'
  <2>1. PICK u \in IOThread : \E n \in 1 .. MaxBatch : TakenAt(u, n, i)
    BY <1>2 DEF Held
  <2>2. PICK n \in 1 .. MaxBatch : TakenAt(u, n, i)
    BY <2>1
  <2>3. CASE Stays(u, i)
    <3>1. TakenAt(u, n, i)'
      BY <2>2, <2>3, StaysIs
    <3> QED BY <3>1 DEF Held
  <2>4. CASE Pops(u) /\ ~IsReceive(Current(u), i)
    <3>1. n # 1
      BY <2>2, <2>4, BatchIs DEF TakenAt, NoBatch, Pops
    <3>2. n - 1 \in 1 .. MaxBatch /\ n - 1 \in Nat \ {0} /\ (n - 1) + 1 = n
      BY <3>1, Constants
    <3>3. TakenAt(u, n - 1, i)'
      BY <2>2, <2>4, <3>2, PopsIs
    <3> QED BY <3>2, <3>3 DEF Held
  <2> QED BY <1>2, <2>3, <2>4 DEF BatchesKept
<1> QED BY <1>1, <1>2

-----------------------------------------------------------------------------
(* What a step does to one slot.                                            *)

\* Nothing is started or queued for the slot's receive, and what is dropped is
\* dropped after the end.
Kept(i) ==
    /\ Started(i)' \subseteq Started(i)
    /\ m_IsRun' => Started(i)' = Started(i) /\ m_IsRun
    /\ Queued(i)' = Queued(i) /\ \A n \in Queued(i) : port'[n] = port[n]
    /\ BatchesKept(i)
    /\ conn'[i].m_eOperation = conn[i].m_eOperation
    /\ SendInFlight(i)' => conn'[i].m_IsConnected

\* Then the slot's receive is where it was.
LEMMA SlotKept ==
    ASSUME Shapes, Threads, NEW i \in Slot, SlotInv(i), Kept(i)
    PROVE  SlotInv(i)'
<1>1. OnePlace(i)'
  <2>1. \A p, q \in Started(i)' : p = q
    BY DEF Kept, SlotInv, OnePlace
  <2>2. \A m, n \in Queued(i)' : m = n
    BY DEF Kept, SlotInv, OnePlace
  <2>3. ASSUME NEW t \in IOThread, NEW u \in IOThread, NEW m \in 1 .. MaxBatch, NEW n \in 1 .. MaxBatch,
               TakenAt(t, m, i)', TakenAt(u, n, i)'
        PROVE  t = u /\ m = n
    <3>1. \/ Stays(t, i) /\ TakenAt(t, m, i)
          \/ ~Stays(t, i) /\ m + 1 \in 1 .. MaxBatch /\ TakenAt(t, m + 1, i)
      BY <2>3, TakenKept DEF Kept
    <3>2. \/ Stays(u, i) /\ TakenAt(u, n, i)
          \/ ~Stays(u, i) /\ n + 1 \in 1 .. MaxBatch /\ TakenAt(u, n + 1, i)
      BY <2>3, TakenKept DEF Kept
    <3>3. \A v, w \in IOThread : \A x, y \in 1 .. MaxBatch :
             TakenAt(v, x, i) /\ TakenAt(w, y, i) => v = w /\ x = y
      BY DEF SlotInv, OnePlace
    <3>4. t = u
      BY <3>1, <3>2, <3>3
    <3>5. (Stays(t, i) /\ m = n) \/ (~Stays(t, i) /\ m + 1 = n + 1)
      BY <3>1, <3>2, <3>3, <3>4
    <3> QED BY <3>4, <3>5, Constants
  <2>4. Held(i)' => Held(i)
    BY TakenKept DEF Kept, Held
  <2>5. Started(i)' # {} => Queued(i)' = {} /\ ~Held(i)'
    BY <2>4 DEF Kept, SlotInv, OnePlace
  <2>6. Queued(i)' # {} => ~Held(i)'
    BY <2>4 DEF Kept, SlotInv, OnePlace
  <2>7. m_IsRun' => Started(i)' # {} \/ Queued(i)' # {} \/ Held(i)'
    BY TakenKept DEF Kept, SlotInv, OnePlace
  <2> QED BY <2>1, <2>2, <2>3, <2>5, <2>6, <2>7 DEF OnePlace
<1>2. Structure(i)'
  <2>1. \A p \in Started(i)' : SaysWhat(p, i)'
    BY DEF Kept, SlotInv, Structure, SaysWhat
  <2>2. \A n \in Queued(i)' : SaysWhat(port[n], i)' /\ Uncut(port[n])'
    BY DEF Kept, SlotInv, Structure, SaysWhat, Uncut
  <2>3. ASSUME NEW t \in IOThread, NEW n \in 1 .. MaxBatch, TakenAt(t, n, i)'
        PROVE  /\ Uncut(io[t].batch[n])'
               /\ n # 1 \/ io'[t].pc \in Looking => SaysWhat(io[t].batch[n], i)'
    <3>1. CASE Stays(t, i) /\ TakenAt(t, n, i) /\ io'[t].batch[n] = io[t].batch[n]
      <4>1. n = 1 => IsReceive(Current(t), i)
        BY <3>1, BatchIs DEF TakenAt, NoBatch
      <4>2. n # 1 \/ io'[t].pc \in Looking => n # 1 \/ io[t].pc \in Looking
        BY <3>1, <4>1 DEF Stays
      <4> QED BY <3>1, <4>2 DEF Kept, SlotInv, Structure, SaysWhat, Uncut, Looking
    <3>2. CASE n + 1 \in 1 .. MaxBatch /\ TakenAt(t, n + 1, i) /\ io'[t].batch[n] = io[t].batch[n + 1]
      <4>1. n + 1 # 1
        BY Constants
      <4> QED BY <3>2, <4>1 DEF Kept, SlotInv, Structure, SaysWhat, Uncut
    <3> QED BY <2>3, <3>1, <3>2, TakenKept DEF Kept
  <2> QED BY <2>1, <2>2, <2>3 DEF Structure, Looking
<1> QED BY <1>1, <1>2 DEF Kept, SlotInv

\* The thread that holds the slot's receive: nobody else does.
LEMMA HolderIs ==
    ASSUME Shapes, Threads, NEW i \in Slot, OnePlace(i), NEW t \in IOThread, io[t].pc \notin Resting,
           IsReceive(Current(t), i)
    PROVE  /\ TakenAt(t, 1, i) /\ Held(i)
           /\ Started(i) = {} /\ Queued(i) = {}
           /\ \A u \in IOThread : \A n \in 1 .. MaxBatch : TakenAt(u, n, i) => u = t /\ n = 1
<1>1. TakenAt(t, 1, i)
  BY CurrentIs DEF TakenAt
<1> QED BY <1>1, Constants DEF OnePlace, Held

\* It starts the slot's next operation and goes on.
LEMMA NextStarted ==
    ASSUME Shapes, Threads, NEW i \in Slot, SlotInv(i), NEW t \in IOThread, io[t].pc \notin Resting,
           IsReceive(Current(t), i), Pops(t), \A u \in IOThread : u # t => io'[u] = io[u],
           port' = port, NEW p, IsReceive(p, i), pending' = pending \cup {p}, p.kind = conn'[i].m_eOperation,
           SendInFlight(i)' => conn'[i].m_IsConnected
    PROVE  SlotInv(i)'
<1>1. /\ Started(i) = {} /\ Queued(i) = {}
      /\ \A u \in IOThread : \A n \in 1 .. MaxBatch : TakenAt(u, n, i) => u = t /\ n = 1
  BY HolderIs DEF SlotInv
<1>2. Started(i)' = {p}
  BY <1>1 DEF Started
<1>3. Queued(i)' = {}
  BY <1>1 DEF Queued
<1>4. ASSUME NEW u \in IOThread, NEW n \in 1 .. MaxBatch
      PROVE  ~TakenAt(u, n, i)'
  <2>1. CASE u = t
    <3>1. n \in Nat \ {0} /\ n + 1 # 1
      BY Constants
    <3> QED BY <1>1, <2>1, <3>1, PopsIs
  <2>2. CASE u # t
    <3>1. io'[u] = io[u]
      BY <2>2
    <3>2. TakenAt(u, n, i)' <=> TakenAt(u, n, i)
      BY <3>1 DEF TakenAt, IsReceive
    <3> QED BY <1>1, <2>2, <3>2
  <2> QED BY <2>1, <2>2
<1>5. ~Held(i)'
  BY <1>4 DEF Held
<1>6. OnePlace(i)'
  BY <1>2, <1>3, <1>4, <1>5 DEF OnePlace
<1>7. Structure(i)'
  BY <1>2, <1>3, <1>4 DEF Structure, SaysWhat
<1> QED BY <1>6, <1>7 DEF SlotInv

\* The kernel completes the slot's receive.
LEMMA ReceiveCompleted ==
    ASSUME Shapes, Threads, NEW i \in Slot, SlotInv(i), NEW p \in Started(i), pending' = pending \ {p},
           NEW c \in SoundOnes, c.kind = p.kind, c.slot = p.slot, Uncut(c),
           port' = Append(port, c), io' = io, conn' = conn, main' = main,
           SendInFlight(i)' => SendInFlight(i)
    PROVE  SlotInv(i)'
<1>1. Started(i) = {p} /\ Queued(i) = {} /\ ~Held(i)
  BY DEF SlotInv, OnePlace
<1>2. Started(i)' = {}
  BY <1>1 DEF Started
<1>3. /\ DOMAIN port = 1 .. Len(port) /\ DOMAIN port' = 1 .. Len(port) + 1 /\ Len(port) \in Nat
      /\ \A n \in DOMAIN port : port'[n] = port[n]
      /\ port'[Len(port) + 1] = c
  BY PortAppended
<1>4. Queued(i)' = {Len(port) + 1}
  <2>1. IsReceive(c, i)
    BY DEF Started, IsReceive
  <2>2. \A n \in DOMAIN port : ~IsReceive(port'[n], i)
    BY <1>1, <1>3 DEF Queued
  <2>3. \A n \in DOMAIN port' : n \in DOMAIN port \/ n = Len(port) + 1
    BY <1>3
  <2>4. Len(port) + 1 \in DOMAIN port'
    BY <1>3
  <2>5. Queued(i)' = {n \in DOMAIN port' : IsReceive(port'[n], i)}
    BY DEF Queued, IsReceive
  <2> QED BY <1>3, <2>1, <2>2, <2>3, <2>4, <2>5
<1>5. \A t \in IOThread : \A n \in 1 .. MaxBatch : ~TakenAt(t, n, i)'
  BY <1>1 DEF Held, TakenAt, IsReceive
<1>6. ~Held(i)'
  BY <1>5 DEF Held
<1>7. OnePlace(i)'
  BY <1>2, <1>4, <1>5, <1>6 DEF OnePlace
<1>8. SaysWhat(c, i)
  BY DEF SlotInv, Structure, SaysWhat
<1>9. Structure(i)'
  BY <1>2, <1>3, <1>4, <1>5, <1>8 DEF Structure, SaysWhat, Uncut
<1> QED BY <1>7, <1>9 DEF SlotInv

-----------------------------------------------------------------------------
(* Sends, and what the other threads know.                                  *)

IsSend(c, i) == c.kind = "send" /\ c.slot = i

\* Sends do not appear in batches by themselves.
LEMMA NoNewSends ==
    ASSUME Shapes, Threads, NEW i,
           \A u \in IOThread : io'[u].batch = io[u].batch \/ Pops(u) \/ Empties(u),
           \A p \in pending' : IsSend(p, i) => SendInFlight(i),
           \A n \in DOMAIN port' : IsSend(port'[n], i) => SendInFlight(i)
    PROVE  SendInFlight(i)' => SendInFlight(i)
<1>1. ASSUME NEW u \in IOThread, NEW n \in DOMAIN io'[u].batch, IsSend(io'[u].batch[n], i)
      PROVE  SendInFlight(i)
  <2>1. CASE io'[u].batch = io[u].batch
    BY <1>1, <2>1 DEF SendInFlight, IsSend
  <2>2. CASE Pops(u)
    <3>1. Len(io[u].batch) \in Nat /\ DOMAIN io[u].batch = 1 .. Len(io[u].batch)
      BY BatchIs
    <3>2. n \in 1 .. Len(io[u].batch) - 1 /\ io'[u].batch[n] = io[u].batch[n + 1]
      BY <2>2 DEF Pops
    <3>3. n + 1 \in DOMAIN io[u].batch
      BY <3>1, <3>2
    <3> QED BY <1>1, <3>2, <3>3 DEF SendInFlight, IsSend
  <2>3. CASE Empties(u)
    BY <2>3 DEF Empties, NoBatch
  <2> QED BY <2>1, <2>2, <2>3
<1>2. SendInFlight(i)' =>
        \/ \E p \in pending' : IsSend(p, i)
        \/ \E n \in DOMAIN port' : IsSend(port'[n], i)
        \/ \E u \in IOThread : \E n \in DOMAIN io'[u].batch : IsSend(io'[u].batch[n], i)
  BY DEF SendInFlight, IsSend
<1> QED BY <1>1, <1>2

\* What a thread handles is in flight, if it is a send.
LEMMA SendHandled ==
    ASSUME Shapes, Threads, NEW t \in IOThread, io[t].pc \notin Resting, Current(t).kind = "send"
    PROVE  SendInFlight(Current(t).slot)
BY CurrentIs DEF SendInFlight

\* If no slot was cut, nobody else handles anything of a slot that is being reset.
LEMMA SoleHandler ==
    ASSUME IInv, NEW t \in IOThread, io[t].pc \in Handling, NEW u \in IOThread, io[u].pc = "reset",
           Current(u).slot \notin cut, Current(t).slot = Current(u).slot
    PROVE  t = u
<1> DEFINE i == Current(u).slot
<1>1. io[t].pc \notin Resting /\ io[u].pc \notin Resting
  BY DEF Handling, Resting
<1>2. /\ IsOfReceive(Current(u)) /\ ~conn[i].m_IsConnected
      /\ Current(t).kind # "end" /\ Current(u).kind # "end"
  BY DEF IInv, Threads, ThreadKnows, Handling
<1>3. i \in Slot \ cut
  BY <1>1, <1>2, CurrentIs DEF IInv
<1>4. SlotInv(i)
  BY <1>3 DEF IInv
<1>5. Current(t).kind # "send"
  BY <1>1, <1>2, <1>4, SendHandled DEF IInv, SlotInv
<1>6. Current(t) \in Completions
  BY <1>1, CurrentIs DEF IInv, SoundOnes
<1>7. IsReceive(Current(t), i) /\ IsReceive(Current(u), i)
  BY <1>2, <1>5, <1>6 DEF IsReceive, IsOfReceive, Completions
<1>8. TakenAt(t, 1, i)
  BY <1>1, <1>3, <1>4, <1>7, HolderIs DEF IInv, SlotInv
<1> QED BY <1>1, <1>3, <1>4, <1>7, <1>8, HolderIs, Constants DEF IInv, SlotInv

\* What a thread knows of a slot's socket.
SocketKept(j) ==
    /\ conn'[j].m_TcpSocket = conn[j].m_TcpSocket
    /\ conn'[j].m_IsConnected = conn[j].m_IsConnected

\* What the others know stays true when one thread works on the slot it handles.
LEMMA OthersKnow ==
    ASSUME IInv, NEW t \in IOThread, cut \subseteq cut',
           \A j \in Slot : SocketKept(j) \/ (io[t].pc \in Handling /\ j = Current(t).slot),
           \A u \in IOThread : u # t => io'[u] = io[u],
           ThreadKnows(t)'
    PROVE  Threads'
<1> SUFFICES ASSUME NEW u \in IOThread, u # t
             PROVE  ThreadKnows(u)'
  BY DEF Threads
<1>1. io'[u] = io[u] /\ ThreadKnows(u)
  BY DEF IInv, Threads
<1>2. Current(u)' = Current(u)
  BY <1>1 DEF Current
<1>3. ASSUME io[u].pc = "reset", Current(u).slot \notin cut
      PROVE  SocketKept(Current(u).slot)
  <2>1. Current(u).slot \in Slot
    BY <1>1, <1>3, CurrentIs DEF IInv, ThreadKnows, Handling, Resting
  <2> QED BY <1>3, <2>1, SoleHandler
<1> QED BY <1>1, <1>2, <1>3 DEF ThreadKnows, SocketKept

\* And when no thread does anything.
LEMMA AllKnow ==
    ASSUME IInv, cut \subseteq cut', io' = io, \A j \in Slot : SocketKept(j)
    PROVE  Threads'
<1> SUFFICES ASSUME NEW u \in IOThread
             PROVE  ThreadKnows(u)'
  BY DEF Threads
<1>1. ThreadKnows(u) /\ Current(u)' = Current(u)
  BY DEF IInv, Threads, Current
<1>2. io[u].pc = "reset" => Current(u).slot \in Slot
  BY <1>1, CurrentIs DEF IInv, ThreadKnows, Handling, Resting
<1> QED BY <1>1, <1>2 DEF ThreadKnows, SocketKept

\* A thread that does anything has not crashed.
LEMMA NotCrashed ==
    ASSUME IInv, NEW t \in IOThread, io[t].pc # "crashed"
    PROVE  main # "crashed"
BY DEF IInv, Crashed

\* After the next entry a thread knows what it has to.
LEMMA NextKnows ==
    ASSUME IInv, NEW t \in IOThread, io[t].batch # <<>>, NextEntry(t)
    PROVE  ThreadKnows(t)' /\ Pops(t)
<1>1. /\ Len(io'[t].batch) = Len(io[t].batch) - 1
      /\ io'[t].pc \in {"dispatch", "wait", "exited"}
      /\ io'[t].batch = <<>> <=> io'[t].pc \in Resting
  BY NextEntryIs DEF IInv
<1>2. Len(io[t].batch) \in Nat /\ Len(io[t].batch) <= MaxBatch /\ MaxBatch \in Nat
  BY BatchIs, Constants DEF IInv, Threads, ThreadKnows
<1>3. Len(io'[t].batch) <= MaxBatch
  BY <1>1, <1>2
<1>4. ThreadKnows(t)'
  BY <1>1, <1>3 DEF ThreadKnows, Handling
<1> QED BY <1>4, NextEntryIs DEF IInv, Pops, NoBatch

\* Nobody else's batch changes: one that is not handled anew stays for every slot.
LEMMA OthersStay ==
    ASSUME NEW t \in IOThread, \A u \in IOThread : u # t => io'[u] = io[u], NEW i,
           \/ Stays(t, i)
           \/ Pops(t) /\ ~IsReceive(Current(t), i)
           \/ Empties(t) /\ ~m_IsRun'
    PROVE  BatchesKept(i)
BY DEF BatchesKept, Stays

-----------------------------------------------------------------------------
(* The actions of an IO thread.                                             *)

\* A batch stays, loses its first entry, or is given up.
BatchesShrink == \A u \in IOThread : io'[u].batch = io[u].batch \/ Pops(u) \/ Empties(u)

\* Nobody is told to end by a batch that shrinks.
LEMMA StillNotTold ==
    ASSUME IInv, m_IsRun' => m_IsRun, BatchesShrink,
           m_IsRun' => \A n \in DOMAIN port' : port'[n].kind # "end"
    PROVE  NoneToldYet'
<1>1. ASSUME m_IsRun', NEW u \in IOThread, NEW n \in DOMAIN io'[u].batch
      PROVE  io'[u].batch[n].kind # "end"
  <2>1. \A m \in DOMAIN io[u].batch : io[u].batch[m].kind # "end"
    BY <1>1 DEF IInv, NoneToldYet
  <2>2. CASE Pops(u)
    <3>1. Len(io[u].batch) \in Nat /\ DOMAIN io[u].batch = 1 .. Len(io[u].batch)
      BY BatchIs DEF IInv
    <3>2. n \in 1 .. Len(io[u].batch) - 1 /\ io'[u].batch[n] = io[u].batch[n + 1]
      BY <1>1, <2>2 DEF Pops
    <3>3. n + 1 \in DOMAIN io[u].batch
      BY <3>1, <3>2
    <3> QED BY <2>1, <3>2, <3>3
  <2>3. CASE Empties(u)
    BY <1>1, <2>3 DEF Empties, NoBatch
  <2> QED BY <1>1, <2>1, <2>2, <2>3 DEF BatchesShrink
<1> QED BY <1>1 DEF NoneToldYet

\* One thread works and starts nothing.
Works(t) ==
    /\ io' \in [IOThread -> Thread]
    /\ \A u \in IOThread : u # t => io'[u] = io[u]
    /\ UNCHANGED <<sock, pending, port, main, cut>>
    /\ ThreadKnows(t)'

\* It may find that its slot is connected.
SlotsKept(t) ==
    /\ conn' \in [Slot -> Connection]
    /\ \A j \in Slot :
         /\ conn'[j].m_TcpSocket = conn[j].m_TcpSocket
         /\ conn'[j].m_eOperation = conn[j].m_eOperation
         /\ conn[j].m_IsConnected => conn'[j].m_IsConnected
         /\ SocketKept(j) \/ (io[t].pc \in Handling /\ j = Current(t).slot)

\* Then the invariant holds as before.
LEMMA WorkKeeps ==
    ASSUME IInv, NEW t \in IOThread, io[t].pc \notin Resting, Works(t), SlotsKept(t),
           \/ \A j \in Slot \ cut : Stays(t, j) \/ (Empties(t) /\ ~m_IsRun')
           \/ Pops(t) /\ \A j \in Slot \ cut : ~IsReceive(Current(t), j),
           io'[t].batch = io[t].batch \/ Pops(t) \/ Empties(t)
    PROVE  IInv'
<1>1. Shapes'
  BY DEF IInv, Shapes, Works, SlotsKept
<1>2. Sockets'
  BY <1>1 DEF IInv, Sockets, Works, SlotsKept
<1>3. main # "crashed"
  BY NotCrashed DEF Resting
<1>4. Crashed'
  BY <1>3 DEF Crashed, Works
<1>5. Threads'
  <2>1. cut \subseteq cut'
    BY DEF Works
  <2>2. \A j \in Slot : SocketKept(j) \/ (io[t].pc \in Handling /\ j = Current(t).slot)
    BY DEF SlotsKept
  <2> QED BY <2>1, <2>2, OthersKnow DEF Works
<1>6. BatchesShrink
  BY DEF BatchesShrink, Works
<1>7. NoneToldYet'
  <2>1. (m_IsRun' => m_IsRun) /\ port' = port
    BY DEF m_IsRun, Works
  <2> QED BY <1>6, <2>1, StillNotTold DEF IInv, NoneToldYet
<1>8. ASSUME NEW j \in Slot \ cut'
      PROVE  SlotInv(j)'
  <2>1. j \in Slot \ cut /\ SlotInv(j)
    BY DEF IInv, Works
  <2>2. BatchesKept(j)
    BY <2>1, OthersStay DEF Works
  <2>3. Started(j)' = Started(j) /\ Queued(j)' = Queued(j) /\ port' = port /\ (m_IsRun' <=> m_IsRun)
    BY DEF Started, Queued, Works, m_IsRun
  <2>4. SendInFlight(j)' => SendInFlight(j)
    <3>1. /\ \A p \in pending' : IsSend(p, j) => SendInFlight(j)
          /\ \A n \in DOMAIN port' : IsSend(port'[n], j) => SendInFlight(j)
      BY DEF Works, IsSend, SendInFlight
    <3> QED BY <1>6, <3>1, NoNewSends DEF IInv, BatchesShrink
  <2>5. SendInFlight(j)' => conn'[j].m_IsConnected
    BY <2>1, <2>4 DEF SlotInv, SlotsKept
  <2>6. conn'[j].m_eOperation = conn[j].m_eOperation
    BY DEF SlotsKept
  <2>7. Kept(j)
    BY <2>2, <2>3, <2>5, <2>6 DEF Kept
  <2> QED BY <2>1, <2>7, SlotKept DEF IInv
<1> QED BY <1>1, <1>2, <1>4, <1>5, <1>7, <1>8 DEF IInv

\* Told to end, a thread leaves what it has taken; the server has stopped by then.
LEMMA TakeEndKeeps ==
    ASSUME IInv, NEW t \in IOThread, TakeEnd(t)
    PROVE  IInv'
<1>1. io[t].pc \notin Resting
  BY DEF TakeEnd, Resting
<1>2. ~m_IsRun'
  <2>1. 1 \in DOMAIN io[t].batch /\ io[t].batch[1].kind = "end"
    BY <1>1, CurrentIs DEF IInv, TakeEnd
  <2> QED BY <2>1 DEF IInv, NoneToldYet, TakeEnd, m_IsRun
<1> DEFINE gone == [Waiting EXCEPT !.pc = "exited"]
<1>3. gone \in Thread /\ gone.pc = "exited" /\ gone.batch = NoBatch
  <2>1. NoBatch \in Seq(SoundOnes)
    BY DEF NoBatch
  <2>2. Waiting = [pc |-> "wait", batch |-> NoBatch, again |-> FALSE]
    BY DEF Waiting, NoBatch
  <2> QED BY <2>1, <2>2 DEF Thread, Pcs, Resting
<1>4. io' = [io EXCEPT ![t] = gone]
  BY DEF TakeEnd
<1> HIDE DEF gone
<1>5. io' \in [IOThread -> Thread] /\ io'[t] = gone /\ \A u \in IOThread : u # t => io'[u] = io[u]
  BY <1>3, <1>4 DEF IInv, Shapes
<1>6. ThreadKnows(t)'
  <2>1. Len(NoBatch) = 0 /\ NoBatch = <<>>
    BY DEF NoBatch
  <2>2. io'[t].pc = "exited" /\ io'[t].batch = NoBatch
    BY <1>3, <1>5
  <2> QED BY <2>1, <2>2, Constants DEF ThreadKnows, Resting, Handling
<1>7. Works(t)
  BY <1>5, <1>6 DEF Works, TakeEnd
<1>8. conn' = conn /\ Empties(t)
  BY <1>3, <1>5 DEF TakeEnd, Empties
<1>9. SlotsKept(t)
  BY <1>8 DEF SlotsKept, SocketKept, IInv, Shapes
<1> QED BY <1>1, <1>2, <1>7, <1>8, <1>9, WorkKeeps

\* A thread goes on with the entry it handles, if it knows what it needs there.
LEMMA GoesOn ==
    ASSUME IInv, NEW t \in IOThread, io[t].pc \notin Resting, NEW pc \in Pcs \ Resting,
           io' \in [IOThread -> Thread], \A u \in IOThread : u # t => io'[u] = io[u],
           io'[t].pc = pc, io'[t].batch = io[t].batch,
           pc \in Handling \cup {"switch"} => Current(t).kind # "end",
           pc \in {"bind_iocp", "bind_recv"} => IsOfReceive(Current(t)),
           pc \in Handling /\ Current(t).slot \notin cut' => ~io'[t].again,
           pc # "reset"
    PROVE  ThreadKnows(t)'
<1>1. io[t].batch # <<>> /\ Len(io[t].batch) <= MaxBatch
  BY DEF IInv, Threads, ThreadKnows
<1>2. Current(t)' = Current(t)
  BY DEF Current
<1> QED BY <1>1, <1>2 DEF ThreadKnows

\* What the structure says of an entry that is looked at.
LEMMA LookedAt ==
    ASSUME IInv, NEW t \in IOThread, io[t].pc \in Looking, Current(t).kind # "end"
    PROVE  /\ Current(t) \in SoundOnes /\ Current(t).slot \in Slot
           /\ Current(t).kind \in {"accept", "recv", "send"}
           /\ Current(t).kind # "send" => IsOfReceive(Current(t)) /\ IsReceive(Current(t), Current(t).slot)
           /\ Current(t).kind # "send" /\ Current(t).slot \notin cut =>
                /\ Operation(Current(t)) = Current(t).kind
                /\ Uncut(Current(t))
<1> DEFINE i == Current(t).slot
<1>1. io[t].pc \notin Resting
  BY DEF Looking, Resting
<1>2. Current(t) \in SoundOnes /\ i \in Slot /\ Current(t) = io[t].batch[1] /\ 1 \in DOMAIN io[t].batch
  BY <1>1, CurrentIs DEF IInv
<1>3. Current(t).kind \in {"accept", "recv", "send"}
  BY <1>2 DEF SoundOnes, Completions
<1>4. Current(t).kind # "send" => IsOfReceive(Current(t)) /\ IsReceive(Current(t), i)
  BY <1>3 DEF IsOfReceive, IsReceive
<1>5. ASSUME Current(t).kind # "send", i \notin cut
      PROVE  SaysWhat(Current(t), i) /\ Uncut(Current(t))
  <2>1. TakenAt(t, 1, i)
    BY <1>2, <1>4, <1>5 DEF TakenAt
  <2>2. SlotInv(i)
    BY <1>2, <1>5 DEF IInv
  <2> QED BY <1>2, <2>1, <2>2, Constants DEF SlotInv, Structure, Looking
<1> QED BY <1>2, <1>3, <1>4, <1>5 DEF SaysWhat, Operation

\* What carries no bytes of an uncut slot is a disconnection, unless it is an accept.
LEMMA NotFailed ==
    ASSUME IInv, NEW t \in IOThread, io[t].pc \in Looking, Current(t).kind \in {"recv", "send"},
           Current(t).slot \notin cut
    PROVE  ~Failed(Current(t))
<1>1. Current(t) \in SoundOnes
  BY LookedAt
<1>2. Operation(Current(t)) # "accept"
  BY LookedAt DEF Operation
<1>3. Current(t).bytes = 0 \/ Current(t).status = "ok"
  BY <1>1 DEF SoundOnes, Sound
<1> QED BY <1>2, <1>3 DEF Failed, Disconnected

\* The process ends: nothing is left of what was open, and nobody goes on.
LEMMA CrashKeeps ==
    ASSUME IInv, NEW t \in IOThread, DispatchError(t), Crash
    PROVE  IInv'
<1> DEFINE gone == [Waiting EXCEPT !.pc = "crashed"]
<1>1. gone \in Thread /\ gone.pc = "crashed" /\ gone.batch = NoBatch
  <2>1. NoBatch \in Seq(SoundOnes)
    BY DEF NoBatch
  <2>2. Waiting = [pc |-> "wait", batch |-> NoBatch, again |-> FALSE]
    BY DEF Waiting, NoBatch
  <2> QED BY <2>1, <2>2 DEF Thread, Pcs, Resting
<1>2. io' = [u \in IOThread |-> gone]
  BY DEF Crash
<1> HIDE DEF gone
<1>3. /\ io' \in [IOThread -> Thread]
      /\ \A u \in IOThread : io'[u].pc = "crashed" /\ io'[u].batch = NoBatch
  BY <1>1, <1>2
<1>4. /\ main' = "crashed" /\ pending' = {} /\ sock' = [k \in Socket |-> NoSocket]
      /\ conn' = conn /\ port' = port /\ cut' = cut /\ ~m_IsRun'
  BY DEF Crash, DispatchError, m_IsRun
<1>5. Shapes'
  <2>1. sock' \in [Socket -> [peer : Peers, slot : Slot \cup {None}]] /\ IsFiniteSet(pending')
    BY <1>4, FS_EmptySet DEF NoSocket, Peers
  <2>2. \A k \in Socket : sock'[k].peer = "free" <=> sock'[k].slot = None
    BY <1>4 DEF NoSocket
  <2> QED BY <1>3, <1>4, <2>1, <2>2 DEF IInv, Shapes
<1>6. Sockets'
  <2>1. \A k \in Socket : sock'[k].slot \notin Slot
    BY <1>4, Constants DEF NoSocket
  <2> QED BY <1>4, <2>1 DEF Sockets
<1>7. Crashed'
  BY <1>3, <1>4 DEF Crashed
<1>8. Threads'
  <2>1. Len(NoBatch) = 0 /\ NoBatch = <<>>
    BY DEF NoBatch
  <2> QED BY <1>3, <2>1, Constants DEF Threads, ThreadKnows, Resting, Handling
<1>9. NoneToldYet'
  BY <1>4 DEF NoneToldYet
<1>10. ASSUME NEW j \in Slot \ cut'
       PROVE  SlotInv(j)'
  <2>1. j \in Slot \ cut /\ SlotInv(j)
    BY <1>4 DEF IInv
  <2>2. \A u \in IOThread : Empties(u)
    BY <1>3 DEF Empties
  <2>3. SendInFlight(j)' => SendInFlight(j)
    <3>1. /\ \A p \in pending' : IsSend(p, j) => SendInFlight(j)
          /\ \A n \in DOMAIN port' : IsSend(port'[n], j) => SendInFlight(j)
      BY <1>4 DEF IsSend, SendInFlight
    <3> QED BY <2>2, <3>1, NoNewSends DEF IInv
  <2>4. Started(j)' = {} /\ Queued(j)' = Queued(j)
    BY <1>4 DEF Started, Queued
  <2>5. Kept(j)
    BY <1>4, <2>1, <2>2, <2>3, <2>4 DEF Kept, BatchesKept, SlotInv
  <2> QED BY <2>1, <2>5, SlotKept DEF IInv
<1> QED BY <1>5, <1>6, <1>7, <1>8, <1>9, <1>10 DEF IInv

\* A disconnection, of a receive or a send, is closed next; nothing else fails in a slot
\* that is not cut.
LEMMA DispatchErrorKeeps ==
    ASSUME IInv, NEW t \in IOThread, DispatchError(t)
    PROVE  IInv'
<1> DEFINE c == Current(t)
<1>1. io[t].pc \notin Resting /\ io[t].pc \in Looking /\ c.kind # "end"
  BY DEF DispatchError, Resting, Looking
<1>2. CASE KeyIsNull(c)
  BY <1>2, CrashKeeps DEF DispatchError
<1>3. CASE ~KeyIsNull(c)
  <2>1. io' = [io EXCEPT ![t].pc = "close", ![t].again = Failed(c)] /\ UNCHANGED <<main, pending, sock>>
    BY <1>3 DEF DispatchError
  <2>2. Failed(c) \in BOOLEAN
    BY DEF Failed
  <2>3. io[t] \in Thread /\ io \in [IOThread -> Thread]
    BY DEF IInv, Shapes
  <2> HIDE DEF c
  <2>4. [io[t] EXCEPT !.pc = "close", !.again = Failed(c)] \in Thread
    BY <2>2, <2>3 DEF Thread, Pcs, Handling
  <2>5. /\ io' \in [IOThread -> Thread] /\ \A u \in IOThread : u # t => io'[u] = io[u]
        /\ io'[t].pc = "close" /\ io'[t].batch = io[t].batch
    BY <2>1, <2>3, <2>4 DEF Thread
  <2>6. io'[t].again = Failed(c)
    BY <2>1, <2>3, <2>4 DEF Thread
  <2>7. c.slot \notin cut' => ~io'[t].again
    <3>1. c.kind \in {"recv", "send"}
      BY <1>1, <1>3, LookedAt DEF KeyIsNull, c
    <3> QED BY <1>1, <2>6, <3>1, NotFailed DEF c, DispatchError
  <2>8. ThreadKnows(t)'
    BY <1>1, <2>5, <2>7, GoesOn DEF c, Pcs, Handling, Resting
  <2>9. Works(t)
    BY <2>1, <2>5, <2>8 DEF Works, DispatchError
  <2>10. SlotsKept(t)
    BY DEF SlotsKept, SocketKept, DispatchError, IInv, Shapes
  <2>11. \A j \in Slot \ cut : Stays(t, j)
    BY <1>1, <2>5 DEF Stays
  <2> QED BY <1>1, <2>5, <2>9, <2>10, <2>11, WorkKeeps
<1> QED BY <1>2, <1>3

\* What was cancelled is dropped; of a slot that is not cut nothing was.
LEMMA DispatchKeeps ==
    ASSUME IInv, NEW t \in IOThread, Dispatch(t)
    PROVE  IInv'
<1>1. io[t].pc \notin Resting /\ io[t].pc \in Looking /\ Current(t).kind # "end" /\ io[t].batch # <<>>
  <2>1. io[t].pc \notin Resting /\ io[t].pc \in Looking
    BY DEF Dispatch, Resting, Looking
  <2> QED BY <2>1, CurrentIs DEF Dispatch, IInv
<1>2. SlotsKept(t)
  BY DEF SlotsKept, SocketKept, Dispatch, IInv, Shapes
<1>3. UNCHANGED <<sock, pending, port, main, cut>>
  BY DEF Dispatch
<1>4. CASE Failed(Current(t)) /\ Current(t).status = "cancelled" /\ NextEntry(t)
  <2>1. Works(t) /\ Pops(t)
    BY <1>1, <1>3, <1>4, NextEntryIs, NextKnows DEF Works, IInv
  <2>2. ASSUME NEW j \in Slot \ cut
        PROVE  ~IsReceive(Current(t), j)
    <3>1. SUFFICES ASSUME IsReceive(Current(t), j)
                   PROVE  FALSE
      OBVIOUS
    <3>2. Current(t).slot \notin cut /\ Current(t).kind # "send"
      BY <3>1 DEF IsReceive
    <3>3. Uncut(Current(t)) /\ Current(t).kind \in {"accept", "recv"}
      BY <1>1, <3>2, LookedAt
    <3>4. Current(t).kind = "recv"
      BY <1>4, <3>3 DEF Uncut
    <3> QED BY <1>1, <1>4, <3>2, <3>4, NotFailed
  <2> QED BY <1>1, <1>2, <2>1, <2>2, WorkKeeps
<1>5. CASE Goto(t, "switch")
  <2>1. "switch" \in Pcs \ Resting
    BY DEF Pcs, Handling, Resting
  <2>2. /\ io' \in [IOThread -> Thread] /\ \A u \in IOThread : u # t => io'[u] = io[u]
        /\ io'[t].pc = "switch" /\ io'[t].batch = io[t].batch
    BY <1>5, <2>1, GotoIs DEF IInv
  <2>3. ThreadKnows(t)'
    BY <1>1, <2>1, <2>2, GoesOn DEF Handling
  <2>4. Works(t) /\ \A j \in Slot \ cut : Stays(t, j)
    BY <1>1, <1>3, <2>2, <2>3 DEF Works, Stays
  <2> QED BY <1>1, <1>2, <2>2, <2>4, WorkKeeps
<1> QED BY <1>4, <1>5 DEF Dispatch

\* An accepted client is bound next, and so is the receive after one that is handled.
LEMMA HandledKeeps ==
    ASSUME IInv, NEW t \in IOThread, io[t].pc = "switch", NEW pc \in {"bind_iocp", "bind_recv"}, Handle(t, pc),
           IsOfReceive(Current(t)), UNCHANGED <<conn, sock, pending, port, main, cut>>
    PROVE  IInv'
<1>1. io[t].pc \notin Resting /\ io[t].pc \in Looking /\ pc \in Pcs \ Resting /\ pc \notin Looking
  BY DEF Resting, Looking, Pcs, Handling
<1>2. /\ io' \in [IOThread -> Thread] /\ \A u \in IOThread : u # t => io'[u] = io[u]
      /\ io'[t].pc = pc /\ io'[t].batch = io[t].batch /\ io'[t].again = FALSE
  BY <1>1, HandleIs DEF IInv
<1>3. Current(t).kind # "end"
  BY DEF IsOfReceive
<1>4. ThreadKnows(t)'
  BY <1>1, <1>2, <1>3, GoesOn
<1>5. Works(t) /\ \A j \in Slot \ cut : Stays(t, j)
  BY <1>1, <1>2, <1>4 DEF Works, Stays
<1>6. SlotsKept(t)
  BY DEF SlotsKept, SocketKept, IInv, Shapes
<1> QED BY <1>1, <1>2, <1>5, <1>6, WorkKeeps

\* What the structure says is a receive's operation is a receive's completion: m_eOperation
\* of m_RecvOverlapped is accept or recv.
LEMMA SwitchedTo ==
    ASSUME IInv, NEW t \in IOThread, NEW op \in {"accept", "recv", "send"}, Switch(t, op)
    PROVE  /\ io[t].pc \notin Resting /\ io[t].pc \in Looking /\ Current(t).kind # "end"
           /\ Current(t).slot \in Slot
           /\ IF op = "send" THEN Current(t).kind = "send" ELSE IsOfReceive(Current(t))
<1>1. /\ io[t].pc \notin Resting /\ io[t].pc \in Looking /\ io[t].pc = "switch"
      /\ Operation(Current(t)) = op
  BY DEF Switch, Resting, Looking
<1>2. Current(t).kind # "end"
  BY <1>1 DEF IInv, Threads, ThreadKnows
<1>3. /\ Current(t).slot \in Slot /\ Current(t).kind \in {"accept", "recv", "send"}
      /\ Current(t).kind # "send" => IsOfReceive(Current(t))
  BY <1>1, <1>2, LookedAt
<1>4. conn[Current(t).slot].m_eOperation \in {"accept", "recv"}
  BY <1>3 DEF IInv, Shapes, Connection
<1> QED BY <1>1, <1>2, <1>3, <1>4 DEF Operation

\* DoAccept and DoTCPRecv.
LEMMA DoReceiveKeeps ==
    ASSUME IInv, NEW t \in IOThread, DoAccept(t) \/ DoTCPRecv(t)
    PROVE  IInv'
<1>1. CASE DoAccept(t)
  BY <1>1, SwitchedTo, HandledKeeps DEF DoAccept, Switch
<1>2. CASE DoTCPRecv(t)
  BY <1>2, SwitchedTo, HandledKeeps DEF DoTCPRecv, Switch
<1> QED BY <1>1, <1>2

\* BindIOCP says that the slot is connected, or closes it.
LEMMA BindIOCPKeeps ==
    ASSUME IInv, NEW t \in IOThread, BindIOCP(t)
    PROVE  IInv'
<1> DEFINE i == Current(t).slot
<1>1. /\ io[t].pc \notin Resting /\ io[t].pc \in Handling /\ io[t].pc = "bind_iocp"
      /\ UNCHANGED <<sock, pending, port, main, cut>>
  BY DEF BindIOCP, Resting, Handling
<1>2. IsOfReceive(Current(t)) /\ Current(t).kind # "end" /\ (i \notin cut => ~io[t].again)
  BY <1>1 DEF IInv, Threads, ThreadKnows, IsOfReceive
<1>3. i \in Slot
  BY <1>1, <1>2, CurrentIs DEF IInv
<1>4. PICK pc \in {"close", "bind_recv"} :
        /\ Goto(t, pc)
        /\ conn' = conn \/ conn' = [conn EXCEPT ![i].m_IsConnected = TRUE]
  BY DEF BindIOCP
<1>5. pc \in Pcs \ Resting /\ pc # "reset" /\ pc \notin Looking
  BY DEF Pcs, Handling, Resting, Looking
<1>6. /\ io' \in [IOThread -> Thread] /\ \A u \in IOThread : u # t => io'[u] = io[u]
      /\ io'[t].pc = pc /\ io'[t].batch = io[t].batch /\ io'[t].again = io[t].again
  BY <1>4, <1>5, GotoIs DEF IInv
<1>7. ThreadKnows(t)'
  BY <1>1, <1>2, <1>5, <1>6, GoesOn
<1>8. Works(t) /\ \A j \in Slot \ cut : Stays(t, j)
  BY <1>1, <1>5, <1>6, <1>7 DEF Works, Stays
<1>9. SlotsKept(t)
  <2>1. conn \in [Slot -> Connection]
    BY DEF IInv, Shapes
  <2>2. CASE conn' = conn
    BY <2>1, <2>2 DEF SlotsKept, SocketKept
  <2>3. CASE conn' = [conn EXCEPT ![i].m_IsConnected = TRUE]
    <3>1. [conn[i] EXCEPT !.m_IsConnected = TRUE] \in Connection
      BY <1>3, <2>1 DEF Connection
    <3>2. /\ conn' \in [Slot -> Connection] /\ conn'[i] = [conn[i] EXCEPT !.m_IsConnected = TRUE]
          /\ \A j \in Slot : j # i => conn'[j] = conn[j]
      BY <1>3, <2>1, <2>3, <3>1
    <3>3. /\ conn'[i].m_TcpSocket = conn[i].m_TcpSocket /\ conn'[i].m_eOperation = conn[i].m_eOperation
          /\ conn'[i].m_IsConnected
      BY <1>3, <2>1, <3>2 DEF Connection
    <3> QED BY <1>1, <3>2, <3>3 DEF SlotsKept, SocketKept
  <2> QED BY <1>4, <2>2, <2>3
<1> QED BY <1>1, <1>6, <1>8, <1>9, WorkKeeps

-----------------------------------------------------------------------------
(* A thread takes the first completions of the port.                        *)

\* The first ones are its batch and the rest is the port.
TakesFirst(t, n) ==
    /\ io[t].pc = "wait"
    /\ n \in 1 .. MaxBatch /\ n <= Len(port)
    /\ io' = [io EXCEPT ![t] = [pc |-> "dispatch", batch |-> SubSeq(port, 1, n), again |-> FALSE]]
    /\ port' = SubSeq(port, n + 1, Len(port))
    /\ UNCHANGED <<conn, sock, pending, requests, main, clients, sends, cut, untold>>

\* What is left of a sequence without its first elements.
LEMMA RestIs ==
    ASSUME NEW S, NEW seq \in Seq(S), NEW n \in Nat, n <= Len(seq)
    PROVE  /\ SubSeq(seq, n + 1, Len(seq)) \in Seq(S)
           /\ Len(SubSeq(seq, n + 1, Len(seq))) = Len(seq) - n
           /\ \A m \in 1 .. Len(seq) - n : SubSeq(seq, n + 1, Len(seq))[m] = seq[m + n]
<1> DEFINE from == n + 1
           len == Len(seq)
<1>0. len \in Nat /\ \A m \in 1 .. len : seq[m] \in S
  BY ElementOfSeq, LenProperties
<1> SUFFICES /\ SubSeq(seq, from, len) \in Seq(S)
             /\ Len(SubSeq(seq, from, len)) = len - n
             /\ \A m \in 1 .. len - n : SubSeq(seq, from, len)[m] = seq[m + n]
  OBVIOUS
<1>1. from \in Int /\ len \in Int /\ \A m \in from .. len : seq[m] \in S
  <2> HIDE DEF len
  <2> QED BY <1>0
<1>2. /\ len - from + 1 = len - n
      /\ (IF from <= len THEN len - from + 1 ELSE 0) = len - n
      /\ \A m \in 1 .. len - n : from + m - 1 = m + n
  BY <1>0
<1> HIDE DEF from, len
<1>3. /\ SubSeq(seq, from, len) \in Seq(S)
      /\ Len(SubSeq(seq, from, len)) = IF from <= len THEN len - from + 1 ELSE 0
      /\ \A m \in 1 .. len - from + 1 : SubSeq(seq, from, len)[m] = seq[from + m - 1]
  BY <1>1, SubSeqProperties
<1> QED BY <1>2, <1>3

\* What they are.
LEMMA TakenFirst ==
    ASSUME IInv, NEW t \in IOThread, NEW n \in Nat, TakesFirst(t, n)
    PROVE  /\ n \in 1 .. MaxBatch /\ n <= Len(port) /\ Len(port) \in Nat
           /\ DOMAIN port = 1 .. Len(port) /\ port \in Seq(SoundOnes)
           /\ io' \in [IOThread -> Thread] /\ \A u \in IOThread : u # t => io'[u] = io[u]
           /\ io'[t].pc = "dispatch" /\ io[t].batch = NoBatch
           /\ Len(io'[t].batch) = n /\ io'[t].batch \in Seq(SoundOnes)
           /\ DOMAIN io'[t].batch = 1 .. n /\ \A m \in 1 .. n : io'[t].batch[m] = port[m]
           /\ port' \in Seq(SoundOnes) /\ DOMAIN port' = 1 .. Len(port) - n
           /\ \A m \in 1 .. Len(port) - n : port'[m] = port[m + n]
<1> DEFINE first == SubSeq(port, 1, n)
           next == [pc |-> "dispatch", batch |-> first, again |-> FALSE]
<1>1. port \in Seq(SoundOnes) /\ Len(port) \in Nat /\ DOMAIN port = 1 .. Len(port)
  BY LenProperties DEF IInv, Shapes
<1>2. n \in 1 .. MaxBatch /\ n <= Len(port)
  BY DEF TakesFirst
<1>3. \A m \in 1 .. Len(port) : port[m] \in SoundOnes
  BY <1>1, ElementOfSeq
<1>4. first \in Seq(SoundOnes) /\ Len(first) = n /\ \A m \in 1 .. n : first[m] = port[m]
  BY <1>1, <1>2, <1>3, SubSeqProperties, Constants
<1>5. DOMAIN first = 1 .. n
  BY <1>4, LenProperties
<1>6. /\ SubSeq(port, n + 1, Len(port)) \in Seq(SoundOnes)
      /\ Len(SubSeq(port, n + 1, Len(port))) = Len(port) - n
      /\ \A m \in 1 .. Len(port) - n : SubSeq(port, n + 1, Len(port))[m] = port[m + n]
  BY <1>1, <1>2, RestIs
<1>7. /\ port' \in Seq(SoundOnes) /\ DOMAIN port' = 1 .. Len(port) - n
      /\ \A m \in 1 .. Len(port) - n : port'[m] = port[m + n]
  BY <1>6, LenProperties DEF TakesFirst
<1>8. io' = [io EXCEPT ![t] = next]
  BY DEF TakesFirst
<1> HIDE DEF first
<1>9. next \in Thread /\ next.pc = "dispatch" /\ next.batch = first
  BY <1>4 DEF Thread, Pcs
<1> HIDE DEF next
<1>10. io' \in [IOThread -> Thread] /\ io'[t] = next /\ \A u \in IOThread : u # t => io'[u] = io[u]
  BY <1>8, <1>9 DEF IInv, Shapes
<1>11. io[t].batch = NoBatch
  BY DEF IInv, Threads, ThreadKnows, TakesFirst, Resting, NoBatch
<1> QED BY <1>1, <1>2, <1>4, <1>5, <1>7, <1>9, <1>10, <1>11

\* A slot's receive is then in the batch, or still where it was.
LEMMA TakenSlot ==
    ASSUME IInv, NEW t \in IOThread, NEW n \in Nat, TakesFirst(t, n), NEW i \in Slot \ cut
    PROVE  SlotInv(i)'
<1>1. SlotInv(i)
  BY DEF IInv
<1>2. /\ Started(i)' = Started(i) /\ conn' = conn /\ (m_IsRun' <=> m_IsRun) /\ pending' = pending
  BY DEF TakesFirst, Started, m_IsRun
<1>3. /\ n \in 1 .. MaxBatch /\ n <= Len(port) /\ Len(port) \in Nat /\ DOMAIN port = 1 .. Len(port)
      /\ DOMAIN port' = 1 .. Len(port) - n /\ \A m \in 1 .. Len(port) - n : port'[m] = port[m + n]
      /\ MaxBatch \in Nat
  BY TakenFirst, Constants
<1>4. ASSUME NEW m \in Queued(i)'
      PROVE  m \in Nat \ {0} /\ m + n \in Queued(i) /\ port'[m] = port[m + n]
  <2>1. m \in DOMAIN port' /\ IsReceive(port'[m], i)
    BY <1>4 DEF Queued, IsReceive
  <2>2. m + n \in DOMAIN port /\ port'[m] = port[m + n] /\ m \in Nat \ {0}
    BY <1>3, <2>1
  <2> QED BY <2>1, <2>2 DEF Queued
<1>5. ASSUME NEW m \in 1 .. MaxBatch, TakenAt(t, m, i)'
      PROVE  m \in Queued(i) /\ m <= n /\ io'[t].batch[m] = port[m]
  <2>1. m \in DOMAIN io'[t].batch /\ IsReceive(io'[t].batch[m], i)
    BY <1>5 DEF TakenAt, IsReceive
  <2>2. m \in 1 .. n /\ io'[t].batch[m] = port[m]
    BY <2>1, TakenFirst
  <2> QED BY <1>3, <2>1, <2>2 DEF Queued
<1>6. ASSUME NEW u \in IOThread, u # t, NEW m
      PROVE  (TakenAt(u, m, i)' <=> TakenAt(u, m, i)) /\ io'[u] = io[u]
  <2>1. io'[u] = io[u]
    BY <1>6, TakenFirst
  <2> QED BY <2>1 DEF TakenAt, IsReceive
<1>7. /\ \A p, q \in Queued(i) : p = q
      /\ Queued(i) # {} => ~Held(i)
  BY <1>1 DEF SlotInv, OnePlace
<1>8. Held(i)' => Held(i) \/ \E m \in Queued(i) : m <= n
  BY <1>5, <1>6 DEF Held
<1>9. OnePlace(i)'
  <2>1. \A p, q \in Started(i)' : p = q
    BY <1>1, <1>2 DEF SlotInv, OnePlace
  <2>2. \A p, q \in Queued(i)' : p = q
    BY <1>3, <1>4, <1>7
  <2>3. ASSUME NEW u \in IOThread, NEW v \in IOThread, NEW p \in 1 .. MaxBatch, NEW q \in 1 .. MaxBatch,
               TakenAt(u, p, i)', TakenAt(v, q, i)'
        PROVE  u = v /\ p = q
    <3>1. CASE u = t /\ v = t
      BY <1>5, <1>7, <2>3, <3>1
    <3>2. CASE u = t /\ v # t
      BY <1>5, <1>6, <1>7, <2>3, <3>2 DEF Held
    <3>3. CASE u # t /\ v = t
      BY <1>5, <1>6, <1>7, <2>3, <3>3 DEF Held
    <3>4. CASE u # t /\ v # t
      BY <1>1, <1>6, <2>3, <3>4 DEF SlotInv, OnePlace
    <3> QED BY <3>1, <3>2, <3>3, <3>4
  <2>4. Started(i)' # {} => Queued(i)' = {} /\ ~Held(i)'
    BY <1>1, <1>2, <1>4, <1>8 DEF SlotInv, OnePlace
  <2>5. Queued(i)' # {} => ~Held(i)'
    <3>1. SUFFICES ASSUME NEW m \in Queued(i)', NEW q \in Queued(i), q <= n
                   PROVE  FALSE
      BY <1>4, <1>7, <1>8
    <3> QED BY <1>3, <1>4, <1>7, <3>1
  <2>6. m_IsRun' => Started(i)' # {} \/ Queued(i)' # {} \/ Held(i)'
    <3>1. SUFFICES ASSUME Queued(i) # {} \/ Held(i)
                   PROVE  Queued(i)' # {} \/ Held(i)'
      BY <1>1, <1>2 DEF SlotInv, OnePlace
    <3>2. ASSUME NEW q \in Queued(i)
          PROVE  Queued(i)' # {} \/ Held(i)'
      <4>1. q \in 1 .. Len(port) /\ IsReceive(port[q], i)
        BY <1>3, <3>2 DEF Queued
      <4>2. CASE q <= n
        <5>1. q \in DOMAIN io'[t].batch /\ io'[t].batch[q] = port[q] /\ q \in 1 .. MaxBatch
          BY <1>3, <4>1, <4>2, TakenFirst
        <5>2. TakenAt(t, q, i)'
          BY <4>1, <5>1 DEF TakenAt, IsReceive
        <5> QED BY <5>1, <5>2 DEF Held
      <4>3. CASE q > n
        <5>1. q - n \in DOMAIN port' /\ port'[q - n] = port[q]
          <6>1. q - n \in 1 .. Len(port) - n /\ (q - n) + n = q
            BY <1>3, <4>1, <4>3
          <6> QED BY <1>3, <6>1
        <5>2. IsReceive(port'[q - n], i)
          BY <4>1, <5>1
        <5> QED BY <5>1, <5>2 DEF Queued, IsReceive
      <4> QED BY <1>3, <4>1, <4>2, <4>3
    <3>3. ASSUME Held(i)
          PROVE  Held(i)'
      <4>1. PICK u \in IOThread : \E m \in 1 .. MaxBatch : TakenAt(u, m, i)
        BY <3>3 DEF Held
      <4>2. u # t
        BY <4>1, TakenFirst DEF TakenAt, NoBatch
      <4> QED BY <1>6, <4>1, <4>2 DEF Held
    <3> QED BY <3>1, <3>2, <3>3
  <2> QED BY <2>1, <2>2, <2>3, <2>4, <2>5, <2>6 DEF OnePlace
<1>10. Structure(i)'
  <2>1. \A p \in Started(i)' : SaysWhat(p, i)'
    BY <1>1, <1>2 DEF SlotInv, Structure, SaysWhat
  <2>2. \A m \in Queued(i)' : SaysWhat(port[m], i)' /\ Uncut(port[m])'
    BY <1>1, <1>2, <1>4 DEF SlotInv, Structure, SaysWhat, Uncut
  <2>3. ASSUME NEW u \in IOThread, NEW m \in 1 .. MaxBatch, TakenAt(u, m, i)'
        PROVE  /\ Uncut(io[u].batch[m])'
               /\ m # 1 \/ io'[u].pc \in Looking => SaysWhat(io[u].batch[m], i)'
    <3>1. CASE u = t
      BY <1>1, <1>2, <1>5, <2>3, <3>1 DEF SlotInv, Structure, SaysWhat, Uncut
    <3>2. CASE u # t
      BY <1>1, <1>2, <1>6, <2>3, <3>2 DEF SlotInv, Structure, SaysWhat, Uncut, Looking
    <3> QED BY <3>1, <3>2
  <2> QED BY <2>1, <2>2, <2>3 DEF Structure, Looking
<1>11. SendInFlight(i)' => SendInFlight(i)
  <2>1. ASSUME NEW m \in DOMAIN port', IsSend(port'[m], i)
        PROVE  SendInFlight(i)
    <3>1. m + n \in DOMAIN port /\ port'[m] = port[m + n]
      BY <1>3, <2>1
    <3> QED BY <2>1, <3>1 DEF SendInFlight, IsSend
  <2>2. ASSUME NEW u \in IOThread, NEW m \in DOMAIN io'[u].batch, IsSend(io'[u].batch[m], i)
        PROVE  SendInFlight(i)
    <3>1. CASE u = t
      <4>1. m \in DOMAIN port /\ io'[t].batch[m] = port[m]
        BY <1>3, <2>2, <3>1, TakenFirst
      <4> QED BY <2>2, <3>1, <4>1 DEF SendInFlight, IsSend
    <3>2. CASE u # t
      BY <1>6, <2>2, <3>2 DEF SendInFlight, IsSend
    <3> QED BY <3>1, <3>2
  <2> QED BY <1>2, <2>1, <2>2 DEF SendInFlight, IsSend
<1> QED BY <1>1, <1>2, <1>9, <1>10, <1>11 DEF SlotInv

\* Everything else is as it was.
LEMMA TakeKeeps ==
    ASSUME IInv, NEW t \in IOThread, Take(t)
    PROVE  IInv'
<1>1. PICK n \in 1 .. MaxBatch : TakesFirst(t, n)
  BY DEF Take, TakesFirst
<1>2. n \in Nat
  BY Constants
<1>3. UNCHANGED <<conn, sock, pending, main, cut>>
  BY <1>1 DEF TakesFirst
<1>4. /\ Len(port) \in Nat /\ n <= Len(port) /\ n \in 1 .. MaxBatch /\ MaxBatch \in Nat
      /\ DOMAIN port = 1 .. Len(port)
      /\ io' \in [IOThread -> Thread] /\ \A u \in IOThread : u # t => io'[u] = io[u]
      /\ io'[t].pc = "dispatch" /\ Len(io'[t].batch) = n
      /\ DOMAIN io'[t].batch = 1 .. n /\ \A m \in 1 .. n : io'[t].batch[m] = port[m]
      /\ port' \in Seq(SoundOnes) /\ DOMAIN port' = 1 .. Len(port) - n
      /\ \A m \in 1 .. Len(port) - n : port'[m] = port[m + n]
  BY <1>1, <1>2, TakenFirst, Constants
<1>5. Shapes'
  BY <1>3, <1>4 DEF IInv, Shapes
<1>6. Sockets' /\ Crashed'
  <2>1. main # "crashed"
    BY <1>1, NotCrashed DEF TakesFirst
  <2> QED BY <1>3, <2>1 DEF IInv, Sockets, Crashed
<1>7. Threads'
  <2>1. io'[t].batch # NoBatch
    <3>1. 1 \in DOMAIN io'[t].batch
      BY <1>4
    <3> QED BY <3>1 DEF NoBatch
  <2>2. ThreadKnows(t)'
    BY <1>4, <2>1 DEF ThreadKnows, Resting, Handling, NoBatch
  <2>3. \A j \in Slot : SocketKept(j)
    BY <1>3 DEF SocketKept
  <2>4. cut \subseteq cut'
    BY <1>3
  <2> QED BY <1>4, <2>2, <2>3, <2>4, OthersKnow
<1>8. NoneToldYet'
  <2>1. SUFFICES ASSUME m_IsRun'
                 PROVE  /\ \A m \in DOMAIN port' : port'[m].kind # "end"
                        /\ \A u \in IOThread : \A m \in DOMAIN io'[u].batch : io'[u].batch[m].kind # "end"
    BY DEF NoneToldYet
  <2>2. /\ \A m \in DOMAIN port : port[m].kind # "end"
        /\ \A u \in IOThread : \A m \in DOMAIN io[u].batch : io[u].batch[m].kind # "end"
    BY <1>3, <2>1 DEF IInv, NoneToldYet, m_IsRun
  <2>3. \A m \in 1 .. Len(port) - n : m + n \in DOMAIN port
    BY <1>4
  <2>4. \A m \in 1 .. n : m \in DOMAIN port
    BY <1>4
  <2> QED BY <1>4, <2>2, <2>3, <2>4
<1>9. \A j \in Slot \ cut' : SlotInv(j)'
  BY <1>1, <1>2, <1>3, TakenSlot
<1> QED BY <1>5, <1>6, <1>7, <1>8, <1>9 DEF IInv

-----------------------------------------------------------------------------
(* What is started: sends, receives and accepts.                            *)

\* What an operation is of.
LEMMA OpIs ==
    ASSUME NEW kind, NEW i, NEW k
    PROVE  Op(kind, i, k).kind = kind /\ Op(kind, i, k).slot = i /\ Op(kind, i, k).sock = k
BY DEF Op

\* A socket that a slot knows is one that the slot made.
LEMMA OwnSocket ==
    ASSUME IInv, main # "crashed", NEW i \in Slot, conn[i].m_TcpSocket # None
    PROVE  conn[i].m_TcpSocket \in Socket /\ sock[conn[i].m_TcpSocket].slot = i
BY DEF IInv, Shapes, Sockets, Connection

\* A send is started for a slot, or none.
Sends(i) ==
    /\ conn' \in [Slot -> Connection]
    /\ \A j \in Slot : SocketKept(j) /\ conn'[j].m_eOperation = conn[j].m_eOperation
    /\ \/ pending' = pending
       \/ \E k \in Socket : sock[k].slot = i /\ pending' = pending \cup {Op("send", i, k)}

\* That is what the end of a send and an answer do.
LEMMA SendIs ==
    ASSUME IInv, main # "crashed", NEW i \in Slot, TCPSendCompleted(i) \/ UNCHANGED <<conn, pending, sends>>
    PROVE  Sends(i)
<1>1. conn \in [Slot -> Connection]
  BY DEF IInv, Shapes
<1>2. ASSUME NEW sending \in BOOLEAN, conn' = [conn EXCEPT ![i].sending = sending]
      PROVE  /\ conn' \in [Slot -> Connection]
             /\ \A j \in Slot : SocketKept(j) /\ conn'[j].m_eOperation = conn[j].m_eOperation
  <2>1. [conn[i] EXCEPT !.sending = sending] \in Connection
    BY <1>1 DEF Connection
  <2>2. /\ conn' \in [Slot -> Connection] /\ conn'[i] = [conn[i] EXCEPT !.sending = sending]
        /\ \A j \in Slot : j # i => conn'[j] = conn[j]
    BY <1>1, <1>2, <2>1
  <2>3. /\ conn'[i].m_TcpSocket = conn[i].m_TcpSocket /\ conn'[i].m_eOperation = conn[i].m_eOperation
        /\ conn'[i].m_IsConnected = conn[i].m_IsConnected
    BY <1>1, <2>2 DEF Connection
  <2> QED BY <2>2, <2>3 DEF SocketKept
<1>3. CASE conn' = [conn EXCEPT ![i].sending = FALSE] /\ UNCHANGED <<pending, sends>>
  BY <1>2, <1>3 DEF Sends
<1>4. CASE SendTCPIO(i)
  <2>1. conn' = [conn EXCEPT ![i].sending = TRUE]
    BY <1>4 DEF SendTCPIO
  <2>2. CASE CanSend(conn[i].m_TcpSocket)
    <3>1. conn[i].m_TcpSocket \in Socket /\ sock[conn[i].m_TcpSocket].slot = i
      BY <2>2, OwnSocket DEF CanSend, Receives
    <3>2. pending' = pending \cup {Op("send", i, conn[i].m_TcpSocket)}
      BY <1>4, <2>2 DEF SendTCPIO
    <3> QED BY <1>2, <2>1, <3>1, <3>2 DEF Sends
  <2>3. CASE ~CanSend(conn[i].m_TcpSocket)
    BY <1>2, <1>4, <2>1, <2>3 DEF Sends, SendTCPIO
  <2> QED BY <2>2, <2>3
<1>5. CASE UNCHANGED <<conn, pending, sends>>
  BY <1>1, <1>5 DEF Sends, SocketKept
<1> QED BY <1>3, <1>4, <1>5 DEF TCPSendCompleted

\* Then the receives are where they were.
LEMMA SendsKeep ==
    ASSUME IInv, main # "crashed", NEW i \in Slot, Sends(i), conn[i].m_IsConnected \/ i \in cut,
           UNCHANGED <<sock, port, main, cut>>, io' \in [IOThread -> Thread],
           BatchesShrink, \A j \in Slot \ cut : BatchesKept(j), Threads'
    PROVE  IInv'
<1>1. /\ IsFiniteSet(pending')
      /\ \A p \in pending' : p \in pending \/ (p.kind = "send" /\ p.slot = i /\ p.sock \in Socket /\ sock[p.sock].slot = i)
      /\ pending \subseteq pending'
  BY OpIs, FS_AddElement DEF Sends, IInv, Shapes
<1>2. Shapes'
  <2>1. \A p \in pending' : p.kind \in {"accept", "recv", "send"} /\ p.slot \in Slot /\ p.sock \in Socket
    BY <1>1 DEF IInv, Shapes
  <2> QED BY <1>1, <2>1 DEF IInv, Shapes, Sends
<1>3. Sockets'
  <2>1. \A p \in pending' : sock'[p.sock].slot = p.slot
    BY <1>1 DEF IInv, Sockets
  <2>2. \A j \in Slot : conn'[j].m_TcpSocket = conn[j].m_TcpSocket
    BY DEF Sends, SocketKept
  <2> QED BY <2>1, <2>2 DEF IInv, Sockets
<1>4. Crashed'
  BY DEF Crashed
<1>5. NoneToldYet'
  <2>1. (m_IsRun' => m_IsRun) /\ port' = port
    BY DEF m_IsRun
  <2> QED BY <2>1, StillNotTold DEF IInv, NoneToldYet
<1>6. ASSUME NEW j \in Slot \ cut'
      PROVE  SlotInv(j)'
  <2>1. j \in Slot \ cut /\ SlotInv(j)
    BY DEF IInv
  <2>2. Started(j)' = Started(j)
    BY <1>1 DEF Started, IsReceive
  <2>3. Queued(j)' = Queued(j) /\ (m_IsRun' <=> m_IsRun)
    BY DEF Queued, m_IsRun
  <2>4. SendInFlight(j)' => conn'[j].m_IsConnected
    <3>1. conn'[j].m_IsConnected = conn[j].m_IsConnected
      BY DEF Sends, SocketKept
    <3>2. CASE j = i
      BY <2>1, <3>1, <3>2
    <3>3. CASE j # i
      <4>1. /\ \A p \in pending' : IsSend(p, j) => SendInFlight(j)
            /\ \A n \in DOMAIN port' : IsSend(port'[n], j) => SendInFlight(j)
        BY <1>1, <3>3 DEF IsSend, SendInFlight
      <4>2. SendInFlight(j)' => SendInFlight(j)
        BY <4>1, NoNewSends DEF IInv, BatchesShrink
      <4> QED BY <2>1, <3>1, <4>2 DEF SlotInv
    <3> QED BY <3>2, <3>3
  <2>5. Kept(j)
    BY <2>1, <2>2, <2>3, <2>4 DEF Kept, Sends
  <2> QED BY <2>1, <2>5, SlotKept DEF IInv
<1> QED BY <1>2, <1>3, <1>4, <1>5, <1>6 DEF IInv

\* The end of a send, and the next one.
LEMMA DoTCPSendKeeps ==
    ASSUME IInv, NEW t \in IOThread, DoTCPSend(t)
    PROVE  IInv'
<1> DEFINE i == Current(t).slot
<1>1. io[t].pc \notin Resting /\ Current(t).kind = "send" /\ i \in Slot
  BY SwitchedTo DEF DoTCPSend
<1>2. io[t].batch # <<>>
  BY <1>1, CurrentIs DEF IInv
<1>3. conn[i].m_IsConnected \/ i \in cut
  BY <1>1, SendHandled DEF IInv, SlotInv
<1>4. main # "crashed"
  BY <1>1, NotCrashed DEF Resting
<1>5. Sends(i)
  BY <1>1, <1>4, SendIs DEF DoTCPSend
<1>6. /\ io' \in [IOThread -> Thread] /\ \A u \in IOThread : u # t => io'[u] = io[u]
      /\ ThreadKnows(t)' /\ Pops(t) /\ UNCHANGED <<sock, port, main, cut>>
  BY <1>2, NextEntryIs, NextKnows DEF DoTCPSend, IInv
<1>7. BatchesShrink
  BY <1>6 DEF BatchesShrink
<1>8. \A j \in Slot \ cut : BatchesKept(j)
  <2>1. \A j \in Slot \ cut : ~IsReceive(Current(t), j)
    BY <1>1 DEF IsReceive
  <2> QED BY <1>6, <2>1, OthersStay
<1>9. Threads'
  <2>1. \A j \in Slot : SocketKept(j)
    BY <1>5 DEF Sends
  <2>2. cut \subseteq cut'
    BY <1>6
  <2> QED BY <1>6, <2>1, <2>2, OthersKnow
<1> QED BY <1>1, <1>3, <1>4, <1>5, <1>6, <1>7, <1>8, <1>9, SendsKeep

\* A job thread answers.
LEMMA SendMsgTCPKeeps ==
    ASSUME IInv, NEW i \in Slot, SendMsgTCP(i)
    PROVE  IInv'
<1>1. main # "crashed" /\ conn[i].m_IsConnected /\ UNCHANGED <<sock, port, main, cut, io>>
  BY DEF SendMsgTCP, m_IsRun
<1>2. TCPSendCompleted(i) \/ UNCHANGED <<conn, pending, sends>>
  BY DEF SendMsgTCP, TCPSendCompleted
<1>3. Sends(i)
  BY <1>1, <1>2, SendIs
<1>4. BatchesShrink /\ \A j \in Slot \ cut : BatchesKept(j)
  BY <1>1 DEF BatchesShrink, BatchesKept, Stays
<1>5. io' \in [IOThread -> Thread]
  BY <1>1 DEF IInv, Shapes
<1>6. Threads'
  <2>1. \A j \in Slot : SocketKept(j)
    BY <1>3 DEF Sends
  <2>2. cut \subseteq cut'
    BY <1>1
  <2> QED BY <1>1, <2>1, <2>2, AllKnow
<1> QED BY <1>1, <1>3, <1>4, <1>5, <1>6, SendsKeep

-----------------------------------------------------------------------------
(* A thread works on the slot of the entry that it handles.                 *)

\* What it does to its own slot is no matter of the others.
LEMMA OtherSlot ==
    ASSUME IInv, NEW t \in IOThread, \A u \in IOThread : u # t => io'[u] = io[u],
           io'[t].batch = io[t].batch \/ Pops(t), m_IsRun' <=> m_IsRun,
           NEW j \in Slot \ cut, j # Current(t).slot, conn'[j] = conn[j], Started(j)' = Started(j),
           Queued(j)' = Queued(j), \A n \in Queued(j) : port'[n] = port[n],
           \A p \in pending' : IsSend(p, j) => SendInFlight(j),
           \A n \in DOMAIN port' : IsSend(port'[n], j) => SendInFlight(j)
    PROVE  SlotInv(j)'
<1>1. ~IsReceive(Current(t), j)
  BY DEF IsReceive
<1>2. BatchesKept(j)
  BY <1>1 DEF BatchesKept, Stays
<1>3. SendInFlight(j)' => SendInFlight(j)
  BY NoNewSends DEF IInv
<1>4. SlotInv(j)
  BY DEF IInv
<1>5. Kept(j)
  BY <1>2, <1>3, <1>4 DEF Kept, SlotInv
<1> QED BY <1>4, <1>5, SlotKept DEF IInv

\* A thread that holds its slot's receive may say what the next operation is.
LEMMA HolderKept ==
    ASSUME Shapes, Threads, NEW i \in Slot, SlotInv(i), NEW t \in IOThread, io[t].pc \notin Resting,
           IsReceive(Current(t), i), \A u \in IOThread : u # t => io'[u] = io[u],
           io'[t].batch = io[t].batch, io'[t].pc \notin Looking, port' = port, pending' = pending,
           m_IsRun' <=> m_IsRun, SendInFlight(i)' => conn'[i].m_IsConnected
    PROVE  SlotInv(i)'
<1>1. /\ TakenAt(t, 1, i) /\ Held(i) /\ Started(i) = {} /\ Queued(i) = {}
      /\ \A u \in IOThread : \A n \in 1 .. MaxBatch : TakenAt(u, n, i) => u = t /\ n = 1
  BY HolderIs DEF SlotInv
<1>2. \A u \in IOThread : io'[u].batch = io[u].batch
  OBVIOUS
<1>3. \A u \in IOThread : \A n \in 1 .. MaxBatch : TakenAt(u, n, i)' <=> TakenAt(u, n, i)
  BY <1>2 DEF TakenAt, IsReceive
<1>4. Started(i)' = {} /\ Queued(i)' = {} /\ Held(i)'
  BY <1>1, <1>3 DEF Started, Queued, Held
<1>5. OnePlace(i)'
  BY <1>1, <1>3, <1>4 DEF OnePlace
<1>6. Uncut(io[t].batch[1])
  BY <1>1, Constants DEF SlotInv, Structure
<1>7. Structure(i)'
  BY <1>1, <1>2, <1>3, <1>4, <1>6 DEF Structure, Uncut, Looking
<1> QED BY <1>5, <1>7 DEF SlotInv

\* If no slot was cut, who handles an entry of an accept or a receive holds it.
LEMMA HandlesReceive ==
    ASSUME IInv, NEW t \in IOThread, io[t].pc \notin Resting, IsOfReceive(Current(t))
    PROVE  /\ Current(t).slot \in Slot /\ IsReceive(Current(t), Current(t).slot)
           /\ Current(t).kind # "send"
BY CurrentIs DEF IInv, IsOfReceive, IsReceive

\* The next operation of slot i's receive is started, on a socket of the slot.
Starts(i, kind, k) ==
    /\ k \in Socket
    /\ pending' = pending \cup {Op(kind, i, k)}

\* What is pending then.
LEMMA StartsIs ==
    ASSUME IInv, NEW i \in Slot, NEW kind \in {"accept", "recv"}, NEW k, Starts(i, kind, k)
    PROVE  /\ IsFiniteSet(pending')
           /\ \A p \in pending' : p.kind \in {"accept", "recv", "send"} /\ p.slot \in Slot /\ p.sock \in Socket
           /\ \A p \in pending' : p \in pending \/ (p.slot = i /\ p.sock = k /\ p.kind # "send")
           /\ \A j : j # i => Started(j)' = Started(j)
           /\ \A j, p : p \in pending' /\ IsSend(p, j) => SendInFlight(j)
<1>1. /\ pending' = pending \cup {Op(kind, i, k)} /\ k \in Socket
      /\ Op(kind, i, k).kind = kind /\ Op(kind, i, k).slot = i /\ Op(kind, i, k).sock = k
  BY OpIs DEF Starts
<1>2. /\ IsFiniteSet(pending)
      /\ \A p \in pending : p.kind \in {"accept", "recv", "send"} /\ p.slot \in Slot /\ p.sock \in Socket
  BY DEF IInv, Shapes
<1>3. IsFiniteSet(pending')
  BY <1>1, <1>2, FS_AddElement
<1>4. \A j : j # i => Started(j)' = Started(j)
  BY <1>1 DEF Started, IsReceive
<1>5. \A j, p : p \in pending' /\ IsSend(p, j) => SendInFlight(j)
  BY <1>1 DEF IsSend, SendInFlight
<1> QED BY <1>1, <1>2, <1>3, <1>4, <1>5

\* BindRecv says that the structure is a receive's; if the receive cannot be started the
\* slot is closed.
LEMMA BindRecvKeeps ==
    ASSUME IInv, NEW t \in IOThread, BindRecv(t)
    PROVE  IInv'
<1> DEFINE i == Current(t).slot
           k == conn[i].m_TcpSocket
<1>1. /\ io[t].pc \notin Resting /\ io[t].pc \in Handling /\ io[t].pc = "bind_recv"
      /\ UNCHANGED <<sock, port, main, cut>> /\ (m_IsRun' <=> m_IsRun)
  BY DEF BindRecv, Resting, Handling, m_IsRun
<1>2. IsOfReceive(Current(t)) /\ Current(t).kind # "end" /\ (i \notin cut => ~io[t].again)
  BY <1>1 DEF IInv, Threads, ThreadKnows, IsOfReceive
<1>3. i \in Slot /\ IsReceive(Current(t), i) /\ io[t].batch # <<>>
  BY <1>1, <1>2, HandlesReceive, CurrentIs DEF IInv
<1>4. main # "crashed"
  BY <1>1, NotCrashed
<1>5. /\ conn' \in [Slot -> Connection] /\ \A j \in Slot : SocketKept(j)
      /\ \A j \in Slot : j # i => conn'[j] = conn[j]
      /\ conn[i].m_IsConnected => conn'[i].m_eOperation = "recv"
  <2>1. conn \in [Slot -> Connection]
    BY DEF IInv, Shapes
  <2>2. CASE conn' = conn /\ ~conn[i].m_IsConnected
    BY <2>1, <2>2 DEF SocketKept
  <2>3. CASE conn' = [conn EXCEPT ![i].m_eOperation = "recv"]
    <3>1. [conn[i] EXCEPT !.m_eOperation = "recv"] \in Connection
      BY <1>3, <2>1 DEF Connection
    <3>2. /\ conn' \in [Slot -> Connection] /\ conn'[i] = [conn[i] EXCEPT !.m_eOperation = "recv"]
          /\ \A j \in Slot : j # i => conn'[j] = conn[j]
      BY <1>3, <2>1, <2>3, <3>1
    <3>3. /\ conn'[i].m_TcpSocket = conn[i].m_TcpSocket /\ conn'[i].m_eOperation = "recv"
          /\ conn'[i].m_IsConnected = conn[i].m_IsConnected
      BY <1>3, <2>1, <3>2 DEF Connection
    <3> QED BY <3>2, <3>3 DEF SocketKept
  <2> QED BY <2>2, <2>3 DEF BindRecv
<1> HIDE DEF i, k
<1>6. Crashed'
  BY <1>1, <1>4 DEF Crashed
<1>7. ASSUME ThreadKnows(t)', \A u \in IOThread : u # t => io'[u] = io[u]
      PROVE  Threads'
  BY <1>1, <1>5, <1>7, OthersKnow
<1>8. ASSUME BatchesShrink
      PROVE  NoneToldYet'
  BY <1>1, <1>8, StillNotTold DEF IInv, NoneToldYet
<1>9. \A j \in Slot : Queued(j)' = Queued(j)
  BY <1>1 DEF Queued
<1>10. \A n \in DOMAIN port', j \in Slot : IsSend(port'[n], j) => SendInFlight(j)
  BY <1>1 DEF IsSend, SendInFlight
<1>11. CASE conn[i].m_IsConnected /\ Starts(i, "recv", k) /\ sock[k].slot = i /\ NextEntry(t)
  <2>1. /\ io' \in [IOThread -> Thread] /\ \A u \in IOThread : u # t => io'[u] = io[u]
        /\ ThreadKnows(t)' /\ Pops(t)
    BY <1>3, <1>11, NextEntryIs, NextKnows DEF IInv
  <2>2. BatchesShrink
    BY <2>1 DEF BatchesShrink
  <2>3. /\ IsFiniteSet(pending')
        /\ \A p \in pending' : p.kind \in {"accept", "recv", "send"} /\ p.slot \in Slot /\ p.sock \in Socket
        /\ \A p \in pending' : p \in pending \/ (p.slot = i /\ p.sock = k /\ p.kind # "send")
        /\ \A j : j # i => Started(j)' = Started(j)
        /\ \A j, p : p \in pending' /\ IsSend(p, j) => SendInFlight(j)
    BY <1>3, <1>11, StartsIs
  <2>4. Shapes'
    BY <1>1, <1>5, <2>1, <2>3 DEF IInv, Shapes
  <2>5. Sockets'
    <3>1. \A p \in pending' : sock'[p.sock].slot = p.slot
      BY <1>1, <1>11, <2>3 DEF IInv, Sockets
    <3> QED BY <1>1, <1>5, <3>1 DEF IInv, Sockets, SocketKept
  <2>6. ASSUME NEW j \in Slot \ cut
        PROVE  SlotInv(j)'
    <3>1. CASE j # i
      BY <1>1, <1>5, <1>9, <1>10, <2>1, <2>3, <3>1, OtherSlot DEF i
    <3>2. CASE j = i
      <4>1. conn'[i].m_IsConnected /\ conn'[i].m_eOperation = "recv"
        BY <1>3, <1>5, <1>11 DEF SocketKept
      <4>2. IsReceive(Op("recv", i, k), i) /\ Op("recv", i, k).kind = conn'[i].m_eOperation
        BY <4>1, OpIs DEF IsReceive
      <4>3. pending' = pending \cup {Op("recv", i, k)} /\ SlotInv(i)
        BY <1>11, <3>2 DEF Starts, IInv
      <4> QED BY <1>1, <1>3, <2>1, <3>2, <4>1, <4>2, <4>3, NextStarted DEF IInv
    <3> QED BY <3>1, <3>2
  <2> QED BY <1>1, <1>6, <1>7, <1>8, <2>1, <2>2, <2>4, <2>5, <2>6 DEF IInv
<1>12. CASE Goto(t, "close") /\ UNCHANGED pending
  <2>1. /\ "close" \in Pcs \ Resting /\ "close" \notin Looking
    BY DEF Pcs, Handling, Resting, Looking
  <2>2. /\ io' \in [IOThread -> Thread] /\ \A u \in IOThread : u # t => io'[u] = io[u]
        /\ io'[t].pc = "close" /\ io'[t].batch = io[t].batch /\ io'[t].again = io[t].again
    BY <1>12, <2>1, GotoIs DEF IInv
  <2>3. ThreadKnows(t)'
    BY <1>1, <1>2, <2>1, <2>2, GoesOn DEF i
  <2>4. BatchesShrink
    BY <2>2 DEF BatchesShrink
  <2>5. Shapes' /\ Sockets'
    BY <1>1, <1>5, <1>12, <2>2 DEF IInv, Shapes, Sockets, SocketKept
  <2>6. ASSUME NEW j \in Slot \ cut
        PROVE  SlotInv(j)'
    <3>1. /\ Started(j)' = Started(j)
          /\ \A p \in pending' : IsSend(p, j) => SendInFlight(j)
      BY <1>12 DEF Started, IsSend, SendInFlight
    <3>2. CASE j # i
      BY <1>1, <1>5, <1>9, <1>10, <2>2, <3>1, <3>2, OtherSlot DEF i
    <3>3. CASE j = i
      <4>1. SendInFlight(j)' => SendInFlight(j)
        <5>1. \A n \in DOMAIN port' : IsSend(port'[n], j) => SendInFlight(j)
          BY <1>10
        <5> QED BY <2>4, <3>1, <5>1, NoNewSends DEF IInv, BatchesShrink
      <4>2. SlotInv(j) /\ conn'[j].m_IsConnected = conn[j].m_IsConnected
        BY <1>5 DEF IInv, SocketKept
      <4>3. SendInFlight(j)' => conn'[j].m_IsConnected
        BY <4>1, <4>2 DEF SlotInv
      <4>4. io'[t].pc \notin Looking /\ pending' = pending /\ port' = port
        BY <1>1, <1>12, <2>1, <2>2
      <4>5. IsReceive(Current(t), j)
        BY <1>3, <3>3
      <4> QED BY <1>1, <2>2, <4>2, <4>3, <4>4, <4>5, HolderKept DEF IInv
    <3> QED BY <3>2, <3>3
  <2> QED BY <1>1, <1>6, <1>7, <1>8, <2>2, <2>3, <2>4, <2>5, <2>6 DEF IInv
<1>13. CASE conn[i].m_IsConnected /\ Receives(k) /\ pending' = pending \cup {Op("recv", i, k)} /\ NextEntry(t)
  <2>1. k \in Socket /\ sock[k].slot = i
    BY <1>3, <1>4, <1>13, OwnSocket DEF Receives, k
  <2> QED BY <1>11, <1>13, <2>1 DEF Starts
<1> QED BY <1>12, <1>13 DEF BindRecv, i, k

\* ResetConnection makes the slot's next socket and listens on it.
LEMMA ResetConnectionKeeps ==
    ASSUME IInv, NEW t \in IOThread, ResetConnection(t)
    PROVE  IInv'
<1> DEFINE i == Current(t).slot
           k == CHOOSE free \in FreeSockets : TRUE
           listens == [peer |-> "none", slot |-> i]
<1>1. /\ io[t].pc \notin Resting /\ io[t].pc \in Handling /\ io[t].pc = "reset"
      /\ UNCHANGED <<port, main, cut>> /\ (m_IsRun' <=> m_IsRun) /\ (m_IsRun' => m_IsRun)
  BY DEF ResetConnection, Resting, Handling, m_IsRun
<1>2. Current(t).kind # "end" /\ (i \notin cut => ~io[t].again)
  BY <1>1 DEF IInv, Threads, ThreadKnows
<1>3. i \in Slot /\ io[t].batch # <<>> /\ Current(t) \in SoundOnes
  BY <1>1, <1>2, CurrentIs DEF IInv
<1>4. main # "crashed"
  BY <1>1, NotCrashed
<1>5. k \in Socket /\ sock[k].peer = "free" /\ sock[k].slot = None
  <2>1. k \in FreeSockets
    BY DEF ResetConnection
  <2> QED BY <2>1 DEF FreeSockets, IInv, Shapes
<1>6. BindAcceptEx(i, k)
  BY DEF ResetConnection
<1>7. IF io[t].again THEN Goto(t, "switch") ELSE NextEntry(t)
  BY DEF ResetConnection
<1>8. Starts(i, "accept", k)
  BY <1>5, <1>6 DEF Starts, BindAcceptEx
<1> HIDE DEF i, k, listens
<1>9. /\ conn' \in [Slot -> Connection] /\ \A j \in Slot : j # i => conn'[j] = conn[j]
      /\ conn'[i].m_TcpSocket = k /\ conn'[i].m_eOperation = "accept"
  <2>1. conn \in [Slot -> Connection]
    BY DEF IInv, Shapes
  <2>2. [conn[i] EXCEPT !.m_TcpSocket = k, !.m_IsConnected = FALSE, !.m_eOperation = "accept"] \in Connection
    BY <1>3, <1>5, <2>1 DEF Connection
  <2>3. conn' = [conn EXCEPT ![i] = [conn[i] EXCEPT !.m_TcpSocket = k, !.m_IsConnected = FALSE, !.m_eOperation = "accept"]]
    BY <1>3, <1>6, <2>1 DEF BindAcceptEx
  <2>4. /\ conn' \in [Slot -> Connection] /\ \A j \in Slot : j # i => conn'[j] = conn[j]
        /\ conn'[i] = [conn[i] EXCEPT !.m_TcpSocket = k, !.m_IsConnected = FALSE, !.m_eOperation = "accept"]
    BY <1>3, <2>1, <2>2, <2>3
  <2> QED BY <1>3, <2>1, <2>4 DEF Connection
<1>10. /\ sock' \in [Socket -> [peer : Peers, slot : Slot \cup {None}]]
       /\ sock'[k].slot = i /\ sock'[k].peer = "none"
       /\ \A s \in Socket : s # k => sock'[s] = sock[s]
  <2>1. sock' = [sock EXCEPT ![k] = listens]
    BY <1>6 DEF BindAcceptEx, listens
  <2>2. listens \in [peer : Peers, slot : Slot \cup {None}] /\ listens.slot = i /\ listens.peer = "none"
    BY <1>3 DEF listens, Peers
  <2> QED BY <1>5, <2>1, <2>2 DEF IInv, Shapes
<1>11. /\ IsFiniteSet(pending')
       /\ \A p \in pending' : p.kind \in {"accept", "recv", "send"} /\ p.slot \in Slot /\ p.sock \in Socket
       /\ \A p \in pending' : p \in pending \/ (p.slot = i /\ p.sock = k /\ p.kind # "send")
       /\ \A j : j # i => Started(j)' = Started(j)
       /\ \A j, p : p \in pending' /\ IsSend(p, j) => SendInFlight(j)
  BY <1>3, <1>8, StartsIs
<1>12. /\ io' \in [IOThread -> Thread] /\ \A u \in IOThread : u # t => io'[u] = io[u]
       /\ ThreadKnows(t)' /\ (io'[t].batch = io[t].batch \/ Pops(t))
  <2>1. CASE NextEntry(t)
    BY <1>3, <2>1, NextEntryIs, NextKnows DEF IInv
  <2>2. CASE Goto(t, "switch")
    <3>1. "switch" \in Pcs \ Resting
      BY DEF Pcs, Handling, Resting
    <3>2. /\ io' \in [IOThread -> Thread] /\ \A u \in IOThread : u # t => io'[u] = io[u]
          /\ io'[t].pc = "switch" /\ io'[t].batch = io[t].batch
      BY <2>2, <3>1, GotoIs DEF IInv
    <3>3. ThreadKnows(t)'
      BY <1>1, <1>2, <3>1, <3>2, GoesOn DEF Handling
    <3> QED BY <3>2, <3>3
  <2> QED BY <1>7, <2>1, <2>2
<1>13. Shapes'
  <2>1. \A s \in Socket : sock'[s].peer = "free" <=> sock'[s].slot = None
    BY <1>3, <1>10, Constants DEF IInv, Shapes
  <2> QED BY <1>1, <1>9, <1>10, <1>11, <1>12, <2>1 DEF IInv, Shapes
<1>14. Sockets'
  <2>1. \A p \in pending : p.sock # k /\ p.slot \in Slot /\ p.sock \in Socket /\ sock[p.sock].slot = p.slot
    BY <1>5, Constants DEF IInv, Shapes, Sockets
  <2>2. \A p \in pending' : sock'[p.sock].slot = p.slot
    BY <1>10, <1>11, <2>1
  <2>3. ASSUME NEW j \in Slot, conn'[j].m_TcpSocket # None
        PROVE  sock'[conn'[j].m_TcpSocket].slot = j
    <3>1. CASE j = i
      BY <1>9, <1>10, <3>1
    <3>2. CASE j # i
      <4>1. conn'[j] = conn[j]
        BY <1>9, <3>2
      <4>2. conn[j].m_TcpSocket \in Socket /\ sock[conn[j].m_TcpSocket].slot = j
        BY <1>4, <2>3, <4>1, OwnSocket
      <4>3. conn[j].m_TcpSocket # k
        BY <1>5, <4>2, Constants
      <4> QED BY <1>10, <4>1, <4>2, <4>3
    <3> QED BY <3>1, <3>2
  <2>4. ASSUME NEW j \in Slot \ cut, NEW s \in Socket, sock'[s].slot = j
        PROVE  conn'[j].m_TcpSocket = s
    <3>1. CASE s = k
      BY <1>9, <1>10, <2>4, <3>1
    <3>2. CASE s # k
      <4>1. conn[j].m_TcpSocket = s
        BY <1>10, <2>4, <3>2 DEF IInv, Sockets
      <4>2. j # i
        <5>1. j = i => conn[i].m_TcpSocket = None
          BY <1>1 DEF IInv, Threads, ThreadKnows, i
        <5> QED BY <4>1, <5>1, Constants
      <4> QED BY <1>9, <4>1, <4>2
    <3> QED BY <3>1, <3>2
  <2> QED BY <1>1, <2>2, <2>3, <2>4 DEF Sockets
<1>15. Crashed'
  BY <1>1, <1>4 DEF Crashed
<1>16. Threads'
  <2>1. \A j \in Slot : SocketKept(j) \/ (io[t].pc \in Handling /\ j = Current(t).slot)
    BY <1>1, <1>9 DEF SocketKept, i
  <2>2. cut \subseteq cut'
    BY <1>1
  <2> QED BY <1>12, <2>1, <2>2, OthersKnow
<1>17. BatchesShrink
  BY <1>12 DEF BatchesShrink
<1>18. NoneToldYet'
  BY <1>1, <1>17, StillNotTold DEF IInv, NoneToldYet
<1>19. ASSUME NEW j \in Slot \ cut
       PROVE  SlotInv(j)'
  <2>1. /\ Queued(j)' = Queued(j)
        /\ \A n \in DOMAIN port' : IsSend(port'[n], j) => SendInFlight(j)
    BY <1>1 DEF Queued, IsSend, SendInFlight
  <2>2. \A p \in pending' : IsSend(p, j) => SendInFlight(j)
    BY <1>11
  <2>3. CASE j # i
    BY <1>1, <1>9, <1>11, <1>12, <2>1, <2>2, <2>3, OtherSlot DEF i
  <2>4. CASE j = i
    <3>1. /\ IsOfReceive(Current(t)) /\ ~conn[j].m_IsConnected /\ ~io[t].again
      BY <1>1, <2>4 DEF IInv, Threads, ThreadKnows, i, Handling
    <3>2. SlotInv(j) /\ IsReceive(Current(t), j)
      BY <1>1, <2>4, <3>1, HandlesReceive DEF IInv, i
    <3>3. Pops(t)
      BY <1>3, <1>7, <3>1, NextKnows
    <3>4. SendInFlight(j)' => SendInFlight(j)
      BY <1>17, <2>1, <2>2, NoNewSends DEF IInv, BatchesShrink
    <3>5. IsReceive(Op("accept", i, k), j) /\ Op("accept", i, k).kind = conn'[j].m_eOperation
      BY <1>9, <2>4, OpIs DEF IsReceive
    <3>6. pending' = pending \cup {Op("accept", i, k)} /\ port' = port
      BY <1>1, <1>8 DEF Starts
    <3> QED BY <1>1, <1>12, <3>1, <3>2, <3>3, <3>4, <3>5, <3>6, NextStarted DEF IInv, SlotInv
  <2> QED BY <2>3, <2>4
<1> QED BY <1>1, <1>13, <1>14, <1>15, <1>16, <1>18, <1>19 DEF IInv

\* Closing a socket queues a completion for each operation on it.
LEMMA CloseSocketIs ==
    ASSUME IInv, NEW i \in Slot, NEW k, k = None \/ (k \in Socket /\ sock[k].slot = i), CloseSocket(k)
    PROVE  /\ pending' = pending \ CancelledBy(k) /\ CancelledBy(k) \subseteq pending
           /\ \A p \in CancelledBy(k) : p.slot = i /\ p.sock = k
           /\ \E new \in Seq(SoundOnes) :
                /\ port' = port \o new
                /\ \A n \in DOMAIN new : \E p \in CancelledBy(k) : new[n].kind = p.kind /\ new[n].slot = p.slot
           /\ \A s \in Socket : sock'[s] = IF s = k THEN NoSocket ELSE sock[s]
           /\ sock' \in [Socket -> [peer : Peers, slot : Slot \cup {None}]]
<1> DEFINE S == CancelledBy(k)
<1>1. PICK seq \in Orders(S) :
        /\ port' = port \o [n \in DOMAIN seq |-> Completion(seq[n].kind, seq[n].slot, 0, "cancelled")]
        /\ pending' = pending \ S
        /\ sock' = IF k = None THEN sock ELSE [sock EXCEPT ![k] = NoSocket]
  BY DEF CloseSocket
<1>2. S \subseteq pending /\ IsFiniteSet(pending)
      /\ \A p \in pending : p.kind \in {"accept", "recv", "send"} /\ p.slot \in Slot /\ p.sock \in Socket
  BY DEF CancelledBy, IInv, Shapes
<1>3. Cardinality(S) \in Nat
  BY <1>2, FS_Subset, FS_CardinalityType
<1>4. \A p \in S : p.slot = i /\ p.sock = k
  <2>1. \A p \in S : p.sock = k /\ p \in pending /\ p.sock \in Socket
    BY <1>2 DEF CancelledBy
  <2>2. \A p \in pending : sock[p.sock].slot = p.slot
    BY DEF IInv, Sockets
  <2> QED BY <2>1, <2>2, Constants
<1> HIDE DEF S
<1>5. seq \in [1 .. Cardinality(S) -> S]
  BY DEF Orders
<1> DEFINE new == [n \in DOMAIN seq |-> Completion(seq[n].kind, seq[n].slot, 0, "cancelled")]
<1>6. \A n \in 1 .. Cardinality(S) : seq[n] \in S /\ seq[n] \in pending
  BY <1>2, <1>5
<1>7. \A n \in 1 .. Cardinality(S) :
        /\ Completion(seq[n].kind, seq[n].slot, 0, "cancelled") \in SoundOnes
        /\ Completion(seq[n].kind, seq[n].slot, 0, "cancelled").kind = seq[n].kind
        /\ Completion(seq[n].kind, seq[n].slot, 0, "cancelled").slot = seq[n].slot
  BY <1>2, <1>6 DEF Completion, SoundOnes, Completions, Sound
<1>8. DOMAIN seq = 1 .. Cardinality(S)
  BY <1>5
<1>9. /\ new \in [1 .. Cardinality(S) -> SoundOnes]
      /\ \A n \in DOMAIN new : n \in 1 .. Cardinality(S) /\ new[n].kind = seq[n].kind /\ new[n].slot = seq[n].slot
  BY <1>7, <1>8
<1>10. new \in Seq(SoundOnes)
  <2>1. new \in [1 .. Cardinality(S) -> SoundOnes]
    BY <1>9
  <2> HIDE DEF new
  <2> QED BY <1>3, <2>1, SeqDef
<1>11. port' = port \o new
  BY <1>1
<1> HIDE DEF new
<1>12. \E x \in Seq(SoundOnes) :
         /\ port' = port \o x
         /\ \A n \in DOMAIN x : \E p \in S : x[n].kind = p.kind /\ x[n].slot = p.slot
  <2>1. \A n \in DOMAIN new : \E p \in S : new[n].kind = p.kind /\ new[n].slot = p.slot
    BY <1>6, <1>9
  <2> QED BY <1>10, <1>11, <2>1
<1>13. /\ \A s \in Socket : sock'[s] = IF s = k THEN NoSocket ELSE sock[s]
       /\ sock' \in [Socket -> [peer : Peers, slot : Slot \cup {None}]]
  <2>1. sock \in [Socket -> [peer : Peers, slot : Slot \cup {None}]]
    BY DEF IInv, Shapes
  <2>2. NoSocket \in [peer : Peers, slot : Slot \cup {None}]
    BY DEF NoSocket, Peers
  <2>3. CASE k = None
    BY <1>1, <2>1, <2>3, Constants
  <2>4. CASE k # None
    <3>1. sock' = [sock EXCEPT ![k] = NoSocket] /\ k \in Socket
      BY <1>1, <2>4
    <3> QED BY <2>1, <2>2, <3>1
  <2> QED BY <2>3, <2>4
<1> QED BY <1>1, <1>2, <1>4, <1>12, <1>13 DEF S

\* Close cancels what is pending on the slot's socket: nothing, unless the slot is cut.
LEMMA CloseKeeps ==
    ASSUME IInv, NEW t \in IOThread, Close(t)
    PROVE  IInv'
<1> DEFINE i == Current(t).slot
           k == conn[i].m_TcpSocket
<1>1. /\ io[t].pc \notin Resting /\ io[t].pc \in Handling /\ io[t].pc = "close"
      /\ main' = main /\ (m_IsRun' <=> m_IsRun) /\ (m_IsRun' => m_IsRun)
  BY DEF Close, Resting, Handling, m_IsRun
<1>2. Current(t).kind # "end" /\ (i \notin cut => ~io[t].again)
  BY <1>1 DEF IInv, Threads, ThreadKnows
<1>3. i \in Slot /\ io[t].batch # <<>> /\ Current(t) \in SoundOnes
  BY <1>1, <1>2, CurrentIs DEF IInv
<1>4. main # "crashed"
  BY <1>1, NotCrashed
<1>5. k = None \/ (k \in Socket /\ sock[k].slot = i)
  BY <1>3, <1>4, OwnSocket
<1>6. /\ conn' = [conn EXCEPT ![i].m_IsConnected = FALSE, ![i].m_TcpSocket = None]
      /\ CloseSocket(k)
      /\ cut' = IF SendInFlight(i) THEN cut \cup {i} ELSE cut
      /\ Goto(t, "reset")
  BY DEF Close
<1> HIDE DEF i, k
<1>7. /\ conn' \in [Slot -> Connection] /\ \A j \in Slot : j # i => conn'[j] = conn[j]
      /\ conn'[i].m_TcpSocket = None /\ ~conn'[i].m_IsConnected
      /\ conn'[i].m_eOperation = conn[i].m_eOperation
  <2>1. conn \in [Slot -> Connection]
    BY DEF IInv, Shapes
  <2>2. [conn[i] EXCEPT !.m_IsConnected = FALSE, !.m_TcpSocket = None] \in Connection
    BY <1>3, <2>1 DEF Connection
  <2>3. conn' = [conn EXCEPT ![i] = [conn[i] EXCEPT !.m_IsConnected = FALSE, !.m_TcpSocket = None]]
    BY <1>3, <1>6, <2>1
  <2>4. /\ conn' \in [Slot -> Connection] /\ \A j \in Slot : j # i => conn'[j] = conn[j]
        /\ conn'[i] = [conn[i] EXCEPT !.m_IsConnected = FALSE, !.m_TcpSocket = None]
    BY <1>3, <2>1, <2>2, <2>3
  <2> QED BY <1>3, <2>1, <2>4 DEF Connection
<1>8. cut \subseteq cut' /\ cut' \subseteq cut \cup {i} /\ cut' \subseteq Slot
  BY <1>3, <1>6 DEF IInv, Shapes
<1>9. /\ pending' = pending \ CancelledBy(k) /\ CancelledBy(k) \subseteq pending
      /\ \A p \in CancelledBy(k) : p.slot = i /\ p.sock = k
      /\ \A s \in Socket : sock'[s] = IF s = k THEN NoSocket ELSE sock[s]
      /\ sock' \in [Socket -> [peer : Peers, slot : Slot \cup {None}]]
  BY <1>3, <1>5, <1>6, CloseSocketIs
<1>10. PICK new \in Seq(SoundOnes) :
         /\ port' = port \o new
         /\ \A n \in DOMAIN new : \E p \in CancelledBy(k) : new[n].kind = p.kind /\ new[n].slot = p.slot
  BY <1>3, <1>5, <1>6, CloseSocketIs
<1>11. \A n \in DOMAIN new : new[n].slot = i /\ new[n].kind # "end"
  BY <1>9, <1>10 DEF IInv, Shapes
<1>12. /\ port' \in Seq(SoundOnes)
       /\ \A n \in DOMAIN port : n \in DOMAIN port' /\ port'[n] = port[n]
       /\ \A n \in DOMAIN port' \ DOMAIN port : n - Len(port) \in DOMAIN new /\ port'[n] = new[n - Len(port)]
  BY <1>10, PortGrows DEF IInv
<1>13. /\ io' \in [IOThread -> Thread] /\ \A u \in IOThread : u # t => io'[u] = io[u]
       /\ io'[t].pc = "reset" /\ io'[t].batch = io[t].batch /\ io'[t].again = io[t].again
  BY <1>6, GotoIs DEF IInv, Pcs, Handling
<1>14. i \notin cut' => IsOfReceive(Current(t)) /\ IsReceive(Current(t), i) /\ ~SendInFlight(i) /\ i \notin cut
  <2>1. SUFFICES ASSUME i \notin cut'
                 PROVE  IsOfReceive(Current(t)) /\ IsReceive(Current(t), i) /\ ~SendInFlight(i) /\ i \notin cut
    OBVIOUS
  <2>2. ~SendInFlight(i) /\ i \notin cut
    BY <1>6, <1>8, <2>1
  <2>3. Current(t).kind # "send"
    BY <1>1, <2>2, SendHandled DEF IInv, i
  <2>4. Current(t).kind \in {"accept", "recv"}
    BY <1>2, <1>3, <2>3 DEF SoundOnes, Completions
  <2> QED BY <2>2, <2>4 DEF IsOfReceive, IsReceive, i
<1>15. Shapes'
  <2>1. IsFiniteSet(pending') /\ pending' \subseteq pending
    BY <1>9, FS_Subset DEF IInv, Shapes
  <2>2. \A s \in Socket : sock'[s].peer = "free" <=> sock'[s].slot = None
    BY <1>9 DEF IInv, Shapes, NoSocket
  <2> QED BY <1>1, <1>7, <1>8, <1>9, <1>12, <1>13, <2>1, <2>2 DEF IInv, Shapes
<1>16. Sockets'
  <2>1. ASSUME NEW p \in pending'
        PROVE  sock'[p.sock].slot = p.slot
    <3>1. p \in pending /\ p.sock # k /\ p.sock \in Socket /\ sock[p.sock].slot = p.slot
      BY <1>9, <2>1 DEF CancelledBy, IInv, Shapes, Sockets
    <3> QED BY <1>9, <3>1
  <2>2. ASSUME NEW j \in Slot, conn'[j].m_TcpSocket # None
        PROVE  sock'[conn'[j].m_TcpSocket].slot = j
    <3>1. j # i /\ conn'[j] = conn[j]
      BY <1>7, <2>2
    <3>2. conn[j].m_TcpSocket \in Socket /\ sock[conn[j].m_TcpSocket].slot = j
      BY <1>4, <2>2, <3>1, OwnSocket
    <3>3. conn[j].m_TcpSocket # k
      BY <1>5, <3>1, <3>2, Constants
    <3> QED BY <1>9, <3>1, <3>2, <3>3
  <2>3. ASSUME NEW j \in Slot \ cut', NEW s \in Socket, sock'[s].slot = j
        PROVE  conn'[j].m_TcpSocket = s
    <3>1. s # k /\ sock[s].slot = j
      BY <1>9, <2>3, Constants DEF NoSocket
    <3>2. conn[j].m_TcpSocket = s
      BY <1>8, <2>3, <3>1 DEF IInv, Sockets
    <3>3. j # i
      BY <3>1, <3>2 DEF k
    <3> QED BY <1>7, <3>2, <3>3
  <2> QED BY <2>1, <2>2, <2>3 DEF Sockets
<1>17. Crashed'
  BY <1>1, <1>4 DEF Crashed
<1>18. Threads'
  <2>1. \A j \in Slot : SocketKept(j) \/ (io[t].pc \in Handling /\ j = Current(t).slot)
    BY <1>1, <1>7 DEF SocketKept, i
  <2>2. Current(t)' = Current(t)
    BY <1>13 DEF Current
  <2>3. ThreadKnows(t)'
    <3>1. io[t].batch # <<>> /\ Len(io[t].batch) <= MaxBatch
      BY <1>3 DEF IInv, Threads, ThreadKnows
    <3>2. Current(t).slot = i
      BY DEF i
    <3>3. i \notin cut' => ~io'[t].again
      BY <1>2, <1>13, <1>14
    <3> QED BY <1>2, <1>7, <1>13, <1>14, <2>2, <3>1, <3>2, <3>3 DEF ThreadKnows, Resting
  <2> QED BY <1>8, <1>13, <2>1, <2>3, OthersKnow
<1>19. BatchesShrink
  BY <1>13 DEF BatchesShrink
<1>20. NoneToldYet'
  <2>1. m_IsRun' => \A n \in DOMAIN port' : port'[n].kind # "end"
    BY <1>1, <1>11, <1>12 DEF IInv, NoneToldYet
  <2> QED BY <1>1, <1>19, <2>1, StillNotTold
<1>21. ASSUME NEW j \in Slot \ cut'
       PROVE  SlotInv(j)'
  <2>1. j \in Slot \ cut /\ SlotInv(j)
    BY <1>8 DEF IInv
  <2>2. /\ \A p \in pending' : IsSend(p, j) => SendInFlight(j)
        /\ \A p \in pending' : p \in pending
    BY <1>9 DEF IsSend, SendInFlight
  <2>3. CASE j # i
    <3>1. Started(j)' = Started(j)
      BY <1>9, <2>3 DEF Started, IsReceive
    <3>2. \A n \in DOMAIN new : ~IsReceive(new[n], j)
      BY <1>11, <2>3 DEF IsReceive
    <3>3. Queued(j)' = Queued(j) /\ \A n \in Queued(j) : port'[n] = port[n]
      BY <1>10, <3>2, OthersQueued DEF IInv
    <3>4. \A n \in DOMAIN port' : IsSend(port'[n], j) => SendInFlight(j)
      BY <1>11, <1>12, <2>3 DEF IsSend, SendInFlight
    <3> QED BY <1>1, <1>7, <1>13, <2>1, <2>2, <2>3, <3>1, <3>3, <3>4, OtherSlot DEF i
  <2>4. CASE j = i
    <3>1. /\ IsReceive(Current(t), j) /\ ~SendInFlight(j)
      BY <1>14, <2>4
    <3>2. Started(j) = {}
      BY <1>1, <2>1, <3>1, HolderIs DEF IInv, SlotInv
    <3>3. CancelledBy(k) = {}
      <4>1. SUFFICES ASSUME NEW p \in CancelledBy(k)
                     PROVE  FALSE
        OBVIOUS
      <4>2. p \in pending /\ p.slot = j /\ p.kind \in {"accept", "recv", "send"}
        BY <1>9, <2>4, <4>1 DEF IInv, Shapes
      <4>3. p.kind # "send"
        BY <3>1, <4>2 DEF SendInFlight
      <4> QED BY <3>2, <4>2, <4>3 DEF Started, IsReceive
    <3>4. pending' = pending /\ Started(j)' = Started(j)
      BY <1>9, <3>3 DEF Started
    <3>5. \A n \in DOMAIN new : ~IsReceive(new[n], j)
      BY <1>10, <3>3
    <3>6. Queued(j)' = Queued(j) /\ \A n \in Queued(j) : port'[n] = port[n]
      BY <1>10, <3>5, OthersQueued DEF IInv
    <3>7. \A n \in DOMAIN port' : IsSend(port'[n], j) => SendInFlight(j)
      BY <1>10, <1>12, <3>3 DEF IsSend, SendInFlight
    <3>8. SendInFlight(j)' => SendInFlight(j)
      BY <1>19, <2>2, <3>7, NoNewSends DEF IInv, BatchesShrink
    <3>9. BatchesKept(j)
      BY <1>13 DEF BatchesKept, Stays, Looking
    <3>10. Kept(j)
      BY <1>1, <1>7, <2>4, <3>1, <3>4, <3>6, <3>8, <3>9 DEF Kept
    <3> QED BY <2>1, <3>10, SlotKept DEF IInv
  <2> QED BY <2>3, <2>4
<1> QED BY <1>15, <1>16, <1>17, <1>18, <1>20, <1>21 DEF IInv

-----------------------------------------------------------------------------
(* The clients, the kernel, and the end of the server.                      *)

\* The kernel completes an operation of a slot.
LEMMA CompleteKeeps ==
    ASSUME IInv, NEW p \in pending, NEW bytes \in {0, 1}, NEW status \in {"ok", "reset"}, Complete(p, bytes, status),
           p.kind = "accept" => bytes = 0, bytes = 0 \/ status = "ok",
           UNCHANGED <<conn, io, main, cut>>,
           sock' \in [Socket -> [peer : Peers, slot : Slot \cup {None}]],
           \A k \in Socket : sock'[k].slot = sock[k].slot /\ (sock'[k].peer = "free" <=> sock[k].peer = "free")
    PROVE  IInv'
<1> DEFINE c == Completion(p.kind, p.slot, bytes, status)
<1>1. /\ IsFiniteSet(pending)
      /\ p.kind \in {"accept", "recv", "send"} /\ p.slot \in Slot /\ p.sock \in Socket
  BY DEF IInv, Shapes
<1>2. /\ c \in SoundOnes /\ c.kind = p.kind /\ c.slot = p.slot /\ Uncut(c) /\ c.kind # "end"
  BY <1>1 DEF Completion, SoundOnes, Completions, Sound, Uncut
<1>3. pending' = pending \ {p} /\ port' = Append(port, c)
  BY DEF Complete
<1> HIDE DEF c
<1>4. /\ port' \in Seq(SoundOnes)
      /\ Len(port) \in Nat /\ DOMAIN port = 1 .. Len(port)
      /\ DOMAIN port' = 1 .. Len(port) + 1
      /\ \A n \in DOMAIN port : port'[n] = port[n]
      /\ port'[Len(port) + 1] = c
  BY <1>2, <1>3, PortAppended DEF IInv
<1>5. \A n \in DOMAIN port' : n \in DOMAIN port \/ port'[n] = c
  BY <1>4
<1>6. Shapes'
  <2>1. IsFiniteSet(pending') /\ pending' \subseteq pending
    BY <1>1, <1>3, FS_Subset
  <2> QED BY <1>4, <2>1 DEF IInv, Shapes
<1>7. Sockets'
  <2>1. \A q \in pending' : q \in pending /\ q.sock \in Socket
    BY <1>3 DEF IInv, Shapes
  <2>2. main # "crashed"
    BY DEF IInv, Crashed
  <2>3. \A i \in Slot : conn[i].m_TcpSocket # None => conn[i].m_TcpSocket \in Socket
    BY <2>2, OwnSocket
  <2> QED BY <2>1, <2>3 DEF IInv, Sockets
<1>8. Crashed'
  BY DEF IInv, Crashed
<1>9. Threads'
  BY AllKnow DEF SocketKept
<1>10. BatchesShrink
  BY DEF BatchesShrink
<1>11. NoneToldYet'
  <2>1. m_IsRun' => m_IsRun
    BY DEF m_IsRun
  <2>2. m_IsRun' => \A n \in DOMAIN port' : port'[n].kind # "end"
    BY <1>2, <1>4, <1>5, <2>1 DEF IInv, NoneToldYet
  <2> QED BY <1>10, <2>1, <2>2, StillNotTold
<1>12. ASSUME NEW j \in Slot \ cut'
       PROVE  SlotInv(j)'
  <2>1. j \in Slot \ cut /\ SlotInv(j)
    BY DEF IInv
  <2>2. /\ \A q \in pending' : IsSend(q, j) => SendInFlight(j)
        /\ \A n \in DOMAIN port' : IsSend(port'[n], j) => SendInFlight(j)
    BY <1>2, <1>3, <1>5 DEF IsSend, SendInFlight
  <2>3. SendInFlight(j)' => SendInFlight(j)
    BY <1>10, <2>2, NoNewSends DEF IInv, BatchesShrink
  <2>4. CASE IsReceive(p, j)
    <3>1. p \in Started(j)
      BY <2>4 DEF Started
    <3> QED BY <1>2, <1>3, <2>1, <2>3, <3>1, ReceiveCompleted DEF IInv
  <2>5. CASE ~IsReceive(p, j)
    <3>1. Started(j)' = Started(j)
      BY <1>3, <2>5 DEF Started, IsReceive
    <3>2. ~IsReceive(c, j)
      BY <1>2, <2>5 DEF IsReceive
    <3>3. Queued(j)' = Queued(j)
      <4>1. Queued(j)' = {n \in DOMAIN port' : IsReceive(port'[n], j)}
        BY DEF Queued, IsReceive
      <4>2. DOMAIN port \subseteq DOMAIN port'
        BY <1>4
      <4> QED BY <1>4, <1>5, <3>2, <4>1, <4>2 DEF Queued
    <3>4. \A n \in Queued(j) : port'[n] = port[n]
      BY <1>4 DEF Queued
    <3>5. BatchesKept(j) /\ (m_IsRun' <=> m_IsRun)
      BY DEF BatchesKept, Stays, m_IsRun
    <3>6. Kept(j)
      BY <2>1, <2>3, <3>1, <3>3, <3>4, <3>5 DEF Kept, SlotInv
    <3> QED BY <2>1, <3>6, SlotKept DEF IInv
  <2> QED BY <2>4, <2>5
<1> QED BY <1>6, <1>7, <1>8, <1>9, <1>11, <1>12 DEF IInv

\* A client is there, or not, and the slot of the socket stays.
LEMMA PeerIs ==
    ASSUME IInv, NEW k \in Socket, sock[k].peer # "free", NEW peer \in Peers \ {"free"},
           sock' = [sock EXCEPT ![k].peer = peer]
    PROVE  /\ sock' \in [Socket -> [peer : Peers, slot : Slot \cup {None}]]
           /\ \A s \in Socket : sock'[s].slot = sock[s].slot /\ (sock'[s].peer = "free" <=> sock[s].peer = "free")
<1>1. sock \in [Socket -> [peer : Peers, slot : Slot \cup {None}]]
  BY DEF IInv, Shapes
<1>2. [sock[k] EXCEPT !.peer = peer] \in [peer : Peers, slot : Slot \cup {None}]
  BY <1>1
<1>3. /\ sock'[k] = [sock[k] EXCEPT !.peer = peer]
      /\ sock' \in [Socket -> [peer : Peers, slot : Slot \cup {None}]]
      /\ \A s \in Socket : s # k => sock'[s] = sock[s]
  BY <1>1, <1>2
<1>4. sock'[k].peer = peer /\ sock'[k].slot = sock[k].slot
  BY <1>1, <1>3
<1> QED BY <1>3, <1>4

\* A client is accepted, sends a request, or goes, and what was pending ends.
LEMMA KernelKeeps ==
    ASSUME IInv, NEW p \in pending, Connect(p) \/ RequestArrives(p) \/ Kernel(p)
    PROVE  IInv'
<1>1. p.sock \in Socket /\ p.slot \in Slot /\ sock[p.sock].slot = p.slot
  BY DEF IInv, Shapes, Sockets
<1>2. sock[p.sock].peer # "free"
  BY <1>1, Constants DEF IInv, Shapes
<1>3. sock \in [Socket -> [peer : Peers, slot : Slot \cup {None}]]
  BY DEF IInv, Shapes
<1>4. CASE Connect(p)
  <2>1. /\ sock' \in [Socket -> [peer : Peers, slot : Slot \cup {None}]]
        /\ \A s \in Socket : sock'[s].slot = sock[s].slot /\ (sock'[s].peer = "free" <=> sock[s].peer = "free")
    <3>1. CASE sock' = [sock EXCEPT ![p.sock].peer = "open"]
      <4>1. "open" \in Peers \ {"free"}
        BY DEF Peers
      <4> QED BY <1>1, <1>2, <3>1, <4>1, PeerIs
    <3>2. CASE sock' = sock
      BY <1>3, <3>2
    <3> QED BY <1>4, <3>1, <3>2 DEF Connect
  <2>2. Complete(p, 0, "ok") \/ Complete(p, 0, "reset")
    BY <1>4 DEF Connect
  <2>3. UNCHANGED <<conn, io, main, cut>>
    BY <1>4 DEF Connect
  <2> QED BY <2>1, <2>2, <2>3, CompleteKeeps
<1>5. CASE RequestArrives(p)
  BY <1>3, <1>5, CompleteKeeps DEF RequestArrives
<1>6. CASE RecvEnds(p)
  <2>1. Complete(p, 0, "ok") \/ Complete(p, 0, "reset")
    BY <1>6 DEF RecvEnds
  <2> QED BY <1>3, <1>6, <2>1, CompleteKeeps DEF RecvEnds
<1>7. CASE SendEnds(p)
  <2>1. Complete(p, 0, "reset") \/ Complete(p, 1, "ok")
    BY <1>7 DEF SendEnds
  <2> QED BY <1>3, <1>7, <2>1, CompleteKeeps DEF SendEnds
<1> QED BY <1>4, <1>5, <1>6, <1>7 DEF Kernel

\* The invariant does not depend on how a client goes, and after the end only on what
\* is queued.
LEMMA QuietKeeps ==
    ASSUME IInv, UNCHANGED <<conn, pending, io, cut>>, main # "crashed",
           main' = main \/ (main' \in {"joining", "ended"} /\ ~m_IsRun'),
           NEW new \in Seq(SoundOnes), port' = port \o new, \A n \in DOMAIN new : new[n].kind = "end",
           m_IsRun' => port' = port,
           sock' \in [Socket -> [peer : Peers, slot : Slot \cup {None}]],
           \A k \in Socket : sock'[k].slot = sock[k].slot /\ (sock'[k].peer = "free" <=> sock[k].peer = "free")
    PROVE  IInv'
<1>1. /\ port' \in Seq(SoundOnes)
      /\ \A n \in DOMAIN port : n \in DOMAIN port' /\ port'[n] = port[n]
      /\ \A n \in DOMAIN port' \ DOMAIN port : n - Len(port) \in DOMAIN new /\ port'[n] = new[n - Len(port)]
  BY PortGrows DEF IInv
<1>2. main' # "crashed" /\ (m_IsRun' => m_IsRun) /\ main' \in {"running", "joining", "ended", "crashed"}
  BY DEF m_IsRun, IInv, Shapes
<1>3. Shapes'
  BY <1>1, <1>2 DEF IInv, Shapes
<1>4. Sockets'
  <2>1. \A q \in pending : q.sock \in Socket
    BY DEF IInv, Shapes
  <2>2. \A i \in Slot : conn[i].m_TcpSocket # None =>
          conn[i].m_TcpSocket \in Socket /\ sock[conn[i].m_TcpSocket].slot = i
    BY OwnSocket
  <2>3. \A q \in pending' : sock'[q.sock].slot = q.slot
    BY <2>1 DEF IInv, Sockets
  <2>4. \A i \in Slot : conn'[i].m_TcpSocket # None => sock'[conn'[i].m_TcpSocket].slot = i
    BY <2>2
  <2>5. \A i \in Slot \ cut', k \in Socket : sock'[k].slot = i => conn'[i].m_TcpSocket = k
    BY DEF IInv, Sockets
  <2> QED BY <2>3, <2>4, <2>5 DEF Sockets
<1>5. Crashed'
  BY <1>2 DEF Crashed
<1>6. Threads'
  BY AllKnow DEF SocketKept
<1>7. BatchesShrink
  BY DEF BatchesShrink
<1>8. NoneToldYet'
  BY <1>2, <1>7, StillNotTold DEF IInv, NoneToldYet
<1>9. ASSUME NEW j \in Slot \ cut'
      PROVE  SlotInv(j)'
  <2>1. j \in Slot \ cut /\ SlotInv(j)
    BY DEF IInv
  <2>2. \A n \in DOMAIN new : ~IsReceive(new[n], j)
    BY DEF IsReceive
  <2>3. Queued(j)' = Queued(j) /\ \A n \in Queued(j) : port'[n] = port[n]
    BY <2>2, OthersQueued DEF IInv
  <2>4. /\ \A p \in pending' : IsSend(p, j) => SendInFlight(j)
        /\ \A n \in DOMAIN port' : IsSend(port'[n], j) => SendInFlight(j)
    BY <1>1 DEF IsSend, SendInFlight
  <2>5. SendInFlight(j)' => SendInFlight(j)
    BY <1>7, <2>4, NoNewSends DEF IInv, BatchesShrink
  <2>6. Started(j)' = Started(j) /\ BatchesKept(j)
    BY DEF Started, BatchesKept, Stays
  <2>7. Kept(j)
    BY <1>2, <2>1, <2>3, <2>5, <2>6 DEF Kept, SlotInv
  <2> QED BY <2>1, <2>7, SlotKept DEF IInv
<1> QED BY <1>3, <1>4, <1>5, <1>6, <1>8, <1>9 DEF IInv

\* Nothing is queued.
LEMMA NothingQueued ==
    ASSUME IInv, port' = port
    PROVE  /\ NoBatch \in Seq(SoundOnes) /\ port' = port \o NoBatch
           /\ \A n \in DOMAIN NoBatch : NoBatch[n].kind = "end"
<1>1. port \in Seq(SoundOnes)
  BY DEF IInv, Shapes
<1>2. port \o <<>> = port
  BY <1>1, ConcatEmptySeq
<1>3. <<>> \in Seq(SoundOnes) /\ DOMAIN <<>> = {}
  OBVIOUS
<1> QED BY <1>2, <1>3 DEF NoBatch

\* A client closes its end or resets the connection.
LEMMA PeerGoesKeeps ==
    ASSUME IInv, NEW k \in Socket, PeerGoes(k)
    PROVE  IInv'
<1>1. /\ UNCHANGED <<conn, pending, io, cut>> /\ main' = main /\ port' = port
      /\ sock[k].peer # "free"
  BY DEF PeerGoes
<1>2. main # "crashed"
  BY <1>1 DEF IInv, Crashed, NoSocket
<1>3. /\ sock' \in [Socket -> [peer : Peers, slot : Slot \cup {None}]]
      /\ \A s \in Socket : sock'[s].slot = sock[s].slot /\ (sock'[s].peer = "free" <=> sock[s].peer = "free")
  BY <1>1, PeerIs DEF PeerGoes, Peers
<1>4. NoBatch \in Seq(SoundOnes) /\ port' = port \o NoBatch /\ \A n \in DOMAIN NoBatch : NoBatch[n].kind = "end"
  BY <1>1, NothingQueued
<1> QED BY <1>1, <1>2, <1>3, <1>4, QuietKeeps

\* The threads are told to end, and have ended.
LEMMA EndKeeps ==
    ASSUME IInv, PostEndToWorkerThreads \/ DestroyWorkerThreads
    PROVE  IInv'
<1>1. /\ sock' \in [Socket -> [peer : Peers, slot : Slot \cup {None}]]
      /\ \A s \in Socket : sock'[s].slot = sock[s].slot /\ (sock'[s].peer = "free" <=> sock[s].peer = "free")
  BY DEF PostEndToWorkerThreads, DestroyWorkerThreads, IInv, Shapes
<1>2. CASE DestroyWorkerThreads
  <2>1. /\ UNCHANGED <<conn, pending, io, cut>> /\ main = "joining" /\ main' = "ended" /\ port' = port
        /\ ~m_IsRun'
    BY <1>2 DEF DestroyWorkerThreads, m_IsRun
  <2> QED BY <1>1, <2>1, NothingQueued, QuietKeeps
<1>3. CASE PostEndToWorkerThreads
  <2> DEFINE ends == [n \in 1 .. Cardinality(IOThread) |-> EndRequest]
  <2>1. /\ UNCHANGED <<conn, pending, io, cut>> /\ main = "running" /\ main' = "joining" /\ port' = port \o ends
        /\ ~m_IsRun'
    BY <1>3 DEF PostEndToWorkerThreads, m_IsRun
  <2>2. Cardinality(IOThread) \in Nat
    BY IOCPCoreAssumption, FS_CardinalityType
  <2>3. EndRequest \in SoundOnes /\ EndRequest.kind = "end"
    BY DEF EndRequest, Completion, SoundOnes, Completions, Sound
  <2>4. /\ ends \in [1 .. Cardinality(IOThread) -> SoundOnes]
        /\ \A n \in DOMAIN ends : ends[n].kind = "end"
    BY <2>3
  <2> HIDE DEF ends
  <2>5. ends \in Seq(SoundOnes)
    BY <2>2, <2>4, SeqDef
  <2> QED BY <1>1, <2>1, <2>4, <2>5, QuietKeeps
<1> QED BY <1>2, <1>3

-----------------------------------------------------------------------------
(* The invariant holds, and says what ReceiveInOnePlace says.               *)

\* Slots begin with sockets of their own.
LEMMA NumberedSlots ==
    /\ SlotNumber \in [Slot -> Socket]
    /\ \A i, j \in Slot : SlotNumber[i] = SlotNumber[j] => i = j
BY IOCPCoreAssumption DEF SlotNumber

\* Every slot begins with an accept.
LEMMA InitInvariant ==
    ASSUME Init
    PROVE  IInv
<1> DEFINE accept(i) == [kind |-> "accept", slot |-> i, sock |-> SlotNumber[i], n |-> 1]
           first(i) == [NewConnection EXCEPT !.m_TcpSocket = SlotNumber[i], !.m_eOperation = "accept"]
           listens(k) == [peer |-> "none", slot |-> CHOOSE i \in Slot : SlotNumber[i] = k]
<1>1. /\ conn = [i \in Slot |-> first(i)]
      /\ sock = [k \in Socket |-> IF \E i \in Slot : SlotNumber[i] = k THEN listens(k) ELSE NoSocket]
      /\ pending = {accept(i) : i \in Slot}
  BY DEF Init, CreateConnections
<1>2. /\ io = [t \in IOThread |-> Waiting] /\ port = NoBatch /\ main = "running" /\ cut = {}
  BY DEF Init, CreateWorkerThreads, NoBatch
<1>3. \A i \in Slot : accept(i).kind = "accept" /\ accept(i).slot = i /\ accept(i).sock = SlotNumber[i]
  OBVIOUS
<1>4. \A i \in Slot :
        /\ first(i) \in Connection
        /\ first(i).m_TcpSocket = SlotNumber[i] /\ first(i).m_eOperation = "accept"
  BY NumberedSlots DEF NewConnection, Connection
<1>5. \A k \in Socket : listens(k).peer = "none" /\ listens(k).slot = CHOOSE i \in Slot : SlotNumber[i] = k
  OBVIOUS
<1> HIDE DEF accept, first, listens
<1>6. \A i \in Slot : listens(SlotNumber[i]).slot = i
  <2> SUFFICES ASSUME NEW i \in Slot
               PROVE  (CHOOSE j \in Slot : SlotNumber[j] = SlotNumber[i]) = i
    BY <1>5, NumberedSlots
  <2> QED BY NumberedSlots
<1>7. \A k \in Socket :
        IF \E i \in Slot : SlotNumber[i] = k
        THEN sock[k].peer = "none" /\ sock[k].slot \in Slot /\ SlotNumber[sock[k].slot] = k /\ sock[k] = listens(k)
        ELSE sock[k].peer = "free" /\ sock[k].slot = None /\ sock[k] = NoSocket
  <2> SUFFICES ASSUME NEW k \in Socket
               PROVE  IF \E i \in Slot : SlotNumber[i] = k
                      THEN sock[k].peer = "none" /\ sock[k].slot \in Slot /\ SlotNumber[sock[k].slot] = k /\ sock[k] = listens(k)
                      ELSE sock[k].peer = "free" /\ sock[k].slot = None /\ sock[k] = NoSocket
    OBVIOUS
  <2>1. CASE \E i \in Slot : SlotNumber[i] = k
    BY <1>1, <1>5, <2>1
  <2>2. CASE ~(\E i \in Slot : SlotNumber[i] = k)
    BY <1>1, <2>2 DEF NoSocket
  <2> QED BY <2>1, <2>2
<1>8. \A i \in Slot : SlotNumber[i] \in Socket /\ sock[SlotNumber[i]].slot = i
  BY <1>6, <1>7, NumberedSlots
<1>9. IsFiniteSet(pending)
  <2> DEFINE f == [i \in Slot |-> accept(i)]
  <2>1. f \in Surjection(Slot, pending)
    BY <1>1 DEF Surjection
  <2> QED BY <2>1, IOCPCoreAssumption, FS_Surjection
<1>10. \A p \in pending : \E i \in Slot : p = accept(i) /\ p.kind = "accept" /\ p.slot = i /\ p.sock = SlotNumber[i]
  BY <1>1, <1>3
<1>11. /\ NoBatch = <<>> /\ NoBatch \in Seq(SoundOnes) /\ DOMAIN NoBatch = {} /\ Len(NoBatch) = 0
  BY DEF NoBatch
<1>12. \A t \in IOThread : io[t] \in Thread /\ io[t].pc = "wait" /\ io[t].batch = NoBatch
  <2>1. Waiting = [pc |-> "wait", batch |-> NoBatch, again |-> FALSE]
    BY DEF Waiting, NoBatch
  <2>2. Waiting \in Thread /\ Waiting.pc = "wait" /\ Waiting.batch = NoBatch
    BY <1>11, <2>1 DEF Thread, Pcs, Resting
  <2> QED BY <1>2, <2>2
<1>13. \A k \in Socket : sock[k] \in [peer : Peers, slot : Slot \cup {None}]
  <2>1. NoSocket \in [peer : Peers, slot : Slot \cup {None}]
    BY DEF NoSocket, Peers
  <2>2. \A k \in Socket : listens(k).slot \in Slot => listens(k) \in [peer : Peers, slot : Slot \cup {None}]
    BY DEF listens, Peers
  <2> QED BY <1>7, <2>1, <2>2
<1>14. Shapes
  <2>1. conn \in [Slot -> Connection]
    BY <1>1, <1>4
  <2>2. sock \in [Socket -> [peer : Peers, slot : Slot \cup {None}]]
    BY <1>1, <1>13
  <2>3. io \in [IOThread -> Thread]
    BY <1>2, <1>12
  <2>4. \A k \in Socket : sock[k].peer = "free" <=> sock[k].slot = None
    BY <1>7, Constants
  <2>5. \A p \in pending : p.kind \in {"accept", "recv", "send"} /\ p.slot \in Slot /\ p.sock \in Socket
    BY <1>8, <1>10
  <2> QED BY <1>2, <1>9, <1>11, <2>1, <2>2, <2>3, <2>4, <2>5 DEF Shapes
<1>15. Sockets
  <2>1. \A p \in pending : sock[p.sock].slot = p.slot
    BY <1>8, <1>10
  <2>2. \A i \in Slot : conn[i].m_TcpSocket = SlotNumber[i]
    BY <1>1, <1>4
  <2>3. \A i \in Slot, k \in Socket : sock[k].slot = i => conn[i].m_TcpSocket = k
    BY <1>7, <2>2, Constants
  <2> QED BY <1>8, <2>1, <2>2, <2>3 DEF Sockets
<1>16. Crashed
  BY <1>2 DEF Crashed
<1>17. Threads
  BY <1>11, <1>12, Constants DEF Threads, ThreadKnows, Resting, Handling
<1>18. NoneToldYet
  BY <1>2, <1>11, <1>12 DEF NoneToldYet
<1>19. ASSUME NEW i \in Slot
       PROVE  SlotInv(i)
  <2>1. Started(i) = {accept(i)} /\ conn[i].m_eOperation = "accept"
    BY <1>1, <1>3, <1>4 DEF Started, IsReceive
  <2>2. Queued(i) = {}
    BY <1>2, <1>11 DEF Queued
  <2>3. \A t \in IOThread : \A n \in 1 .. MaxBatch : ~TakenAt(t, n, i)
    BY <1>11, <1>12 DEF TakenAt
  <2>4. OnePlace(i)
    BY <2>1, <2>2, <2>3 DEF OnePlace, Held
  <2>5. Structure(i)
    BY <1>3, <2>1, <2>2, <2>3 DEF Structure, SaysWhat
  <2>6. ~SendInFlight(i)
    BY <1>2, <1>10, <1>11, <1>12 DEF SendInFlight
  <2> QED BY <2>4, <2>5, <2>6 DEF SlotInv
<1> QED BY <1>14, <1>15, <1>16, <1>17, <1>18, <1>19 DEF IInv

\* Every step keeps it.
LEMMA NextInvariant ==
    ASSUME IInv, [Next]_vars
    PROVE  IInv'
<1>1. CASE UNCHANGED vars
  <2>1. UNCHANGED <<conn, sock, pending, port, io, main, cut>>
    BY <1>1 DEF vars
  <2>2. Shapes' /\ Sockets' /\ Crashed' /\ NoneToldYet'
    BY <2>1 DEF IInv, Shapes, Sockets, Crashed, NoneToldYet, m_IsRun
  <2>3. Threads'
    BY <2>1, AllKnow DEF SocketKept
  <2>4. ASSUME NEW i \in Slot \ cut'
        PROVE  SlotInv(i)'
    <3>1. i \in Slot \ cut /\ SlotInv(i)
      BY <2>1, <2>4 DEF IInv
    <3>2. Started(i)' = Started(i) /\ Queued(i)' = Queued(i) /\ BatchesKept(i) /\ (m_IsRun' <=> m_IsRun)
      BY <2>1 DEF Started, Queued, BatchesKept, Stays, m_IsRun
    <3>3. SendInFlight(i)' => SendInFlight(i)
      BY <2>1 DEF SendInFlight
    <3>4. Kept(i)
      BY <2>1, <3>1, <3>2, <3>3 DEF Kept, SlotInv
    <3> QED BY <3>1, <3>4, SlotKept DEF IInv
  <2> QED BY <2>2, <2>3, <2>4 DEF IInv
<1>2. CASE PostEndToWorkerThreads \/ DestroyWorkerThreads
  BY <1>2, EndKeeps
<1>3. ASSUME NEW t \in IOThread, WorkerThread(t)
      PROVE  IInv'
  BY <1>3, TakeKeeps, TakeEndKeeps, DispatchErrorKeeps, DispatchKeeps, DoReceiveKeeps, DoTCPSendKeeps,
     BindIOCPKeeps, BindRecvKeeps, CloseKeeps, ResetConnectionKeeps DEF WorkerThread, DoDisconnect
<1>4. ASSUME NEW i \in Slot, SendMsgTCP(i)
      PROVE  IInv'
  BY <1>4, SendMsgTCPKeeps
<1>5. ASSUME NEW p \in pending, Connect(p) \/ RequestArrives(p) \/ Kernel(p)
      PROVE  IInv'
  BY <1>5, KernelKeeps
<1>6. ASSUME NEW k \in Socket, PeerGoes(k)
      PROVE  IInv'
  BY <1>6, PeerGoesKeeps
<1> QED BY <1>1, <1>2, <1>3, <1>4, <1>5, <1>6 DEF Next

\* In every state the token of each slot that was not cut is in one place, and every
\* thread knows of the slot it handles what it relies on.
THEOREM IInvHolds == Spec => []IInv
<1>1. Init => IInv
  BY InitInvariant
<1>2. IInv /\ [Next]_vars => IInv'
  BY NextInvariant
<1> QED BY <1>1, <1>2, PTL DEF Spec

\* A set whose elements are the same has at most one.
LEMMA AtMostOne ==
    ASSUME NEW S, \A x, y \in S : x = y
    PROVE  Cardinality(S) = IF S = {} THEN 0 ELSE 1
<1>1. CASE S = {}
  BY <1>1, FS_EmptySet
<1>2. CASE S # {}
  <2>1. PICK x \in S : TRUE
    BY <1>2
  <2>2. S = {x}
    BY <2>1
  <2> QED BY <2>2, FS_Singleton
<1> QED BY <1>1, <1>2

\* Counting the places of a slot's receive.
LEMMA OnePlaceCounted ==
    ASSUME NEW i \in Slot, OnePlace(i)
    PROVE  m_IsRun => Cardinality(Started(i)) + Cardinality(Queued(i)) + Cardinality(Taken(i)) = 1
<1>1. \A x \in IOThread \X (1 .. MaxBatch) : x \in Taken(i) <=> TakenAt(x[1], x[2], i)
  BY DEF Taken, TakenAt
<1>2. \A x \in Taken(i) : x \in IOThread \X (1 .. MaxBatch)
  BY DEF Taken
<1>3. \A x, y \in Taken(i) : x = y
  <2> SUFFICES ASSUME NEW x \in Taken(i), NEW y \in Taken(i)
               PROVE  x = y
    OBVIOUS
  <2>1. /\ x \in IOThread \X (1 .. MaxBatch) /\ y \in IOThread \X (1 .. MaxBatch)
        /\ TakenAt(x[1], x[2], i) /\ TakenAt(y[1], y[2], i)
    BY <1>1, <1>2
  <2>2. /\ x[1] \in IOThread /\ x[2] \in 1 .. MaxBatch /\ x = <<x[1], x[2]>>
        /\ y[1] \in IOThread /\ y[2] \in 1 .. MaxBatch /\ y = <<y[1], y[2]>>
    BY <2>1
  <2>3. x[1] = y[1] /\ x[2] = y[2]
    BY <2>1, <2>2 DEF OnePlace
  <2> QED BY <2>2, <2>3
<1>4. Taken(i) # {} <=> Held(i)
  <2>1. ASSUME NEW t \in IOThread, NEW n \in 1 .. MaxBatch, TakenAt(t, n, i)
        PROVE  Taken(i) # {}
    <3>1. <<t, n>> \in IOThread \X (1 .. MaxBatch) /\ <<t, n>>[1] = t /\ <<t, n>>[2] = n
      OBVIOUS
    <3> QED BY <1>1, <2>1, <3>1
  <2>2. ASSUME NEW x \in Taken(i)
        PROVE  Held(i)
    <3>1. x \in IOThread \X (1 .. MaxBatch) /\ TakenAt(x[1], x[2], i)
      BY <1>1, <1>2
    <3>2. x[1] \in IOThread /\ x[2] \in 1 .. MaxBatch
      BY <3>1
    <3> QED BY <3>1, <3>2 DEF Held
  <2> QED BY <2>1, <2>2 DEF Held
<1>5. /\ Cardinality(Started(i)) = IF Started(i) = {} THEN 0 ELSE 1
      /\ Cardinality(Queued(i)) = IF Queued(i) = {} THEN 0 ELSE 1
      /\ Cardinality(Taken(i)) = IF Taken(i) = {} THEN 0 ELSE 1
  BY <1>3, AtMostOne DEF OnePlace
<1> QED BY <1>4, <1>5 DEF OnePlace

\* The structure that a slot receives with is in one place, and says what it is used for,
\* in every state of a server with any number of slots, threads and clients; unless a
\* connection of the slot was closed while a send was under way.
THEOREM ReceiveInOnePlaceHolds == Spec => []ReceiveInOnePlace
<1>1. IInv => ReceiveInOnePlace
  <2> SUFFICES ASSUME IInv
               PROVE  ReceiveInOnePlace
    OBVIOUS
  <2>1. TypeOK
    <3>1. \A i \in Slot :
            /\ conn[i].m_TcpSocket \in Socket \cup {None}
            /\ conn[i].m_IsConnected \in BOOLEAN
            /\ conn[i].m_eOperation \in {"accept", "recv"}
      BY DEF IInv, Shapes, Connection
    <3>2. \A p \in pending : p.slot \in Slot /\ p.sock \in Socket /\ sock[p.sock].slot = p.slot
      BY DEF IInv, Shapes, Sockets
    <3>3. \A p \in pending : sock[p.sock].peer # "free"
      BY <3>2, Constants DEF IInv, Shapes
    <3> QED BY <3>1, <3>2, <3>3 DEF TypeOK, IInv, Shapes
  <2>2. ASSUME NEW i \in Slot \ cut
        PROVE  /\ m_IsRun => Cardinality(Started(i)) + Cardinality(Queued(i)) + Cardinality(Taken(i)) = 1
               /\ \A p \in Started(i) : p.kind = conn[i].m_eOperation /\ p.sock = conn[i].m_TcpSocket
               /\ \A n \in Queued(i) : port[n].kind = conn[i].m_eOperation
               /\ \A k \in Socket : sock[k].slot = i => conn[i].m_TcpSocket = k
    <3>1. SlotInv(i) /\ \A k \in Socket : sock[k].slot = i => conn[i].m_TcpSocket = k
      BY DEF IInv, Sockets
    <3>2. m_IsRun => Cardinality(Started(i)) + Cardinality(Queued(i)) + Cardinality(Taken(i)) = 1
      BY <3>1, OnePlaceCounted DEF SlotInv
    <3>3. \A p \in Started(i) : p.slot = i /\ p.sock \in Socket /\ sock[p.sock].slot = p.slot
      BY DEF Started, IsReceive, IInv, Shapes, Sockets
    <3>4. /\ \A p \in Started(i) : p.kind = conn[i].m_eOperation
          /\ \A n \in Queued(i) : port[n].kind = conn[i].m_eOperation
      BY <3>1 DEF SlotInv, Structure, SaysWhat
    <3> QED BY <3>1, <3>2, <3>3, <3>4
  <2> QED BY <2>1, <2>2 DEF ReceiveInOnePlace
<1> QED BY <1>1, IInvHolds, PTL
=============================================================================
