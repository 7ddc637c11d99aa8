--------------------------- MODULE RequestService ---------------------------
(***************************************************************************)
(* What GameServer promises to one TCP connection, with its threads, its   *)
(* locks and its retry queue left out: the requests a connection delivers  *)
(* are served one at a time, in the order they arrived; each is executed   *)
(* exactly once and is answered after it was executed; the next request is *)
(* not looked at before the current one is answered.                       *)
(*                                                                         *)
(* The promise is the "retry queue" section of src/IOCP_TCP+UDP/README.md; *)
(* RequestPipeline is shown to implement it.                               *)
(***************************************************************************)
EXTENDS Naturals, Sequences

CONSTANTS
    Client,     \* connection slots
    Request,    \* what a connection can ask for
    MaxBurst    \* most requests one arrival completes, at least 1

VARIABLES
    inbox,      \* inbox[c]: requests of c that wait, oldest first
    current,    \* current[c]: the request in service (a sequence of at most one)
    executed,   \* executed[c]: requests whose work was done, in that order
    answered    \* answered[c]: requests answered, in that order

vars == <<inbox, current, executed, answered>>

Burst == UNION {[1 .. n -> Request] : n \in 1 .. MaxBurst}

Init ==
    /\ inbox = [c \in Client |-> <<>>]
    /\ current = [c \in Client |-> <<>>]
    /\ executed = [c \in Client |-> <<>>]
    /\ answered = [c \in Client |-> <<>>]

Arrive(c) ==
    /\ \E burst \in Burst : inbox' = [inbox EXCEPT ![c] = @ \o burst]
    /\ UNCHANGED <<current, executed, answered>>

Begin(c) ==
    /\ current[c] = <<>>
    /\ inbox[c] # <<>>
    /\ current' = [current EXCEPT ![c] = <<Head(inbox[c])>>]
    /\ inbox' = [inbox EXCEPT ![c] = Tail(@)]
    /\ UNCHANGED <<executed, answered>>

Execute(c) ==
    /\ current[c] # <<>>
    /\ Len(executed[c]) = Len(answered[c])
    /\ executed' = [executed EXCEPT ![c] = Append(@, Head(current[c]))]
    /\ UNCHANGED <<inbox, current, answered>>

Answer(c) ==
    /\ current[c] # <<>>
    /\ Len(executed[c]) = Len(answered[c]) + 1
    /\ answered' = [answered EXCEPT ![c] = Append(@, Head(current[c]))]
    /\ current' = [current EXCEPT ![c] = <<>>]
    /\ UNCHANGED <<inbox, executed>>

Next == \E c \in Client : Arrive(c) \/ Begin(c) \/ Execute(c) \/ Answer(c)

Spec == Init /\ [][Next]_vars
=============================================================================
