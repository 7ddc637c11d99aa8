------------------------------ MODULE MCFraming -----------------------------
(* Framing with lengths scaled down: a length field of one byte, a header of *)
(* three, a buffer of six, which a chunk may fill.                          *)
EXTENDS Framing

Good(n) == [length |-> n, msgSize |-> n, known |-> TRUE]
UnknownType(n) == [length |-> n, msgSize |-> n, known |-> FALSE]
TooShort == [length |-> 2, msgSize |-> 2, known |-> TRUE]

\* The first client sends a request, a message of an unknown type and a request,
\* the second two requests and a message without a complete header.
TwoClients ==
    << <<Good(3), UnknownType(3), Good(3)>>, <<Good(3), Good(4), TooShort>> >>

\* Single bytes, and as much as one receive takes.
Chunks == {1, 6}

\* Nothing, a length that fits, one that is too big.
SomeNumbers == {0, 4, 20}
=============================================================================
