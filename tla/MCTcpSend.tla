----------------------------- MODULE MCTcpSend ------------------------------
(* TcpSend with packets of a few bytes and segments of three.               *)
EXTENDS TcpSend, TLC

\* Packets that fit into a segment, alone and sometimes two together.
FiveSmall == <<1, 2, 3, 1, 2>>
TwoSmall == <<1, 2>>
=============================================================================
