----------------------------- MODULE MCCsServer -----------------------------
(* CsServer with two indices and two connections.                           *)
EXTENDS CsServer

\* The first client only connects, the second sends two requests.
NoneAndTwo == <<0, 2>>
JustOne == <<1>>
=============================================================================
