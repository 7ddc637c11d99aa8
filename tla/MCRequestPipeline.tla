------------------------ MODULE MCRequestPipeline ---------------------------
(* RequestPipeline with one client, two workers and a handful of requests.  *)
EXTENDS RequestPipeline, TLC

CONSTANTS c1, w1, w2

OneClient == {c1}
TwoWorkers == {w1, w2}

NoMalformed == {}
ThirdMalformed == {3}
=============================================================================
