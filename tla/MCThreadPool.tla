---------------------------- MODULE MCThreadPool ----------------------------
(* ThreadPool with a few threads and tasks.                                 *)
EXTENDS ThreadPool, TLC

CONSTANTS p1, p2

OneProducer == {p1}
TwoProducers == {p1, p2}

\* Sizes passed to Resize, Stop being Resize(0).
Sizes == {0, 1, 2}
StartAndStop == {0, 2}
=============================================================================
