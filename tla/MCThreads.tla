----------------------------- MODULE MCThreads -----------------------------
(* Instances of Threads. *)
EXTENDS Threads

CONSTANTS w1, w2, f1
OneWorker == {w1}
TwoWorkers == {w1, w2}
OneForeign == {f1}
=============================================================================
