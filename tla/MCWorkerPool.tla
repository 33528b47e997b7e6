---------------------------- MODULE MCWorkerPool ----------------------------
(* WorkerPool for TLC: two encoders whose tiles have two parts and one. *)
EXTENDS WorkerPool, TLC

CONSTANTS c1, c2

TwoCallers == {c1, c2}
TwoAndOne  == (c1 :> 2) @@ (c2 :> 1)
=============================================================================
