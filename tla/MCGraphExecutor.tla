-------------------------- MODULE MCGraphExecutor --------------------------
(* One weight update meets two forwards on a device that may be full.      *)
EXTENDS GraphExecutor

OneUpdate == {[updates |-> 1, cancels |-> 0, releases |-> 0]}
=============================================================================
