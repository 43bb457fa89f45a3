------------------------- MODULE MCInferenceService -------------------------
(* The inference service with one request id, for what must come back.     *)
EXTENDS InferenceService

(* infer and stop return, also when requests slip in while stop runs.      *)
ServiceReturns == InferReturns /\ StopReturns
=============================================================================
