-------------------------- MODULE MCInferenceServer --------------------------
(***************************************************************************)
(* InferenceServer for TLC: two connections, each for any request, and two *)
(* threads that observe stages, a worker and a serve thread or two workers.*)
(***************************************************************************)
EXTENDS InferenceServer
=============================================================================
