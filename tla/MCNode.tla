------------------------------- MODULE MCNode -------------------------------
(***************************************************************************)
(* Node for TLC: an origin with all the work and a thief without work of   *)
(* its own, as in the cluster tests.  The work is a two-stage pipeline, or *)
(* two tasks.                                                              *)
(***************************************************************************)
EXTENDS Node

TwoNodes == {"origin", "thief"}
JustOrigin == {"origin"}
JustThief == {"thief"}
Nobody == {}

ChainTasks == {"decode", "infer"}
ChainRoots == {"decode"}
PairTasks == {"decode", "tile"}

PipelineStage == [x \in Tasks |-> IF x = "decode" /\ "infer" \in Tasks THEN "infer" ELSE NoTask]

AllFromOrigin == [x \in Tasks |-> "origin"]
OneWorkerEach == [n \in Nodes |-> 1]
AllHandled == [n \in Nodes |-> Tasks]
OnlyOriginHandles == [n \in Nodes |-> IF n = "origin" THEN Tasks ELSE {}]
=============================================================================
