----------------------------- MODULE MCRuntime -----------------------------
(***************************************************************************)
(* Runtime for TLC.  The full workload is a closure that spawns another    *)
(* and a portable task whose completion submits a portable stage of        *)
(* another type; the small one, for liveness, is one task that does both.  *)
(***************************************************************************)
EXTENDS Runtime

FullTasks == {"root", "child", "decode", "infer"}
FullRoots == {"root", "decode"}
FullSpawns == [x \in FullTasks |-> IF x = "root" THEN {"child"} ELSE {}]
FullStage == [x \in FullTasks |-> IF x = "decode" THEN "infer" ELSE NoTask]
FullTypeOf == [x \in FullTasks |-> CASE x = "decode" -> 1 [] x = "infer" -> 2 [] OTHER -> 0]

SmallTasks == {"root", "child", "infer"}
SmallRoots == {"root"}
SmallSpawns == [x \in SmallTasks |-> IF x = "root" THEN {"child"} ELSE {}]
SmallStage == [x \in SmallTasks |-> IF x = "root" THEN "infer" ELSE NoTask]
SmallTypeOf == [x \in SmallTasks |-> IF x = "infer" THEN 1 ELSE 0]
=============================================================================
