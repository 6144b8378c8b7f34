----------------------------- MODULE MCFutures ------------------------------
(***************************************************************************)
(* Futures for TLC: a client, two workers, and a tree three levels deep in *)
(* which two tasks wait and join in different orders.                      *)
(***************************************************************************)
EXTENDS Futures

SpawnOf(y) == [call |-> "spawn", of |-> y]
GetOf(y) == [call |-> "get", of |-> y]
ThenOf(y) == [call |-> "then", of |-> y]

TreeTasks == {"main", "a", "b", "c", "d", "e", "f"}
TreeProg ==
  [x \in TreeTasks |->
     CASE x = "main" -> <<SpawnOf("a"), SpawnOf("f"), ThenOf("a"), GetOf("a"), GetOf("f")>>
       [] x = "a" -> <<SpawnOf("b"), SpawnOf("c"), GetOf("b"), GetOf("c")>>
       [] x = "b" -> <<SpawnOf("d"), ThenOf("d"), GetOf("d")>>
       [] x = "c" -> <<SpawnOf("e"), GetOf("e")>>
       [] OTHER -> <<>>]
=============================================================================
