------------------------- MODULE WorkStealingDeque -------------------------
(***************************************************************************)
(* What a worker's deque promises the runtime, with no indices, buffers or *)
(* races: a sequence of tasks that its owner extends and shortens at one   *)
(* end (LIFO) and that any other thread shortens at the other end (FIFO).  *)
(* Every operation is one indivisible step, and a task that leaves the     *)
(* deque is handed to exactly one caller.  An operation that returns false *)
(* changes nothing and is a stuttering step here.                          *)
(***************************************************************************)
EXTENDS Naturals, Sequences

CONSTANT Tasks

VARIABLES
  queue,   \* the tasks in the deque, oldest first
  taken    \* how many callers were handed each task

dequeVars == <<queue, taken>>

HandOver(x) == taken' = [taken EXCEPT ![x] = @ + 1]

DequeInit ==
  /\ queue = <<>>
  /\ taken = [x \in Tasks |-> 0]

Push ==
  \E x \in Tasks :
    /\ taken[x] = 0
    /\ \A i \in 1 .. Len(queue) : queue[i] # x
    /\ queue' = Append(queue, x)
    /\ UNCHANGED taken

Pop ==
  /\ queue # <<>>
  /\ HandOver(queue[Len(queue)])
  /\ queue' = SubSeq(queue, 1, Len(queue) - 1)

Steal ==
  /\ queue # <<>>
  /\ HandOver(queue[1])
  /\ queue' = Tail(queue)

DequeNext == Push \/ Pop \/ Steal

DequeSpec == DequeInit /\ [][DequeNext]_dequeVars
=============================================================================
