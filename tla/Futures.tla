------------------------------ MODULE Futures -------------------------------
(***************************************************************************)
(* Fork-join with futures (include/Futures/Future.hpp, Runtime::spawn) on  *)
(* workers and a client that help while they wait: a thread whose get()    *)
(* finds the future unresolved runs another task on top of its stack       *)
(* (Runtime::try_execute_one), which may spawn and wait in its turn.       *)
(*                                                                         *)
(* A task is the program its closure runs: a sequence of calls of spawn,   *)
(* get and then.  Its result is 1 plus the results it got.  Counters and   *)
(* the order in which foreign queues are tried are module Runtime's; a     *)
(* steal that fails is a step not taken.                                   *)
(***************************************************************************)
EXTENDS Integers, Sequences, FiniteSets

CONSTANTS
  Workers,
  Client,   \* the thread that runs Main
  Tasks,    \* every task but Main has a future
  Main,
  Prog      \* Prog[x]: the calls of x, each [call, of]

Threads == Workers \cup {Client}
Spawned == Tasks \ {Main}
Calls == [call : {"spawn", "get", "then"}, of : Spawned]

Makes(x, call, y) == \E i \in DOMAIN Prog[x] : Prog[x][i] = [call |-> call, of |-> y]
ThenCalls == {k \in UNION {{x} \X DOMAIN Prog[x] : x \in Tasks} : Prog[k[1]][k[2]].call = "then"}
Children(x) == {y \in Spawned : Makes(x, "spawn", y)}

(* The tasks at or below x: those every set has that has x and, with each  *)
(* task, its children.                                                     *)
Closed(S) == \A x \in S : Children(x) \subseteq S
Descendants ==
  [x \in Tasks |-> {z \in Tasks : \A S \in SUBSET Tasks : x \in S /\ Closed(S) => z \in S}]

(* The tasks fork and join as a tree under Main: one parent each, which    *)
(* waits for it.                                                           *)
ASSUME FuturesAssumption ==
  /\ Client \notin Workers /\ Main \in Tasks /\ IsFiniteSet(Tasks)
  /\ Prog \in [Tasks -> Seq(Calls)]
  /\ Descendants[Main] = Tasks
  /\ \A y \in Spawned :
       \E x \in Tasks : \E i, j \in DOMAIN Prog[x] :
         /\ i < j
         /\ Prog[x][i] = [call |-> "spawn", of |-> y]
         /\ Prog[x][j] = [call |-> "get", of |-> y]
         /\ \A z \in Tasks : \A k \in DOMAIN Prog[z] : Prog[z][k].of = y =>
              z = x /\ (k \in {i, j} \/ (Prog[z][k].call = "then" /\ k > i))

VARIABLES
  stack,      \* per thread: the tasks it is in, the running one last
  deque,      \* each worker's deque, bottom last
  injection,  \* the tasks in the injection queues
  ready,      \* ready_ of each future
  value,      \* value_ of each future
  conts,      \* continuations_ of each future: the calls of then, <<task, index>>
  ran,        \* history: how often each continuation ran
  done        \* history: the tasks counted as completed, with repetition

vars == <<stack, deque, injection, ready, value, conts, ran, done>>

(* A task on a stack: its next call, what it got so far, whether its get() *)
(* last found the future unresolved, the continuations it must run before  *)
(* it goes on, and whether it has set its future.                          *)
Frame(x) == [task |-> x, pc |-> 1, got |-> 0, missed |-> FALSE, run |-> {}, set |-> FALSE]

Init ==
  /\ stack = [t \in Threads |-> IF t = Client THEN <<Frame(Main)>> ELSE <<>>]
  /\ deque = [w \in Workers |-> <<>>]
  /\ injection = {}
  /\ ready = [x \in Spawned |-> FALSE]
  /\ value = [x \in Spawned |-> 0]
  /\ conts = [x \in Spawned |-> {}]
  /\ ran = [k \in ThenCalls |-> 0]
  /\ done = [x \in Tasks |-> 0]

Top(t) == stack[t][Len(stack[t])]
Below(t) == SubSeq(stack[t], 1, Len(stack[t]) - 1)
Running(t) == stack[t] # <<>> /\ Top(t).run = {}

AtCall(t, call) ==
  Running(t) /\ Top(t).pc <= Len(Prog[Top(t).task]) /\ Prog[Top(t).task][Top(t).pc].call = call
Arg(t) == Prog[Top(t).task][Top(t).pc].of
Advance(t, f) == stack' = [stack EXCEPT ![t] = Below(t) \o <<[f EXCEPT !.pc = @ + 1]>>]

----------------------------------------------------------------------------
(* spawn: the task goes to the caller's deque, or from the client to an    *)
(* injection queue.                                                        *)
Spawn(t) ==
  /\ AtCall(t, "spawn")
  /\ IF t = Client
     THEN injection' = injection \cup {Arg(t)} /\ UNCHANGED deque
     ELSE deque' = [deque EXCEPT ![t] = Append(@, Arg(t))] /\ UNCHANGED injection
  /\ Advance(t, Top(t))
  /\ UNCHANGED <<ready, value, conts, ran, done>>

(* Faulty variant: get does not look at ready_.                            *)
GetReturn_Early(t) ==
  /\ AtCall(t, "get")
  /\ Advance(t, [Top(t) EXCEPT !.got = @ + value[Arg(t)]])
  /\ UNCHANGED <<deque, injection, ready, value, conts, ran, done>>

GetReturn(t) ==
  /\ AtCall(t, "get") /\ ~Top(t).missed /\ ready[Arg(t)]
  /\ Advance(t, [Top(t) EXCEPT !.got = @ + value[Arg(t)]])
  /\ UNCHANGED <<deque, injection, ready, value, conts, ran, done>>

(* get finds the future unresolved and will help, resolved or not by then. *)
GetMiss(t) ==
  /\ AtCall(t, "get") /\ ~Top(t).missed /\ ~ready[Arg(t)]
  /\ stack' = [stack EXCEPT ![t] = Below(t) \o <<[Top(t) EXCEPT !.missed = TRUE]>>]
  /\ UNCHANGED <<deque, injection, ready, value, conts, ran, done>>

(* Faulty variant: then registers with the caller's own future.            *)
Then_OwnFuture(t) ==
  /\ AtCall(t, "then")
  /\ conts' = [x \in Spawned |-> conts[x] \cup IF x = Top(t).task THEN {<<x, Top(t).pc>>} ELSE {}]
  /\ Advance(t, Top(t))
  /\ UNCHANGED <<deque, injection, ready, value, ran, done>>

(* Faulty variant: a continuation is queued even if it is too late.        *)
Then_AlwaysQueued(t) ==
  /\ AtCall(t, "then")
  /\ conts' = [conts EXCEPT ![Arg(t)] = @ \cup {<<Top(t).task, Top(t).pc>>}]
  /\ Advance(t, Top(t))
  /\ UNCHANGED <<deque, injection, ready, value, ran, done>>

(* then: test ready_ and register in one critical section; if the future   *)
(* is resolved already, run the continuation here.                         *)
Then(t) ==
  LET k == <<Top(t).task, Top(t).pc>> IN
  /\ AtCall(t, "then")
  /\ IF ready[Arg(t)]
     THEN Advance(t, [Top(t) EXCEPT !.run = {k}]) /\ UNCHANGED conts
     ELSE Advance(t, Top(t)) /\ conts' = [conts EXCEPT ![Arg(t)] = @ \cup {k}]
  /\ UNCHANGED <<deque, injection, ready, value, ran, done>>

(* set, at the end of the closure: value, flag and continuations in one    *)
(* critical section ...                                                    *)
Set(t) ==
  LET x == Top(t).task IN
  /\ Running(t) /\ Top(t).pc > Len(Prog[x]) /\ x # Main /\ ~Top(t).set
  /\ value' = [value EXCEPT ![x] = Top(t).got + 1]
  /\ ready' = [ready EXCEPT ![x] = TRUE]
  /\ conts' = [conts EXCEPT ![x] = {}]
  /\ stack' = [stack EXCEPT ![t] = Below(t) \o <<[Top(t) EXCEPT !.run = conts[x], !.set = TRUE]>>]
  /\ UNCHANGED <<deque, injection, ran, done>>

(* ... and then each continuation outside it.                              *)
RunContinuation(t) ==
  /\ stack[t] # <<>>
  /\ \E k \in Top(t).run :
       /\ ran' = [ran EXCEPT ![k] = @ + 1]
       /\ stack' = [stack EXCEPT ![t] = Below(t) \o <<[Top(t) EXCEPT !.run = @ \ {k}]>>]
  /\ UNCHANGED <<deque, injection, ready, value, conts, done>>

(* The task returns to whoever ran it: the worker's loop or a helper.      *)
Return(t) ==
  /\ Running(t) /\ Top(t).pc > Len(Prog[Top(t).task]) /\ (Top(t).set \/ Top(t).task = Main)
  /\ done' = [done EXCEPT ![Top(t).task] = @ + 1]
  /\ stack' = [stack EXCEPT ![t] = Below(t)]
  /\ UNCHANGED <<deque, injection, ready, value, conts, ran>>

----------------------------------------------------------------------------
(* Finding a task: pop the own deque, else take the oldest of an injection *)
(* queue or steal the oldest of another deque.                             *)

Own(t) == IF t \in Workers THEN deque[t] ELSE <<>>

(* The task runs on top of the stack; a helper will look at ready_ again.  *)
Call(t, x) ==
  stack' = [stack EXCEPT ![t] =
              Append(IF @ = <<>> THEN @ ELSE [@ EXCEPT ![Len(@)].missed = FALSE], Frame(x))]

PopOwn(t) ==
  /\ Own(t) # <<>>
  /\ Call(t, Own(t)[Len(Own(t))])
  /\ deque' = [deque EXCEPT ![t] = SubSeq(@, 1, Len(@) - 1)]
  /\ UNCHANGED injection

PopInjection(t) ==
  /\ Own(t) = <<>>
  /\ \E x \in injection : Call(t, x) /\ injection' = injection \ {x}
  /\ UNCHANGED deque

(* Faulty variant: the stolen task stays where it was.                     *)
Steal_NotRemoved(t, w) ==
  /\ Own(t) = <<>> /\ t # w /\ deque[w] # <<>>
  /\ Call(t, Head(deque[w]))
  /\ UNCHANGED <<deque, injection>>

Steal(t, w) ==
  /\ Own(t) = <<>> /\ t # w /\ deque[w] # <<>>
  /\ Call(t, Head(deque[w]))
  /\ deque' = [deque EXCEPT ![w] = Tail(@)]
  /\ UNCHANGED injection

(* Faulty variant: only a thread with an empty stack takes tasks.          *)
Available_NoHelp(t) == t \in Workers /\ stack[t] = <<>>

(* A worker in its loop, or a thread in get() that found the future        *)
(* unresolved.                                                             *)
Available(t) ==
  \/ t \in Workers /\ stack[t] = <<>>
  \/ AtCall(t, "get") /\ Top(t).missed

Take(t) ==
  /\ Available(t)
  /\ PopOwn(t) \/ PopInjection(t) \/ \E w \in Workers : Steal(t, w)
  /\ UNCHANGED <<ready, value, conts, ran, done>>

(* get() found nothing to help with: it yields and looks at ready_ again.  *)
HelpMiss(t) ==
  /\ AtCall(t, "get") /\ Top(t).missed
  /\ Own(t) = <<>> /\ injection = {} /\ \A w \in Workers \ {t} : deque[w] = <<>>
  /\ stack' = [stack EXCEPT ![t] = Below(t) \o <<[Top(t) EXCEPT !.missed = FALSE]>>]
  /\ UNCHANGED <<deque, injection, ready, value, conts, ran, done>>

----------------------------------------------------------------------------
Step(t) ==
  \/ Spawn(t) \/ GetReturn(t) \/ GetMiss(t) \/ HelpMiss(t) \/ Then(t)
  \/ Set(t) \/ RunContinuation(t) \/ Return(t) \/ Take(t)

AllReturned == \A t \in Threads : stack[t] = <<>>
Terminated == AllReturned /\ UNCHANGED vars

Next == (\E t \in Threads : Step(t)) \/ Terminated

(* The scheduler lets every thread run on.                                 *)
Spec == Init /\ [][Next]_vars /\ \A t \in Threads : WF_vars(Step(t))

----------------------------------------------------------------------------
TypeOK ==
  /\ \A t \in Threads : \A i \in 1 .. Len(stack[t]) :
       /\ stack[t][i].task \in Tasks
       /\ stack[t][i].pc \in 1 .. Len(Prog[stack[t][i].task]) + 1
  /\ deque \in [Workers -> Seq(Spawned)] /\ injection \subseteq Spawned
  /\ ready \in [Spawned -> BOOLEAN] /\ value \in [Spawned -> Nat]
  /\ \A x \in Spawned : \A k \in conts[x] : Makes(k[1], "then", x)

(***************************************************************************)
(* A future resolves to the result of its task, to which every task below  *)
(* it has contributed once: nobody reads a value before it is there,       *)
(* however the tasks are spread over the stacks of waiting threads.        *)
(***************************************************************************)
ResultsAreRight ==
  \A x \in Spawned : ready[x] => value[x] = Cardinality(Descendants[x])

(* Task x is past its i-th call.                                           *)
Passed(x, i) ==
  \/ done[x] # 0
  \/ \E t \in Threads : \E j \in 1 .. Len(stack[t]) : stack[t][j].task = x /\ stack[t][j].pc > i

(* The future a call of then names; a continuation that is to run next.    *)
Of(k) == Prog[k[1]][k[2]].of
Due(k) == \E t \in Threads : \E i \in 1 .. Len(stack[t]) : k \in stack[t][i].run

(***************************************************************************)
(* No continuation is lost or run twice, on whichever side of the race     *)
(* between set and then it falls: once then has been called, and not       *)
(* before, it waits for an unresolved future, or is due on some stack, or  *)
(* has run once, one of the three; and it is due only when the future is   *)
(* resolved.                                                               *)
(***************************************************************************)
ContinuationsOnce ==
  \A k \in ThenCalls :
    LET waits == k \in conts[Of(k)] IN
    /\ Passed(k[1], k[2]) <=> waits \/ Due(k) \/ ran[k] = 1
    /\ ran[k] <= 1 /\ ~(waits /\ (Due(k) \/ ran[k] = 1)) /\ ~(Due(k) /\ ran[k] = 1)
    /\ waits <=> Passed(k[1], k[2]) /\ ~ready[Of(k)]

(* No task is run twice, by two helpers or by a helper and a worker.       *)
RunOnce ==
  \A x \in Tasks :
    done[x] + Cardinality({p \in Threads \X (1 .. Cardinality(Tasks)) :
                             p[2] \in 1 .. Len(stack[p[1]]) /\ stack[p[1]][p[2]].task = x}) <= 1

(***************************************************************************)
(* Nobody waits for ever, although a joined task may be buried under the   *)
(* task its thread is helping with: every task that was spawned completes, *)
(* with its continuations, and every get() returns.                        *)
(***************************************************************************)
EverythingJoins ==
  <>[](AllReturned /\ (\A x \in Tasks : done[x] = 1) /\ \A k \in ThenCalls : ran[k] = 1)
=============================================================================
