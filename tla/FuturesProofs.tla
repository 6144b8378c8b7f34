--------------------------- MODULE FuturesProofs ---------------------------
(***************************************************************************)
(* Proofs about fork-join with futures, for every number of workers and    *)
(* every tree of tasks: no task is run twice, no continuation is lost or   *)
(* run twice, and futures resolve to the right results, however the tasks  *)
(* are spread over the stacks of threads that help while they wait.        *)
(***************************************************************************)
EXTENDS Futures, FiniteSetTheorems, SequenceTheorems, TLAPS

----------------------------------------------------------------------------
(* The inductive invariant, part by part.                                  *)

FrameSet == [task : Tasks, pc : Nat \ {0}, got : Nat, missed : BOOLEAN,
             run : SUBSET ThenCalls, set : BOOLEAN]

TypeInv ==
  /\ stack \in [Threads -> Seq(FrameSet)]
  /\ \A t \in Threads : \A i \in 1 .. Len(stack[t]) :
       stack[t][i].pc <= Len(Prog[stack[t][i].task]) + 1
  /\ deque \in [Workers -> Seq(Spawned)] /\ injection \subseteq Spawned
  /\ ready \in [Spawned -> BOOLEAN] /\ value \in [Spawned -> Nat]
  /\ conts \in [Spawned -> SUBSET ThenCalls]
  /\ ran \in [ThenCalls -> Nat] /\ done \in [Tasks -> Nat]

(* Where a task can be once it was spawned.                                *)
OnStack(x) == \E t \in Threads : \E i \in 1 .. Len(stack[t]) : stack[t][i].task = x
Queued(x) == \E w \in Workers : \E i \in 1 .. Len(deque[w]) : deque[w][i] = x
Held(x) == done[x] # 0 \/ OnStack(x) \/ Queued(x) \/ x \in injection

(* No two frames are of the same task, no two slots hold the same task.    *)
FramesInv ==
  \A t, u \in Threads : \A i \in 1 .. Len(stack[t]), j \in 1 .. Len(stack[u]) :
    stack[t][i].task = stack[u][j].task => t = u /\ i = j

SlotsInv ==
  \A v, w \in Workers : \A i \in 1 .. Len(deque[v]), j \in 1 .. Len(deque[w]) :
    deque[v][i] = deque[w][j] => v = w /\ i = j

(* A task is in one of the four places at most.                            *)
HeldInv ==
  \A x \in Tasks :
    /\ done[x] <= 1
    /\ ~(done[x] # 0 /\ (OnStack(x) \/ Queued(x) \/ x \in injection))
    /\ ~(OnStack(x) /\ (Queued(x) \/ x \in injection))
    /\ ~(Queued(x) /\ x \in injection)

(* A task exists only after the call that spawns it.                       *)
SpawnInv ==
  \A x \in Tasks : \A i \in DOMAIN Prog[x] :
    Prog[x][i].call = "spawn" /\ Held(Prog[x][i].of) => Passed(x, i)

(* A continuation waits, is due on one stack, or has run, after its then.  *)
ThenInv ==
  /\ \A x \in Spawned : \A k \in conts[x] : Of(k) = x
  /\ \A x \in Spawned : ready[x] => conts[x] = {}
  /\ \A k \in ThenCalls :
       /\ ran[k] <= 1
       /\ k \in conts[Of(k)] \/ Due(k) \/ ran[k] # 0 => Passed(k[1], k[2])
       /\ ~(k \in conts[Of(k)] /\ (Due(k) \/ ran[k] # 0))
       /\ ~(Due(k) /\ ran[k] # 0)

DueInv ==
  \A t, u \in Threads : \A i \in 1 .. Len(stack[t]), j \in 1 .. Len(stack[u]) :
    stack[t][i].run \cap stack[u][j].run # {} => t = u /\ i = j

IInv == TypeInv /\ FramesInv /\ SlotsInv /\ HeldInv /\ SpawnInv /\ ThenInv /\ DueInv

----------------------------------------------------------------------------
(* Programs.                                                               *)

(* Every call of a program is a spawn, a get or a then of some future.     *)
LEMMA ProgFacts ==
  ASSUME NEW x \in Tasks
  PROVE  /\ Prog[x] \in Seq(Calls) /\ Len(Prog[x]) \in Nat /\ DOMAIN Prog[x] = 1 .. Len(Prog[x])
         /\ \A i \in 1 .. Len(Prog[x]) : Prog[x][i].of \in Spawned
         /\ \A i \in 1 .. Len(Prog[x]) :
              Prog[x][i] = [call |-> Prog[x][i].call, of |-> Prog[x][i].of]
<1>1. Prog[x] \in Seq(Calls)
  BY FuturesAssumption
<1>2. Len(Prog[x]) \in Nat /\ DOMAIN Prog[x] = 1 .. Len(Prog[x])
  BY <1>1, LenProperties
<1>3. \A i \in 1 .. Len(Prog[x]) : Prog[x][i] \in Calls
  BY <1>1, ElementOfSeq
<1> QED
  BY <1>1, <1>2, <1>3 DEF Calls

(* The calls of then, by task and index.                                   *)
LEMMA ThenFacts ==
  /\ \A x \in Tasks : \A i \in 1 .. Len(Prog[x]) : Prog[x][i].call = "then" => <<x, i>> \in ThenCalls
  /\ \A k \in ThenCalls : /\ k[1] \in Tasks /\ k[2] \in 1 .. Len(Prog[k[1]])
                          /\ Of(k) \in Spawned /\ Makes(k[1], "then", Of(k))
                          /\ k = <<k[1], k[2]>>
<1>1. ASSUME NEW x \in Tasks, NEW i \in 1 .. Len(Prog[x]), Prog[x][i].call = "then"
      PROVE  <<x, i>> \in ThenCalls
  <2>1. <<x, i>> \in {x} \X DOMAIN Prog[x]
    BY ProgFacts
  <2>2. <<x, i>> \in UNION {{y} \X DOMAIN Prog[y] : y \in Tasks}
    BY <2>1
  <2> QED
    BY <1>1, <2>2 DEF ThenCalls
<1>2. ASSUME NEW k \in ThenCalls
      PROVE  /\ k[1] \in Tasks /\ k[2] \in 1 .. Len(Prog[k[1]])
             /\ Of(k) \in Spawned /\ Makes(k[1], "then", Of(k))
             /\ k = <<k[1], k[2]>>
  <2>1. k \in UNION {{y} \X DOMAIN Prog[y] : y \in Tasks} /\ Prog[k[1]][k[2]].call = "then"
    BY DEF ThenCalls
  <2>2. PICK x \in Tasks : k \in {x} \X DOMAIN Prog[x]
    BY <2>1
  <2>3. k[1] = x /\ k[2] \in DOMAIN Prog[x] /\ k = <<k[1], k[2]>>
    BY <2>2
  <2>4. k[2] \in 1 .. Len(Prog[x]) /\ Of(k) \in Spawned
    BY <2>3, ProgFacts DEF Of
  <2>5. Makes(k[1], "then", Of(k))
    BY <2>1, <2>3, <2>4, ProgFacts DEF Makes, Of
  <2> QED
    BY <2>2, <2>3, <2>4, <2>5
<1> QED
  BY <1>1, <1>2

(* One call spawns a task.                                                 *)
LEMMA SpawnedOnce ==
  ASSUME NEW x \in Tasks, NEW i \in 1 .. Len(Prog[x]), Prog[x][i].call = "spawn",
         NEW z \in Tasks, NEW k \in 1 .. Len(Prog[z]), Prog[z][k].call = "spawn",
         Prog[x][i].of = Prog[z][k].of
  PROVE  x = z /\ i = k
<1>1. PICK y \in Spawned : y = Prog[x][i].of /\ y = Prog[z][k].of
  BY ProgFacts
<1>2. PICK p \in Tasks : \E a, b \in DOMAIN Prog[p] :
         /\ a < b
         /\ Prog[p][a] = [call |-> "spawn", of |-> y]
         /\ Prog[p][b] = [call |-> "get", of |-> y]
         /\ \A v \in Tasks : \A c \in DOMAIN Prog[v] : Prog[v][c].of = y =>
              v = p /\ (c \in {a, b} \/ (Prog[v][c].call = "then" /\ c > a))
  BY FuturesAssumption
<1>3. PICK a \in DOMAIN Prog[p], b \in DOMAIN Prog[p] :
         /\ Prog[p][b] = [call |-> "get", of |-> y]
         /\ \A v \in Tasks : \A c \in DOMAIN Prog[v] : Prog[v][c].of = y =>
              v = p /\ (c \in {a, b} \/ (Prog[v][c].call = "then" /\ c > a))
  BY <1>2
<1>4. Prog[p][b].call = "get"
  BY <1>3
<1>5. i \in DOMAIN Prog[x] /\ k \in DOMAIN Prog[z]
  BY ProgFacts
<1>6. x = p /\ i \in {a, b} /\ z = p /\ k \in {a, b}
  BY <1>1, <1>3, <1>5
<1>7. i # b /\ k # b
  BY <1>4, <1>6
<1> QED
  BY <1>6, <1>7

----------------------------------------------------------------------------
(* Stacks.                                                                 *)

(* The fields of a frame on a stack.                                       *)
LEMMA FrameFacts ==
  ASSUME TypeInv, NEW t \in Threads
  PROVE  /\ stack[t] \in Seq(FrameSet) /\ Len(stack[t]) \in Nat
         /\ DOMAIN stack[t] = 1 .. Len(stack[t])
         /\ \A i \in 1 .. Len(stack[t]) :
              /\ stack[t][i] \in FrameSet
              /\ stack[t][i].task \in Tasks /\ stack[t][i].pc \in Nat \ {0}
              /\ stack[t][i].got \in Nat /\ stack[t][i].missed \in BOOLEAN
              /\ stack[t][i].run \in SUBSET ThenCalls /\ stack[t][i].set \in BOOLEAN
              /\ stack[t][i].pc <= Len(Prog[stack[t][i].task]) + 1
<1>1. stack[t] \in Seq(FrameSet)
  BY DEF TypeInv
<1>2. Len(stack[t]) \in Nat /\ DOMAIN stack[t] = 1 .. Len(stack[t])
  BY <1>1, LenProperties
<1>3. \A i \in 1 .. Len(stack[t]) : stack[t][i] \in FrameSet
  BY <1>1, ElementOfSeq
<1>4. \A f \in FrameSet : /\ f.task \in Tasks /\ f.pc \in Nat \ {0}
                          /\ f.got \in Nat /\ f.missed \in BOOLEAN
                          /\ f.run \in SUBSET ThenCalls /\ f.set \in BOOLEAN
  BY DEF FrameSet
<1> QED
  BY <1>1, <1>2, <1>3, <1>4 DEF TypeInv

(* The running frame of a thread.                                          *)
LEMMA TopFacts ==
  ASSUME TypeInv, NEW t \in Threads, stack[t] # <<>>
  PROVE  /\ Len(stack[t]) \in 1 .. Len(stack[t]) /\ Top(t) = stack[t][Len(stack[t])]
         /\ Top(t) \in FrameSet
         /\ Top(t).task \in Tasks /\ Top(t).pc \in Nat \ {0} /\ Top(t).got \in Nat
         /\ Top(t).missed \in BOOLEAN /\ Top(t).run \in SUBSET ThenCalls /\ Top(t).set \in BOOLEAN
         /\ Top(t).pc <= Len(Prog[Top(t).task]) + 1
<1>1. stack[t] \in Seq(FrameSet) /\ Len(stack[t]) \in Nat \ {0}
  BY FrameFacts, EmptySeq
<1>2. Len(stack[t]) \in 1 .. Len(stack[t])
  BY <1>1
<1> QED
  BY <1>2, FrameFacts DEF Top

(* The stack below the running frame.                                      *)
LEMMA BelowFacts ==
  ASSUME TypeInv, NEW t \in Threads, stack[t] # <<>>
  PROVE  /\ Below(t) \in Seq(FrameSet) /\ Len(Below(t)) = Len(stack[t]) - 1
         /\ Len(stack[t]) \in Nat \ {0}
         /\ \A i \in 1 .. Len(stack[t]) - 1 : Below(t)[i] = stack[t][i]
<1>1. PICK s : s = stack[t]
  OBVIOUS
<1>2. s \in Seq(FrameSet) /\ Len(s) \in Nat \ {0}
  BY <1>1, FrameFacts, EmptySeq
<1>3. PICK p \in Nat : p = Len(s) - 1
  BY <1>2
<1>4. \A i \in 1 .. p : s[i] \in FrameSet
  BY <1>2, <1>3, ElementOfSeq
<1>5. /\ SubSeq(s, 1, p) \in Seq(FrameSet)
      /\ Len(SubSeq(s, 1, p)) = IF 1 <= p THEN p - 1 + 1 ELSE 0
      /\ \A i \in 1 .. p - 1 + 1 : SubSeq(s, 1, p)[i] = s[1 + i - 1]
  BY <1>4, SubSeqProperties
<1>6. Len(SubSeq(s, 1, p)) = p /\ \A i \in 1 .. p : SubSeq(s, 1, p)[i] = s[i]
  BY <1>5
<1>7. Below(t) = SubSeq(s, 1, p)
  BY <1>1, <1>3 DEF Below
<1> QED
  BY <1>1, <1>2, <1>3, <1>5, <1>6, <1>7

(* A step that replaces the running frame, frame by frame.                 *)
Retopped(t, f) ==
  /\ stack' \in [Threads -> Seq(FrameSet)]
  /\ \A u \in Threads : Len(stack'[u]) = Len(stack[u])
  /\ \A u \in Threads : \A i \in 1 .. Len(stack[u]) :
       u # t \/ i # Len(stack[t]) => stack'[u][i] = stack[u][i]
  /\ stack'[t][Len(stack[t])] = f

(* The step that replaces the top frame is such a step.                    *)
LEMMA Retop ==
  ASSUME TypeInv, NEW t \in Threads, stack[t] # <<>>, NEW f \in FrameSet,
         stack' = [stack EXCEPT ![t] = Below(t) \o <<f>>]
  PROVE  Retopped(t, f)
<1>1. PICK b, n, e, s : b = Below(t) /\ n = Len(stack[t]) /\ e = <<f>> /\ s = b \o e
  OBVIOUS
<1>2. /\ b \in Seq(FrameSet) /\ Len(b) = n - 1 /\ n \in Nat \ {0}
      /\ \A i \in 1 .. n - 1 : b[i] = stack[t][i]
  BY <1>1, BelowFacts
<1>3. e \in Seq(FrameSet) /\ Len(e) = 1 /\ e[1] = f
  BY <1>1
<1>4. /\ s \in Seq(FrameSet) /\ Len(s) = n
      /\ \A i \in 1 .. n : s[i] = IF i = n THEN f ELSE stack[t][i]
  <2>1. /\ s \in Seq(FrameSet) /\ Len(s) = Len(b) + Len(e)
        /\ \A i \in 1 .. Len(b) + Len(e) : s[i] = IF i <= Len(b) THEN b[i] ELSE e[i - Len(b)]
    <3>1. /\ b \o e \in Seq(FrameSet) /\ Len(b \o e) = Len(b) + Len(e)
          /\ \A i \in 1 .. Len(b) + Len(e) :
               (b \o e)[i] = IF i <= Len(b) THEN b[i] ELSE e[i - Len(b)]
      BY <1>2, <1>3, ConcatProperties, Zenon
    <3>2. s = b \o e
      BY <1>1
    <3> QED
      BY <3>1, <3>2
  <2>2. Len(s) = n /\ \A i \in 1 .. n : s[i] = IF i <= n - 1 THEN b[i] ELSE e[i - (n - 1)]
    BY <1>2, <1>3, <2>1
  <2>3. n \in 1 .. n /\ ~(n <= n - 1) /\ n - (n - 1) = 1
    BY <1>2
  <2>4. s[n] = f
    BY <1>3, <2>2, <2>3
  <2>5. \A i \in 1 .. n : i # n => i <= n - 1 /\ i \in 1 .. n - 1
    BY <1>2
  <2>6. \A i \in 1 .. n : i # n => s[i] = stack[t][i]
    BY <1>2, <2>2, <2>5
  <2> QED
    BY <2>1, <2>2, <2>4, <2>6
<1>5. stack' = [stack EXCEPT ![t] = s] /\ stack \in [Threads -> Seq(FrameSet)]
  BY <1>1 DEF TypeInv
<1>6. stack'[t] = s /\ \A u \in Threads \ {t} : stack'[u] = stack[u]
  BY <1>5
<1>7. stack' \in [Threads -> Seq(FrameSet)]
  BY <1>4, <1>5
<1>8. n \in 1 .. n
  BY <1>2
<1> QED
  BY <1>1, <1>4, <1>6, <1>7, <1>8 DEF Retopped

(* What replacing the running frame of a task by a later one of the same   *)
(* task does to the parts of the invariant.                                *)
LEMMA RetopInv ==
  ASSUME IInv, NEW t \in Threads, stack[t] # <<>>, NEW f \in FrameSet,
         f.task = Top(t).task, f.pc >= Top(t).pc, f.pc <= Len(Prog[f.task]) + 1,
         Retopped(t, f), done' = done
  PROVE  /\ stack' \in [Threads -> Seq(FrameSet)]
         /\ \A u \in Threads : \A i \in 1 .. Len(stack'[u]) :
              stack'[u][i].pc <= Len(Prog[stack'[u][i].task]) + 1
         /\ FramesInv'
         /\ \A x : OnStack(x)' <=> OnStack(x)
         /\ \A x : \A i \in Int : Passed(x, i) => Passed(x, i)'
         /\ \A i \in Int : i < f.pc => Passed(f.task, i)'
         /\ \A k : Due(k)' <=> (Due(k) /\ k \notin Top(t).run) \/ k \in f.run
         /\ (\A k \in f.run : k \in Top(t).run \/ ~Due(k)) => DueInv'
<1> USE DEF IInv
<1>1. stack' \in [Threads -> Seq(FrameSet)]
  BY DEF Retopped
<1>2. PICK n : n = Len(stack[t])
  OBVIOUS
<1>3. n \in 1 .. Len(stack[t]) /\ Top(t) = stack[t][n] /\ Top(t).pc \in Nat /\ f.pc \in Nat
  BY <1>2, TopFacts DEF FrameSet
<1>4. \A u \in Threads : Len(stack'[u]) = Len(stack[u])
  BY DEF Retopped
<1>5. \A u \in Threads : \A i \in 1 .. Len(stack[u]) : u # t \/ i # n => stack'[u][i] = stack[u][i]
  BY <1>2 DEF Retopped
<1>6. stack'[t][n] = f
  BY <1>2 DEF Retopped
<1>7. \A u \in Threads : \A i \in 1 .. Len(stack[u]) :
        stack'[u][i].task = stack[u][i].task /\ stack'[u][i].pc >= stack[u][i].pc
  <2> SUFFICES ASSUME NEW u \in Threads, NEW i \in 1 .. Len(stack[u])
               PROVE  stack'[u][i].task = stack[u][i].task /\ stack'[u][i].pc >= stack[u][i].pc
    OBVIOUS
  <2>1. CASE u = t /\ i = n
    BY <2>1, <1>3, <1>6
  <2>2. CASE u # t \/ i # n
    BY <2>2, <1>5, FrameFacts
  <2> QED
    BY <2>1, <2>2
<1>8. \A u \in Threads : \A i \in 1 .. Len(stack[u]) :
        /\ stack'[u][i].pc \in Nat /\ stack[u][i].pc \in Nat
        /\ stack'[u][i].pc <= Len(Prog[stack'[u][i].task]) + 1
  <2> SUFFICES ASSUME NEW u \in Threads, NEW i \in 1 .. Len(stack[u])
               PROVE  /\ stack'[u][i].pc \in Nat /\ stack[u][i].pc \in Nat
                      /\ stack'[u][i].pc <= Len(Prog[stack'[u][i].task]) + 1
    OBVIOUS
  <2>1. CASE u = t /\ i = n
    BY <2>1, <1>3, <1>6
  <2>2. CASE u # t \/ i # n
    BY <2>2, <1>5, FrameFacts
  <2> QED
    BY <2>1, <2>2
<1>9. FramesInv'
  <2> SUFFICES ASSUME NEW u \in Threads, NEW v \in Threads,
                      NEW i \in 1 .. Len(stack[u]), NEW j \in 1 .. Len(stack[v]),
                      stack'[u][i].task = stack'[v][j].task
               PROVE  u = v /\ i = j
    BY <1>4 DEF FramesInv
  <2>1. stack[u][i].task = stack[v][j].task
    BY <1>7
  <2> QED
    BY <2>1 DEF FramesInv
<1>10. \A x : OnStack(x)' <=> OnStack(x)
  BY <1>4, <1>7 DEF OnStack
<1>11. ASSUME NEW x, NEW i \in Int, Passed(x, i) PROVE Passed(x, i)'
  <2>1. CASE done[x] # 0
    BY <2>1 DEF Passed
  <2>2. ASSUME NEW u \in Threads, NEW j \in 1 .. Len(stack[u]), stack[u][j].task = x, stack[u][j].pc > i
        PROVE  Passed(x, i)'
    <3>1. stack'[u][j].task = x /\ stack'[u][j].pc > i /\ j \in 1 .. Len(stack'[u])
      BY <2>2, <1>4, <1>7, <1>8
    <3> QED
      BY <3>1 DEF Passed
  <2> QED
    BY <1>11, <2>1, <2>2 DEF Passed
<1>12. ASSUME NEW i \in Int, i < f.pc PROVE Passed(f.task, i)'
  <2>1. n \in 1 .. Len(stack'[t]) /\ f.pc > i
    BY <1>3, <1>4, <1>12
  <2> QED
    BY <1>6, <2>1 DEF Passed
<1>13. ASSUME NEW k PROVE Due(k)' <=> (Due(k) /\ k \notin Top(t).run) \/ k \in f.run
  <2>1. ASSUME Due(k)', k \notin f.run PROVE Due(k) /\ k \notin Top(t).run
    <3>1. PICK u \in Threads : \E i \in 1 .. Len(stack[u]) : k \in stack'[u][i].run
      BY <2>1, <1>4 DEF Due
    <3>2. PICK i \in 1 .. Len(stack[u]) : k \in stack'[u][i].run
      BY <3>1
    <3>3. ~(u = t /\ i = n) /\ k \in stack[u][i].run
      BY <3>2, <2>1, <1>5, <1>6
    <3>4. k \notin stack[t][n].run
      BY <3>3, <1>3 DEF DueInv
    <3> QED
      BY <3>3, <3>4, <1>3 DEF Due
  <2>2. ASSUME Due(k), k \notin Top(t).run PROVE Due(k)'
    <3>1. PICK u \in Threads : \E i \in 1 .. Len(stack[u]) : k \in stack[u][i].run
      BY <2>2 DEF Due
    <3>2. PICK i \in 1 .. Len(stack[u]) : k \in stack[u][i].run
      BY <3>1
    <3>3. stack'[u][i].run = stack[u][i].run /\ i \in 1 .. Len(stack'[u])
      BY <3>2, <2>2, <1>3, <1>4, <1>5
    <3> QED
      BY <3>2, <3>3 DEF Due
  <2>3. ASSUME k \in f.run PROVE Due(k)'
    BY <2>3, <1>3, <1>4, <1>6 DEF Due
  <2> QED
    BY <2>1, <2>2, <2>3
<1>14. ASSUME \A k \in f.run : k \in Top(t).run \/ ~Due(k) PROVE DueInv'
  <2>1. ASSUME NEW u \in Threads, NEW i \in 1 .. Len(stack[u]), u # t \/ i # n,
               NEW k \in f.run, k \in stack[u][i].run
        PROVE  FALSE
    <3>1. Due(k)
      BY <2>1 DEF Due
    <3>2. k \in stack[t][n].run
      BY <3>1, <1>3, <1>14
    <3> QED
      BY <2>1, <3>2, <1>3 DEF DueInv
  <2> SUFFICES ASSUME NEW u \in Threads, NEW v \in Threads,
                      NEW i \in 1 .. Len(stack[u]), NEW j \in 1 .. Len(stack[v]),
                      NEW k \in stack'[u][i].run, k \in stack'[v][j].run
               PROVE  u = v /\ i = j
    BY <1>4 DEF DueInv
  <2>2. CASE (u # t \/ i # n) /\ (v # t \/ j # n)
    BY <2>2, <1>5 DEF DueInv
  <2>3. CASE (u = t /\ i = n) /\ (v # t \/ j # n)
    BY <2>1, <2>3, <1>5, <1>6
  <2>4. CASE (u # t \/ i # n) /\ (v = t /\ j = n)
    BY <2>1, <2>4, <1>5, <1>6
  <2> QED
    BY <2>2, <2>3, <2>4
<1> QED
  BY <1>1, <1>4, <1>8, <1>9, <1>10, <1>11, <1>12, <1>13, <1>14

(* A task that begins on top of a stack.                                   *)
LEMMA CallStack ==
  ASSUME TypeInv, NEW t \in Threads, NEW x \in Tasks, Call(t, x)
  PROVE  /\ stack' \in [Threads -> Seq(FrameSet)]
         /\ Len(stack'[t]) = Len(stack[t]) + 1 /\ stack'[t][Len(stack[t]) + 1] = Frame(x)
         /\ \A u \in Threads \ {t} : stack'[u] = stack[u]
         /\ \A i \in 1 .. Len(stack[t]) : /\ stack'[t][i].task = stack[t][i].task
                                          /\ stack'[t][i].pc = stack[t][i].pc
                                          /\ stack'[t][i].run = stack[t][i].run
                                          /\ stack'[t][i].got = stack[t][i].got
<1>1. PICK s, n : s = stack[t] /\ n = Len(s)
  OBVIOUS
<1>2. s \in Seq(FrameSet) /\ n \in Nat /\ \A i \in 1 .. n : s[i] \in FrameSet
  BY <1>1, FrameFacts
<1>3. PICK r : r = IF s = <<>> THEN s ELSE [s EXCEPT ![n].missed = FALSE]
  OBVIOUS
<1>4. /\ r \in Seq(FrameSet) /\ Len(r) = n
      /\ \A i \in 1 .. n : /\ r[i].task = s[i].task /\ r[i].pc = s[i].pc
                           /\ r[i].run = s[i].run /\ r[i].got = s[i].got
  <2>1. CASE s = <<>>
    BY <2>1, <1>1, <1>2, <1>3
  <2>2. CASE s # <<>>
    <3>1. n \in 1 .. n /\ s[n] \in FrameSet
      BY <2>2, <1>1, <1>2, EmptySeq
    <3>2. PICK g : g = [s[n] EXCEPT !.missed = FALSE]
      OBVIOUS
    <3>3. /\ g \in FrameSet /\ g.task = s[n].task /\ g.pc = s[n].pc
          /\ g.run = s[n].run /\ g.got = s[n].got
      BY <3>1, <3>2 DEF FrameSet
    <3>4. r = [s EXCEPT ![n] = g]
      BY <2>2, <1>3, <3>2
    <3>5. s \in [1 .. n -> FrameSet]
      BY <1>1, <1>2, LenProperties
    <3>6. /\ r \in [1 .. n -> FrameSet]
          /\ r[n] = g /\ \A i \in 1 .. n : i # n => r[i] = s[i]
      BY <3>1, <3>3, <3>4, <3>5
    <3>7. r \in Seq(FrameSet) /\ Len(r) = n
      BY <3>6, <1>2, SeqDef, LenProperties
    <3> QED
      BY <3>3, <3>6, <3>7
  <2> QED
    BY <2>1, <2>2
<1>5. Frame(x) \in FrameSet
  BY DEF Frame, FrameSet
<1>6. PICK e : e = Append(r, Frame(x))
  OBVIOUS
<1>7. /\ e \in Seq(FrameSet) /\ Len(e) = n + 1 /\ e[n + 1] = Frame(x)
      /\ \A i \in 1 .. n : e[i] = r[i]
  BY <1>4, <1>5, <1>6, AppendProperties
<1>8. stack' = [stack EXCEPT ![t] = e] /\ stack \in [Threads -> Seq(FrameSet)]
  BY <1>1, <1>3, <1>6 DEF Call, TypeInv
<1>9. stack'[t] = e /\ stack' \in [Threads -> Seq(FrameSet)] /\ \A u \in Threads \ {t} : stack'[u] = stack[u]
  BY <1>7, <1>8
<1> QED
  BY <1>1, <1>4, <1>7, <1>9

(* What a task that begins does to the parts of the invariant.             *)
LEMMA CallInv ==
  ASSUME IInv, NEW t \in Threads, NEW x \in Tasks, Call(t, x), ~OnStack(x), done' = done
  PROVE  /\ stack' \in [Threads -> Seq(FrameSet)]
         /\ \A u \in Threads : \A i \in 1 .. Len(stack'[u]) :
              stack'[u][i].pc <= Len(Prog[stack'[u][i].task]) + 1
         /\ FramesInv' /\ DueInv'
         /\ \A y : OnStack(y)' <=> OnStack(y) \/ y = x
         /\ \A y : \A i \in Int : Passed(y, i) => Passed(y, i)'
         /\ \A k : Due(k)' <=> Due(k)
<1> USE DEF IInv
<1>1. PICK n : n = Len(stack[t])
  OBVIOUS
<1>2. n \in Nat
  BY <1>1, FrameFacts
<1>3. /\ stack' \in [Threads -> Seq(FrameSet)]
      /\ Len(stack'[t]) = n + 1 /\ stack'[t][n + 1] = Frame(x)
      /\ \A u \in Threads \ {t} : stack'[u] = stack[u]
      /\ \A i \in 1 .. n : /\ stack'[t][i].task = stack[t][i].task
                           /\ stack'[t][i].pc = stack[t][i].pc
                           /\ stack'[t][i].run = stack[t][i].run
  BY <1>1, CallStack
<1>4. Frame(x).task = x /\ Frame(x).pc = 1 /\ Frame(x).run = {}
  BY DEF Frame
<1>5. \A u \in Threads : \A i \in 1 .. Len(stack[u]) :
        /\ i \in 1 .. Len(stack'[u])
        /\ stack'[u][i].task = stack[u][i].task
        /\ stack'[u][i].pc = stack[u][i].pc
        /\ stack'[u][i].run = stack[u][i].run
  BY <1>1, <1>2, <1>3
<1>6. \A u \in Threads : \A i \in 1 .. Len(stack'[u]) :
        \/ u = t /\ i = n + 1 /\ stack'[u][i].task = x /\ stack'[u][i].pc = 1 /\ stack'[u][i].run = {}
        \/ i \in 1 .. Len(stack[u])
  BY <1>1, <1>2, <1>3, <1>4
<1>7. \A u \in Threads : \A i \in 1 .. Len(stack[u]) : stack[u][i].task # x
  BY DEF OnStack
<1>8. \A u \in Threads : \A i \in 1 .. Len(stack'[u]) :
        stack'[u][i].pc <= Len(Prog[stack'[u][i].task]) + 1
  <2> SUFFICES ASSUME NEW u \in Threads, NEW i \in 1 .. Len(stack'[u])
               PROVE  stack'[u][i].pc <= Len(Prog[stack'[u][i].task]) + 1
    OBVIOUS
  <2>1. CASE stack'[u][i].task = x /\ stack'[u][i].pc = 1
    <3>1. Len(Prog[x]) \in Nat
      BY ProgFacts
    <3> QED
      BY <2>1, <3>1
  <2>2. CASE i \in 1 .. Len(stack[u])
    BY <2>2, <1>5, FrameFacts
  <2> QED
    BY <1>6, <2>1, <2>2
<1>9. FramesInv'
  <2> SUFFICES ASSUME NEW u \in Threads, NEW v \in Threads,
                      NEW i \in 1 .. Len(stack'[u]), NEW j \in 1 .. Len(stack'[v]),
                      stack'[u][i].task = stack'[v][j].task
               PROVE  u = v /\ i = j
    BY DEF FramesInv
  <2>1. CASE i \in 1 .. Len(stack[u]) /\ j \in 1 .. Len(stack[v])
    <3>1. stack[u][i].task = stack[v][j].task
      BY <2>1, <1>5
    <3> QED
      BY <2>1, <3>1 DEF FramesInv
  <2>2. CASE i \notin 1 .. Len(stack[u]) /\ j \notin 1 .. Len(stack[v])
    BY <2>2, <1>6
  <2>3. CASE i \notin 1 .. Len(stack[u]) /\ j \in 1 .. Len(stack[v])
    <3>1. stack'[u][i].task = x
      BY <2>3, <1>6
    <3>2. stack'[v][j].task = stack[v][j].task /\ stack[v][j].task # x
      BY <2>3, <1>5, <1>7
    <3> QED
      BY <3>1, <3>2
  <2>4. CASE i \in 1 .. Len(stack[u]) /\ j \notin 1 .. Len(stack[v])
    <3>1. stack'[v][j].task = x
      BY <2>4, <1>6
    <3>2. stack'[u][i].task = stack[u][i].task /\ stack[u][i].task # x
      BY <2>4, <1>5, <1>7
    <3> QED
      BY <3>1, <3>2
  <2> QED
    BY <2>1, <2>2, <2>3, <2>4
<1>10. DueInv'
  <2> SUFFICES ASSUME NEW u \in Threads, NEW v \in Threads,
                      NEW i \in 1 .. Len(stack'[u]), NEW j \in 1 .. Len(stack'[v]),
                      NEW k \in stack'[u][i].run, k \in stack'[v][j].run
               PROVE  u = v /\ i = j
    BY DEF DueInv
  <2>1. i \in 1 .. Len(stack[u]) /\ j \in 1 .. Len(stack[v])
    BY <1>6
  <2>2. k \in stack[u][i].run /\ k \in stack[v][j].run
    BY <2>1, <1>5
  <2> QED
    BY <2>1, <2>2 DEF DueInv
<1>11. \A y : OnStack(y)' <=> OnStack(y) \/ y = x
  <2>1. ASSUME NEW y, OnStack(y)' PROVE OnStack(y) \/ y = x
    <3>1. PICK u \in Threads : \E i \in 1 .. Len(stack'[u]) : stack'[u][i].task = y
      BY <2>1 DEF OnStack
    <3>2. PICK i \in 1 .. Len(stack'[u]) : stack'[u][i].task = y
      BY <3>1
    <3> QED
      BY <3>2, <1>5, <1>6 DEF OnStack
  <2>2. ASSUME NEW y, OnStack(y) PROVE OnStack(y)'
    BY <2>2, <1>5 DEF OnStack
  <2>3. OnStack(x)'
    <3>1. n + 1 \in 1 .. Len(stack'[t]) /\ stack'[t][n + 1].task = x
      BY <1>2, <1>3, <1>4
    <3> QED
      BY <3>1 DEF OnStack
  <2> QED
    BY <2>1, <2>2, <2>3
<1>12. \A y : \A i \in Int : Passed(y, i) => Passed(y, i)'
  BY <1>5 DEF Passed
<1>13. \A k : Due(k)' <=> Due(k)
  <2>1. ASSUME NEW k, Due(k)' PROVE Due(k)
    <3>1. PICK u \in Threads : \E i \in 1 .. Len(stack'[u]) : k \in stack'[u][i].run
      BY <2>1 DEF Due
    <3>2. PICK i \in 1 .. Len(stack'[u]) : k \in stack'[u][i].run
      BY <3>1
    <3> QED
      BY <3>2, <1>5, <1>6 DEF Due
  <2>2. ASSUME NEW k, Due(k) PROVE Due(k)'
    BY <2>2, <1>5 DEF Due
  <2> QED
    BY <2>1, <2>2
<1> QED
  BY <1>3, <1>8, <1>9, <1>10, <1>11, <1>12, <1>13

----------------------------------------------------------------------------
(* Parts that a step leaves alone.                                         *)

(* Tasks that move between places stay where SpawnInv wants them.          *)
LEMMA SpawnSame ==
  ASSUME SpawnInv,
         \A x \in Spawned : Held(x)' => Held(x),
         \A x \in Tasks : \A i \in Int : Passed(x, i) => Passed(x, i)'
  PROVE  SpawnInv'
<1> SUFFICES ASSUME NEW x \in Tasks, NEW i \in DOMAIN Prog[x],
                    Prog[x][i].call = "spawn", Held(Prog[x][i].of)'
             PROVE  Passed(x, i)'
  BY DEF SpawnInv
<1>1. i \in Int /\ Prog[x][i].of \in Spawned
  BY ProgFacts
<1>2. Held(Prog[x][i].of)
  BY <1>1
<1> QED
  BY <1>1, <1>2 DEF SpawnInv

(* Continuations that are neither registered, nor due, nor run.            *)
LEMMA ThenSame ==
  ASSUME ThenInv, conts' = conts, ran' = ran, ready' = ready,
         \A k \in ThenCalls : Due(k)' <=> Due(k),
         \A x \in Tasks : \A i \in Int : Passed(x, i) => Passed(x, i)'
  PROVE  ThenInv'
<1>1. ASSUME NEW k \in ThenCalls, k \in conts[Of(k)] \/ Due(k) \/ ran[k] # 0
      PROVE  Passed(k[1], k[2])'
  <2>1. k[1] \in Tasks /\ k[2] \in Int
    BY ThenFacts
  <2> QED
    BY <1>1, <2>1 DEF ThenInv
<1> QED
  BY <1>1 DEF ThenInv

----------------------------------------------------------------------------
(* Steps.                                                                  *)

(* The deques as the family of queues of QueueFacts.                       *)
QF == INSTANCE QueueFacts WITH Queues <- Workers, Items <- Spawned, queue <- deque

(* Main is on the client's stack from the start.                           *)
LEMMA InitInv == Init => IInv
<1> SUFFICES ASSUME Init PROVE IInv
  OBVIOUS
<1>1. /\ Client \in Threads /\ Main \in Tasks /\ Frame(Main) \in FrameSet /\ Len(Prog[Main]) \in Nat
      /\ Frame(Main).task = Main /\ Frame(Main).pc = 1 /\ Frame(Main).run = {}
  BY FuturesAssumption, ProgFacts DEF Threads, Frame, FrameSet
<1>2. /\ stack \in [Threads -> Seq(FrameSet)]
      /\ Len(stack[Client]) = 1 /\ stack[Client][1] = Frame(Main)
      /\ \A t \in Threads \ {Client} : stack[t] = <<>>
  <2>1. PICK f : f = Frame(Main)
    OBVIOUS
  <2>2. <<f>> \in Seq(FrameSet) /\ Len(<<f>>) = 1 /\ <<f>>[1] = f
    BY <1>1, <2>1
  <2>3. stack = [t \in Threads |-> IF t = Client THEN <<f>> ELSE <<>>]
    BY <2>1 DEF Init
  <2> QED
    BY <1>1, <2>1, <2>2, <2>3
<1>3. \A t \in Threads : \A i \in 1 .. Len(stack[t]) : t = Client /\ i = 1 /\ stack[t][i] = Frame(Main)
  <2>1. \A t \in Threads \ {Client} : 1 .. Len(stack[t]) = {}
    BY <1>2
  <2>2. \A i \in 1 .. Len(stack[Client]) : i = 1
    BY <1>2
  <2> QED
    BY <1>2, <2>1, <2>2
<1>4. \A w \in Workers : deque[w] = <<>> /\ 1 .. Len(deque[w]) = {}
  BY DEF Init
<1>5. TypeInv
  BY <1>1, <1>2, <1>3 DEF Init, TypeInv
<1>6. FramesInv /\ SlotsInv /\ DueInv
  BY <1>1, <1>3, <1>4 DEF FramesInv, SlotsInv, DueInv
<1>7. /\ \A x : OnStack(x) => x = Main
      /\ \A x : ~Queued(x)
      /\ \A k : ~Due(k)
      /\ \A x \in Tasks : done[x] = 0
  BY <1>1, <1>3, <1>4 DEF OnStack, Queued, Due, Init
<1>8. HeldInv
  BY <1>7 DEF HeldInv, Init
<1>9. \A x \in Spawned : ~Held(x)
  BY <1>7 DEF Held, Spawned, Init
<1>10. SpawnInv
  BY <1>9, ProgFacts DEF SpawnInv
<1>11. ThenInv
  BY <1>7, ThenFacts DEF ThenInv, Init
<1> QED
  BY <1>5, <1>6, <1>8, <1>10, <1>11 DEF IInv

(* Calls that only change the frame they are made in.                      *)
LEMMA CalmInv ==
  ASSUME IInv, NEW t \in Threads, stack[t] # <<>>, NEW f \in FrameSet,
         f.task = Top(t).task, f.pc >= Top(t).pc, f.pc <= Len(Prog[f.task]) + 1,
         f.run = Top(t).run,
         stack' = [stack EXCEPT ![t] = Below(t) \o <<f>>],
         UNCHANGED <<deque, injection, ready, value, conts, ran, done>>
  PROVE  IInv'
<1>0. Retopped(t, f) /\ done' = done
  BY Retop DEF IInv
<1>1. /\ stack' \in [Threads -> Seq(FrameSet)]
      /\ \A u \in Threads : \A i \in 1 .. Len(stack'[u]) :
           stack'[u][i].pc <= Len(Prog[stack'[u][i].task]) + 1
      /\ FramesInv'
      /\ \A x : OnStack(x)' <=> OnStack(x)
      /\ \A x : \A i \in Int : Passed(x, i) => Passed(x, i)'
      /\ \A k : Due(k)' <=> (Due(k) /\ k \notin Top(t).run) \/ k \in f.run
      /\ (\A k \in f.run : k \in Top(t).run \/ ~Due(k)) => DueInv'
  BY <1>0, RetopInv
<1>2. \A k : k \in Top(t).run => Due(k)
  BY TopFacts DEF Due, IInv
<1>3. DueInv' /\ \A k : Due(k)' <=> Due(k)
  BY <1>1, <1>2
<1>4. TypeInv'
  BY <1>1 DEF TypeInv, IInv
<1>5. SlotsInv' /\ \A x : Queued(x)' <=> Queued(x)
  BY DEF SlotsInv, Queued, IInv
<1>6. HeldInv'
  BY <1>1, <1>5 DEF HeldInv, IInv
<1>7. SpawnInv'
  BY <1>1, <1>5, SpawnSame DEF Held, IInv
<1>8. ThenInv'
  BY <1>1, <1>3, ThenSame DEF IInv
<1> QED
  BY <1>1, <1>3, <1>4, <1>5, <1>6, <1>7, <1>8 DEF IInv

(* What is known of a thread at a call.                                    *)
LEMMA AtCallFacts ==
  ASSUME TypeInv, NEW t \in Threads, NEW c, AtCall(t, c)
  PROVE  /\ stack[t] # <<>> /\ Top(t).run = {}
         /\ Top(t).pc \in 1 .. Len(Prog[Top(t).task])
         /\ Prog[Top(t).task][Top(t).pc].call = c
         /\ Arg(t) = Prog[Top(t).task][Top(t).pc].of /\ Arg(t) \in Spawned
         /\ Top(t).pc + 1 <= Len(Prog[Top(t).task]) + 1
<1>1. /\ stack[t] # <<>> /\ Top(t).run = {} /\ Top(t).pc <= Len(Prog[Top(t).task])
      /\ Prog[Top(t).task][Top(t).pc].call = c
  BY DEF AtCall, Running
<1>2. Top(t).task \in Tasks /\ Top(t).pc \in Nat \ {0}
  BY <1>1, TopFacts
<1>3. Len(Prog[Top(t).task]) \in Nat
  BY <1>2, ProgFacts
<1>4. Top(t).pc \in 1 .. Len(Prog[Top(t).task]) /\ Top(t).pc + 1 <= Len(Prog[Top(t).task]) + 1
  BY <1>1, <1>2, <1>3
<1>5. Arg(t) = Prog[Top(t).task][Top(t).pc].of /\ Arg(t) \in Spawned
  BY <1>2, <1>4, ProgFacts DEF Arg
<1> QED
  BY <1>1, <1>4, <1>5

(* A running task has not yet made the call it is at.                      *)
LEMMA NotPassed ==
  ASSUME IInv, NEW t \in Threads, stack[t] # <<>>
  PROVE  ~Passed(Top(t).task, Top(t).pc)
<1> USE DEF IInv
<1>1. PICK n, x, i : n = Len(stack[t]) /\ x = Top(t).task /\ i = Top(t).pc
  OBVIOUS
<1>2. n \in 1 .. Len(stack[t]) /\ stack[t][n].task = x /\ stack[t][n].pc = i /\ x \in Tasks /\ i \in Nat
  BY <1>1, TopFacts
<1>3. done[x] = 0
  BY <1>2 DEF HeldInv, OnStack
<1>4. ASSUME NEW u \in Threads, NEW j \in 1 .. Len(stack[u]), stack[u][j].task = x, stack[u][j].pc > i
      PROVE  FALSE
  <2>1. u = t /\ j = n
    BY <1>2, <1>4 DEF FramesInv
  <2> QED
    BY <1>2, <1>4, <2>1
<1>5. ~Passed(x, i)
  BY <1>3, <1>4 DEF Passed
<1> QED
  BY <1>1, <1>5

(* The frame after a call.                                                 *)
LEMMA Advanced ==
  ASSUME NEW f \in FrameSet
  PROVE  /\ [f EXCEPT !.pc = @ + 1] \in FrameSet
         /\ [f EXCEPT !.pc = @ + 1].task = f.task
         /\ [f EXCEPT !.pc = @ + 1].pc = f.pc + 1
         /\ [f EXCEPT !.pc = @ + 1].run = f.run
         /\ [f EXCEPT !.pc = @ + 1].got = f.got
BY DEF FrameSet

(* get, and the search for work that finds nothing.                        *)
LEMMA GetInv ==
  ASSUME IInv, NEW t \in Threads, GetReturn(t) \/ GetMiss(t) \/ HelpMiss(t)
  PROVE  IInv'
<1>0. AtCall(t, "get") /\ TypeInv
  BY DEF GetReturn, GetMiss, HelpMiss, IInv
<1>1. /\ stack[t] # <<>> /\ Arg(t) \in Spawned /\ Top(t).pc + 1 <= Len(Prog[Top(t).task]) + 1
      /\ Top(t) \in FrameSet /\ Top(t).pc \in Nat
      /\ Top(t).pc <= Len(Prog[Top(t).task]) + 1
  BY <1>0, AtCallFacts, TopFacts
<1>2. UNCHANGED <<deque, injection, ready, value, conts, ran, done>>
  BY DEF GetReturn, GetMiss, HelpMiss
<1>3. CASE GetReturn(t)
  <2>1. PICK g : g = [Top(t) EXCEPT !.got = @ + value[Arg(t)]]
    OBVIOUS
  <2>2. value[Arg(t)] \in Nat
    BY <1>0, <1>1 DEF TypeInv
  <2>3. g \in FrameSet /\ g.task = Top(t).task /\ g.pc = Top(t).pc /\ g.run = Top(t).run
    BY <1>1, <2>1, <2>2 DEF FrameSet
  <2>4. PICK f : f = [g EXCEPT !.pc = @ + 1]
    OBVIOUS
  <2>5. f \in FrameSet /\ f.task = Top(t).task /\ f.pc = Top(t).pc + 1 /\ f.run = Top(t).run
    BY <2>3, <2>4, Advanced
  <2>6. stack' = [stack EXCEPT ![t] = Below(t) \o <<f>>]
    BY <1>3, <2>1, <2>4 DEF GetReturn, Advance
  <2>7. f.pc >= Top(t).pc /\ f.pc <= Len(Prog[f.task]) + 1
    BY <1>1, <2>5
  <2> QED
    BY <1>1, <1>2, <2>5, <2>6, <2>7, CalmInv
<1>4. CASE GetMiss(t) \/ HelpMiss(t)
  <2>1. PICK b \in BOOLEAN : stack' = [stack EXCEPT ![t] = Below(t) \o <<[Top(t) EXCEPT !.missed = b]>>]
    BY <1>4 DEF GetMiss, HelpMiss
  <2>2. PICK f : f = [Top(t) EXCEPT !.missed = b]
    OBVIOUS
  <2>3. f \in FrameSet /\ f.task = Top(t).task /\ f.pc = Top(t).pc /\ f.run = Top(t).run
    BY <1>1, <2>2 DEF FrameSet
  <2>4. stack' = [stack EXCEPT ![t] = Below(t) \o <<f>>]
    BY <2>1, <2>2
  <2>5. f.pc >= Top(t).pc /\ f.pc <= Len(Prog[f.task]) + 1
    BY <1>1, <2>3
  <2> QED
    BY <1>1, <1>2, <2>3, <2>4, <2>5, CalmInv
<1> QED
  BY <1>3, <1>4

(* spawn: the task was nowhere, as only this call spawns it.               *)
LEMMA SpawnStepInv ==
  ASSUME IInv, NEW t \in Threads, Spawn(t)
  PROVE  IInv'
<1> USE DEF IInv
<1>0. AtCall(t, "spawn")
  BY DEF Spawn
<1>1. PICK x, i, y : x = Top(t).task /\ i = Top(t).pc /\ y = Arg(t)
  OBVIOUS
<1>2. /\ stack[t] # <<>> /\ Top(t).run = {} /\ Top(t) \in FrameSet
      /\ x \in Tasks /\ i \in 1 .. Len(Prog[x]) /\ i + 1 <= Len(Prog[x]) + 1
      /\ Prog[x][i].call = "spawn" /\ Prog[x][i].of = y /\ y \in Spawned /\ y \in Tasks
  BY <1>0, <1>1, AtCallFacts, TopFacts DEF Spawned
<1>3. ~Held(y)
  <2>1. ~Passed(x, i)
    BY <1>1, <1>2, NotPassed
  <2>2. i \in DOMAIN Prog[x]
    BY <1>2, ProgFacts
  <2> QED
    BY <1>2, <2>1, <2>2 DEF SpawnInv
<1>4. PICK f : f = [Top(t) EXCEPT !.pc = @ + 1]
  OBVIOUS
<1>5. f \in FrameSet /\ f.task = x /\ f.pc = i + 1 /\ f.run = {}
  BY <1>1, <1>2, <1>4, Advanced
<1>6. /\ stack' = [stack EXCEPT ![t] = Below(t) \o <<f>>]
      /\ UNCHANGED <<ready, value, conts, ran, done>>
  BY <1>4 DEF Spawn, Advance
<1>7. Retopped(t, f)
  BY <1>2, <1>5, <1>6, Retop
<1>8. f.task = Top(t).task /\ f.pc >= Top(t).pc /\ f.pc <= Len(Prog[f.task]) + 1 /\ done' = done
  BY <1>1, <1>2, <1>5, <1>6
<1>9. /\ stack' \in [Threads -> Seq(FrameSet)]
      /\ \A u \in Threads : \A j \in 1 .. Len(stack'[u]) :
           stack'[u][j].pc <= Len(Prog[stack'[u][j].task]) + 1
      /\ FramesInv'
      /\ \A z : OnStack(z)' <=> OnStack(z)
      /\ \A z : \A j \in Int : Passed(z, j) => Passed(z, j)'
      /\ \A j \in Int : j < f.pc => Passed(f.task, j)'
      /\ \A k : Due(k)' <=> (Due(k) /\ k \notin Top(t).run) \/ k \in f.run
      /\ (\A k \in f.run : k \in Top(t).run \/ ~Due(k)) => DueInv'
  BY <1>2, <1>5, <1>7, <1>8, RetopInv
<1>10. DueInv' /\ (\A k : Due(k)' <=> Due(k)) /\ Passed(x, i)'
  <2>1. i \in Int /\ i < f.pc
    BY <1>2, <1>5
  <2> QED
    BY <1>2, <1>5, <1>9, <2>1
<1>11. /\ deque' \in [Workers -> Seq(Spawned)] /\ injection' \subseteq Spawned
       /\ SlotsInv'
       /\ \A z : Queued(z)' \/ z \in injection' <=> Queued(z) \/ z \in injection \/ z = y
       /\ ~(Queued(y)' /\ y \in injection')
       /\ \A z : z # y => (Queued(z)' <=> Queued(z)) /\ (z \in injection' <=> z \in injection)
  <2>1. ~Queued(y) /\ y \notin injection
    BY <1>3 DEF Held
  <2>2. CASE t = Client
    <3>1. injection' = injection \cup {y} /\ deque' = deque
      BY <1>1, <2>2 DEF Spawn
    <3>2. SlotsInv' /\ \A z : Queued(z)' <=> Queued(z)
      BY <3>1 DEF SlotsInv, Queued
    <3> QED
      BY <1>2, <2>1, <3>1, <3>2 DEF TypeInv
  <2>3. CASE t # Client
    <3>1. t \in Workers /\ deque' = [deque EXCEPT ![t] = Append(@, y)] /\ injection' = injection
      BY <1>1, <2>3 DEF Spawn, Threads
    <3>2. QF!Typed /\ QF!DistinctSlots /\ ~QF!Holds(y)
      BY <2>1 DEF TypeInv, SlotsInv, Queued, QF!Typed, QF!DistinctSlots, QF!Holds
    <3>3. /\ deque' \in [Workers -> Seq(Spawned)]
          /\ QF!DistinctSlots'
          /\ \A z : QF!Holds(z)' <=> QF!Holds(z) \/ z = y
      BY <1>2, <3>1, <3>2, QF!PushDistinct
    <3>4. SlotsInv' /\ \A z : Queued(z)' <=> Queued(z) \/ z = y
      BY <3>3 DEF SlotsInv, Queued, QF!DistinctSlots, QF!Holds
    <3> QED
      BY <2>1, <3>1, <3>3, <3>4 DEF TypeInv
  <2> QED
    BY <2>2, <2>3
<1>12. TypeInv'
  BY <1>6, <1>9, <1>11 DEF TypeInv
<1>13. HeldInv'
  BY <1>3, <1>6, <1>9, <1>11 DEF HeldInv, Held
<1>14. SpawnInv'
  <2> SUFFICES ASSUME NEW z \in Tasks, NEW j \in DOMAIN Prog[z],
                      Prog[z][j].call = "spawn", Held(Prog[z][j].of)'
               PROVE  Passed(z, j)'
    BY DEF SpawnInv
  <2>1. j \in 1 .. Len(Prog[z]) /\ j \in Int
    BY ProgFacts
  <2>2. CASE Prog[z][j].of = y
    <3>1. z = x /\ j = i
      BY <1>2, <2>1, <2>2, SpawnedOnce
    <3> QED
      BY <3>1, <1>10
  <2>3. CASE Prog[z][j].of # y
    <3>1. Held(Prog[z][j].of)
      BY <2>3, <1>6, <1>9, <1>11 DEF Held
    <3> QED
      BY <3>1, <2>1, <1>9 DEF SpawnInv
  <2> QED
    BY <2>2, <2>3
<1>15. ThenInv'
  BY <1>6, <1>9, <1>10, ThenSame
<1> QED
  BY <1>9, <1>10, <1>11, <1>12, <1>13, <1>14, <1>15

(* What a step does that leaves the places of the tasks alone.             *)
LEMMA PlacesSame ==
  ASSUME IInv, UNCHANGED <<deque, injection, done>>,
         \A x : OnStack(x)' <=> OnStack(x),
         \A x : \A i \in Int : Passed(x, i) => Passed(x, i)'
  PROVE  SlotsInv' /\ HeldInv' /\ SpawnInv'
<1>1. SlotsInv' /\ \A x : Queued(x)' <=> Queued(x)
  BY DEF SlotsInv, Queued, IInv
<1>2. HeldInv'
  BY <1>1 DEF HeldInv, IInv
<1>3. SpawnInv'
  BY <1>1, SpawnSame DEF Held, IInv
<1> QED
  BY <1>1, <1>2, <1>3

(* The continuations after a step, one by one.                             *)
LEMMA ThenStep ==
  ASSUME IInv,
         \A x : \A i \in Int : Passed(x, i) => Passed(x, i)',
         \A x \in Spawned : \A k \in conts'[x] : Of(k) = x,
         \A x \in Spawned : ready'[x] => conts'[x] = {},
         \A k \in ThenCalls :
           /\ ran'[k] <= 1
           /\ k \in conts'[Of(k)] \/ Due(k)' \/ ran'[k] # 0
                => k \in conts[Of(k)] \/ Due(k) \/ ran[k] # 0 \/ Passed(k[1], k[2])'
           /\ ~(k \in conts'[Of(k)] /\ (Due(k)' \/ ran'[k] # 0))
           /\ ~(Due(k)' /\ ran'[k] # 0)
  PROVE  ThenInv'
<1>1. ASSUME NEW k \in ThenCalls, k \in conts'[Of(k)] \/ Due(k)' \/ ran'[k] # 0
      PROVE  Passed(k[1], k[2])'
  <2>1. k[2] \in Int
    BY ThenFacts
  <2>2. CASE k \in conts[Of(k)] \/ Due(k) \/ ran[k] # 0
    BY <2>1, <2>2 DEF IInv, ThenInv
  <2> QED
    BY <1>1, <2>2
<1> QED
  BY <1>1 DEF ThenInv, Of

(* then: the continuation is new.                                          *)
LEMMA ThenStepInv ==
  ASSUME IInv, NEW t \in Threads, Then(t)
  PROVE  IInv'
<1> USE DEF IInv
<1>0. AtCall(t, "then")
  BY DEF Then
<1>1. PICK x, i, y, k : x = Top(t).task /\ i = Top(t).pc /\ y = Arg(t) /\ k = <<x, i>>
  OBVIOUS
<1>2. /\ stack[t] # <<>> /\ Top(t).run = {} /\ Top(t) \in FrameSet
      /\ x \in Tasks /\ i \in 1 .. Len(Prog[x]) /\ i + 1 <= Len(Prog[x]) + 1
      /\ Prog[x][i].call = "then" /\ Prog[x][i].of = y /\ y \in Spawned
  BY <1>0, <1>1, AtCallFacts, TopFacts
<1>3. k \in ThenCalls /\ k[1] = x /\ k[2] = i /\ Of(k) = y
  BY <1>1, <1>2, ThenFacts DEF Of
<1>4. k \notin conts[y] /\ ~Due(k) /\ ran[k] = 0
  <2>1. ~Passed(x, i)
    BY <1>1, <1>2, NotPassed
  <2> QED
    BY <1>3, <2>1 DEF ThenInv
<1>5. PICK r : r = IF ready[y] THEN {k} ELSE {}
  OBVIOUS
<1>6. PICK g : g = IF ready[y] THEN [Top(t) EXCEPT !.run = {k}] ELSE Top(t)
  OBVIOUS
<1>7. g \in FrameSet /\ g.task = x /\ g.pc = i /\ g.run = r
  BY <1>1, <1>2, <1>3, <1>5, <1>6 DEF FrameSet
<1>8. PICK f : f = [g EXCEPT !.pc = @ + 1]
  OBVIOUS
<1>9. f \in FrameSet /\ f.task = x /\ f.pc = i + 1 /\ f.run = r
  BY <1>7, <1>8, Advanced
<1>10. /\ stack' = [stack EXCEPT ![t] = Below(t) \o <<f>>]
       /\ conts' = IF ready[y] THEN conts ELSE [conts EXCEPT ![y] = @ \cup {k}]
       /\ UNCHANGED <<deque, injection, ready, value, ran, done>>
  BY <1>1, <1>6, <1>8 DEF Then, Advance
<1>11. Retopped(t, f)
  BY <1>2, <1>9, <1>10, Retop
<1>12. f.task = Top(t).task /\ f.pc >= Top(t).pc /\ f.pc <= Len(Prog[f.task]) + 1 /\ done' = done
  BY <1>1, <1>2, <1>9, <1>10
<1>13. /\ stack' \in [Threads -> Seq(FrameSet)]
       /\ \A u \in Threads : \A j \in 1 .. Len(stack'[u]) :
            stack'[u][j].pc <= Len(Prog[stack'[u][j].task]) + 1
       /\ FramesInv'
       /\ \A z : OnStack(z)' <=> OnStack(z)
       /\ \A z : \A j \in Int : Passed(z, j) => Passed(z, j)'
       /\ \A j \in Int : j < f.pc => Passed(f.task, j)'
       /\ \A l : Due(l)' <=> (Due(l) /\ l \notin Top(t).run) \/ l \in f.run
       /\ (\A l \in f.run : l \in Top(t).run \/ ~Due(l)) => DueInv'
  BY <1>2, <1>9, <1>11, <1>12, RetopInv
<1>14. DueInv' /\ (\A l : Due(l)' <=> Due(l) \/ l \in r)
  BY <1>2, <1>4, <1>5, <1>9, <1>13
<1>15. Passed(k[1], k[2])'
  <2>1. i \in Int /\ i < f.pc
    BY <1>2, <1>9
  <2> QED
    BY <1>3, <1>9, <1>13, <2>1
<1>16. conts' \in [Spawned -> SUBSET ThenCalls]
  BY <1>2, <1>3, <1>10 DEF TypeInv
<1>17. \A z \in Spawned : conts'[z] = IF z = y /\ ~ready[y] THEN conts[z] \cup {k} ELSE conts[z]
  BY <1>2, <1>10 DEF TypeInv
<1>18. TypeInv'
  BY <1>10, <1>13, <1>16 DEF TypeInv
<1>19. SlotsInv' /\ HeldInv' /\ SpawnInv'
  BY <1>10, <1>13, PlacesSame
<1>20. ThenInv'
  <2>1. \A z \in Spawned : \A l \in conts'[z] : Of(l) = z
    BY <1>3, <1>17 DEF ThenInv
  <2>2. \A z \in Spawned : ready'[z] => conts'[z] = {}
    BY <1>10, <1>17 DEF ThenInv
  <2>3. ASSUME NEW l \in ThenCalls
        PROVE  /\ ran'[l] <= 1
               /\ l \in conts'[Of(l)] \/ Due(l)' \/ ran'[l] # 0
                    => l \in conts[Of(l)] \/ Due(l) \/ ran[l] # 0 \/ Passed(l[1], l[2])'
               /\ ~(l \in conts'[Of(l)] /\ (Due(l)' \/ ran'[l] # 0))
               /\ ~(Due(l)' /\ ran'[l] # 0)
    <3>1. Of(l) \in Spawned /\ ran'[l] = ran[l]
      BY <1>10, ThenFacts
    <3>2. CASE l = k
      BY <3>1, <3>2, <1>3, <1>4, <1>5, <1>14, <1>15, <1>17 DEF ThenInv
    <3>3. CASE l # k
      <4>1. (l \in conts'[Of(l)] <=> l \in conts[Of(l)]) /\ (Due(l)' <=> Due(l))
        <5>1. conts'[Of(l)] = conts[Of(l)] \/ conts'[Of(l)] = conts[Of(l)] \cup {k}
          BY <3>1, <1>17
        <5>2. l \notin r
          BY <3>3, <1>5
        <5> QED
          BY <3>3, <5>1, <5>2, <1>14
      <4> QED
        BY <3>1, <4>1 DEF ThenInv
    <3> QED
      BY <3>2, <3>3
  <2> QED
    BY <1>13, <2>1, <2>2, <2>3, ThenStep
<1> QED
  BY <1>13, <1>14, <1>18, <1>19, <1>20

(* set: the continuations that waited become due, in one frame.            *)
LEMMA SetInv ==
  ASSUME IInv, NEW t \in Threads, Set(t)
  PROVE  IInv'
<1> USE DEF IInv
<1>1. PICK x : x = Top(t).task
  OBVIOUS
<1>2. /\ stack[t] # <<>> /\ Top(t).run = {} /\ x # Main
      /\ value' = [value EXCEPT ![x] = Top(t).got + 1]
      /\ ready' = [ready EXCEPT ![x] = TRUE]
      /\ conts' = [conts EXCEPT ![x] = {}]
      /\ UNCHANGED <<deque, injection, ran, done>>
  BY <1>1 DEF Set, Running
<1>3. /\ Top(t) \in FrameSet /\ x \in Spawned /\ Top(t).got \in Nat
      /\ Top(t).pc \in Nat /\ Top(t).pc <= Len(Prog[x]) + 1
  BY <1>1, <1>2, TopFacts DEF Spawned
<1>4. conts[x] \in SUBSET ThenCalls
  BY <1>3 DEF TypeInv
<1>5. PICK f : f = [Top(t) EXCEPT !.run = conts[x], !.set = TRUE]
  OBVIOUS
<1>6. f \in FrameSet /\ f.task = x /\ f.pc = Top(t).pc /\ f.run = conts[x]
  BY <1>1, <1>3, <1>4, <1>5 DEF FrameSet
<1>7. stack' = [stack EXCEPT ![t] = Below(t) \o <<f>>]
  BY <1>1, <1>5 DEF Set
<1>8. Retopped(t, f)
  BY <1>2, <1>6, <1>7, Retop
<1>9. f.task = Top(t).task /\ f.pc >= Top(t).pc /\ f.pc <= Len(Prog[f.task]) + 1 /\ done' = done
  BY <1>1, <1>2, <1>3, <1>6
<1>10. \A k \in conts[x] : k \in ThenCalls /\ Of(k) = x /\ ~Due(k) /\ ran[k] = 0
  <2>1. \A k \in conts[x] : k \in ThenCalls /\ Of(k) = x
    BY <1>3, <1>4 DEF ThenInv
  <2> QED
    BY <2>1 DEF ThenInv
<1>11. /\ stack' \in [Threads -> Seq(FrameSet)]
       /\ \A u \in Threads : \A j \in 1 .. Len(stack'[u]) :
            stack'[u][j].pc <= Len(Prog[stack'[u][j].task]) + 1
       /\ FramesInv'
       /\ \A z : OnStack(z)' <=> OnStack(z)
       /\ \A z : \A j \in Int : Passed(z, j) => Passed(z, j)'
       /\ \A l : Due(l)' <=> (Due(l) /\ l \notin Top(t).run) \/ l \in f.run
       /\ (\A l \in f.run : l \in Top(t).run \/ ~Due(l)) => DueInv'
  BY <1>2, <1>6, <1>8, <1>9, RetopInv
<1>12. DueInv' /\ (\A l : Due(l)' <=> Due(l) \/ l \in conts[x])
  BY <1>2, <1>6, <1>10, <1>11
<1>13. /\ conts' \in [Spawned -> SUBSET ThenCalls]
       /\ value' \in [Spawned -> Nat] /\ ready' \in [Spawned -> BOOLEAN]
  <2>1. Top(t).got + 1 \in Nat
    BY <1>3
  <2> QED
    BY <1>2, <2>1 DEF TypeInv
<1>14. /\ \A z \in Spawned : conts'[z] = IF z = x THEN {} ELSE conts[z]
       /\ \A z \in Spawned \ {x} : ready'[z] = ready[z]
  BY <1>2 DEF TypeInv
<1>15. TypeInv'
  BY <1>2, <1>11, <1>13 DEF TypeInv
<1>16. SlotsInv' /\ HeldInv' /\ SpawnInv'
  BY <1>2, <1>11, PlacesSame
<1>17. ThenInv'
  <2>1. \A z \in Spawned : \A l \in conts'[z] : Of(l) = z
    BY <1>14 DEF ThenInv
  <2>2. \A z \in Spawned : ready'[z] => conts'[z] = {}
    BY <1>14 DEF ThenInv
  <2>3. ASSUME NEW l \in ThenCalls
        PROVE  /\ ran'[l] <= 1
               /\ l \in conts'[Of(l)] \/ Due(l)' \/ ran'[l] # 0
                    => l \in conts[Of(l)] \/ Due(l) \/ ran[l] # 0 \/ Passed(l[1], l[2])'
               /\ ~(l \in conts'[Of(l)] /\ (Due(l)' \/ ran'[l] # 0))
               /\ ~(Due(l)' /\ ran'[l] # 0)
    <3>1. Of(l) \in Spawned /\ ran'[l] = ran[l]
      BY <1>2, ThenFacts
    <3>2. CASE l \in conts[x]
      BY <3>1, <3>2, <1>10, <1>12, <1>14
    <3>3. CASE l \notin conts[x]
      <4>1. (l \in conts'[Of(l)] => l \in conts[Of(l)]) /\ (Due(l)' <=> Due(l))
        BY <3>1, <3>3, <1>12, <1>14
      <4> QED
        BY <3>1, <4>1 DEF ThenInv
    <3> QED
      BY <3>2, <3>3
  <2> QED
    BY <1>11, <2>1, <2>2, <2>3, ThenStep
<1> QED
  BY <1>11, <1>12, <1>15, <1>16, <1>17

(* A continuation that is due runs.                                        *)
LEMMA RunContinuationInv ==
  ASSUME IInv, NEW t \in Threads, RunContinuation(t)
  PROVE  IInv'
<1> USE DEF IInv
<1>1. PICK k \in Top(t).run :
        /\ ran' = [ran EXCEPT ![k] = @ + 1]
        /\ stack' = [stack EXCEPT ![t] = Below(t) \o <<[Top(t) EXCEPT !.run = @ \ {k}]>>]
  BY DEF RunContinuation
<1>2. stack[t] # <<>> /\ UNCHANGED <<deque, injection, ready, value, conts, done>>
  BY DEF RunContinuation
<1>3. /\ Top(t) \in FrameSet /\ Top(t).pc \in Nat /\ Top(t).run \in SUBSET ThenCalls
      /\ Top(t).pc <= Len(Prog[Top(t).task]) + 1
      /\ Len(stack[t]) \in 1 .. Len(stack[t]) /\ Top(t) = stack[t][Len(stack[t])]
  BY <1>2, TopFacts
<1>4. \A l \in Top(t).run : Due(l)
  BY <1>3 DEF Due
<1>5. k \in ThenCalls /\ Due(k) /\ ran[k] = 0 /\ k \notin conts[Of(k)]
  BY <1>3, <1>4 DEF ThenInv
<1>6. PICK f : f = [Top(t) EXCEPT !.run = @ \ {k}]
  OBVIOUS
<1>7. f \in FrameSet /\ f.task = Top(t).task /\ f.pc = Top(t).pc /\ f.run = Top(t).run \ {k}
  BY <1>3, <1>6 DEF FrameSet
<1>8. stack' = [stack EXCEPT ![t] = Below(t) \o <<f>>]
  BY <1>1, <1>6
<1>9. Retopped(t, f)
  BY <1>2, <1>7, <1>8, Retop
<1>10. f.task = Top(t).task /\ f.pc >= Top(t).pc /\ f.pc <= Len(Prog[f.task]) + 1 /\ done' = done
  BY <1>2, <1>3, <1>7
<1>11. /\ stack' \in [Threads -> Seq(FrameSet)]
       /\ \A u \in Threads : \A j \in 1 .. Len(stack'[u]) :
            stack'[u][j].pc <= Len(Prog[stack'[u][j].task]) + 1
       /\ FramesInv'
       /\ \A z : OnStack(z)' <=> OnStack(z)
       /\ \A z : \A j \in Int : Passed(z, j) => Passed(z, j)'
       /\ \A l : Due(l)' <=> (Due(l) /\ l \notin Top(t).run) \/ l \in f.run
       /\ (\A l \in f.run : l \in Top(t).run \/ ~Due(l)) => DueInv'
  BY <1>2, <1>7, <1>9, <1>10, RetopInv
<1>12. DueInv' /\ (\A l : Due(l)' <=> Due(l) /\ l # k)
  BY <1>4, <1>7, <1>11
<1>13. ran' \in [ThenCalls -> Nat] /\ ran'[k] = 1 /\ \A l \in ThenCalls \ {k} : ran'[l] = ran[l]
  BY <1>1, <1>5 DEF TypeInv
<1>14. TypeInv'
  BY <1>2, <1>11, <1>13 DEF TypeInv
<1>15. SlotsInv' /\ HeldInv' /\ SpawnInv'
  BY <1>2, <1>11, PlacesSame
<1>16. ThenInv'
  <2>1. \A z \in Spawned : \A l \in conts'[z] : Of(l) = z
    BY <1>2 DEF ThenInv
  <2>2. \A z \in Spawned : ready'[z] => conts'[z] = {}
    BY <1>2 DEF ThenInv
  <2>3. ASSUME NEW l \in ThenCalls
        PROVE  /\ ran'[l] <= 1
               /\ l \in conts'[Of(l)] \/ Due(l)' \/ ran'[l] # 0
                    => l \in conts[Of(l)] \/ Due(l) \/ ran[l] # 0 \/ Passed(l[1], l[2])'
               /\ ~(l \in conts'[Of(l)] /\ (Due(l)' \/ ran'[l] # 0))
               /\ ~(Due(l)' /\ ran'[l] # 0)
    <3>1. CASE l = k
      BY <3>1, <1>2, <1>5, <1>12, <1>13
    <3>2. CASE l # k
      <4>1. ran'[l] = ran[l] /\ (Due(l)' <=> Due(l))
        BY <3>2, <1>12, <1>13
      <4> QED
        BY <4>1, <1>2 DEF ThenInv
    <3> QED
      BY <3>1, <3>2
  <2> QED
    BY <1>11, <2>1, <2>2, <2>3, ThenStep
<1> QED
  BY <1>11, <1>12, <1>14, <1>15, <1>16

(* A task that returns leaves its stack and counts as completed.           *)
LEMMA ReturnInv ==
  ASSUME IInv, NEW t \in Threads, Return(t)
  PROVE  IInv'
<1> USE DEF IInv
<1>1. PICK x, n : x = Top(t).task /\ n = Len(stack[t])
  OBVIOUS
<1>2. /\ stack[t] # <<>> /\ Top(t).run = {}
      /\ done' = [done EXCEPT ![x] = @ + 1]
      /\ stack' = [stack EXCEPT ![t] = Below(t)]
      /\ UNCHANGED <<deque, injection, ready, value, conts, ran>>
  BY <1>1 DEF Return, Running
<1>3. n \in 1 .. Len(stack[t]) /\ stack[t][n].task = x /\ stack[t][n].run = {} /\ x \in Tasks
  BY <1>1, <1>2, TopFacts
<1>4. PICK b : b = Below(t)
  OBVIOUS
<1>5. b \in Seq(FrameSet) /\ Len(b) = n - 1 /\ n \in Nat \ {0} /\ \A i \in 1 .. n - 1 : b[i] = stack[t][i]
  BY <1>1, <1>2, <1>4, BelowFacts
<1>6. stack' \in [Threads -> Seq(FrameSet)] /\ stack'[t] = b /\ \A u \in Threads \ {t} : stack'[u] = stack[u]
  BY <1>2, <1>4, <1>5 DEF TypeInv
<1>7. \A u \in Threads : \A i \in 1 .. Len(stack'[u]) :
        i \in 1 .. Len(stack[u]) /\ stack'[u][i] = stack[u][i] /\ ~(u = t /\ i = n)
  BY <1>1, <1>5, <1>6
<1>8. \A u \in Threads : \A i \in 1 .. Len(stack[u]) :
        u # t \/ i # n => i \in 1 .. Len(stack'[u]) /\ stack'[u][i] = stack[u][i]
  BY <1>1, <1>5, <1>6
<1>9. OnStack(x) /\ done[x] = 0
  BY <1>3 DEF OnStack, HeldInv
<1>10. done' \in [Tasks -> Nat] /\ done'[x] = 1 /\ \A y \in Tasks \ {x} : done'[y] = done[y]
  BY <1>2, <1>3, <1>9 DEF TypeInv
<1>11. TypeInv'
  <2>1. \A u \in Threads : \A i \in 1 .. Len(stack'[u]) :
          stack'[u][i].pc <= Len(Prog[stack'[u][i].task]) + 1
    BY <1>7, FrameFacts
  <2> QED
    BY <1>2, <1>6, <1>10, <2>1 DEF TypeInv
<1>12. FramesInv'
  <2> SUFFICES ASSUME NEW u \in Threads, NEW v \in Threads,
                      NEW i \in 1 .. Len(stack'[u]), NEW j \in 1 .. Len(stack'[v]),
                      stack'[u][i].task = stack'[v][j].task
               PROVE  u = v /\ i = j
    BY DEF FramesInv
  <2>1. i \in 1 .. Len(stack[u]) /\ j \in 1 .. Len(stack[v]) /\ stack[u][i].task = stack[v][j].task
    BY <1>7
  <2> QED
    BY <2>1 DEF FramesInv
<1>13. DueInv'
  <2> SUFFICES ASSUME NEW u \in Threads, NEW v \in Threads,
                      NEW i \in 1 .. Len(stack'[u]), NEW j \in 1 .. Len(stack'[v]),
                      stack'[u][i].run \cap stack'[v][j].run # {}
               PROVE  u = v /\ i = j
    BY DEF DueInv
  <2>1. i \in 1 .. Len(stack[u]) /\ j \in 1 .. Len(stack[v]) /\ stack[u][i].run \cap stack[v][j].run # {}
    BY <1>7
  <2> QED
    BY <2>1 DEF DueInv
<1>14. \A y : OnStack(y)' <=> OnStack(y) /\ y # x
  <2>1. ASSUME NEW y, OnStack(y)' PROVE OnStack(y) /\ y # x
    <3>1. PICK u \in Threads : \E i \in 1 .. Len(stack'[u]) : stack'[u][i].task = y
      BY <2>1 DEF OnStack
    <3>2. PICK i \in 1 .. Len(stack'[u]) : stack'[u][i].task = y
      BY <3>1
    <3>3. i \in 1 .. Len(stack[u]) /\ stack[u][i].task = y /\ ~(u = t /\ i = n)
      BY <1>7, <3>2
    <3>4. y # x
      BY <1>3, <3>3 DEF FramesInv
    <3> QED
      BY <3>3, <3>4 DEF OnStack
  <2>2. ASSUME NEW y, OnStack(y), y # x PROVE OnStack(y)'
    <3>1. PICK u \in Threads : \E i \in 1 .. Len(stack[u]) : stack[u][i].task = y
      BY <2>2 DEF OnStack
    <3>2. PICK i \in 1 .. Len(stack[u]) : stack[u][i].task = y
      BY <3>1
    <3>3. i \in 1 .. Len(stack'[u]) /\ stack'[u][i].task = y
      BY <1>3, <1>8, <2>2, <3>2
    <3> QED
      BY <3>3 DEF OnStack
  <2> QED
    BY <2>1, <2>2
<1>15. ASSUME NEW y \in Tasks, NEW i \in Int, Passed(y, i) PROVE Passed(y, i)'
  <2>1. CASE y = x
    BY <2>1, <1>10 DEF Passed
  <2>2. CASE y # x /\ done[y] # 0
    BY <2>2, <1>10 DEF Passed
  <2>3. CASE y # x /\ done[y] = 0
    <3>1. PICK u \in Threads : \E j \in 1 .. Len(stack[u]) : stack[u][j].task = y /\ stack[u][j].pc > i
      BY <1>15, <2>3 DEF Passed
    <3>2. PICK j \in 1 .. Len(stack[u]) : stack[u][j].task = y /\ stack[u][j].pc > i
      BY <3>1
    <3>3. j \in 1 .. Len(stack'[u]) /\ stack'[u][j] = stack[u][j]
      BY <1>3, <1>8, <2>3, <3>2
    <3> QED
      BY <3>2, <3>3 DEF Passed
  <2> QED
    BY <2>1, <2>2, <2>3
<1>16. \A k : Due(k)' <=> Due(k)
  <2>1. ASSUME NEW k, Due(k)' PROVE Due(k)
    <3>1. PICK u \in Threads : \E i \in 1 .. Len(stack'[u]) : k \in stack'[u][i].run
      BY <2>1 DEF Due
    <3> QED
      BY <3>1, <1>7 DEF Due
  <2>2. ASSUME NEW k, Due(k) PROVE Due(k)'
    <3>1. PICK u \in Threads : \E i \in 1 .. Len(stack[u]) : k \in stack[u][i].run
      BY <2>2 DEF Due
    <3> QED
      BY <3>1, <1>3, <1>8 DEF Due
  <2> QED
    BY <2>1, <2>2
<1>17. SlotsInv' /\ \A y : Queued(y)' <=> Queued(y)
  BY <1>2 DEF SlotsInv, Queued
<1>18. HeldInv'
  <2> SUFFICES ASSUME NEW y \in Tasks
               PROVE  /\ done'[y] <= 1
                      /\ ~(done'[y] # 0 /\ (OnStack(y)' \/ Queued(y)' \/ y \in injection'))
                      /\ ~(OnStack(y)' /\ (Queued(y)' \/ y \in injection'))
                      /\ ~(Queued(y)' /\ y \in injection')
    BY DEF HeldInv
  <2>1. CASE y = x
    BY <2>1, <1>2, <1>9, <1>10, <1>14, <1>17 DEF HeldInv
  <2>2. CASE y # x
    <3>1. done'[y] = done[y] /\ (OnStack(y)' <=> OnStack(y))
      BY <2>2, <1>10, <1>14
    <3> QED
      BY <3>1, <1>2, <1>17 DEF HeldInv
  <2> QED
    BY <2>1, <2>2
<1>19. SpawnInv'
  <2>1. ASSUME NEW y \in Spawned, Held(y)' PROVE Held(y)
    <3>1. CASE y = x
      BY <3>1, <1>9 DEF Held
    <3>2. CASE y # x
      BY <2>1, <3>2, <1>2, <1>10, <1>14, <1>17 DEF Held, Spawned
    <3> QED
      BY <3>1, <3>2
  <2> QED
    BY <1>15, <2>1, SpawnSame
<1>20. ThenInv'
  BY <1>2, <1>15, <1>16, ThenSame
<1> QED
  BY <1>11, <1>12, <1>13, <1>17, <1>18, <1>19, <1>20

(* A queued task is taken by one thread, which runs it.                    *)
LEMMA TakeInv ==
  ASSUME IInv, NEW t \in Threads, Take(t)
  PROVE  IInv'
<1> USE DEF IInv
<1>1. UNCHANGED <<ready, value, conts, ran, done>>
  BY DEF Take
<1>2. PICK x \in Spawned :
        /\ Call(t, x) /\ Held(x) /\ ~OnStack(x)
        /\ deque' \in [Workers -> Seq(Spawned)] /\ injection' \subseteq Spawned
        /\ SlotsInv'
        /\ \A y : Queued(y)' => Queued(y)
        /\ \A y : y \in injection' => y \in injection
        /\ ~Queued(x)' /\ x \notin injection' /\ done[x] = 0
  <2>1. ASSUME NEW w \in Workers, NEW x, deque[w] # <<>>, Call(t, x), injection' = injection,
               \/ /\ x = Head(deque[w])
                  /\ deque' = [deque EXCEPT ![w] = Tail(deque[w])]
               \/ /\ x = deque[w][Len(deque[w])]
                  /\ deque' = [deque EXCEPT ![w] = SubSeq(deque[w], 1, Len(deque[w]) - 1)]
        PROVE  /\ x \in Spawned
               /\ Call(t, x) /\ Held(x) /\ ~OnStack(x)
               /\ deque' \in [Workers -> Seq(Spawned)] /\ injection' \subseteq Spawned
               /\ SlotsInv'
               /\ \A y : Queued(y)' => Queued(y)
               /\ \A y : y \in injection' => y \in injection
               /\ ~Queued(x)' /\ x \notin injection' /\ done[x] = 0
    <3>1. QF!Typed /\ QF!DistinctSlots
      BY DEF TypeInv, SlotsInv, QF!Typed, QF!DistinctSlots
    <3>2. /\ x \in Spawned /\ QF!Holds(x)
          /\ deque' \in [Workers -> Seq(Spawned)]
          /\ QF!DistinctSlots'
          /\ \A y : QF!Holds(y)' <=> QF!Holds(y) /\ y # x
      BY <2>1, <3>1, QF!TakeDistinct
    <3>3. SlotsInv' /\ Queued(x) /\ \A y : Queued(y)' <=> Queued(y) /\ y # x
      BY <3>2 DEF SlotsInv, Queued, QF!DistinctSlots, QF!Holds
    <3>4. x \in Tasks /\ ~OnStack(x) /\ x \notin injection /\ done[x] = 0
      BY <3>2, <3>3 DEF HeldInv, Spawned
    <3> QED
      BY <2>1, <3>2, <3>3, <3>4 DEF Held, TypeInv
  <2>2. CASE PopOwn(t)
    <3>1. t \in Workers /\ Own(t) = deque[t] /\ deque[t] # <<>>
      BY <2>2 DEF PopOwn, Own
    <3>2. /\ Call(t, deque[t][Len(deque[t])]) /\ injection' = injection
          /\ deque' = [deque EXCEPT ![t] = SubSeq(deque[t], 1, Len(deque[t]) - 1)]
      BY <2>2, <3>1 DEF PopOwn
    <3>3. PICK x : x = deque[t][Len(deque[t])]
      OBVIOUS
    <3>4. Call(t, x)
      BY <3>2, <3>3
    <3> QED
      BY <2>1, <3>1, <3>2, <3>3, <3>4
  <2>3. ASSUME NEW w \in Workers, Steal(t, w)
        PROVE  \E x \in Spawned :
                 /\ Call(t, x) /\ Held(x) /\ ~OnStack(x)
                 /\ deque' \in [Workers -> Seq(Spawned)] /\ injection' \subseteq Spawned
                 /\ SlotsInv'
                 /\ \A y : Queued(y)' => Queued(y)
                 /\ \A y : y \in injection' => y \in injection
                 /\ ~Queued(x)' /\ x \notin injection' /\ done[x] = 0
    <3>1. /\ Call(t, Head(deque[w])) /\ injection' = injection /\ deque[w] # <<>>
          /\ deque' = [deque EXCEPT ![w] = Tail(deque[w])]
      BY <2>3 DEF Steal
    <3>2. PICK x : x = Head(deque[w])
      OBVIOUS
    <3>3. Call(t, x)
      BY <3>1, <3>2
    <3> QED
      BY <2>1, <3>1, <3>2, <3>3
  <2>4. CASE PopInjection(t)
    <3>1. PICK x \in injection : Call(t, x) /\ injection' = injection \ {x}
      BY <2>4 DEF PopInjection
    <3>2. deque' = deque
      BY <2>4 DEF PopInjection
    <3>3. SlotsInv' /\ \A y : Queued(y)' <=> Queued(y)
      BY <3>2 DEF SlotsInv, Queued
    <3>4. x \in Spawned /\ x \in Tasks
      BY <3>1 DEF TypeInv, Spawned
    <3>5. ~OnStack(x) /\ ~Queued(x) /\ done[x] = 0
      BY <3>1, <3>4 DEF HeldInv
    <3> QED
      BY <3>1, <3>2, <3>3, <3>4, <3>5 DEF Held, TypeInv
  <2> QED
    BY <2>2, <2>3, <2>4 DEF Take
<1>3. x \in Tasks
  BY DEF Spawned
<1>4. /\ stack' \in [Threads -> Seq(FrameSet)]
      /\ \A u \in Threads : \A i \in 1 .. Len(stack'[u]) :
           stack'[u][i].pc <= Len(Prog[stack'[u][i].task]) + 1
      /\ FramesInv' /\ DueInv'
      /\ \A y : OnStack(y)' <=> OnStack(y) \/ y = x
      /\ \A y : \A i \in Int : Passed(y, i) => Passed(y, i)'
      /\ \A k : Due(k)' <=> Due(k)
  BY <1>1, <1>2, <1>3, CallInv
<1>5. TypeInv'
  BY <1>1, <1>2, <1>4 DEF TypeInv
<1>6. HeldInv'
  BY <1>1, <1>2, <1>4 DEF HeldInv
<1>7. SpawnInv'
  <2>1. \A y \in Spawned : Held(y)' => Held(y)
    BY <1>1, <1>2, <1>4 DEF Held
  <2> QED
    BY <1>4, <2>1, SpawnSame
<1>8. ThenInv'
  BY <1>1, <1>4, ThenSame
<1> QED
  BY <1>2, <1>4, <1>5, <1>6, <1>7, <1>8

(***************************************************************************)
(* The inductive invariant holds for every number of workers and every     *)
(* tree of tasks.                                                          *)
(***************************************************************************)
THEOREM Invariant == Spec => []IInv
<1>1. ASSUME IInv, [Next]_vars PROVE IInv'
  <2>1. ASSUME NEW t \in Threads, Step(t) PROVE IInv'
    <3>1. CASE GetReturn(t) \/ GetMiss(t) \/ HelpMiss(t)
      BY <1>1, <3>1, GetInv
    <3>2. CASE Spawn(t)
      BY <1>1, <3>2, SpawnStepInv
    <3>3. CASE Then(t)
      BY <1>1, <3>3, ThenStepInv
    <3>4. CASE Set(t)
      BY <1>1, <3>4, SetInv
    <3>5. CASE RunContinuation(t)
      BY <1>1, <3>5, RunContinuationInv
    <3>6. CASE Return(t)
      BY <1>1, <3>6, ReturnInv
    <3>7. CASE Take(t)
      BY <1>1, <3>7, TakeInv
    <3> QED
      BY <2>1, <3>1, <3>2, <3>3, <3>4, <3>5, <3>6, <3>7 DEF Step
  <2>2. CASE UNCHANGED vars
    <3>1. TypeInv' /\ FramesInv' /\ SlotsInv' /\ DueInv'
      BY <1>1, <2>2 DEF IInv, TypeInv, FramesInv, SlotsInv, DueInv, vars
    <3>2. /\ \A x : (OnStack(x)' <=> OnStack(x)) /\ (Queued(x)' <=> Queued(x))
          /\ \A x, i : Passed(x, i)' <=> Passed(x, i)
          /\ \A k : Due(k)' <=> Due(k)
      BY <2>2 DEF OnStack, Queued, Passed, Due, vars
    <3>3. HeldInv' /\ SpawnInv'
      BY <1>1, <2>2, <3>2, PlacesSame DEF vars
    <3>4. ThenInv'
      BY <1>1, <2>2, <3>2, ThenSame DEF vars, IInv
    <3> QED
      BY <3>1, <3>3, <3>4 DEF IInv
  <2> QED
    BY <1>1, <2>1, <2>2 DEF Next, Terminated
<1> QED
  BY <1>1, InitInv, PTL DEF Spec

(* Frames, queues and futures keep their types.                            *)
THEOREM TypeCorrect == Spec => []TypeOK
<1>1. IInv => TypeOK
  <2> SUFFICES ASSUME IInv PROVE TypeOK
    OBVIOUS
  <2>1. ASSUME NEW t \in Threads, NEW i \in 1 .. Len(stack[t])
        PROVE  /\ stack[t][i].task \in Tasks
               /\ stack[t][i].pc \in 1 .. Len(Prog[stack[t][i].task]) + 1
    <3>1. /\ stack[t][i].task \in Tasks /\ stack[t][i].pc \in Nat \ {0}
          /\ stack[t][i].pc <= Len(Prog[stack[t][i].task]) + 1
      BY FrameFacts DEF IInv
    <3>2. Len(Prog[stack[t][i].task]) \in Nat
      BY <3>1, ProgFacts
    <3> QED
      BY <3>1, <3>2
  <2>2. ASSUME NEW x \in Spawned, NEW k \in conts[x] PROVE Makes(k[1], "then", x)
    <3>1. k \in ThenCalls
      BY DEF IInv, TypeInv
    <3>2. Of(k) = x
      BY DEF IInv, ThenInv
    <3> QED
      BY <3>1, <3>2, ThenFacts
  <2>3. /\ deque \in [Workers -> Seq(Spawned)] /\ injection \subseteq Spawned
        /\ ready \in [Spawned -> BOOLEAN] /\ value \in [Spawned -> Nat]
    BY DEF IInv, TypeInv
  <2> QED
    BY <2>1, <2>2, <2>3 DEF TypeOK
<1> QED
  BY <1>1, Invariant, PTL

(* Whoever takes a task calls it.                                          *)
LEMMA TakesTask ==
  ASSUME TypeInv, NEW t \in Threads, Take(t)
  PROVE  \E x \in Tasks : Call(t, x)
<1>1. CASE PopOwn(t)
  <2>1. t \in Workers /\ deque[t] # <<>> /\ Call(t, deque[t][Len(deque[t])])
    BY <1>1 DEF PopOwn, Own
  <2>2. deque[t] \in Seq(Spawned)
    BY <2>1 DEF TypeInv
  <2>3. deque[t][Len(deque[t])] \in Spawned
    BY <2>1, <2>2
  <2> QED
    BY <2>1, <2>3 DEF Spawned
<1>2. CASE PopInjection(t)
  BY <1>2 DEF PopInjection, TypeInv, Spawned
<1>3. ASSUME NEW w \in Workers, Steal(t, w)
      PROVE  \E x \in Tasks : Call(t, x)
  <2>1. deque[w] # <<>> /\ Call(t, Head(deque[w])) /\ deque[w] \in Seq(Spawned)
    BY <1>3 DEF Steal, TypeInv
  <2>2. Head(deque[w]) \in Spawned
    BY <2>1
  <2> QED
    BY <2>1, <2>2 DEF Spawned
<1> QED
  BY <1>1, <1>2, <1>3 DEF Take

(* Nothing is lost: a continuation whose then was called is somewhere, and *)
(* it is due or has run only when its future is resolved.                  *)
KeptInv ==
  \A k \in ThenCalls :
    /\ Passed(k[1], k[2]) => k \in conts[Of(k)] \/ Due(k) \/ ran[k] # 0
    /\ Due(k) \/ ran[k] # 0 => ready[Of(k)]

(* A step of the running frame passes at most the call it is at.           *)
LEMMA RetopPassed ==
  ASSUME TypeInv, NEW t \in Threads, stack[t] # <<>>, NEW f \in FrameSet,
         f.task = Top(t).task, f.pc \in {Top(t).pc, Top(t).pc + 1},
         Retopped(t, f), done' = done,
         NEW x, NEW i \in Int, Passed(x, i)'
  PROVE  Passed(x, i) \/ (f.pc = Top(t).pc + 1 /\ x = Top(t).task /\ i = Top(t).pc)
<1>1. CASE done[x] # 0
  BY <1>1 DEF Passed
<1>2. ASSUME NEW u \in Threads, NEW j \in 1 .. Len(stack'[u]), stack'[u][j].task = x, stack'[u][j].pc > i
      PROVE  Passed(x, i) \/ (f.pc = Top(t).pc + 1 /\ x = Top(t).task /\ i = Top(t).pc)
  <2>1. j \in 1 .. Len(stack[u])
    BY DEF Retopped
  <2>2. CASE u # t \/ j # Len(stack[t])
    <3>1. stack'[u][j] = stack[u][j]
      BY <2>1, <2>2 DEF Retopped
    <3> QED
      BY <1>2, <2>1, <3>1 DEF Passed
  <2>3. CASE u = t /\ j = Len(stack[t])
    <3>1. stack'[u][j] = f /\ stack[u][j] = Top(t) /\ Top(t).pc \in Nat
      BY <2>3, TopFacts DEF Retopped
    <3>2. x = Top(t).task /\ f.pc > i
      BY <1>2, <3>1
    <3>3. CASE Top(t).pc > i
      BY <2>1, <3>1, <3>2, <3>3 DEF Passed
    <3>4. CASE ~(Top(t).pc > i)
      BY <3>1, <3>2, <3>4
    <3> QED
      BY <3>3, <3>4
  <2> QED
    BY <2>2, <2>3
<1> QED
  BY <1>1, <1>2 DEF Passed

(* The continuations after a step of the running frame: which are due, and *)
(* which call of then is new.                                              *)
LEMMA RetopThen ==
  ASSUME IInv, NEW t \in Threads, stack[t] # <<>>, NEW f \in FrameSet,
         f.task = Top(t).task, f.pc \in {Top(t).pc, Top(t).pc + 1}, f.pc <= Len(Prog[f.task]) + 1,
         stack' = [stack EXCEPT ![t] = Below(t) \o <<f>>], done' = done
  PROVE  \A k \in ThenCalls :
           /\ Due(k)' <=> (Due(k) /\ k \notin Top(t).run) \/ k \in f.run
           /\ Passed(k[1], k[2])' => \/ Passed(k[1], k[2])
                                     \/ f.pc # Top(t).pc /\ k = <<Top(t).task, Top(t).pc>>
<1>1. Retopped(t, f) /\ TypeInv /\ Top(t).pc \in Nat /\ f.pc >= Top(t).pc
  <2>1. TypeInv
    BY DEF IInv
  <2>2. Retopped(t, f)
    BY <2>1, Retop
  <2>3. Top(t).pc \in Nat
    BY <2>1, TopFacts
  <2> QED
    BY <2>1, <2>2, <2>3
<1>2. \A k : Due(k)' <=> (Due(k) /\ k \notin Top(t).run) \/ k \in f.run
  BY <1>1, RetopInv
<1>3. ASSUME NEW k \in ThenCalls, Passed(k[1], k[2])'
      PROVE  Passed(k[1], k[2]) \/ (f.pc # Top(t).pc /\ k = <<Top(t).task, Top(t).pc>>)
  <2>1. k[2] \in Int /\ k = <<k[1], k[2]>>
    BY ThenFacts
  <2>2. \/ Passed(k[1], k[2])
        \/ f.pc = Top(t).pc + 1 /\ k[1] = Top(t).task /\ k[2] = Top(t).pc
    BY <1>1, <1>3, <2>1, RetopPassed
  <2> QED
    BY <1>1, <2>1, <2>2
<1> QED
  BY <1>2, <1>3

(* spawn, and get whether it returns, waits or finds nothing to do.        *)
LEMMA CallKept ==
  ASSUME IInv, KeptInv, NEW t \in Threads, Spawn(t) \/ GetReturn(t) \/ GetMiss(t) \/ HelpMiss(t)
  PROVE  KeptInv'
<1>1. PICK c \in {"spawn", "get"} : AtCall(t, c)
  BY DEF Spawn, GetReturn, GetMiss, HelpMiss
<1>2. /\ stack[t] # <<>> /\ Top(t) \in FrameSet /\ Top(t).pc \in 1 .. Len(Prog[Top(t).task])
      /\ Top(t).task \in Tasks /\ Top(t).run = {} /\ Arg(t) \in Spawned
      /\ Prog[Top(t).task][Top(t).pc].call = c
  BY <1>1, AtCallFacts, TopFacts DEF IInv
<1>3. UNCHANGED <<ready, conts, ran, done>>
  BY DEF Spawn, GetReturn, GetMiss, HelpMiss
<1>4. PICK f \in FrameSet :
        /\ f.task = Top(t).task /\ f.pc \in {Top(t).pc, Top(t).pc + 1} /\ f.run = {}
        /\ stack' = [stack EXCEPT ![t] = Below(t) \o <<f>>]
  <2>1. ASSUME NEW g \in FrameSet, g.task = Top(t).task, g.pc = Top(t).pc, g.run = {}, Advance(t, g)
        PROVE  \E f \in FrameSet :
                 /\ f.task = Top(t).task /\ f.pc \in {Top(t).pc, Top(t).pc + 1} /\ f.run = {}
                 /\ stack' = [stack EXCEPT ![t] = Below(t) \o <<f>>]
    <3>1. PICK f : f = [g EXCEPT !.pc = @ + 1]
      OBVIOUS
    <3>2. f \in FrameSet /\ f.task = Top(t).task /\ f.pc = Top(t).pc + 1 /\ f.run = {}
      BY <2>1, <3>1, Advanced
    <3>3. stack' = [stack EXCEPT ![t] = Below(t) \o <<f>>]
      BY <2>1, <3>1 DEF Advance
    <3> QED
      BY <3>2, <3>3
  <2>2. CASE Spawn(t)
    BY <1>2, <2>1, <2>2 DEF Spawn
  <2>3. CASE GetReturn(t)
    <3>1. PICK g : g = [Top(t) EXCEPT !.got = @ + value[Arg(t)]]
      OBVIOUS
    <3>2. value[Arg(t)] \in Nat
      BY <1>2 DEF IInv, TypeInv
    <3>3. g \in FrameSet /\ g.task = Top(t).task /\ g.pc = Top(t).pc /\ g.run = {}
      BY <1>2, <3>1, <3>2 DEF FrameSet
    <3>4. Advance(t, g)
      BY <2>3, <3>1 DEF GetReturn
    <3> QED
      BY <2>1, <3>3, <3>4
  <2>4. CASE GetMiss(t) \/ HelpMiss(t)
    <3>1. PICK b \in BOOLEAN : stack' = [stack EXCEPT ![t] = Below(t) \o <<[Top(t) EXCEPT !.missed = b]>>]
      BY <2>4 DEF GetMiss, HelpMiss
    <3>2. PICK f : f = [Top(t) EXCEPT !.missed = b]
      OBVIOUS
    <3>3. f \in FrameSet /\ f.task = Top(t).task /\ f.pc = Top(t).pc /\ f.run = {}
      BY <1>2, <3>2 DEF FrameSet
    <3> QED
      BY <3>1, <3>2, <3>3
  <2> QED
    BY <2>2, <2>3, <2>4
<1>5. f.pc <= Len(Prog[f.task]) + 1
  BY <1>2, <1>4, ProgFacts
<1> SUFFICES ASSUME NEW k \in ThenCalls
             PROVE  /\ Passed(k[1], k[2])' => k \in conts'[Of(k)] \/ Due(k)' \/ ran'[k] # 0
                    /\ Due(k)' \/ ran'[k] # 0 => ready'[Of(k)]
  BY DEF KeptInv, Of
<1>6. k # <<Top(t).task, Top(t).pc>>
  BY <1>2 DEF ThenCalls
<1>7. (Due(k)' <=> Due(k)) /\ (Passed(k[1], k[2])' => Passed(k[1], k[2]))
  BY <1>2, <1>3, <1>4, <1>5, <1>6, RetopThen
<1> QED
  BY <1>3, <1>7 DEF KeptInv

(* then registers the continuation, or it is due at once.                  *)
LEMMA ThenKept ==
  ASSUME IInv, KeptInv, NEW t \in Threads, Then(t)
  PROVE  KeptInv'
<1>1. PICK x, i, y, k : x = Top(t).task /\ i = Top(t).pc /\ y = Arg(t) /\ k = <<x, i>>
  OBVIOUS
<1>2. /\ stack[t] # <<>> /\ Top(t) \in FrameSet /\ i \in 1 .. Len(Prog[x])
      /\ x \in Tasks /\ Top(t).run = {} /\ y \in Spawned /\ y = Prog[x][i].of
      /\ Prog[x][i].call = "then"
  <2>1. AtCall(t, "then") /\ TypeInv
    BY DEF Then, IInv
  <2> QED
    BY <1>1, <2>1, AtCallFacts, TopFacts
<1>3. k \in ThenCalls /\ Of(k) = y
  BY <1>1, <1>2, ThenFacts DEF Of
<1>4. PICK g : g = IF ready[y] THEN [Top(t) EXCEPT !.run = {k}] ELSE Top(t)
  OBVIOUS
<1>5. g \in FrameSet /\ g.task = x /\ g.pc = i /\ g.run = IF ready[y] THEN {k} ELSE {}
  BY <1>1, <1>2, <1>3, <1>4 DEF FrameSet
<1>6. PICK f : f = [g EXCEPT !.pc = @ + 1]
  OBVIOUS
<1>7. f \in FrameSet /\ f.task = x /\ f.pc = i + 1 /\ f.run = IF ready[y] THEN {k} ELSE {}
  BY <1>5, <1>6, Advanced
<1>8. /\ stack' = [stack EXCEPT ![t] = Below(t) \o <<f>>]
      /\ conts' = IF ready[y] THEN conts ELSE [conts EXCEPT ![y] = @ \cup {k}]
      /\ UNCHANGED <<ready, ran, done>>
  BY <1>1, <1>4, <1>6 DEF Then, Advance
<1>9. f.pc <= Len(Prog[f.task]) + 1
  BY <1>2, <1>7, ProgFacts
<1>10. \A l \in ThenCalls :
         /\ Due(l)' <=> Due(l) \/ l \in f.run
         /\ Passed(l[1], l[2])' => Passed(l[1], l[2]) \/ l = k
  BY <1>1, <1>2, <1>7, <1>8, <1>9, RetopThen
<1>11. \A z \in Spawned : conts'[z] = IF z = y /\ ~ready[y] THEN conts[z] \cup {k} ELSE conts[z]
  BY <1>2, <1>8 DEF IInv, TypeInv
<1> SUFFICES ASSUME NEW l \in ThenCalls
             PROVE  /\ Passed(l[1], l[2])' => l \in conts'[Of(l)] \/ Due(l)' \/ ran'[l] # 0
                    /\ Due(l)' \/ ran'[l] # 0 => ready'[Of(l)]
  BY DEF KeptInv, Of
<1>12. Of(l) \in Spawned /\ ran'[l] = ran[l] /\ ready'[Of(l)] = ready[Of(l)]
  BY <1>8, ThenFacts
<1>13. CASE l = k
  <2>1. CASE ready[y]
    BY <1>3, <1>7, <1>10, <1>12, <1>13, <2>1
  <2>2. CASE ~ready[y]
    <3>1. l \in conts'[Of(l)] /\ (Due(l)' <=> Due(l))
      BY <1>3, <1>7, <1>10, <1>11, <1>12, <1>13, <2>2
    <3> QED
      BY <1>12, <3>1 DEF KeptInv
  <2> QED
    BY <2>1, <2>2
<1>14. CASE l # k
  <2>1. (Due(l)' <=> Due(l)) /\ (Passed(l[1], l[2])' => Passed(l[1], l[2]))
    BY <1>7, <1>10, <1>14
  <2>2. l \in conts[Of(l)] => l \in conts'[Of(l)]
    BY <1>11, <1>12
  <2> QED
    BY <1>12, <2>1, <2>2 DEF KeptInv
<1> QED
  BY <1>13, <1>14

(* set: what waited is due, and the future resolved.                       *)
LEMMA SetKept ==
  ASSUME IInv, KeptInv, NEW t \in Threads, Set(t)
  PROVE  KeptInv'
<1>1. PICK x : x = Top(t).task
  OBVIOUS
<1>2. /\ stack[t] # <<>> /\ Top(t).run = {} /\ x # Main
      /\ ready' = [ready EXCEPT ![x] = TRUE]
      /\ conts' = [conts EXCEPT ![x] = {}]
      /\ UNCHANGED <<ran, done>>
  BY <1>1 DEF Set, Running
<1>3. /\ Top(t) \in FrameSet /\ x \in Spawned
      /\ Top(t).pc \in Nat /\ Top(t).pc <= Len(Prog[x]) + 1
      /\ conts[x] \in SUBSET ThenCalls
  BY <1>1, <1>2, TopFacts DEF Spawned, IInv, TypeInv
<1>4. PICK f : f = [Top(t) EXCEPT !.run = conts[x], !.set = TRUE]
  OBVIOUS
<1>5. f \in FrameSet /\ f.task = x /\ f.pc = Top(t).pc /\ f.run = conts[x]
  BY <1>1, <1>3, <1>4 DEF FrameSet
<1>6. stack' = [stack EXCEPT ![t] = Below(t) \o <<f>>]
  BY <1>1, <1>4 DEF Set
<1>7. \A l \in ThenCalls : /\ Due(l)' <=> Due(l) \/ l \in conts[x]
                           /\ Passed(l[1], l[2])' => Passed(l[1], l[2])
  BY <1>1, <1>2, <1>3, <1>5, <1>6, RetopThen
<1>8. /\ \A z \in Spawned : conts'[z] = IF z = x THEN {} ELSE conts[z]
      /\ \A z \in Spawned : ready'[z] <=> ready[z] \/ z = x
  BY <1>2 DEF IInv, TypeInv
<1> SUFFICES ASSUME NEW l \in ThenCalls
             PROVE  /\ Passed(l[1], l[2])' => l \in conts'[Of(l)] \/ Due(l)' \/ ran'[l] # 0
                    /\ Due(l)' \/ ran'[l] # 0 => ready'[Of(l)]
  BY DEF KeptInv, Of
<1>9. Of(l) \in Spawned /\ ran'[l] = ran[l]
  BY <1>2, ThenFacts
<1>10. l \in conts[x] => Of(l) = x
  BY <1>3 DEF IInv, ThenInv
<1>11. l \in conts[Of(l)] => l \in conts'[Of(l)] \/ Due(l)'
  BY <1>7, <1>8, <1>9
<1>12. Due(l)' => Due(l) \/ Of(l) = x
  BY <1>7, <1>10
<1>13. Due(l) => Due(l)'
  BY <1>7
<1>14. (Passed(l[1], l[2])' => l \in conts[Of(l)] \/ Due(l) \/ ran[l] # 0) /\ (Due(l) \/ ran[l] # 0 => ready[Of(l)])
  BY <1>7 DEF KeptInv
<1> QED
  BY <1>8, <1>9, <1>11, <1>12, <1>13, <1>14

(* A continuation that runs was due.                                       *)
LEMMA RunKept ==
  ASSUME IInv, KeptInv, NEW t \in Threads, RunContinuation(t)
  PROVE  KeptInv'
<1>1. PICK k \in Top(t).run :
        /\ ran' = [ran EXCEPT ![k] = @ + 1]
        /\ stack' = [stack EXCEPT ![t] = Below(t) \o <<[Top(t) EXCEPT !.run = @ \ {k}]>>]
  BY DEF RunContinuation
<1>2. stack[t] # <<>> /\ UNCHANGED <<ready, conts, done>>
  BY DEF RunContinuation
<1>3. /\ Top(t) \in FrameSet /\ Top(t).pc \in Nat /\ Top(t).run \in SUBSET ThenCalls
      /\ Top(t).pc <= Len(Prog[Top(t).task]) + 1
      /\ Len(stack[t]) \in 1 .. Len(stack[t]) /\ Top(t) = stack[t][Len(stack[t])]
  BY <1>2, TopFacts DEF IInv
<1>4. \A l \in Top(t).run : Due(l)
  BY <1>3 DEF Due
<1>5. PICK f : f = [Top(t) EXCEPT !.run = @ \ {k}]
  OBVIOUS
<1>6. f \in FrameSet /\ f.task = Top(t).task /\ f.pc = Top(t).pc /\ f.run = Top(t).run \ {k}
  BY <1>3, <1>5 DEF FrameSet
<1>7. \A l \in ThenCalls : /\ Due(l)' <=> (Due(l) /\ l \notin Top(t).run) \/ l \in f.run
                           /\ Passed(l[1], l[2])' => Passed(l[1], l[2])
  BY <1>1, <1>2, <1>3, <1>5, <1>6, RetopThen
<1>8. \A l \in ThenCalls : Due(l)' <=> Due(l) /\ l # k
  BY <1>4, <1>6, <1>7
<1>9. k \in ThenCalls /\ ran'[k] # 0 /\ \A l \in ThenCalls \ {k} : ran'[l] = ran[l]
  BY <1>1, <1>3 DEF IInv, TypeInv
<1> SUFFICES ASSUME NEW l \in ThenCalls
             PROVE  /\ Passed(l[1], l[2])' => l \in conts'[Of(l)] \/ Due(l)' \/ ran'[l] # 0
                    /\ Due(l)' \/ ran'[l] # 0 => ready'[Of(l)]
  BY DEF KeptInv, Of
<1>10. CASE l = k
  <2>1. Due(k)
    BY <1>4
  <2>2. ready[Of(k)]
    BY <1>9, <2>1 DEF KeptInv
  <2> QED
    BY <1>2, <1>9, <1>10, <2>2
<1>11. CASE l # k
  BY <1>2, <1>7, <1>8, <1>9, <1>11 DEF KeptInv
<1> QED
  BY <1>10, <1>11

(* A task that returns has made all its calls.                             *)
LEMMA ReturnKept ==
  ASSUME IInv, KeptInv, NEW t \in Threads, Return(t)
  PROVE  KeptInv'
<1>1. PICK x, n : x = Top(t).task /\ n = Len(stack[t])
  OBVIOUS
<1>2. /\ stack[t] # <<>> /\ Top(t).run = {} /\ Top(t).pc > Len(Prog[x])
      /\ done' = [done EXCEPT ![x] = @ + 1]
      /\ stack' = [stack EXCEPT ![t] = Below(t)]
      /\ UNCHANGED <<ready, conts, ran>>
  BY <1>1 DEF Return, Running
<1>3. /\ n \in 1 .. Len(stack[t]) /\ stack[t][n].task = x /\ stack[t][n].run = {}
      /\ stack[t][n].pc = Top(t).pc /\ Top(t).pc \in Nat /\ x \in Tasks /\ Len(Prog[x]) \in Nat
  BY <1>1, <1>2, TopFacts, ProgFacts DEF IInv
<1>4. PICK b : b = Below(t)
  OBVIOUS
<1>5. Len(b) = n - 1 /\ n \in Nat \ {0} /\ \A i \in 1 .. n - 1 : b[i] = stack[t][i]
  BY <1>1, <1>2, <1>4, BelowFacts DEF IInv
<1>6. stack'[t] = b /\ \A u \in Threads \ {t} : stack'[u] = stack[u]
  BY <1>2, <1>4 DEF IInv, TypeInv
<1>7. \A u \in Threads : \A i \in 1 .. Len(stack'[u]) :
        i \in 1 .. Len(stack[u]) /\ stack'[u][i] = stack[u][i]
  BY <1>1, <1>5, <1>6
<1>8. \A u \in Threads : \A i \in 1 .. Len(stack[u]) :
        u # t \/ i # n => i \in 1 .. Len(stack'[u]) /\ stack'[u][i] = stack[u][i]
  BY <1>1, <1>5, <1>6
<1>9. \A y \in Tasks \ {x} : done'[y] = done[y]
  BY <1>2 DEF IInv, TypeInv
<1>10. \A k : Due(k)' <=> Due(k)
  <2>1. ASSUME NEW k, Due(k)' PROVE Due(k)
    <3>1. PICK u \in Threads : \E i \in 1 .. Len(stack'[u]) : k \in stack'[u][i].run
      BY <2>1 DEF Due
    <3> QED
      BY <3>1, <1>7 DEF Due
  <2>2. ASSUME NEW k, Due(k) PROVE Due(k)'
    <3>1. PICK u \in Threads : \E i \in 1 .. Len(stack[u]) : k \in stack[u][i].run
      BY <2>2 DEF Due
    <3> QED
      BY <3>1, <1>3, <1>8 DEF Due
  <2> QED
    BY <2>1, <2>2
<1>11. ASSUME NEW k \in ThenCalls, Passed(k[1], k[2])' PROVE Passed(k[1], k[2])
  <2>1. k[1] \in Tasks /\ k[2] \in 1 .. Len(Prog[k[1]])
    BY ThenFacts
  <2>2. CASE k[1] = x
    <3>1. stack[t][n].pc > k[2]
      BY <1>2, <1>3, <2>1, <2>2
    <3> QED
      BY <1>3, <2>2, <3>1 DEF Passed
  <2>3. CASE k[1] # x
    <3>1. done'[k[1]] = done[k[1]]
      BY <1>9, <2>1, <2>3
    <3> QED
      BY <1>7, <1>11, <3>1 DEF Passed
  <2> QED
    BY <2>2, <2>3
<1> SUFFICES ASSUME NEW k \in ThenCalls
             PROVE  /\ Passed(k[1], k[2])' => k \in conts'[Of(k)] \/ Due(k)' \/ ran'[k] # 0
                    /\ Due(k)' \/ ran'[k] # 0 => ready'[Of(k)]
  BY DEF KeptInv, Of
<1> QED
  BY <1>2, <1>10, <1>11 DEF KeptInv

(* A task that begins has made no call.                                    *)
LEMMA TakeKept ==
  ASSUME IInv, KeptInv, NEW t \in Threads, Take(t)
  PROVE  KeptInv'
<1>1. UNCHANGED <<ready, conts, ran, done>>
  BY DEF Take
<1>2. PICK x \in Tasks : Call(t, x)
  BY TakesTask DEF IInv
<1>3. PICK n \in Nat : n = Len(stack[t])
  BY FrameFacts DEF IInv
<1>4. /\ Len(stack'[t]) = n + 1 /\ stack'[t][n + 1] = Frame(x)
      /\ \A u \in Threads \ {t} : stack'[u] = stack[u]
      /\ \A i \in 1 .. n : /\ stack'[t][i].task = stack[t][i].task
                           /\ stack'[t][i].pc = stack[t][i].pc
                           /\ stack'[t][i].run = stack[t][i].run
  BY <1>2, <1>3, CallStack DEF IInv
<1>5. Frame(x).pc = 1 /\ Frame(x).run = {}
  BY DEF Frame
<1>6. \A u \in Threads : \A i \in 1 .. Len(stack[u]) :
        /\ i \in 1 .. Len(stack'[u])
        /\ stack'[u][i].run = stack[u][i].run
  BY <1>3, <1>4
<1>7. \A u \in Threads : \A i \in 1 .. Len(stack'[u]) :
        \/ stack'[u][i].pc = 1 /\ stack'[u][i].run = {}
        \/ /\ i \in 1 .. Len(stack[u])
           /\ stack'[u][i].task = stack[u][i].task
           /\ stack'[u][i].pc = stack[u][i].pc
           /\ stack'[u][i].run = stack[u][i].run
  <2> SUFFICES ASSUME NEW u \in Threads, NEW i \in 1 .. Len(stack'[u])
               PROVE  \/ stack'[u][i].pc = 1 /\ stack'[u][i].run = {}
                      \/ /\ i \in 1 .. Len(stack[u])
                         /\ stack'[u][i].task = stack[u][i].task
                         /\ stack'[u][i].pc = stack[u][i].pc
                         /\ stack'[u][i].run = stack[u][i].run
    OBVIOUS
  <2>1. CASE u # t
    BY <1>4, <2>1
  <2>2. CASE u = t /\ i = n + 1
    BY <1>4, <1>5, <2>2
  <2>3. CASE u = t /\ i # n + 1
    <3>1. i \in 1 .. n
      BY <1>3, <1>4, <2>3
    <3> QED
      BY <1>3, <1>4, <2>3, <3>1
  <2> QED
    BY <2>1, <2>2, <2>3
<1>8. \A k : Due(k)' <=> Due(k)
  <2>1. ASSUME NEW k, Due(k)' PROVE Due(k)
    <3>1. PICK u \in Threads : \E i \in 1 .. Len(stack'[u]) : k \in stack'[u][i].run
      BY <2>1 DEF Due
    <3>2. PICK i \in 1 .. Len(stack'[u]) : k \in stack'[u][i].run
      BY <3>1
    <3> QED
      BY <3>2, <1>7 DEF Due
  <2>2. ASSUME NEW k, Due(k) PROVE Due(k)'
    BY <2>2, <1>6 DEF Due
  <2> QED
    BY <2>1, <2>2
<1>9. ASSUME NEW k \in ThenCalls, Passed(k[1], k[2])' PROVE Passed(k[1], k[2])
  <2>1. k[2] \in 1 .. Len(Prog[k[1]]) /\ Len(Prog[k[1]]) \in Nat
    BY ThenFacts, ProgFacts
  <2>2. ~(1 > k[2])
    BY <2>1
  <2>3. CASE done[k[1]] # 0
    BY <2>3 DEF Passed
  <2>4. CASE done[k[1]] = 0
    <3>1. PICK u \in Threads : \E j \in 1 .. Len(stack'[u]) :
            stack'[u][j].task = k[1] /\ stack'[u][j].pc > k[2]
      BY <1>1, <1>9, <2>4 DEF Passed
    <3>2. PICK j \in 1 .. Len(stack'[u]) : stack'[u][j].task = k[1] /\ stack'[u][j].pc > k[2]
      BY <3>1
    <3>3. j \in 1 .. Len(stack[u]) /\ stack[u][j].task = k[1] /\ stack[u][j].pc > k[2]
      BY <1>7, <2>2, <3>2
    <3> QED
      BY <3>3 DEF Passed
  <2> QED
    BY <2>3, <2>4
<1> SUFFICES ASSUME NEW k \in ThenCalls
             PROVE  /\ Passed(k[1], k[2])' => k \in conts'[Of(k)] \/ Due(k)' \/ ran'[k] # 0
                    /\ Due(k)' \/ ran'[k] # 0 => ready'[Of(k)]
  BY DEF KeptInv, Of
<1> QED
  BY <1>1, <1>8, <1>9 DEF KeptInv

(***************************************************************************)
(* No continuation is lost or run twice, on whichever side of the race     *)
(* between set and then it falls, and none is due before its future is     *)
(* resolved.                                                               *)
(***************************************************************************)
THEOREM ContinuationsRunOnce == Spec => []ContinuationsOnce
<1>1. Init => KeptInv
  <2> SUFFICES ASSUME Init, NEW k \in ThenCalls
               PROVE  ~Passed(k[1], k[2]) /\ ~Due(k) /\ ran[k] = 0
    BY DEF KeptInv
  <2>1. k[1] \in Tasks /\ k[2] \in 1 .. Len(Prog[k[1]]) /\ Len(Prog[k[1]]) \in Nat
    BY ThenFacts, ProgFacts
  <2>2. ASSUME NEW t \in Threads, NEW i \in 1 .. Len(stack[t])
        PROVE  stack[t][i].pc = 1 /\ stack[t][i].run = {}
    <3>1. stack[t] = <<Frame(Main)>> \/ stack[t] = <<>>
      BY DEF Init
    <3>2. stack[t][i] = Frame(Main)
      BY <3>1
    <3> QED
      BY <3>2 DEF Frame
  <2>3. ~(1 > k[2]) /\ done[k[1]] = 0 /\ ran[k] = 0
    BY <2>1 DEF Init
  <2> QED
    BY <2>2, <2>3 DEF Passed, Due
<1>2. ASSUME IInv, KeptInv, [Next]_vars
      PROVE  KeptInv'
  <2>1. ASSUME NEW t \in Threads, Step(t)
        PROVE  KeptInv'
    <3>1. CASE Spawn(t) \/ GetReturn(t) \/ GetMiss(t) \/ HelpMiss(t)
      BY <1>2, <3>1, CallKept
    <3>2. CASE Then(t)
      BY <1>2, <3>2, ThenKept
    <3>3. CASE Set(t)
      BY <1>2, <3>3, SetKept
    <3>4. CASE RunContinuation(t)
      BY <1>2, <3>4, RunKept
    <3>5. CASE Return(t)
      BY <1>2, <3>5, ReturnKept
    <3>6. CASE Take(t)
      BY <1>2, <3>6, TakeKept
    <3> QED
      BY <2>1, <3>1, <3>2, <3>3, <3>4, <3>5, <3>6 DEF Step
  <2>2. CASE UNCHANGED vars
    BY <1>2, <2>2 DEF KeptInv, Passed, Due, Of, vars
  <2> QED
    BY <1>2, <2>1, <2>2 DEF Next, Terminated
<1>3. IInv /\ KeptInv => ContinuationsOnce
  <2> SUFFICES ASSUME IInv, KeptInv, NEW k \in ThenCalls
               PROVE  /\ Passed(k[1], k[2]) <=> k \in conts[Of(k)] \/ Due(k) \/ ran[k] = 1
                      /\ ran[k] <= 1
                      /\ ~(k \in conts[Of(k)] /\ (Due(k) \/ ran[k] = 1)) /\ ~(Due(k) /\ ran[k] = 1)
                      /\ k \in conts[Of(k)] <=> Passed(k[1], k[2]) /\ ~ready[Of(k)]
    BY DEF ContinuationsOnce
  <2>1. Of(k) \in Spawned /\ ran[k] \in Nat /\ ran[k] <= 1
    BY ThenFacts DEF IInv, TypeInv, ThenInv
  <2>2. ran[k] # 0 <=> ran[k] = 1
    BY <2>1
  <2>3. /\ k \in conts[Of(k)] \/ Due(k) \/ ran[k] # 0 => Passed(k[1], k[2])
        /\ ~(k \in conts[Of(k)] /\ (Due(k) \/ ran[k] # 0)) /\ ~(Due(k) /\ ran[k] # 0)
        /\ ready[Of(k)] => conts[Of(k)] = {}
    BY <2>1 DEF IInv, ThenInv
  <2> QED
    BY <2>1, <2>2, <2>3 DEF KeptInv
<1> QED
  BY <1>1, <1>2, <1>3, Invariant, PTL DEF Spec

(* No task is run twice, by two helpers or by a helper and a worker.       *)
THEOREM TasksRunOnce == Spec => []RunOnce
<1>1. IInv => RunOnce
  <2> SUFFICES ASSUME IInv, NEW x \in Tasks
               PROVE  done[x] + Cardinality({p \in Threads \X (1 .. Cardinality(Tasks)) :
                             p[2] \in 1 .. Len(stack[p[1]]) /\ stack[p[1]][p[2]].task = x}) <= 1
    BY DEF RunOnce
  <2> DEFINE S == {p \in Threads \X (1 .. Cardinality(Tasks)) :
                     p[2] \in 1 .. Len(stack[p[1]]) /\ stack[p[1]][p[2]].task = x}
  <2>1. done[x] \in {0, 1}
    BY DEF IInv, TypeInv, HeldInv
  <2> SUFFICES done[x] + Cardinality(S) <= 1
    OBVIOUS
  <2>2. CASE S = {}
    <3>1. Cardinality(S) = 0
      BY <2>2, FS_EmptySet
    <3> HIDE DEF S
    <3> QED
      BY <2>1, <3>1
  <2>3. CASE S # {}
    <3>1. PICK p \in S : TRUE
      BY <2>3
    <3>2. OnStack(x)
      BY <3>1 DEF OnStack
    <3>3. done[x] = 0
      BY <3>2 DEF IInv, HeldInv
    <3>4. \A r \in S : r = p
      <4> SUFFICES ASSUME NEW r \in S PROVE r = p
        OBVIOUS
      <4>1. r[1] = p[1] /\ r[2] = p[2]
        BY <3>1 DEF IInv, FramesInv
      <4>2. r = <<r[1], r[2]>> /\ p = <<p[1], p[2]>>
        BY <3>1
      <4> QED
        BY <4>1, <4>2
    <3>5. S = {p}
      BY <3>1, <3>4
    <3>6. Cardinality(S) = 1
      BY <3>5, FS_Singleton
    <3> QED
      BY <3>3, <3>6
  <2> QED
    BY <2>2, <2>3
<1> QED
  BY <1>1, Invariant, PTL

----------------------------------------------------------------------------
(* The tree.                                                               *)

(* The descendants of x are the least closed set that has x.               *)
LEMMA DescendantsFacts ==
  ASSUME NEW x \in Tasks
  PROVE  /\ x \in Descendants[x] /\ Descendants[x] \in SUBSET Tasks
         /\ IsFiniteSet(Descendants[x]) /\ Cardinality(Descendants[x]) \in Nat
         /\ Closed(Descendants[x])
         /\ \A S \in SUBSET Tasks : x \in S /\ Closed(S) => Descendants[x] \subseteq S
<1>1. Descendants[x] = {z \in Tasks : \A S \in SUBSET Tasks : x \in S /\ Closed(S) => z \in S}
  BY DEF Descendants
<1>2. x \in Descendants[x] /\ Descendants[x] \in SUBSET Tasks
  BY <1>1
<1>3. \A S \in SUBSET Tasks : x \in S /\ Closed(S) => Descendants[x] \subseteq S
  BY <1>1
<1>4. Closed(Descendants[x])
  <2> SUFFICES ASSUME NEW z \in Descendants[x], NEW c \in Children(z)
               PROVE  c \in Descendants[x]
    BY DEF Closed
  <2>1. c \in Tasks
    BY DEF Children, Spawned
  <2>2. ASSUME NEW S \in SUBSET Tasks, x \in S, Closed(S)
        PROVE  c \in S
    BY <1>3, <2>2 DEF Closed
  <2> QED
    BY <1>1, <2>1, <2>2
<1>5. IsFiniteSet(Descendants[x]) /\ Cardinality(Descendants[x]) \in Nat
  BY <1>2, FuturesAssumption, FS_Subset, FS_CardinalityType
<1> QED
  BY <1>2, <1>3, <1>4, <1>5

(* One parent each, ...                                                    *)
LEMMA OneParent ==
  ASSUME NEW x \in Tasks, NEW z \in Tasks, NEW y, y \in Children(x), y \in Children(z)
  PROVE  x = z
<1>1. PICK i \in DOMAIN Prog[x] : Prog[x][i] = [call |-> "spawn", of |-> y]
  BY DEF Children, Makes
<1>2. PICK k \in DOMAIN Prog[z] : Prog[z][k] = [call |-> "spawn", of |-> y]
  BY DEF Children, Makes
<1>3. i \in 1 .. Len(Prog[x]) /\ k \in 1 .. Len(Prog[z])
  BY ProgFacts
<1>4. Prog[x][i].call = "spawn" /\ Prog[z][k].call = "spawn" /\ Prog[x][i].of = Prog[z][k].of
  BY <1>1, <1>2
<1> QED
  BY <1>3, <1>4, SpawnedOnce

(* ... that of a descendant being a descendant, ...                        *)
LEMMA ParentBelow ==
  ASSUME NEW x \in Tasks, NEW z \in Descendants[x], z # x
  PROVE  \E p \in Descendants[x] : p \in Tasks /\ z \in Children(p)
<1> SUFFICES ASSUME \A p \in Descendants[x] : z \notin Children(p)
             PROVE  FALSE
  BY DescendantsFacts
<1>1. PICK S : S = Descendants[x] \ {z}
  OBVIOUS
<1>2. S \in SUBSET Tasks /\ x \in S
  BY <1>1, DescendantsFacts
<1>3. Closed(S)
  <2>1. Closed(Descendants[x])
    BY DescendantsFacts
  <2> QED
    BY <1>1, <2>1 DEF Closed
<1>4. Descendants[x] \subseteq S
  BY <1>2, <1>3, DescendantsFacts
<1> QED
  BY <1>1, <1>4

(* ... and nobody is below a child of its own.                             *)
LEMMA NoCycle ==
  ASSUME NEW x \in Tasks, NEW y \in Children(x)
  PROVE  y \in Tasks /\ x \notin Descendants[y]
<1>0. \A z : \A c \in Children(z) : c \in Tasks /\ c # Main
  BY DEF Children, Spawned
<1>1. PICK G : G = {z \in Tasks : \A c \in Children(z) : z \notin Descendants[c]}
  OBVIOUS
<1>2. Main \in G
  <2>1. Main \in Tasks
    BY FuturesAssumption
  <2>2. ASSUME NEW c \in Children(Main), Main \in Descendants[c]
        PROVE  FALSE
    <3>1. c \in Tasks /\ Main # c
      BY <1>0
    <3>2. PICK p \in Descendants[c] : Main \in Children(p)
      BY <2>2, <3>1, ParentBelow
    <3> QED
      BY <1>0, <3>2
  <2> QED
    BY <1>1, <2>1, <2>2
<1>3. Closed(G)
  <2> SUFFICES ASSUME NEW z \in G, NEW c \in Children(z), NEW w \in Children(c), c \in Descendants[w]
               PROVE  FALSE
    BY <1>0, <1>1 DEF Closed
  <2>1. z \in Tasks /\ c \in Tasks /\ w \in Tasks /\ z \notin Descendants[c]
    BY <1>0, <1>1
  <2>2. CASE c = w
    <3>1. z = c
      BY <2>1, <2>2, OneParent
    <3> QED
      BY <2>1, <3>1, DescendantsFacts
  <2>3. CASE c # w
    <3>1. PICK p \in Descendants[w] : p \in Tasks /\ c \in Children(p)
      BY <2>1, <2>3, ParentBelow
    <3>2. p = z
      BY <2>1, <3>1, OneParent
    <3>3. w \in Descendants[c] /\ Closed(Descendants[c]) /\ Descendants[c] \in SUBSET Tasks
      <4>1. c \in Descendants[c] /\ Closed(Descendants[c]) /\ Descendants[c] \in SUBSET Tasks
        BY <2>1, DescendantsFacts
      <4> QED
        BY <4>1 DEF Closed
    <3>4. Descendants[w] \subseteq Descendants[c]
      BY <2>1, <3>3, DescendantsFacts
    <3> QED
      BY <2>1, <3>1, <3>2, <3>4
  <2> QED
    BY <2>2, <2>3
<1>4. Tasks \subseteq G
  <2>1. G \in SUBSET Tasks /\ Main \in Tasks /\ Descendants[Main] = Tasks
    BY <1>1, FuturesAssumption
  <2> QED
    BY <1>2, <1>3, <2>1, DescendantsFacts
<1> QED
  BY <1>0, <1>1, <1>4

(* What is below x is x, and what is below its children, ...               *)
LEMMA BelowChildren ==
  ASSUME NEW x \in Tasks
  PROVE  Descendants[x] = {x} \cup UNION {Descendants[y] : y \in Children(x)}
<1>0. \A z : \A c \in Children(z) : c \in Tasks
  BY DEF Children, Spawned
<1>1. PICK R : R = {x} \cup UNION {Descendants[y] : y \in Children(x)}
  OBVIOUS
<1>2. R \in SUBSET Tasks /\ x \in R
  BY <1>0, <1>1, DescendantsFacts
<1>3. Closed(R)
  <2> SUFFICES ASSUME NEW z \in R, NEW c \in Children(z)
               PROVE  c \in R
    BY DEF Closed
  <2>1. CASE z = x
    <3>1. c \in Descendants[c]
      BY <1>0, DescendantsFacts
    <3> QED
      BY <1>1, <2>1, <3>1
  <2>2. CASE z # x
    <3>1. PICK y \in Children(x) : z \in Descendants[y]
      BY <1>1, <2>2
    <3>2. Closed(Descendants[y])
      BY <1>0, DescendantsFacts
    <3>3. c \in Descendants[y]
      BY <3>1, <3>2 DEF Closed
    <3> QED
      BY <1>1, <3>3
  <2> QED
    BY <2>1, <2>2
<1>4. Descendants[x] \subseteq R
  BY <1>2, <1>3, DescendantsFacts
<1>5. ASSUME NEW y \in Children(x)
      PROVE  Descendants[y] \subseteq Descendants[x]
  <2>1. x \in Descendants[x] /\ Closed(Descendants[x]) /\ Descendants[x] \in SUBSET Tasks
    BY DescendantsFacts
  <2>2. y \in Descendants[x] /\ y \in Tasks
    BY <1>0, <2>1 DEF Closed
  <2> QED
    BY <2>1, <2>2, DescendantsFacts
<1>6. R \subseteq Descendants[x]
  BY <1>1, <1>5, DescendantsFacts
<1> QED
  BY <1>1, <1>4, <1>6

(* ... which is below one child only.                                      *)
LEMMA ChildrenApart ==
  ASSUME NEW x \in Tasks, NEW y \in Children(x), NEW z \in Children(x), y # z
  PROVE  Descendants[y] \cap Descendants[z] = {}
<1>1. y \in Tasks /\ z \in Tasks /\ x \notin Descendants[y] /\ x \notin Descendants[z]
  BY NoCycle
<1>2. PICK S : S = {c \in Descendants[y] : c \notin Descendants[z]}
  OBVIOUS
<1>3. y \in S /\ S \in SUBSET Tasks
  <2>1. y \in Descendants[y] /\ Descendants[y] \in SUBSET Tasks
    BY <1>1, DescendantsFacts
  <2>2. ASSUME y \in Descendants[z]
        PROVE  FALSE
    <3>1. PICK p \in Descendants[z] : p \in Tasks /\ y \in Children(p)
      BY <1>1, <2>2, ParentBelow
    <3> QED
      BY <1>1, <3>1, OneParent
  <2> QED
    BY <1>2, <2>1, <2>2
<1>4. Closed(S)
  <2> SUFFICES ASSUME NEW v \in S, NEW c \in Children(v)
               PROVE  c \in S
    BY DEF Closed
  <2>1. v \in Descendants[y] /\ v \notin Descendants[z] /\ v \in Tasks
    BY <1>2, <1>3
  <2>2. c \in Descendants[y]
    <3>1. Closed(Descendants[y])
      BY <1>1, DescendantsFacts
    <3> QED
      BY <2>1, <3>1 DEF Closed
  <2>3. ASSUME c \in Descendants[z]
        PROVE  FALSE
    <3>1. CASE c = z
      BY <1>1, <2>1, <3>1, OneParent
    <3>2. CASE c # z
      <4>1. PICK p \in Descendants[z] : p \in Tasks /\ c \in Children(p)
        BY <1>1, <2>3, <3>2, ParentBelow
      <4> QED
        BY <2>1, <4>1, OneParent
    <3> QED
      BY <3>1, <3>2
  <2> QED
    BY <1>2, <2>2, <2>3
<1>5. Descendants[y] \subseteq S
  BY <1>1, <1>3, <1>4, DescendantsFacts
<1> QED
  BY <1>2, <1>5

----------------------------------------------------------------------------
(* The results.                                                            *)

(* The tasks that x has joined before its p-th call, and what is below     *)
(* them.                                                                   *)
Joined(x, p) ==
  {y \in Spawned : \E i \in 1 .. Len(Prog[x]) : i < p /\ Prog[x][i] = [call |-> "get", of |-> y]}
Summed(x, p) == UNION {Descendants[y] : y \in Joined(x, p)}

(* Who gets y is the task that spawned it, in one call.                    *)
LEMMA JoinedOnce ==
  ASSUME NEW x \in Tasks, NEW i \in 1 .. Len(Prog[x]), NEW y \in Spawned,
         Prog[x][i] = [call |-> "get", of |-> y]
  PROVE  /\ y \in Children(x)
         /\ \A k \in 1 .. Len(Prog[x]) : Prog[x][k] = [call |-> "get", of |-> y] => k = i
<1>1. PICK p \in Tasks : \E a, b \in DOMAIN Prog[p] :
         /\ a < b
         /\ Prog[p][a] = [call |-> "spawn", of |-> y]
         /\ Prog[p][b] = [call |-> "get", of |-> y]
         /\ \A v \in Tasks : \A c \in DOMAIN Prog[v] : Prog[v][c].of = y =>
              v = p /\ (c \in {a, b} \/ (Prog[v][c].call = "then" /\ c > a))
  BY FuturesAssumption
<1>2. PICK a \in DOMAIN Prog[p], b \in DOMAIN Prog[p] :
         /\ Prog[p][a] = [call |-> "spawn", of |-> y]
         /\ \A v \in Tasks : \A c \in DOMAIN Prog[v] : Prog[v][c].of = y =>
              v = p /\ (c \in {a, b} \/ (Prog[v][c].call = "then" /\ c > a))
  BY <1>1
<1>3. ASSUME NEW k \in 1 .. Len(Prog[x]), Prog[x][k] = [call |-> "get", of |-> y]
      PROVE  x = p /\ k = b
  <2>1. k \in DOMAIN Prog[x] /\ Prog[x][k].of = y /\ Prog[x][k].call = "get"
    BY <1>3, ProgFacts
  <2>2. x = p /\ (k \in {a, b} \/ Prog[x][k].call = "then")
    BY <1>2, <2>1
  <2>3. k # a
    BY <1>2, <2>1, <2>2
  <2> QED
    BY <2>1, <2>2, <2>3
<1>4. x = p /\ i = b
  BY <1>3
<1>5. y \in Children(x)
  BY <1>2, <1>4 DEF Children, Makes
<1> QED
  BY <1>3, <1>4, <1>5

LEMMA SummedFacts ==
  ASSUME NEW x \in Tasks, NEW p
  PROVE  /\ Joined(x, p) \in SUBSET Children(x)
         /\ Summed(x, p) \in SUBSET Tasks
         /\ IsFiniteSet(Summed(x, p)) /\ Cardinality(Summed(x, p)) \in Nat
<1>1. Joined(x, p) \in SUBSET Children(x)
  BY JoinedOnce DEF Joined
<1>2. \A y \in Children(x) : y \in Tasks
  BY DEF Children, Spawned
<1>3. Summed(x, p) \in SUBSET Tasks
  BY <1>1, <1>2, DescendantsFacts DEF Summed
<1> QED
  BY <1>1, <1>3, FuturesAssumption, FS_Subset, FS_CardinalityType

(* A task that has called nothing has joined nobody; ...                   *)
LEMMA SummedFirst ==
  ASSUME NEW x \in Tasks
  PROVE  Cardinality(Summed(x, 1)) = 0
<1>1. Joined(x, 1) = {}
  BY ProgFacts DEF Joined
<1>2. Summed(x, 1) = {}
  BY <1>1 DEF Summed
<1> QED
  BY <1>2, FS_EmptySet

(* ... a call that is no get joins nobody; ...                             *)
LEMMA SummedSame ==
  ASSUME NEW x \in Tasks, NEW i \in 1 .. Len(Prog[x]), Prog[x][i].call # "get"
  PROVE  Summed(x, i + 1) = Summed(x, i)
<1>1. Len(Prog[x]) \in Nat
  BY ProgFacts
<1>2. ASSUME NEW y \in Spawned, NEW k \in 1 .. Len(Prog[x]), Prog[x][k] = [call |-> "get", of |-> y]
      PROVE  k < i + 1 <=> k < i
  <2>1. k # i
    BY <1>2
  <2> QED
    BY <1>1, <2>1
<1>3. Joined(x, i + 1) = Joined(x, i)
  BY <1>2 DEF Joined
<1> QED
  BY <1>3 DEF Summed

(* ... a get adds what is below the task joined, and only that; ...        *)
LEMMA SummedGet ==
  ASSUME NEW x \in Tasks, NEW i \in 1 .. Len(Prog[x]), NEW y \in Spawned,
         Prog[x][i] = [call |-> "get", of |-> y]
  PROVE  Cardinality(Summed(x, i + 1)) = Cardinality(Summed(x, i)) + Cardinality(Descendants[y])
<1>1. Len(Prog[x]) \in Nat /\ y \in Tasks /\ y \in Children(x)
  BY ProgFacts, JoinedOnce DEF Spawned
<1>2. y \notin Joined(x, i)
  <2>1. ~(i < i)
    BY <1>1
  <2> QED
    BY <2>1, JoinedOnce DEF Joined
<1>3. Joined(x, i + 1) = Joined(x, i) \cup {y}
  <2>1. \A k \in 1 .. Len(Prog[x]) : k < i + 1 <=> k < i \/ k = i
    BY <1>1
  <2>2. ASSUME NEW z \in Spawned
        PROVE  z \in Joined(x, i + 1) <=> z \in Joined(x, i) \/ z = y
    <3>1. ASSUME z \in Joined(x, i + 1), z # y
          PROVE  z \in Joined(x, i)
      <4>1. PICK k \in 1 .. Len(Prog[x]) : k < i + 1 /\ Prog[x][k] = [call |-> "get", of |-> z]
        BY <3>1 DEF Joined
      <4>2. [call |-> "get", of |-> z].of = z /\ [call |-> "get", of |-> y].of = y
        OBVIOUS
      <4>3. k # i
        BY <3>1, <4>1, <4>2
      <4> QED
        BY <2>1, <4>1, <4>3 DEF Joined
    <3>2. Joined(x, i) \subseteq Joined(x, i + 1)
      BY <2>1 DEF Joined
    <3>3. y \in Joined(x, i + 1)
      BY <2>1 DEF Joined
    <3> QED
      BY <3>1, <3>2, <3>3
  <2>3. Joined(x, i + 1) \subseteq Spawned /\ Joined(x, i) \subseteq Spawned
    BY DEF Joined
  <2> QED
    BY <2>2, <2>3
<1>4. Summed(x, i + 1) = Summed(x, i) \cup Descendants[y]
  BY <1>3 DEF Summed
<1>5. Summed(x, i) \cap Descendants[y] = {}
  <2>1. \A z \in Joined(x, i) : z \in Children(x) /\ z # y
    BY <1>2, SummedFacts
  <2>2. \A z \in Joined(x, i) : Descendants[z] \cap Descendants[y] = {}
    BY <1>1, <2>1, ChildrenApart
  <2> QED
    BY <2>2 DEF Summed
<1>6. /\ IsFiniteSet(Summed(x, i)) /\ IsFiniteSet(Descendants[y])
      /\ Cardinality(Summed(x, i)) \in Nat /\ Cardinality(Descendants[y]) \in Nat
  BY <1>1, SummedFacts, DescendantsFacts
<1>7. /\ Cardinality(Summed(x, i) \cup Descendants[y])
           = Cardinality(Summed(x, i)) + Cardinality(Descendants[y])
               - Cardinality(Summed(x, i) \cap Descendants[y])
  BY <1>6, FS_Union
<1>8. Cardinality(Summed(x, i) \cap Descendants[y]) = 0
  BY <1>5, FS_EmptySet
<1>9. PICK a, b, c \in Nat :
        /\ a = Cardinality(Summed(x, i)) /\ b = Cardinality(Descendants[y])
        /\ c = Cardinality(Summed(x, i) \cap Descendants[y])
  BY <1>6, <1>8
<1>10. Cardinality(Summed(x, i + 1)) = a + b - c /\ c = 0
  BY <1>4, <1>7, <1>8, <1>9
<1>11. a + b - 0 = a + b
  OBVIOUS
<1> QED
  BY <1>9, <1>10, <1>11

(* ... and after its last call it has joined all its children.             *)
LEMMA SummedLast ==
  ASSUME NEW x \in Tasks
  PROVE  Cardinality(Descendants[x]) = Cardinality(Summed(x, Len(Prog[x]) + 1)) + 1
<1> DEFINE n == Len(Prog[x])
<1>1. n \in Nat
  BY ProgFacts
<1>2. Joined(x, n + 1) = Children(x)
  <2>1. Joined(x, n + 1) \subseteq Children(x)
    BY SummedFacts
  <2>2. ASSUME NEW y \in Children(x)
        PROVE  y \in Joined(x, n + 1)
    <3>1. y \in Spawned /\ \E k \in DOMAIN Prog[x] : Prog[x][k] = [call |-> "spawn", of |-> y]
      BY DEF Children, Makes
    <3>2. PICK k \in DOMAIN Prog[x] : Prog[x][k] = [call |-> "spawn", of |-> y]
      BY <3>1
    <3>3. PICK p \in Tasks : \E a, b \in DOMAIN Prog[p] :
             /\ Prog[p][b] = [call |-> "get", of |-> y]
             /\ \A v \in Tasks : \A c \in DOMAIN Prog[v] : Prog[v][c].of = y => v = p
      BY <3>1, FuturesAssumption
    <3>4. x = p
      BY <3>2, <3>3
    <3>5. PICK b \in 1 .. n : Prog[x][b] = [call |-> "get", of |-> y]
      BY <3>3, <3>4, ProgFacts
    <3>6. b < n + 1
      BY <1>1
    <3> QED
      BY <3>1, <3>5, <3>6 DEF Joined
  <2> QED
    BY <2>1, <2>2
<1>3. Descendants[x] = Summed(x, n + 1) \cup {x}
  BY <1>2, BelowChildren DEF Summed
<1>4. x \notin Summed(x, n + 1)
  BY <1>2, NoCycle DEF Summed
<1>5. IsFiniteSet(Summed(x, n + 1))
  BY SummedFacts
<1> HIDE DEF n
<1>6. Cardinality(Summed(x, n + 1) \cup {x}) = Cardinality(Summed(x, n + 1)) + 1
  BY <1>4, <1>5, FS_AddElement
<1>7. Cardinality(Descendants[x]) = Cardinality(Summed(x, n + 1)) + 1
  BY <1>3, <1>6
<1> QED
  BY <1>7 DEF n

(* What a task has got is what is below those it joined.                   *)
GotInv ==
  \A t \in Threads : \A i \in 1 .. Len(stack[t]) :
    stack[t][i].got = Cardinality(Summed(stack[t][i].task, stack[t][i].pc))

ResultInv == GotInv /\ ResultsAreRight

(* A new running frame that has got the right sum.                         *)
LEMMA RetopGot ==
  ASSUME IInv, GotInv, NEW t \in Threads, stack[t] # <<>>, NEW f \in FrameSet,
         stack' = [stack EXCEPT ![t] = Below(t) \o <<f>>],
         f.got = Cardinality(Summed(f.task, f.pc))
  PROVE  GotInv'
<1>1. Retopped(t, f)
  BY Retop DEF IInv
<1> SUFFICES ASSUME NEW u \in Threads, NEW i \in 1 .. Len(stack[u])
             PROVE  stack'[u][i].got = Cardinality(Summed(stack'[u][i].task, stack'[u][i].pc))
  BY <1>1 DEF GotInv, Retopped
<1>2. CASE u = t /\ i = Len(stack[t])
  BY <1>1, <1>2 DEF Retopped
<1>3. CASE u # t \/ i # Len(stack[t])
  BY <1>1, <1>3 DEF Retopped, GotInv
<1> QED
  BY <1>2, <1>3

LEMMA TopGot ==
  ASSUME IInv, GotInv, NEW t \in Threads, stack[t] # <<>>
  PROVE  /\ Top(t).got = Cardinality(Summed(Top(t).task, Top(t).pc))
         /\ Top(t) \in FrameSet /\ Top(t).task \in Tasks /\ Top(t).got \in Nat
  BY TopFacts DEF GotInv, IInv

(* spawn and then, after which the task goes on.                           *)
LEMMA NoGetResults ==
  ASSUME IInv, ResultInv, NEW t \in Threads, Spawn(t) \/ Then(t)
  PROVE  ResultInv'
<1>0. TypeInv /\ GotInv
  BY DEF IInv, ResultInv
<1>1. PICK c \in {"spawn", "then"} : AtCall(t, c)
  BY DEF Spawn, Then
<1>2. PICK x, i : x = Top(t).task /\ i = Top(t).pc
  OBVIOUS
<1>3. /\ stack[t] # <<>> /\ i \in 1 .. Len(Prog[x]) /\ Prog[x][i].call # "get"
      /\ Arg(t) = Prog[x][i].of
  BY <1>0, <1>1, <1>2, AtCallFacts
<1>4. Top(t) \in FrameSet /\ x \in Tasks /\ Top(t).got = Cardinality(Summed(x, i))
  BY <1>0, <1>2, <1>3, TopGot
<1>5. PICK g \in FrameSet :
        /\ g.task = x /\ g.pc = i /\ g.got = Top(t).got
        /\ stack' = [stack EXCEPT ![t] = Below(t) \o <<[g EXCEPT !.pc = @ + 1]>>]
  <2>1. CASE stack' = [stack EXCEPT ![t] = Below(t) \o <<[Top(t) EXCEPT !.pc = @ + 1]>>]
    BY <1>2, <1>4, <2>1
  <2>2. ASSUME NEW g, g = [Top(t) EXCEPT !.run = {<<x, i>>}], Then(t),
               stack' = [stack EXCEPT ![t] = Below(t) \o <<[g EXCEPT !.pc = @ + 1]>>]
        PROVE  g \in FrameSet /\ g.task = x /\ g.pc = i /\ g.got = Top(t).got
    <3>1. <<x, i>> \in ThenCalls
      <4>1. AtCall(t, "then")
        BY <2>2 DEF Then
      <4>2. Prog[x][i].call = "then"
        BY <1>0, <1>2, <4>1, AtCallFacts
      <4> QED
        BY <1>3, <1>4, <4>2, ThenFacts
    <3> QED
      BY <1>2, <1>4, <2>2, <3>1 DEF FrameSet
  <2> QED
    BY <1>2, <2>1, <2>2 DEF Spawn, Then, Advance
<1>6. PICK f : f = [g EXCEPT !.pc = @ + 1]
  OBVIOUS
<1>7. f \in FrameSet /\ f.task = x /\ f.pc = i + 1 /\ f.got = Top(t).got
  BY <1>5, <1>6, Advanced
<1>8. f.got = Cardinality(Summed(f.task, f.pc))
  BY <1>3, <1>4, <1>7, SummedSame
<1>9. GotInv'
  BY <1>0, <1>3, <1>5, <1>6, <1>7, <1>8, RetopGot
<1>10. ResultsAreRight'
  BY DEF ResultInv, ResultsAreRight, Spawn, Then
<1> QED
  BY <1>9, <1>10 DEF ResultInv

(* get returns a value that is there, and it is the right one.             *)
LEMMA GetReturnResults ==
  ASSUME IInv, ResultInv, NEW t \in Threads, GetReturn(t)
  PROVE  ResultInv'
<1>0. TypeInv /\ GotInv /\ ResultsAreRight /\ AtCall(t, "get")
  BY DEF IInv, ResultInv, GetReturn
<1>1. PICK x, i, y : x = Top(t).task /\ i = Top(t).pc /\ y = Arg(t)
  OBVIOUS
<1>2. /\ stack[t] # <<>> /\ i \in 1 .. Len(Prog[x]) /\ Prog[x][i].call = "get"
      /\ y = Prog[x][i].of /\ y \in Spawned
  BY <1>0, <1>1, AtCallFacts
<1>3. Top(t) \in FrameSet /\ x \in Tasks /\ Top(t).got = Cardinality(Summed(x, i)) /\ Top(t).got \in Nat
  BY <1>0, <1>1, <1>2, TopGot
<1>4. value[y] = Cardinality(Descendants[y]) /\ value[y] \in Nat
  <2>1. ready[y]
    BY <1>1 DEF GetReturn
  <2> QED
    BY <1>0, <1>2, <2>1 DEF ResultsAreRight, TypeInv
<1>5. PICK g : g = [Top(t) EXCEPT !.got = @ + value[y]]
  OBVIOUS
<1>6. g \in FrameSet /\ g.task = x /\ g.pc = i /\ g.got = Top(t).got + value[y]
  BY <1>1, <1>3, <1>4, <1>5 DEF FrameSet
<1>7. PICK f : f = [g EXCEPT !.pc = @ + 1]
  OBVIOUS
<1>8. f \in FrameSet /\ f.task = x /\ f.pc = i + 1 /\ f.got = Top(t).got + value[y]
  BY <1>6, <1>7, Advanced
<1>9. Prog[x][i] = [call |-> "get", of |-> y]
  BY <1>2, <1>3, ProgFacts
<1>10. f.got = Cardinality(Summed(f.task, f.pc))
  BY <1>2, <1>3, <1>4, <1>8, <1>9, SummedGet
<1>11. stack' = [stack EXCEPT ![t] = Below(t) \o <<f>>]
  BY <1>1, <1>5, <1>7 DEF GetReturn, Advance
<1>12. GotInv'
  BY <1>0, <1>2, <1>8, <1>10, <1>11, RetopGot
<1>13. ResultsAreRight'
  BY <1>0 DEF ResultsAreRight, GetReturn
<1> QED
  BY <1>12, <1>13 DEF ResultInv

(* A get that waits, and a continuation, add nothing.                      *)
LEMMA WaitResults ==
  ASSUME IInv, ResultInv, NEW t \in Threads, GetMiss(t) \/ HelpMiss(t) \/ RunContinuation(t)
  PROVE  ResultInv'
<1>0. TypeInv /\ GotInv /\ ResultsAreRight
  BY DEF IInv, ResultInv
<1>1. stack[t] # <<>> /\ ready' = ready /\ value' = value
  BY DEF GetMiss, HelpMiss, RunContinuation, AtCall, Running
<1>2. /\ Top(t).got = Cardinality(Summed(Top(t).task, Top(t).pc))
      /\ Top(t) \in FrameSet /\ Top(t).run \in SUBSET ThenCalls
  BY <1>0, <1>1, TopGot, TopFacts
<1>3. PICK f : /\ \/ \E b \in BOOLEAN : f = [Top(t) EXCEPT !.missed = b]
                  \/ \E k : f = [Top(t) EXCEPT !.run = @ \ {k}]
               /\ stack' = [stack EXCEPT ![t] = Below(t) \o <<f>>]
  BY DEF GetMiss, HelpMiss, RunContinuation
<1>4. f \in FrameSet /\ f.task = Top(t).task /\ f.pc = Top(t).pc /\ f.got = Top(t).got
  BY <1>2, <1>3 DEF FrameSet
<1>5. GotInv'
  BY <1>0, <1>1, <1>2, <1>3, <1>4, RetopGot
<1>6. ResultsAreRight'
  BY <1>0, <1>1 DEF ResultsAreRight
<1> QED
  BY <1>5, <1>6 DEF ResultInv

(* set: the task has joined all its children.                              *)
LEMMA SetResults ==
  ASSUME IInv, ResultInv, NEW t \in Threads, Set(t)
  PROVE  ResultInv'
<1>0. TypeInv /\ GotInv /\ ResultsAreRight
  BY DEF IInv, ResultInv
<1>1. PICK x, n : x = Top(t).task /\ n = Len(Prog[x])
  OBVIOUS
<1>2. /\ stack[t] # <<>> /\ x # Main /\ Top(t).pc > n
      /\ value' = [value EXCEPT ![x] = Top(t).got + 1]
      /\ ready' = [ready EXCEPT ![x] = TRUE]
  BY <1>1 DEF Set, Running
<1>3. /\ Top(t).got = Cardinality(Summed(x, Top(t).pc)) /\ Top(t) \in FrameSet /\ x \in Tasks
      /\ Top(t).pc \in Nat /\ Top(t).pc <= n + 1 /\ n \in Nat /\ x \in Spawned
  BY <1>0, <1>1, <1>2, TopGot, TopFacts, ProgFacts DEF Spawned
<1>4. Top(t).pc = n + 1
  BY <1>2, <1>3
<1>5. Top(t).got + 1 = Cardinality(Descendants[x])
  BY <1>1, <1>3, <1>4, SummedLast
<1>6. ResultsAreRight'
  <2> SUFFICES ASSUME NEW y \in Spawned, ready'[y]
               PROVE  value'[y] = Cardinality(Descendants[y])
    BY DEF ResultsAreRight
  <2>1. CASE y = x
    BY <1>0, <1>2, <1>3, <1>5, <2>1 DEF TypeInv
  <2>2. CASE y # x
    <3>1. ready[y] /\ value'[y] = value[y]
      BY <1>0, <1>2, <2>2 DEF TypeInv
    <3> QED
      BY <1>0, <3>1 DEF ResultsAreRight
  <2> QED
    BY <2>1, <2>2
<1>7. PICK f : f = [Top(t) EXCEPT !.run = conts[x], !.set = TRUE]
  OBVIOUS
<1>8. f \in FrameSet /\ f.task = x /\ f.pc = Top(t).pc /\ f.got = Top(t).got
  <2>1. conts[x] \in SUBSET ThenCalls
    BY <1>0, <1>3 DEF TypeInv
  <2> QED
    BY <1>1, <1>3, <1>7, <2>1 DEF FrameSet
<1>9. stack' = [stack EXCEPT ![t] = Below(t) \o <<f>>]
  BY <1>1, <1>7 DEF Set
<1>10. GotInv'
  BY <1>0, <1>2, <1>3, <1>8, <1>9, RetopGot
<1> QED
  BY <1>6, <1>10 DEF ResultInv

(* A task that returns takes its frame with it.                            *)
LEMMA ReturnResults ==
  ASSUME IInv, ResultInv, NEW t \in Threads, Return(t)
  PROVE  ResultInv'
<1>0. TypeInv /\ GotInv /\ ResultsAreRight
  BY DEF IInv, ResultInv
<1>1. /\ stack[t] # <<>> /\ stack' = [stack EXCEPT ![t] = Below(t)]
      /\ ready' = ready /\ value' = value
  BY DEF Return, Running
<1>2. PICK b, n : b = Below(t) /\ n = Len(stack[t])
  OBVIOUS
<1>3. b \in Seq(FrameSet) /\ Len(b) = n - 1 /\ n \in Nat \ {0} /\ \A i \in 1 .. n - 1 : b[i] = stack[t][i]
  BY <1>0, <1>1, <1>2, BelowFacts
<1>4. stack'[t] = b /\ \A u \in Threads \ {t} : stack'[u] = stack[u]
  BY <1>0, <1>1, <1>2 DEF TypeInv
<1>5. \A u \in Threads : \A i \in 1 .. Len(stack'[u]) :
        i \in 1 .. Len(stack[u]) /\ stack'[u][i] = stack[u][i]
  BY <1>2, <1>3, <1>4
<1>6. GotInv'
  BY <1>0, <1>5 DEF GotInv
<1>7. ResultsAreRight'
  BY <1>0, <1>1 DEF ResultsAreRight
<1> QED
  BY <1>6, <1>7 DEF ResultInv

(* A task that begins has got nothing.                                     *)
LEMMA TakeResults ==
  ASSUME IInv, ResultInv, NEW t \in Threads, Take(t)
  PROVE  ResultInv'
<1>0. TypeInv /\ GotInv /\ ResultsAreRight
  BY DEF IInv, ResultInv
<1>1. ready' = ready /\ value' = value
  BY DEF Take
<1>2. PICK x \in Tasks : Call(t, x)
  BY <1>0, TakesTask
<1>3. PICK n \in Nat : n = Len(stack[t])
  BY <1>0, FrameFacts
<1>4. /\ Len(stack'[t]) = n + 1 /\ stack'[t][n + 1] = Frame(x)
      /\ \A u \in Threads \ {t} : stack'[u] = stack[u]
      /\ \A i \in 1 .. n : /\ stack'[t][i].task = stack[t][i].task
                           /\ stack'[t][i].pc = stack[t][i].pc
                           /\ stack'[t][i].got = stack[t][i].got
  BY <1>0, <1>2, <1>3, CallStack
<1>5. Frame(x).task = x /\ Frame(x).pc = 1 /\ Frame(x).got = 0
  BY DEF Frame
<1>6. GotInv'
  <2> SUFFICES ASSUME NEW u \in Threads, NEW i \in 1 .. Len(stack'[u])
               PROVE  stack'[u][i].got = Cardinality(Summed(stack'[u][i].task, stack'[u][i].pc))
    BY DEF GotInv
  <2>1. CASE u # t
    BY <1>0, <1>4, <2>1 DEF GotInv
  <2>2. CASE u = t /\ i = n + 1
    BY <1>4, <1>5, <2>2, SummedFirst
  <2>3. CASE u = t /\ i # n + 1
    <3>1. i \in 1 .. n
      BY <1>3, <1>4, <2>3
    <3> QED
      BY <1>0, <1>3, <1>4, <2>3, <3>1 DEF GotInv
  <2> QED
    BY <2>1, <2>2, <2>3
<1>7. ResultsAreRight'
  BY <1>0, <1>1 DEF ResultsAreRight
<1> QED
  BY <1>6, <1>7 DEF ResultInv

(***************************************************************************)
(* A future resolves to what its task and every task below it contribute,  *)
(* each once, for every tree of tasks and every way in which get() spreads *)
(* them over the stacks of waiting threads.                                *)
(***************************************************************************)
THEOREM ResultsRight == Spec => []ResultsAreRight
<1>1. Init => ResultInv
  <2> SUFFICES ASSUME Init
               PROVE  ResultInv
    OBVIOUS
  <2>1. ASSUME NEW t \in Threads, NEW i \in 1 .. Len(stack[t])
        PROVE  stack[t][i].got = Cardinality(Summed(stack[t][i].task, stack[t][i].pc))
    <3>1. stack[t] = <<Frame(Main)>> \/ stack[t] = <<>>
      BY DEF Init
    <3>2. stack[t][i] = Frame(Main)
      BY <3>1
    <3>3. Frame(Main).task = Main /\ Frame(Main).pc = 1 /\ Frame(Main).got = 0 /\ Main \in Tasks
      BY FuturesAssumption DEF Frame
    <3> QED
      BY <3>2, <3>3, SummedFirst
  <2>2. ResultsAreRight
    BY DEF Init, ResultsAreRight
  <2> QED
    BY <2>1, <2>2 DEF ResultInv, GotInv
<1>2. ASSUME IInv, ResultInv, [Next]_vars
      PROVE  ResultInv'
  <2>1. ASSUME NEW t \in Threads, Step(t)
        PROVE  ResultInv'
    <3>1. CASE Spawn(t) \/ Then(t)
      BY <1>2, <3>1, NoGetResults
    <3>2. CASE GetReturn(t)
      BY <1>2, <3>2, GetReturnResults
    <3>3. CASE GetMiss(t) \/ HelpMiss(t) \/ RunContinuation(t)
      BY <1>2, <3>3, WaitResults
    <3>4. CASE Set(t)
      BY <1>2, <3>4, SetResults
    <3>5. CASE Return(t)
      BY <1>2, <3>5, ReturnResults
    <3>6. CASE Take(t)
      BY <1>2, <3>6, TakeResults
    <3> QED
      BY <2>1, <3>1, <3>2, <3>3, <3>4, <3>5, <3>6 DEF Step
  <2>2. CASE UNCHANGED vars
    BY <1>2, <2>2 DEF ResultInv, GotInv, ResultsAreRight, vars
  <2> QED
    BY <1>2, <2>1, <2>2 DEF Next, Terminated
<1>3. ResultInv => ResultsAreRight
  BY DEF ResultInv
<1> QED
  BY <1>1, <1>2, <1>3, Invariant, PTL DEF Spec
=============================================================================
