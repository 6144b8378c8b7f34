--------------------------- MODULE RuntimeProofs ---------------------------
(***************************************************************************)
(* Proofs about the Runtime for every number of workers and pools and      *)
(* every workload: what each task spawns, its next stage and its type.     *)
(***************************************************************************)
EXTENDS Runtime, FiniteSetTheorems, SequenceTheorems, TLAPS

----------------------------------------------------------------------------
(* The inductive invariant, part by part.                                  *)

(* Phases of a thread: inside run_task, after it and before the count in   *)
(* completed_, and between the count in submitted_ and the push.           *)
Executing == {"run", "push_spawned"}
Completing == {"observe", "push_stage", "finish"}
Pushing == {"push_spawned", "push_stage", "push_root"}
Holding == Executing \cup Completing

PhaseInv ==
  \A th \in Threads :
    /\ cur[th] # NoTask <=> pc[th] \in Holding \cup {"finish_test"}
    /\ arg[th] # NoTask <=> pc[th] \in Pushing

(* The four ways a task can be held.                                       *)
InArg(x) == \E th \in Threads : arg[th] = x
InCur(x) == \E th \in Threads : cur[th] = x /\ pc[th] \in Holding
InQueue(x) == \E q \in Queues : \E i \in 1 .. Len(queue[q]) : queue[q][i] = x

(* An open task is held in one way, any other task in none.                *)
HoldInv ==
  \A x \in Tasks :
    /\ x \in Open <=> InArg(x) \/ InCur(x) \/ InQueue(x) \/ x \in remote
    /\ ~(InArg(x) /\ (InCur(x) \/ InQueue(x) \/ x \in remote))
    /\ ~(InCur(x) /\ (InQueue(x) \/ x \in remote))
    /\ ~(InQueue(x) /\ x \in remote)

(* No two threads, and no two slots of the queues, hold the same task.     *)
ThreadsInv ==
  \A th, u \in Threads :
    /\ arg[th] # NoTask /\ arg[th] = arg[u] => th = u
    /\ pc[th] \in Holding /\ pc[u] \in Holding /\ cur[th] = cur[u] => th = u

SlotsInv ==
  \A q, r \in Queues : \A i \in 1 .. Len(queue[q]), j \in 1 .. Len(queue[r]) :
    queue[q][i] = queue[r][j] => q = r /\ i = j

LedgerInv ==
  /\ submitted = Cardinality(counted) /\ completed = Cardinality(finished)
  /\ finished \subseteq counted

(* run_task has returned; the observer has been called and has counted the *)
(* next stage.                                                             *)
Ran(x) == x \in finished \/ \E th \in Threads : cur[th] = x /\ pc[th] \in Completing
Staged(x) == x \in finished \/ \E th \in Threads : cur[th] = x /\ pc[th] \in {"push_stage", "finish"}

ExecInv == \A x \in Tasks : executed[x] = IF Ran(x) THEN 1 ELSE 0

SettleInv ==
  \A x \in Tasks : /\ Ran(x) => Spawns[x] \subseteq counted
                   /\ Staged(x) => Stage[x] \in counted \cup {NoTask}

(* Only portable tasks reach the pools and the peers.                      *)
PoolInv ==
  /\ \A i \in Types : \A j \in 1 .. Len(queue[<<"pool", i>>]) : TypeOf[queue[<<"pool", i>>][j]] # 0
  /\ \A x \in remote : TypeOf[x] # 0

(* completed_ only grows after wait_all has loaded it.                     *)
WaitInv == pc[Client] = "wait_submitted" => reg[Client] <= completed

IInv ==
  /\ TypeOK /\ PhaseInv /\ HoldInv /\ ThreadsInv /\ SlotsInv
  /\ LedgerInv /\ ExecInv /\ SettleInv /\ PoolInv /\ WaitInv

----------------------------------------------------------------------------
(* Queues.                                                                 *)

(* The threads are different from one another and have their queues.       *)
LEMMA ThreadFacts ==
  /\ Workers \subseteq Threads /\ Server \in Threads /\ Client \in Threads
  /\ Client \notin Workers /\ Server \notin Workers /\ Client # Server
  /\ \A w \in Workers : <<"deque", w>> \in Queues /\ <<"injection", w>> \in Queues
  /\ \A i \in Types : <<"pool", i>> \in Queues
  /\ NoTask \notin Tasks
BY RuntimeAssumption DEF Workers, Threads, Server, Client, Queues

(* The search for work visits 2 * NumWorkers + NumTypes queues.            *)
LEMMA ScanOrderType ==
  ASSUME NEW w \in Workers
  PROVE  /\ ScanOrder(w) \in Seq(Queues)
         /\ Len(ScanOrder(w)) = 2 * NumWorkers + NumTypes
<1> DEFINE two == <<<<"deque", w>>, <<"injection", w>>>>
           pools == [i \in Types |-> <<"pool", i>>]
<1>1. two \in Seq(Queues) /\ Len(two) = 2
  BY ThreadFacts
<1>2. pools \in Seq(Queues) /\ Len(pools) = NumTypes
  <2>1. pools \in [1 .. NumTypes -> Queues] /\ NumTypes \in Nat
    BY ThreadFacts, RuntimeAssumption DEF Types
  <2>2. pools \in Seq(Queues)
    BY <2>1, SeqDef
  <2> QED
    BY <2>1, <2>2, LenProperties DEF Types
<1>3. ASSUME NEW kind \in {"deque", "injection"}
      PROVE  Others(kind, w) \in Seq(Queues) /\ Len(Others(kind, w)) = NumWorkers - 1
  <2>1. \A i \in 1 .. NumWorkers - 1 : (IF i < w THEN i ELSE i + 1) \in Workers
    BY RuntimeAssumption DEF Workers
  <2>2. Others(kind, w) \in [1 .. NumWorkers - 1 -> Queues] /\ NumWorkers - 1 \in Nat
    <3>1. NumWorkers - 1 \in Nat
      BY RuntimeAssumption
    <3>2. \A v \in Workers : <<kind, v>> \in Queues
      BY ThreadFacts
    <3> QED
      BY <2>1, <3>1, <3>2 DEF Others
  <2>3. Others(kind, w) \in Seq(Queues)
    BY <2>2, SeqDef
  <2> QED
    BY <2>2, <2>3, LenProperties
<1> DEFINE inj == Others("injection", w)
           deq == Others("deque", w)
           front == two \o pools
           most == front \o inj
<1>4. /\ inj \in Seq(Queues) /\ Len(inj) = NumWorkers - 1
      /\ deq \in Seq(Queues) /\ Len(deq) = NumWorkers - 1
  BY <1>3
<1>5. ScanOrder(w) = most \o deq
  BY DEF ScanOrder
<1> HIDE DEF two, pools, inj, deq
<1>6. front \in Seq(Queues) /\ Len(front) = 2 + NumTypes
  BY <1>1, <1>2, ConcatProperties
<1> HIDE DEF front
<1>7. most \in Seq(Queues) /\ Len(most) = (2 + NumTypes) + (NumWorkers - 1)
  BY <1>4, <1>6, ConcatProperties
<1> HIDE DEF most
<1>8. most \o deq \in Seq(Queues) /\ Len(most \o deq) = Len(most) + Len(deq)
  BY <1>4, <1>7, ConcatProperties
<1> QED
  BY <1>4, <1>5, <1>7, <1>8, RuntimeAssumption

(* A worker always looks at one of the queues.                             *)
LEMMA ScannedType ==
  ASSUME TypeOK, NEW w \in Workers
  PROVE  Scanned(w) \in Queues
<1>1. scan[w] \in 1 .. Len(ScanOrder(w))
  BY ScanOrderType DEF TypeOK
<1> QED
  BY <1>1, ScanOrderType, ElementOfSeq DEF Scanned

(* What the type invariant says of one queue.                              *)
LEMMA QueueTypes ==
  ASSUME TypeOK
  PROVE  \A q \in Queues : /\ queue[q] \in Seq(Tasks) /\ Len(queue[q]) \in Nat
                           /\ \A i \in 1 .. Len(queue[q]) : queue[q][i] \in Tasks
BY LenProperties, ElementOfSeq DEF TypeOK

(* The queues as the family of queues of QueueFacts.                       *)
QF == INSTANCE QueueFacts WITH Items <- Tasks

(* Pushing a task that no queue holds.                                     *)
LEMMA PushQueue ==
  ASSUME TypeOK, SlotsInv, NEW q \in Queues, NEW x \in Tasks, ~InQueue(x),
         queue' = [queue EXCEPT ![q] = Append(@, x)]
  PROVE  /\ queue' \in [Queues -> Seq(Tasks)]
         /\ SlotsInv'
         /\ \A y : InQueue(y)' <=> InQueue(y) \/ y = x
<1>1. QF!Typed /\ QF!DistinctSlots /\ ~QF!Holds(x)
  BY DEF TypeOK, SlotsInv, InQueue, QF!Typed, QF!DistinctSlots, QF!Holds
<1>2. /\ queue' \in [Queues -> Seq(Tasks)]
      /\ QF!DistinctSlots'
      /\ \A y : QF!Holds(y)' <=> QF!Holds(y) \/ y = x
  BY <1>1, QF!PushDistinct
<1> QED
  BY <1>2 DEF SlotsInv, InQueue, QF!DistinctSlots, QF!Holds

(* Taking a task at either end of a queue.                                 *)
LEMMA TakeQueue ==
  ASSUME TypeOK, SlotsInv, NEW q \in Queues, queue[q] # <<>>, NEW x,
         \/ /\ x = Head(queue[q])
            /\ queue' = [queue EXCEPT ![q] = Tail(queue[q])]
         \/ /\ x = queue[q][Len(queue[q])]
            /\ queue' = [queue EXCEPT ![q] = SubSeq(queue[q], 1, Len(queue[q]) - 1)]
  PROVE  /\ x \in Tasks /\ InQueue(x)
         /\ queue' \in [Queues -> Seq(Tasks)]
         /\ SlotsInv'
         /\ \A y : InQueue(y)' <=> InQueue(y) /\ y # x
         /\ \A r \in Queues : \A i \in 1 .. Len(queue'[r]) :
              \E j \in 1 .. Len(queue[r]) : queue'[r][i] = queue[r][j]
<1>1. QF!Typed /\ QF!DistinctSlots
  BY DEF TypeOK, SlotsInv, QF!Typed, QF!DistinctSlots
<1>2. /\ x \in Tasks /\ QF!Holds(x)
      /\ queue' \in [Queues -> Seq(Tasks)]
      /\ QF!DistinctSlots'
      /\ \A y : QF!Holds(y)' <=> QF!Holds(y) /\ y # x
      /\ \A r \in Queues : \A i \in 1 .. Len(queue'[r]) :
           \E j \in 1 .. Len(queue[r]) : queue'[r][i] = queue[r][j]
  BY <1>1, QF!TakeDistinct
<1> QED
  BY <1>2 DEF SlotsInv, InQueue, QF!DistinctSlots, QF!Holds

----------------------------------------------------------------------------
(* Steps of one thread.                                                    *)

Phases ==
  {"load_submitted", "load_completed", "load_shutdown", "scan", "run", "push_spawned",
   "exited", "observe", "push_stage", "finish", "finish_test", "notify", "idle",
   "push_root", "wait_nonzero", "wait_completed", "wait_submitted", "wait_block",
   "blocked", "joining", "done"}

Loaded == Holding \cup Pushing \cup {"finish_test"}

(* A step of one thread leaves the others where they are.                  *)
LEMMA GotoStep ==
  ASSUME TypeOK, NEW th \in Threads, NEW from, NEW to \in Phases, Goto(th, from, to)
  PROVE  /\ pc[th] = from /\ pc'[th] = to
         /\ \A u \in Threads \ {th} : pc'[u] = pc[u]
         /\ pc' \in [Threads -> Phases]
<1>1. pc \in [Threads -> Phases]
  BY DEF TypeOK, Phases
<1> QED
  BY <1>1 DEF Goto

(* The type invariant, with the phases under one name.                     *)
LEMMA TypeParts ==
  ASSUME TypeOK
  PROVE  /\ submitted \in Nat /\ completed \in Nat
         /\ shutdown \in BOOLEAN /\ waited \in BOOLEAN
         /\ queue \in [Queues -> Seq(Tasks)] /\ rr \in 0 .. NumWorkers - 1
         /\ pc \in [Threads -> Phases]
         /\ cur \in [Threads -> Tasks \cup {NoTask}] /\ arg \in [Threads -> Tasks \cup {NoTask}]
         /\ reg \in [Threads -> Nat] /\ scan \in [Workers -> 1 .. 2 * NumWorkers + NumTypes]
         /\ remote \subseteq Tasks /\ counted \subseteq Tasks /\ finished \subseteq Tasks
         /\ executed \in [Tasks -> Nat]
BY DEF TypeOK, Phases

(* The type invariant follows from the types of what a step changes.       *)
LEMMA TypeStep ==
  ASSUME TypeOK,
         submitted' \in Nat, completed' \in Nat, shutdown' \in BOOLEAN, waited' \in BOOLEAN,
         queue' \in [Queues -> Seq(Tasks)], rr' \in 0 .. NumWorkers - 1,
         pc' \in [Threads -> Phases],
         cur' \in [Threads -> Tasks \cup {NoTask}], arg' \in [Threads -> Tasks \cup {NoTask}],
         reg' \in [Threads -> Nat], scan' \in [Workers -> 1 .. 2 * NumWorkers + NumTypes],
         remote' \subseteq Tasks, counted' \subseteq Tasks, finished' \subseteq Tasks,
         executed' \in [Tasks -> Nat]
  PROVE  TypeOK'
BY DEF TypeOK, Phases

(* A step that neither takes up nor puts down a task.                      *)
LEMMA QuietInv ==
  ASSUME IInv, TypeOK', WaitInv', UNCHANGED <<ledger, queue, cur, arg, remote, executed>>,
         \A u \in Threads : pc'[u] = pc[u] \/ (pc[u] \notin Loaded /\ pc'[u] \notin Loaded)
  PROVE  IInv'
<1> USE DEF IInv, ledger
<1>1. \A u \in Threads : \A S \in SUBSET Loaded : pc'[u] \in S <=> pc[u] \in S
  OBVIOUS
<1>2. /\ Holding \in SUBSET Loaded /\ Pushing \in SUBSET Loaded /\ Completing \in SUBSET Loaded
      /\ Holding \cup {"finish_test"} \in SUBSET Loaded
      /\ {"push_stage", "finish"} \in SUBSET Loaded
  BY DEF Loaded, Holding, Completing
<1>3. \A u \in Threads : /\ pc'[u] \in Holding <=> pc[u] \in Holding
                         /\ pc'[u] \in Pushing <=> pc[u] \in Pushing
                         /\ pc'[u] \in Completing <=> pc[u] \in Completing
                         /\ pc'[u] \in Holding \cup {"finish_test"}
                              <=> pc[u] \in Holding \cup {"finish_test"}
                         /\ pc'[u] \in {"push_stage", "finish"} <=> pc[u] \in {"push_stage", "finish"}
  BY <1>1, <1>2
<1>4. PhaseInv' /\ ThreadsInv'
  BY <1>3 DEF PhaseInv, ThreadsInv
<1>5. \A x : /\ InArg(x)' <=> InArg(x)
             /\ InCur(x)' <=> InCur(x)
             /\ InQueue(x)' <=> InQueue(x)
             /\ Ran(x)' <=> Ran(x)
             /\ Staged(x)' <=> Staged(x)
  BY <1>3 DEF InArg, InCur, InQueue, Ran, Staged
<1>6. HoldInv'
  BY <1>5 DEF HoldInv, Open
<1>7. SlotsInv' /\ LedgerInv' /\ PoolInv'
  BY DEF SlotsInv, LedgerInv, PoolInv
<1>8. ExecInv' /\ SettleInv'
  BY <1>5 DEF ExecInv, SettleInv
<1> QED
  BY <1>4, <1>6, <1>7, <1>8

(* WaitInv when neither the client nor completed moves.                    *)
LEMMA WaitSame ==
  ASSUME TypeOK, WaitInv, completed' = completed,
         NEW th \in Threads \ {Client}, \A u \in Threads \ {th} : pc'[u] = pc[u] /\ reg'[u] = reg[u]
  PROVE  WaitInv'
BY ThreadFacts DEF WaitInv

(* In these phases a thread holds no task.                                 *)
LEMMA NotLoaded ==
  {"load_submitted", "load_completed", "load_shutdown", "scan", "exited", "notify", "idle",
   "wait_nonzero", "wait_completed", "wait_submitted", "wait_block", "blocked", "joining", "done"}
  \cap Loaded = {}
BY DEF Loaded, Holding, Executing, Completing, Pushing

(* A worker without a task looks for one, or leaves.                       *)
LEMMA WorkerQuietInv ==
  ASSUME IInv, NEW w \in Workers,
         LoadSubmitted(w) \/ LoadCompleted(w) \/ LoadShutdown(w) \/ ScanMiss(w)
  PROVE  IInv'
<1> USE DEF IInv
<1>0. w \in Threads \ {Client}
  BY ThreadFacts
<1>1. /\ pc[w] \in {"load_submitted", "load_completed", "load_shutdown", "scan"}
      /\ pc'[w] \in {"load_submitted", "load_completed", "load_shutdown", "scan", "exited"}
      /\ \A u \in Threads \ {w} : pc'[u] = pc[u]
      /\ pc' \in [Threads -> Phases]
  <2>1. CASE LoadSubmitted(w)
    BY <1>0, <2>1, GotoStep DEF LoadSubmitted, Phases
  <2>2. CASE LoadCompleted(w)
    BY <1>0, <2>2, GotoStep DEF LoadCompleted, Phases
  <2>3. CASE LoadShutdown(w)
    BY <1>0, <2>3, GotoStep DEF LoadShutdown, Phases
  <2>4. CASE ScanMiss(w)
    <3>1. pc \in [Threads -> Phases]
      BY DEF TypeOK, Phases
    <3>2. PICK to \in {"load_submitted", "scan"} : pc' = [pc EXCEPT ![w] = to]
      BY <2>4 DEF ScanMiss
    <3>3. to \in Phases /\ pc[w] = "scan"
      BY <2>4 DEF ScanMiss, Phases
    <3> QED
      BY <1>0, <3>1, <3>2, <3>3
  <2> QED
    BY <2>1, <2>2, <2>3, <2>4
<1>2. UNCHANGED <<ledger, shutdown, queue, rr, cur, arg, waited, remote, executed>>
  BY DEF LoadSubmitted, LoadCompleted, LoadShutdown, ScanMiss
<1>3. reg' \in [Threads -> Nat] /\ \A u \in Threads \ {w} : reg'[u] = reg[u]
  <2>1. \E v \in Nat : reg' = [reg EXCEPT ![w] = v] \/ reg' = reg
    BY DEF LoadSubmitted, LoadCompleted, LoadShutdown, ScanMiss, TypeOK
  <2>2. reg \in [Threads -> Nat]
    BY DEF TypeOK
  <2> QED
    BY <1>0, <2>1, <2>2
<1>4. scan' \in [Workers -> 1 .. 2 * NumWorkers + NumTypes]
  <2>0. scan \in [Workers -> 1 .. 2 * NumWorkers + NumTypes]
        /\ 1 \in 1 .. 2 * NumWorkers + NumTypes
    BY RuntimeAssumption DEF TypeOK
  <2>1. CASE LoadSubmitted(w) \/ LoadCompleted(w) \/ LoadShutdown(w)
    BY <2>0, <2>1 DEF LoadSubmitted, LoadCompleted, LoadShutdown
  <2>2. CASE ScanMiss(w)
    <3>1. scan' = [scan EXCEPT ![w] = IF scan[w] = 2 * NumWorkers + NumTypes THEN 1 ELSE scan[w] + 1]
      BY <2>2, ScanOrderType DEF ScanMiss
    <3>2. (IF scan[w] = 2 * NumWorkers + NumTypes THEN 1 ELSE scan[w] + 1)
            \in 1 .. 2 * NumWorkers + NumTypes
      BY <2>0, RuntimeAssumption
    <3> QED
      BY <2>0, <3>1, <3>2
  <2> QED
    BY <2>1, <2>2
<1>5. TypeOK'
  BY <1>1, <1>2, <1>3, <1>4, TypeParts, TypeStep DEF ledger
<1>6. WaitInv'
  BY <1>0, <1>1, <1>2, <1>3, WaitSame DEF ledger
<1>7. \A u \in Threads : pc'[u] = pc[u] \/ (pc[u] \notin Loaded /\ pc'[u] \notin Loaded)
  BY <1>1, NotLoaded
<1> QED
  BY <1>2, <1>5, <1>6, <1>7, QuietInv

(* The client's steps outside submit, and a notification.                  *)
LEMMA ClientQuietInv ==
  ASSUME IInv,
         ClientWait \/ WaitStep \/ SpuriousWakeup \/ ClientShutdown \/ ClientJoin
  PROVE  IInv'
<1> USE DEF IInv
<1>0. Client \in Threads
  BY ThreadFacts
<1> DEFINE Quiet == {"idle", "wait_nonzero", "wait_completed", "wait_submitted", "wait_block",
                     "blocked", "joining", "done"}
<1>1. \E from, to \in Quiet : Goto(Client, from, to)
  BY DEF ClientWait, WaitStep, WaitNonzero, WaitCompleted, WaitReturn, WaitFalse, WaitBlock,
         SpuriousWakeup, ClientShutdown, ClientJoin
<1>2. PICK from \in Quiet, to \in Quiet : Goto(Client, from, to)
  BY <1>1
<1>3. Quiet \subseteq Phases /\ Quiet \cap Loaded = {}
  BY NotLoaded DEF Phases
<1> HIDE DEF Quiet
<1>4. /\ pc'[Client] = to /\ pc[Client] = from
      /\ \A u \in Threads \ {Client} : pc'[u] = pc[u]
      /\ pc' \in [Threads -> Phases]
  BY <1>0, <1>2, <1>3, GotoStep
<1>5. UNCHANGED <<ledger, queue, rr, cur, arg, scan, remote, executed>>
  BY DEF ClientWait, WaitStep, WaitNonzero, WaitCompleted, WaitReturn, WaitFalse, WaitBlock,
         SpuriousWakeup, ClientShutdown, ClientJoin
<1>6. shutdown' \in BOOLEAN /\ waited' \in BOOLEAN
  BY TypeParts DEF ClientWait, WaitStep, WaitNonzero, WaitCompleted, WaitReturn, WaitFalse,
         WaitBlock, SpuriousWakeup, ClientShutdown, ClientJoin
<1>7. \E v \in {0, completed} : reg' = [reg EXCEPT ![Client] = v] \/ reg' = reg
  BY DEF ClientWait, WaitStep, WaitNonzero, WaitCompleted, WaitReturn, WaitFalse, WaitBlock,
         SpuriousWakeup, ClientShutdown, ClientJoin
<1>8. reg' \in [Threads -> Nat]
  <2>1. PICK v \in {0, completed} : reg' = [reg EXCEPT ![Client] = v] \/ reg' = reg
    BY <1>7
  <2>2. v \in Nat /\ reg \in [Threads -> Nat]
    BY TypeParts
  <2> QED
    BY <2>1, <2>2
<1>9. TypeOK'
  BY <1>4, <1>5, <1>6, <1>8, TypeParts, TypeStep DEF ledger
<1>10. WaitInv'
  <2>1. CASE WaitCompleted
    <3>1. reg'[Client] = completed /\ completed' = completed /\ completed \in Nat
      BY <1>0, <1>5, <2>1, TypeParts DEF WaitCompleted, ledger
    <3> QED
      BY <3>1 DEF WaitInv
  <2>2. CASE ~WaitCompleted
    <3>1. pc'[Client] # "wait_submitted"
      <4>1. \E t \in Quiet \ {"wait_submitted"} : pc' = [pc EXCEPT ![Client] = t]
        BY <2>2 DEF ClientWait, WaitStep, WaitNonzero, WaitReturn, WaitFalse, WaitBlock,
           SpuriousWakeup, ClientShutdown, ClientJoin, Goto, Quiet
      <4> QED
        BY <1>0, <4>1, TypeParts
    <3> QED
      BY <3>1 DEF WaitInv
  <2> QED
    BY <2>1, <2>2
<1>11. \A u \in Threads : pc'[u] = pc[u] \/ (pc[u] \notin Loaded /\ pc'[u] \notin Loaded)
  BY <1>3, <1>4
<1> QED
  BY <1>5, <1>9, <1>10, <1>11, QuietInv

(* notify_all wakes the client; no task moves.                             *)
LEMMA FinishNotifyInv ==
  ASSUME IInv, NEW th \in Threads \ {Client}, FinishNotify(th)
  PROVE  IInv'
<1> USE DEF IInv
<1>1. pc[th] = "notify" /\ AfterTask(th) \in {"load_submitted", "idle"}
  BY DEF FinishNotify, AfterTask
<1>2. \A u \in Threads : pc'[u] = IF u = th THEN AfterTask(th)
              ELSE IF u = Client /\ pc[u] = "blocked" THEN "wait_nonzero"
              ELSE pc[u]
  BY DEF FinishNotify
<1>3. \A u \in Threads : pc'[u] = pc[u] \/ (pc[u] \notin Loaded /\ pc'[u] \notin Loaded)
  BY <1>1, <1>2, NotLoaded
<1>4. pc' \in [Threads -> Phases]
  <2>1. {"load_submitted", "idle", "wait_nonzero"} \subseteq Phases
    BY DEF Phases
  <2>2. \A u \in Threads : (IF u = th THEN AfterTask(th)
              ELSE IF u = Client /\ pc[u] = "blocked" THEN "wait_nonzero"
              ELSE pc[u]) \in Phases
    BY <1>1, <2>1, TypeParts
  <2> QED
    BY <2>2 DEF FinishNotify
<1>5. UNCHANGED <<ledger, shutdown, queue, rr, cur, arg, reg, scan, waited, remote, executed>>
  BY DEF FinishNotify
<1>6. TypeOK'
  BY <1>4, <1>5, TypeParts, TypeStep DEF ledger
<1>7. WaitInv'
  <2>1. pc'[Client] = "wait_submitted" => pc[Client] = "wait_submitted"
    BY <1>2, ThreadFacts
  <2> QED
    BY <1>5, <2>1 DEF WaitInv, ledger
<1> QED
  BY <1>3, <1>5, <1>6, <1>7, QuietInv

----------------------------------------------------------------------------
(* submit and submit_portable.                                             *)

(* The ledger's sets are finite, so that their cardinalities count.        *)
LEMMA LedgerFinite ==
  ASSUME TypeOK
  PROVE  IsFiniteSet(counted) /\ IsFiniteSet(finished)
BY TypeParts, RuntimeAssumption, FS_Subset

(* The task is counted: nobody held it, now the submitting thread does.    *)
LEMMA CountInv ==
  ASSUME IInv, NEW th \in Threads, NEW x \in Tasks, NEW from, NEW to, Count(th, x, from, to),
         \/ from = "run" /\ to = "push_spawned"
         \/ from = "observe" /\ to = "push_stage" /\ x = Stage[cur[th]]
         \/ from = "idle" /\ to = "push_root"
  PROVE  IInv'
<1> USE DEF IInv
<1>1. to \in Phases /\ Goto(th, from, to)
  BY DEF Count, Phases
<1>2. /\ pc[th] = from /\ pc'[th] = to
      /\ \A u \in Threads \ {th} : pc'[u] = pc[u]
      /\ pc' \in [Threads -> Phases]
  BY <1>1, GotoStep
<1>3. /\ x \notin counted /\ submitted' = submitted + 1 /\ counted' = counted \cup {x}
      /\ waited' = IF th = Client THEN FALSE ELSE waited
      /\ UNCHANGED <<completed, finished, shutdown, queue, rr, cur, reg, scan, remote, executed>>
  BY DEF Count
<1>4. arg' = [arg EXCEPT ![th] = x]
  BY DEF Count
<1>5. arg'[th] = x /\ \A u \in Threads \ {th} : arg'[u] = arg[u]
  BY <1>4, TypeParts
<1>6. arg' \in [Threads -> Tasks \cup {NoTask}]
  BY <1>4, TypeParts
<1>7. TypeOK'
  <2>1. submitted' \in Nat /\ counted' \subseteq Tasks
    BY <1>3, TypeParts
  <2>2. waited' \in BOOLEAN
    BY <1>3, TypeParts
  <2> QED
    BY <1>2, <1>3, <1>6, <2>1, <2>2, TypeParts, TypeStep
<1>8. /\ from \notin Pushing /\ to \in Pushing
      /\ from \in Holding <=> to \in Holding
      /\ from \in Holding \cup {"finish_test"} <=> to \in Holding \cup {"finish_test"}
      /\ from \in Completing <=> to \in Completing
      /\ to \in {"push_stage", "finish"} => from = "observe" /\ x = Stage[cur[th]]
      /\ from \notin {"push_stage", "finish"}
  BY DEF Pushing, Holding, Executing, Completing
<1>9. \A u \in Threads :
        /\ pc'[u] \in Holding <=> pc[u] \in Holding
        /\ pc'[u] \in Holding \cup {"finish_test"} <=> pc[u] \in Holding \cup {"finish_test"}
        /\ pc'[u] \in Completing <=> pc[u] \in Completing
        /\ pc'[u] \in Pushing <=> pc[u] \in Pushing \/ u = th
  BY <1>2, <1>8
<1>10. arg[th] = NoTask
  BY <1>2, <1>8 DEF PhaseInv
<1>11. PhaseInv'
  BY <1>3, <1>5, <1>9, <1>10, ThreadFacts DEF PhaseInv
<1>12. x \notin Open /\ x \notin finished /\ ~InArg(x) /\ ~InCur(x) /\ ~InQueue(x) /\ x \notin remote
  BY <1>3 DEF Open, HoldInv, LedgerInv
<1>13. ThreadsInv'
  BY <1>3, <1>5, <1>9, <1>12 DEF ThreadsInv, InArg
<1>14. /\ \A y \in Tasks : InArg(y)' <=> InArg(y) \/ y = x
       /\ \A y : (InCur(y)' <=> InCur(y)) /\ (InQueue(y)' <=> InQueue(y))
       /\ \A y : Ran(y)' <=> Ran(y)
  <2>1. \A y \in Tasks : InArg(y)' <=> InArg(y) \/ y = x
    BY <1>5, <1>10, ThreadFacts DEF InArg
  <2>2. \A y : (InCur(y)' <=> InCur(y)) /\ (Ran(y)' <=> Ran(y))
    BY <1>3, <1>9 DEF InCur, Ran
  <2>3. \A y : InQueue(y)' <=> InQueue(y)
    BY <1>3 DEF InQueue
  <2> QED
    BY <2>1, <2>2, <2>3
<1>15. Open' = Open \cup {x}
  BY <1>3, <1>12 DEF Open
<1>16. HoldInv'
  BY <1>3, <1>12, <1>14, <1>15 DEF HoldInv
<1>17. SlotsInv' /\ PoolInv'
  BY <1>3 DEF SlotsInv, PoolInv
<1>18. LedgerInv'
  BY <1>3, LedgerFinite, FS_AddElement DEF LedgerInv
<1>19. ExecInv'
  BY <1>3, <1>14 DEF ExecInv
<1>20. SettleInv'
  <2>1. \A y \in Tasks : Staged(y)' => Staged(y) \/ x = Stage[y]
    BY <1>2, <1>3, <1>8 DEF Staged
  <2> QED
    BY <1>3, <1>14, <2>1 DEF SettleInv
<1>21. WaitInv'
  <2>1. to # "wait_submitted"
    OBVIOUS
  <2> QED
    BY <1>2, <1>3, <2>1, ThreadFacts DEF WaitInv
<1> QED
  BY <1>7, <1>11, <1>13, <1>16, <1>17, <1>18, <1>19, <1>20, <1>21

(* The task is pushed: the queue holds it instead of the thread.           *)
LEMMA PushInv ==
  ASSUME IInv, NEW th \in Threads, NEW from, NEW to, Push(th, from, to),
         \/ from = "push_spawned" /\ to = "run"
         \/ from = "push_stage" /\ to = "finish"
         \/ from = "push_root" /\ to = "idle"
  PROVE  IInv'
<1> USE DEF IInv
<1>1. to \in Phases /\ Goto(th, from, to)
  BY DEF Push, Phases
<1>2. /\ pc[th] = from /\ pc'[th] = to
      /\ \A u \in Threads \ {th} : pc'[u] = pc[u]
      /\ pc' \in [Threads -> Phases]
  BY <1>1, GotoStep
<1>3. /\ from \in Pushing /\ to \notin Pushing
      /\ from \in Holding <=> to \in Holding
      /\ from \in Holding \cup {"finish_test"} <=> to \in Holding \cup {"finish_test"}
      /\ from \in Completing <=> to \in Completing
      /\ from \in {"push_stage", "finish"} <=> to \in {"push_stage", "finish"}
  BY DEF Pushing, Holding, Executing, Completing
<1>4. PICK x \in Tasks : x = arg[th]
  BY <1>2, <1>3, TypeParts DEF PhaseInv
<1>5. PICK q \in Queues : /\ q = Destination(th, x)
                          /\ \A i \in Types : q = <<"pool", i>> => TypeOf[x] # 0
                          /\ q[1] = "injection" => q = <<"injection", rr + 1>>
  <2>1. CASE TypeOf[x] # 0
    <3>1. TypeOf[x] \in Types
      BY <2>1, RuntimeAssumption DEF Types
    <3> QED
      BY <2>1, <3>1, ThreadFacts DEF Destination
  <2>2. CASE TypeOf[x] = 0 /\ th \in Workers
    BY <2>2, ThreadFacts DEF Destination
  <2>3. CASE TypeOf[x] = 0 /\ th \notin Workers
    <3>1. rr + 1 \in Workers
      BY TypeParts, RuntimeAssumption DEF Workers
    <3> QED
      BY <2>3, <3>1, ThreadFacts DEF Destination
  <2> QED
    BY <2>1, <2>2, <2>3
<1>6. /\ queue' = [queue EXCEPT ![q] = Append(@, x)]
      /\ rr' = IF q[1] = "injection" THEN (rr + 1) % NumWorkers ELSE rr
      /\ arg' = [arg EXCEPT ![th] = NoTask]
      /\ UNCHANGED <<ledger, shutdown, cur, reg, scan, waited, remote, executed>>
  BY <1>4, <1>5 DEF Push
<1>7. arg'[th] = NoTask /\ \A u \in Threads \ {th} : arg'[u] = arg[u]
  BY <1>6, TypeParts
<1>8. InArg(x) /\ ~InQueue(x) /\ ~InCur(x) /\ x \notin remote
  BY <1>4 DEF InArg, HoldInv
<1>9. /\ queue' \in [Queues -> Seq(Tasks)]
      /\ SlotsInv'
      /\ \A y : InQueue(y)' <=> InQueue(y) \/ y = x
  BY <1>6, <1>8, PushQueue
<1>10. rr' \in 0 .. NumWorkers - 1
  <2>1. rr \in 0 .. NumWorkers - 1 /\ NumWorkers \in Nat \ {0}
    BY TypeParts, RuntimeAssumption
  <2>2. (rr + 1) % NumWorkers \in 0 .. NumWorkers - 1
    BY <2>1
  <2> QED
    BY <1>6, <2>1, <2>2
<1>11. TypeOK'
  <2>1. arg' \in [Threads -> Tasks \cup {NoTask}]
    BY <1>6, TypeParts
  <2> QED
    BY <1>2, <1>6, <1>9, <1>10, <2>1, TypeParts, TypeStep DEF ledger
<1>12. \A u \in Threads :
        /\ pc'[u] \in Holding <=> pc[u] \in Holding
        /\ pc'[u] \in Holding \cup {"finish_test"} <=> pc[u] \in Holding \cup {"finish_test"}
        /\ pc'[u] \in Completing <=> pc[u] \in Completing
        /\ pc'[u] \in {"push_stage", "finish"} <=> pc[u] \in {"push_stage", "finish"}
        /\ pc'[u] \in Pushing <=> pc[u] \in Pushing /\ u # th
  BY <1>2, <1>3
<1>13. PhaseInv'
  BY <1>6, <1>7, <1>12 DEF PhaseInv
<1>14. ThreadsInv'
  BY <1>6, <1>7, <1>12 DEF ThreadsInv
<1>15. /\ \A y \in Tasks : InArg(y)' <=> InArg(y) /\ y # x
       /\ \A y : InCur(y)' <=> InCur(y)
       /\ \A y : (Ran(y)' <=> Ran(y)) /\ (Staged(y)' <=> Staged(y))
  <2>1. \A y \in Tasks : InArg(y)' <=> InArg(y) /\ y # x
    <3>1. \A u \in Threads \ {th} : arg[u] # x
      BY <1>4, ThreadFacts DEF ThreadsInv
    <3> QED
      BY <1>4, <1>7, <3>1, ThreadFacts DEF InArg
  <2>2. \A y : (InCur(y)' <=> InCur(y)) /\ (Ran(y)' <=> Ran(y)) /\ (Staged(y)' <=> Staged(y))
    BY <1>6, <1>12 DEF InCur, Ran, Staged, ledger
  <2> QED
    BY <2>1, <2>2
<1>16. Open' = Open
  BY <1>6 DEF Open, ledger
<1>17. HoldInv'
  BY <1>6, <1>8, <1>9, <1>15, <1>16 DEF HoldInv
<1>18. PoolInv'
  <2>1. ASSUME NEW i \in Types, NEW j \in 1 .. Len(queue'[<<"pool", i>>])
        PROVE  TypeOf[queue'[<<"pool", i>>][j]] # 0
    <3>1. <<"pool", i>> \in Queues
      BY ThreadFacts
    <3>2. CASE q # <<"pool", i>>
      BY <1>6, <2>1, <3>1, <3>2, TypeParts DEF PoolInv
    <3>3. CASE q = <<"pool", i>>
      <4>1. queue'[q] = Append(queue[q], x) /\ queue[q] \in Seq(Tasks)
        BY <1>6, TypeParts
      <4>2. (j \in 1 .. Len(queue[q]) /\ queue'[q][j] = queue[q][j]) \/ queue'[q][j] = x
        BY <2>1, <3>3, <4>1, AppendProperties
      <4> QED
        BY <1>5, <3>3, <4>2 DEF PoolInv
    <3> QED
      BY <3>2, <3>3
  <2> QED
    BY <1>6, <2>1 DEF PoolInv
<1>19. LedgerInv' /\ ExecInv' /\ SettleInv'
  BY <1>6, <1>15 DEF LedgerInv, ExecInv, SettleInv, ledger
<1>20. WaitInv'
  <2>1. to # "wait_submitted"
    OBVIOUS
  <2> QED
    BY <1>2, <1>6, <2>1, ThreadFacts DEF WaitInv, ledger
<1> QED
  BY <1>9, <1>11, <1>13, <1>14, <1>17, <1>18, <1>19, <1>20

----------------------------------------------------------------------------
(* A task changes hands, runs and completes.                               *)

(* A free thread takes a task out of a queue or gets a peer's answer.      *)
LEMMA TakeUp ==
  ASSUME IInv, NEW th \in Threads, NEW x \in Tasks, NEW from, NEW to,
         from \notin Loaded, to \in {"run", "observe"},
         pc[th] = from, pc' = [pc EXCEPT ![th] = to], cur' = [cur EXCEPT ![th] = x],
         UNCHANGED <<arg, ledger>>,
         InQueue(x) \/ x \in remote,
         SlotsInv',
         \A y \in Tasks : (InQueue(y) \/ y \in remote) /\ y # x <=> InQueue(y)' \/ y \in remote',
         \A y \in Tasks : ~(InQueue(y)' /\ y \in remote')
  PROVE  /\ PhaseInv' /\ HoldInv' /\ ThreadsInv' /\ LedgerInv'
         /\ pc' \in [Threads -> Phases] /\ cur' \in [Threads -> Tasks \cup {NoTask}]
         /\ \A y \in Tasks : Ran(y)' <=> Ran(y) \/ (y = x /\ to = "observe")
         /\ \A y \in Tasks : Staged(y)' <=> Staged(y)
         /\ ~Ran(x)
<1> USE DEF IInv
<1>1. /\ pc'[th] = to /\ cur'[th] = x
      /\ \A u \in Threads \ {th} : pc'[u] = pc[u] /\ cur'[u] = cur[u]
      /\ cur' \in [Threads -> Tasks \cup {NoTask}]
  BY TypeParts
<1>2. pc' \in [Threads -> Phases]
  <2>1. to \in Phases
    BY DEF Phases
  <2> QED
    BY <2>1, TypeParts
<1>3. /\ to \in Holding /\ to \in Holding \cup {"finish_test"} /\ to \notin Pushing
      /\ from \notin Holding /\ from \notin Holding \cup {"finish_test"} /\ from \notin Pushing
      /\ to \in Completing <=> to = "observe"
      /\ to \notin {"push_stage", "finish"} /\ from \notin Completing
      /\ from \notin {"push_stage", "finish"}
  BY DEF Loaded, Holding, Executing, Completing, Pushing
<1>4. cur[th] = NoTask /\ arg[th] = NoTask
  BY <1>3 DEF PhaseInv
<1>5. PhaseInv'
  BY <1>1, <1>3, <1>4, ThreadFacts DEF PhaseInv
<1>6. x \in Open /\ ~InArg(x) /\ ~InCur(x)
  BY DEF HoldInv
<1>7. ThreadsInv'
  BY <1>1, <1>3, <1>6 DEF ThreadsInv, InCur
<1>8. \A y \in Tasks : InCur(y)' <=> InCur(y) \/ y = x
  BY <1>1, <1>3, <1>4, ThreadFacts DEF InCur
<1>9. \A y : InArg(y)' <=> InArg(y)
  BY DEF InArg
<1>10. Open' = Open
  BY DEF Open, ledger
<1>11. HoldInv'
  BY <1>6, <1>8, <1>9, <1>10 DEF HoldInv
<1>12. LedgerInv'
  BY DEF LedgerInv, ledger
<1>13. \A y \in Tasks : Ran(y)' <=> Ran(y) \/ (y = x /\ to = "observe")
  BY <1>1, <1>3, <1>4, ThreadFacts DEF Ran, ledger
<1>14. \A y \in Tasks : Staged(y)' <=> Staged(y)
  BY <1>1, <1>3, <1>4, ThreadFacts DEF Staged, ledger
<1>15. ~Ran(x)
  BY <1>6 DEF Ran, Open, InCur, Holding
<1> QED
  BY <1>1, <1>2, <1>5, <1>7, <1>11, <1>12, <1>13, <1>14, <1>15

(* take_portable and the pops: the pools keep holding portable tasks only. *)
LEMMA PoolShrinks ==
  ASSUME PoolInv, TypeOK,
         \A r \in Queues : \A i \in 1 .. Len(queue'[r]) :
           \E j \in 1 .. Len(queue[r]) : queue'[r][i] = queue[r][j]
  PROVE  \A i \in Types : \A j \in 1 .. Len(queue'[<<"pool", i>>]) :
           TypeOf[queue'[<<"pool", i>>][j]] # 0
<1> SUFFICES ASSUME NEW t \in Types, NEW i \in 1 .. Len(queue'[<<"pool", t>>])
             PROVE  TypeOf[queue'[<<"pool", t>>][i]] # 0
  OBVIOUS
<1>1. <<"pool", t>> \in Queues
  BY ThreadFacts
<1>2. PICK j \in 1 .. Len(queue[<<"pool", t>>]) :
        queue'[<<"pool", t>>][i] = queue[<<"pool", t>>][j]
  BY <1>1
<1> QED
  BY <1>2 DEF PoolInv

(* A worker pops a task: it leaves its queue for that worker alone.        *)
LEMMA ScanHitInv ==
  ASSUME IInv, NEW w \in Workers, ScanHit(w)
  PROVE  IInv'
<1> USE DEF IInv
<1>0. w \in Threads \ {Client}
  BY ThreadFacts
<1>1. PICK q \in Queues : q = Scanned(w)
  BY ScannedType
<1> DEFINE s == queue[q]
           x == IF q = <<"deque", w>> THEN s[Len(s)] ELSE Head(s)
<1>2. /\ s # <<>> /\ Goto(w, "scan", "run")
      /\ cur' = [cur EXCEPT ![w] = x]
      /\ queue' = [queue EXCEPT ![q] = IF q = <<"deque", w>> THEN SubSeq(s, 1, Len(s) - 1) ELSE Tail(s)]
      /\ UNCHANGED <<ledger, shutdown, rr, arg, reg, scan, waited, remote, executed>>
  BY <1>1 DEF ScanHit
<1>3. \/ x = Head(s) /\ queue' = [queue EXCEPT ![q] = Tail(s)]
      \/ x = s[Len(s)] /\ queue' = [queue EXCEPT ![q] = SubSeq(s, 1, Len(s) - 1)]
  BY <1>2
<1>4. /\ x \in Tasks /\ InQueue(x)
      /\ queue' \in [Queues -> Seq(Tasks)]
      /\ SlotsInv'
      /\ \A y : InQueue(y)' <=> InQueue(y) /\ y # x
      /\ \A r \in Queues : \A i \in 1 .. Len(queue'[r]) :
           \E j \in 1 .. Len(queue[r]) : queue'[r][i] = queue[r][j]
  BY <1>2, <1>3, TakeQueue
<1> HIDE DEF x, s
<1>5. x \notin remote
  BY <1>4 DEF HoldInv
<1>6. \A y \in Tasks : (InQueue(y) \/ y \in remote) /\ y # x <=> InQueue(y)' \/ y \in remote'
  BY <1>2, <1>4, <1>5
<1>7. \A y \in Tasks : ~(InQueue(y)' /\ y \in remote')
  BY <1>2, <1>4 DEF HoldInv
<1>8. /\ pc[w] = "scan" /\ pc' = [pc EXCEPT ![w] = "run"] /\ "scan" \notin Loaded
      /\ "run" \in {"run", "observe"}
  BY <1>2, NotLoaded DEF Goto
<1>9. /\ PhaseInv' /\ HoldInv' /\ ThreadsInv' /\ LedgerInv'
      /\ pc' \in [Threads -> Phases] /\ cur' \in [Threads -> Tasks \cup {NoTask}]
      /\ \A y \in Tasks : Ran(y)' <=> Ran(y)
      /\ \A y \in Tasks : Staged(y)' <=> Staged(y)
  BY <1>0, <1>2, <1>4, <1>6, <1>7, <1>8, TakeUp
<1>10. TypeOK'
  BY <1>2, <1>4, <1>9, TypeParts, TypeStep DEF ledger
<1>11. ExecInv' /\ SettleInv'
  BY <1>2, <1>9 DEF ExecInv, SettleInv, ledger
<1>12. PoolInv'
  BY <1>2, <1>4, PoolShrinks DEF PoolInv
<1>13. WaitInv'
  BY <1>0, <1>2, <1>8, TypeParts, ThreadFacts DEF WaitInv, ledger
<1> QED
  BY <1>4, <1>9, <1>10, <1>11, <1>12, <1>13

(* take_portable: the task leaves its pool for a peer.                     *)
LEMMA TakePortableInv ==
  ASSUME IInv, TakePortable
  PROVE  IInv'
<1> USE DEF IInv
<1>1. PICK t \in Types :
        /\ queue[<<"pool", t>>] # <<>>
        /\ remote' = remote \cup {Head(queue[<<"pool", t>>])}
        /\ queue' = [queue EXCEPT ![<<"pool", t>>] = Tail(@)]
        /\ UNCHANGED <<ledger, shutdown, rr, pc, cur, arg, reg, scan, waited, executed>>
  BY DEF TakePortable
<1> DEFINE q == <<"pool", t>>
           x == Head(queue[q])
<1>2. q \in Queues /\ queue[q] # <<>> /\ queue' = [queue EXCEPT ![q] = Tail(queue[q])]
  BY <1>1, ThreadFacts
<1>3. remote' = remote \cup {x}
  BY <1>1
<1>4. TypeOf[x] # 0
  <2>1. queue[q] \in Seq(Tasks) /\ Len(queue[q]) \in Nat \ {0}
    BY <1>2, QueueTypes, EmptySeq
  <2>2. x = queue[q][1] /\ 1 \in 1 .. Len(queue[q])
    BY <2>1
  <2> QED
    BY <2>2 DEF PoolInv
<1> HIDE DEF q
<1>5. /\ x \in Tasks /\ InQueue(x)
      /\ queue' \in [Queues -> Seq(Tasks)]
      /\ SlotsInv'
      /\ \A y : InQueue(y)' <=> InQueue(y) /\ y # x
      /\ \A r \in Queues : \A i \in 1 .. Len(queue'[r]) :
           \E j \in 1 .. Len(queue[r]) : queue'[r][i] = queue[r][j]
  BY <1>2, TakeQueue
<1> HIDE DEF x
<1>6. TypeOK'
  <2>1. remote' \subseteq Tasks
    BY <1>3, <1>5, TypeParts
  <2> QED
    BY <1>1, <1>5, <2>1, TypeParts, TypeStep DEF ledger
<1>7. PhaseInv' /\ ThreadsInv' /\ LedgerInv'
  BY <1>1 DEF PhaseInv, ThreadsInv, LedgerInv, ledger
<1>8. \A y : /\ InArg(y)' <=> InArg(y)
             /\ InCur(y)' <=> InCur(y)
             /\ Ran(y)' <=> Ran(y)
             /\ Staged(y)' <=> Staged(y)
  BY <1>1 DEF InArg, InCur, Ran, Staged, ledger
<1>9. Open' = Open
  BY <1>1 DEF Open, ledger
<1>10. HoldInv'
  BY <1>3, <1>5, <1>8, <1>9 DEF HoldInv
<1>11. ExecInv' /\ SettleInv'
  BY <1>1, <1>8 DEF ExecInv, SettleInv, ledger
<1>12. PoolInv'
  BY <1>3, <1>4, <1>5, PoolShrinks DEF PoolInv
<1>13. WaitInv'
  BY <1>1 DEF WaitInv, ledger
<1> QED
  BY <1>5, <1>6, <1>7, <1>10, <1>11, <1>12, <1>13

(* A peer reports a task: it passes from the peer to the serve thread.     *)
LEMMA RemoteCompleteInv ==
  ASSUME IInv, RemoteComplete
  PROVE  IInv'
<1> USE DEF IInv
<1>1. PICK x \in remote :
        /\ cur' = [cur EXCEPT ![Server] = x]
        /\ remote' = remote \ {x}
        /\ executed' = [executed EXCEPT ![x] = @ + 1]
  BY DEF RemoteComplete
<1>2. /\ pc[Server] = "idle" /\ pc' = [pc EXCEPT ![Server] = "observe"]
      /\ UNCHANGED <<ledger, shutdown, queue, rr, arg, reg, scan, waited>>
  BY DEF RemoteComplete, Goto
<1>3. x \in Tasks /\ TypeOf[x] # 0 /\ ~InQueue(x)
  BY TypeParts DEF PoolInv, HoldInv
<1>4. \A y : InQueue(y)' <=> InQueue(y)
  BY <1>2 DEF InQueue
<1>5. SlotsInv'
  BY <1>2 DEF SlotsInv
<1>6. \A y \in Tasks : (InQueue(y) \/ y \in remote) /\ y # x <=> InQueue(y)' \/ y \in remote'
  BY <1>1, <1>3, <1>4
<1>7. \A y \in Tasks : ~(InQueue(y)' /\ y \in remote')
  BY <1>1, <1>4 DEF HoldInv
<1>8. "idle" \notin Loaded /\ "observe" \in {"run", "observe"} /\ Server \in Threads \ {Client}
  BY NotLoaded, ThreadFacts
<1>9. /\ PhaseInv' /\ HoldInv' /\ ThreadsInv' /\ LedgerInv'
      /\ pc' \in [Threads -> Phases] /\ cur' \in [Threads -> Tasks \cup {NoTask}]
      /\ \A y \in Tasks : Ran(y)' <=> Ran(y) \/ y = x
      /\ \A y \in Tasks : Staged(y)' <=> Staged(y)
      /\ ~Ran(x)
  BY <1>1, <1>2, <1>3, <1>5, <1>6, <1>7, <1>8, TakeUp
<1>10. /\ executed' \in [Tasks -> Nat] /\ executed'[x] = executed[x] + 1
       /\ \A y \in Tasks \ {x} : executed'[y] = executed[y]
  BY <1>1, <1>3, TypeParts
<1>11. TypeOK'
  <2>1. remote' \subseteq Tasks
    BY <1>1, TypeParts
  <2> QED
    BY <1>2, <1>9, <1>10, <2>1, TypeParts, TypeStep DEF ledger
<1>12. ExecInv'
  BY <1>3, <1>9, <1>10 DEF ExecInv
<1>13. SettleInv'
  <2>1. Spawns[x] = {}
    BY <1>3, RuntimeAssumption
  <2> QED
    BY <1>2, <1>9, <2>1 DEF SettleInv, ledger
<1>14. PoolInv'
  BY <1>1, <1>2 DEF PoolInv
<1>15. WaitInv'
  BY <1>2, <1>8, TypeParts, ThreadFacts DEF WaitInv, ledger
<1> QED
  BY <1>5, <1>9, <1>11, <1>12, <1>13, <1>14, <1>15

(* The task returns: its children are counted, it has run once.            *)
LEMMA RunReturnInv ==
  ASSUME IInv, NEW w \in Workers, RunReturn(w)
  PROVE  IInv'
<1> USE DEF IInv
<1>0. w \in Threads \ {Client} /\ "observe" \in Phases
  BY ThreadFacts DEF Phases
<1>1. /\ pc[w] = "run" /\ pc'[w] = "observe"
      /\ \A u \in Threads \ {w} : pc'[u] = pc[u]
      /\ pc' \in [Threads -> Phases]
  BY <1>0, GotoStep DEF RunReturn
<1>2. PICK x \in Tasks : x = cur[w]
  BY <1>0, <1>1, TypeParts DEF PhaseInv, Holding, Executing
<1>3. /\ Spawns[x] \subseteq counted
      /\ executed' = [executed EXCEPT ![x] = @ + 1]
      /\ scan' = [scan EXCEPT ![w] = 1]
      /\ UNCHANGED <<ledger, shutdown, queue, rr, cur, arg, reg, waited, remote>>
  BY <1>2 DEF RunReturn
<1>4. /\ executed' \in [Tasks -> Nat] /\ executed'[x] = executed[x] + 1
      /\ \A y \in Tasks \ {x} : executed'[y] = executed[y]
  BY <1>3, TypeParts
<1>5. TypeOK'
  <2>1. 1 \in 1 .. 2 * NumWorkers + NumTypes
    BY RuntimeAssumption
  <2>2. scan' \in [Workers -> 1 .. 2 * NumWorkers + NumTypes]
    BY <1>3, <2>1, TypeParts
  <2> QED
    BY <1>1, <1>3, <1>4, <2>2, TypeParts, TypeStep DEF ledger
<1>6. /\ "run" \in Holding /\ "observe" \in Holding /\ "run" \notin Pushing /\ "observe" \notin Pushing
      /\ "run" \notin Completing /\ "observe" \in Completing
  BY DEF Holding, Executing, Completing, Pushing
<1>7. \A u \in Threads : (pc'[u] \in Holding <=> pc[u] \in Holding)
                         /\ (pc'[u] \in Pushing <=> pc[u] \in Pushing)
                         /\ (pc'[u] = "finish_test" <=> pc[u] = "finish_test")
                         /\ (pc'[u] \in Completing <=> pc[u] \in Completing \/ u = w)
                         /\ (pc'[u] \in {"push_stage", "finish"} <=> pc[u] \in {"push_stage", "finish"})
  BY <1>1, <1>6
<1>8. PhaseInv' /\ ThreadsInv'
  BY <1>3, <1>7 DEF PhaseInv, ThreadsInv
<1>9. \A y : /\ InArg(y)' <=> InArg(y)
             /\ InCur(y)' <=> InCur(y)
             /\ InQueue(y)' <=> InQueue(y)
             /\ Staged(y)' <=> Staged(y)
  BY <1>3, <1>7 DEF InArg, InCur, InQueue, Staged, ledger
<1>10. Open' = Open
  BY <1>3 DEF Open, ledger
<1>11. HoldInv'
  BY <1>3, <1>9, <1>10 DEF HoldInv
<1>12. SlotsInv' /\ LedgerInv' /\ PoolInv'
  BY <1>3 DEF SlotsInv, LedgerInv, PoolInv, ledger
<1>13. \A y : Ran(y)' <=> Ran(y) \/ y = x
  BY <1>0, <1>2, <1>3, <1>7 DEF Ran, ledger
<1>14. ~Ran(x)
  <2>1. x \notin finished
    BY <1>0, <1>1, <1>2, <1>6 DEF HoldInv, InCur, Open
  <2>2. \A u \in Threads : pc[u] \in Holding /\ cur[u] = x => u = w
    BY <1>0, <1>1, <1>2, <1>6 DEF ThreadsInv
  <2> QED
    BY <1>1, <1>6, <2>1, <2>2 DEF Ran, Holding
<1>15. ExecInv'
  BY <1>4, <1>13, <1>14 DEF ExecInv
<1>16. SettleInv'
  BY <1>3, <1>9, <1>13 DEF SettleInv, ledger
<1>17. WaitInv'
  BY <1>0, <1>1, <1>3, WaitSame DEF ledger
<1> QED
  BY <1>5, <1>8, <1>11, <1>12, <1>15, <1>16, <1>17

(* There is no next stage.                                                 *)
LEMMA ObserveLastInv ==
  ASSUME IInv, NEW th \in Threads \ {Client}, ObserveLast(th)
  PROVE  IInv'
<1> USE DEF IInv
<1>0. "finish" \in Phases
  BY DEF Phases
<1>1. /\ pc[th] = "observe" /\ pc'[th] = "finish"
      /\ \A u \in Threads \ {th} : pc'[u] = pc[u]
      /\ pc' \in [Threads -> Phases]
  BY <1>0, GotoStep DEF ObserveLast
<1>2. /\ Stage[cur[th]] = NoTask
      /\ UNCHANGED <<ledger, shutdown, queue, rr, cur, arg, reg, scan, waited, remote, executed>>
  BY DEF ObserveLast
<1>3. TypeOK'
  BY <1>1, <1>2, TypeParts, TypeStep DEF ledger
<1>4. /\ "finish" \in Holding /\ "observe" \in Holding /\ "finish" \notin Pushing
      /\ "observe" \notin Pushing /\ "finish" \in Completing /\ "observe" \in Completing
  BY DEF Holding, Executing, Completing, Pushing
<1>5. \A u \in Threads : (pc'[u] \in Holding <=> pc[u] \in Holding)
                         /\ (pc'[u] \in Pushing <=> pc[u] \in Pushing)
                         /\ (pc'[u] = "finish_test" <=> pc[u] = "finish_test")
                         /\ (pc'[u] \in Completing <=> pc[u] \in Completing)
  BY <1>1, <1>4
<1>6. PhaseInv' /\ ThreadsInv'
  BY <1>2, <1>5 DEF PhaseInv, ThreadsInv
<1>7. \A y : /\ InArg(y)' <=> InArg(y)
             /\ InCur(y)' <=> InCur(y)
             /\ InQueue(y)' <=> InQueue(y)
             /\ Ran(y)' <=> Ran(y)
  BY <1>2, <1>5 DEF InArg, InCur, InQueue, Ran, ledger
<1>8. Open' = Open
  BY <1>2 DEF Open, ledger
<1>9. HoldInv' /\ ExecInv'
  BY <1>2, <1>7, <1>8 DEF HoldInv, ExecInv
<1>10. SlotsInv' /\ LedgerInv' /\ PoolInv'
  BY <1>2 DEF SlotsInv, LedgerInv, PoolInv, ledger
<1>11. SettleInv'
  <2>1. \A y : Staged(y)' => Staged(y) \/ Stage[y] = NoTask
    BY <1>1, <1>2 DEF Staged, ledger
  <2> QED
    BY <1>2, <1>7, <2>1 DEF SettleInv, ledger
<1>12. WaitInv'
  BY <1>1, <1>2, WaitSame DEF ledger
<1> QED
  BY <1>3, <1>6, <1>9, <1>10, <1>11, <1>12

(* finish_one counts the task: it was open, and is held by nobody now.     *)
LEMMA FinishCountInv ==
  ASSUME IInv, NEW th \in Threads \ {Client}, FinishCount(th)
  PROVE  IInv'
<1> USE DEF IInv
<1>0. "finish_test" \in Phases
  BY DEF Phases
<1>1. /\ pc[th] = "finish" /\ pc'[th] = "finish_test"
      /\ \A u \in Threads \ {th} : pc'[u] = pc[u]
      /\ pc' \in [Threads -> Phases]
  BY <1>0, GotoStep DEF FinishCount
<1>2. PICK x \in Tasks : x = cur[th]
  BY <1>1, TypeParts DEF PhaseInv, Holding, Completing
<1>3. /\ completed' = completed + 1 /\ finished' = finished \cup {x}
      /\ reg' = [reg EXCEPT ![th] = completed + 1]
      /\ UNCHANGED <<submitted, counted, shutdown, queue, rr, cur, arg, scan, waited, remote, executed>>
  BY <1>2 DEF FinishCount
<1>4. TypeOK'
  <2>1. reg' \in [Threads -> Nat] /\ completed' \in Nat /\ finished' \subseteq Tasks
    BY <1>3, TypeParts
  <2> QED
    BY <1>1, <1>3, <2>1, TypeParts, TypeStep
<1>5. /\ "finish" \in Holding /\ "finish_test" \notin Holding /\ "finish" \notin Pushing
      /\ "finish_test" \notin Pushing /\ "finish" \in Completing /\ "finish_test" \notin Completing
  BY DEF Holding, Executing, Completing, Pushing
<1>6. \A u \in Threads : (pc'[u] \in Holding <=> pc[u] \in Holding /\ u # th)
                         /\ (pc'[u] \in Pushing <=> pc[u] \in Pushing)
                         /\ (pc'[u] \in Holding \cup {"finish_test"}
                               <=> pc[u] \in Holding \cup {"finish_test"})
                         /\ (pc'[u] \in Completing <=> pc[u] \in Completing /\ u # th)
  BY <1>1, <1>5
<1>7. PhaseInv' /\ ThreadsInv'
  BY <1>3, <1>6 DEF PhaseInv, ThreadsInv
<1>8. x \in Open /\ x \in counted /\ x \notin finished /\ ~InArg(x) /\ ~InQueue(x) /\ x \notin remote
  BY <1>1, <1>2, <1>5 DEF HoldInv, InCur, Open
<1>9. \A u \in Threads : pc[u] \in Holding /\ cur[u] = x => u = th
  BY <1>1, <1>2, <1>5 DEF ThreadsInv
<1>10. /\ \A y : InArg(y)' <=> InArg(y)
       /\ \A y : InQueue(y)' <=> InQueue(y)
       /\ \A y : InCur(y)' <=> InCur(y) /\ y # x
  <2>1. \A y : (InArg(y)' <=> InArg(y)) /\ (InQueue(y)' <=> InQueue(y))
    BY <1>3 DEF InArg, InQueue
  <2>2. \A y : InCur(y)' <=> InCur(y) /\ y # x
    BY <1>2, <1>3, <1>6, <1>9 DEF InCur
  <2> QED
    BY <2>1, <2>2
<1>11. Open' = Open \ {x}
  BY <1>3 DEF Open
<1>12. HoldInv'
  BY <1>3, <1>8, <1>10, <1>11 DEF HoldInv
<1>13. SlotsInv' /\ PoolInv'
  BY <1>3 DEF SlotsInv, PoolInv
<1>14. LedgerInv'
  BY <1>3, <1>8, LedgerFinite, FS_AddElement DEF LedgerInv
<1>15. \A y : /\ Ran(y)' <=> Ran(y)
              /\ Staged(y)' <=> Staged(y)
  <2>1. \A y : Ran(y)' <=> Ran(y)
    BY <1>1, <1>2, <1>3, <1>5, <1>6 DEF Ran
  <2>2. \A y : Staged(y)' <=> Staged(y)
    BY <1>1, <1>2, <1>3 DEF Staged
  <2> QED
    BY <2>1, <2>2
<1>16. ExecInv' /\ SettleInv'
  BY <1>3, <1>15 DEF ExecInv, SettleInv
<1>17. WaitInv'
  <2>1. pc'[Client] = pc[Client] /\ reg'[Client] = reg[Client] /\ reg[Client] \in Nat
    BY <1>1, <1>3, TypeParts, ThreadFacts
  <2> QED
    BY <1>3, <2>1, TypeParts DEF WaitInv
<1> QED
  BY <1>4, <1>7, <1>12, <1>13, <1>14, <1>16, <1>17

(* finish_one compares the counters, and moves no task.                    *)
LEMMA FinishTestInv ==
  ASSUME IInv, NEW th \in Threads \ {Client}, FinishTest(th)
  PROVE  IInv'
<1> USE DEF IInv
<1> DEFINE Next3 == {"notify", "load_submitted", "idle"}
<1>0. Next3 \subseteq Phases /\ Next3 \cap Loaded = {}
  BY NotLoaded DEF Phases
<1>1. PICK to \in Next3 : Goto(th, "finish_test", to)
  BY DEF FinishTest, AfterTask
<1> HIDE DEF Next3
<1>2. /\ pc[th] = "finish_test" /\ pc'[th] = to /\ to \notin Loaded
      /\ \A u \in Threads \ {th} : pc'[u] = pc[u]
      /\ pc' \in [Threads -> Phases]
  BY <1>0, <1>1, GotoStep
<1>3. /\ cur' = [cur EXCEPT ![th] = NoTask] /\ reg' = [reg EXCEPT ![th] = 0]
      /\ UNCHANGED <<ledger, shutdown, queue, rr, arg, scan, waited, remote, executed>>
  BY DEF FinishTest
<1>4. cur'[th] = NoTask /\ \A u \in Threads \ {th} : cur'[u] = cur[u] /\ reg'[u] = reg[u]
  BY <1>3, TypeParts
<1>5. TypeOK'
  <2>1. reg' \in [Threads -> Nat] /\ cur' \in [Threads -> Tasks \cup {NoTask}]
    BY <1>3, TypeParts
  <2> QED
    BY <1>2, <1>3, <2>1, TypeParts, TypeStep DEF ledger
<1>6. /\ to \notin Holding /\ to \notin Pushing /\ to # "finish_test"
      /\ to \notin Completing /\ to \notin {"push_stage", "finish"}
      /\ "finish_test" \notin Holding /\ "finish_test" \notin Pushing
      /\ "finish_test" \notin Completing
  BY <1>2 DEF Loaded, Holding, Executing, Completing, Pushing
<1>7. PhaseInv'
  BY <1>2, <1>3, <1>4, <1>6 DEF PhaseInv
<1>8. ThreadsInv'
  BY <1>2, <1>3, <1>4, <1>6 DEF ThreadsInv
<1>9. \A y : /\ InArg(y)' <=> InArg(y)
             /\ InQueue(y)' <=> InQueue(y)
  BY <1>3 DEF InArg, InQueue
<1>10. \A y : /\ InCur(y)' <=> InCur(y)
              /\ Ran(y)' <=> Ran(y)
              /\ Staged(y)' <=> Staged(y)
  BY <1>2, <1>3, <1>4, <1>6 DEF InCur, Ran, Staged, ledger
<1>11. Open' = Open
  BY <1>3 DEF Open, ledger
<1>12. HoldInv' /\ ExecInv'
  BY <1>3, <1>9, <1>10, <1>11 DEF HoldInv, ExecInv
<1>13. SlotsInv' /\ LedgerInv' /\ PoolInv'
  BY <1>3 DEF SlotsInv, LedgerInv, PoolInv, ledger
<1>14. SettleInv'
  BY <1>3, <1>10 DEF SettleInv, ledger
<1>15. WaitInv'
  BY <1>2, <1>3, <1>4, WaitSame DEF ledger
<1> QED
  BY <1>5, <1>7, <1>8, <1>12, <1>13, <1>14, <1>15

----------------------------------------------------------------------------
(* The invariant.                                                          *)

(* Nothing is counted, held or done at first.                              *)
LEMMA InitInv == Init => IInv
<1> SUFFICES ASSUME Init PROVE IInv
  OBVIOUS
<1>1. /\ \A th \in Threads : cur[th] = NoTask /\ arg[th] = NoTask /\ pc[th] \in {"load_submitted", "idle"}
      /\ \A q \in Queues : queue[q] = <<>>
      /\ counted = {} /\ finished = {} /\ remote = {} /\ submitted = 0 /\ completed = 0
  BY DEF Init
<1>2. \A th \in Threads : /\ pc[th] \notin Holding \cup {"finish_test"}
                          /\ pc[th] \notin Holding /\ pc[th] \notin Pushing
                          /\ pc[th] \notin Completing /\ pc[th] \notin {"push_stage", "finish"}
  BY <1>1, NotLoaded DEF Loaded, Holding
<1>3. TypeOK
  <2>1. 1 \in 1 .. 2 * NumWorkers + NumTypes /\ 0 \in 0 .. NumWorkers - 1
    BY RuntimeAssumption
  <2>2. queue \in [Queues -> Seq(Tasks)]
    BY DEF Init
  <2>3. scan \in [Workers -> 1 .. 2 * NumWorkers + NumTypes]
    BY <2>1 DEF Init
  <2> QED
    BY <2>1, <2>2, <2>3 DEF Init, TypeOK
<1>4. PhaseInv
  BY <1>1, <1>2 DEF PhaseInv
<1>5. \A x \in Tasks : ~InArg(x) /\ ~InCur(x) /\ ~InQueue(x) /\ ~Ran(x) /\ ~Staged(x)
  <2>1. \A q \in Queues : 1 .. Len(queue[q]) = {}
    BY <1>1
  <2> QED
    BY <1>1, <1>2, <2>1, ThreadFacts DEF InArg, InCur, InQueue, Ran, Staged
<1>6. HoldInv
  BY <1>1, <1>5 DEF HoldInv, Open
<1>7. ThreadsInv
  BY <1>1, <1>2 DEF ThreadsInv
<1>8. SlotsInv
  BY <1>1 DEF SlotsInv
<1>9. LedgerInv
  BY <1>1, FS_EmptySet DEF LedgerInv
<1>10. ExecInv /\ SettleInv
  BY <1>5 DEF ExecInv, SettleInv, Init
<1>11. PoolInv
  <2>1. \A i \in Types : queue[<<"pool", i>>] = <<>>
    BY <1>1, ThreadFacts
  <2>2. 1 .. Len(<<>>) = {}
    OBVIOUS
  <2> QED
    BY <1>1, <2>1, <2>2 DEF PoolInv
<1>12. WaitInv
  BY <1>1, ThreadFacts DEF WaitInv
<1> QED
  BY <1>3, <1>4, <1>6, <1>7, <1>8, <1>9, <1>10, <1>11, <1>12 DEF IInv

(* on_task_complete and on_remote_task_complete.                           *)
LEMMA CompletionInv ==
  ASSUME IInv, NEW th \in Threads \ {Client}, CompletionStep(th)
  PROVE  IInv'
<1>1. CASE ObserveLast(th)
  BY <1>1, ObserveLastInv
<1>2. CASE ObserveStage(th)
  <2>1. cur[th] \in Tasks
    BY <1>2, TypeParts DEF ObserveStage, IInv, PhaseInv, Holding, Completing
  <2>2. Stage[cur[th]] \in Tasks
    BY <1>2, <2>1, RuntimeAssumption DEF ObserveStage
  <2>3. Count(th, Stage[cur[th]], "observe", "push_stage")
    BY <1>2 DEF ObserveStage
  <2> QED
    BY <2>2, <2>3, CountInv
<1>3. CASE PushStage(th)
  BY <1>3, PushInv DEF PushStage
<1>4. CASE FinishCount(th)
  BY <1>4, FinishCountInv
<1>5. CASE FinishTest(th)
  BY <1>5, FinishTestInv
<1>6. CASE FinishNotify(th)
  BY <1>6, FinishNotifyInv
<1> QED
  BY <1>1, <1>2, <1>3, <1>4, <1>5, <1>6 DEF CompletionStep

(* Worker::run and run_task.                                               *)
LEMMA WorkerStepInv ==
  ASSUME IInv, NEW w \in Workers, WorkerStep(w)
  PROVE  IInv'
<1>0. w \in Threads \ {Client}
  BY ThreadFacts
<1>1. CASE LoadSubmitted(w) \/ LoadCompleted(w) \/ LoadShutdown(w) \/ ScanMiss(w)
  BY <1>1, WorkerQuietInv
<1>2. CASE ScanHit(w)
  BY <1>2, ScanHitInv
<1>3. CASE RunSpawn(w)
  <2>1. cur[w] \in Tasks
    BY <1>0, <1>3, TypeParts DEF RunSpawn, IInv, PhaseInv, Holding, Executing
  <2>2. PICK x \in Spawns[cur[w]] : Count(w, x, "run", "push_spawned")
    BY <1>3 DEF RunSpawn
  <2>3. x \in Tasks
    BY <2>1, <2>2, RuntimeAssumption
  <2> QED
    BY <1>0, <2>2, <2>3, CountInv
<1>4. CASE PushSpawned(w)
  BY <1>0, <1>4, PushInv DEF PushSpawned
<1>5. CASE RunReturn(w)
  BY <1>5, RunReturnInv
<1>6. CASE CompletionStep(w)
  BY <1>0, <1>6, CompletionInv
<1> QED
  BY <1>1, <1>2, <1>3, <1>4, <1>5, <1>6 DEF WorkerStep

(* Steps that change nothing.                                              *)
LEMMA StutterInv ==
  ASSUME IInv, UNCHANGED vars
  PROVE  IInv'
<1>1. UNCHANGED <<submitted, completed, counted, finished, shutdown, queue, rr, pc, cur, arg,
                  reg, scan, waited, remote, executed>>
  BY DEF vars, ledger
<1>2. TypeOK' /\ WaitInv'
  BY <1>1 DEF IInv, TypeOK, WaitInv
<1> QED
  BY <1>1, <1>2, QuietInv DEF ledger

(***************************************************************************)
(* The inductive invariant holds for every number of workers and pools and *)
(* every workload.                                                         *)
(***************************************************************************)
THEOREM Invariant == Spec => []IInv
<1>1. ASSUME IInv, [Next]_vars PROVE IInv'
  <2>1. ASSUME NEW w \in Workers, WorkerStep(w) PROVE IInv'
    BY <1>1, <2>1, WorkerStepInv
  <2>2. CASE ServerStep
    BY <1>1, <2>2, RemoteCompleteInv, CompletionInv, ThreadFacts DEF ServerStep
  <2>3. CASE TakePortable
    BY <1>1, <2>3, TakePortableInv
  <2>4. CASE ClientSubmit
    <3>1. PICK x \in Roots : Count(Client, x, "idle", "push_root")
      BY <2>4 DEF ClientSubmit
    <3>2. x \in Tasks /\ Client \in Threads
      BY <3>1, RuntimeAssumption, ThreadFacts
    <3> QED
      BY <1>1, <3>1, <3>2, CountInv
  <2>5. CASE ClientPush
    BY <1>1, <2>5, PushInv, ThreadFacts DEF ClientPush
  <2>6. CASE ClientWait \/ WaitStep \/ SpuriousWakeup \/ ClientShutdown \/ ClientJoin
    BY <1>1, <2>6, ClientQuietInv
  <2>7. CASE Terminated \/ UNCHANGED vars
    BY <1>1, <2>7, StutterInv DEF Terminated
  <2> QED
    BY <1>1, <2>1, <2>2, <2>3, <2>4, <2>5, <2>6, <2>7 DEF Next
<1> QED
  BY <1>1, InitInv, PTL DEF Spec

(* Every variable keeps its type.                                          *)
THEOREM TypeCorrect == Spec => []TypeOK
<1>1. IInv => TypeOK
  BY DEF IInv
<1> QED
  BY <1>1, Invariant, PTL

----------------------------------------------------------------------------
(* What the invariant says of the runtime.                                 *)

(* A set of places is empty or a singleton, as its members are.            *)
LEMMA PlacesOf ==
  ASSUME IInv, NEW x \in Tasks
  PROVE  IF x \in Open THEN \E e : Places(x) = {e} ELSE Places(x) = {}
<1> USE DEF IInv
<1> DEFINE A == {<<"submitting", th>> : th \in {u \in Threads : arg[u] = x}}
           B == {<<"running", th>> : th \in {u \in Threads : cur[u] = x /\ pc[u] # "finish_test"}}
           C == UNION {{<<"queued", q, i>> : i \in {j \in 1 .. Len(queue[q]) : queue[q][j] = x}}
                         : q \in Queues}
           D == {<<"remote">> : y \in remote \cap {x}}
<1>0. x # NoTask
  BY ThreadFacts
<1>1. IF InArg(x) THEN \E e : A = {e} ELSE A = {}
  <2>1. CASE InArg(x)
    <3>1. PICK th \in Threads : arg[th] = x
      BY <2>1 DEF InArg
    <3>2. {u \in Threads : arg[u] = x} = {th}
      BY <1>0, <3>1 DEF ThreadsInv
    <3>3. A = {<<"submitting", th>>}
      BY <3>2
    <3> QED
      BY <2>1, <3>3
  <2>2. CASE ~InArg(x)
    BY <2>2 DEF InArg
  <2> QED
    BY <2>1, <2>2
<1>2. IF InCur(x) THEN \E e : B = {e} ELSE B = {}
  <2>0. {u \in Threads : cur[u] = x /\ pc[u] # "finish_test"} = {u \in Threads : cur[u] = x /\ pc[u] \in Holding}
    <3>1. "finish_test" \notin Holding
      BY DEF Holding, Executing, Completing
    <3> QED
      BY <1>0, <3>1 DEF PhaseInv
  <2>1. CASE InCur(x)
    <3>1. PICK th \in Threads : cur[th] = x /\ pc[th] \in Holding
      BY <2>1 DEF InCur
    <3>2. {u \in Threads : cur[u] = x /\ pc[u] \in Holding} = {th}
      BY <3>1 DEF ThreadsInv
    <3>3. B = {<<"running", th>>}
      BY <2>0, <3>2
    <3> QED
      BY <2>1, <3>3
  <2>2. CASE ~InCur(x)
    BY <2>0, <2>2 DEF InCur
  <2> QED
    BY <2>1, <2>2
<1>3. IF InQueue(x) THEN \E e : C = {e} ELSE C = {}
  <2>1. CASE InQueue(x)
    <3>1. PICK q \in Queues : \E i \in 1 .. Len(queue[q]) : queue[q][i] = x
      BY <2>1 DEF InQueue
    <3>2. PICK i \in 1 .. Len(queue[q]) : queue[q][i] = x
      BY <3>1
    <3>3. \A r \in Queues : \A j \in 1 .. Len(queue[r]) : queue[r][j] = x <=> r = q /\ j = i
      BY <3>2 DEF SlotsInv
    <3>4. C = {<<"queued", q, i>>}
      <4>1. ASSUME NEW e \in C PROVE e = <<"queued", q, i>>
        <5>1. PICK r \in Queues : e \in {<<"queued", r, k>> : k \in {j \in 1 .. Len(queue[r]) : queue[r][j] = x}}
          BY <4>1
        <5>2. PICK k \in 1 .. Len(queue[r]) : queue[r][k] = x /\ e = <<"queued", r, k>>
          BY <5>1
        <5> QED
          BY <3>3, <5>2
      <4>2. <<"queued", q, i>> \in C
        BY <3>2
      <4> QED
        BY <4>1, <4>2
    <3> QED
      BY <2>1, <3>4
  <2>2. CASE ~InQueue(x)
    BY <2>2 DEF InQueue
  <2> QED
    BY <2>1, <2>2
<1>4. IF x \in remote THEN \E e : D = {e} ELSE D = {}
  <2>1. CASE x \in remote
    <3>1. remote \cap {x} = {x}
      BY <2>1
    <3>2. D = {<<"remote">>}
      BY <3>1
    <3> QED
      BY <2>1, <3>2
  <2>2. CASE x \notin remote
    BY <2>2
  <2> QED
    BY <2>1, <2>2
<1>5. Places(x) = A \cup B \cup C \cup D
  BY DEF Places
<1> HIDE DEF A, B, C, D
<1>6. /\ x \in Open <=> InArg(x) \/ InCur(x) \/ InQueue(x) \/ x \in remote
      /\ ~(InArg(x) /\ (InCur(x) \/ InQueue(x) \/ x \in remote))
      /\ ~(InCur(x) /\ (InQueue(x) \/ x \in remote))
      /\ ~(InQueue(x) /\ x \in remote)
  BY DEF HoldInv
<1>7. CASE InArg(x)
  BY <1>1, <1>2, <1>3, <1>4, <1>5, <1>6, <1>7
<1>8. CASE InCur(x)
  BY <1>1, <1>2, <1>3, <1>4, <1>5, <1>6, <1>8
<1>9. CASE InQueue(x)
  BY <1>1, <1>2, <1>3, <1>4, <1>5, <1>6, <1>9
<1>10. CASE x \in remote
  BY <1>1, <1>2, <1>3, <1>4, <1>5, <1>6, <1>10
<1>11. CASE x \notin Open
  BY <1>1, <1>2, <1>3, <1>4, <1>5, <1>6, <1>11
<1> QED
  BY <1>6, <1>7, <1>8, <1>9, <1>10, <1>11

(***************************************************************************)
(* The ledger and the queues agree: a task that is counted in submitted_   *)
(* and not in completed_ is in exactly one place, any other in none.       *)
(***************************************************************************)
THEOREM HeldOnce == Spec => []OpenTasksHeldOnce
<1>1. IInv => OpenTasksHeldOnce
  <2> SUFFICES ASSUME IInv PROVE OpenTasksHeldOnce
    OBVIOUS
  <2>1. ASSUME NEW x \in Tasks
        PROVE  Cardinality(Places(x)) = IF x \in Open THEN 1 ELSE 0
    <3>1. CASE x \in Open
      BY <3>1, PlacesOf, FS_Singleton
    <3>2. CASE x \notin Open
      BY <3>2, PlacesOf, FS_EmptySet
    <3> QED
      BY <3>1, <3>2
  <2> QED
    BY <2>1 DEF OpenTasksHeldOnce, IInv, LedgerInv
<1> QED
  BY <1>1, Invariant, PTL

(* A task is executed at most once, and before it counts as completed.     *)
THEOREM NeverTwice == Spec => []ExecutedOnce
<1>1. IInv => ExecutedOnce
  BY DEF IInv, ExecInv, Ran, ExecutedOnce
<1> QED
  BY <1>1, Invariant, PTL

(***************************************************************************)
(* wait_all returns only when all work is done: completed_, loaded before  *)
(* submitted_, is at most its present value, and finished tasks are among  *)
(* the counted ones, so that equal counters mean equal sets.               *)
(***************************************************************************)
THEOREM WaitAllIsSound == Spec => WaitAllSound
<1>1. ASSUME IInv, WaitReturn PROVE Settled
  <2>1. reg[Client] \in Nat /\ submitted \in Nat /\ completed \in Nat
    BY <1>1, TypeParts, ThreadFacts DEF IInv
  <2>2. submitted <= reg[Client] /\ reg[Client] <= completed
    BY <1>1, <2>1 DEF WaitReturn, Goto, IInv, WaitInv
  <2>3. /\ IsFiniteSet(counted) /\ finished \in SUBSET counted
        /\ submitted = Cardinality(counted) /\ completed = Cardinality(finished)
    BY <1>1, LedgerFinite DEF IInv, LedgerInv
  <2>4. Cardinality(finished) <= Cardinality(counted)
    BY <2>3, FS_Subset
  <2>5. Cardinality(finished) = Cardinality(counted)
    BY <2>1, <2>2, <2>3, <2>4
  <2>6. counted = finished
    BY <2>3, <2>5, FS_Subset
  <2>7. \A x \in counted : x \in Tasks /\ Ran(x) /\ Staged(x)
    BY <1>1, <2>6, TypeParts DEF IInv, Ran, Staged
  <2> QED
    BY <1>1, <2>6, <2>7 DEF IInv, Settled, Open, SettleInv
<1>2. IInv /\ [Next]_vars => [WaitReturn => Settled]_vars
  BY <1>1
<1> QED
  BY <1>2, Invariant, PTL DEF Spec, WaitAllSound
=============================================================================
