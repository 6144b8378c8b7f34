------------------------------ MODULE Runtime ------------------------------
(***************************************************************************)
(* One node's task runtime (src/runtime/Runtime.cpp, Worker.cpp): the      *)
(* queues, the workers that drain them, the submitted/completed ledger,    *)
(* the observer that submits the next stage of a pipeline, wait_all with   *)
(* its condition variable, and shutdown.                                   *)
(*                                                                         *)
(* Threads are the workers 1 .. NumWorkers, one serve thread of the node   *)
(* (which hands portable tasks to a peer and reports their completion),    *)
(* and one client thread that submits, waits and shuts down.  Every load   *)
(* and store of the ledger is a step of its own; a queue operation is one  *)
(* step, which its mutex (InjectionQueue) or ChaseLevDeque's refinement of *)
(* WorkStealingDeque (WorkDeque) justifies.  Idle back-off, metrics and    *)
(* tracing have no effect on the state and are left out.                   *)
(***************************************************************************)
EXTENDS Integers, Sequences, FiniteSets

CONSTANTS
  NumWorkers,
  NumTypes,   \* portable task types, one remote pool each
  Tasks,
  NoTask,
  Roots,      \* the tasks the client submits
  Spawns,     \* Spawns[x]: the tasks x submits while it runs
  Stage,      \* Stage[x]: the task the observer submits when x is done
  TypeOf,     \* TypeOf[x]: x's portable type, or 0 for a local closure
  WaitFirst   \* whether the client shuts down only after wait_all, as the
              \* tests do, or at any time, as ~Runtime and Node::stop do

Workers == 1 .. NumWorkers
Types == 1 .. NumTypes
Server == 0
Client == -1
Threads == Workers \cup {Server, Client}

ASSUME RuntimeAssumption ==
  /\ NumWorkers \in Nat \ {0}
  /\ NumTypes \in Nat
  /\ IsFiniteSet(Tasks) /\ NoTask \notin Tasks
  /\ Roots \subseteq Tasks
  /\ Spawns \in [Tasks -> SUBSET Tasks]
  /\ Stage \in [Tasks -> Tasks \cup {NoTask}]
  /\ TypeOf \in [Tasks -> 0 .. NumTypes]
  /\ WaitFirst \in BOOLEAN
  \* what the handler of a portable task submits, it submits where it runs
  /\ \A x \in Tasks : TypeOf[x] # 0 => Spawns[x] = {}

Queues == ({"deque", "injection"} \X Workers) \cup ({"pool"} \X Types)

VARIABLES
  submitted,  \* submitted_
  completed,  \* completed_
  shutdown,   \* shutdown_flag_
  queue,      \* queue[q]: the tasks in q, oldest first
  rr,         \* injection_rr_ modulo the number of workers
  pc,         \* where each thread stands
  cur,        \* the task a worker runs, or the server reports
  arg,        \* the task a thread is submitting
  reg,        \* the ledger value a thread loaded or computed last
  scan,       \* how far a worker's search for work has come
  waited,     \* the client's last call was a wait_all that returned
  remote,     \* tasks handed to a peer that has not answered yet
  counted,    \* history: the tasks counted in submitted
  finished,   \* history: the tasks counted in completed
  executed    \* history: how often each task was executed

ledger == <<submitted, completed, counted, finished>>
vars == <<ledger, shutdown, queue, rr, pc, cur, arg, reg, scan, waited, remote, executed>>

----------------------------------------------------------------------------
Init ==
  /\ submitted = 0 /\ completed = 0 /\ shutdown = FALSE
  /\ queue = [q \in Queues |-> <<>>]
  /\ rr = 0
  /\ pc = [th \in Threads |-> IF th \in Workers THEN "load_submitted" ELSE "idle"]
  /\ cur = [th \in Threads |-> NoTask]
  /\ arg = [th \in Threads |-> NoTask]
  /\ reg = [th \in Threads |-> 0]
  /\ scan = [w \in Workers |-> 1]
  /\ waited = FALSE
  /\ remote = {}
  /\ counted = {} /\ finished = {}
  /\ executed = [x \in Tasks |-> 0]

Goto(th, from, to) == pc[th] = from /\ pc' = [pc EXCEPT ![th] = to]

(* submit, submit_portable: submitted_ is raised before the push.          *)
Count(th, x, from, to) ==
  /\ Goto(th, from, to)
  /\ x \notin counted
  /\ submitted' = submitted + 1
  /\ counted' = counted \cup {x}
  /\ arg' = [arg EXCEPT ![th] = x]
  /\ waited' = IF th = Client THEN FALSE ELSE waited
  /\ UNCHANGED <<completed, finished, shutdown, queue, rr, cur, reg, scan, remote, executed>>

(* A portable task goes to the pool of its type; a closure goes to the     *)
(* submitting worker's own deque, or round-robin to an injection queue.    *)
Destination(th, x) ==
  IF TypeOf[x] # 0 THEN <<"pool", TypeOf[x]>>
  ELSE IF th \in Workers THEN <<"deque", th>>
  ELSE <<"injection", rr + 1>>

Push(th, from, to) ==
  /\ Goto(th, from, to)
  /\ LET q == Destination(th, arg[th]) IN
     /\ queue' = [queue EXCEPT ![q] = Append(@, arg[th])]
     /\ rr' = IF q[1] = "injection" THEN (rr + 1) % NumWorkers ELSE rr
  /\ arg' = [arg EXCEPT ![th] = NoTask]
  /\ UNCHANGED <<ledger, shutdown, cur, reg, scan, waited, remote, executed>>

----------------------------------------------------------------------------
(* Worker::run.  all_done first loads submitted_, then completed_, then    *)
(* the shutdown flag.                                                      *)
LoadSubmitted(w) ==
  /\ Goto(w, "load_submitted", "load_completed")
  /\ reg' = [reg EXCEPT ![w] = submitted]
  /\ UNCHANGED <<ledger, shutdown, queue, rr, cur, arg, scan, waited, remote, executed>>

LoadCompleted(w) ==
  /\ Goto(w, "load_completed", IF reg[w] = completed THEN "load_shutdown" ELSE "scan")
  /\ scan' = [scan EXCEPT ![w] = 1]
  /\ reg' = [reg EXCEPT ![w] = 0]
  /\ UNCHANGED <<ledger, shutdown, queue, rr, cur, arg, waited, remote, executed>>

(* Faulty variant: the flag is never looked at.                            *)
LoadShutdown_Ignored(w) ==
  /\ Goto(w, "load_shutdown", "scan")
  /\ UNCHANGED <<ledger, shutdown, queue, rr, cur, arg, reg, scan, waited, remote, executed>>

LoadShutdown(w) ==
  /\ Goto(w, "load_shutdown", IF shutdown THEN "exited" ELSE "scan")
  /\ UNCHANGED <<ledger, shutdown, queue, rr, cur, arg, reg, scan, waited, remote, executed>>

(* The order in which a worker looks for work: its deque, its injection    *)
(* queue, the pools, the other injection queues, the other deques.         *)
Others(kind, w) ==
  [i \in 1 .. NumWorkers - 1 |-> <<kind, IF i < w THEN i ELSE i + 1>>]

(* Faulty variant: local workers leave the portable pools to the peers.    *)
ScanOrder_NoPools(w) ==
  <<<<"deque", w>>, <<"injection", w>>>> \o Others("injection", w) \o Others("deque", w)

ScanOrder(w) ==
  <<<<"deque", w>>, <<"injection", w>>>>
  \o [i \in Types |-> <<"pool", i>>]
  \o Others("injection", w)
  \o Others("deque", w)

Scanned(w) == ScanOrder(w)[scan[w]]

(* Faulty variant: the task is copied out of the queue but not removed.    *)
ScanHit_NotRemoved(w) ==
  LET q == Scanned(w)
      s == queue[q]
      own == q = <<"deque", w>>
  IN
  /\ Goto(w, "scan", "run")
  /\ s # <<>>
  /\ cur' = [cur EXCEPT ![w] = IF own THEN s[Len(s)] ELSE Head(s)]
  /\ UNCHANGED <<ledger, shutdown, queue, rr, arg, reg, scan, waited, remote, executed>>

(* The owner pops its deque at the new end; everyone else takes the oldest.*)
ScanHit(w) ==
  LET q == Scanned(w)
      s == queue[q]
      own == q = <<"deque", w>>
  IN
  /\ Goto(w, "scan", "run")
  /\ s # <<>>
  /\ cur' = [cur EXCEPT ![w] = IF own THEN s[Len(s)] ELSE Head(s)]
  /\ queue' = [queue EXCEPT ![q] = IF own THEN SubSeq(s, 1, Len(s) - 1) ELSE Tail(s)]
  /\ UNCHANGED <<ledger, shutdown, rr, arg, reg, scan, waited, remote, executed>>

(* steal may also return false because another thread inside pop or steal  *)
(* of the same deque got the task first.                                   *)
Contended(w) ==
  /\ Scanned(w)[1] = "deque"
  /\ Scanned(w)[2] # w
  /\ \E v \in Workers \ {w} : pc[v] = "scan" /\ Scanned(v) = Scanned(w)

(* Faulty variant: the search runs one past the last queue.                *)
ScanMiss_OnePast(w) ==
  LET last == scan[w] = Len(ScanOrder(w)) + 1 IN
  /\ pc[w] = "scan"
  /\ queue[Scanned(w)] = <<>> \/ Contended(w)
  /\ pc' = [pc EXCEPT ![w] = IF last THEN "load_submitted" ELSE "scan"]
  /\ scan' = [scan EXCEPT ![w] = IF last THEN 1 ELSE @ + 1]
  /\ UNCHANGED <<ledger, shutdown, queue, rr, cur, arg, reg, waited, remote, executed>>

ScanMiss(w) ==
  LET last == scan[w] = Len(ScanOrder(w)) IN
  /\ pc[w] = "scan"
  /\ queue[Scanned(w)] = <<>> \/ Contended(w)
  /\ pc' = [pc EXCEPT ![w] = IF last THEN "load_submitted" ELSE "scan"]
  /\ scan' = [scan EXCEPT ![w] = IF last THEN 1 ELSE @ + 1]
  /\ UNCHANGED <<ledger, shutdown, queue, rr, cur, arg, reg, waited, remote, executed>>

(* run_task: the task's closure or handler, which may submit more tasks.   *)
RunSpawn(w) ==
  /\ pc[w] = "run"
  /\ \E x \in Spawns[cur[w]] : Count(w, x, "run", "push_spawned")

PushSpawned(w) == Push(w, "push_spawned", "run")

(* Faulty variant: the task is counted as done without the observer.       *)
RunReturn_NoObserver(w) ==
  /\ Goto(w, "run", "finish")
  /\ Spawns[cur[w]] \subseteq counted
  /\ executed' = [executed EXCEPT ![cur[w]] = @ + 1]
  /\ scan' = [scan EXCEPT ![w] = 1]
  /\ UNCHANGED <<ledger, shutdown, queue, rr, cur, arg, reg, waited, remote>>

RunReturn(w) ==
  /\ Goto(w, "run", "observe")
  /\ Spawns[cur[w]] \subseteq counted
  /\ executed' = [executed EXCEPT ![cur[w]] = @ + 1]
  /\ scan' = [scan EXCEPT ![w] = 1]
  /\ UNCHANGED <<ledger, shutdown, queue, rr, cur, arg, reg, waited, remote>>

----------------------------------------------------------------------------
(* on_task_complete by a worker and on_remote_task_complete by the server: *)
(* the observer first, which submits the next stage if there is one.       *)
ObserveLast(th) ==
  /\ Goto(th, "observe", "finish")
  /\ Stage[cur[th]] = NoTask
  /\ UNCHANGED <<ledger, shutdown, queue, rr, cur, arg, reg, scan, waited, remote, executed>>

ObserveStage(th) ==
  /\ pc[th] = "observe"
  /\ Stage[cur[th]] # NoTask
  /\ Count(th, Stage[cur[th]], "observe", "push_stage")

PushStage(th) == Push(th, "push_stage", "finish")

(* finish_one: raise completed_, compare with submitted_, notify; the      *)
(* mutex of the condition variable is not taken.                           *)
FinishCount(th) ==
  /\ Goto(th, "finish", "finish_test")
  /\ completed' = completed + 1
  /\ finished' = finished \cup {cur[th]}
  /\ reg' = [reg EXCEPT ![th] = completed + 1]
  /\ UNCHANGED <<submitted, counted, shutdown, queue, rr, cur, arg, scan, waited, remote, executed>>

AfterTask(th) == IF th \in Workers THEN "load_submitted" ELSE "idle"

FinishTest(th) ==
  /\ Goto(th, "finish_test", IF reg[th] >= submitted THEN "notify" ELSE AfterTask(th))
  /\ cur' = [cur EXCEPT ![th] = NoTask]
  /\ reg' = [reg EXCEPT ![th] = 0]
  /\ UNCHANGED <<ledger, shutdown, queue, rr, arg, scan, waited, remote, executed>>

FinishNotify(th) ==
  /\ pc[th] = "notify"
  /\ pc' = [u \in Threads |->
              IF u = th THEN AfterTask(th)
              ELSE IF u = Client /\ pc[u] = "blocked" THEN "wait_nonzero"
              ELSE pc[u]]
  /\ UNCHANGED <<ledger, shutdown, queue, rr, cur, arg, reg, scan, waited, remote, executed>>

----------------------------------------------------------------------------
(* Faulty variant: take_portable leaves the task in its pool.              *)
TakePortable_NotRemoved ==
  /\ pc[Server] = "idle" /\ ~shutdown
  /\ \E i \in Types :
       /\ queue[<<"pool", i>>] # <<>>
       /\ remote' = remote \cup {Head(queue[<<"pool", i>>])}
  /\ UNCHANGED <<ledger, shutdown, queue, rr, pc, cur, arg, reg, scan, waited, executed>>

(* The serve thread: take_portable for a peer, and the peer's answer.      *)
(* Node::stop ends these threads before it destroys the runtime.           *)
TakePortable ==
  /\ pc[Server] = "idle" /\ ~shutdown
  /\ \E i \in Types :
       /\ queue[<<"pool", i>>] # <<>>
       /\ remote' = remote \cup {Head(queue[<<"pool", i>>])}
       /\ queue' = [queue EXCEPT ![<<"pool", i>>] = Tail(@)]
  /\ UNCHANGED <<ledger, shutdown, rr, pc, cur, arg, reg, scan, waited, executed>>

RemoteComplete ==
  /\ ~shutdown
  /\ Goto(Server, "idle", "observe")
  /\ \E x \in remote :
       /\ cur' = [cur EXCEPT ![Server] = x]
       /\ remote' = remote \ {x}
       /\ executed' = [executed EXCEPT ![x] = @ + 1]
  /\ UNCHANGED <<ledger, shutdown, queue, rr, arg, reg, scan, waited>>

----------------------------------------------------------------------------
(* The client thread.                                                      *)
ClientSubmit == \E x \in Roots : Count(Client, x, "idle", "push_root")

ClientPush == Push(Client, "push_root", "idle")

(* wait_all: the predicate, evaluated left to right under cv_mutex_, then  *)
(* the atomic release-and-block.                                           *)
ClientWait ==
  /\ Goto(Client, "idle", "wait_nonzero")
  /\ UNCHANGED <<ledger, shutdown, queue, rr, cur, arg, reg, scan, waited, remote, executed>>

WaitNonzero ==
  /\ Goto(Client, "wait_nonzero", IF submitted > 0 THEN "wait_completed" ELSE "wait_block")
  /\ UNCHANGED <<ledger, shutdown, queue, rr, cur, arg, reg, scan, waited, remote, executed>>

WaitCompleted ==
  /\ Goto(Client, "wait_completed", "wait_submitted")
  /\ reg' = [reg EXCEPT ![Client] = completed]
  /\ UNCHANGED <<ledger, shutdown, queue, rr, cur, arg, scan, waited, remote, executed>>

WaitReturn ==
  /\ Goto(Client, "wait_submitted", "idle")
  /\ reg[Client] >= submitted
  /\ reg' = [reg EXCEPT ![Client] = 0]
  /\ waited' = TRUE
  /\ UNCHANGED <<ledger, shutdown, queue, rr, cur, arg, scan, remote, executed>>

WaitFalse ==
  /\ Goto(Client, "wait_submitted", "wait_block")
  /\ reg[Client] < submitted
  /\ reg' = [reg EXCEPT ![Client] = 0]
  /\ UNCHANGED <<ledger, shutdown, queue, rr, cur, arg, scan, waited, remote, executed>>

WaitBlock ==
  /\ Goto(Client, "wait_block", "blocked")
  /\ UNCHANGED <<ledger, shutdown, queue, rr, cur, arg, reg, scan, waited, remote, executed>>

SpuriousWakeup ==
  /\ Goto(Client, "blocked", "wait_nonzero")
  /\ UNCHANGED <<ledger, shutdown, queue, rr, cur, arg, reg, scan, waited, remote, executed>>

(* shutdown, by a client whose serve thread is gone and owed nothing.      *)
ClientShutdown ==
  /\ Goto(Client, "idle", "joining")
  /\ remote = {} /\ pc[Server] = "idle"
  /\ WaitFirst => waited
  /\ shutdown' = TRUE
  /\ UNCHANGED <<ledger, queue, rr, cur, arg, reg, scan, waited, remote, executed>>

ClientJoin ==
  /\ Goto(Client, "joining", "done")
  /\ \A w \in Workers : pc[w] = "exited"
  /\ UNCHANGED <<ledger, shutdown, queue, rr, cur, arg, reg, scan, waited, remote, executed>>

Terminated == pc[Client] = "done" /\ UNCHANGED vars

----------------------------------------------------------------------------
CompletionStep(th) ==
  \/ ObserveLast(th) \/ ObserveStage(th) \/ PushStage(th)
  \/ FinishCount(th) \/ FinishTest(th) \/ FinishNotify(th)

WorkerStep(w) ==
  \/ LoadSubmitted(w) \/ LoadCompleted(w) \/ LoadShutdown(w)
  \/ ScanHit(w) \/ ScanMiss(w)
  \/ RunSpawn(w) \/ PushSpawned(w) \/ RunReturn(w)
  \/ CompletionStep(w)

ServerStep == RemoteComplete \/ CompletionStep(Server)

WaitStep == WaitNonzero \/ WaitCompleted \/ WaitReturn \/ WaitFalse \/ WaitBlock

Next ==
  \/ \E w \in Workers : WorkerStep(w)
  \/ ServerStep \/ TakePortable
  \/ ClientSubmit \/ ClientPush
  \/ ClientWait \/ WaitStep \/ SpuriousWakeup
  \/ ClientShutdown \/ ClientJoin
  \/ Terminated

Spec == Init /\ [][Next]_vars

(***************************************************************************)
(* The operating system schedules every thread, and every task handed to a *)
(* peer is answered for in the end (by the peer or by the node's reaper).  *)
(* The client may stop calling at any time, and spurious wake-ups need not *)
(* happen.                                                                 *)
(***************************************************************************)
FairSpec ==
  /\ Spec
  /\ \A w \in Workers : WF_vars(WorkerStep(w))
  /\ WF_vars(ServerStep)
  /\ WF_vars(ClientPush) /\ WF_vars(WaitStep) /\ WF_vars(ClientJoin)

----------------------------------------------------------------------------
TypeOK ==
  /\ submitted \in Nat /\ completed \in Nat /\ shutdown \in BOOLEAN
  /\ queue \in [Queues -> Seq(Tasks)]
  /\ rr \in 0 .. NumWorkers - 1
  /\ pc \in [Threads ->
       {"load_submitted", "load_completed", "load_shutdown", "scan", "run", "push_spawned",
        "exited", "observe", "push_stage", "finish", "finish_test", "notify", "idle",
        "push_root", "wait_nonzero", "wait_completed", "wait_submitted", "wait_block",
        "blocked", "joining", "done"}]
  /\ cur \in [Threads -> Tasks \cup {NoTask}]
  /\ arg \in [Threads -> Tasks \cup {NoTask}]
  /\ reg \in [Threads -> Nat]
  /\ scan \in [Workers -> 1 .. 2 * NumWorkers + NumTypes]
  /\ waited \in BOOLEAN
  /\ remote \subseteq Tasks /\ counted \subseteq Tasks /\ finished \subseteq Tasks
  /\ executed \in [Tasks -> Nat]

Open == counted \ finished

(* Where a task can be: being pushed, queued, running, or at a peer.       *)
Places(x) ==
  {<<"submitting", th>> : th \in {u \in Threads : arg[u] = x}}
  \cup {<<"running", th>> : th \in {u \in Threads : cur[u] = x /\ pc[u] # "finish_test"}}
  \cup (UNION {{<<"queued", q, i>> : i \in {j \in 1 .. Len(queue[q]) : queue[q][j] = x}}
                 : q \in Queues})
  \cup {<<"remote">> : y \in remote \cap {x}}

(***************************************************************************)
(* The ledger and the queues agree: a task counted as submitted but not as *)
(* completed is in exactly one place, any other task in none.  Nothing is  *)
(* dropped or duplicated between a count and the push, the pop or the      *)
(* completion it belongs to.                                               *)
(***************************************************************************)
OpenTasksHeldOnce ==
  /\ submitted = Cardinality(counted) /\ completed = Cardinality(finished)
  /\ finished \subseteq counted
  /\ \A x \in Tasks : Cardinality(Places(x)) = IF x \in Open THEN 1 ELSE 0

(* A task is executed once, and before it is counted as completed.         *)
ExecutedOnce ==
  \A x \in Tasks : /\ executed[x] <= 1
                   /\ x \in finished => executed[x] = 1

(* Everything the finished and submitted tasks give rise to is submitted.  *)
Settled ==
  /\ Open = {}
  /\ \A x \in counted : Spawns[x] \subseteq counted /\ Stage[x] \in counted \cup {NoTask}

(***************************************************************************)
(* wait_all returns only when all work is done, the tasks spawned by tasks *)
(* and the later stages of pipelines included, although it reads the two   *)
(* counters at different times.                                            *)
(***************************************************************************)
WaitAllSound == [][WaitReturn => Settled]_vars

(***************************************************************************)
(* When every worker has left its loop no work is left behind: "submitted  *)
(* == completed means nothing is queued or running anywhere in the system" *)
(* (Worker.cpp).                                                           *)
(***************************************************************************)
NoOrphans == (\A w \in Workers : pc[w] = "exited") => Settled

(***************************************************************************)
(* Every submitted task is completed in the end, unless the client shuts   *)
(* down without having waited for it.                                      *)
(***************************************************************************)
EveryTaskFinishes ==
  \A x \in Tasks : x \in counted ~> (x \in finished \/ (shutdown /\ ~waited))

(* shutdown returns: every worker notices that the work is done and exits. *)
ShutdownReturns == shutdown ~> pc[Client] = "done"

(***************************************************************************)
(* wait_all returns once the work is done (Runtime.hpp: "block until every *)
(* submitted task has completed").                                         *)
(***************************************************************************)
WaitAllReturns == (pc[Client] = "blocked" /\ submitted > 0) ~> pc[Client] = "idle"
=============================================================================
