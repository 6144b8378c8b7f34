-------------------------------- MODULE Node --------------------------------
(***************************************************************************)
(* A cluster of nodes that steal portable tasks from one another over TCP  *)
(* (src/cluster/Node.cpp): the steal thread, the serve thread of each      *)
(* inbound connection, the thread that reports completions home, the       *)
(* reaper that re-runs tasks whose thief went silent, and stop().          *)
(*                                                                         *)
(* Each node's Runtime appears by its ledger, its portable pool and the    *)
(* tasks its workers hold; module Runtime has the detail.  A submission,   *)
(* and on_task_complete or on_remote_task_complete with the observer they  *)
(* call, are therefore one step here.  Task types are abstracted to the    *)
(* choice of any pooled task, clocks to timeouts that may strike at any    *)
(* moment.  Counters that only metrics read are left out.                  *)
(***************************************************************************)
EXTENDS Integers, Sequences, FiniteSets

CONSTANTS
  Nodes,
  Tasks,
  NoTask,
  NoNode,
  Origin,      \* Origin[x]: the node that submits x, origin_node
  Roots,       \* the tasks submitted by clients
  Stage,       \* Stage[x]: the task the observer submits once x is done
  NumWorkers,  \* NumWorkers[n]: num_workers of n's configuration
  Stealing,    \* the nodes whose policy is not None
  Handled,     \* Handled[n]: the tasks n's TaskRegistry has a handler for
  Droppers,    \* the nodes configured with drop_completions
  Mortal,      \* the nodes that may crash
  Stoppable,   \* the nodes whose stop() may be called
  MaxConns     \* bound: connections a node opens to one peer

Kinds == {"own", "stolen", "rerun"}

ASSUME NodeAssumption ==
  /\ IsFiniteSet(Nodes) /\ IsFiniteSet(Tasks)
  /\ NoTask \notin Tasks /\ NoNode \notin Nodes
  /\ Origin \in [Tasks -> Nodes] /\ Roots \subseteq Tasks
  /\ Stage \in [Tasks -> Tasks \cup {NoTask}]
  \* the stages of a request form chains, each with one root
  /\ \A x \in Tasks : Stage[x] # NoTask =>
        /\ Origin[Stage[x]] = Origin[x] /\ Stage[x] \notin Roots
        /\ \A y \in Tasks : Stage[y] = Stage[x] => y = x
  /\ NumWorkers \in [Nodes -> Nat \ {0}]
  /\ Handled \in [Nodes -> SUBSET Tasks]
  /\ Stealing \subseteq Nodes /\ Droppers \subseteq Nodes
  /\ Mortal \subseteq Nodes /\ Stoppable \subseteq Nodes
  /\ MaxConns \in Nat

(* The connections <<thief, victim, number>> of every PeerLink.            *)
Conns == {c \in Nodes \X Nodes \X (1 .. MaxConns) : c[1] # c[2]}

VARIABLES
  state,        \* a node is up, stopping, in ~Runtime, stopped or crashed
  submitted, completed,           \* the ledger of each node's Runtime
  local_executed,                 \* local_executed_
  pool,         \* the portable tasks queued at a node
  jobs,         \* the tasks queued for, or held by, a node's workers
  opened,       \* connections each PeerLink opened so far
  connected,    \* PeerLink::connected
  chan,         \* messages from thief to victim, per connection
  resp,         \* steal responses from victim to thief, per connection
  serve,        \* what the serve thread of each connection is doing
  steal,        \* what the steal thread of each node is doing
  completions,  \* completions_
  batch,        \* the batch completion_loop is sending
  outstanding,  \* outstanding_: tasks given away and not answered for
  lost,         \* tasks the reaper took out of outstanding_
  debt,         \* the task the reaper resubmitted and has yet to settle
  started,      \* history: the tasks submitted
  executed,     \* history: how often each task's handler ran
  observed,     \* history: how often the observer saw each task
  reaped        \* history: the tasks the reaper gave up on

runtime == <<submitted, completed, local_executed, pool, jobs, started, observed>>
net == <<opened, connected, chan, resp>>
sender == <<completions, batch>>
reaper == <<lost, debt, reaped>>
vars == <<state, runtime, net, serve, steal, sender, outstanding, reaper, executed>>

Up(n) == state[n] = "up"                      \* running_
Threads(n) == state[n] \in {"up", "stopping"} \* its threads still exist
Working(n) == state[n] \in {"up", "stopping", "shutdown"}

Job(x, kind, at) == [task |-> x, kind |-> kind, at |-> at]
IdleServe == [at |-> "recv", give |-> 0, hand |-> {}]
IdleSteal == [at |-> "idle", victim |-> NoNode, tasks |-> {}]
Request == [type |-> "StealRequest", task |-> NoTask]
Result(x) == [type |-> "TaskResult", task |-> x]

Init ==
  /\ state = [n \in Nodes |-> "up"]
  /\ submitted = [n \in Nodes |-> 0] /\ completed = [n \in Nodes |-> 0]
  /\ local_executed = [n \in Nodes |-> 0]
  /\ pool = [n \in Nodes |-> {}] /\ jobs = [n \in Nodes |-> {}]
  /\ opened = [l \in Nodes \X Nodes |-> 0]
  /\ connected = [l \in Nodes \X Nodes |-> FALSE]
  /\ chan = [c \in Conns |-> <<>>] /\ resp = [c \in Conns |-> <<>>]
  /\ serve = [c \in Conns |-> IdleServe]
  /\ steal = [n \in Nodes |-> IdleSteal]
  /\ completions = [n \in Nodes |-> <<>>] /\ batch = [n \in Nodes |-> <<>>]
  /\ outstanding = [n \in Nodes |-> {}]
  /\ lost = [n \in Nodes |-> {}] /\ debt = [n \in Nodes |-> NoTask]
  /\ started = {} /\ reaped = {}
  /\ executed = [x \in Tasks |-> 0] /\ observed = [x \in Tasks |-> 0]

----------------------------------------------------------------------------
(* The Runtime's operations, as the node's threads use them.               *)

(* submit_portable on behalf of a client.                                  *)
SubmitPortable(n, x) ==
  /\ Up(n) /\ Origin[x] = n /\ x \in Roots \ started
  /\ submitted' = [submitted EXCEPT ![n] = @ + 1]
  /\ pool' = [pool EXCEPT ![n] = @ \cup {x}]
  /\ started' = started \cup {x}
  /\ UNCHANGED <<state, completed, local_executed, jobs, observed, net, serve, steal,
                 sender, outstanding, reaper, executed>>

(* The observer submits the stage after x, then finish_one counts x.  A    *)
(* task without payload, NoTask here, is not the observer's business.      *)
ObserveAndFinish(n, x) ==
  LET next == IF x = NoTask \/ Stage[x] = NoTask THEN {} ELSE {Stage[x]} IN
  /\ observed' = [y \in Tasks |-> observed[y] + IF y = x THEN 1 ELSE 0]
  /\ submitted' = [submitted EXCEPT ![n] = @ + Cardinality(next)]
  /\ pool' = [pool EXCEPT ![n] = @ \cup next]
  /\ started' = started \cup next
  /\ completed' = [completed EXCEPT ![n] = @ + 1]

RunHandler(n, x) ==
  executed' = [executed EXCEPT ![x] = @ + IF x \in Handled[n] THEN 1 ELSE 0]

IdleWorker(n) ==
  Cardinality({j \in jobs[n] : j.at # "queued"}) < NumWorkers[n]

(* A worker pops a portable task of the node's own pool and runs it.       *)
RunPortable(n, x) ==
  /\ Working(n) /\ IdleWorker(n) /\ x \in pool[n]
  /\ pool' = [pool EXCEPT ![n] = @ \ {x}]
  /\ jobs' = [jobs EXCEPT ![n] = @ \cup {Job(x, "own", "ran")}]
  /\ RunHandler(n, x)
  /\ UNCHANGED <<state, submitted, completed, local_executed, started, observed, net,
                 serve, steal, sender, outstanding, reaper>>

(* A worker runs a stolen or a re-run task's closure, up to its report.    *)
RunClosure(n, x, kind) ==
  /\ Working(n) /\ IdleWorker(n) /\ Job(x, kind, "queued") \in jobs[n]
  /\ jobs' = [jobs EXCEPT ![n] = (@ \ {Job(x, kind, "queued")}) \cup {Job(x, kind, "ran")}]
  /\ RunHandler(n, x)
  /\ UNCHANGED <<state, submitted, completed, local_executed, pool, started, observed, net,
                 serve, steal, sender, outstanding, reaper>>

(* The last thing a stolen closure does: enqueue_completion.               *)
EnqueueCompletion(n, x) ==
  /\ Working(n) /\ Job(x, "stolen", "ran") \in jobs[n]
  /\ jobs' = [jobs EXCEPT ![n] = (@ \ {Job(x, "stolen", "ran")})
                                 \cup {Job(x, "stolen", "reported")}]
  /\ completions' = IF n \in Droppers THEN completions
                    ELSE [completions EXCEPT ![n] = Append(@, x)]
  /\ UNCHANGED <<state, submitted, completed, local_executed, pool, started, observed, net,
                 serve, steal, batch, outstanding, reaper, executed>>

(* on_task_complete.  The closure of a stolen task carries no payload.     *)
TaskComplete(n, x, kind) ==
  LET j == Job(x, kind, IF kind = "stolen" THEN "reported" ELSE "ran") IN
  /\ Working(n) /\ j \in jobs[n]
  /\ jobs' = [jobs EXCEPT ![n] = @ \ {j}]
  /\ local_executed' = [local_executed EXCEPT ![n] = @ + 1]
  /\ ObserveAndFinish(n, IF kind = "stolen" THEN NoTask ELSE x)
  /\ UNCHANGED <<state, net, serve, steal, sender, outstanding, reaper, executed>>

----------------------------------------------------------------------------
(* PeerLink: one outbound connection per peer, opened on demand.           *)

Conn(t, v) == <<t, v, opened[<<t, v>>]>>

CanReach(t, v) ==
  \/ connected[<<t, v>>]
  \/ opened[<<t, v>>] < MaxConns /\ Up(v)

(* Connect if need be and send; the message may yet be lost in a Reset.    *)
Send(t, v, msg) ==
  LET k == opened[<<t, v>>] + IF connected[<<t, v>>] THEN 0 ELSE 1 IN
  /\ CanReach(t, v)
  /\ opened' = [opened EXCEPT ![<<t, v>>] = k]
  /\ connected' = [connected EXCEPT ![<<t, v>>] = TRUE]
  /\ chan' = [chan EXCEPT ![<<t, v, k>>] = Append(@, msg)]
  /\ resp' = resp

Close(t, v) ==
  /\ connected' = [connected EXCEPT ![<<t, v>>] = FALSE]
  /\ UNCHANGED opened

(* The connection breaks: what is in flight is lost and t closes its end,  *)
(* which also ends a steal that waits on it.                               *)
Reset(t, v) ==
  /\ connected[<<t, v>>]
  /\ Close(t, v)
  /\ chan' = [chan EXCEPT ![Conn(t, v)] = <<>>]
  /\ resp' = [resp EXCEPT ![Conn(t, v)] = <<>>]
  /\ steal' = IF steal[t].at = "wait" /\ steal[t].victim = v
              THEN [steal EXCEPT ![t] = IdleSteal] ELSE steal
  /\ UNCHANGED <<state, runtime, serve, sender, outstanding, reaper, executed>>

----------------------------------------------------------------------------
(* The thief: steal_loop, try_remote_steal, accept_stolen_task.            *)

(* Steal only below the low-water mark of one pending task per worker.     *)
StealRequest(t, v) ==
  /\ Up(t) /\ t \in Stealing /\ t # v
  /\ steal[t] = IdleSteal
  /\ submitted[t] - completed[t] < NumWorkers[t]
  /\ Send(t, v, Request)
  /\ steal' = [steal EXCEPT ![t] = [at |-> "wait", victim |-> v, tasks |-> {}]]
  /\ UNCHANGED <<state, runtime, serve, sender, outstanding, reaper, executed>>

(* No answer within the receive timeout: close the link.  The request, and *)
(* results sent before it, may still reach the victim.                     *)
StealTimeout(t) ==
  /\ Threads(t) /\ steal[t].at = "wait"
  /\ Close(t, steal[t].victim)
  /\ resp' = [resp EXCEPT ![Conn(t, steal[t].victim)] = <<>>]
  /\ steal' = [steal EXCEPT ![t] = IdleSteal]
  /\ UNCHANGED <<state, runtime, chan, serve, sender, outstanding, reaper, executed>>

(* Faulty variant: an empty response is accepted like any other.           *)
StealResponse_EmptyAccepted(t) ==
  LET c == Conn(t, steal[t].victim) IN
  /\ Threads(t) /\ steal[t].at = "wait" /\ resp[c] # <<>>
  /\ resp' = [resp EXCEPT ![c] = Tail(@)]
  /\ steal' = [steal EXCEPT ![t] =
                 [at |-> "accept", victim |-> NoNode, tasks |-> Head(resp[c])]]
  /\ UNCHANGED <<state, runtime, opened, connected, chan, serve, sender, outstanding,
                 reaper, executed>>

StealResponse(t) ==
  LET c == Conn(t, steal[t].victim) IN
  /\ Threads(t) /\ steal[t].at = "wait" /\ resp[c] # <<>>
  /\ resp' = [resp EXCEPT ![c] = Tail(@)]
  /\ steal' = [steal EXCEPT ![t] =
                 IF Head(resp[c]) = {} THEN IdleSteal
                 ELSE [at |-> "accept", victim |-> NoNode, tasks |-> Head(resp[c])]]
  /\ UNCHANGED <<state, runtime, opened, connected, chan, serve, sender, outstanding,
                 reaper, executed>>

AcceptStolenTask(t, x) ==
  LET rest == steal[t].tasks \ {x} IN
  /\ Threads(t) /\ steal[t].at = "accept" /\ x \in steal[t].tasks
  /\ submitted' = [submitted EXCEPT ![t] = @ + 1]
  /\ jobs' = [jobs EXCEPT ![t] = @ \cup {Job(x, "stolen", "queued")}]
  /\ steal' = [steal EXCEPT ![t] = IF rest = {} THEN IdleSteal ELSE [@ EXCEPT !.tasks = rest]]
  /\ UNCHANGED <<state, completed, local_executed, pool, started, observed, net, serve,
                 sender, outstanding, reaper, executed>>

----------------------------------------------------------------------------
(* completion_loop.  The link's mutex is held while a steal waits on it.   *)

SwapBatch(t) ==
  /\ Up(t) /\ batch[t] = <<>> /\ completions[t] # <<>>
  /\ batch' = [batch EXCEPT ![t] = completions[t]]
  /\ completions' = [completions EXCEPT ![t] = <<>>]
  /\ UNCHANGED <<state, runtime, net, serve, steal, outstanding, reaper, executed>>

LinkFree(t, v) == ~(steal[t].at = "wait" /\ steal[t].victim = v)

SendResult(t) ==
  /\ Threads(t) /\ batch[t] # <<>>
  /\ LinkFree(t, Origin[Head(batch[t])])
  /\ Send(t, Origin[Head(batch[t])], Result(Head(batch[t])))
  /\ batch' = [batch EXCEPT ![t] = Tail(@)]
  /\ UNCHANGED <<state, runtime, serve, steal, completions, outstanding, reaper, executed>>

(* Connecting or sending failed: the notice is dropped, not retried.       *)
DropResult(t) ==
  /\ Threads(t) /\ batch[t] # <<>>
  /\ LinkFree(t, Origin[Head(batch[t])])
  /\ Close(t, Origin[Head(batch[t])])
  /\ batch' = [batch EXCEPT ![t] = Tail(@)]
  /\ UNCHANGED <<state, runtime, chan, resp, serve, steal, completions, outstanding, reaper,
                 executed>>

----------------------------------------------------------------------------
(* The victim: serve_peer, one thread per inbound connection.              *)

Least(i, j) == IF i < j THEN i ELSE j

(* Give half of what is pooled, at least one task of a nonempty pool, and  *)
(* at most the four per worker that the thief asked for.                   *)
Half(t, available) ==
  Least(IF available = 1 THEN 1 ELSE available \div 2, 4 * NumWorkers[t])

ServeRequest(c) ==
  LET v == c[2] IN
  /\ Up(v) /\ serve[c] = IdleServe /\ chan[c] # <<>> /\ Head(chan[c]) = Request
  /\ chan' = [chan EXCEPT ![c] = Tail(@)]
  /\ serve' = [serve EXCEPT ![c] =
                 [at |-> "take", give |-> Half(c[1], Cardinality(pool[v])), hand |-> {}]]
  /\ UNCHANGED <<state, runtime, opened, connected, resp, steal, sender, outstanding, reaper,
                 executed>>

(* Faulty variant: the task handed out stays in the pool.                  *)
ServeTake_NotRemoved(c, x) ==
  /\ Threads(c[2]) /\ serve[c].at = "take" /\ serve[c].give > 0 /\ x \in pool[c[2]]
  /\ serve' = [serve EXCEPT ![c].give = @ - 1, ![c].hand = @ \cup {x}]
  /\ UNCHANGED <<state, runtime, net, steal, sender, outstanding, reaper, executed>>

(* take_portable: each pop locks the pool anew, so workers and other serve *)
(* threads may empty it first.                                             *)
ServeTake(c, x) ==
  LET v == c[2] IN
  /\ Threads(v) /\ serve[c].at = "take" /\ serve[c].give > 0 /\ x \in pool[v]
  /\ pool' = [pool EXCEPT ![v] = @ \ {x}]
  /\ serve' = [serve EXCEPT ![c].give = @ - 1, ![c].hand = @ \cup {x}]
  /\ UNCHANGED <<state, submitted, completed, local_executed, jobs, started, observed, net,
                 steal, sender, outstanding, reaper, executed>>

(* Faulty variant: what was given away is not remembered.                  *)
ServeTrack_Forgets(c) ==
  /\ Threads(c[2]) /\ serve[c].at = "take" /\ (serve[c].give = 0 \/ pool[c[2]] = {})
  /\ serve' = [serve EXCEPT ![c].at = "send", ![c].give = 0]
  /\ UNCHANGED <<state, runtime, net, steal, sender, outstanding, reaper, executed>>

(* track_outstanding for every task taken, before any of them is sent.     *)
ServeTrack(c) ==
  LET v == c[2] IN
  /\ Threads(v) /\ serve[c].at = "take" /\ (serve[c].give = 0 \/ pool[v] = {})
  /\ outstanding' = [outstanding EXCEPT ![v] = @ \cup serve[c].hand]
  /\ serve' = [serve EXCEPT ![c].at = "send", ![c].give = 0]
  /\ UNCHANGED <<state, runtime, net, steal, sender, reaper, executed>>

(* The outcome of send_msg is ignored; a thief that closed the connection  *)
(* never sees the response.                                                *)
ServeSend(c) ==
  /\ Threads(c[2]) /\ serve[c].at = "send"
  /\ resp' = IF connected[<<c[1], c[2]>>] /\ c = Conn(c[1], c[2])
             THEN [resp EXCEPT ![c] = Append(@, serve[c].hand)] ELSE resp
  /\ serve' = [serve EXCEPT ![c] = IdleServe]
  /\ UNCHANGED <<state, runtime, opened, connected, chan, steal, sender, outstanding, reaper,
                 executed>>

(* Faulty variant: a late result is not told from one that is owed.        *)
ServeResult_LateCounted(c) ==
  LET x == Head(chan[c]).task IN
  /\ Up(c[2]) /\ serve[c] = IdleServe /\ chan[c] # <<>> /\ Head(chan[c]) # Request
  /\ chan' = [chan EXCEPT ![c] = Tail(@)]
  /\ outstanding' = [outstanding EXCEPT ![c[2]] = @ \ {x}]
  /\ serve' = [serve EXCEPT ![c] = [at |-> "finish", give |-> 0, hand |-> {x}]]
  /\ UNCHANGED <<state, runtime, opened, connected, resp, steal, sender, reaper, executed>>

(* resolve_outstanding: a result for a task that is no longer outstanding, *)
(* because the reaper has it, is ignored.                                  *)
ServeResult(c) ==
  LET v == c[2]
      x == Head(chan[c]).task
  IN
  /\ Up(v) /\ serve[c] = IdleServe /\ chan[c] # <<>> /\ Head(chan[c]) # Request
  /\ chan' = [chan EXCEPT ![c] = Tail(@)]
  /\ outstanding' = [outstanding EXCEPT ![v] = @ \ {x}]
  /\ serve' = IF x \in outstanding[v]
              THEN [serve EXCEPT ![c] = [at |-> "finish", give |-> 0, hand |-> {x}]]
              ELSE serve
  /\ UNCHANGED <<state, runtime, opened, connected, resp, steal, sender, reaper, executed>>

(* Faulty variant: the observer is only called for tasks that ran here.    *)
ServeFinish_NotObserved(c, x) ==
  /\ Threads(c[2]) /\ serve[c].at = "finish" /\ x \in serve[c].hand
  /\ serve' = [serve EXCEPT ![c] = IdleServe]
  /\ ObserveAndFinish(c[2], NoTask)
  /\ UNCHANGED <<state, local_executed, jobs, net, steal, sender, outstanding, reaper,
                 executed>>

(* on_remote_task_complete, outside the lock.                              *)
ServeFinish(c, x) ==
  /\ Threads(c[2]) /\ serve[c].at = "finish" /\ x \in serve[c].hand
  /\ serve' = [serve EXCEPT ![c] = IdleServe]
  /\ ObserveAndFinish(c[2], x)
  /\ UNCHANGED <<state, local_executed, jobs, net, steal, sender, outstanding, reaper,
                 executed>>

----------------------------------------------------------------------------
(* reap_outstanding.                                                       *)

(* Under the lock, take out the tasks S that have timed out.               *)
ReapCollect(n, S) ==
  /\ Up(n) /\ lost[n] = {} /\ debt[n] = NoTask /\ S # {} /\ S \subseteq outstanding[n]
  /\ outstanding' = [outstanding EXCEPT ![n] = @ \ S]
  /\ lost' = [lost EXCEPT ![n] = S]
  /\ reaped' = reaped \cup S
  /\ UNCHANGED <<state, runtime, net, serve, steal, sender, debt, executed>>

(* Then for each of them: submit it again, as a closure that cannot be     *)
(* stolen, ...                                                             *)
ReapResubmit(n, x) ==
  /\ Threads(n) /\ debt[n] = NoTask /\ x \in lost[n]
  /\ lost' = [lost EXCEPT ![n] = @ \ {x}]
  /\ debt' = [debt EXCEPT ![n] = x]
  /\ submitted' = [submitted EXCEPT ![n] = @ + 1]
  /\ jobs' = [jobs EXCEPT ![n] = @ \cup {Job(x, "rerun", "queued")}]
  /\ UNCHANGED <<state, completed, local_executed, pool, started, observed, net, serve,
                 steal, sender, outstanding, reaped, executed>>

(* Faulty variant: the settled task keeps its payload.                     *)
ReapSettle_Observed(n) ==
  /\ Threads(n) /\ debt[n] # NoTask
  /\ debt' = [debt EXCEPT ![n] = NoTask]
  /\ ObserveAndFinish(n, debt[n])
  /\ UNCHANGED <<state, local_executed, jobs, net, serve, steal, sender, outstanding, lost,
                 reaped, executed>>

(* ... and settle the first submission, without payload for the observer.  *)
ReapSettle(n) ==
  /\ Threads(n) /\ debt[n] # NoTask
  /\ debt' = [debt EXCEPT ![n] = NoTask]
  /\ ObserveAndFinish(n, NoTask)
  /\ UNCHANGED <<state, local_executed, jobs, net, serve, steal, sender, outstanding, lost,
                 reaped, executed>>

----------------------------------------------------------------------------
(* Node::stop: clear running_, join the threads, close the links, then     *)
(* destroy the Runtime, whose workers leave once the ledger balances.  A   *)
(* loop that read running_ just before may still act once; that is the     *)
(* same as acting before Stop, which writes nothing else.                  *)

Stop(n) ==
  /\ Up(n) /\ n \in Stoppable
  /\ state' = [state EXCEPT ![n] = "stopping"]
  /\ UNCHANGED <<runtime, net, serve, steal, sender, outstanding, reaper, executed>>

StopJoin(n) ==
  /\ state[n] = "stopping"
  /\ steal[n] = IdleSteal /\ batch[n] = <<>>
  /\ lost[n] = {} /\ debt[n] = NoTask
  /\ \A c \in Conns : c[2] = n => serve[c] = IdleServe
  /\ state' = [state EXCEPT ![n] = "shutdown"]
  /\ connected' = [l \in Nodes \X Nodes |-> connected[l] /\ l[1] # n]
  /\ UNCHANGED <<runtime, opened, chan, resp, serve, steal, sender, outstanding, reaper,
                 executed>>

StopShutdown(n) ==
  /\ state[n] = "shutdown" /\ submitted[n] = completed[n]
  /\ state' = [state EXCEPT ![n] = "stopped"]
  /\ UNCHANGED <<runtime, net, serve, steal, sender, outstanding, reaper, executed>>

(* The machine of n fails; every thread of n stops where it is.            *)
Crash(n) ==
  /\ n \in Mortal /\ Working(n)
  /\ state' = [state EXCEPT ![n] = "crashed"]
  /\ UNCHANGED <<runtime, net, serve, steal, sender, outstanding, reaper, executed>>

----------------------------------------------------------------------------
WorkerStep(n) ==
  \E x \in Tasks :
    \/ RunPortable(n, x)
    \/ EnqueueCompletion(n, x)
    \/ \E kind \in {"stolen", "rerun"} : RunClosure(n, x, kind)
    \/ \E kind \in Kinds : TaskComplete(n, x, kind)

StealStep(t) ==
  \/ StealTimeout(t)
  \/ StealResponse(t)
  \/ \E x \in Tasks : AcceptStolenTask(t, x)

CompletionStep(t) == SwapBatch(t) \/ SendResult(t) \/ DropResult(t)

ServeStep(c) ==
  \/ ServeRequest(c)
  \/ \E x \in Tasks : ServeTake(c, x) \/ ServeFinish(c, x)
  \/ ServeTrack(c)
  \/ ServeSend(c)
  \/ ServeResult(c)

ReaperStep(n) ==
  \/ \E S \in SUBSET outstanding[n] : ReapCollect(n, S)
  \/ \E x \in Tasks : ReapResubmit(n, x)
  \/ ReapSettle(n)

StopStep(n) == StopJoin(n) \/ StopShutdown(n)

Next ==
  \/ \E n \in Nodes :
       \/ \E x \in Tasks : SubmitPortable(n, x)
       \/ WorkerStep(n)
       \/ \E v \in Nodes : StealRequest(n, v) \/ Reset(n, v)
       \/ StealStep(n)
       \/ CompletionStep(n)
       \/ ReaperStep(n)
       \/ Stop(n) \/ StopStep(n) \/ Crash(n)
  \/ \E c \in Conns : ServeStep(c)

Spec == Init /\ [][Next]_vars

(* Every thread of a live node runs, a blocked receive times out, and the  *)
(* reaper finds a task that stays outstanding timed out.  Nothing obliges  *)
(* a client to submit or stop, a node to steal, or a network to deliver.   *)
FairSpec ==
  /\ Spec
  /\ \A n \in Nodes : /\ WF_vars(WorkerStep(n)) /\ WF_vars(StealStep(n))
                      /\ WF_vars(CompletionStep(n)) /\ WF_vars(ReaperStep(n))
                      /\ WF_vars(StopStep(n))
  /\ \A c \in Conns : WF_vars(ServeStep(c))

----------------------------------------------------------------------------
TypeOK ==
  /\ state \in [Nodes -> {"up", "stopping", "shutdown", "stopped", "crashed"}]
  /\ submitted \in [Nodes -> Nat] /\ completed \in [Nodes -> Nat]
  /\ local_executed \in [Nodes -> Nat]
  /\ pool \in [Nodes -> SUBSET Tasks]
  /\ jobs \in [Nodes -> SUBSET [task : Tasks, kind : Kinds,
                                at : {"queued", "ran", "reported"}]]
  /\ opened \in [Nodes \X Nodes -> 0 .. MaxConns]
  /\ connected \in [Nodes \X Nodes -> BOOLEAN]
  /\ \A l \in Nodes \X Nodes : connected[l] => opened[l] > 0 /\ l[1] # l[2]
  /\ chan \in [Conns -> Seq({Request} \cup {Result(x) : x \in Tasks})]
  /\ resp \in [Conns -> Seq(SUBSET Tasks)]
  /\ serve \in [Conns -> [at : {"recv", "take", "send", "finish"}, give : Nat,
                          hand : SUBSET Tasks]]
  /\ steal \in [Nodes -> {IdleSteal}
                  \cup [at : {"wait"}, victim : Nodes, tasks : {{}}]
                  \cup [at : {"accept"}, victim : {NoNode}, tasks : (SUBSET Tasks) \ {{}}]]
  /\ completions \in [Nodes -> Seq(Tasks)] /\ batch \in [Nodes -> Seq(Tasks)]
  /\ outstanding \in [Nodes -> SUBSET Tasks] /\ lost \in [Nodes -> SUBSET Tasks]
  /\ debt \in [Nodes -> Tasks \cup {NoTask}]
  /\ started \subseteq Tasks /\ reaped \subseteq Tasks
  /\ executed \in [Tasks -> Nat] /\ observed \in [Tasks -> Nat]

(* The tasks that serve threads of n have taken from the pool and not yet  *)
(* tracked, or whose result they are about to count.                       *)
InHand(n) ==
  {p \in Conns \X Tasks : /\ p[1][2] = n /\ serve[p[1]].at \in {"take", "finish"}
                          /\ p[2] \in serve[p[1]].hand}

(* The submissions a node has yet to count as completed: pooled, with its  *)
(* workers, in hand, outstanding, or being reaped.                         *)
Unsettled(n) ==
  Cardinality(pool[n]) + Cardinality(jobs[n]) + Cardinality(outstanding[n])
  + Cardinality(InHand(n))
  + Cardinality(lost[n]) + (IF debt[n] = NoTask THEN 0 ELSE 1)

(***************************************************************************)
(* A node's ledger accounts for every submission exactly once, however     *)
(* results, timeouts and re-runs interleave: a late result never completes *)
(* a task the reaper took ("the task would be counted twice", serve_peer), *)
(* and nothing that is handed out is forgotten.                            *)
(***************************************************************************)
LedgerBalanced == \A n \in Nodes : submitted[n] = completed[n] + Unsettled(n)

(***************************************************************************)
(* The observer sees each task at most once, so that a pipeline never      *)
(* advances twice over the same stage, whether the stage ran here, ran on  *)
(* a thief, or both (reap_outstanding's cleared task).                     *)
(***************************************************************************)
AdvancesOnce == \A x \in Tasks : observed[x] <= 1

(***************************************************************************)
(* When a node's ledger balances, which is what wait_all waits for, all    *)
(* tasks submitted there have been executed somewhere and every pipeline   *)
(* has run to its end.                                                     *)
(***************************************************************************)
BalancedMeansDone ==
  \A n \in Nodes : submitted[n] = completed[n] =>
    \A x \in started : Origin[x] = n =>
      executed[x] >= 1 /\ observed[x] = 1 /\ Stage[x] \in started \cup {NoTask}

(***************************************************************************)
(* At-least-once degrades to exactly-once without timeouts: a task is      *)
(* executed at most once unless its origin gave up on its thief, and at    *)
(* most twice then, since a re-run cannot be stolen.                       *)
(***************************************************************************)
RerunsOnlyReaped ==
  \A x \in Tasks : executed[x] <= IF x \in reaped THEN 2 ELSE 1

(***************************************************************************)
(* Every task of a node that stays up is completed in the end, although    *)
(* thieves crash, stop or keep silent and messages are lost ("a node that  *)
(* takes work and then dies must not hang the origin forever").            *)
(***************************************************************************)
EveryTaskSettles ==
  \A x \in Tasks : Origin[x] \notin Mortal \cup Stoppable =>
    (x \in started ~> observed[x] = 1)

(***************************************************************************)
(* stop() returns: it destroys the Runtime, whose shutdown is to "signal   *)
(* all workers to stop and join their threads" (Runtime.hpp).              *)
(***************************************************************************)
StopReturns == \A n \in Nodes : state[n] = "stopping" ~> state[n] = "stopped"
=============================================================================
