--------------------------- MODULE InferenceServer --------------------------
(***************************************************************************)
(* The inference server in serving mode: the HTTP server                   *)
(* (src/inference/HttpServer.cpp) with its accept thread and one thread    *)
(* per connection, the routes of apps/hydra_inference.cpp on top of the    *)
(* job manager, and the main thread that in the end stops the HTTP server  *)
(* and then the node, which destroys the Runtime.                          *)
(*                                                                         *)
(* Requests are parsed elsewhere: a connection thread receives a request   *)
(* for one of the routes, or nothing usable.  A connection thread is the   *)
(* caller of JobManager's submit for POST /infer.                          *)
(*                                                                         *)
(* Stages are run by the Runtime's workers, or stolen by peers, of whose   *)
(* results the node's serve threads learn.  Of a worker's loop there is    *)
(* the test on which it leaves, load by load (module Runtime), and that a  *)
(* search may or may not find a stage.                                     *)
(***************************************************************************)
EXTENDS JobManager

CONSTANT Workers   \* of the Executors; the others are the node's serve threads

ASSUME ServerAssumption == Workers \subseteq Executors

VARIABLES
  running,     \* HttpServer::running_; listen_ is open as long
  acceptor,    \* the accept thread: where it is, and the connection it holds
  conn,        \* per connection: where its thread is
  main,        \* where the main thread is
  look,        \* per worker: where it is in its loop, and submitted_ as it read it
  away,        \* the stages at a peer when the serve threads were joined
  stuck        \* listen_ is closed, but the accept() blocked on it goes on

httpVars == <<running, acceptor, conn>>
serverVars == <<httpVars, main, look, away, stuck>>
vars == <<managerVars, serverVars>>

Accepting(at) == [at |-> at, conn |-> {}]
Looking(at) == [at |-> at, seen |-> 0]

(* start(): listening, with the accept thread in accept().                 *)
Init ==
  /\ ManagerInit
  /\ running = TRUE
  /\ acceptor = Accepting("accept")
  /\ conn = [c \in Callers |-> "away"]
  /\ main = "serve"
  /\ look = [w \in Workers |-> Looking("loop")]
  /\ away = {}
  /\ stuck = FALSE

----------------------------------------------------------------------------
(* accept_loop().                                                          *)

(* A connection comes; it may even come to a socket that was closed        *)
(* meanwhile, if the accept() blocked on it was not ended.                 *)
Accept(c) ==
  /\ acceptor.at = "accept" /\ (running \/ stuck) /\ conn[c] = "away"
  /\ acceptor' = [at |-> "spawn", conn |-> {c}]
  /\ conn' = [conn EXCEPT ![c] = "accepted"]
  /\ stuck' = FALSE
  /\ UNCHANGED <<managerVars, running, main, look, away>>

(* accept() fails, because of close() or, while running, for want of       *)
(* descriptors or memory: the loop ends either way.                        *)
AcceptFail ==
  /\ acceptor.at = "accept" /\ ~stuck
  /\ acceptor' = Accepting("exit")
  /\ UNCHANGED <<managerVars, running, conn, main, look, away, stuck>>

(* Holding conn_mutex_, start the thread of the connection; then test      *)
(* running_ for the next round.                                            *)
AcceptSpawn ==
  /\ acceptor.at = "spawn" /\ main # "join threads"
  /\ acceptor' = Accepting(IF running THEN "accept" ELSE "exit")
  /\ conn' = [c \in Callers |-> IF c \in acceptor.conn THEN "recv" ELSE conn[c]]
  /\ UNCHANGED <<managerVars, running, main, look, away, stuck>>

(* The steps of the accept thread that do not wait for a client.           *)
AcceptStep == (~running /\ AcceptFail) \/ AcceptSpawn

----------------------------------------------------------------------------
(* serve(), one thread per connection.                                     *)

Close(c) == conn' = [conn EXCEPT ![c] = "closed"]

(* The client closes, says nothing for five seconds, or sends no header.   *)
RecvFail(c) ==
  /\ conn[c] = "recv"
  /\ Close(c)
  /\ UNCHANGED <<managerVars, running, acceptor, main, look, away, stuck>>

(* A complete request: POST /infer, or anything else, which is answered    *)
(* without a change of state (GET /status and GET /stats read the job      *)
(* table and the counters).                                                *)
Recv(c, at) ==
  /\ conn[c] = "recv"
  /\ conn' = [conn EXCEPT ![c] = at]
  /\ UNCHANGED <<managerVars, running, acceptor, main, look, away, stuck>>

(* POST /infer: the handler calls submit() and answers with the id.        *)
HandleInfer(c) ==
  /\ conn[c] = "submit"
  /\ \/ SubmitAllocate(c) /\ UNCHANGED conn
     \/ SubmitStep(c) /\ UNCHANGED conn
     \/ /\ caller[c].at = "returned"
        /\ conn' = [conn EXCEPT ![c] = "send"]
        /\ caller' = [caller EXCEPT ![c] = OutsideSubmit]
        /\ UNCHANGED <<next_request_id, jobs, completed, queue, ledger, observer>>
  /\ UNCHANGED <<running, acceptor, main, look, away, stuck>>

(* Send the response, which the client may or may not get, and close.      *)
Send(c) ==
  /\ conn[c] = "send"
  /\ Close(c)
  /\ UNCHANGED <<managerVars, running, acceptor, main, look, away, stuck>>

ServeStep(c) ==
  RecvFail(c) \/ Recv(c, "submit") \/ Recv(c, "send") \/ HandleInfer(c) \/ Send(c)

----------------------------------------------------------------------------
(* Worker::run: compare the counters, submitted_ first, then test the      *)
(* flag, then search for a stage: a round ends and the next one begins at  *)
(* "loop".                                                                 *)

Looks(w, l) == look' = [look EXCEPT ![w] = l]

LoadSubmitted(w) ==
  /\ look[w].at = "loop" /\ observer[w] = NoStage
  /\ Looks(w, [at |-> "compare", seen |-> ledger.submitted])
  /\ UNCHANGED <<managerVars, httpVars, main, away, stuck>>

LoadCompleted(w) ==
  /\ look[w].at = "compare"
  /\ Looks(w, Looking(IF look[w].seen = ledger.completed THEN "flag" ELSE "loop"))
  /\ UNCHANGED <<managerVars, httpVars, main, away, stuck>>

(* Faulty variant: the worker never leaves.                                *)
LoadShutdown_Ignored(w) ==
  /\ look[w].at = "flag"
  /\ Looks(w, Looking("loop"))
  /\ UNCHANGED <<managerVars, httpVars, main, away, stuck>>

(* The counters were equal; they need not be any more.                     *)
LoadShutdown(w) ==
  /\ look[w].at = "flag"
  /\ Looks(w, Looking(IF main = "join workers" THEN "left" ELSE "loop"))
  /\ UNCHANGED <<managerVars, httpVars, main, away, stuck>>

(* A search that finds a stage; one that misses what is put behind it, as  *)
(* it passes the queues one by one, changes nothing.                       *)
RunStage(w) ==
  /\ look[w].at = "loop"
  /\ \E p \in queue \ away : StageDone(w, p[1], p[2])
  /\ UNCHANGED serverVars

(* A serve thread reads the result of a stage that a peer has run.         *)
StageReported(e) ==
  /\ e \notin Workers /\ main \notin {"join workers", "exit"}
  /\ \E p \in queue : StageDone(e, p[1], p[2])
  /\ UNCHANGED serverVars

Observe(e) == ObserverStep(e) /\ UNCHANGED serverVars

WorkerStep(w) ==
  LoadSubmitted(w) \/ LoadCompleted(w) \/ LoadShutdown(w) \/ RunStage(w)

----------------------------------------------------------------------------
(* The main thread: serve until a signal or the deadline, then             *)
(* HttpServer::stop and Node::stop.                                        *)

(* HttpServer::stop clears running_ and closes listen_, to end accept();   *)
(* an accept() that is blocked already, Linux may leave blocked.           *)
StopHttp ==
  /\ main = "serve"
  /\ running' = FALSE
  /\ stuck' \in IF acceptor.at = "accept" THEN BOOLEAN ELSE {FALSE}
  /\ main' = "join accept"
  /\ UNCHANGED <<managerVars, acceptor, conn, look, away>>

(* Faulty variant: stop() does not wait for the accept thread.             *)
StopJoinAccept_Skipped ==
  /\ main = "join accept"
  /\ main' = "join threads"
  /\ UNCHANGED <<managerVars, httpVars, look, away, stuck>>

(* Once the accept thread is joined, conn_mutex_ is taken for the rest.    *)
StopJoinAccept ==
  /\ main = "join accept" /\ acceptor.at = "exit"
  /\ main' = "join threads"
  /\ UNCHANGED <<managerVars, httpVars, look, away, stuck>>

StopJoinThreads ==
  /\ main = "join threads" /\ \A c \in Callers : conn[c] \in {"away", "accepted", "closed"}
  /\ main' = "stop node"
  /\ UNCHANGED <<managerVars, httpVars, look, away, stuck>>

(* Node::stop joins its own threads, after which nobody reads the result   *)
(* of a stage that is at a peer, and destroys the Runtime, whose shutdown  *)
(* sets the workers' flag ...                                              *)
StopNode ==
  /\ main = "stop node" /\ \A e \in Executors \ Workers : observer[e] = NoStage
  /\ main' = "join workers"
  /\ away' \in SUBSET queue
  /\ UNCHANGED <<managerVars, httpVars, look, stuck>>

(* ... and joins them.                                                     *)
StopJoinWorkers ==
  /\ main = "join workers" /\ \A w \in Workers : look[w].at = "left"
  /\ main' = "exit"
  /\ UNCHANGED <<managerVars, httpVars, look, away, stuck>>

StopStep == StopJoinAccept \/ StopJoinThreads \/ StopNode \/ StopJoinWorkers

----------------------------------------------------------------------------
Next ==
  \/ AcceptFail \/ AcceptSpawn
  \/ \E c \in Callers : Accept(c) \/ ServeStep(c)
  \/ \E w \in Workers : WorkerStep(w)
  \/ \E e \in Executors : StageReported(e) \/ Observe(e)
  \/ StopHttp \/ StopStep

(* Threads are scheduled, a silent client times out, and a worker that     *)
(* keeps looking finds what is there (EveryTaskFinishes, module Runtime);  *)
(* nobody need connect, no peer answer and no signal come.                 *)
Spec ==
  /\ Init /\ [][Next]_vars
  /\ WF_vars(AcceptStep) /\ WF_vars(StopStep)
  /\ \A c \in Callers : WF_vars(ServeStep(c))
  /\ \A w \in Workers : WF_vars(WorkerStep(w)) /\ SF_vars(RunStage(w))
  /\ \A e \in Executors : WF_vars(Observe(e))

----------------------------------------------------------------------------
TypeOK ==
  /\ ManagerTypeOK
  /\ running \in BOOLEAN
  /\ acceptor \in [at : {"accept", "exit"}, conn : {{}}]
                  \cup [at : {"spawn"}, conn : {{c} : c \in Callers}]
  /\ conn \in [Callers ->
               {"away", "accepted", "recv", "submit", "send", "closed"}]
  /\ main \in {"serve", "join accept", "join threads", "stop node", "join workers", "exit"}
  /\ look \in [Workers -> [at : {"loop", "compare", "flag", "left"}, seen : Nat]]
  /\ away \subseteq queue /\ stuck \in BOOLEAN

(***************************************************************************)
(* The main thread destroys the Runtime, and with it the job manager's     *)
(* reference to it, only when no connection thread is inside a handler or  *)
(* can still enter one, and no observer is running.                        *)
(***************************************************************************)
NothingOutlivesRuntime ==
  main \in {"stop node", "join workers", "exit"} =>
    /\ acceptor.at = "exit"
    /\ \A c \in Callers : conn[c] \in {"away", "closed"}
    /\ main = "exit" => \A e \in Executors : observer[e] = NoStage

(***************************************************************************)
(* Every request that entered the job table is served in the end, unless   *)
(* the workers are told to leave first: then they may leave on a           *)
(* comparison made before the request came, or never get back what a peer  *)
(* took.                                                                   *)
(***************************************************************************)
EveryRequestServed ==
  []<>(\/ main \in {"join workers", "exit"}
       \/ \A id \in Ids : Known(id) => IsDone(id))

(***************************************************************************)
(* A signal ends the program, whatever connections, workers and serve      *)
(* threads are doing when it comes: http.stop() returns once accept() has  *)
(* ended, and node.stop() unless a stage is left at a peer.                *)
(***************************************************************************)
ServerStops == main = "join accept" /\ ~stuck ~> main = "exit" \/ away # {}
=============================================================================
