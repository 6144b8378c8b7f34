----------------------------- MODULE JobManager -----------------------------
(***************************************************************************)
(* The job manager (src/inference/JobManager.cpp): submit() opens a job    *)
(* and hands its first stage to the Runtime; the Runtime's observer, on    *)
(* the worker that ran a stage or on the serve thread that was told of it, *)
(* submits the stage after it and then brings the job table up to date.    *)
(*                                                                         *)
(* The Runtime appears by its ledger and by the set of stages it has been  *)
(* given: it runs them in any order and calls the observer once for each,  *)
(* as modules Runtime and Node show.  A StagePayload is the request and    *)
(* its stage; the shape of a request only determines a cost.  submitted_   *)
(* and the time stamps, which are only reported, are left out.             *)
(***************************************************************************)
EXTENDS Integers, FiniteSets

CONSTANTS
  Callers,     \* the threads that call submit
  Executors,   \* the threads on which the observer runs
  NoJob,       \* jobs_ has no entry
  MaxRequests  \* bound: the requests submitted

Ids == 1 .. MaxRequests

Decode == 0
Preprocess == 1
Infer == 2
Postprocess == 3
Stages == Decode .. Postprocess

JobStatus == [state : {"Running", "Done"}, stage : Stages]

(* Every caller submits at most once, so the ids never run out.            *)
ASSUME JobManagerAssumption ==
  /\ MaxRequests \in Nat
  /\ IsFiniteSet(Callers) /\ Cardinality(Callers) <= MaxRequests
  /\ IsFiniteSet(Executors)
  /\ NoJob \notin JobStatus

VARIABLES
  next_request_id, \* next_request_id_
  jobs,            \* jobs_
  completed,       \* completed_, of the job manager
  queue,           \* the stages the Runtime was given and has yet to run
  ledger,          \* the Runtime's submitted_ and completed_
  caller,          \* where each thread is in submit(), and with which id
  observer         \* where each thread is in on_stage_done(), and for what

managerVars == <<next_request_id, jobs, completed, queue, ledger, caller, observer>>

OutsideSubmit == [at |-> "out", id |-> 0]
NoStage == [at |-> "idle", id |-> 0, stage |-> Decode]

ManagerInit ==
  /\ next_request_id = 1
  /\ jobs = [i \in Ids |-> NoJob]
  /\ completed = 0
  /\ queue = {}
  /\ ledger = [submitted |-> 0, completed |-> 0]
  /\ caller = [c \in Callers |-> OutsideSubmit]
  /\ observer = [e \in Executors |-> NoStage]

(* submit_stage: the Runtime counts the task and queues it.                *)
SubmitStage(id, stage) ==
  /\ queue' = queue \cup {<<id, stage>>}
  /\ ledger' = [ledger EXCEPT !.submitted = @ + 1]

----------------------------------------------------------------------------
(* submit(), in the order of its statements.                               *)

SubmitAllocate(c) ==
  /\ caller[c].at = "out" /\ next_request_id \in Ids
  /\ caller' = [caller EXCEPT ![c] = [at |-> "insert", id |-> next_request_id]]
  /\ next_request_id' = next_request_id + 1
  /\ UNCHANGED <<jobs, completed, queue, ledger, observer>>

SubmitInsert(c) ==
  /\ caller[c].at = "insert"
  /\ jobs' = [jobs EXCEPT ![caller[c].id] = [state |-> "Running", stage |-> Decode]]
  /\ caller' = [caller EXCEPT ![c].at = "stage"]
  /\ UNCHANGED <<next_request_id, completed, queue, ledger, observer>>

SubmitFirstStage(c) ==
  /\ caller[c].at = "stage"
  /\ SubmitStage(caller[c].id, Decode)
  /\ caller' = [caller EXCEPT ![c].at = "returned"]
  /\ UNCHANGED <<next_request_id, jobs, completed, observer>>

SubmitStep(c) == SubmitInsert(c) \/ SubmitFirstStage(c)

----------------------------------------------------------------------------
(* on_stage_done(), as the Runtime's observer, and the Runtime's finish.   *)

(* Faulty variant: the stage is counted before the observer is called.     *)
StageDone_CountsEarly(e, id, stage) ==
  /\ observer[e] = NoStage /\ <<id, stage>> \in queue
  /\ queue' = queue \ {<<id, stage>>}
  /\ observer' = [observer EXCEPT ![e] = [at |-> IF stage = Postprocess THEN "last" ELSE "advance",
                                         id |-> id, stage |-> stage]]
  /\ ledger' = [ledger EXCEPT !.completed = @ + 1]
  /\ UNCHANGED <<next_request_id, jobs, completed, caller>>

(* A stage has run and the observer is called for it.                      *)
StageDone(e, id, stage) ==
  /\ observer[e] = NoStage /\ <<id, stage>> \in queue
  /\ queue' = queue \ {<<id, stage>>}
  /\ observer' = [observer EXCEPT ![e] = [at |-> IF stage = Postprocess THEN "last" ELSE "advance",
                                         id |-> id, stage |-> stage]]
  /\ UNCHANGED <<next_request_id, jobs, completed, ledger, caller>>

(* Faulty variant: a missing break makes Decode submit two stages.         *)
AdvanceStage_FallsThrough(e) ==
  LET id == observer[e].id
      next == {<<id, s>> : s \in {observer[e].stage + 1, Infer}}
  IN
  /\ observer[e].at = "advance"
  /\ queue' = queue \cup next
  /\ ledger' = [ledger EXCEPT !.submitted = @ + Cardinality(next)]
  /\ observer' = [observer EXCEPT ![e].at = "record"]
  /\ UNCHANGED <<next_request_id, jobs, completed, caller>>

(* The successor is submitted without the lock, and first: it may run, and *)
(* be observed, before the job table knows of it.                          *)
AdvanceStage(e) ==
  /\ observer[e].at = "advance"
  /\ SubmitStage(observer[e].id, observer[e].stage + 1)
  /\ observer' = [observer EXCEPT ![e].at = "record"]
  /\ UNCHANGED <<next_request_id, jobs, completed, caller>>

(* The observer returns, and only then finish_one counts the stage's task. *)
FinishStage(e) ==
  /\ ledger' = [ledger EXCEPT !.completed = @ + 1]
  /\ observer' = [observer EXCEPT ![e] = NoStage]

(* Faulty variant: the update also says that the job is running.           *)
RecordStage_Running(e) ==
  LET id == observer[e].id IN
  /\ observer[e].at = "record"
  /\ jobs' = [jobs EXCEPT ![id] = [state |-> "Running", stage |-> observer[e].stage + 1]]
  /\ FinishStage(e)
  /\ UNCHANGED <<next_request_id, completed, queue, caller>>

(* Faulty variant: the update is one stage too far.                        *)
RecordStage_OneTooFar(e) ==
  /\ observer[e].at = "record"
  /\ jobs' = [jobs EXCEPT ![observer[e].id].stage =
                IF observer[e].stage = Decode THEN Infer ELSE Postprocess]
  /\ FinishStage(e)
  /\ UNCHANGED <<next_request_id, completed, queue, caller>>

RecordStage(e) ==
  LET id == observer[e].id IN
  /\ observer[e].at = "record"
  /\ jobs' = IF jobs[id] = NoJob THEN jobs
             ELSE [jobs EXCEPT ![id].stage = observer[e].stage + 1]
  /\ FinishStage(e)
  /\ UNCHANGED <<next_request_id, completed, queue, caller>>

(* Faulty variant: Postprocess falls through to the common update.         *)
RecordDone_FallsThrough(e) ==
  LET id == observer[e].id IN
  /\ observer[e].at = "last"
  /\ jobs' = [jobs EXCEPT ![id] = [state |-> "Done", stage |-> Postprocess + 1]]
  /\ completed' = completed + 1
  /\ FinishStage(e)
  /\ UNCHANGED <<next_request_id, queue, caller>>

(* The end of the chain; a job that is Done already is left alone.         *)
RecordDone(e) ==
  LET id == observer[e].id
      open == jobs[id] # NoJob /\ jobs[id].state # "Done"
  IN
  /\ observer[e].at = "last"
  /\ jobs' = IF open THEN [jobs EXCEPT ![id] = [state |-> "Done", stage |-> Postprocess]]
             ELSE jobs
  /\ completed' = completed + IF open THEN 1 ELSE 0
  /\ FinishStage(e)
  /\ UNCHANGED <<next_request_id, queue, caller>>

ObserverStep(e) == AdvanceStage(e) \/ RecordStage(e) \/ RecordDone(e)

----------------------------------------------------------------------------
(* What wait_all waits for, and what the workers leave on.                 *)
Balanced == ledger.submitted = ledger.completed

(* status(): the entry of jobs_, if there is one.                          *)
Known(id) == id \in Ids /\ jobs[id] # NoJob
IsDone(id) == Known(id) /\ jobs[id].state = "Done"

ManagerTypeOK ==
  /\ next_request_id \in 1 .. MaxRequests + 1
  /\ jobs \in [Ids -> {NoJob} \cup JobStatus]
  /\ completed \in 0 .. MaxRequests
  /\ queue \subseteq Ids \X Stages
  /\ ledger \in [submitted : Nat, completed : Nat]
  /\ caller \in [Callers -> {OutsideSubmit}
                   \cup [at : {"insert", "stage", "returned"}, id : Ids]]
  /\ observer \in [Executors -> {NoStage}
                   \cup [at : {"advance", "record"}, id : Ids, stage : Decode .. Infer]
                   \cup [at : {"last"}, id : Ids, stage : {Postprocess}]]

(* The stages of a request that have yet to submit their successor.        *)
Live(id) ==
  {p \in queue : p[1] = id}
  \cup {<<id, observer[e].stage>> : e \in {f \in Executors :
          observer[f].id = id /\ observer[f].at \in {"advance", "last"}}}

InSubmit(id) ==
  \E c \in Callers : caller[c].id = id /\ caller[c].at \in {"insert", "stage"}

(***************************************************************************)
(* A request is a chain, not a fork (JobManager.hpp): from the end of      *)
(* submit() until it is Done exactly one of its stages is queued, running  *)
(* or about to be followed up, and none before or after.                   *)
(***************************************************************************)
OneStageInFlight ==
  \A id \in Ids : Cardinality(Live(id)) = IF Known(id) /\ ~InSubmit(id) /\ ~IsDone(id) THEN 1 ELSE 0

(***************************************************************************)
(* wait_all "blocks until every submitted request has finished"            *)
(* (JobManager.hpp): when the Runtime's ledger balances, every request     *)
(* whose submit() returned is Done and counted as completed.  It needs the *)
(* observer to submit a successor before its stage is counted.             *)
(***************************************************************************)
BalancedMeansServed ==
  Balanced =>
    /\ \A id \in Ids : Known(id) => IsDone(id) \/ InSubmit(id)
    /\ completed = Cardinality({id \in Ids : IsDone(id)})

(***************************************************************************)
(* A request that was reported as done never turns into a running one,     *)
(* though updates of its earlier stages may still be under way.            *)
(***************************************************************************)
DoneIsFinal == [][\A id \in Ids : IsDone(id) => IsDone(id)']_managerVars

(***************************************************************************)
(* The stage that status() shows of a request may lag behind the one in    *)
(* flight, because the table is updated after the successor is submitted,  *)
(* but it is never ahead of it.                                            *)
(***************************************************************************)
StageNeverAhead ==
  \A id \in Ids : Known(id) => \A p \in Live(id) : jobs[id].stage <= p[2]

=============================================================================
