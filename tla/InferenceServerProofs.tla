----------------------- MODULE InferenceServerProofs -----------------------
(***************************************************************************)
(* Proofs about the job manager and the inference server for every set of  *)
(* connections and executors and every number of requests.                 *)
(***************************************************************************)
EXTENDS InferenceServer, FiniteSetTheorems, TLAPS

----------------------------------------------------------------------------
(* The inductive invariant, part by part.                                  *)

(* The observer is in on_stage_done and has yet to follow its stage up.    *)
Following(e) == observer[e].at \in {"advance", "last"}

Busy == {e \in Executors : observer[e].at # "idle"}

DoneIds == {id \in Ids : IsDone(id)}

Pending(id) == Known(id) /\ ~InSubmit(id) /\ ~IsDone(id)

(* The first stage has been submitted.                                     *)
Submitted(id) == Known(id) /\ ~InSubmit(id)

(* fetch_add hands every id out once, to one call of submit().             *)
IdsInv ==
  /\ \A id \in Ids : Known(id) => id < next_request_id
  /\ \A c \in Callers : caller[c].at # "out" => caller[c].id < next_request_id
  /\ \A c, d \in Callers :
       caller[c].at # "out" /\ caller[d].at # "out" /\ caller[c].id = caller[d].id => c = d

(* The job table during a submit().                                        *)
CallerInv ==
  \A c \in Callers :
    /\ caller[c].at = "insert" => ~Known(caller[c].id)
    /\ caller[c].at = "stage" => /\ Known(caller[c].id) /\ ~IsDone(caller[c].id)
                                 /\ jobs[caller[c].id].stage = Decode
    /\ caller[c].at = "returned" => Known(caller[c].id)

(* Only a pending request is held by the queue or by a thread that has yet *)
(* to follow its stage up, and one of the two holds it, once.              *)
HoldInv ==
  /\ \A p \in queue : Pending(p[1])
  /\ \A e \in Executors : Following(e) => Pending(observer[e].id)
  /\ \A p, q \in queue : p[1] = q[1] => p = q
  /\ \A e \in Executors, p \in queue : Following(e) => observer[e].id # p[1]
  /\ \A e, f \in Executors :
       Following(e) /\ Following(f) /\ observer[e].id = observer[f].id => e = f
  /\ \A id \in Ids : Pending(id) =>
       \/ \E p \in queue : p[1] = id
       \/ \E e \in Executors : Following(e) /\ observer[e].id = id

(* Neither the job table nor an update of it that is still to come is      *)
(* ahead of the stage in flight.                                           *)
StageInv ==
  /\ \A p \in queue :
       /\ jobs[p[1]].stage <= p[2]
       /\ \A f \in Executors : observer[f].at = "record" /\ observer[f].id = p[1]
                                 => observer[f].stage < p[2]
  /\ \A e \in Executors : Following(e) =>
       /\ jobs[observer[e].id].stage <= observer[e].stage
       /\ \A f \in Executors : observer[f].at = "record" /\ observer[f].id = observer[e].id
                                 => observer[f].stage < observer[e].stage

(* Updates are for requests whose first stage has been submitted.          *)
RecordInv == \A e \in Executors : observer[e].at = "record" => Submitted(observer[e].id)

(* What is submitted and not completed is queued or being observed.        *)
LedgerInv ==
  /\ ledger.submitted = ledger.completed + Cardinality(queue) + Cardinality(Busy)
  /\ completed = Cardinality(DoneIds)

ManagerInv ==
  /\ ManagerTypeOK
  /\ IdsInv /\ CallerInv /\ HoldInv /\ StageInv /\ RecordInv /\ LedgerInv

(* Only a connection thread in POST /infer is in submit().                 *)
ConnInv == \A c \in Callers : caller[c].at # "out" => conn[c] = "submit"

(* The order of stop(): no new connections, then the accept thread, then   *)
(* the connection threads, then the Runtime.                               *)
StopInv ==
  /\ main # "serve" => ~running
  /\ main \in {"join threads", "stop node", "join workers", "exit"} => acceptor.at = "exit"
  /\ main \in {"stop node", "join workers", "exit"} =>
       \A c \in Callers : conn[c] \in {"away", "closed"}
  /\ \A c \in Callers : conn[c] = "accepted" <=> acceptor.at = "spawn" /\ c \in acceptor.conn

(* The serve threads are joined before the workers are told to leave, and  *)
(* a worker leaves between two stages.                                     *)
WorkerInv ==
  /\ main \in {"join workers", "exit"} =>
       \A e \in Executors \ Workers : observer[e] = NoStage
  /\ \A w \in Workers : look[w].at # "loop" => observer[w] = NoStage
  /\ main = "exit" => \A w \in Workers : look[w].at = "left"
  /\ main \notin {"join workers", "exit"} => away = {}

IInv == TypeOK /\ ManagerInv /\ ConnInv /\ StopInv /\ WorkerInv

----------------------------------------------------------------------------
(* What the type of the manager's state says of its fields.                *)
LEMMA ManagerFields ==
  ASSUME ManagerTypeOK
  PROVE  /\ \A id \in Ids : jobs[id] # NoJob => jobs[id] \in JobStatus
         /\ \A id \in Ids : jobs[id] # NoJob =>
              /\ jobs[id].state \in {"Running", "Done"}
              /\ jobs[id].stage \in Stages
         /\ \A c \in Callers :
              /\ caller[c].at \in {"out", "insert", "stage", "returned"}
              /\ caller[c].at # "out" => caller[c].id \in Ids
              /\ caller[c].at = "out" => caller[c] = OutsideSubmit
              /\ caller[c] = [at |-> caller[c].at, id |-> caller[c].id]
         /\ \A e \in Executors :
              /\ observer[e].at \in {"idle", "advance", "record", "last"}
              /\ observer[e].at # "idle" => observer[e].id \in Ids
              /\ observer[e].at = "idle" => observer[e] = NoStage
              /\ observer[e].at \in {"advance", "record"} => observer[e].stage \in Decode .. Infer
              /\ observer[e].at = "last" => observer[e].stage = Postprocess
              /\ observer[e].stage \in Stages
              /\ observer[e] = [at |-> observer[e].at, id |-> observer[e].id,
                                stage |-> observer[e].stage]
         /\ \A p \in queue : p[1] \in Ids /\ p[2] \in Stages /\ p = <<p[1], p[2]>>
<1>1. \A id \in Ids : jobs[id] # NoJob => jobs[id] \in JobStatus
  BY DEF ManagerTypeOK
<1>2. \A id \in Ids : jobs[id] # NoJob =>
              /\ jobs[id].state \in {"Running", "Done"}
              /\ jobs[id].stage \in Stages
  BY <1>1 DEF JobStatus
<1>3. ASSUME NEW c \in Callers
      PROVE  /\ caller[c].at \in {"out", "insert", "stage", "returned"}
             /\ caller[c].at # "out" => caller[c].id \in Ids
             /\ caller[c].at = "out" => caller[c] = OutsideSubmit
             /\ caller[c] = [at |-> caller[c].at, id |-> caller[c].id]
  <2>1. caller[c] \in {OutsideSubmit} \cup [at : {"insert", "stage", "returned"}, id : Ids]
    BY DEF ManagerTypeOK
  <2> QED
    BY <2>1 DEF OutsideSubmit
<1>4. ASSUME NEW e \in Executors
      PROVE   /\ observer[e].at \in {"idle", "advance", "record", "last"}
              /\ observer[e].at # "idle" => observer[e].id \in Ids
              /\ observer[e].at = "idle" => observer[e] = NoStage
              /\ observer[e].at \in {"advance", "record"} => observer[e].stage \in Decode .. Infer
              /\ observer[e].at = "last" => observer[e].stage = Postprocess
              /\ observer[e].stage \in Stages
              /\ observer[e] = [at |-> observer[e].at, id |-> observer[e].id,
                                stage |-> observer[e].stage]
  <2>1. observer[e] \in {NoStage}
                   \cup [at : {"advance", "record"}, id : Ids, stage : Decode .. Infer]
                   \cup [at : {"last"}, id : Ids, stage : {Postprocess}]
    BY DEF ManagerTypeOK
  <2>2. CASE observer[e] = NoStage
    BY <2>2 DEF NoStage, Stages, Decode, Postprocess
  <2>3. CASE observer[e] \in [at : {"advance", "record"}, id : Ids, stage : Decode .. Infer]
    BY <2>3 DEF Stages, Decode, Infer, Postprocess
  <2>4. CASE observer[e] \in [at : {"last"}, id : Ids, stage : {Postprocess}]
    BY <2>4 DEF Stages, Decode, Postprocess
  <2> QED
    BY <2>1, <2>2, <2>3, <2>4
<1>5. \A p \in queue : p[1] \in Ids /\ p[2] \in Stages /\ p = <<p[1], p[2]>>
  BY DEF ManagerTypeOK
<1> QED
  BY <1>1, <1>2, <1>3, <1>4, <1>5

(* The queue, the busy executors and the served requests are finite sets.  *)
LEMMA Finite ==
  ASSUME ManagerTypeOK
  PROVE  /\ IsFiniteSet(queue) /\ Cardinality(queue) \in Nat
         /\ IsFiniteSet(Busy) /\ Cardinality(Busy) \in Nat
         /\ IsFiniteSet(DoneIds) /\ Cardinality(DoneIds) \in 0 .. MaxRequests
<1>1. IsFiniteSet(Ids) /\ Cardinality(Ids) = MaxRequests
  <2>1. IsFiniteSet(1 .. MaxRequests) /\ Cardinality(1 .. MaxRequests) = MaxRequests
    BY JobManagerAssumption, FS_Interval
  <2> QED
    BY <2>1 DEF Ids
<1>2. IsFiniteSet(Stages)
  <2>1. IsFiniteSet(0 .. 3)
    BY FS_Interval, 0 \in Int, 3 \in Int
  <2> QED
    BY <2>1 DEF Stages, Decode, Postprocess
<1>3. IsFiniteSet(queue)
  BY <1>1, <1>2, FS_Product, FS_Subset DEF ManagerTypeOK
<1>4. IsFiniteSet(Busy)
  <2>1. Busy \subseteq Executors
    BY DEF Busy
  <2> QED
    BY <2>1, JobManagerAssumption, FS_Subset
<1>5. IsFiniteSet(DoneIds) /\ Cardinality(DoneIds) <= MaxRequests
  <2>1. DoneIds \subseteq Ids
    BY DEF DoneIds
  <2> QED
    BY <2>1, <1>1, FS_Subset
<1> QED
  BY <1>3, <1>4, <1>5, FS_CardinalityType

(* The manager's part of the initial state.                                *)
LEMMA ManagerInitInv == ManagerInit => ManagerInv
<1> SUFFICES ASSUME ManagerInit PROVE ManagerInv
  OBVIOUS
<1> USE JobManagerAssumption
<1>1. ManagerTypeOK
  BY DEF ManagerInit, ManagerTypeOK, Ids, OutsideSubmit, NoStage
<1>2. /\ \A id \in Ids : ~Known(id) /\ ~IsDone(id)
      /\ \A c \in Callers : caller[c].at = "out"
      /\ \A e \in Executors : observer[e].at = "idle"
      /\ queue = {}
  BY DEF ManagerInit, Known, IsDone, OutsideSubmit, NoStage
<1>3. IdsInv /\ CallerInv /\ HoldInv /\ StageInv /\ RecordInv
  BY <1>2 DEF IdsInv, CallerInv, HoldInv, StageInv, RecordInv, Following, Pending
<1>4. Busy = {} /\ DoneIds = {}
  BY <1>2 DEF Busy, DoneIds
<1>5. LedgerInv
  BY <1>2, <1>4, FS_EmptySet DEF LedgerInv, ManagerInit
<1> QED
  BY <1>1, <1>3, <1>5 DEF ManagerInv

----------------------------------------------------------------------------
(* submit().                                                               *)

(* The parts of the invariant about the stages in flight depend on the     *)
(* queue, the observers, the pending requests and the table's stages only. *)
LEMMA HoldSame ==
  ASSUME ManagerInv, UNCHANGED <<queue, observer>>,
         \A id \in Ids : Pending(id) <=> Pending(id)',
         \A id \in Ids : Pending(id) => jobs'[id].stage = jobs[id].stage,
         \A id \in Ids : Submitted(id) => Submitted(id)'
  PROVE  HoldInv' /\ StageInv' /\ RecordInv'
<1>1. /\ \A p \in queue : p[1] \in Ids
      /\ \A e \in Executors : observer[e].at # "idle" => observer[e].id \in Ids
  BY ManagerFields DEF ManagerInv
<1>2. HoldInv'
  BY <1>1 DEF ManagerInv, HoldInv, Following
<1>3. StageInv'
  BY <1>1 DEF ManagerInv, HoldInv, StageInv, Following
<1>4. RecordInv'
  BY <1>1 DEF ManagerInv, RecordInv
<1> QED
  BY <1>2, <1>3, <1>4

(* submit() draws a fresh id: the job exists nowhere yet.                  *)
LEMMA SubmitAllocateInv ==
  ASSUME ManagerInv, NEW c \in Callers, SubmitAllocate(c)
  PROVE  ManagerInv'
<1> USE DEF ManagerInv
<1>1. PICK n \in Ids : n = next_request_id
  BY DEF SubmitAllocate
<1>2. /\ caller' = [caller EXCEPT ![c] = [at |-> "insert", id |-> n]]
      /\ caller'[c] = [at |-> "insert", id |-> n]
      /\ \A d \in Callers \ {c} : caller'[d] = caller[d]
      /\ caller[c].at = "out" /\ next_request_id' = n + 1
      /\ UNCHANGED <<jobs, completed, queue, ledger, observer>>
  BY <1>1 DEF SubmitAllocate, ManagerTypeOK
<1>3. ManagerTypeOK'
  <2>1. caller' \in [Callers -> {OutsideSubmit}
                   \cup [at : {"insert", "stage", "returned"}, id : Ids]]
    BY <1>2 DEF ManagerTypeOK
  <2>2. next_request_id' \in 1 .. MaxRequests + 1
    BY <1>2, JobManagerAssumption DEF Ids
  <2> QED
    BY <1>2, <2>1, <2>2 DEF ManagerTypeOK
<1>4. ~Known(n)
  BY <1>1 DEF IdsInv, Ids
<1>5. \A id : (Known(id)' <=> Known(id)) /\ (IsDone(id)' <=> IsDone(id))
  BY <1>2 DEF Known, IsDone
<1>6. \A id \in Ids : id # n => (InSubmit(id)' <=> InSubmit(id))
  BY <1>2 DEF InSubmit
<1>7. \A id \in Ids : /\ Pending(id)' <=> Pending(id)
                      /\ Submitted(id)' <=> Submitted(id)
  BY <1>4, <1>5, <1>6 DEF Pending, Submitted
<1>8. IdsInv'
  <2>1. \A d \in Callers \ {c} : caller[d].at # "out" => caller[d].id \in Ids /\ caller[d].id < n
    BY <1>1, ManagerFields DEF IdsInv
  <2> QED
    BY <1>1, <1>2, <1>5, <2>1 DEF IdsInv, Ids
<1>9. CallerInv'
  BY <1>2, <1>4, <1>5 DEF CallerInv
<1>10. HoldInv' /\ StageInv' /\ RecordInv'
  BY <1>2, <1>7, HoldSame
<1>11. LedgerInv'
  <2>1. DoneIds' = DoneIds /\ Busy' = Busy
    BY <1>2, <1>5 DEF DoneIds, Busy
  <2> QED
    BY <1>2, <2>1 DEF LedgerInv
<1> QED
  BY <1>3, <1>8, <1>9, <1>10, <1>11

(* submit() enters the job in jobs_, Running at Decode.                    *)
LEMMA SubmitInsertInv ==
  ASSUME ManagerInv, NEW c \in Callers, SubmitInsert(c)
  PROVE  ManagerInv'
<1> USE DEF ManagerInv
<1> DEFINE j == [state |-> "Running", stage |-> Decode]
<1>1. PICK n \in Ids : n = caller[c].id
  BY ManagerFields DEF SubmitInsert
<1>2. /\ caller[c].at = "insert" /\ ~Known(n)
      /\ j \in JobStatus /\ j # NoJob
  BY <1>1, JobManagerAssumption
     DEF SubmitInsert, CallerInv, JobStatus, Stages, Decode, Postprocess
<1>3. /\ caller' = [caller EXCEPT ![c] = [at |-> "stage", id |-> n]]
      /\ caller'[c] = [at |-> "stage", id |-> n]
      /\ \A d \in Callers \ {c} : caller'[d] = caller[d]
      /\ jobs' = [jobs EXCEPT ![n] = j]
      /\ jobs'[n] = j
      /\ \A id \in Ids \ {n} : jobs'[id] = jobs[id]
      /\ UNCHANGED <<next_request_id, completed, queue, ledger, observer>>
  <2>1. caller[c] = [at |-> "insert", id |-> n]
    BY <1>1, <1>2, ManagerFields
  <2>2. [caller[c] EXCEPT !.at = "stage"] = [at |-> "stage", id |-> n]
    BY <2>1
  <2>3. caller' = [caller EXCEPT ![c] = [at |-> "stage", id |-> n]]
    BY <2>2 DEF SubmitInsert
  <2>4. jobs' = [jobs EXCEPT ![n] = j]
    BY <1>1 DEF SubmitInsert
  <2> QED
    BY <2>3, <2>4 DEF SubmitInsert, ManagerTypeOK
<1>4. ManagerTypeOK'
  <2>1. jobs' \in [Ids -> {NoJob} \cup JobStatus]
    BY <1>2, <1>3 DEF ManagerTypeOK
  <2>2. caller' \in [Callers -> {OutsideSubmit}
                   \cup [at : {"insert", "stage", "returned"}, id : Ids]]
    BY <1>3 DEF ManagerTypeOK
  <2> QED
    BY <1>3, <2>1, <2>2 DEF ManagerTypeOK
<1>5. /\ Known(n)' /\ ~IsDone(n)' /\ InSubmit(n)' /\ InSubmit(n)
      /\ \A id \in Ids \ {n} : /\ Known(id)' <=> Known(id)
                               /\ IsDone(id)' <=> IsDone(id)
                               /\ InSubmit(id)' <=> InSubmit(id)
  <2>1. Known(n)' /\ ~IsDone(n)'
    BY <1>2, <1>3 DEF Known, IsDone
  <2>2. \A id \in Ids \ {n} : (Known(id)' <=> Known(id)) /\ (IsDone(id)' <=> IsDone(id))
    BY <1>3 DEF Known, IsDone
  <2>3. InSubmit(n)' /\ InSubmit(n)
    BY <1>1, <1>2, <1>3 DEF InSubmit
  <2>4. \A id \in Ids \ {n} : InSubmit(id)' <=> InSubmit(id)
    BY <1>1, <1>3 DEF InSubmit
  <2> QED
    BY <2>1, <2>2, <2>3, <2>4
<1>6. \A id \in Ids : Pending(id)' <=> Pending(id)
  BY <1>5 DEF Pending
<1>7. IdsInv'
  <2>1. n < next_request_id
    BY <1>1, <1>2 DEF IdsInv
  <2>2. \A id \in Ids : Known(id)' => id < next_request_id
    BY <1>5, <2>1 DEF IdsInv
  <2> QED
    BY <1>1, <1>2, <1>3, <2>2 DEF IdsInv
<1>8. CallerInv'
  <2> SUFFICES ASSUME NEW d \in Callers PROVE CallerInv!(d)'
    BY DEF CallerInv
  <2>1. CASE d = c
    BY <2>1, <1>3, <1>5
  <2>2. CASE d # c /\ caller[d].at # "out"
    <3>1. caller[d].id \in Ids \ {n} /\ caller'[d] = caller[d]
      BY <2>2, <1>1, <1>2, <1>3, ManagerFields DEF IdsInv
    <3> QED
      BY <3>1, <1>3, <1>5 DEF CallerInv
  <2>3. CASE d # c /\ caller[d].at = "out"
    BY <2>3, <1>3
  <2> QED
    BY <2>1, <2>2, <2>3
<1>9. HoldInv' /\ StageInv' /\ RecordInv'
  <2>1. \A id \in Ids : Pending(id) => jobs'[id].stage = jobs[id].stage
    BY <1>2, <1>3 DEF Pending
  <2>2. \A id \in Ids : Submitted(id) => Submitted(id)'
    BY <1>5 DEF Submitted
  <2> QED
    BY <1>3, <1>6, <2>1, <2>2, HoldSame
<1>10. LedgerInv'
  <2>1. DoneIds' = DoneIds /\ Busy' = Busy
    BY <1>2, <1>3, <1>5 DEF DoneIds, IsDone, Busy
  <2> QED
    BY <1>3, <2>1 DEF LedgerInv
<1> QED
  BY <1>4, <1>7, <1>8, <1>9, <1>10

(* submit() queues Decode, the job's one stage in flight from now on.      *)
LEMMA SubmitFirstStageInv ==
  ASSUME ManagerInv, NEW c \in Callers, SubmitFirstStage(c)
  PROVE  ManagerInv'
<1> USE DEF ManagerInv
<1>1. PICK n \in Ids : n = caller[c].id
  BY ManagerFields DEF SubmitFirstStage
<1>2. /\ caller[c].at = "stage" /\ Known(n) /\ ~IsDone(n) /\ jobs[n].stage = Decode
      /\ InSubmit(n)
  BY <1>1 DEF SubmitFirstStage, CallerInv, InSubmit
<1>3. caller' = [caller EXCEPT ![c] = [at |-> "returned", id |-> n]]
  <2>1. caller[c] = [at |-> "stage", id |-> n]
    BY <1>1, <1>2, ManagerFields
  <2>2. [caller[c] EXCEPT !.at = "returned"] = [at |-> "returned", id |-> n]
    BY <2>1
  <2> QED
    BY <2>2 DEF SubmitFirstStage
<1>4. /\ caller'[c] = [at |-> "returned", id |-> n]
      /\ \A d \in Callers \ {c} : caller'[d] = caller[d]
      /\ queue' = queue \cup {<<n, Decode>>}
      /\ ledger' = [ledger EXCEPT !.submitted = @ + 1]
      /\ UNCHANGED <<next_request_id, jobs, completed, observer>>
  BY <1>1, <1>3 DEF SubmitFirstStage, SubmitStage, ManagerTypeOK
<1>5. ManagerTypeOK'
  <2>1. queue' \subseteq Ids \X Stages
    BY <1>4 DEF ManagerTypeOK, Stages, Decode, Postprocess
  <2>2. caller' \in [Callers -> {OutsideSubmit}
                   \cup [at : {"insert", "stage", "returned"}, id : Ids]]
    BY <1>3 DEF ManagerTypeOK
  <2>3. ledger' \in [submitted : Nat, completed : Nat]
    BY <1>4 DEF ManagerTypeOK
  <2> QED
    BY <1>4, <2>1, <2>2, <2>3 DEF ManagerTypeOK
<1>6. \A id : (Known(id)' <=> Known(id)) /\ (IsDone(id)' <=> IsDone(id))
  BY <1>4 DEF Known, IsDone
<1>7. /\ ~InSubmit(n)'
      /\ \A id \in Ids \ {n} : InSubmit(id)' <=> InSubmit(id)
  <2>1. \A d \in Callers \ {c} : caller[d].at # "out" => caller[d].id # n
    BY <1>1, <1>2 DEF IdsInv
  <2>2. ~InSubmit(n)'
    BY <1>4, <2>1 DEF InSubmit
  <2>3. \A id \in Ids \ {n} : InSubmit(id)' <=> InSubmit(id)
    BY <1>1, <1>4 DEF InSubmit
  <2> QED
    BY <2>2, <2>3
<1>8. /\ ~Pending(n) /\ Pending(n)' /\ ~Submitted(n)
      /\ \A id \in Ids \ {n} : Pending(id)' <=> Pending(id)
      /\ \A id \in Ids : Submitted(id) => Submitted(id)'
  BY <1>2, <1>6, <1>7 DEF Pending, Submitted
<1>9. IdsInv' /\ CallerInv'
  <2>1. IdsInv'
    BY <1>1, <1>2, <1>4, <1>6 DEF IdsInv
  <2>2. CallerInv'
    BY <1>2, <1>4, <1>6 DEF CallerInv
  <2> QED
    BY <2>1, <2>2
<1>10. /\ \A p \in queue : p[1] \in Ids \ {n}
       /\ \A e \in Executors : observer[e].at # "idle" => observer[e].id \in Ids \ {n}
  <2>1. \A p \in queue : p[1] \in Ids \ {n}
    BY <1>8, ManagerFields DEF HoldInv
  <2>2. ASSUME NEW e \in Executors, observer[e].at # "idle"
        PROVE  observer[e].id \in Ids \ {n}
    <3>1. observer[e].id \in Ids /\ observer[e].at \in {"advance", "record", "last"}
      BY <2>2, ManagerFields
    <3>2. observer[e].id # n
      BY <1>8, <3>1 DEF HoldInv, RecordInv, Following
    <3> QED
      BY <3>1, <3>2
  <2> QED
    BY <2>1, <2>2
<1>11. HoldInv'
  <2> USE <1>4, <1>8, <1>10 DEF HoldInv, Following
  <2>0. <<n, Decode>>[1] = n
    OBVIOUS
  <2>1. \A p \in queue' : Pending(p[1])'
    BY <2>0
  <2>2. \A e \in Executors : Following(e)' => Pending(observer[e].id)'
    OBVIOUS
  <2>3. \A p, q \in queue' : p[1] = q[1] => p = q
    BY <2>0
  <2>4. \A e \in Executors, p \in queue' : Following(e)' => observer'[e].id # p[1]
    BY <2>0
  <2>5. \A id \in Ids : Pending(id)' =>
       \/ \E p \in queue' : p[1] = id
       \/ \E e \in Executors : Following(e)' /\ observer'[e].id = id
    BY <2>0
  <2> QED
    BY <2>1, <2>2, <2>3, <2>4, <2>5
<1>12. StageInv'
  <2>1. <<n, Decode>>[1] = n /\ <<n, Decode>>[2] = Decode
    OBVIOUS
  <2>2. \A p \in queue' :
       /\ jobs'[p[1]].stage <= p[2]
       /\ \A f \in Executors : observer'[f].at = "record" /\ observer'[f].id = p[1]
                                 => observer'[f].stage < p[2]
    BY <1>2, <1>4, <1>10, <2>1 DEF StageInv, Decode
  <2> QED
    BY <1>4, <2>2 DEF StageInv, Following
<1>13. RecordInv'
  BY <1>4, <1>8, <1>10 DEF RecordInv
<1>14. LedgerInv'
  <2>1. DoneIds' = DoneIds /\ Busy' = Busy
    BY <1>4, <1>6 DEF DoneIds, Busy
  <2>2. <<n, Decode>> \notin queue
    BY <1>10
  <2>3. Cardinality(queue') = Cardinality(queue) + 1
    BY <1>4, <2>2, Finite, FS_AddElement
  <2> QED
    BY <1>4, <2>1, <2>3, Finite DEF LedgerInv, ManagerTypeOK
<1> QED
  BY <1>5, <1>9, <1>11, <1>12, <1>13, <1>14

(* The end of submit(): the handler takes the id.                          *)
SubmitReturn(c) ==
  /\ caller[c].at = "returned"
  /\ caller' = [caller EXCEPT ![c] = OutsideSubmit]
  /\ UNCHANGED <<next_request_id, jobs, completed, queue, ledger, observer>>

(* submit() has returned and its caller forgets the id.                    *)
LEMMA SubmitReturnInv ==
  ASSUME ManagerInv, NEW c \in Callers, SubmitReturn(c)
  PROVE  ManagerInv'
<1> USE DEF ManagerInv
<1>1. /\ caller'[c].at = "out" /\ caller[c].at = "returned"
      /\ \A d \in Callers \ {c} : caller'[d] = caller[d]
      /\ UNCHANGED <<next_request_id, jobs, completed, queue, ledger, observer>>
  BY DEF SubmitReturn, ManagerTypeOK, OutsideSubmit
<1>2. ManagerTypeOK'
  BY DEF ManagerTypeOK, SubmitReturn
<1>3. \A id : (Known(id)' <=> Known(id)) /\ (IsDone(id)' <=> IsDone(id))
  BY <1>1 DEF Known, IsDone
<1>4. \A id : InSubmit(id)' <=> InSubmit(id)
  BY <1>1 DEF InSubmit
<1>5. \A id : (Pending(id)' <=> Pending(id)) /\ (Submitted(id)' <=> Submitted(id))
  BY <1>3, <1>4 DEF Pending, Submitted
<1>6. IdsInv' /\ CallerInv'
  BY <1>1, <1>3 DEF IdsInv, CallerInv
<1>7. HoldInv' /\ StageInv' /\ RecordInv'
  BY <1>1, <1>5, HoldSame
<1>8. LedgerInv'
  <2>1. DoneIds' = DoneIds /\ Busy' = Busy
    BY <1>1, <1>3 DEF DoneIds, Busy
  <2> QED
    BY <1>1, <2>1 DEF LedgerInv
<1> QED
  BY <1>2, <1>6, <1>7, <1>8

----------------------------------------------------------------------------
(* on_stage_done().                                                        *)

(* An executor takes a stage from the queue: the same stage, still one.    *)
LEMMA StageDoneInv ==
  ASSUME ManagerInv, NEW e \in Executors, NEW p \in queue, StageDone(e, p[1], p[2])
  PROVE  ManagerInv'
<1> USE DEF ManagerInv
<1> DEFINE at == IF p[2] = Postprocess THEN "last" ELSE "advance"
           o == [at |-> at, id |-> p[1], stage |-> p[2]]
<1>1. p[1] \in Ids /\ p[2] \in Stages /\ p = <<p[1], p[2]>>
  BY ManagerFields
<1>2. /\ observer[e].at = "idle"
      /\ observer' = [observer EXCEPT ![e] = o]
      /\ observer'[e] = o
      /\ \A f \in Executors \ {e} : observer'[f] = observer[f]
      /\ queue' = queue \ {p}
      /\ UNCHANGED <<next_request_id, jobs, completed, ledger, caller>>
  BY <1>1 DEF StageDone, ManagerTypeOK, NoStage
<1>3. ManagerTypeOK'
  <2>1. o \in [at : {"advance", "record"}, id : Ids, stage : Decode .. Infer]
                   \cup [at : {"last"}, id : Ids, stage : {Postprocess}]
    BY <1>1 DEF Stages, Decode, Infer, Postprocess
  <2>2. observer' \in [Executors -> {NoStage}
                   \cup [at : {"advance", "record"}, id : Ids, stage : Decode .. Infer]
                   \cup [at : {"last"}, id : Ids, stage : {Postprocess}]]
    BY <1>2, <2>1 DEF ManagerTypeOK
  <2> QED
    BY <1>2, <2>2 DEF ManagerTypeOK
<1>4. \A id : /\ Known(id)' <=> Known(id)
              /\ IsDone(id)' <=> IsDone(id)
              /\ Pending(id)' <=> Pending(id)
              /\ Submitted(id)' <=> Submitted(id)
  BY <1>2 DEF Known, IsDone, InSubmit, Pending, Submitted
<1>5. IdsInv' /\ CallerInv'
  BY <1>2, <1>4 DEF IdsInv, CallerInv
<1>6. /\ observer'[e].id = p[1] /\ observer'[e].stage = p[2]
      /\ observer'[e].at \in {"advance", "last"} /\ observer'[e].at # "record"
  BY <1>2
<1> HIDE DEF o, at
<1>7. HoldInv'
  <2> USE <1>2, <1>4, <1>6 DEF HoldInv, Following
  <2>1. \A q \in queue' : Pending(q[1])'
    OBVIOUS
  <2>2. \A f \in Executors : Following(f)' => Pending(observer[f].id)'
    OBVIOUS
  <2>3. \A q, r \in queue' : q[1] = r[1] => q = r
    OBVIOUS
  <2>4. \A f \in Executors, q \in queue' : Following(f)' => observer'[f].id # q[1]
    OBVIOUS
  <2>5. \A f, g \in Executors :
          Following(f)' /\ Following(g)' /\ observer'[f].id = observer'[g].id => f = g
    OBVIOUS
  <2>6. ASSUME NEW id \in Ids, Pending(id)'
        PROVE  \/ \E q \in queue' : q[1] = id
               \/ \E f \in Executors : Following(f)' /\ observer'[f].id = id
    <3>1. CASE id = p[1]
      BY <3>1
    <3>2. CASE id # p[1]
      BY <2>6, <3>2
    <3> QED
      BY <3>1, <3>2
  <2> QED
    BY <2>1, <2>2, <2>3, <2>4, <2>5, <2>6
<1>8. StageInv' /\ RecordInv'
  <2>1. StageInv'
    BY <1>2, <1>6 DEF StageInv, Following
  <2>2. RecordInv'
    BY <1>2, <1>4, <1>6 DEF RecordInv
  <2> QED
    BY <2>1, <2>2
<1>9. LedgerInv'
  <2>1. DoneIds' = DoneIds
    BY <1>4 DEF DoneIds
  <2>2. Busy' = Busy \cup {e} /\ e \notin Busy
    BY <1>2, <1>6 DEF Busy
  <2>3. Cardinality(Busy') = Cardinality(Busy) + 1
    BY <2>2, Finite, FS_AddElement
  <2>4. Cardinality(queue') = Cardinality(queue) - 1
    BY <1>2, Finite, FS_RemoveElement
  <2> QED
    BY <1>2, <2>1, <2>3, <2>4, Finite DEF LedgerInv, ManagerTypeOK
<1> QED
  BY <1>3, <1>5, <1>7, <1>8, <1>9

(* The observer queues the next stage before the executor lets go of its   *)
(* own: the job stays with one unfinished stage, one further on.           *)
LEMMA AdvanceStageInv ==
  ASSUME ManagerInv, NEW e \in Executors, AdvanceStage(e)
  PROVE  ManagerInv'
<1> USE DEF ManagerInv
<1>1. PICK n \in Ids, s \in Decode .. Infer :
        observer[e] = [at |-> "advance", id |-> n, stage |-> s]
  BY ManagerFields DEF AdvanceStage
<1>2. observer' = [observer EXCEPT ![e] = [at |-> "record", id |-> n, stage |-> s]]
  <2>1. [observer[e] EXCEPT !.at = "record"] = [at |-> "record", id |-> n, stage |-> s]
    BY <1>1
  <2> QED
    BY <2>1 DEF AdvanceStage
<1>3. s \in Int /\ s + 1 \in Stages
  BY DEF Stages, Decode, Infer, Postprocess
<1> DEFINE r == <<n, s + 1>>
<1>4. r = <<n, s + 1>> /\ r[1] = n /\ r[2] = s + 1
  OBVIOUS
<1> HIDE DEF r
<1>5. /\ observer'[e] = [at |-> "record", id |-> n, stage |-> s]
      /\ \A f \in Executors \ {e} : observer'[f] = observer[f]
      /\ queue' = queue \cup {r}
      /\ ledger' = [ledger EXCEPT !.submitted = @ + 1]
      /\ UNCHANGED <<next_request_id, jobs, completed, caller>>
  BY <1>1, <1>2, <1>4 DEF AdvanceStage, SubmitStage, ManagerTypeOK
<1>6. ManagerTypeOK'
  <2>1. observer' \in [Executors -> {NoStage}
                   \cup [at : {"advance", "record"}, id : Ids, stage : Decode .. Infer]
                   \cup [at : {"last"}, id : Ids, stage : {Postprocess}]]
    BY <1>2 DEF ManagerTypeOK
  <2>2. queue' \subseteq Ids \X Stages
    BY <1>3, <1>4, <1>5 DEF ManagerTypeOK
  <2>3. ledger' \in [submitted : Nat, completed : Nat]
    BY <1>5 DEF ManagerTypeOK
  <2> QED
    BY <1>5, <2>1, <2>2, <2>3 DEF ManagerTypeOK
<1>7. \A id : /\ Known(id)' <=> Known(id)
              /\ IsDone(id)' <=> IsDone(id)
              /\ Pending(id)' <=> Pending(id)
              /\ Submitted(id)' <=> Submitted(id)
  BY <1>5 DEF Known, IsDone, InSubmit, Pending, Submitted
<1>8. IdsInv' /\ CallerInv'
  BY <1>5, <1>7 DEF IdsInv, CallerInv
<1>9. /\ Following(e) /\ Pending(n) /\ Submitted(n)
      /\ \A q \in queue : q[1] # n
      /\ \A f \in Executors \ {e} : Following(f) => observer[f].id # n
  BY <1>1 DEF HoldInv, Following, Pending, Submitted
<1>10. /\ observer'[e].at = "record" /\ observer'[e].id = n /\ observer'[e].stage = s
       /\ observer[e].at = "advance" /\ observer[e].id = n /\ observer[e].stage = s
  BY <1>1, <1>5
<1>11. HoldInv'
  <2> USE <1>4, <1>5, <1>7, <1>9, <1>10 DEF HoldInv, Following
  <2>1. \A q \in queue' : Pending(q[1])'
    OBVIOUS
  <2>2. \A f \in Executors : Following(f)' => Pending(observer[f].id)'
    OBVIOUS
  <2>3. \A p, q \in queue' : p[1] = q[1] => p = q
    OBVIOUS
  <2>4. \A f \in Executors, q \in queue' : Following(f)' => observer'[f].id # q[1]
    OBVIOUS
  <2>5. \A f, g \in Executors :
          Following(f)' /\ Following(g)' /\ observer'[f].id = observer'[g].id => f = g
    OBVIOUS
  <2>6. ASSUME NEW id \in Ids, Pending(id)'
        PROVE  \/ \E q \in queue' : q[1] = id
               \/ \E f \in Executors : Following(f)' /\ observer'[f].id = id
    <3>1. CASE id = n
      BY <3>1
    <3>2. CASE id # n
      BY <2>6, <3>2
    <3> QED
      BY <3>1, <3>2
  <2> QED
    BY <2>1, <2>2, <2>3, <2>4, <2>5, <2>6
<1>12. StageInv'
  <2>1. ASSUME NEW q \in queue'
        PROVE  /\ jobs'[q[1]].stage <= q[2]
               /\ \A f \in Executors : observer'[f].at = "record" /\ observer'[f].id = q[1]
                                         => observer'[f].stage < q[2]
    <3>1. CASE q \in queue
      BY <3>1, <1>5, <1>9, <1>10 DEF StageInv
    <3>2. CASE q = r
      <4>1. jobs[n].stage \in Int
        <5>1. jobs[n].stage \in Stages
          BY <1>9, ManagerFields DEF Pending, Known
        <5> QED
          BY <5>1 DEF Stages, Decode, Postprocess
      <4>2. \A f \in Executors : observer[f].stage \in Int
        <5>1. \A f \in Executors : observer[f].stage \in Stages
          BY ManagerFields
        <5> QED
          BY <5>1 DEF Stages, Decode, Postprocess
      <4>3. jobs[n].stage <= s
        BY <1>9, <1>10 DEF StageInv
      <4>4. \A f \in Executors : observer[f].at = "record" /\ observer[f].id = n
                                   => observer[f].stage < s
        BY <1>9, <1>10 DEF StageInv
      <4> QED
        BY <3>2, <1>3, <1>4, <1>5, <1>10, <4>1, <4>2, <4>3, <4>4
    <3> QED
      BY <3>1, <3>2, <1>5
  <2>2. ASSUME NEW f \in Executors, Following(f)'
        PROVE  /\ jobs'[observer'[f].id].stage <= observer'[f].stage
               /\ \A g \in Executors : observer'[g].at = "record" /\ observer'[g].id = observer'[f].id
                                         => observer'[g].stage < observer'[f].stage
    <3>1. f # e /\ observer'[f] = observer[f] /\ Following(f) /\ observer[f].id # n
      BY <2>2, <1>5, <1>9, <1>10 DEF Following
    <3> QED
      BY <3>1, <1>5, <1>10 DEF StageInv
  <2> QED
    BY <2>1, <2>2 DEF StageInv
<1>13. RecordInv'
  BY <1>5, <1>7, <1>9, <1>10 DEF RecordInv
<1>14. LedgerInv'
  <2>1. DoneIds' = DoneIds
    BY <1>7 DEF DoneIds
  <2>2. Busy' = Busy
    BY <1>5, <1>10 DEF Busy
  <2>3. Cardinality(queue') = Cardinality(queue) + 1
    BY <1>4, <1>5, <1>9, Finite, FS_AddElement
  <2> QED
    BY <1>5, <2>1, <2>2, <2>3, Finite DEF LedgerInv, ManagerTypeOK
<1> QED
  BY <1>6, <1>8, <1>11, <1>12, <1>13, <1>14

(* The end of on_stage_done(): the executor is free and the stage counted. *)
LEMMA FinishLedger ==
  ASSUME ManagerInv, NEW e \in Executors, observer[e].at # "idle", FinishStage(e),
         UNCHANGED queue
  PROVE  /\ observer'[e] = NoStage
         /\ \A f \in Executors \ {e} : observer'[f] = observer[f]
         /\ observer' \in [Executors -> {NoStage}
                   \cup [at : {"advance", "record"}, id : Ids, stage : Decode .. Infer]
                   \cup [at : {"last"}, id : Ids, stage : {Postprocess}]]
         /\ ledger' \in [submitted : Nat, completed : Nat]
         /\ ledger'.submitted = ledger'.completed + Cardinality(queue') + Cardinality(Busy')
<1> USE DEF ManagerInv
<1>1. /\ observer'[e] = NoStage
      /\ \A f \in Executors \ {e} : observer'[f] = observer[f]
  BY DEF FinishStage, ManagerTypeOK
<1>2. observer' \in [Executors -> {NoStage}
                   \cup [at : {"advance", "record"}, id : Ids, stage : Decode .. Infer]
                   \cup [at : {"last"}, id : Ids, stage : {Postprocess}]]
  BY DEF FinishStage, ManagerTypeOK
<1>3. /\ ledger' \in [submitted : Nat, completed : Nat]
      /\ ledger'.submitted = ledger.submitted /\ ledger'.completed = ledger.completed + 1
  BY DEF FinishStage, ManagerTypeOK
<1>4. Busy' = Busy \ {e} /\ e \in Busy
  BY <1>1 DEF Busy, NoStage
<1>5. Cardinality(Busy') = Cardinality(Busy) - 1
  BY <1>4, Finite, FS_RemoveElement
<1>6. ledger'.submitted = ledger'.completed + Cardinality(queue') + Cardinality(Busy')
  BY <1>3, <1>5, Finite DEF LedgerInv, ManagerTypeOK
<1> QED
  BY <1>1, <1>2, <1>3, <1>6

(* The observer's late update of jobs_: it writes a stage the job has      *)
(* passed and leaves a Done job Done.                                      *)
LEMMA RecordStageInv ==
  ASSUME ManagerInv, NEW e \in Executors, RecordStage(e)
  PROVE  ManagerInv'
<1> USE DEF ManagerInv
<1>1. PICK n \in Ids, s \in Decode .. Infer :
        observer[e] = [at |-> "record", id |-> n, stage |-> s]
  BY ManagerFields DEF RecordStage
<1>2. /\ observer[e].at = "record" /\ observer[e].id = n /\ observer[e].stage = s
      /\ Submitted(n) /\ Known(n)
  BY <1>1 DEF RecordInv, Submitted
<1>3. s \in Int /\ s + 1 \in Stages
  BY DEF Stages, Decode, Infer, Postprocess
<1>4. PICK j \in JobStatus : /\ j.state = jobs[n].state /\ j.stage = s + 1
                             /\ jobs' = [jobs EXCEPT ![n] = j]
  <2>1. jobs[n] # NoJob /\ jobs[n] \in JobStatus
    BY <1>2, ManagerFields DEF Known
  <2>2. /\ [jobs[n] EXCEPT !.stage = s + 1] \in JobStatus
        /\ [jobs[n] EXCEPT !.stage = s + 1].state = jobs[n].state
        /\ [jobs[n] EXCEPT !.stage = s + 1].stage = s + 1
    BY <1>3, <2>1 DEF JobStatus
  <2>3. jobs' = [jobs EXCEPT ![n] = [jobs[n] EXCEPT !.stage = s + 1]]
    BY <1>2, <2>1 DEF RecordStage
  <2> QED
    BY <2>2, <2>3
<1>5. /\ jobs'[n] = j /\ j # NoJob
      /\ \A id \in Ids \ {n} : jobs'[id] = jobs[id]
      /\ jobs' \in [Ids -> {NoJob} \cup JobStatus]
      /\ FinishStage(e)
      /\ UNCHANGED <<next_request_id, completed, queue, caller>>
  <2>1. FinishStage(e) /\ UNCHANGED <<next_request_id, completed, queue, caller>>
    BY DEF RecordStage
  <2>2. jobs \in [Ids -> {NoJob} \cup JobStatus]
    BY DEF ManagerTypeOK
  <2> QED
    BY <1>4, <2>1, <2>2, JobManagerAssumption
<1>6. /\ observer'[e] = NoStage
      /\ \A f \in Executors \ {e} : observer'[f] = observer[f]
      /\ ledger'.submitted = ledger'.completed + Cardinality(queue') + Cardinality(Busy')
  BY <1>2, <1>5, FinishLedger
<1>7. ManagerTypeOK'
  BY <1>2, <1>5, FinishLedger DEF ManagerTypeOK
<1>8. \A id \in Ids : /\ Known(id)' <=> Known(id)
                      /\ IsDone(id)' <=> IsDone(id)
                      /\ InSubmit(id)' <=> InSubmit(id)
  <2>1. \A id \in Ids : (Known(id)' <=> Known(id)) /\ (IsDone(id)' <=> IsDone(id))
    BY <1>2, <1>4, <1>5 DEF Known, IsDone
  <2>2. \A id \in Ids : InSubmit(id)' <=> InSubmit(id)
    BY <1>5 DEF InSubmit
  <2> QED
    BY <2>1, <2>2
<1>9. \A id \in Ids : (Pending(id)' <=> Pending(id)) /\ (Submitted(id)' <=> Submitted(id))
  BY <1>8 DEF Pending, Submitted
<1>10. IdsInv'
  BY <1>5, <1>8 DEF IdsInv
<1>11. CallerInv'
  <2> SUFFICES ASSUME NEW d \in Callers PROVE CallerInv!(d)'
    BY DEF CallerInv
  <2>1. CASE caller[d].at = "out"
    BY <2>1, <1>5
  <2>2. CASE caller[d].at # "out"
    <3>1. caller[d].id \in Ids
      BY <2>2, ManagerFields
    <3>2. caller[d].at = "stage" => caller[d].id # n
      BY <1>2 DEF Submitted, InSubmit
    <3> QED
      BY <3>1, <3>2, <1>5, <1>8 DEF CallerInv
  <2> QED
    BY <2>1, <2>2
<1>12. /\ \A p \in queue : p[1] \in Ids
       /\ \A f \in Executors : observer[f].at # "idle" => observer[f].id \in Ids
       /\ \A f \in Executors : Following(f)' => Following(f) /\ f # e /\ observer'[f] = observer[f]
       /\ \A f \in Executors : Following(f) => Following(f)' /\ f # e /\ observer'[f] = observer[f]
  <2>1. /\ \A p \in queue : p[1] \in Ids
        /\ \A f \in Executors : observer[f].at # "idle" => observer[f].id \in Ids
    BY ManagerFields
  <2>2. observer'[e].at = "idle"
    BY <1>6 DEF NoStage
  <2> QED
    BY <1>2, <1>6, <2>1, <2>2 DEF Following
<1>13. HoldInv'
  <2> USE <1>5, <1>9, <1>12 DEF HoldInv
  <2>1. \A q \in queue' : Pending(q[1])'
    OBVIOUS
  <2>2. \A f \in Executors : Following(f)' => Pending(observer[f].id)'
    BY DEF Following
  <2>3. \A f \in Executors, q \in queue' : Following(f)' => observer'[f].id # q[1]
    OBVIOUS
  <2>4. \A f, g \in Executors :
          Following(f)' /\ Following(g)' /\ observer'[f].id = observer'[g].id => f = g
    OBVIOUS
  <2>5. \A id \in Ids : Pending(id)' =>
           \/ \E q \in queue' : q[1] = id
           \/ \E f \in Executors : Following(f)' /\ observer'[f].id = id
    OBVIOUS
  <2> QED
    BY <2>1, <2>2, <2>3, <2>4, <2>5
<1>14. StageInv'
  <2>1. \A f \in Executors : observer'[f].at = "record" => f # e /\ observer'[f] = observer[f]
    BY <1>6 DEF NoStage
  <2>2. ASSUME NEW q \in queue'
        PROVE  /\ jobs'[q[1]].stage <= q[2]
               /\ \A f \in Executors : observer'[f].at = "record" /\ observer'[f].id = q[1]
                                         => observer'[f].stage < q[2]
    <3>1. q \in queue /\ q[2] \in Int
      BY <1>5, ManagerFields DEF Stages, Decode, Postprocess
    <3>2. CASE q[1] = n
      <4>1. s < q[2]
        BY <3>1, <3>2, <1>2 DEF StageInv
      <4> QED
        BY <3>1, <3>2, <4>1, <2>1, <1>3, <1>4, <1>5 DEF StageInv
    <3>3. CASE q[1] # n
      BY <3>1, <3>3, <2>1, <1>5, <1>12 DEF StageInv
    <3> QED
      BY <3>2, <3>3
  <2>3. ASSUME NEW f \in Executors, Following(f)'
        PROVE  /\ jobs'[observer'[f].id].stage <= observer'[f].stage
               /\ \A g \in Executors : observer'[g].at = "record" /\ observer'[g].id = observer'[f].id
                                         => observer'[g].stage < observer'[f].stage
    <3>1. Following(f) /\ observer'[f] = observer[f] /\ observer[f].stage \in Int
          /\ observer[f].id \in Ids
      <4>1. observer[f].stage \in Stages
        BY ManagerFields
      <4> QED
        BY <4>1, <2>3, <1>12 DEF Stages, Decode, Postprocess, Following
    <3>2. CASE observer[f].id = n
      <4>1. s < observer[f].stage
        BY <3>1, <3>2, <1>2 DEF StageInv
      <4> QED
        BY <3>1, <3>2, <4>1, <2>1, <1>3, <1>4, <1>5 DEF StageInv
    <3>3. CASE observer[f].id # n
      BY <3>1, <3>3, <2>1, <1>5 DEF StageInv
    <3> QED
      BY <3>2, <3>3
  <2> QED
    BY <2>2, <2>3 DEF StageInv
<1>15. RecordInv'
  <2> SUFFICES ASSUME NEW f \in Executors, observer'[f].at = "record"
               PROVE  Submitted(observer[f].id)'
    BY DEF RecordInv
  <2>1. observer'[f] = observer[f]
    BY <1>6 DEF NoStage
  <2>2. observer[f].id \in Ids /\ Submitted(observer[f].id)
    BY <2>1, ManagerFields DEF RecordInv
  <2> QED
    BY <2>1, <2>2, <1>9
<1>16. LedgerInv'
  <2>1. DoneIds' = DoneIds
    BY <1>8 DEF DoneIds
  <2> QED
    BY <1>5, <1>6, <2>1 DEF LedgerInv
<1> QED
  BY <1>7, <1>10, <1>11, <1>13, <1>14, <1>15, <1>16

(* The last stage marks the job Done and counts it.                        *)
LEMMA RecordDoneInv ==
  ASSUME ManagerInv, NEW e \in Executors, RecordDone(e)
  PROVE  ManagerInv'
<1> USE DEF ManagerInv
<1>1. PICK n \in Ids : observer[e] = [at |-> "last", id |-> n, stage |-> Postprocess]
  BY ManagerFields DEF RecordDone
<1>2. /\ observer[e].at = "last" /\ observer[e].id = n
      /\ Following(e) /\ Pending(n) /\ Known(n) /\ ~IsDone(n) /\ ~InSubmit(n)
  BY <1>1 DEF HoldInv, Following, Pending
<1> DEFINE j == [state |-> "Done", stage |-> Postprocess]
<1>3. /\ j \in JobStatus /\ j # NoJob
      /\ jobs' = [jobs EXCEPT ![n] = j]
      /\ completed' = completed + 1
  <2>1. j \in JobStatus
    BY DEF JobStatus, Stages, Decode, Postprocess
  <2>2. jobs[n] # NoJob /\ jobs[n].state # "Done"
    BY <1>2 DEF Known, IsDone
  <2> QED
    BY <1>2, <2>1, <2>2, JobManagerAssumption DEF RecordDone
<1>4. /\ jobs'[n] = j
      /\ \A id \in Ids \ {n} : jobs'[id] = jobs[id]
      /\ jobs' \in [Ids -> {NoJob} \cup JobStatus]
      /\ FinishStage(e)
      /\ UNCHANGED <<next_request_id, queue, caller>>
  BY <1>3 DEF RecordDone, ManagerTypeOK
<1>5. /\ observer'[e] = NoStage
      /\ \A f \in Executors \ {e} : observer'[f] = observer[f]
      /\ ledger'.submitted = ledger'.completed + Cardinality(queue') + Cardinality(Busy')
  BY <1>2, <1>4, FinishLedger
<1>6. /\ Known(n)' /\ IsDone(n)'
      /\ \A id \in Ids \ {n} : (Known(id)' <=> Known(id)) /\ (IsDone(id)' <=> IsDone(id))
      /\ \A id \in Ids : InSubmit(id)' <=> InSubmit(id)
  <2>1. Known(n)' /\ IsDone(n)'
    BY <1>3, <1>4 DEF Known, IsDone
  <2>2. \A id \in Ids \ {n} : (Known(id)' <=> Known(id)) /\ (IsDone(id)' <=> IsDone(id))
    BY <1>4 DEF Known, IsDone
  <2>3. \A id \in Ids : InSubmit(id)' <=> InSubmit(id)
    BY <1>4 DEF InSubmit
  <2> QED
    BY <2>1, <2>2, <2>3
<1>7. /\ \A id \in Ids \ {n} : Pending(id)' <=> Pending(id)
      /\ ~Pending(n)'
      /\ \A id \in Ids : Submitted(id)' <=> Submitted(id)
  BY <1>2, <1>6 DEF Pending, Submitted
<1>8. DoneIds' = DoneIds \cup {n} /\ n \notin DoneIds
  BY <1>2, <1>6 DEF DoneIds
<1>9. completed' = Cardinality(DoneIds')
  BY <1>3, <1>8, Finite, FS_AddElement DEF LedgerInv
<1>10. ManagerTypeOK'
  <2>1. completed' \in 0 .. MaxRequests
    <3>1. IsFiniteSet(Ids) /\ Cardinality(Ids) = MaxRequests
      <4>1. IsFiniteSet(1 .. MaxRequests) /\ Cardinality(1 .. MaxRequests) = MaxRequests
        BY JobManagerAssumption, FS_Interval
      <4> QED
        BY <4>1 DEF Ids
    <3>2. DoneIds' \subseteq Ids
      BY DEF DoneIds
    <3>3. Cardinality(DoneIds') \in Nat /\ Cardinality(DoneIds') <= MaxRequests
      BY <3>1, <3>2, FS_Subset, FS_CardinalityType
    <3> QED
      BY <3>3, <1>9, JobManagerAssumption
  <2> QED
    BY <2>1, <1>2, <1>4, FinishLedger DEF ManagerTypeOK
<1>11. IdsInv'
  <2>1. \A id \in Ids : Known(id)' => Known(id)
    BY <1>2, <1>6
  <2> QED
    BY <1>4, <2>1 DEF IdsInv
<1>12. CallerInv'
  <2> SUFFICES ASSUME NEW d \in Callers PROVE CallerInv!(d)'
    BY DEF CallerInv
  <2>1. CASE caller[d].at = "out"
    BY <2>1, <1>4
  <2>2. CASE caller[d].at # "out"
    <3>1. caller[d].id \in Ids
      BY <2>2, ManagerFields
    <3>2. caller[d].at \in {"insert", "stage"} => caller[d].id # n
      BY <1>2 DEF InSubmit
    <3> QED
      BY <3>1, <3>2, <1>4, <1>6 DEF CallerInv
  <2> QED
    BY <2>1, <2>2
<1>13. /\ \A p \in queue : p[1] \in Ids \ {n}
       /\ \A f \in Executors : Following(f)' =>
            Following(f) /\ f # e /\ observer'[f] = observer[f] /\ observer[f].id \in Ids \ {n}
       /\ \A f \in Executors : Following(f) /\ f # e => Following(f)' /\ observer'[f] = observer[f]
  <2>1. /\ \A p \in queue : p[1] \in Ids
        /\ \A f \in Executors : Following(f) => observer[f].id \in Ids
    BY ManagerFields DEF Following
  <2>2. /\ \A p \in queue : p[1] # n
        /\ \A f \in Executors : Following(f) /\ f # e => observer[f].id # n
    BY <1>2 DEF HoldInv
  <2>3. observer'[e].at = "idle"
    BY <1>5 DEF NoStage
  <2>4. \A f \in Executors : Following(f)' => Following(f) /\ f # e /\ observer'[f] = observer[f]
    BY <1>5, <2>3 DEF Following
  <2>5. \A f \in Executors : Following(f) /\ f # e => Following(f)' /\ observer'[f] = observer[f]
    BY <1>5 DEF Following
  <2> QED
    BY <2>1, <2>2, <2>4, <2>5
<1>14. HoldInv'
  <2> USE <1>4, <1>7, <1>13 DEF HoldInv
  <2>1. \A q \in queue' : Pending(q[1])'
    OBVIOUS
  <2>2. \A f \in Executors : Following(f)' => Pending(observer[f].id)'
    OBVIOUS
  <2>3. \A f \in Executors, q \in queue' : Following(f)' => observer'[f].id # q[1]
    OBVIOUS
  <2>4. \A f, g \in Executors :
          Following(f)' /\ Following(g)' /\ observer'[f].id = observer'[g].id => f = g
    OBVIOUS
  <2>5. ASSUME NEW id \in Ids, Pending(id)'
        PROVE  \/ \E q \in queue' : q[1] = id
               \/ \E f \in Executors : Following(f)' /\ observer'[f].id = id
    <3>1. id # n /\ Pending(id)
      BY <2>5
    <3> QED
      BY <3>1, <1>2
  <2> QED
    BY <2>1, <2>2, <2>3, <2>4, <2>5
<1>15. StageInv'
  <2>1. \A f \in Executors : observer'[f].at = "record" => f # e /\ observer'[f] = observer[f]
    BY <1>5 DEF NoStage
  <2> QED
    BY <1>4, <1>13, <2>1 DEF StageInv
<1>16. RecordInv'
  <2> SUFFICES ASSUME NEW f \in Executors, observer'[f].at = "record"
               PROVE  Submitted(observer[f].id)'
    BY DEF RecordInv
  <2>1. observer'[f] = observer[f]
    BY <1>5 DEF NoStage
  <2>2. observer[f].id \in Ids /\ Submitted(observer[f].id)
    BY <2>1, ManagerFields DEF RecordInv
  <2> QED
    BY <2>1, <2>2, <1>7
<1>17. LedgerInv'
  BY <1>5, <1>9 DEF LedgerInv
<1> QED
  BY <1>10, <1>11, <1>12, <1>14, <1>15, <1>16, <1>17

(* Every step of the observer keeps the manager's invariant.               *)
LEMMA ObserverStepInv ==
  ASSUME ManagerInv, NEW e \in Executors, ObserverStep(e)
  PROVE  ManagerInv'
BY AdvanceStageInv, RecordStageInv, RecordDoneInv DEF ObserverStep

(* So does a step that leaves the manager alone.                           *)
LEMMA ManagerStutterInv ==
  ASSUME ManagerInv, UNCHANGED managerVars
  PROVE  ManagerInv'
<1> USE DEF managerVars
<1>1. ManagerTypeOK'
  BY DEF ManagerInv, ManagerTypeOK
<1>2. \A id : /\ Known(id)' <=> Known(id)
              /\ IsDone(id)' <=> IsDone(id)
              /\ Pending(id)' <=> Pending(id)
              /\ Submitted(id)' <=> Submitted(id)
  BY DEF Known, IsDone, InSubmit, Pending, Submitted
<1>3. IdsInv' /\ CallerInv'
  BY <1>2 DEF ManagerInv, IdsInv, CallerInv
<1>4. HoldInv' /\ StageInv' /\ RecordInv'
  BY <1>2, HoldSame
<1>5. LedgerInv'
  <2>1. DoneIds' = DoneIds /\ Busy' = Busy
    BY <1>2 DEF DoneIds, Busy
  <2> QED
    BY <2>1 DEF ManagerInv, LedgerInv
<1> QED
  BY <1>1, <1>3, <1>4, <1>5 DEF ManagerInv

(* No step takes a request out of the table, back into submit() or back    *)
(* from Done.                                                              *)
Onwards ==
  \A id \in Ids : /\ Known(id) => Known(id)'
                  /\ Submitted(id) => Submitted(id)'
                  /\ IsDone(id) => IsDone(id)'

(* submit() forgets no job that a client may ask for.                      *)
LEMMA SubmitOnwards ==
  ASSUME ManagerInv, NEW c \in Callers,
         SubmitAllocate(c) \/ SubmitStep(c) \/ SubmitReturn(c)
  PROVE  Onwards
<1> USE DEF ManagerInv
<1>1. CASE SubmitAllocate(c)
  <2>1. /\ UNCHANGED jobs
        /\ \A d \in Callers : caller'[d].at \in {"insert", "stage"} =>
             caller'[d] = caller[d] \/ caller'[d].id = next_request_id
    BY <1>1 DEF SubmitAllocate, ManagerTypeOK
  <2>2. \A id \in Ids : (Known(id)' <=> Known(id)) /\ (IsDone(id)' <=> IsDone(id))
    BY <2>1 DEF Known, IsDone
  <2>3. \A id \in Ids : Known(id) => id # next_request_id
    BY DEF IdsInv, Ids
  <2>4. \A id \in Ids : id # next_request_id /\ InSubmit(id)' => InSubmit(id)
    BY <2>1 DEF InSubmit
  <2> QED
    BY <2>2, <2>3, <2>4 DEF Onwards, Submitted
<1>2. CASE SubmitInsert(c)
  <2>1. PICK n \in Ids : n = caller[c].id
    BY <1>2, ManagerFields DEF SubmitInsert
  <2>2. ~Known(n)
    BY <1>2, <2>1 DEF SubmitInsert, CallerInv
  <2>3. \A id \in Ids \ {n} : jobs'[id] = jobs[id]
    BY <1>2, <2>1 DEF SubmitInsert, ManagerTypeOK
  <2>4. \A id \in Ids \ {n} : (Known(id)' <=> Known(id)) /\ (IsDone(id)' <=> IsDone(id))
    BY <2>3 DEF Known, IsDone
  <2>5. \A d \in Callers : caller'[d].id = caller[d].id
                           /\ (d # c => caller'[d].at = caller[d].at)
    <3>1. caller' = [caller EXCEPT ![c] = [caller[c] EXCEPT !.at = "stage"]]
      BY <1>2 DEF SubmitInsert
    <3>2. caller[c] = [at |-> caller[c].at, id |-> caller[c].id]
      BY ManagerFields
    <3>3. [caller[c] EXCEPT !.at = "stage"].id = caller[c].id
      BY <3>2
    <3>4. DOMAIN caller = Callers
      BY DEF ManagerTypeOK
    <3> QED
      BY <3>1, <3>3, <3>4
  <2>6. \A id \in Ids \ {n} : InSubmit(id)' => InSubmit(id)
    BY <2>1, <2>5 DEF InSubmit
  <2> QED
    BY <2>2, <2>4, <2>6 DEF Onwards, Submitted, IsDone
<1>3. CASE SubmitFirstStage(c) \/ SubmitReturn(c)
  <2>1. /\ UNCHANGED jobs
        /\ \A d \in Callers : caller'[d].at \in {"insert", "stage"} => caller'[d] = caller[d]
    <3>1. CASE SubmitReturn(c)
      BY <3>1 DEF SubmitReturn, ManagerTypeOK, OutsideSubmit
    <3>2. CASE SubmitFirstStage(c)
      <4>1. caller' = [caller EXCEPT ![c] = [caller[c] EXCEPT !.at = "returned"]]
        BY <3>2 DEF SubmitFirstStage
      <4>2. caller[c] = [at |-> caller[c].at, id |-> caller[c].id]
        BY ManagerFields
      <4>3. [caller[c] EXCEPT !.at = "returned"].at = "returned"
        BY <4>2
      <4>4. DOMAIN caller = Callers
        BY DEF ManagerTypeOK
      <4> QED
        BY <3>2, <4>1, <4>3, <4>4 DEF SubmitFirstStage
    <3> QED
      BY <1>3, <3>1, <3>2
  <2>2. \A id \in Ids : (Known(id)' <=> Known(id)) /\ (IsDone(id)' <=> IsDone(id))
    BY <2>1 DEF Known, IsDone
  <2>3. \A id \in Ids : InSubmit(id)' => InSubmit(id)
    BY <2>1 DEF InSubmit
  <2> QED
    BY <2>2, <2>3 DEF Onwards, Submitted
<1> QED
  BY <1>1, <1>2, <1>3 DEF SubmitStep

(* Neither does the observer, from its call to its return.                 *)
LEMMA ObserverOnwards ==
  ASSUME ManagerInv, NEW e \in Executors,
         ObserverStep(e) \/ \E p \in queue : StageDone(e, p[1], p[2])
  PROVE  Onwards
<1> USE DEF ManagerInv
<1> DEFINE Kept(id) ==
             \/ jobs'[id] = jobs[id]
             \/ /\ jobs[id] # NoJob /\ jobs'[id] # NoJob
                /\ jobs[id].state = "Done" => jobs'[id].state = "Done"
<1>0. ASSUME UNCHANGED caller, \A id \in Ids : Kept(id)
      PROVE  Onwards
  <2>1. \A id \in Ids : (Known(id) => Known(id)') /\ (IsDone(id) => IsDone(id)')
    BY <1>0 DEF Known, IsDone
  <2>2. \A id \in Ids : InSubmit(id)' => InSubmit(id)
    BY <1>0 DEF InSubmit
  <2> QED
    BY <2>1, <2>2 DEF Onwards, Submitted
<1>1. CASE UNCHANGED <<jobs, caller>>
  <2>1. \A id \in Ids : Kept(id)
    BY <1>1
  <2> QED
    BY <1>0, <1>1, <2>1
<1>2. CASE RecordStage(e) /\ jobs' # jobs
  <2>1. PICK n \in Ids : n = observer[e].id
    BY <1>2, ManagerFields DEF RecordStage
  <2>2. jobs[n] # NoJob /\ jobs[n] \in JobStatus /\ observer[e].stage + 1 \in Stages
    <3>1. observer[e].stage \in Decode .. Infer
      BY <1>2, ManagerFields DEF RecordStage
    <3> QED
      BY <1>2, <2>1, <3>1, ManagerFields DEF RecordStage, Stages, Decode, Infer, Postprocess
  <2>3. [jobs[n] EXCEPT !.stage = observer[e].stage + 1] \in JobStatus
        /\ [jobs[n] EXCEPT !.stage = observer[e].stage + 1].state = jobs[n].state
    BY <2>2 DEF JobStatus
  <2>4. jobs' = [jobs EXCEPT ![n] = [jobs[n] EXCEPT !.stage = observer[e].stage + 1]]
    BY <1>2, <2>1, <2>2 DEF RecordStage
  <2>5. DOMAIN jobs = Ids /\ UNCHANGED caller
    BY <1>2 DEF ManagerTypeOK, RecordStage
  <2> QED
    <3>1. \A id \in Ids : Kept(id)
      BY <2>2, <2>3, <2>4, <2>5, JobManagerAssumption
    <3> QED
      BY <1>0, <2>5, <3>1
<1>3. CASE RecordDone(e) /\ jobs' # jobs
  <2>1. PICK n \in Ids : n = observer[e].id
    BY <1>3, ManagerFields DEF RecordDone
  <2>2. [state |-> "Done", stage |-> Postprocess] # NoJob
    BY JobManagerAssumption DEF JobStatus, Stages, Decode, Postprocess
  <2>3. jobs[n] # NoJob /\ jobs' = [jobs EXCEPT ![n] = [state |-> "Done", stage |-> Postprocess]]
    BY <1>3, <2>1 DEF RecordDone
  <2>4. DOMAIN jobs = Ids /\ UNCHANGED caller
    BY <1>3 DEF ManagerTypeOK, RecordDone
  <2> QED
    <3>1. \A id \in Ids : Kept(id)
      BY <2>2, <2>3, <2>4
    <3> QED
      BY <1>0, <2>4, <3>1
<1> HIDE DEF Kept
<1>4. UNCHANGED <<jobs, caller>> \/ RecordStage(e) \/ RecordDone(e)
  BY DEF ObserverStep, StageDone, AdvanceStage
<1>5. RecordStage(e) \/ RecordDone(e) => UNCHANGED caller
  BY DEF RecordStage, RecordDone
<1> QED
  BY <1>1, <1>2, <1>3, <1>4, <1>5

(* Nor a step that leaves the manager alone.                               *)
LEMMA StutterOnwards ==
  ASSUME UNCHANGED managerVars
  PROVE  Onwards
BY DEF managerVars, Onwards, Known, IsDone, InSubmit, Submitted

----------------------------------------------------------------------------
(* The server.                                                             *)

(* A balanced ledger leaves nothing to run and nobody running it.          *)
LEMMA BalancedIdle ==
  ASSUME ManagerInv, Balanced
  PROVE  queue = {} /\ Busy = {}
<1>1. Cardinality(queue) = 0 /\ Cardinality(Busy) = 0
  BY Finite DEF ManagerInv, LedgerInv, Balanced, ManagerTypeOK
<1> QED
  BY <1>1, Finite, FS_EmptySet DEF ManagerInv

ConnPhases == {"away", "accepted", "recv", "submit", "send", "closed"}

(* What a step that moves connection c does to the connections.            *)
LEMMA ConnUpdate ==
  ASSUME TypeOK, NEW c \in Callers, NEW at \in ConnPhases, conn' = [conn EXCEPT ![c] = at]
  PROVE  /\ conn' \in [Callers -> ConnPhases]
         /\ conn'[c] = at
         /\ \A d \in Callers \ {c} : conn'[d] = conn[d]
<1>1. conn \in [Callers -> ConnPhases]
  BY DEF TypeOK, ConnPhases
<1> QED
  BY <1>1

(* A step that is no worker's, no observer's and none of node.stop().      *)
LEMMA WorkerSame ==
  ASSUME WorkerInv, UNCHANGED <<observer, look, away>>,
         main' = main \/ {main, main'} \cap {"join workers", "exit"} = {}
  PROVE  WorkerInv'
BY DEF WorkerInv

(* The initial state satisfies the inductive invariant.                    *)
LEMMA InitInv == Init => IInv
<1> SUFFICES ASSUME Init PROVE IInv
  OBVIOUS
<1>1. ManagerInv
  BY ManagerInitInv DEF Init
<1>2. TypeOK
  BY <1>1 DEF Init, TypeOK, ManagerInv, Accepting, Looking
<1>3. ConnInv
  BY DEF Init, ManagerInit, ConnInv, OutsideSubmit
<1>4. StopInv
  BY DEF Init, StopInv, Accepting
<1>5. WorkerInv
  BY DEF Init, WorkerInv, Looking
<1> QED
  BY <1>1, <1>2, <1>3, <1>4, <1>5 DEF IInv

(* A client's connection is accepted, perhaps by an accept() that outlived *)
(* its socket.                                                             *)
LEMMA AcceptInv ==
  ASSUME IInv, NEW c \in Callers, Accept(c)
  PROVE  IInv'
<1> USE DEF IInv
<1>1. ManagerInv'
  BY ManagerStutterInv DEF Accept
<1>2. /\ conn' \in [Callers -> ConnPhases]
      /\ conn'[c] = "accepted"
      /\ \A d \in Callers \ {c} : conn'[d] = conn[d]
  BY ConnUpdate DEF Accept, ConnPhases
<1>3. TypeOK'
  <2>1. acceptor' \in [at : {"spawn"}, conn : {{d} : d \in Callers}]
    BY DEF Accept
  <2>2. UNCHANGED <<running, main, look, away, queue>> /\ stuck' = FALSE
    BY DEF Accept, managerVars
  <2> QED
    BY <1>1, <1>2, <2>1, <2>2 DEF TypeOK, ManagerInv, ConnPhases
<1>4. ConnInv'
  BY <1>2 DEF ConnInv, Accept, managerVars
<1>5. StopInv'
  <2>1. acceptor'.at = "spawn" /\ acceptor'.conn = {c} /\ acceptor.at = "accept"
    BY DEF Accept
  <2>2. main \in {"serve", "join accept"} /\ UNCHANGED <<running, main>>
    BY <2>1 DEF Accept, StopInv, TypeOK
  <2> QED
    BY <1>2, <2>1, <2>2 DEF StopInv
<1>6. WorkerInv'
  BY WorkerSame DEF Accept, managerVars
<1> QED
  BY <1>1, <1>3, <1>4, <1>5, <1>6

(* The accept thread hands a connection to its thread, or leaves its loop. *)
LEMMA AcceptStepInv ==
  ASSUME IInv, AcceptFail \/ AcceptSpawn
  PROVE  IInv'
<1> USE DEF IInv
<1>1. ManagerInv' /\ UNCHANGED <<managerVars, main, running, look, away, stuck>>
  BY ManagerStutterInv DEF AcceptFail, AcceptSpawn
<1>2. /\ conn' \in [Callers -> ConnPhases]
      /\ \A d \in Callers : conn'[d] = conn[d] \/ (conn[d] = "accepted" /\ conn'[d] = "recv")
      /\ acceptor.at = "spawn" => \A d \in Callers : conn'[d] # "accepted"
  <2>0. conn \in [Callers -> ConnPhases]
    BY DEF TypeOK, ConnPhases
  <2>1. CASE AcceptFail
    BY <2>0, <2>1 DEF AcceptFail
  <2>2. CASE AcceptSpawn
    <3>1. PICK a \in Callers : acceptor.conn = {a}
      BY <2>2 DEF AcceptSpawn, TypeOK
    <3>2. conn' = [d \in Callers |-> IF d = a THEN "recv" ELSE conn[d]]
      BY <2>2, <3>1 DEF AcceptSpawn
    <3>3. \A d \in Callers \ {a} : conn[d] # "accepted"
      BY <3>1 DEF StopInv
    <3>4. conn[a] = "accepted" /\ "recv" \in ConnPhases
      BY <2>2, <3>1 DEF StopInv, AcceptSpawn, ConnPhases
    <3> QED
      BY <2>0, <3>2, <3>3, <3>4
  <2> QED
    BY <2>1, <2>2
<1>3. TypeOK'
  <2>1. acceptor' \in [at : {"accept", "exit"}, conn : {{}}]
    <3>1. acceptor' = [at |-> "accept", conn |-> {}] \/ acceptor' = [at |-> "exit", conn |-> {}]
      BY DEF AcceptFail, AcceptSpawn, Accepting
    <3> QED
      BY <3>1
  <2> QED
    BY <1>1, <1>2, <2>1 DEF TypeOK, ManagerInv, ConnPhases, managerVars
<1>4. ConnInv'
  BY <1>1, <1>2 DEF ConnInv, managerVars
<1>5. StopInv'
  <2>1. /\ acceptor.at # "exit" /\ acceptor'.at \in {"accept", "exit"}
        /\ acceptor.at # "spawn" => acceptor'.at = "exit" /\ UNCHANGED conn
    <3>1. CASE AcceptFail
      BY <3>1 DEF AcceptFail, Accepting
    <3>2. CASE AcceptSpawn
      BY <3>2 DEF AcceptSpawn, Accepting
    <3> QED
      BY <3>1, <3>2
  <2>2. main \in {"serve", "join accept"}
    BY <2>1 DEF StopInv, TypeOK
  <2>3. \A d \in Callers : conn'[d] # "accepted"
    BY <1>2, <2>1 DEF StopInv
  <2> QED
    BY <1>1, <2>1, <2>2, <2>3 DEF StopInv
<1>6. WorkerInv'
  BY <1>1, WorkerSame DEF managerVars
<1> QED
  BY <1>1, <1>3, <1>4, <1>5, <1>6

(* http.stop() and node.stop(), in the order of main.                      *)
LEMMA MainInv ==
  ASSUME IInv, StopHttp \/ StopStep
  PROVE  IInv'
<1> USE DEF IInv
<1>1. UNCHANGED <<managerVars, acceptor, conn, look>>
  BY DEF StopHttp, StopStep, StopJoinAccept, StopJoinThreads, StopNode, StopJoinWorkers, httpVars
<1>2. ManagerInv'
  BY <1>1, ManagerStutterInv
<1>3. TypeOK'
  <2>1. /\ running' \in BOOLEAN /\ stuck' \in BOOLEAN /\ away' \subseteq queue
        /\ main' \in {"serve", "join accept", "join threads", "stop node", "join workers", "exit"}
    <3>1. CASE StopHttp
      BY <3>1 DEF TypeOK, StopHttp
    <3>2. CASE StopNode
      BY <3>2 DEF TypeOK, StopNode, httpVars
    <3>3. CASE StopJoinAccept \/ StopJoinThreads \/ StopJoinWorkers
      BY <3>3 DEF TypeOK, StopJoinAccept, StopJoinThreads, StopJoinWorkers, httpVars
    <3> QED
      BY <3>1, <3>2, <3>3 DEF StopStep
  <2> QED
    BY <1>1, <1>2, <2>1 DEF TypeOK, ManagerInv, managerVars
<1>4. ConnInv'
  BY <1>1 DEF ConnInv, managerVars
<1>5. StopInv' /\ WorkerInv'
  <2>1. CASE StopHttp
    BY <1>1, <2>1, WorkerSame DEF StopInv, StopHttp, managerVars
  <2>2. CASE StopJoinAccept
    BY <1>1, <2>2, WorkerSame DEF StopInv, StopJoinAccept, httpVars, managerVars
  <2>3. CASE StopJoinThreads
    <3>1. \A c \in Callers : conn[c] # "accepted"
      BY <2>3 DEF StopJoinThreads, StopInv
    <3> QED
      BY <1>1, <2>3, <3>1, WorkerSame DEF StopInv, StopJoinThreads, httpVars, managerVars
  <2>4. CASE StopNode
    <3>1. StopInv'
      BY <1>1, <2>4 DEF StopInv, StopNode, httpVars
    <3>2. WorkerInv'
      BY <1>1, <2>4 DEF WorkerInv, StopNode, managerVars
    <3> QED
      BY <3>1, <3>2
  <2>5. CASE StopJoinWorkers
    <3>1. StopInv'
      BY <1>1, <2>5 DEF StopInv, StopJoinWorkers, httpVars
    <3>2. WorkerInv'
      <4>1. /\ main = "join workers" /\ main' = "exit" /\ UNCHANGED <<observer, look>>
            /\ \A w \in Workers : look[w].at = "left"
        BY <1>1, <2>5 DEF StopJoinWorkers, managerVars
      <4>2. \A e \in Executors \ Workers : observer[e] = NoStage
        BY <4>1 DEF WorkerInv
      <4> QED
        BY <4>1, <4>2 DEF WorkerInv
    <3> QED
      BY <3>1, <3>2
  <2> QED
    BY <2>1, <2>2, <2>3, <2>4, <2>5 DEF StopStep
<1> QED
  BY <1>2, <1>3, <1>4, <1>5

(* A step of a connection thread: it moves its own connection, and is in   *)
(* submit() only during POST /infer.                                       *)
LEMMA ServeInv ==
  ASSUME IInv, ManagerInv', NEW c \in Callers, NEW at \in ConnPhases,
         UNCHANGED <<observer, running, acceptor, main, look, away, stuck>>,
         queue \subseteq queue',
         conn[c] \notin {"away", "accepted", "closed"}, at \notin {"away", "accepted"},
         conn' = [conn EXCEPT ![c] = at],
         \A d \in Callers \ {c} : caller'[d] = caller[d],
         caller'[c].at # "out" => at = "submit"
  PROVE  IInv'
<1> USE DEF IInv
<1>1. /\ conn' \in [Callers -> ConnPhases]
      /\ conn'[c] = at
      /\ \A d \in Callers \ {c} : conn'[d] = conn[d]
  BY ConnUpdate
<1>2. TypeOK'
  BY <1>1 DEF TypeOK, ManagerInv, ConnPhases
<1>3. ConnInv'
  BY <1>1 DEF ConnInv
<1>4. StopInv'
  <2>1. main \notin {"stop node", "join workers", "exit"}
    BY DEF StopInv
  <2> QED
    BY <1>1, <2>1 DEF StopInv
<1>5. WorkerInv'
  BY WorkerSame
<1> QED
  BY <1>2, <1>3, <1>4, <1>5

(* A connection thread: receive, submit, answer, close.                    *)
LEMMA ServeStepInv ==
  ASSUME IInv, NEW c \in Callers, ServeStep(c)
  PROVE  IInv'
<1> USE DEF IInv
<1>0. conn[c] # "submit" => caller[c].at = "out"
  BY DEF ConnInv
<1>1. ASSUME NEW at \in {"submit", "send", "closed"}, UNCHANGED managerVars,
             conn[c] \in {"recv", "send"}, conn' = [conn EXCEPT ![c] = at],
             UNCHANGED <<running, acceptor, main, look, away, stuck>>
      PROVE  IInv'
  <2>1. ManagerInv' /\ UNCHANGED <<observer, queue, caller>>
    BY <1>1, ManagerStutterInv DEF managerVars
  <2>2. at \in ConnPhases
    BY DEF ConnPhases
  <2> QED
    BY <1>0, <1>1, <2>1, <2>2, ServeInv
<1>2. CASE RecvFail(c)
  BY <1>1, <1>2 DEF RecvFail, Close
<1>3. CASE Recv(c, "submit") \/ Recv(c, "send")
  BY <1>1, <1>3 DEF Recv
<1>4. CASE Send(c)
  BY <1>1, <1>4 DEF Send, Close
<1>5. CASE HandleInfer(c)
  <2>1. conn[c] = "submit" /\ UNCHANGED <<running, acceptor, main, look, away, stuck>>
    BY <1>5 DEF HandleInfer
  <2>2. CASE (SubmitAllocate(c) \/ SubmitStep(c)) /\ UNCHANGED conn
    <3>1. ManagerInv'
      BY <2>2, SubmitAllocateInv, SubmitInsertInv, SubmitFirstStageInv DEF SubmitStep
    <3>2. /\ \A d \in Callers \ {c} : caller'[d] = caller[d]
          /\ UNCHANGED observer /\ queue \subseteq queue'
      BY <2>2 DEF SubmitAllocate, SubmitStep, SubmitInsert, SubmitFirstStage, SubmitStage,
                  ManagerInv, ManagerTypeOK
    <3>3. conn' = [conn EXCEPT ![c] = "submit"] /\ "submit" \in ConnPhases
      BY <2>1, <2>2 DEF TypeOK, ConnPhases
    <3> QED
      BY <2>1, <3>1, <3>2, <3>3, ServeInv
  <2>3. CASE SubmitReturn(c) /\ conn' = [conn EXCEPT ![c] = "send"]
    <3>1. ManagerInv'
      BY <2>3, SubmitReturnInv
    <3>2. /\ caller'[c].at = "out" /\ \A d \in Callers \ {c} : caller'[d] = caller[d]
          /\ UNCHANGED <<observer, queue>>
      BY <2>3 DEF SubmitReturn, OutsideSubmit, ManagerInv, ManagerTypeOK
    <3>3. "send" \in ConnPhases
      BY DEF ConnPhases
    <3> QED
      BY <2>1, <2>3, <3>1, <3>2, <3>3, ServeInv
  <2> QED
    BY <1>5, <2>2, <2>3 DEF HandleInfer, SubmitReturn
<1> QED
  BY <1>2, <1>3, <1>4, <1>5 DEF ServeStep

(* A step of an executor that only concerns the manager.                   *)
LEMMA ExecutorInv ==
  ASSUME IInv, ManagerInv', UNCHANGED serverVars, UNCHANGED caller,
         away \subseteq queue', WorkerInv'
  PROVE  IInv'
<1> USE DEF IInv
<1>1. TypeOK'
  BY DEF TypeOK, ManagerInv, serverVars, httpVars
<1>2. ConnInv'
  BY DEF ConnInv, serverVars, httpVars
<1>3. StopInv'
  BY DEF StopInv, serverVars, httpVars
<1> QED
  BY <1>1, <1>2, <1>3

(* A worker or a serve thread has a stage to observe: neither has left.    *)
LEMMA TakesStageInv ==
  ASSUME IInv, NEW e \in Executors, (RunStage(e) /\ e \in Workers) \/ StageReported(e)
  PROVE  IInv'
<1> USE DEF IInv
<1>1. PICK p \in queue : StageDone(e, p[1], p[2]) /\ p \notin away
  <2>1. CASE RunStage(e)
    BY <2>1 DEF RunStage
  <2>2. CASE StageReported(e)
    BY <2>2 DEF StageReported, WorkerInv
  <2> QED
    BY <2>1, <2>2
<1>2. ManagerInv' /\ UNCHANGED serverVars
  BY <1>1, StageDoneInv DEF RunStage, StageReported
<1>3. UNCHANGED caller /\ \A f \in Executors \ {e} : observer'[f] = observer[f]
  BY <1>1 DEF StageDone, ManagerInv, ManagerTypeOK
<1>4. away \subseteq queue'
  <2>1. queue' = queue \ {p}
    BY <1>1, ManagerFields DEF StageDone, ManagerInv
  <2> QED
    BY <1>1, <2>1 DEF TypeOK
<1>5. WorkerInv'
  <2>1. UNCHANGED <<main, look, away>>
    BY <1>2 DEF serverVars
  <2>2. CASE RunStage(e) /\ e \in Workers
    BY <1>3, <2>1, <2>2, ServerAssumption DEF WorkerInv, RunStage
  <2>3. CASE StageReported(e)
    BY <1>3, <2>1, <2>3, ServerAssumption DEF WorkerInv, StageReported
  <2> QED
    BY <2>2, <2>3
<1> QED
  BY <1>2, <1>3, <1>4, <1>5, ExecutorInv

(* An observer goes on, on a thread that is therefore still there.         *)
LEMMA ObserverInv ==
  ASSUME IInv, NEW e \in Executors, Observe(e)
  PROVE  IInv'
<1> USE DEF IInv
<1>1. ManagerInv' /\ UNCHANGED serverVars
  BY ObserverStepInv DEF Observe
<1>2. /\ UNCHANGED caller /\ \A f \in Executors \ {e} : observer'[f] = observer[f]
      /\ observer[e] # NoStage
      /\ queue \subseteq queue'
  BY DEF Observe, ObserverStep, AdvanceStage, RecordStage, RecordDone, FinishStage, SubmitStage,
         ManagerInv, ManagerTypeOK, NoStage
<1>3. away \subseteq queue'
  BY <1>2 DEF TypeOK
<1>4. WorkerInv'
  <2>1. UNCHANGED <<main, look, away>>
    BY <1>1 DEF serverVars
  <2> QED
    BY <1>2, <2>1, ServerAssumption DEF WorkerInv
<1> QED
  BY <1>1, <1>2, <1>3, <1>4, ExecutorInv

(* A worker compares the counters and tests the flag.                      *)
LEMMA WorkerStepInv ==
  ASSUME IInv, NEW w \in Workers, WorkerStep(w)
  PROVE  IInv'
<1> USE DEF IInv
<1>1. CASE RunStage(w)
  BY <1>1, TakesStageInv, ServerAssumption
<1>2. CASE LoadSubmitted(w) \/ LoadCompleted(w) \/ LoadShutdown(w)
  <2>1. UNCHANGED <<managerVars, httpVars, main, away, stuck>>
    BY <1>2 DEF LoadSubmitted, LoadCompleted, LoadShutdown
  <2>2. PICK l \in [at : {"loop", "compare", "flag", "left"}, seen : Nat] :
          look' = [look EXCEPT ![w] = l]
    <3>1. ledger.submitted \in Nat
      BY DEF ManagerInv, ManagerTypeOK
    <3> QED
      BY <1>2, <3>1 DEF LoadSubmitted, LoadCompleted, LoadShutdown, Looks, Looking
  <2>3. ManagerInv'
    BY <2>1, ManagerStutterInv
  <2>4. /\ look' \in [Workers -> [at : {"loop", "compare", "flag", "left"}, seen : Nat]]
        /\ \A v \in Workers \ {w} : look'[v] = look[v]
    BY <2>2 DEF TypeOK
  <2>5. TypeOK'
    BY <2>1, <2>3, <2>4 DEF TypeOK, ManagerInv, managerVars, httpVars
  <2>6. ConnInv' /\ StopInv'
    BY <2>1 DEF ConnInv, StopInv, managerVars, httpVars
  <2>7. WorkerInv'
    <3>1. observer[w] = NoStage /\ main # "exit"
      BY <1>2 DEF LoadSubmitted, LoadCompleted, LoadShutdown, WorkerInv
    <3> QED
      BY <2>1, <2>4, <3>1 DEF WorkerInv, managerVars
  <2> QED
    BY <2>3, <2>5, <2>6, <2>7
<1> QED
  BY <1>1, <1>2 DEF WorkerStep

(* A stuttering step.                                                      *)
LEMMA StutterInv ==
  ASSUME IInv, UNCHANGED vars
  PROVE  IInv'
<1> USE DEF IInv, vars
<1>1. ManagerInv' /\ UNCHANGED <<caller, queue, observer>>
  BY ManagerStutterInv DEF managerVars
<1>2. UNCHANGED <<main, look, away>>
  BY DEF serverVars
<1>3. WorkerInv'
  BY <1>1, <1>2, WorkerSame
<1> QED
  BY <1>1, <1>3, ExecutorInv DEF TypeOK

(* The invariant is inductive.                                             *)
THEOREM Invariant == Spec => []IInv
<1>1. IInv /\ [Next]_vars => IInv'
  BY AcceptInv, AcceptStepInv, MainInv, ServeStepInv, TakesStageInv, ObserverInv, WorkerStepInv,
     StutterInv DEF Next
<1> QED
  BY <1>1, InitInv, PTL DEF Spec

----------------------------------------------------------------------------
(* What the server promises.                                               *)

(* Every variable keeps its type; completed_ never exceeds the number of   *)
(* requests.                                                               *)
THEOREM TypeCorrect == Spec => []TypeOK
<1>1. IInv => TypeOK
  BY DEF IInv
<1> QED
  BY <1>1, Invariant, PTL

(* The stages in flight, as a set.                                         *)
LEMMA LiveStages ==
  ASSUME ManagerInv, NEW id \in Ids
  PROVE  /\ Pending(id) => \E x : Live(id) = {x}
         /\ ~Pending(id) => Live(id) = {}
         /\ \A x \in Live(id) : Known(id) => jobs[id].stage <= x[2]
<1> USE DEF ManagerInv
<1>1. \A x : x \in Live(id) <=>
        \/ x \in queue /\ x[1] = id
        \/ \E e \in Executors : /\ Following(e) /\ observer[e].id = id
                                /\ x = <<id, observer[e].stage>>
  BY DEF Live, Following
<1>2. ASSUME ~Pending(id) PROVE Live(id) = {}
  BY <1>1, <1>2 DEF HoldInv
<1>3. ASSUME Pending(id) PROVE \E x : Live(id) = {x}
  <2>1. CASE \E p \in queue : p[1] = id
    <3>1. PICK p \in queue : p[1] = id
      BY <2>1
    <3>2. \A x : x \in Live(id) <=> x = p
      BY <1>1, <3>1 DEF HoldInv
    <3>3. Live(id) = {p}
      BY <3>2
    <3> QED
      BY <3>3
  <2>2. CASE \E e \in Executors : Following(e) /\ observer[e].id = id
    <3>1. PICK e \in Executors : Following(e) /\ observer[e].id = id
      BY <2>2
    <3>2. \A x : x \in Live(id) <=> x = <<id, observer[e].stage>>
      <4>1. \A p \in queue : p[1] # id
        BY <3>1 DEF HoldInv
      <4>2. \A f \in Executors : Following(f) /\ observer[f].id = id => f = e
        BY <3>1 DEF HoldInv
      <4> QED
        BY <1>1, <3>1, <4>1, <4>2
    <3>3. Live(id) = {<<id, observer[e].stage>>}
      BY <3>2
    <3> QED
      BY <3>3
  <2> QED
    BY <1>3, <2>1, <2>2 DEF HoldInv
<1>4. ASSUME NEW x \in Live(id), Known(id) PROVE jobs[id].stage <= x[2]
  <2>1. CASE x \in queue /\ x[1] = id
    BY <2>1 DEF StageInv
  <2>2. CASE \E e \in Executors : /\ Following(e) /\ observer[e].id = id
                                  /\ x = <<id, observer[e].stage>>
    BY <2>2 DEF StageInv
  <2> QED
    BY <1>1, <2>1, <2>2
<1> QED
  BY <1>2, <1>3, <1>4

(* A request is a chain: from the end of submit() until it is Done exactly *)
(* one of its stages is queued, running or about to be followed up.        *)
THEOREM Chain == Spec => []OneStageInFlight
<1>1. IInv => OneStageInFlight
  <2> SUFFICES ASSUME IInv, NEW id \in Ids
               PROVE  Cardinality(Live(id)) = IF Pending(id) THEN 1 ELSE 0
    BY DEF OneStageInFlight, Pending
  <2>1. CASE Pending(id)
    <3>1. PICK x : Live(id) = {x}
      BY <2>1, LiveStages DEF IInv
    <3> QED
      BY <2>1, <3>1, FS_Singleton
  <2>2. CASE ~Pending(id)
    BY <2>2, LiveStages, FS_EmptySet DEF IInv
  <2> QED
    BY <2>1, <2>2
<1> QED
  BY <1>1, Invariant, PTL

(* status() never shows a stage beyond the one in flight, though updates   *)
(* of the table arrive late and out of order.                              *)
THEOREM StatusLags == Spec => []StageNeverAhead
<1>1. IInv => StageNeverAhead
  BY LiveStages DEF IInv, StageNeverAhead
<1> QED
  BY <1>1, Invariant, PTL

(* What wait_all waits for means that every request is served.             *)
LEMMA Served ==
  ASSUME ManagerInv, Balanced
  PROVE  \A id \in Ids : Known(id) => IsDone(id) \/ InSubmit(id)
<1>1. queue = {} /\ Busy = {}
  BY BalancedIdle
<1>2. \A id \in Ids : ~Pending(id)
  BY <1>1 DEF ManagerInv, HoldInv, Busy, Following
<1> QED
  BY <1>2 DEF Pending

(* When the counters that wait_all compares agree, every job that is past  *)
(* submit() is Done, and completed_jobs_ counts exactly the Done jobs,     *)
(* although on_stage_done updates jobs_ after it submitted the next stage. *)
THEOREM WaitAllMeansServed == Spec => []BalancedMeansServed
<1>1. IInv => BalancedMeansServed
  <2> SUFFICES ASSUME IInv, Balanced PROVE BalancedMeansServed!2
    BY DEF BalancedMeansServed
  <2>1. \A id \in Ids : Known(id) => IsDone(id) \/ InSubmit(id)
    BY Served DEF IInv
  <2>2. completed = Cardinality({id \in Ids : IsDone(id)})
    BY DEF IInv, ManagerInv, LedgerInv, DoneIds
  <2> QED
    BY <2>1, <2>2
<1> QED
  BY <1>1, Invariant, PTL

(* Done is final: no late update of an earlier stage undoes it.            *)
THEOREM DoneStays == Spec => DoneIsFinal
<1>1. IInv /\ [Next]_vars => [\A id \in Ids : IsDone(id) => IsDone(id)']_managerVars
  <2> SUFFICES ASSUME IInv, [Next]_vars PROVE Onwards
    BY DEF Onwards
  <2>1. CASE UNCHANGED managerVars
    BY <2>1, StutterOnwards
  <2>2. ASSUME NEW e \in Executors,
               ObserverStep(e) \/ \E p \in queue : StageDone(e, p[1], p[2])
        PROVE  Onwards
    BY <2>2, ObserverOnwards DEF IInv
  <2>3. ASSUME NEW c \in Callers, HandleInfer(c) PROVE Onwards
    BY <2>3, SubmitOnwards DEF IInv, HandleInfer, SubmitReturn
  <2>4. \/ UNCHANGED managerVars
        \/ \E e \in Executors : ObserverStep(e) \/ \E p \in queue : StageDone(e, p[1], p[2])
        \/ \E c \in Callers : HandleInfer(c)
    <3>1. ASSUME NEW w \in Workers, WorkerStep(w)
          PROVE  UNCHANGED managerVars \/ \E p \in queue : StageDone(w, p[1], p[2])
      BY <3>1 DEF WorkerStep, LoadSubmitted, LoadCompleted, LoadShutdown, RunStage
    <3>2. ASSUME NEW e \in Executors, StageReported(e) \/ Observe(e)
          PROVE  ObserverStep(e) \/ \E p \in queue : StageDone(e, p[1], p[2])
      BY <3>2 DEF StageReported, Observe
    <3>3. ASSUME NEW c \in Callers, Accept(c) \/ ServeStep(c)
          PROVE  UNCHANGED managerVars \/ HandleInfer(c)
      BY <3>3 DEF Accept, ServeStep, RecvFail, Recv, Send
    <3>4. ASSUME AcceptFail \/ AcceptSpawn \/ StopHttp \/ StopStep
          PROVE  UNCHANGED managerVars
      BY <3>4 DEF AcceptFail, AcceptSpawn, StopHttp, StopStep, StopJoinAccept, StopJoinThreads,
                  StopNode, StopJoinWorkers
    <3> QED
      BY <3>1, <3>2, <3>3, <3>4, ServerAssumption DEF Next, vars
  <2> QED
    BY <2>1, <2>2, <2>3, <2>4
<1> QED
  BY <1>1, Invariant, PTL DEF Spec, DoneIsFinal

(* Nobody uses the Runtime after the main thread has destroyed it, though  *)
(* the workers may leave with stages yet to be run.                        *)
THEOREM RuntimeOutlives == Spec => []NothingOutlivesRuntime
<1>1. IInv => NothingOutlivesRuntime
  <2> SUFFICES ASSUME IInv, main \in {"stop node", "join workers", "exit"}
               PROVE  NothingOutlivesRuntime!2
    BY DEF NothingOutlivesRuntime
  <2>1. acceptor.at = "exit" /\ \A c \in Callers : conn[c] \in {"away", "closed"}
    BY DEF IInv, StopInv
  <2>2. ASSUME main = "exit", NEW e \in Executors PROVE observer[e] = NoStage
    BY <2>2 DEF IInv, WorkerInv
  <2> QED
    BY <2>1, <2>2
<1> QED
  BY <1>1, Invariant, PTL
=============================================================================
