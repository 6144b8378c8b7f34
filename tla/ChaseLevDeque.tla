--------------------------- MODULE ChaseLevDeque ---------------------------
(***************************************************************************)
(* The lock-free deque of one worker (include/runtime/ChaseLevDeque.hpp)   *)
(* at the grain of its atomic accesses.  One owner thread pushes and pops  *)
(* at the bottom, the threads in Thieves steal at the top.  top_, bottom_  *)
(* and buffer_ are read and written one at a time, so that every order of  *)
(* accesses of an owner and several thieves is a behaviour.                *)
(*                                                                         *)
(* Memory is sequentially consistent: the seq_cst fences of pop and steal  *)
(* and the seq_cst compare-exchanges order the accesses the algorithm      *)
(* depends on.  Accesses only the owner can observe (its relaxed loads of  *)
(* bottom_ and buffer_, and the copy made by grow before the new buffer is *)
(* published) are part of the step that follows them.                      *)
(***************************************************************************)
EXTENDS Integers, Sequences

CONSTANTS
  Tasks,     \* the tasks the owner may push, each at most once
  Thieves,   \* the threads that steal from this deque
  InitCap,   \* capacity of the first ring buffer, as next_pow2 rounded it
  NoTask     \* the null pointer in a slot that was never written

ASSUME InitCapAssumption == InitCap \in Nat \ {0}
ASSUME NoTaskAssumption == NoTask \notin Tasks

VARIABLES
  top,       \* top_: index of the oldest task
  bottom,    \* bottom_: one past the index of the newest task
  buffers,   \* old_buffers_ followed by buffer_, the current one
  opc,       \* where the owner stands inside push or pop
  b, t, x,   \* the owner's locals: bottom, the top it loaded, its task
  tpc,       \* where each thief stands inside steal
  tt,        \* the top each thief loaded
  tbuf,      \* the buffer each thief loaded, as an index of buffers
  tx,        \* the task pointer each thief read
  pushed,    \* history: the tasks the owner began to push
  taken      \* history: how many callers each task was handed to

ownerVars == <<opc, b, t, x>>
thiefVars == <<tpc, tt, tbuf, tx>>
shared == <<top, bottom, buffers>>
history == <<pushed, taken>>
vars == <<shared, ownerVars, thiefVars, history>>

----------------------------------------------------------------------------
(* RingBuffer.  A capacity is a power of two, so idx & mask is the         *)
(* remainder modulo the capacity.                                          *)

Buffer(cap) == [capacity : {cap}, slots : [0 .. cap - 1 -> Tasks \cup {NoTask}]]

NewBuffer(cap) == [capacity |-> cap, slots |-> [i \in 0 .. cap - 1 |-> NoTask]]

Get(buf, idx) == buf.slots[idx % buf.capacity]

Put(buf, idx, task) == [buf EXCEPT !.slots[idx % buf.capacity] = task]

(* Faulty variants: the copy starts one index late; the doubled capacity   *)
(* is recorded but the array is not enlarged.                              *)
Grow_SkipsOldest(buf, lo, hi) ==
  LET cap == 2 * buf.capacity
      At(s) == {i \in lo + 1 .. hi - 1 : i % cap = s}
  IN  [capacity |-> cap,
       slots |-> [s \in 0 .. cap - 1 |->
                    IF At(s) = {} THEN NoTask
                    ELSE Get(buf, CHOOSE i \in At(s) : TRUE)]]

Grow_SameArray(buf, lo, hi) == [buf EXCEPT !.capacity = 2 * @]

(* The doubled buffer holds the tasks at indices lo .. hi-1 of the old one.*)
Grow(buf, lo, hi) ==
  LET cap == 2 * buf.capacity
      At(s) == {i \in lo .. hi - 1 : i % cap = s}
  IN  [capacity |-> cap,
       slots |-> [s \in 0 .. cap - 1 |->
                    IF At(s) = {} THEN NoTask
                    ELSE Get(buf, CHOOSE i \in At(s) : TRUE)]]

Current == buffers[Len(buffers)]

----------------------------------------------------------------------------
Init ==
  /\ top = 0
  /\ bottom = 0
  /\ buffers = <<NewBuffer(InitCap)>>
  /\ opc = "idle" /\ b = 0 /\ t = 0 /\ x = NoTask
  /\ tpc = [h \in Thieves |-> "idle"]
  /\ tt = [h \in Thieves |-> 0]
  /\ tbuf = [h \in Thieves |-> 1]
  /\ tx = [h \in Thieves |-> NoTask]
  /\ pushed = {}
  /\ taken = [y \in Tasks |-> 0]

HandOver(y) == taken' = [taken EXCEPT ![y] = @ + 1]

(* The owner's call returns and its locals die.                            *)
OwnerReturn == opc' = "idle" /\ b' = 0 /\ t' = 0 /\ x' = NoTask

(* Faulty variants of the fullness test: it forgets the slot kept free, or *)
(* fires only after the buffer has overflowed.                             *)
PushLoad_NoSpareSlot(y) ==
  /\ opc = "idle"
  /\ y \notin pushed
  /\ x' = y
  /\ pushed' = pushed \cup {y}
  /\ b' = bottom
  /\ t' = top
  /\ opc' = IF bottom - top >= Current.capacity THEN "push_grow" ELSE "push_put"
  /\ UNCHANGED <<shared, thiefVars, taken>>

PushLoad_TooLate(y) ==
  /\ opc = "idle"
  /\ y \notin pushed
  /\ x' = y
  /\ pushed' = pushed \cup {y}
  /\ b' = bottom
  /\ t' = top
  /\ opc' = IF bottom - top > Current.capacity THEN "push_grow" ELSE "push_put"
  /\ UNCHANGED <<shared, thiefVars, taken>>

(* push: load bottom_ and top_, then grow the buffer or write into it.     *)
PushLoad(y) ==
  /\ opc = "idle"
  /\ y \notin pushed
  /\ x' = y
  /\ pushed' = pushed \cup {y}
  /\ b' = bottom
  /\ t' = top
  /\ opc' = IF bottom - top >= Current.capacity - 1 THEN "push_grow" ELSE "push_put"
  /\ UNCHANGED <<shared, thiefVars, taken>>

(* The old buffer stays reachable for a thief that loaded it.              *)
PushGrow ==
  /\ opc = "push_grow"
  /\ buffers' = Append(buffers, Grow(Current, t, b))
  /\ opc' = "push_put"
  /\ UNCHANGED <<top, bottom, b, t, x, thiefVars, history>>

PushPut ==
  /\ opc = "push_put"
  /\ buffers' = [buffers EXCEPT ![Len(buffers)] = Put(Current, b, x)]
  /\ opc' = "push_store"
  /\ UNCHANGED <<top, bottom, b, t, x, thiefVars, history>>

PushStore ==
  /\ opc = "push_store"
  /\ bottom' = b + 1
  /\ OwnerReturn
  /\ UNCHANGED <<top, buffers, thiefVars, history>>

(* pop: claim the last index by lowering bottom_ before looking at top_.   *)
PopStore ==
  /\ opc = "idle"
  /\ b' = bottom - 1
  /\ bottom' = bottom - 1
  /\ opc' = "pop_top"
  /\ UNCHANGED <<top, buffers, t, x, thiefVars, history>>

(* Faulty variant: the last task is mistaken for an empty deque.           *)
PopEmpty_LastIsEmpty ==
  /\ opc = "pop_top"
  /\ top >= b
  /\ t' = top
  /\ opc' = "pop_restore"
  /\ UNCHANGED <<shared, b, x, thiefVars, history>>

(* Already empty: bottom_ is still to be restored.                         *)
PopEmpty ==
  /\ opc = "pop_top"
  /\ top > b
  /\ t' = top
  /\ opc' = "pop_restore"
  /\ UNCHANGED <<shared, b, x, thiefVars, history>>

(* One task left: the owner has to win it against the thieves.             *)
PopLast ==
  /\ opc = "pop_top"
  /\ top = b
  /\ t' = top
  /\ x' = Get(Current, b)
  /\ opc' = "pop_cas"
  /\ UNCHANGED <<shared, b, thiefVars, history>>

(* Faulty variant: the last task is taken without racing for it.           *)
PopTake_NoRace ==
  /\ opc = "pop_top"
  /\ top <= b
  /\ HandOver(Get(Current, b))
  /\ OwnerReturn
  /\ UNCHANGED <<shared, thiefVars, pushed>>

(* Two or more tasks: index b is out of the thieves' reach.                *)
PopTake ==
  /\ opc = "pop_top"
  /\ top < b
  /\ HandOver(Get(Current, b))
  /\ OwnerReturn
  /\ UNCHANGED <<shared, thiefVars, pushed>>

PopWin ==
  /\ opc = "pop_cas"
  /\ top = t
  /\ top' = t + 1
  /\ HandOver(x)
  /\ opc' = "pop_restore"
  /\ UNCHANGED <<bottom, buffers, b, t, x, thiefVars, pushed>>

PopLose ==
  /\ opc = "pop_cas"
  /\ top # t
  /\ opc' = "pop_restore"
  /\ UNCHANGED <<shared, b, t, x, thiefVars, history>>

PopRestore ==
  /\ opc = "pop_restore"
  /\ bottom' = b + 1
  /\ OwnerReturn
  /\ UNCHANGED <<top, buffers, thiefVars, history>>

----------------------------------------------------------------------------
(* steal, by thief h.                                                      *)
ThiefReturn(h) ==
  /\ tpc' = [tpc EXCEPT ![h] = "idle"]
  /\ tt' = [tt EXCEPT ![h] = 0]
  /\ tbuf' = [tbuf EXCEPT ![h] = 1]
  /\ tx' = [tx EXCEPT ![h] = NoTask]

StealLoadTop(h) ==
  /\ tpc[h] = "idle"
  /\ tt' = [tt EXCEPT ![h] = top]
  /\ tpc' = [tpc EXCEPT ![h] = "bottom"]
  /\ UNCHANGED <<shared, ownerVars, tbuf, tx, history>>

(* Faulty variant: a deque of one task is taken for an empty one.          *)
StealEmpty_OneIsEmpty(h) ==
  /\ tpc[h] = "bottom"
  /\ tt[h] >= bottom - 1
  /\ ThiefReturn(h)
  /\ UNCHANGED <<shared, ownerVars, history>>

StealEmpty(h) ==
  /\ tpc[h] = "bottom"
  /\ tt[h] >= bottom
  /\ ThiefReturn(h)
  /\ UNCHANGED <<shared, ownerVars, history>>

StealLoadBottom(h) ==
  /\ tpc[h] = "bottom"
  /\ tt[h] < bottom
  /\ tpc' = [tpc EXCEPT ![h] = "buffer"]
  /\ UNCHANGED <<shared, ownerVars, tt, tbuf, tx, history>>

StealLoadBuffer(h) ==
  /\ tpc[h] = "buffer"
  /\ tbuf' = [tbuf EXCEPT ![h] = Len(buffers)]
  /\ tpc' = [tpc EXCEPT ![h] = "get"]
  /\ UNCHANGED <<shared, ownerVars, tt, tx, history>>

StealGet(h) ==
  /\ tpc[h] = "get"
  /\ tx' = [tx EXCEPT ![h] = Get(buffers[tbuf[h]], tt[h])]
  /\ tpc' = [tpc EXCEPT ![h] = "cas"]
  /\ UNCHANGED <<shared, ownerVars, tt, tbuf, history>>

StealWin(h) ==
  /\ tpc[h] = "cas"
  /\ top = tt[h]
  /\ top' = tt[h] + 1
  /\ HandOver(tx[h])
  /\ ThiefReturn(h)
  /\ UNCHANGED <<bottom, buffers, ownerVars, pushed>>

StealLose(h) ==
  /\ tpc[h] = "cas"
  /\ top # tt[h]
  /\ ThiefReturn(h)
  /\ UNCHANGED <<shared, ownerVars, history>>

----------------------------------------------------------------------------
PushStep == PushGrow \/ PushPut \/ PushStore

PopStep ==
  \/ PopEmpty \/ PopLast \/ PopTake
  \/ PopWin \/ PopLose \/ PopRestore

ThiefStep(h) ==
  \/ StealLoadTop(h) \/ StealEmpty(h) \/ StealLoadBottom(h)
  \/ StealLoadBuffer(h) \/ StealGet(h) \/ StealWin(h) \/ StealLose(h)

Next ==
  \/ \E y \in Tasks : PushLoad(y)
  \/ PushStep
  \/ PopStore
  \/ PopStep
  \/ \E h \in Thieves : ThiefStep(h)

Spec == Init /\ [][Next]_vars

(***************************************************************************)
(* The owner is a worker thread that keeps calling pop (Worker::run), and  *)
(* an operation once begun is carried on.  Nothing is assumed of thieves:  *)
(* one may stop for ever inside steal.                                     *)
(***************************************************************************)
FairSpec == Spec /\ WF_vars(PushStep) /\ WF_vars(PopStore \/ PopStep)

----------------------------------------------------------------------------
(* The tasks in the deque.  While a pop is under way bottom_ is one too    *)
(* low until its outcome is decided.                                       *)
InPop == opc \in {"pop_top", "pop_cas", "pop_restore"}

LogicalBottom == IF InPop THEN b + 1 ELSE bottom

Contents == [i \in 1 .. LogicalBottom - top |-> Get(Current, top + i - 1)]

Queued == {Get(Current, i) : i \in top .. LogicalBottom - 1}

BeingPushed == IF opc \in {"push_grow", "push_put", "push_store"} THEN {x} ELSE {}

Allocated == {buffers[k] : k \in DOMAIN buffers}

(* Every variable holds a value of its type in the C++ program.            *)
TypeOK ==
  /\ top \in Nat
  /\ bottom \in Int
  /\ buffers \in Seq(Allocated) \ {<<>>}
  /\ \A buf \in Allocated : buf.capacity \in Nat \ {0} /\ buf \in Buffer(buf.capacity)
  /\ opc \in {"idle", "push_grow", "push_put", "push_store",
              "pop_top", "pop_cas", "pop_restore"}
  /\ b \in Int /\ t \in Nat /\ x \in Tasks \cup {NoTask}
  /\ tpc \in [Thieves -> {"idle", "bottom", "buffer", "get", "cas"}]
  /\ tt \in [Thieves -> Nat]
  /\ tbuf \in [Thieves -> 1 .. Len(buffers)]
  /\ tx \in [Thieves -> Tasks \cup {NoTask}]
  /\ pushed \subseteq Tasks
  /\ taken \in [Tasks -> Nat]

(***************************************************************************)
(* No task is handed to two callers: a task_ptr that pop or steal moves    *)
(* from and deletes is moved from and deleted once, although owner and     *)
(* thieves may hold the same pointer at the same time.                     *)
(***************************************************************************)
NoDoubleTake == \A y \in Tasks : taken[y] <= 1

(***************************************************************************)
(* No task is lost: one whose push has begun is still in the owner's       *)
(* hands, lies in the current buffer between top and bottom, or was handed *)
(* over.  Growing the buffer, reusing a slot after wrap-around and a pop   *)
(* that lowers bottom_ while thieves read it must all keep this.           *)
(***************************************************************************)
NoLoss ==
  \A y \in pushed : y \in BeingPushed \/ y \in Queued \/ taken[y] > 0

(***************************************************************************)
(* The live indices fit the current buffer with the one slot to spare that *)
(* push keeps free, and top_ never overtakes bottom_ but by the one index  *)
(* a pop has claimed.                                                      *)
(***************************************************************************)
WithinCapacity ==
  /\ 0 <= LogicalBottom - top
  /\ LogicalBottom - top <= Current.capacity - 1

(***************************************************************************)
(* A pop that returns false returns it while the deque is empty.           *)
(***************************************************************************)
PopMissMeansEmpty ==
  [][PopEmpty \/ PopLose => Len(Contents) = 0]_vars

(***************************************************************************)
(* A steal that returns false because it saw t >= b leaves nothing behind  *)
(* but, at most, the single task the owner is popping at that moment.      *)
(***************************************************************************)
StealMissMeansEmpty ==
  [][\A h \in Thieves : StealEmpty(h) =>
        \/ Len(Contents) = 0
        \/ InPop /\ Len(Contents) = 1]_vars

(***************************************************************************)
(* The deque behaves as the sequence it stands for: each push, pop and     *)
(* steal takes effect in one step, pops at the new end, steals at the old. *)
(***************************************************************************)
Deque == INSTANCE WorkStealingDeque WITH queue <- Contents

ImplementsDeque == Deque!DequeSpec

(***************************************************************************)
(* A pushed task is handed to someone even if every thief stalls in the    *)
(* middle of a steal: a thief never blocks the owner.                      *)
(***************************************************************************)
EveryTaskTaken == \A y \in Tasks : y \in pushed ~> taken[y] > 0
=============================================================================
