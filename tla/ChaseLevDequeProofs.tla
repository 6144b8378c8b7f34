------------------------ MODULE ChaseLevDequeProofs ------------------------
(***************************************************************************)
(* Proofs about ChaseLevDeque for every set of tasks, every set of thieves *)
(* and every initial capacity.                                             *)
(***************************************************************************)
EXTENDS ChaseLevDeque, TLAPS

----------------------------------------------------------------------------
(* Arithmetic of ring indices.                                             *)

(* Division with remainder.                                                *)
LEMMA DivMod ==
  ASSUME NEW i \in Int, NEW c \in Nat \ {0}
  PROVE  /\ i = c * (i \div c) + (i % c)
         /\ i \div c \in Int
         /\ i % c \in 0 .. c - 1
OBVIOUS

(* A multiple of c that is smaller than c in absolute value is zero.       *)
LEMMA SmallMultiple ==
  ASSUME NEW c \in Nat \ {0}, NEW k \in Int, c * k < c, -c < c * k
  PROVE  k = 0
<1>1. CASE k >= 1
  BY <1>1
<1>2. CASE k <= -1
  BY <1>2
<1> QED
  BY <1>1, <1>2

(* Two indices less than a capacity apart use the same slot only if they   *)
(* are the same index: why a slot may be reused after wrap-around.         *)
LEMMA ModInjective ==
  ASSUME NEW i \in Int, NEW j \in Int, NEW c \in Nat \ {0},
         i % c = j % c, i - j < c, j - i < c
  PROVE  i = j
<1> DEFINE k == (i \div c) - (j \div c)
<1>1. i - j = c * k
  <2>1. c * ((i \div c) - (j \div c)) = c * (i \div c) - c * (j \div c)
    BY DivMod
  <2> QED
    BY <2>1, DivMod
<1>2. k \in Int
  BY DivMod
<1> HIDE DEF k
<1>3. k = 0
  <2>1. c * k < c /\ -c < c * k
    BY <1>1, <1>2
  <2> QED
    BY <2>1, <1>2, SmallMultiple
<1> QED
  BY <1>1, <1>3

----------------------------------------------------------------------------
(* The ring buffer operations.                                             *)

AnyBuffer == UNION {Buffer(c) : c \in Nat \ {0}}

(* A member of AnyBuffer is a buffer of its own capacity.                  *)
LEMMA BufferFields ==
  ASSUME NEW buf \in AnyBuffer
  PROVE  /\ buf.capacity \in Nat \ {0}
         /\ buf.slots \in [0 .. buf.capacity - 1 -> Tasks \cup {NoTask}]
         /\ buf \in Buffer(buf.capacity)
BY DEF AnyBuffer, Buffer

(* get reads a task pointer or the null pointer, whatever the index.       *)
LEMMA GetType ==
  ASSUME NEW buf \in AnyBuffer, NEW i \in Int
  PROVE  Get(buf, i) \in Tasks \cup {NoTask}
<1>1. i % buf.capacity \in 0 .. buf.capacity - 1
  BY BufferFields, DivMod
<1> QED
  BY <1>1, BufferFields DEF Get

(* put changes the slot of its index and no other.                         *)
LEMMA PutGet ==
  ASSUME NEW buf \in AnyBuffer, NEW j \in Int, NEW y \in Tasks \cup {NoTask}
  PROVE  /\ Put(buf, j, y) \in AnyBuffer
         /\ Put(buf, j, y).capacity = buf.capacity
         /\ Get(Put(buf, j, y), j) = y
         /\ \A i \in Int : i % buf.capacity # j % buf.capacity
                             => Get(Put(buf, j, y), i) = Get(buf, i)
<1> DEFINE c == buf.capacity
           p == Put(buf, j, y)
<1>1. c \in Nat \ {0} /\ buf \in Buffer(c)
  BY BufferFields
<1>2. j % c \in 0 .. c - 1
  BY <1>1, DivMod
<1>3. /\ p.capacity = c
      /\ p.slots = [buf.slots EXCEPT ![j % c] = y]
      /\ p \in Buffer(c)
  BY <1>1, <1>2 DEF Put, Buffer
<1>4. p \in AnyBuffer
  BY <1>1, <1>3 DEF AnyBuffer
<1>5. \A i \in Int : i % c \in 0 .. c - 1
  BY <1>1, DivMod
<1>6. Get(p, j) = y
  BY <1>1, <1>2, <1>3 DEF Get, Buffer
<1>7. \A i \in Int : i % c # j % c => Get(p, i) = Get(buf, i)
  BY <1>1, <1>2, <1>3, <1>5 DEF Get, Buffer
<1> QED
  BY <1>3, <1>4, <1>6, <1>7

(* grow makes a buffer twice as big.                                       *)
LEMMA GrowType ==
  ASSUME NEW buf \in AnyBuffer, NEW lo \in Int, NEW hi \in Int
  PROVE  /\ Grow(buf, lo, hi) \in AnyBuffer
         /\ Grow(buf, lo, hi).capacity = 2 * buf.capacity
<1> DEFINE c == 2 * buf.capacity
           At(s) == {i \in lo .. hi - 1 : i % c = s}
           g == Grow(buf, lo, hi)
<1>1. c \in Nat \ {0}
  BY BufferFields
<1>2. /\ g.capacity = c
      /\ g.slots = [s \in 0 .. c - 1 |->
                      IF At(s) = {} THEN NoTask
                      ELSE Get(buf, CHOOSE i \in At(s) : TRUE)]
      /\ g = [capacity |-> g.capacity, slots |-> g.slots]
  BY DEF Grow
<1>3. \A s \in 0 .. c - 1 : g.slots[s] \in Tasks \cup {NoTask}
  <2> SUFFICES ASSUME NEW s \in 0 .. c - 1, At(s) # {}
               PROVE  Get(buf, CHOOSE i \in At(s) : TRUE) \in Tasks \cup {NoTask}
    BY <1>2
  <2>1. (CHOOSE i \in At(s) : TRUE) \in Int
    OBVIOUS
  <2> QED
    BY <2>1, GetType
<1>4. g \in Buffer(c)
  BY <1>2, <1>3 DEF Buffer
<1> QED
  BY <1>1, <1>2, <1>4 DEF AnyBuffer

(* grow keeps every task of the range it copies.                           *)
LEMMA GrowGet ==
  ASSUME NEW buf \in AnyBuffer, NEW lo \in Int, NEW hi \in Int,
         hi - lo < buf.capacity
  PROVE  \A i \in lo .. hi - 1 : Get(Grow(buf, lo, hi), i) = Get(buf, i)
<1> DEFINE c == 2 * buf.capacity
           At(s) == {i \in lo .. hi - 1 : i % c = s}
           g == Grow(buf, lo, hi)
<1>1. c \in Nat \ {0}
  BY BufferFields
<1>2. /\ g.capacity = c
      /\ g.slots = [s \in 0 .. c - 1 |->
                      IF At(s) = {} THEN NoTask
                      ELSE Get(buf, CHOOSE i \in At(s) : TRUE)]
  BY DEF Grow
<1>3. ASSUME NEW i \in lo .. hi - 1
      PROVE  Get(g, i) = Get(buf, i)
  <2>1. i % c \in 0 .. c - 1
    <3>1. i \in Int
      OBVIOUS
    <3> HIDE DEF c
    <3> QED
      BY <3>1, <1>1, DivMod
  <2>2. i \in At(i % c)
    OBVIOUS
  <2>3. ASSUME NEW j \in At(i % c)
        PROVE  j = i
    <3>1. j \in Int /\ i \in Int /\ j % c = i % c /\ j - i < c /\ i - j < c
      BY <1>1, BufferFields
    <3> QED
      BY <3>1, <1>1, ModInjective
  <2>4. (CHOOSE j \in At(i % c) : TRUE) = i
    BY <2>2, <2>3
  <2>5. g.slots[i % c] = Get(buf, i)
    BY <1>2, <2>1, <2>2, <2>4
  <2> QED
    BY <1>2, <2>5 DEF Get
<1> QED
  BY <1>3

----------------------------------------------------------------------------
(* The inductive invariant.                                                *)

Elem(i) == Get(Current, i)

(* What the owner knows inside push: its bottom is exact, its top may be   *)
(* stale but only too low, and slot b is free.                             *)
PushInv ==
  opc \in {"push_grow", "push_put", "push_store"} =>
    /\ b = bottom
    /\ t <= top
    /\ x \in pushed /\ taken[x] = 0
    /\ \A i \in top .. bottom - 1 : Elem(i) # x
    /\ opc = "push_grow" => b - t <= Current.capacity - 1
    /\ opc # "push_grow" => b - top <= Current.capacity - 2
    /\ opc = "push_store" => Elem(b) = x

(* What the owner knows inside pop: it lowered bottom_, and once it has    *)
(* failed or won the race for the last task the deque is empty.            *)
PopInv ==
  InPop =>
    /\ bottom = b
    /\ opc = "pop_cas" => t = b /\ t <= top /\ x = Elem(b)
    /\ opc = "pop_restore" => top = b + 1

(* The tasks between top and bottom are pushed, untaken and distinct.      *)
ContentInv ==
  /\ \A i \in top .. LogicalBottom - 1 : Elem(i) \in pushed /\ taken[Elem(i)] = 0
  /\ \A i, j \in top .. LogicalBottom - 1 : Elem(i) = Elem(j) => i = j

(* A thief whose top is still current holds, or will read, the oldest task *)
(* even if the buffer it loaded has been replaced since.                   *)
ThiefInv ==
  \A h \in Thieves :
    /\ tpc[h] # "idle" => tt[h] <= top
    /\ tpc[h] \in {"buffer", "get", "cas"} /\ tt[h] = top =>
         /\ top < LogicalBottom
         /\ tpc[h] = "get" => Get(buffers[tbuf[h]], top) = Elem(top)
         /\ tpc[h] = "cas" => tx[h] = Elem(top)

TakenWerePushed == \A y \in Tasks : taken[y] > 0 => y \in pushed

IInv ==
  /\ TypeOK
  /\ WithinCapacity
  /\ PushInv
  /\ PopInv
  /\ ContentInv
  /\ ThiefInv
  /\ NoDoubleTake
  /\ TakenWerePushed
  /\ NoLoss

----------------------------------------------------------------------------
(* Types.                                                                  *)

(* In a type-correct state every allocated buffer is one, the current too. *)
LEMMA BufferTypes ==
  ASSUME TypeOK
  PROVE  /\ buffers \in Seq(AnyBuffer)
         /\ Len(buffers) \in Nat \ {0}
         /\ \A k \in 1 .. Len(buffers) : buffers[k] \in AnyBuffer
         /\ Current \in AnyBuffer
         /\ Current.capacity \in Nat \ {0}
<1>1. buffers \in Seq(Allocated) /\ buffers # <<>>
  BY DEF TypeOK
<1>2. \A buf \in Allocated : buf \in AnyBuffer
  BY DEF TypeOK, AnyBuffer
<1>3. \A k \in 1 .. Len(buffers) : buffers[k] \in AnyBuffer
  BY <1>1, <1>2
<1>4. buffers \in Seq(AnyBuffer) /\ Len(buffers) \in Nat \ {0}
  BY <1>1, <1>3
<1>5. Current \in AnyBuffer
  BY <1>3, <1>4 DEF Current
<1> QED
  BY <1>3, <1>4, <1>5, BufferFields

(* The part of TypeOK that is about buffers, for any sequence of buffers.  *)
LEMMA BuffersOK ==
  ASSUME NEW s \in Seq(AnyBuffer), s # <<>>
  PROVE  LET A == {s[k] : k \in DOMAIN s}
         IN  /\ s \in Seq(A) \ {<<>>}
             /\ \A buf \in A : buf.capacity \in Nat \ {0} /\ buf \in Buffer(buf.capacity)
<1> DEFINE A == {s[k] : k \in DOMAIN s}
<1>1. \A k \in 1 .. Len(s) : s[k] \in A
  OBVIOUS
<1>2. s \in Seq(A)
  BY <1>1
<1>3. \A buf \in A : buf \in AnyBuffer
  OBVIOUS
<1> QED
  BY <1>2, <1>3, BufferFields

(* Handing a task over keeps the counts of all tasks natural numbers.      *)
LEMMA HandOverType ==
  ASSUME NEW y, taken \in [Tasks -> Nat], HandOver(y)
  PROVE  taken' \in [Tasks -> Nat]
<1>1. CASE y \in Tasks
  BY <1>1 DEF HandOver
<1>2. CASE y \notin Tasks
  <2>1. taken' = taken
    BY <1>2 DEF HandOver
  <2> QED
    BY <2>1
<1> QED
  BY <1>1, <1>2

(* Every step keeps every variable in its type.                            *)
LEMMA TypeStep ==
  ASSUME TypeOK, [Next]_vars
  PROVE  TypeOK'
<1> USE DEF OwnerReturn, ThiefReturn, shared, ownerVars, thiefVars, history
<1>0. /\ buffers \in Seq(AnyBuffer) /\ Len(buffers) \in Nat \ {0} /\ buffers # <<>>
      /\ Current \in AnyBuffer
      /\ \A k \in 1 .. Len(buffers) : buffers[k] \in AnyBuffer
  BY BufferTypes DEF TypeOK
<1>1. ASSUME NEW y \in Tasks, PushLoad(y) PROVE TypeOK'
  BY <1>1 DEF PushLoad, TypeOK, Allocated
<1>2. CASE PushGrow
  <2>1. t \in Int /\ b \in Int
    BY DEF TypeOK
  <2>2. Grow(Current, t, b) \in AnyBuffer
    BY <1>0, <2>1, GrowType
  <2>3. buffers' \in Seq(AnyBuffer) /\ buffers' # <<>> /\ Len(buffers') = Len(buffers) + 1
    BY <1>0, <1>2, <2>2 DEF PushGrow
  <2>4. /\ buffers' \in Seq(Allocated') \ {<<>>}
        /\ \A buf \in Allocated' : buf.capacity \in Nat \ {0} /\ buf \in Buffer(buf.capacity)
    BY <2>3, BuffersOK DEF Allocated
  <2>5. tbuf' \in [Thieves -> 1 .. Len(buffers')]
    BY <1>0, <1>2, <2>3 DEF PushGrow, TypeOK
  <2> QED
    BY <1>2, <2>4, <2>5 DEF PushGrow, TypeOK
<1>3. CASE PushPut
  <2>1. b \in Int /\ x \in Tasks \cup {NoTask}
    BY DEF TypeOK
  <2>2. Put(Current, b, x) \in AnyBuffer
    BY <1>0, <2>1, PutGet
  <2>3. buffers' \in Seq(AnyBuffer) /\ buffers' # <<>> /\ Len(buffers') = Len(buffers)
    BY <1>0, <1>3, <2>2 DEF PushPut
  <2>4. /\ buffers' \in Seq(Allocated') \ {<<>>}
        /\ \A buf \in Allocated' : buf.capacity \in Nat \ {0} /\ buf \in Buffer(buf.capacity)
    BY <2>3, BuffersOK DEF Allocated
  <2> QED
    BY <1>3, <2>3, <2>4 DEF PushPut, TypeOK
<1>4. CASE PushStore
  BY <1>4 DEF PushStore, TypeOK, Allocated
<1>5. CASE PopStore
  BY <1>5 DEF PopStore, TypeOK, Allocated
<1>6. CASE PopEmpty
  BY <1>6 DEF PopEmpty, TypeOK, Allocated
<1>7. CASE PopLast
  <2>1. Get(Current, b) \in Tasks \cup {NoTask}
    BY <1>0, GetType DEF TypeOK
  <2> QED
    BY <1>7, <2>1 DEF PopLast, TypeOK, Allocated
<1>8. CASE PopTake
  <2>1. taken' \in [Tasks -> Nat]
    BY <1>8, HandOverType DEF PopTake, TypeOK
  <2> QED
    BY <1>8, <2>1 DEF PopTake, TypeOK, Allocated
<1>9. CASE PopWin
  <2>1. taken' \in [Tasks -> Nat]
    BY <1>9, HandOverType DEF PopWin, TypeOK
  <2> QED
    BY <1>9, <2>1 DEF PopWin, TypeOK, Allocated
<1>10. CASE PopLose
  BY <1>10 DEF PopLose, TypeOK, Allocated
<1>11. CASE PopRestore
  BY <1>11 DEF PopRestore, TypeOK, Allocated
<1>12. ASSUME NEW h \in Thieves, ThiefStep(h) PROVE TypeOK'
  <2>1. CASE StealLoadTop(h)
    BY <2>1 DEF StealLoadTop, TypeOK, Allocated
  <2>2. CASE StealEmpty(h)
    BY <1>0, <2>2 DEF StealEmpty, TypeOK, Allocated
  <2>3. CASE StealLoadBottom(h)
    BY <2>3 DEF StealLoadBottom, TypeOK, Allocated
  <2>4. CASE StealLoadBuffer(h)
    BY <1>0, <2>4 DEF StealLoadBuffer, TypeOK, Allocated
  <2>5. CASE StealGet(h)
    <3>1. Get(buffers[tbuf[h]], tt[h]) \in Tasks \cup {NoTask}
      <4>1. tbuf[h] \in 1 .. Len(buffers) /\ tt[h] \in Int
        BY DEF TypeOK
      <4> QED
        BY <1>0, <4>1, GetType
    <3> QED
      BY <2>5, <3>1 DEF StealGet, TypeOK, Allocated
  <2>6. CASE StealWin(h)
    <3>1. taken' \in [Tasks -> Nat]
      BY <2>6, HandOverType DEF StealWin, TypeOK
    <3> QED
      BY <1>0, <2>6, <3>1 DEF StealWin, TypeOK, Allocated
  <2>7. CASE StealLose(h)
    BY <1>0, <2>7 DEF StealLose, TypeOK, Allocated
  <2> QED
    BY <1>12, <2>1, <2>2, <2>3, <2>4, <2>5, <2>6, <2>7 DEF ThiefStep
<1>13. CASE UNCHANGED vars
  BY <1>13 DEF vars, TypeOK, Allocated
<1> QED
  BY <1>1, <1>2, <1>3, <1>4, <1>5, <1>6, <1>7, <1>8, <1>9, <1>10, <1>11, <1>12, <1>13
     DEF Next, PushStep, PopStep

(* Initially every variable has its type.                                  *)
LEMMA InitType ==
  ASSUME Init
  PROVE  TypeOK
<1>1. NewBuffer(InitCap) \in AnyBuffer
  BY InitCapAssumption DEF NewBuffer, AnyBuffer, Buffer
<1>2. buffers \in Seq(AnyBuffer) /\ buffers # <<>> /\ Len(buffers) = 1
  BY <1>1 DEF Init
<1>3. /\ buffers \in Seq(Allocated) \ {<<>>}
      /\ \A buf \in Allocated : buf.capacity \in Nat \ {0} /\ buf \in Buffer(buf.capacity)
  BY <1>2, BuffersOK DEF Allocated
<1> QED
  BY <1>2, <1>3 DEF Init, TypeOK

(* The variables have their types in every reachable state.                *)
THEOREM TypeCorrect == Spec => []TypeOK
<1>1. Init => TypeOK
  BY InitType
<1>2. TypeOK /\ [Next]_vars => TypeOK'
  BY TypeStep
<1> QED
  BY <1>1, <1>2, PTL DEF Spec

----------------------------------------------------------------------------
(* The invariant is inductive.                                             *)

(* The integers the steps below reason about.                              *)
LEMMA Numbers ==
  ASSUME TypeOK
  PROVE  /\ top \in Nat /\ bottom \in Int /\ b \in Int /\ t \in Nat
         /\ LogicalBottom \in Int
         /\ Current.capacity \in Nat \ {0}
         /\ tt \in [Thieves -> Nat]
         /\ pushed \subseteq Tasks
         /\ taken \in [Tasks -> Nat]
BY BufferTypes DEF TypeOK, LogicalBottom

(* A task no caller had is now one caller's, and no other count changes.   *)
LEMMA HandOverOnce ==
  ASSUME TypeOK, NEW y \in Tasks, taken[y] = 0, HandOver(y)
  PROVE  /\ taken'[y] = 1
         /\ \A z \in Tasks : z # y => taken'[z] = taken[z]
BY DEF HandOver, TypeOK

(* The invariant holds initially: nothing is queued and nobody is at work. *)
LEMMA InitIInv ==
  ASSUME Init, TypeOK
  PROVE  IInv
<1>1. top = 0 /\ bottom = 0 /\ LogicalBottom = 0 /\ opc = "idle"
  BY DEF Init, LogicalBottom, InPop
<1>2. WithinCapacity
  BY <1>1, Numbers DEF WithinCapacity
<1>3. PushInv /\ PopInv /\ ContentInv
  BY <1>1 DEF PushInv, PopInv, ContentInv, InPop
<1>4. ThiefInv
  BY DEF Init, ThiefInv
<1>5. NoDoubleTake /\ TakenWerePushed /\ NoLoss
  BY DEF Init, NoDoubleTake, TakenWerePushed, NoLoss
<1> QED
  BY <1>2, <1>3, <1>4, <1>5 DEF IInv

(* push reads bottom_ and top_.                                            *)
LEMMA PushLoadStep ==
  ASSUME IInv, TypeOK', NEW y \in Tasks, PushLoad(y)
  PROVE  IInv'
<1> USE DEF PushLoad, IInv, shared, thiefVars
<1>1. /\ Current' = Current /\ LogicalBottom' = LogicalBottom /\ LogicalBottom = bottom
      /\ opc = "idle" /\ opc' \in {"push_grow", "push_put"}
      /\ UNCHANGED <<top, bottom, taken>>
  BY DEF Current, LogicalBottom, InPop
<1>2. \A i : Elem(i)' = Elem(i)
  BY <1>1 DEF Elem
<1>3. taken[y] = 0
  BY Numbers DEF TakenWerePushed
<1>4. \A i \in top .. bottom - 1 : Elem(i) # y
  BY <1>1 DEF ContentInv
<1>5. WithinCapacity'
  BY <1>1 DEF WithinCapacity
<1>6. PushInv'
  BY <1>1, <1>2, <1>3, <1>4, Numbers DEF PushInv, WithinCapacity
<1>7. PopInv'
  BY <1>1 DEF PopInv, InPop
<1>8. ContentInv'
  BY <1>1, <1>2 DEF ContentInv
<1>9. ThiefInv'
  BY <1>1, <1>2 DEF ThiefInv
<1>10. NoDoubleTake' /\ TakenWerePushed'
  BY <1>1 DEF NoDoubleTake, TakenWerePushed
<1>11. NoLoss'
  <2>1. Queued' = Queued
    BY <1>1, <1>2 DEF Queued, Elem
  <2> QED
    BY <1>1, <2>1 DEF NoLoss, BeingPushed
<1> QED
  BY <1>5, <1>6, <1>7, <1>8, <1>9, <1>10, <1>11

(* push publishes a bigger buffer holding the same tasks.                  *)
LEMMA PushGrowStep ==
  ASSUME IInv, TypeOK', PushGrow
  PROVE  IInv'
<1> USE DEF PushGrow, IInv, thiefVars, history
<1>1. /\ LogicalBottom' = LogicalBottom /\ LogicalBottom = bottom /\ b = bottom /\ t <= top
      /\ b - t < Current.capacity
      /\ opc = "push_grow" /\ opc' = "push_put"
      /\ UNCHANGED <<top, bottom, b, t, x, pushed, taken, tpc, tt, tbuf, tx>>
  BY Numbers DEF LogicalBottom, InPop, PushInv
<1>2. /\ Current' = Grow(Current, t, b)
      /\ Len(buffers') = Len(buffers) + 1
      /\ \A k \in 1 .. Len(buffers) : buffers'[k] = buffers[k]
  BY BufferTypes DEF Current
<1>3. Current'.capacity = 2 * Current.capacity
  BY <1>2, BufferTypes, Numbers, GrowType
<1>4. \A i \in top .. bottom - 1 : Elem(i)' = Elem(i)
  <2>1. \A i \in t .. b - 1 : Get(Current', i) = Get(Current, i)
    BY <1>1, <1>2, BufferTypes, Numbers, GrowGet
  <2> QED
    BY <1>1, <2>1, Numbers DEF Elem
<1>5. WithinCapacity'
  BY <1>1, <1>3, Numbers DEF WithinCapacity
<1>6. PushInv'
  BY <1>1, <1>3, <1>4, Numbers DEF PushInv
<1>7. PopInv'
  BY <1>1 DEF PopInv, InPop
<1>8. ContentInv'
  BY <1>1, <1>4 DEF ContentInv
<1>9. ThiefInv'
  <2> SUFFICES ASSUME NEW h \in Thieves, tpc[h] \in {"buffer", "get", "cas"}, tt[h] = top
               PROVE  /\ top < LogicalBottom
                      /\ tpc[h] = "get" => Get(buffers'[tbuf[h]], top) = Elem(top)'
                      /\ tpc[h] = "cas" => tx[h] = Elem(top)'
    BY <1>1 DEF ThiefInv
  <2>1. top < LogicalBottom /\ Elem(top)' = Elem(top)
    BY <1>1, <1>4, Numbers DEF ThiefInv
  <2>2. buffers'[tbuf[h]] = buffers[tbuf[h]]
    BY <1>2 DEF TypeOK
  <2> QED
    BY <2>1, <2>2 DEF ThiefInv
<1>10. NoDoubleTake' /\ TakenWerePushed'
  BY <1>1 DEF NoDoubleTake, TakenWerePushed
<1>11. NoLoss'
  <2>1. Queued' = Queued
    BY <1>1, <1>4 DEF Queued, Elem
  <2> QED
    BY <1>1, <2>1 DEF NoLoss, BeingPushed
<1> QED
  BY <1>5, <1>6, <1>7, <1>8, <1>9, <1>10, <1>11

(* push writes slot b, which no live index shares.                         *)
LEMMA PushPutStep ==
  ASSUME IInv, TypeOK', PushPut
  PROVE  IInv'
<1> USE DEF PushPut, IInv, thiefVars, history
<1>1. /\ LogicalBottom' = LogicalBottom /\ LogicalBottom = bottom /\ b = bottom
      /\ b - top <= Current.capacity - 2
      /\ opc = "push_put" /\ opc' = "push_store"
      /\ UNCHANGED <<top, bottom, b, t, x, pushed, taken, tpc, tt, tbuf, tx>>
  BY Numbers DEF LogicalBottom, InPop, PushInv
<1>2. /\ Current' = Put(Current, b, x)
      /\ Len(buffers') = Len(buffers)
      /\ \A k \in 1 .. Len(buffers) : k # Len(buffers) => buffers'[k] = buffers[k]
  BY BufferTypes DEF Current
<1>3. x \in Tasks \cup {NoTask}
  BY DEF TypeOK
<1>4. /\ Current'.capacity = Current.capacity
      /\ Elem(b)' = x
      /\ \A i \in Int : i % Current.capacity # b % Current.capacity
                          => Elem(i)' = Elem(i)
  <2>1. /\ Put(Current, b, x).capacity = Current.capacity
        /\ Get(Put(Current, b, x), b) = x
        /\ \A i \in Int : i % Current.capacity # b % Current.capacity
                            => Get(Put(Current, b, x), i) = Get(Current, i)
    BY <1>3, BufferTypes, Numbers, PutGet
  <2> QED
    BY <1>1, <1>2, <2>1 DEF Elem
<1>5. \A i \in top .. bottom - 1 : Elem(i)' = Elem(i)
  <2> SUFFICES ASSUME NEW i \in top .. bottom - 1
               PROVE  i % Current.capacity # b % Current.capacity
    BY <1>4, Numbers
  <2>1. i \in Int /\ b \in Int /\ i # b /\ i - b < Current.capacity /\ b - i < Current.capacity
    BY <1>1, Numbers
  <2> QED
    BY <2>1, Numbers, ModInjective
<1>6. WithinCapacity'
  BY <1>1, <1>4 DEF WithinCapacity
<1>7. PushInv'
  BY <1>1, <1>4, <1>5, Numbers DEF PushInv
<1>8. PopInv'
  BY <1>1 DEF PopInv, InPop
<1>9. ContentInv'
  BY <1>1, <1>5 DEF ContentInv
<1>10. ThiefInv'
  <2> SUFFICES ASSUME NEW h \in Thieves, tpc[h] \in {"buffer", "get", "cas"}, tt[h] = top
               PROVE  /\ top < LogicalBottom
                      /\ tpc[h] = "get" => Get(buffers'[tbuf[h]], top) = Elem(top)'
                      /\ tpc[h] = "cas" => tx[h] = Elem(top)'
    BY <1>1 DEF ThiefInv
  <2>1. top < LogicalBottom /\ Elem(top)' = Elem(top)
    BY <1>1, <1>5, Numbers DEF ThiefInv
  <2>2. CASE tbuf[h] = Len(buffers)
    <3>1. buffers'[tbuf[h]] = Current'
      BY <1>2, <2>2 DEF Current
    <3> QED
      BY <1>1, <2>1, <3>1 DEF ThiefInv, Elem
  <2>3. CASE tbuf[h] # Len(buffers)
    <3>1. buffers'[tbuf[h]] = buffers[tbuf[h]]
      BY <1>2, <2>3 DEF TypeOK
    <3> QED
      BY <2>1, <3>1 DEF ThiefInv
  <2> QED
    BY <2>2, <2>3
<1>11. NoDoubleTake' /\ TakenWerePushed'
  BY <1>1 DEF NoDoubleTake, TakenWerePushed
<1>12. NoLoss'
  <2>1. Queued' = Queued
    BY <1>1, <1>5 DEF Queued, Elem
  <2> QED
    BY <1>1, <2>1 DEF NoLoss, BeingPushed
<1> QED
  BY <1>6, <1>7, <1>8, <1>9, <1>10, <1>11, <1>12

(* push makes the written task visible by raising bottom_.                 *)
LEMMA PushStoreStep ==
  ASSUME IInv, TypeOK', PushStore
  PROVE  IInv'
<1> USE DEF PushStore, OwnerReturn, IInv, thiefVars, history
<1>1. /\ Current' = Current
      /\ LogicalBottom = bottom /\ LogicalBottom' = bottom + 1 /\ b = bottom
      /\ b - top <= Current.capacity - 2
      /\ opc = "push_store" /\ opc' = "idle"
      /\ UNCHANGED <<top, pushed, taken, buffers, tpc, tt, tbuf, tx>>
  BY Numbers DEF LogicalBottom, InPop, PushInv, Current
<1>2. \A i : Elem(i)' = Elem(i)
  BY <1>1 DEF Elem
<1>3. /\ Elem(b) = x /\ x \in pushed /\ taken[x] = 0
      /\ \A i \in top .. bottom - 1 : Elem(i) # x
  BY <1>1 DEF PushInv
<1>4. WithinCapacity'
  BY <1>1, Numbers DEF WithinCapacity
<1>5. PushInv' /\ PopInv'
  BY <1>1 DEF PushInv, PopInv, InPop
<1>6. ContentInv'
  <2>1. top .. LogicalBottom' - 1 = (top .. LogicalBottom - 1) \cup {b}
    BY <1>1, Numbers DEF WithinCapacity
  <2> QED
    BY <1>1, <1>2, <1>3, <2>1 DEF ContentInv
<1>7. ThiefInv'
  BY <1>1, <1>2, Numbers DEF ThiefInv
<1>8. NoDoubleTake' /\ TakenWerePushed'
  BY <1>1 DEF NoDoubleTake, TakenWerePushed
<1>9. NoLoss'
  <2>1. Queued' = Queued \cup {x}
    <3>1. top .. LogicalBottom' - 1 = (top .. LogicalBottom - 1) \cup {b}
      BY <1>1, Numbers DEF WithinCapacity
    <3> QED
      BY <1>1, <1>2, <1>3, <3>1 DEF Queued, Elem
  <2> QED
    BY <1>1, <2>1 DEF NoLoss, BeingPushed
<1> QED
  BY <1>4, <1>5, <1>6, <1>7, <1>8, <1>9

(* Steps that move the owner along inside pop, or finish it, with nothing  *)
(* changing hands.                                                         *)
LEMMA PopQuietStep ==
  ASSUME IInv, TypeOK', PopStore \/ PopEmpty \/ PopLast \/ PopLose \/ PopRestore
  PROVE  IInv'
<1> USE DEF IInv
<1>1. /\ LogicalBottom' = LogicalBottom
      /\ UNCHANGED <<top, buffers, pushed, taken, tpc, tt, tbuf, tx>>
      /\ BeingPushed = {} /\ BeingPushed' = {}
  BY Numbers DEF LogicalBottom, InPop, PopInv, BeingPushed, PopStore, PopEmpty, PopLast,
       PopLose, PopRestore, OwnerReturn, shared, thiefVars, history
<1>2. Current' = Current /\ \A i : Elem(i)' = Elem(i)
  BY <1>1 DEF Elem, Current
<1>3. WithinCapacity'
  BY <1>1, <1>2 DEF WithinCapacity
<1>4. PushInv'
  BY DEF PushInv, PopStore, PopEmpty, PopLast, PopLose, PopRestore, OwnerReturn
<1>5. PopInv'
  <2>1. CASE PopStore
    BY <2>1, Numbers DEF PopStore, PopInv, InPop
  <2>2. CASE PopEmpty
    <3>1. top <= b + 1 /\ bottom = b
      BY <2>2, Numbers DEF PopEmpty, PopInv, WithinCapacity, LogicalBottom, InPop
    <3> QED
      BY <2>2, <3>1, Numbers DEF PopEmpty, PopInv, InPop, shared
  <2>3. CASE PopLast
    BY <2>3, <1>2, Numbers DEF PopLast, PopInv, InPop, shared, Elem
  <2>4. CASE PopLose
    <3>1. top <= b + 1 /\ bottom = b /\ t = b /\ t <= top /\ top # t
      BY <2>4, Numbers DEF PopLose, PopInv, WithinCapacity, LogicalBottom, InPop
    <3> QED
      BY <2>4, <3>1, Numbers DEF PopLose, PopInv, InPop, shared
  <2>5. CASE PopRestore
    BY <2>5 DEF PopRestore, PopInv, InPop, OwnerReturn
  <2> QED
    BY <2>1, <2>2, <2>3, <2>4, <2>5
<1>6. ContentInv'
  BY <1>1, <1>2 DEF ContentInv
<1>7. ThiefInv'
  BY <1>1, <1>2 DEF ThiefInv
<1>8. NoDoubleTake' /\ TakenWerePushed'
  BY <1>1 DEF NoDoubleTake, TakenWerePushed
<1>9. NoLoss'
  <2>1. Queued' = Queued
    BY <1>1, <1>2 DEF Queued, Elem
  <2> QED
    BY <1>1, <2>1 DEF NoLoss
<1> QED
  BY <1>3, <1>4, <1>5, <1>6, <1>7, <1>8, <1>9

(* pop takes a task that thieves cannot reach.                             *)
LEMMA PopTakeStep ==
  ASSUME IInv, TypeOK', PopTake
  PROVE  IInv'
<1> USE DEF PopTake, OwnerReturn, IInv, shared, thiefVars
<1>1. /\ LogicalBottom = b + 1 /\ LogicalBottom' = b /\ top < b
      /\ opc = "pop_top" /\ opc' = "idle"
      /\ UNCHANGED <<top, buffers, bottom, pushed, tpc, tt, tbuf, tx>>
  BY Numbers DEF LogicalBottom, InPop, PopInv
<1>2. Current' = Current /\ \A i : Elem(i)' = Elem(i)
  BY <1>1 DEF Elem, Current
<1>3. top .. LogicalBottom - 1 = (top .. LogicalBottom' - 1) \cup {b}
  BY <1>1, Numbers
<1>4. /\ Elem(b) \in Tasks /\ Elem(b) \in pushed /\ taken[Elem(b)] = 0
      /\ \A i \in top .. LogicalBottom' - 1 : Elem(i) # Elem(b)
  BY <1>1, <1>3, Numbers DEF ContentInv
<1>5. /\ taken'[Elem(b)] = 1
      /\ \A z \in Tasks : z # Elem(b) => taken'[z] = taken[z]
  BY <1>4, HandOverOnce DEF Elem
<1>6. WithinCapacity'
  BY <1>1, <1>2, Numbers DEF WithinCapacity
<1>7. PushInv' /\ PopInv'
  BY <1>1 DEF PushInv, PopInv, InPop
<1>8. ContentInv'
  BY <1>1, <1>2, <1>3, <1>4, <1>5, Numbers DEF ContentInv
<1>9. ThiefInv'
  BY <1>1, <1>2, Numbers DEF ThiefInv
<1>10. NoDoubleTake' /\ TakenWerePushed'
  BY <1>1, <1>4, <1>5, Numbers DEF NoDoubleTake, TakenWerePushed
<1>11. NoLoss'
  <2>1. Queued = Queued' \cup {Elem(b)}
    BY <1>1, <1>2, <1>3 DEF Queued, Elem
  <2>2. BeingPushed = {}
    BY <1>1 DEF BeingPushed
  <2> QED
    BY <1>1, <1>4, <1>5, <2>1, <2>2, Numbers DEF NoLoss
<1> QED
  BY <1>6, <1>7, <1>8, <1>9, <1>10, <1>11

(* Raising top_ by a successful compare-exchange hands over the oldest     *)
(* task: what PopWin and StealWin have in common.                          *)
LEMMA TakeOldest ==
  ASSUME IInv, top < LogicalBottom, LogicalBottom' = LogicalBottom,
         top' = top + 1, HandOver(Elem(top)), TypeOK',
         UNCHANGED <<buffers, pushed, BeingPushed>>
  PROVE  /\ Current' = Current
         /\ \A i : Elem(i)' = Elem(i)
         /\ WithinCapacity' /\ ContentInv' /\ NoDoubleTake' /\ TakenWerePushed' /\ NoLoss'
         /\ Elem(top) \in Tasks
         /\ \A z \in Tasks : z # Elem(top) => taken'[z] = taken[z]
<1> USE DEF IInv
<1>1. Current' = Current /\ \A i : Elem(i)' = Elem(i)
  BY DEF Elem, Current
<1>2. top .. LogicalBottom - 1 = (top' .. LogicalBottom' - 1) \cup {top}
  BY Numbers
<1>3. /\ Elem(top) \in Tasks /\ Elem(top) \in pushed /\ taken[Elem(top)] = 0
      /\ \A i \in top' .. LogicalBottom' - 1 : Elem(i) # Elem(top)
  BY <1>2, Numbers DEF ContentInv
<1>4. /\ taken'[Elem(top)] = 1
      /\ \A z \in Tasks : z # Elem(top) => taken'[z] = taken[z]
  BY <1>3, HandOverOnce
<1>5. WithinCapacity'
  BY <1>1, Numbers DEF WithinCapacity
<1>6. ContentInv'
  BY <1>1, <1>2, <1>3, <1>4, Numbers DEF ContentInv
<1>7. NoDoubleTake' /\ TakenWerePushed'
  BY <1>3, <1>4, Numbers DEF NoDoubleTake, TakenWerePushed
<1>8. NoLoss'
  <2>1. Queued = Queued' \cup {Elem(top)}
    BY <1>1, <1>2 DEF Queued, Elem
  <2> QED
    BY <1>3, <1>4, <2>1, Numbers DEF NoLoss
<1> QED
  BY <1>1, <1>3, <1>4, <1>5, <1>6, <1>7, <1>8

(* pop wins the last task against the thieves.                             *)
LEMMA PopWinStep ==
  ASSUME IInv, TypeOK', PopWin
  PROVE  IInv'
<1> USE DEF IInv
<1>1. /\ LogicalBottom = b + 1 /\ LogicalBottom' = b + 1
      /\ top = b /\ t = b /\ x = Elem(b) /\ bottom = b /\ top' = b + 1
      /\ opc = "pop_cas" /\ opc' = "pop_restore"
      /\ UNCHANGED <<buffers, bottom, b, pushed, tpc, tt, tbuf, tx>>
      /\ HandOver(Elem(top))
  BY Numbers DEF LogicalBottom, InPop, PopInv, PopWin, thiefVars
<1>2. BeingPushed = {} /\ BeingPushed' = {}
  BY <1>1 DEF BeingPushed
<1>3. WithinCapacity' /\ ContentInv' /\ NoDoubleTake' /\ TakenWerePushed' /\ NoLoss'
  BY <1>1, <1>2, TakeOldest, Numbers
<1>4. PushInv' /\ PopInv'
  BY <1>1 DEF PushInv, PopInv, InPop
<1>5. ThiefInv'
  BY <1>1, Numbers DEF ThiefInv
<1> QED
  BY <1>3, <1>4, <1>5

(* A thief wins the oldest task.                                           *)
LEMMA StealWinStep ==
  ASSUME IInv, TypeOK', NEW h \in Thieves, StealWin(h)
  PROVE  IInv'
<1> USE DEF IInv
<1>1. /\ top < LogicalBottom /\ tx[h] = Elem(top) /\ top' = top + 1
      /\ HandOver(Elem(top))
  BY DEF StealWin, ThiefInv
<1>2. UNCHANGED <<buffers, bottom, opc, b, t, x, pushed, BeingPushed, LogicalBottom>>
  BY DEF StealWin, ownerVars, BeingPushed, LogicalBottom, InPop
<1>3. /\ Current' = Current
      /\ \A i : Elem(i)' = Elem(i)
      /\ WithinCapacity' /\ ContentInv' /\ NoDoubleTake' /\ TakenWerePushed' /\ NoLoss'
      /\ Elem(top) \in Tasks
      /\ \A z \in Tasks : z # Elem(top) => taken'[z] = taken[z]
  BY <1>1, <1>2, TakeOldest
<1>4. PushInv'
  <2> SUFFICES ASSUME opc \in {"push_grow", "push_put", "push_store"}
               PROVE  PushInv'
    BY <1>2 DEF PushInv
  <2>1. LogicalBottom = bottom /\ x # Elem(top) /\ x \in Tasks
    BY <1>1, Numbers DEF LogicalBottom, InPop, PushInv
  <2> QED
    BY <1>1, <1>2, <1>3, <2>1, Numbers DEF PushInv
<1>5. PopInv'
  BY <1>1, <1>2, <1>3, Numbers DEF PopInv, LogicalBottom, InPop
<1>6. ThiefInv'
  <2>0. tt' \in [Thieves -> Nat]
    BY DEF TypeOK
  <2> SUFFICES ASSUME NEW g \in Thieves, tpc'[g] # "idle"
               PROVE  tt'[g] <= top
    BY <1>1, <2>0, Numbers DEF ThiefInv
  <2>1. g # h /\ tpc'[g] = tpc[g] /\ tt'[g] = tt[g]
    BY DEF StealWin, ThiefReturn, TypeOK
  <2> QED
    BY <2>1 DEF ThiefInv
<1> QED
  BY <1>3, <1>4, <1>5, <1>6

(* The other steps of a thief only change what that thief knows.           *)
LEMMA StealQuietStep ==
  ASSUME IInv, TypeOK', NEW h \in Thieves, ThiefStep(h), ~StealWin(h)
  PROVE  IInv'
<1> USE DEF IInv
<1>1. UNCHANGED <<shared, ownerVars, history>>
  BY DEF ThiefStep, StealLoadTop, StealEmpty, StealLoadBottom, StealLoadBuffer,
         StealGet, StealLose
<1>2. UNCHANGED <<Current, LogicalBottom, BeingPushed, Queued>> /\ \A i : Elem(i)' = Elem(i)
  BY <1>1 DEF shared, ownerVars, Current, LogicalBottom, InPop, BeingPushed, Queued, Elem
<1>3. WithinCapacity' /\ PushInv' /\ PopInv' /\ ContentInv'
  BY <1>1, <1>2 DEF WithinCapacity, PushInv, PopInv, ContentInv, InPop, shared, ownerVars, history
<1>4. NoDoubleTake' /\ TakenWerePushed' /\ NoLoss'
  BY <1>1, <1>2 DEF NoDoubleTake, TakenWerePushed, NoLoss, history
<1>5. ThiefInv'
  <2> DEFINE Knows(g) ==
        /\ tpc[g] # "idle" => tt[g] <= top
        /\ tpc[g] \in {"buffer", "get", "cas"} /\ tt[g] = top =>
             /\ top < LogicalBottom
             /\ tpc[g] = "get" => Get(buffers[tbuf[g]], top) = Elem(top)
             /\ tpc[g] = "cas" => tx[g] = Elem(top)
  <2>1. ASSUME NEW g \in Thieves, g # h PROVE Knows(g)'
    <3>1. tpc'[g] = tpc[g] /\ tt'[g] = tt[g] /\ tbuf'[g] = tbuf[g] /\ tx'[g] = tx[g]
      BY <2>1 DEF ThiefStep, StealLoadTop, StealEmpty, StealLoadBottom, StealLoadBuffer,
         StealGet, StealLose, ThiefReturn, TypeOK
    <3> QED
      BY <1>1, <1>2, <3>1 DEF ThiefInv, shared
  <2>2. Knows(h)'
    <3>1. CASE StealLoadTop(h)
      BY <1>1, <3>1, Numbers DEF StealLoadTop, TypeOK, shared
    <3>2. CASE StealEmpty(h) \/ StealLose(h)
      BY <3>2 DEF StealEmpty, StealLose, ThiefReturn, TypeOK
    <3>3. CASE StealLoadBottom(h)
      <4>1. bottom <= LogicalBottom
        BY Numbers DEF LogicalBottom, PopInv
      <4> QED
        BY <1>1, <1>2, <3>3, <4>1, Numbers DEF StealLoadBottom, TypeOK, shared, ThiefInv
    <3>4. CASE StealLoadBuffer(h)
      BY <1>1, <1>2, <3>4, Numbers DEF StealLoadBuffer, TypeOK, shared, ThiefInv, Current, Elem
    <3>5. CASE StealGet(h)
      BY <1>1, <1>2, <3>5, Numbers DEF StealGet, TypeOK, shared, ThiefInv
    <3> QED
      BY <3>1, <3>2, <3>3, <3>4, <3>5 DEF ThiefStep
  <2> QED
    BY <2>1, <2>2 DEF ThiefInv
<1> QED
  BY <1>3, <1>4, <1>5

(* Every step preserves the invariant.                                     *)
LEMMA IInvStep ==
  ASSUME IInv, [Next]_vars
  PROVE  IInv'
<1>1. TypeOK'
  BY TypeStep DEF IInv
<1>2. CASE UNCHANGED vars
  BY <1>2 DEF vars, shared, ownerVars, thiefVars, history, IInv, TypeOK, Allocated,
       WithinCapacity, PushInv, PopInv, ContentInv, ThiefInv, NoDoubleTake,
       TakenWerePushed, NoLoss, Current, LogicalBottom, InPop, Elem, Queued, BeingPushed
<1>3. CASE Next
  BY <1>1, <1>3, PushLoadStep, PushGrowStep, PushPutStep, PushStoreStep, PopQuietStep,
     PopTakeStep, PopWinStep, StealWinStep, StealQuietStep DEF Next, PushStep, PopStep
<1> QED
  BY <1>2, <1>3

(* The invariant holds in every reachable state.                           *)
THEOREM Invariant == Spec => []IInv
<1>1. Init => IInv
  BY InitType, InitIInv
<1>2. IInv /\ [Next]_vars => IInv'
  BY IInvStep
<1> QED
  BY <1>1, <1>2, PTL DEF Spec

(* No task is ever handed to two callers.                                  *)
THEOREM TakenAtMostOnce == Spec => []NoDoubleTake
<1>1. IInv => NoDoubleTake
  BY DEF IInv
<1> QED
  BY <1>1, Invariant, PTL

(* No task is ever lost.                                                   *)
THEOREM NothingLost == Spec => []NoLoss
<1>1. IInv => NoLoss
  BY DEF IInv
<1> QED
  BY <1>1, Invariant, PTL

(* The live tasks always fit the current buffer.                           *)
THEOREM IndicesInRange == Spec => []WithinCapacity
<1>1. IInv => WithinCapacity
  BY DEF IInv
<1> QED
  BY <1>1, Invariant, PTL

----------------------------------------------------------------------------
(* What a failed pop or steal tells its caller.                            *)

(* The number of queued tasks is the distance between the indices.         *)
ContentsFacts ==
  /\ top \in Nat /\ LogicalBottom \in Int /\ top <= LogicalBottom
  /\ Contents \in Seq(Tasks)
  /\ Len(Contents) = LogicalBottom - top
  /\ \A i \in 1 .. LogicalBottom - top : Contents[i] = Elem(top + i - 1)

(* The queue is a sequence of tasks, one per live index.                   *)
LEMMA ContentsLength == IInv => ContentsFacts
<1> SUFFICES ASSUME IInv PROVE ContentsFacts
  OBVIOUS
<1> USE DEF IInv
<1>1. LogicalBottom - top \in Nat
  BY Numbers DEF WithinCapacity
<1>2. ASSUME NEW i \in 1 .. LogicalBottom - top
      PROVE  Elem(top + i - 1) \in Tasks
  <2>1. top + i - 1 \in top .. LogicalBottom - 1
    BY <1>1, Numbers
  <2> QED
    BY <2>1, Numbers DEF ContentInv
<1> DEFINE n == LogicalBottom - top
<1>3. Contents = [i \in 1 .. n |-> Elem(top + i - 1)]
  BY DEF Contents, Elem
<1>4. /\ Contents \in Seq(Tasks)
      /\ Len(Contents) = n
      /\ \A i \in 1 .. n : Contents[i] = Elem(top + i - 1)
  <2> HIDE DEF n, IInv
  <2>1. n \in Nat
    BY <1>1 DEF n
  <2>2. \A i \in 1 .. n : Elem(top + i - 1) \in Tasks
    BY <1>2 DEF n
  <2> QED
    BY <1>3, <2>1, <2>2
<1>5. top \in Nat /\ LogicalBottom \in Int /\ top <= LogicalBottom
  BY <1>1, Numbers
<1> QED
  BY <1>4, <1>5 DEF ContentsFacts

(* The same after a step.                                                  *)
LEMMA ContentsLengthNext == IInv' => ContentsFacts'
BY ContentsLength, PTL

(* A pop that returns false found the deque empty.                         *)
THEOREM PopMiss == Spec => PopMissMeansEmpty
<1>1. IInv /\ [Next]_vars => [PopEmpty \/ PopLose => Len(Contents) = 0]_vars
  <2> SUFFICES ASSUME IInv, PopEmpty \/ PopLose
               PROVE  LogicalBottom - top = 0
    BY ContentsLength DEF ContentsFacts
  <2>1. LogicalBottom = b + 1 /\ top <= b + 1
    BY Numbers DEF IInv, PopEmpty, PopLose, LogicalBottom, InPop, WithinCapacity
  <2>2. top > b
    BY Numbers DEF IInv, PopEmpty, PopLose, PopInv, InPop
  <2> QED
    BY <2>1, <2>2, Numbers DEF IInv
<1> QED
  BY <1>1, Invariant, PTL DEF Spec, PopMissMeansEmpty

(* A steal that returns false for want of tasks missed at most the one     *)
(* task the owner is popping.                                              *)
THEOREM StealMiss == Spec => StealMissMeansEmpty
<1>1. IInv /\ [Next]_vars =>
        [\A h \in Thieves : StealEmpty(h) =>
            \/ Len(Contents) = 0
            \/ InPop /\ Len(Contents) = 1]_vars
  <2> SUFFICES ASSUME IInv, NEW h \in Thieves, StealEmpty(h)
               PROVE  \/ LogicalBottom - top = 0
                      \/ InPop /\ LogicalBottom - top = 1
    BY ContentsLength DEF ContentsFacts
  <2>1. top >= bottom /\ LogicalBottom >= top
    BY Numbers DEF IInv, StealEmpty, ThiefInv, WithinCapacity
  <2>2. LogicalBottom = bottom \/ (InPop /\ LogicalBottom = bottom + 1)
    BY DEF IInv, PopInv, LogicalBottom
  <2> QED
    BY <2>1, <2>2, Numbers DEF IInv
<1> QED
  BY <1>1, Invariant, PTL DEF Spec, StealMissMeansEmpty

----------------------------------------------------------------------------
(* The lock-free deque implements the abstract one.                        *)

(* Sequences of the same length with the same elements are the same.       *)
LEMMA SameSequence ==
  ASSUME NEW r \in Seq(Tasks), NEW s \in Seq(Tasks), Len(r) = Len(s),
         \A i \in 1 .. Len(r) : r[i] = s[i]
  PROVE  r = s
OBVIOUS

(* The queue is untouched by a step that moves neither end nor a live task.*)
LEMMA ContentsSame ==
  ASSUME ContentsFacts, ContentsFacts', UNCHANGED <<top, LogicalBottom>>,
         \A i \in top .. LogicalBottom - 1 : Elem(i)' = Elem(i)
  PROVE  Contents' = Contents
<1> USE DEF ContentsFacts
<1>1. ASSUME NEW i \in 1 .. LogicalBottom - top
      PROVE  Contents'[i] = Contents[i]
  <2>1. top + i - 1 \in top .. LogicalBottom - 1
    OBVIOUS
  <2>2. Contents'[i] = Get(Current', top' + i - 1)
    BY DEF Elem
  <2> QED
    BY <2>1, <2>2 DEF Elem
<1> QED
  BY <1>1, SameSequence

(* push appends at the moment it stores bottom_.                           *)
LEMMA PushRefines ==
  ASSUME IInv, ContentsFacts, ContentsFacts', PushStore
  PROVE  Deque!Push
<1>1. /\ Current' = Current /\ UNCHANGED <<top, taken>>
      /\ LogicalBottom = bottom /\ LogicalBottom' = bottom + 1 /\ b = bottom
      /\ Elem(b) = x /\ x \in Tasks /\ taken[x] = 0
      /\ \A i \in top .. bottom - 1 : Elem(i) # x
  BY Numbers DEF IInv, PushStore, OwnerReturn, LogicalBottom, InPop, PushInv, Current, history
<1> USE DEF ContentsFacts
<1>2. \A i : Get(Current', i) = Elem(i)
  BY <1>1 DEF Elem
<1>3. Len(Contents) = bottom - top /\ Len(Contents') = bottom - top + 1
  BY <1>1
<1>4. \A i \in 1 .. Len(Contents) : Contents[i] # x
  <2> SUFFICES ASSUME NEW i \in 1 .. Len(Contents)
               PROVE  Contents[i] = Elem(top + i - 1) /\ top + i - 1 \in top .. bottom - 1
    BY <1>1
  <2> QED
    BY <1>1, <1>3
<1>5. Contents' = Append(Contents, x)
  <2>1. ASSUME NEW i \in 1 .. Len(Contents)
        PROVE  Contents'[i] = Contents[i]
    <3>1. Contents'[i] = Get(Current', top' + i - 1)
      BY <1>1, <1>3 DEF Elem
    <3> QED
      BY <1>1, <1>2, <1>3, <3>1
  <2>2. Contents'[Len(Contents) + 1] = x
    <3>0. Len(Contents) + 1 \in 1 .. LogicalBottom' - top'
      BY <1>1, <1>3
    <3>1. Contents'[Len(Contents) + 1] = Get(Current', top' + (Len(Contents) + 1) - 1)
      BY <3>0 DEF Elem
    <3>2. top' + (Len(Contents) + 1) - 1 = b
      BY <1>1, <1>3
    <3> QED
      BY <1>1, <1>2, <3>1, <3>2
  <2>3. /\ Append(Contents, x) \in Seq(Tasks) /\ Contents' \in Seq(Tasks)
        /\ Len(Append(Contents, x)) = Len(Contents')
        /\ \A i \in 1 .. Len(Contents) : Append(Contents, x)[i] = Contents[i]
        /\ Append(Contents, x)[Len(Contents) + 1] = x
    BY <1>1, <1>3
  <2>4. \A i \in 1 .. Len(Contents') : i \in 1 .. Len(Contents) \/ i = Len(Contents) + 1
    BY <1>1, <1>3
  <2> QED
    BY <2>1, <2>2, <2>3, <2>4, SameSequence
<1> QED
  BY <1>1, <1>4, <1>5 DEF Deque!Push

(* pop of one of several tasks removes the newest.                         *)
LEMMA PopRefines ==
  ASSUME IInv, ContentsFacts, ContentsFacts', PopTake
  PROVE  Deque!Pop
<1>1. /\ Current' = Current /\ UNCHANGED top
      /\ LogicalBottom = b + 1 /\ LogicalBottom' = b /\ top < b /\ b \in Int
      /\ HandOver(Elem(b))
  BY Numbers DEF IInv, PopTake, OwnerReturn, LogicalBottom, InPop, PopInv, Current, shared, Elem
<1> USE DEF ContentsFacts
<1>2. \A i : Get(Current', i) = Elem(i)
  BY <1>1 DEF Elem
<1>3. Len(Contents) = b + 1 - top /\ Len(Contents') = b - top
  BY <1>1
<1>4. Contents[Len(Contents)] = Elem(b)
  <2>1. Contents[Len(Contents)] = Elem(top + Len(Contents) - 1)
    BY <1>1, <1>3
  <2>2. top + Len(Contents) - 1 = b
    BY <1>1, <1>3
  <2> QED
    BY <2>1, <2>2
<1>5. Contents' = SubSeq(Contents, 1, Len(Contents) - 1)
  <2>1. ASSUME NEW i \in 1 .. b - top
        PROVE  Contents'[i] = Contents[i]
    <3>1. Contents'[i] = Get(Current', top' + i - 1)
      BY <1>1 DEF Elem
    <3>2. Contents[i] = Elem(top + i - 1)
      BY <1>1
    <3> QED
      BY <1>1, <1>2, <3>1, <3>2
  <2>2. /\ SubSeq(Contents, 1, Len(Contents) - 1) \in Seq(Tasks)
        /\ Len(SubSeq(Contents, 1, Len(Contents) - 1)) = b - top
        /\ \A i \in 1 .. b - top : SubSeq(Contents, 1, Len(Contents) - 1)[i] = Contents[i]
    BY <1>1, <1>3
  <2> QED
    BY <1>3, <2>1, <2>2, SameSequence
<1>6. Contents # <<>>
  BY <1>1, <1>3
<1>7. Deque!HandOver(Contents[Len(Contents)])
  BY <1>1, <1>4 DEF Deque!HandOver, HandOver
<1> QED
  BY <1>5, <1>6, <1>7 DEF Deque!Pop

(* A successful compare-exchange of top_ removes the oldest task.          *)
LEMMA StealRefines ==
  ASSUME ContentsFacts, ContentsFacts', top < LogicalBottom, LogicalBottom' = LogicalBottom,
         top' = top + 1, HandOver(Elem(top)), UNCHANGED buffers
  PROVE  Deque!Steal
<1> USE DEF ContentsFacts
<1>1. \A i : Get(Current', i) = Elem(i)
  BY DEF Elem, Current
<1>2. Len(Contents) = LogicalBottom - top /\ Len(Contents') = LogicalBottom - top - 1
  OBVIOUS
<1>3. Contents # <<>> /\ Contents[1] = Elem(top)
  <2>1. Contents[1] = Elem(top + 1 - 1)
    OBVIOUS
  <2> QED
    BY <1>2, <2>1
<1>4. Contents' = Tail(Contents)
  <2>1. ASSUME NEW i \in 1 .. Len(Contents')
        PROVE  Contents'[i] = Contents[i + 1]
    <3>1. Contents'[i] = Get(Current', top' + i - 1)
      BY <1>2 DEF Elem
    <3>2. Contents[i + 1] = Elem(top + (i + 1) - 1)
      BY <1>2
    <3>3. top' + i - 1 = top + (i + 1) - 1
      OBVIOUS
    <3> QED
      BY <1>1, <3>1, <3>2, <3>3
  <2>2. /\ Tail(Contents) \in Seq(Tasks)
        /\ Len(Tail(Contents)) = Len(Contents')
        /\ \A i \in 1 .. Len(Contents') : Tail(Contents)[i] = Contents[i + 1]
    BY <1>2, <1>3
  <2> QED
    BY <2>1, <2>2, SameSequence
<1> QED
  BY <1>3, <1>4 DEF Deque!Steal, Deque!HandOver, HandOver

(* Every step is a step of the abstract deque, or invisible to it.         *)
LEMMA StepRefines ==
  ASSUME IInv, IInv', [Next]_vars
  PROVE  [Deque!DequeNext]_(Deque!dequeVars)
<1>0. ContentsFacts /\ ContentsFacts'
  BY ContentsLength, ContentsLengthNext
<1> USE DEF IInv
<1> SUFFICES Deque!Push \/ Deque!Pop \/ Deque!Steal \/ UNCHANGED <<Contents, taken>>
  BY DEF Deque!DequeNext, Deque!dequeVars
<1>1. ASSUME NEW y \in Tasks, PushLoad(y) PROVE UNCHANGED <<Contents, taken>>
  BY <1>1 DEF PushLoad, Contents, Current, LogicalBottom, InPop, shared
<1>2. CASE PushGrow
  <2>1. UNCHANGED <<top, LogicalBottom, taken>> /\ b = bottom /\ LogicalBottom = bottom /\ t <= top
    BY <1>2 DEF PushGrow, LogicalBottom, InPop, PushInv, history
  <2>2. Current' = Grow(Current, t, b)
    BY <1>2, BufferTypes DEF PushGrow, Current
  <2>3. \A i \in t .. b - 1 : Get(Grow(Current, t, b), i) = Get(Current, i)
    <3>1. b - t < Current.capacity
      BY <1>2, Numbers DEF PushGrow, PushInv
    <3> QED
      BY <3>1, BufferTypes, Numbers, GrowGet
  <2>4. \A i \in top .. LogicalBottom - 1 : Elem(i)' = Elem(i)
    BY <2>1, <2>2, <2>3, Numbers DEF Elem
  <2> QED
    BY <1>0, <2>1, <2>4, ContentsSame
<1>3. CASE PushPut
  <2>1. /\ UNCHANGED <<top, LogicalBottom, taken, b>> /\ b = bottom /\ LogicalBottom = bottom
        /\ b - top <= Current.capacity - 2 /\ x \in Tasks \cup {NoTask}
    BY <1>3 DEF PushPut, LogicalBottom, InPop, PushInv, history, TypeOK
  <2>2. Current' = Put(Current, b, x)
    BY <1>3, BufferTypes DEF PushPut, Current
  <2>3. \A i \in Int : i % Current.capacity # b % Current.capacity
                         => Get(Put(Current, b, x), i) = Get(Current, i)
    BY <2>1, BufferTypes, Numbers, PutGet
  <2>4. ASSUME NEW i \in top .. LogicalBottom - 1
        PROVE  Elem(i)' = Elem(i)
    <3>1. i \in Int /\ i # b /\ i - b < Current.capacity /\ b - i < Current.capacity
      BY <2>1, Numbers
    <3>2. i % Current.capacity # b % Current.capacity
      BY <3>1, Numbers, ModInjective
    <3> QED
      BY <2>2, <2>3, <3>1, <3>2 DEF Elem
  <2> QED
    BY <1>0, <2>1, <2>4, ContentsSame
<1>4. CASE PushStore
  BY <1>0, <1>4, PushRefines
<1>5. CASE PopStore \/ PopEmpty \/ PopLast \/ PopLose \/ PopRestore
  <2>1. UNCHANGED <<top, buffers, taken>> /\ LogicalBottom' = LogicalBottom
    BY <1>5, Numbers DEF LogicalBottom, InPop, PopInv, PopStore, PopEmpty, PopLast,
       PopLose, PopRestore, OwnerReturn, shared, history
  <2> QED
    BY <2>1 DEF Contents, Current
<1>6. CASE PopTake
  BY <1>0, <1>6, PopRefines
<1>7. CASE PopWin
  <2>1. /\ top < LogicalBottom /\ LogicalBottom' = LogicalBottom /\ top' = top + 1
        /\ HandOver(Elem(top)) /\ UNCHANGED buffers
    BY <1>7, Numbers DEF PopWin, LogicalBottom, InPop, PopInv
  <2> QED
    BY <1>0, <2>1, StealRefines
<1>8. ASSUME NEW h \in Thieves, ThiefStep(h), ~StealWin(h)
      PROVE  UNCHANGED <<Contents, taken>>
  <2>1. UNCHANGED <<shared, ownerVars, history>>
    BY <1>8 DEF ThiefStep, StealLoadTop, StealEmpty, StealLoadBottom, StealLoadBuffer,
         StealGet, StealLose
  <2> QED
    BY <2>1 DEF Contents, Current, LogicalBottom, InPop, shared, ownerVars, history
<1>9. ASSUME NEW h \in Thieves, StealWin(h) PROVE Deque!Steal
  <2>1. /\ top < LogicalBottom /\ LogicalBottom' = LogicalBottom /\ top' = top + 1
        /\ HandOver(Elem(top)) /\ UNCHANGED buffers
    BY <1>9 DEF StealWin, ThiefInv, ownerVars, LogicalBottom, InPop
  <2> QED
    BY <1>0, <2>1, StealRefines
<1>10. CASE UNCHANGED vars
  BY <1>10 DEF vars, shared, ownerVars, history, Contents, Current, LogicalBottom, InPop
<1> QED
  BY <1>1, <1>2, <1>3, <1>4, <1>5, <1>6, <1>7, <1>8, <1>9, <1>10 DEF Next, PushStep, PopStep

(* Under every interleaving of its atomic accesses the deque behaves as a  *)
(* sequence with indivisible operations.                                   *)
THEOREM Refinement == Spec => ImplementsDeque
<1>1. Init => Deque!DequeInit
  BY DEF Init, Deque!DequeInit, Contents, LogicalBottom, InPop
<1>2. IInv /\ IInv' /\ [Next]_vars => [Deque!DequeNext]_(Deque!dequeVars)
  BY StepRefines
<1> QED
  BY <1>1, <1>2, Invariant, PTL DEF Spec, ImplementsDeque, Deque!DequeSpec
=============================================================================
