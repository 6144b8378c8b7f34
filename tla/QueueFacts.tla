----------------------------- MODULE QueueFacts -----------------------------
(***************************************************************************)
(* Facts about a family of queues in which no item is held twice, which    *)
(* the proofs about the Runtime and about the futures rest on: what a push *)
(* and a take at either end do to the set of items held.                   *)
(***************************************************************************)
EXTENDS Integers, Sequences, SequenceTheorems, TLAPS

CONSTANTS Queues, Items
VARIABLE queue  \* queue[q]: the items in q, oldest first

Typed == queue \in [Queues -> Seq(Items)]

(* Some slot of some queue holds x.                                        *)
Holds(x) == \E q \in Queues : \E i \in 1 .. Len(queue[q]) : queue[q][i] = x

(* No two slots hold the same item.                                        *)
DistinctSlots ==
  \A q, r \in Queues : \A i \in 1 .. Len(queue[q]), j \in 1 .. Len(queue[r]) :
    queue[q][i] = queue[r][j] => q = r /\ i = j

(* Every slot of a queue holds an item.                                    *)
LEMMA QueueTypes ==
  ASSUME Typed
  PROVE  \A q \in Queues : /\ queue[q] \in Seq(Items) /\ Len(queue[q]) \in Nat
                           /\ \A i \in 1 .. Len(queue[q]) : queue[q][i] \in Items
BY LenProperties, ElementOfSeq DEF Typed

(* Pushing an item that no queue holds.                                     *)
LEMMA PushDistinct ==
  ASSUME Typed, DistinctSlots, NEW q \in Queues, NEW x \in Items, ~Holds(x),
         queue' = [queue EXCEPT ![q] = Append(@, x)]
  PROVE  /\ queue' \in [Queues -> Seq(Items)]
         /\ DistinctSlots'
         /\ \A y : Holds(y)' <=> Holds(y) \/ y = x
<1> DEFINE n == Len(queue[q])
<1>1. /\ queue'[q] = Append(queue[q], x)
      /\ \A r \in Queues \ {q} : queue'[r] = queue[r]
      /\ queue' \in [Queues -> Seq(Items)]
  BY QueueTypes DEF Typed
<1>2. /\ n \in Nat /\ Len(queue'[q]) = n + 1
      /\ queue'[q][n + 1] = x
      /\ \A i \in 1 .. n : queue'[q][i] = queue[q][i]
  BY <1>1, QueueTypes, AppendProperties
<1>3. \A r \in Queues : \A i \in 1 .. Len(queue'[r]) :
        \/ r = q /\ i = n + 1 /\ queue'[r][i] = x
        \/ i \in 1 .. Len(queue[r]) /\ queue'[r][i] = queue[r][i]
  BY <1>1, <1>2
<1>4. \A r \in Queues : \A i \in 1 .. Len(queue[r]) :
        i \in 1 .. Len(queue'[r]) /\ queue'[r][i] = queue[r][i]
  BY <1>1, <1>2
<1>5. \A r \in Queues : \A i \in 1 .. Len(queue[r]) : queue[r][i] # x
  BY DEF Holds
<1> HIDE DEF n
<1>6. DistinctSlots'
  BY <1>3, <1>5 DEF DistinctSlots
<1>7. \A y : Holds(y)' <=> Holds(y) \/ y = x
  <2>1. n + 1 \in 1 .. Len(queue'[q])
    BY <1>2
  <2>2. ASSUME NEW y, Holds(y)' PROVE Holds(y) \/ y = x
    BY <2>2, <1>3 DEF Holds
  <2>3. ASSUME NEW y, Holds(y) PROVE Holds(y)'
    BY <2>3, <1>4 DEF Holds
  <2>4. Holds(x)'
    BY <2>1, <1>2 DEF Holds
  <2> QED
    BY <2>2, <2>3, <2>4
<1> QED
  BY <1>1, <1>6, <1>7

(* Taking an item at either end of a queue.                                 *)
LEMMA TakeDistinct ==
  ASSUME Typed, DistinctSlots, NEW q \in Queues, queue[q] # <<>>, NEW x,
         \/ /\ x = Head(queue[q])
            /\ queue' = [queue EXCEPT ![q] = Tail(queue[q])]
         \/ /\ x = queue[q][Len(queue[q])]
            /\ queue' = [queue EXCEPT ![q] = SubSeq(queue[q], 1, Len(queue[q]) - 1)]
  PROVE  /\ x \in Items /\ Holds(x)
         /\ queue' \in [Queues -> Seq(Items)]
         /\ DistinctSlots'
         /\ \A y : Holds(y)' <=> Holds(y) /\ y # x
         /\ \A r \in Queues : \A i \in 1 .. Len(queue'[r]) :
              \E j \in 1 .. Len(queue[r]) : queue'[r][i] = queue[r][j]
<1> DEFINE s == queue[q]
           n == Len(s)
<1>1. s \in Seq(Items) /\ n \in Nat \ {0}
  BY QueueTypes, EmptySeq
<1>2. PICK k \in {0, 1} :
        /\ x = s[IF k = 1 THEN 1 ELSE n]
        /\ queue'[q] \in Seq(Items)
        /\ Len(queue'[q]) = n - 1
        /\ \A i \in 1 .. n - 1 : queue'[q][i] = s[i + k]
        /\ \A r \in Queues \ {q} : queue'[r] = queue[r]
        /\ queue' \in [Queues -> Seq(Items)]
  <2>1. CASE x = Head(s) /\ queue' = [queue EXCEPT ![q] = Tail(s)]
    <3>1. queue'[q] = Tail(s) /\ Tail(s) \in Seq(Items) /\ Len(Tail(s)) = n - 1
          /\ \A i \in 1 .. n - 1 : Tail(s)[i] = s[i + 1]
      BY <1>1, <2>1, HeadTailProperties DEF Typed
    <3>2. /\ \A r \in Queues \ {q} : queue'[r] = queue[r]
          /\ queue' \in [Queues -> Seq(Items)]
      BY <2>1, <3>1 DEF Typed
    <3>3. x = s[1]
      BY <1>1, <2>1
    <3> QED
      BY <3>1, <3>2, <3>3
  <2>2. CASE x = s[n] /\ queue' = [queue EXCEPT ![q] = SubSeq(s, 1, n - 1)]
    <3>1. \A i \in 1 .. n - 1 : s[i] \in Items
      BY <1>1, ElementOfSeq
    <3>2. /\ SubSeq(s, 1, n - 1) \in Seq(Items)
          /\ Len(SubSeq(s, 1, n - 1)) = n - 1
          /\ \A i \in 1 .. n - 1 : SubSeq(s, 1, n - 1)[i] = s[i]
      BY <1>1, <3>1, SubSeqProperties
    <3>3. /\ queue'[q] = SubSeq(s, 1, n - 1)
          /\ \A r \in Queues \ {q} : queue'[r] = queue[r]
          /\ queue' \in [Queues -> Seq(Items)]
      BY <2>2, <3>2 DEF Typed
    <3> QED
      BY <1>1, <2>2, <3>2, <3>3
  <2> QED
    BY <2>1, <2>2
<1> DEFINE m == IF k = 1 THEN 1 ELSE n
<1>3. m \in 1 .. n /\ s[m] = x /\ x \in Items
  BY <1>1, <1>2, ElementOfSeq
<1>4. \A i \in 1 .. n - 1 : i + k \in 1 .. n /\ i + k # m
  BY <1>1, <1>2
<1>5. \A j \in 1 .. n : j # m => j - k \in 1 .. n - 1 /\ (j - k) + k = j
  BY <1>1, <1>2
<1> HIDE DEF m, n
<1>6. \A r \in Queues : \A i \in 1 .. Len(queue'[r]) :
        \/ r = q /\ i + k \in 1 .. n /\ i + k # m /\ queue'[r][i] = s[i + k] /\ i \in Int
        \/ r # q /\ i \in 1 .. Len(queue[r]) /\ queue'[r][i] = queue[r][i]
  BY <1>2, <1>4
<1>7. \A r \in Queues : \A j \in 1 .. Len(queue[r]) :
        \/ r = q /\ j = m /\ queue[r][j] = x
        \/ queue[r][j] # x /\ \E i \in 1 .. Len(queue'[r]) : queue'[r][i] = queue[r][j]
  <2> SUFFICES ASSUME NEW r \in Queues, NEW j \in 1 .. Len(queue[r]), ~(r = q /\ j = m)
               PROVE  /\ queue[r][j] # x
                      /\ \E i \in 1 .. Len(queue'[r]) : queue'[r][i] = queue[r][j]
    BY <1>3
  <2>1. queue[r][j] # x
    BY <1>3 DEF DistinctSlots, n
  <2>2. CASE r = q
    <3>1. j - k \in 1 .. n - 1 /\ queue'[q][j - k] = s[(j - k) + k] /\ (j - k) + k = j
      BY <2>2, <1>2, <1>5 DEF n
    <3> QED
      BY <2>1, <2>2, <3>1, <1>2
  <2>3. CASE r # q
    BY <2>1, <2>3, <1>2
  <2> QED
    BY <2>2, <2>3
<1>8. DistinctSlots'
  <2> SUFFICES ASSUME NEW r1 \in Queues, NEW r2 \in Queues,
                      NEW i \in 1 .. Len(queue'[r1]), NEW j \in 1 .. Len(queue'[r2]),
                      queue'[r1][i] = queue'[r2][j]
               PROVE  r1 = r2 /\ i = j
    BY DEF DistinctSlots
  <2>1. CASE r1 = q /\ r2 = q
    <3>1. i + k \in 1 .. n /\ j + k \in 1 .. n /\ s[i + k] = s[j + k] /\ i \in Int /\ j \in Int
      BY <2>1, <1>6
    <3>2. i + k = j + k
      BY <3>1 DEF DistinctSlots, n
    <3> QED
      BY <2>1, <3>1, <3>2
  <2>2. CASE r1 # q /\ r2 # q
    BY <2>2, <1>6 DEF DistinctSlots
  <2>3. CASE r1 = q /\ r2 # q
    <3>1. i + k \in 1 .. n /\ j \in 1 .. Len(queue[r2]) /\ s[i + k] = queue[r2][j]
      BY <2>3, <1>6
    <3> QED
      BY <2>3, <3>1 DEF DistinctSlots, n
  <2>4. CASE r1 # q /\ r2 = q
    <3>1. i \in 1 .. Len(queue[r1]) /\ j + k \in 1 .. n /\ queue[r1][i] = s[j + k]
      BY <2>4, <1>6
    <3> QED
      BY <2>4, <3>1 DEF DistinctSlots, n
  <2> QED
    BY <2>1, <2>2, <2>3, <2>4
<1>9. \A r \in Queues : \A i \in 1 .. Len(queue'[r]) :
        \E j \in 1 .. Len(queue[r]) : queue'[r][i] = queue[r][j]
  BY <1>6 DEF n
<1>10. Holds(x)
  BY <1>3 DEF Holds, n
<1>11. ASSUME NEW y, Holds(y)' PROVE Holds(y) /\ y # x
  <2>0. PICK r \in Queues : \E i \in 1 .. Len(queue'[r]) : queue'[r][i] = y
    BY <1>11 DEF Holds
  <2>1. PICK i \in 1 .. Len(queue'[r]) : queue'[r][i] = y
    BY <2>0
  <2>2. Holds(y)
    BY <1>9, <2>1 DEF Holds
  <2>3. y # x
    BY <1>3, <1>6, <2>1 DEF DistinctSlots, n
  <2> QED
    BY <2>2, <2>3
<1>12. ASSUME NEW y, Holds(y), y # x PROVE Holds(y)'
  BY <1>7, <1>12 DEF Holds
<1> QED
  BY <1>2, <1>3, <1>8, <1>9, <1>10, <1>11, <1>12
=============================================================================
