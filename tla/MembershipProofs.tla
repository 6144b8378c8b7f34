-------------------------- MODULE MembershipProofs --------------------------
(***************************************************************************)
(* Proofs about cluster membership, for every set of nodes and any number  *)
(* of failures: what the coordinator's table, the lists under way and the  *)
(* peer tables have to do with one another, however late, lost or out of   *)
(* step the messages are.                                                  *)
(***************************************************************************)
EXTENDS Membership, FiniteSetTheorems, SequenceTheorems, TLAPS

----------------------------------------------------------------------------
(* The inductive invariant, part by part.                                  *)

(* What the variables hold.                                                *)
Recs == [node_id : Nat, port : Nodes, pending : Nat, age : 0 .. kNodeTimeout + 1]
Infos == [node_id : Nat, port : Nodes, pending : Nat]
Entries == [node_id : Nat, port : Nodes, pending : Nat, misses : Nat]
UpMsgs == [type : {"Register"}, port : Nodes] \cup [type : {"Heartbeat"}, node_id : Nat, pending : Nat]
DownMsgs == [type : {"RegisterAck"}, node_id : Nat] \cup [type : {"NodeList"}, nodes : Seq(Infos)]

TypeInv ==
  /\ policy \in Policies /\ running \in BOOLEAN
  /\ nodes \in Seq(Recs) /\ next_node_id = Len(nodes) + 1
  /\ phase \in [Nodes -> {"off", "registering", "idle", "waiting", "beaten", "dead"}]
  /\ port \in [Nodes -> Nodes] /\ node_id \in [Nodes -> Nat]
  /\ up \in [Nodes -> Seq(UpMsgs)] /\ down \in [Nodes -> Seq(DownMsgs)]
  /\ lostUp \in [Nodes -> BOOLEAN] /\ lostDown \in [Nodes -> BOOLEAN]
  /\ peers \in [Nodes -> Seq(Entries)]
  /\ faults \in 0 .. MaxFaults

(* Identifiers are indices of the coordinator's table.                     *)
TableInv == \A i \in 1 .. Len(nodes) : nodes[i].node_id = i

Registered(id, p) == id \in 1 .. Len(nodes) /\ nodes[id].port = p

(* Lists are true to the table, and no identifier is on them twice.        *)
Genuine(list) ==
  /\ \A i \in 1 .. Len(list) : Registered(list[i].node_id, list[i].port)
  /\ \A i, j \in 1 .. Len(list) : list[i].node_id = list[j].node_id => i = j

(* An identifier a node has is registered for its port.                    *)
IdOk(n) ==
  /\ phase[n] \in {"off", "registering"} => node_id[n] = 0
  /\ Alive(n) => node_id[n] # 0
  /\ node_id[n] # 0 => Registered(node_id[n], port[n])

UpOk(n) ==
  \A k \in 1 .. Len(up[n]) :
    /\ up[n][k].type = "Register" =>
         /\ up[n][k].port = port[n] /\ node_id[n] = 0 /\ Len(up[n]) = 1 /\ Len(down[n]) = 0
         /\ phase[n] \in {"registering", "dead"}
    /\ up[n][k].type = "Heartbeat" => node_id[n] # 0 /\ up[n][k].node_id = node_id[n]

DownOk(n) ==
  \A k \in 1 .. Len(down[n]) :
    /\ down[n][k].type = "RegisterAck" =>
         phase[n] \in {"registering", "dead"} /\ Registered(down[n][k].node_id, port[n])
    /\ down[n][k].type = "NodeList" => node_id[n] # 0 /\ Genuine(down[n][k].nodes)

(* A heartbeat is sent when the one before it was answered or given up.    *)
Traffic(n) == Len(up[n]) + Len(down[n])

CountOk(n) ==
  /\ Traffic(n) <= faults + 1
  /\ phase[n] \in {"idle", "beaten"} => Traffic(n) <= faults
  /\ phase[n] = "off" => Traffic(n) = 0
  /\ phase[n] = "registering" => Traffic(n) <= 1

(* Peer tables are true to the coordinator's, without the node itself.     *)
PeersOk(n) ==
  /\ Len(peers[n]) # 0 => Alive(n)
  /\ \A i \in 1 .. Len(peers[n]) :
       /\ Registered(peers[n][i].node_id, peers[n][i].port)
       /\ peers[n][i].node_id # node_id[n]
  /\ \A i, j \in 1 .. Len(peers[n]) : peers[n][i].node_id = peers[n][j].node_id => i = j

NodeOk(n) == IdOk(n) /\ UpOk(n) /\ DownOk(n) /\ CountOk(n) /\ PeersOk(n)

IInv == TypeInv /\ TableInv /\ \A n \in Nodes : NodeOk(n)

----------------------------------------------------------------------------
(* Sequences.                                                              *)

(* The elements of q are some of s, of indices in I, each at most once.    *)
Selects(q, s, I) ==
  \E f \in [1 .. Len(q) -> I] :
    /\ \A k \in 1 .. Len(q) : q[k] = s[f[k]]
    /\ \A k, l \in 1 .. Len(q) : f[k] = f[l] => k = l

(* The k-th element of a subsequence is that of the index of rank k.       *)
LEMMA SubsequenceFacts ==
  ASSUME NEW S, NEW s \in Seq(S), NEW I \in SUBSET (1 .. Len(s))
  PROVE  Subsequence(s, I) \in Seq(S) /\ Selects(Subsequence(s, I), s, I)
<1> DEFINE upto(i) == {j \in I : j <= i}
           N == Cardinality(I)
           rank == [i \in I |-> Cardinality(upto(i))]
           f == [k \in 1 .. N |-> CHOOSE i \in I : Cardinality(upto(i)) = k]
           sub == [k \in 1 .. N |-> s[f[k]]]
<1>0. /\ Len(s) \in Nat /\ \A i \in 1 .. Len(s) : s[i] \in S
      /\ I \subseteq 1 .. Len(s) /\ I \subseteq Int
  OBVIOUS
<1>1. IsFiniteSet(I) /\ N \in Nat
  <2>1. IsFiniteSet(1 .. Len(s))
    BY <1>0, FS_Interval
  <2> QED
    BY <1>0, <2>1, FS_Subset, FS_CardinalityType
<1>2. ASSUME NEW i \in I
      PROVE  /\ IsFiniteSet(upto(i)) /\ Cardinality(upto(i)) \in Nat
             /\ Cardinality(upto(i)) \in 1 .. N
  <2>1. upto(i) \in SUBSET I
    OBVIOUS
  <2>2. IsFiniteSet(upto(i)) /\ Cardinality(upto(i)) <= N
    BY <1>1, <2>1, FS_Subset
  <2>3. i \in upto(i)
    OBVIOUS
  <2>4. Cardinality(upto(i)) # 0 /\ Cardinality(upto(i)) \in Nat
    BY <2>2, <2>3, FS_EmptySet, FS_CardinalityType
  <2> QED
    BY <1>1, <2>2, <2>4
<1>3. ASSUME NEW i \in I, NEW j \in I, i < j
      PROVE  Cardinality(upto(i)) # Cardinality(upto(j))
  <2>0. i \in Int /\ j \in Int
    BY <1>0
  <2>1. j \in upto(j) /\ j \notin upto(i)
    BY <1>3, <2>0
  <2>2. ASSUME NEW k \in upto(i)
        PROVE  k \in upto(j)
    BY <1>0, <1>3, <2>0
  <2> QED
    BY <1>2, <2>1, <2>2, FS_Subset
<1>4. rank \in Injection(I, 1 .. N)
  <2>1. rank \in [I -> 1 .. N]
    BY <1>2
  <2>2. ASSUME NEW i \in I, NEW j \in I, rank[i] = rank[j]
        PROVE  i = j
    BY <1>3, <2>2
  <2> QED
    BY <2>1, <2>2 DEF Injection, IsInjective
<1>5. rank \in Surjection(I, 1 .. N)
  <2>1. IsFiniteSet(1 .. N) /\ Cardinality(1 .. N) = N
    BY <1>1, FS_Interval
  <2> QED
    BY <1>4, <2>1, FS_Injection
<1>6. \A k \in 1 .. N : \E i \in I : Cardinality(upto(i)) = k
  BY <1>5 DEF Surjection
<1>7. f \in [1 .. N -> I] /\ \A k \in 1 .. N : Cardinality(upto(f[k])) = k
  <2> SUFFICES ASSUME NEW k \in 1 .. N
               PROVE  f[k] \in I /\ Cardinality(upto(f[k])) = k
    OBVIOUS
  <2>1. \E i \in I : Cardinality(upto(i)) = k
    BY <1>6
  <2>2. f[k] = CHOOSE i \in I : Cardinality(upto(i)) = k
    OBVIOUS
  <2> HIDE DEF f
  <2> QED
    BY <2>1, <2>2
<1>8. \A k, l \in 1 .. N : f[k] = f[l] => k = l
  <2> HIDE DEF f
  <2> QED
    BY <1>7
<1>10. Subsequence(s, I) = sub
  BY DEF Subsequence
<1>11. sub \in Seq(S) /\ Len(sub) = N
  <2> HIDE DEF f
  <2>1. \A k \in 1 .. N : s[f[k]] \in S
    BY <1>0, <1>7
  <2> QED
    BY <1>1, <2>1
<1> HIDE DEF f
<1>12. \A k \in 1 .. N : sub[k] = s[f[k]]
  OBVIOUS
<1> HIDE DEF sub
<1>13. Selects(sub, s, I)
  BY <1>7, <1>8, <1>11, <1>12 DEF Selects
<1> QED
  BY <1>10, <1>11, <1>13

(* The elements of a concatenation.                                        *)
LEMMA ConcatFacts ==
  ASSUME NEW S, NEW s \in Seq(S), NEW t \in Seq(S)
  PROVE  /\ s \o t \in Seq(S) /\ Len(s \o t) = Len(s) + Len(t)
         /\ \A k \in 1 .. Len(s) : (s \o t)[k] = s[k]
         /\ \A k \in 1 .. Len(s \o t) : k \notin 1 .. Len(s) =>
              k - Len(s) \in 1 .. Len(t) /\ (s \o t)[k] = t[k - Len(s)]
  OBVIOUS

(* A function on an initial segment of the naturals is a sequence.         *)
LEMMA FunctionIsSeq ==
  ASSUME NEW S, NEW m \in Nat, NEW s, s = [k \in 1 .. m |-> s[k]], \A k \in 1 .. m : s[k] \in S
  PROVE  s \in Seq(S) /\ Len(s) = m
  OBVIOUS

(* What a stream holds after a message was sent, and after the oldest was  *)
(* read.                                                                   *)
LEMMA SentUp ==
  ASSUME TypeInv, NEW n \in Nodes, NEW m \in UpMsgs, up' = Send(up, n, m)
  PROVE  /\ up' \in [Nodes -> Seq(UpMsgs)]
         /\ Len(up[n]) \in Nat /\ Len(up'[n]) = Len(up[n]) + 1
         /\ \A k \in 1 .. Len(up[n]) : up'[n][k] = up[n][k]
         /\ up'[n][Len(up[n]) + 1] = m
         /\ \A o \in Nodes : o # n => up'[o] = up[o]
<1>1. up \in [Nodes -> Seq(UpMsgs)] /\ up[n] \in Seq(UpMsgs)
  BY DEF TypeInv
<1>2. up' \in [Nodes -> Seq(UpMsgs)] /\ up'[n] = Append(up[n], m)
      /\ \A o \in Nodes : o # n => up'[o] = up[o]
  BY <1>1 DEF Send
<1> QED
  BY <1>1, <1>2

LEMMA SentDown ==
  ASSUME TypeInv, NEW n \in Nodes, NEW m \in DownMsgs, down' = Send(down, n, m)
  PROVE  /\ down' \in [Nodes -> Seq(DownMsgs)]
         /\ Len(down[n]) \in Nat /\ Len(down'[n]) = Len(down[n]) + 1
         /\ \A k \in 1 .. Len(down[n]) : down'[n][k] = down[n][k]
         /\ down'[n][Len(down[n]) + 1] = m
         /\ \A o \in Nodes : o # n => down'[o] = down[o]
<1>1. down \in [Nodes -> Seq(DownMsgs)] /\ down[n] \in Seq(DownMsgs)
  BY DEF TypeInv
<1>2. down' \in [Nodes -> Seq(DownMsgs)] /\ down'[n] = Append(down[n], m)
      /\ \A o \in Nodes : o # n => down'[o] = down[o]
  BY <1>1 DEF Send
<1> QED
  BY <1>1, <1>2

LEMMA ReceivedUp ==
  ASSUME TypeInv, NEW n \in Nodes, up[n] # <<>>, up' = Receive(up, n)
  PROVE  /\ up' \in [Nodes -> Seq(UpMsgs)]
         /\ Len(up[n]) \in Nat \ {0} /\ 1 \in 1 .. Len(up[n])
         /\ Head(up[n]) = up[n][1] /\ up[n][1] \in UpMsgs
         /\ Len(up'[n]) = Len(up[n]) - 1
         /\ \A k \in 1 .. Len(up'[n]) : k + 1 \in 1 .. Len(up[n]) /\ up'[n][k] = up[n][k + 1]
         /\ \A o \in Nodes : o # n => up'[o] = up[o]
<1>1. up \in [Nodes -> Seq(UpMsgs)] /\ up[n] \in Seq(UpMsgs)
  BY DEF TypeInv
<1>2. up' \in [Nodes -> Seq(UpMsgs)] /\ up'[n] = Tail(up[n])
      /\ \A o \in Nodes : o # n => up'[o] = up[o]
  BY <1>1 DEF Receive
<1> QED
  BY <1>1, <1>2

LEMMA ReceivedDown ==
  ASSUME TypeInv, NEW n \in Nodes, down[n] # <<>>, down' = Receive(down, n)
  PROVE  /\ down' \in [Nodes -> Seq(DownMsgs)]
         /\ Len(down[n]) \in Nat \ {0} /\ 1 \in 1 .. Len(down[n])
         /\ Head(down[n]) = down[n][1] /\ down[n][1] \in DownMsgs
         /\ Len(down'[n]) = Len(down[n]) - 1
         /\ \A k \in 1 .. Len(down'[n]) : k + 1 \in 1 .. Len(down[n]) /\ down'[n][k] = down[n][k + 1]
         /\ \A o \in Nodes : o # n => down'[o] = down[o]
<1>1. down \in [Nodes -> Seq(DownMsgs)] /\ down[n] \in Seq(DownMsgs)
  BY DEF TypeInv
<1>2. down' \in [Nodes -> Seq(DownMsgs)] /\ down'[n] = Tail(down[n])
      /\ \A o \in Nodes : o # n => down'[o] = down[o]
  BY <1>1 DEF Receive
<1> QED
  BY <1>1, <1>2

(* The list the coordinator sends names nodes of its table, each once.     *)
TrueList(list, recs) ==
  /\ list \in Seq(Infos)
  /\ \A k \in 1 .. Len(list) :
       /\ list[k].node_id \in 1 .. Len(recs)
       /\ recs[list[k].node_id].port = list[k].port
  /\ \A k, l \in 1 .. Len(list) : list[k].node_id = list[l].node_id => k = l

LEMMA CurrentNodesFacts ==
  ASSUME NEW recs \in Seq(Recs),
         \A i \in 1 .. Len(recs) : recs[i].node_id = i
  PROVE  TrueList(CurrentNodes(recs), recs)
<1> DEFINE I == {i \in DOMAIN recs : recs[i].age <= kNodeTimeout}
           infos == [i \in DOMAIN recs |-> Info(recs[i])]
           list == Subsequence(infos, I)
<1>1. CurrentNodes(recs) = list
  BY DEF CurrentNodes
<1>2. /\ DOMAIN recs = 1 .. Len(recs) /\ Len(recs) \in Nat /\ I \in SUBSET (1 .. Len(recs))
      /\ \A i \in 1 .. Len(recs) : recs[i] \in Recs
  OBVIOUS
<1> HIDE DEF I
<1>3. \A i \in 1 .. Len(recs) : infos[i] = Info(recs[i]) /\ infos[i] \in Infos
  BY <1>2 DEF Info, Infos, Recs
<1>4. infos \in Seq(Infos) /\ Len(infos) = Len(recs)
  BY <1>2, <1>3
<1> HIDE DEF infos
<1>5. I \in SUBSET (1 .. Len(infos))
  BY <1>2, <1>4
<1>6. list \in Seq(Infos) /\ Selects(list, infos, I)
  BY <1>4, <1>5, SubsequenceFacts
<1> HIDE DEF list
<1>7. PICK f \in [1 .. Len(list) -> I] :
        /\ \A k \in 1 .. Len(list) : list[k] = infos[f[k]]
        /\ \A k, l \in 1 .. Len(list) : f[k] = f[l] => k = l
  BY <1>6 DEF Selects
<1>8. ASSUME NEW k \in 1 .. Len(list)
      PROVE  f[k] \in 1 .. Len(recs) /\ list[k].node_id = f[k] /\ list[k].port = recs[f[k]].port
  <2>1. f[k] \in I
    BY <1>7
  <2>2. f[k] \in 1 .. Len(recs)
    BY <1>2, <2>1
  <2>3. list[k] = Info(recs[f[k]])
    BY <1>3, <1>7, <2>2
  <2> QED
    BY <2>2, <2>3 DEF Info
<1>11. \A k, l \in 1 .. Len(list) : list[k].node_id = list[l].node_id => k = l
  BY <1>7, <1>8
<1> QED
  BY <1>1, <1>6, <1>8, <1>11 DEF TrueList

(* update_peers keeps the entries there are, with their identifiers and    *)
(* ports, and appends those it does not know.                              *)
Updated(P, n, list) ==
  /\ P \in Seq(Entries)
  /\ \A k \in 1 .. Len(P) :
       \/ /\ k \in 1 .. Len(peers[n])
          /\ P[k].node_id = peers[n][k].node_id /\ P[k].port = peers[n][k].port
       \/ /\ P[k].node_id # node_id[n]
          /\ \E j \in 1 .. Len(list) :
               P[k].node_id = list[j].node_id /\ P[k].port = list[j].port
  /\ \A k, l \in 1 .. Len(P) : P[k].node_id = P[l].node_id => k = l

LEMMA UpdatePeersFacts ==
  ASSUME TypeInv, NEW n \in Nodes, NEW list \in Seq(Infos),
         \A i, j \in 1 .. Len(list) : list[i].node_id = list[j].node_id => i = j,
         \A i, j \in 1 .. Len(peers[n]) : peers[n][i].node_id = peers[n][j].node_id => i = j
  PROVE  Updated(UpdatePeers(n, list), n, list)
<1> DEFINE I == {i \in DOMAIN list : list[i].node_id # node_id[n] /\ ~Known(n, list[i].node_id)}
           entries == [i \in DOMAIN list |-> Entry(list[i])]
           refreshed(p) ==
             IF \E i \in DOMAIN list : list[i].node_id = p.node_id
             THEN [p EXCEPT !.pending = list[CHOOSE i \in DOMAIN list : list[i].node_id = p.node_id].pending]
             ELSE p
           old == [i \in DOMAIN peers[n] |-> refreshed(peers[n][i])]
           added == Subsequence(entries, I)
           P == old \o added
<1>1. UpdatePeers(n, list) = P
  BY DEF UpdatePeers
<1>2. /\ DOMAIN list = 1 .. Len(list) /\ I \in SUBSET (1 .. Len(list)) /\ Len(list) \in Nat
      /\ \A i \in 1 .. Len(list) : list[i] \in Infos
  OBVIOUS
<1> HIDE DEF I
<1>3. \A i \in 1 .. Len(list) : entries[i] = Entry(list[i]) /\ entries[i] \in Entries
  BY <1>2 DEF Entry, Entries, Infos
<1>4. entries \in Seq(Entries) /\ Len(entries) = Len(list)
  BY <1>2, <1>3
<1> HIDE DEF entries
<1>5. I \in SUBSET (1 .. Len(entries))
  BY <1>2, <1>4
<1>6. added \in Seq(Entries) /\ Selects(added, entries, I)
  BY <1>4, <1>5, SubsequenceFacts
<1> HIDE DEF added
<1>7. PICK f \in [1 .. Len(added) -> I] :
        /\ \A k \in 1 .. Len(added) : added[k] = entries[f[k]]
        /\ \A k, l \in 1 .. Len(added) : f[k] = f[l] => k = l
  BY <1>6 DEF Selects
<1>8. /\ peers[n] \in Seq(Entries) /\ DOMAIN peers[n] = 1 .. Len(peers[n]) /\ Len(peers[n]) \in Nat
      /\ \A k \in 1 .. Len(peers[n]) : peers[n][k] \in Entries
  BY DEF TypeInv
<1>9. ASSUME NEW p \in Entries
      PROVE  /\ refreshed(p) \in Entries
             /\ refreshed(p).node_id = p.node_id /\ refreshed(p).port = p.port
  <2>1. CASE \E i \in DOMAIN list : list[i].node_id = p.node_id
    <3> DEFINE c == CHOOSE i \in DOMAIN list : list[i].node_id = p.node_id
    <3>1. c \in DOMAIN list
      BY <2>1
    <3> HIDE DEF c
    <3>2. list[c].pending \in Nat
      BY <1>2, <3>1 DEF Infos
    <3>3. refreshed(p) = [p EXCEPT !.pending = list[c].pending]
      BY <2>1 DEF c
    <3> HIDE DEF refreshed
    <3> QED
      BY <3>2, <3>3 DEF Entries
  <2>2. CASE ~\E i \in DOMAIN list : list[i].node_id = p.node_id
    BY <2>2
  <2> QED
    BY <2>1, <2>2
<1> HIDE DEF refreshed
<1>10. \A k \in 1 .. Len(peers[n]) : old[k] = refreshed(peers[n][k]) /\ old[k] \in Entries
  BY <1>8, <1>9
<1>11. old = [k \in 1 .. Len(peers[n]) |-> old[k]]
  BY <1>8
<1> HIDE DEF old
<1>18. old \in Seq(Entries) /\ Len(old) = Len(peers[n])
  BY <1>8, <1>10, <1>11, FunctionIsSeq
<1>12. /\ P \in Seq(Entries) /\ Len(P) = Len(peers[n]) + Len(added)
       /\ \A k \in 1 .. Len(peers[n]) : P[k] = old[k]
       /\ \A k \in 1 .. Len(P) : k \notin 1 .. Len(peers[n]) =>
            k - Len(peers[n]) \in 1 .. Len(added) /\ P[k] = added[k - Len(peers[n])]
  <2>1. /\ P \in Seq(Entries) /\ Len(P) = Len(old) + Len(added)
        /\ \A k \in 1 .. Len(old) : P[k] = old[k]
        /\ \A k \in 1 .. Len(P) : k \notin 1 .. Len(old) =>
             k - Len(old) \in 1 .. Len(added) /\ P[k] = added[k - Len(old)]
    <3>1. old \in Seq(Entries) /\ added \in Seq(Entries)
      BY <1>6, <1>18
    <3>2. PICK s \in Seq(Entries), t \in Seq(Entries) : s = old /\ t = added
      BY <3>1
    <3>3. P = s \o t
      BY <3>2
    <3>4. /\ s \o t \in Seq(Entries) /\ Len(s \o t) = Len(s) + Len(t)
          /\ \A k \in 1 .. Len(s) : (s \o t)[k] = s[k]
          /\ \A k \in 1 .. Len(s \o t) : k \notin 1 .. Len(s) =>
               k - Len(s) \in 1 .. Len(t) /\ (s \o t)[k] = t[k - Len(s)]
      BY ConcatFacts
    <3> HIDE DEF P
    <3> QED
      BY <3>2, <3>3, <3>4
  <2> HIDE DEF P
  <2> QED
    BY <1>6, <1>18, <2>1
<1> HIDE DEF P
<1>13. ASSUME NEW k \in 1 .. Len(peers[n])
       PROVE  P[k].node_id = peers[n][k].node_id /\ P[k].port = peers[n][k].port
  <2>1. P[k] = refreshed(peers[n][k]) /\ peers[n][k] \in Entries
    BY <1>8, <1>10, <1>12
  <2> QED
    BY <1>9, <2>1
<1>14. ASSUME NEW k \in 1 .. Len(P), k \notin 1 .. Len(peers[n])
       PROVE  \E j \in I : /\ k - Len(peers[n]) \in 1 .. Len(added) /\ j = f[k - Len(peers[n])]
                           /\ P[k].node_id = list[j].node_id /\ P[k].port = list[j].port
  <2>1. k - Len(peers[n]) \in 1 .. Len(added) /\ P[k] = added[k - Len(peers[n])]
    BY <1>12, <1>14
  <2>2. PICK j \in I : j = f[k - Len(peers[n])]
    BY <1>7, <2>1
  <2>3. P[k] = Entry(list[j]) /\ list[j] \in Infos
    BY <1>2, <1>3, <1>7, <2>1, <2>2
  <2> QED
    BY <2>1, <2>2, <2>3 DEF Entry, Infos
<1>15. \A j \in I : /\ j \in 1 .. Len(list) /\ list[j].node_id # node_id[n]
                    /\ \A i \in 1 .. Len(peers[n]) : peers[n][i].node_id # list[j].node_id
  BY <1>2, <1>8 DEF Known, I
<1>16. ASSUME NEW k \in 1 .. Len(P), NEW l \in 1 .. Len(P), P[k].node_id = P[l].node_id
       PROVE  k = l
  <2>1. CASE k \in 1 .. Len(peers[n]) /\ l \in 1 .. Len(peers[n])
    BY <1>13, <1>16, <2>1
  <2>2. CASE k \notin 1 .. Len(peers[n]) /\ l \notin 1 .. Len(peers[n])
    <3>1. PICK i \in I : /\ k - Len(peers[n]) \in 1 .. Len(added) /\ i = f[k - Len(peers[n])]
                         /\ P[k].node_id = list[i].node_id
      BY <1>14, <2>2
    <3>2. PICK j \in I : /\ l - Len(peers[n]) \in 1 .. Len(added) /\ j = f[l - Len(peers[n])]
                         /\ P[l].node_id = list[j].node_id
      BY <1>14, <2>2
    <3>3. i = j
      BY <1>15, <1>16, <3>1, <3>2
    <3>4. k - Len(peers[n]) = l - Len(peers[n])
      BY <1>7, <3>1, <3>2, <3>3
    <3>5. k \in Int /\ l \in Int /\ Len(peers[n]) \in Int
      BY <1>8
    <3> QED
      BY <3>4, <3>5
  <2>3. CASE k \in 1 .. Len(peers[n]) /\ l \notin 1 .. Len(peers[n])
    BY <1>13, <1>14, <1>15, <1>16, <2>3
  <2>4. CASE k \notin 1 .. Len(peers[n]) /\ l \in 1 .. Len(peers[n])
    BY <1>13, <1>14, <1>15, <1>16, <2>4
  <2> QED
    BY <2>1, <2>2, <2>3, <2>4
<1>17. ASSUME NEW k \in 1 .. Len(P), k \notin 1 .. Len(peers[n])
       PROVE  /\ P[k].node_id # node_id[n]
              /\ \E j \in 1 .. Len(list) :
                   P[k].node_id = list[j].node_id /\ P[k].port = list[j].port
  <2>1. PICK j \in I : P[k].node_id = list[j].node_id /\ P[k].port = list[j].port
    BY <1>14, <1>17
  <2>2. j \in 1 .. Len(list) /\ list[j].node_id # node_id[n]
    BY <1>15
  <2> QED
    BY <2>1, <2>2
<1> QED
  BY <1>1, <1>12, <1>13, <1>16, <1>17 DEF Updated

----------------------------------------------------------------------------
(* The initial states, and steps that do nothing.                          *)

LEMMA InitInv == Init => IInv
<1> SUFFICES ASSUME Init
             PROVE  IInv
  OBVIOUS
<1>1. TypeInv
  BY MembershipAssumption DEF Init, TypeInv
<1>2. TableInv
  BY DEF Init, TableInv
<1>3. ASSUME NEW n \in Nodes
      PROVE  NodeOk(n)
  <2>1. /\ up[n] = <<>> /\ down[n] = <<>> /\ peers[n] = <<>> /\ nodes = <<>> /\ faults = 0
        /\ phase[n] = "off" /\ node_id[n] = 0
    BY DEF Init
  <2> QED
    BY <2>1 DEF NodeOk, IdOk, UpOk, DownOk, CountOk, PeersOk, Alive, Traffic
<1> QED
  BY <1>1, <1>2, <1>3 DEF IInv

(* Whether a list is true depends on the coordinator's table alone.        *)
LEMMA GenuineKept ==
  ASSUME nodes' = nodes, NEW k, NEW l, NEW n, NEW m, down'[n][k].nodes = down[m][l].nodes,
         Genuine(down[m][l].nodes)
  PROVE  Genuine(down[n][k].nodes)'
<1>1. PICK list : list = down[m][l].nodes
  OBVIOUS
<1>2. Genuine(list)
  BY <1>1
<1>3. Genuine(list)'
  BY <1>2 DEF Genuine, Registered
<1> QED
  BY <1>1, <1>3 DEF Genuine, Registered

LEMMA StutterInv ==
  ASSUME IInv, UNCHANGED vars
  PROVE  IInv'
<1>0. /\ policy' = policy /\ running' = running /\ nodes' = nodes /\ next_node_id' = next_node_id
      /\ phase' = phase /\ port' = port /\ node_id' = node_id /\ up' = up /\ down' = down
      /\ lostUp' = lostUp /\ lostDown' = lostDown /\ peers' = peers /\ faults' = faults
  BY DEF vars, coordVars, wireVars
<1>1. TypeInv' /\ TableInv'
  BY <1>0 DEF IInv, TypeInv, TableInv
<1>2. ASSUME NEW n \in Nodes
      PROVE  NodeOk(n)'
  <2>1. IdOk(n) /\ UpOk(n) /\ DownOk(n) /\ CountOk(n) /\ PeersOk(n)
    BY DEF IInv, NodeOk
  <2>2. IdOk(n)'
    BY <1>0, <2>1 DEF IdOk, Registered, Alive
  <2>3. UpOk(n)'
    BY <1>0, <2>1 DEF UpOk
  <2>4. DownOk(n)'
    BY <1>0, <2>1, GenuineKept DEF DownOk, Registered
  <2>5. CountOk(n)'
    BY <1>0, <2>1 DEF CountOk, Traffic
  <2>6. PeersOk(n)'
    BY <1>0, <2>1 DEF PeersOk, Registered, Alive
  <2> QED
    BY <2>2, <2>3, <2>4, <2>5, <2>6 DEF NodeOk
<1> QED
  BY <1>1, <1>2 DEF IInv

LEMMA Lengths ==
  ASSUME TypeInv
  PROVE  /\ up \in [Nodes -> Seq(UpMsgs)] /\ down \in [Nodes -> Seq(DownMsgs)]
         /\ \A n \in Nodes : Len(up[n]) \in Nat /\ Len(down[n]) \in Nat /\ Len(peers[n]) \in Nat
         /\ faults \in Nat /\ Len(nodes) \in Nat
  BY MembershipAssumption DEF TypeInv

(* Lengths, and the types of single messages, records and entries.         *)
LEMMA Elements ==
  ASSUME TypeInv, NEW n \in Nodes
  PROVE  /\ up[n] \in Seq(UpMsgs) /\ Len(up[n]) \in Nat
         /\ down[n] \in Seq(DownMsgs) /\ Len(down[n]) \in Nat
         /\ peers[n] \in Seq(Entries) /\ Len(peers[n]) \in Nat
         /\ up[n] = <<>> <=> Len(up[n]) = 0
         /\ down[n] = <<>> <=> Len(down[n]) = 0
         /\ \A k \in 1 .. Len(up[n]) : up[n][k] \in UpMsgs
         /\ \A k \in 1 .. Len(down[n]) : down[n][k] \in DownMsgs
         /\ \A k \in 1 .. Len(peers[n]) : peers[n][k] \in Entries
         /\ node_id[n] \in Nat /\ faults \in Nat /\ Len(nodes) \in Nat
         /\ \A i \in 1 .. Len(nodes) : nodes[i] \in Recs
  BY MembershipAssumption DEF TypeInv

LEMMA MessageFields ==
  /\ \A m \in UpMsgs : /\ m.type \in {"Register", "Heartbeat"}
                       /\ m.type = "Register" => m.port \in Nodes
                       /\ m.type = "Heartbeat" => m.node_id \in Nat /\ m.pending \in Nat
  /\ \A m \in DownMsgs : /\ m.type \in {"RegisterAck", "NodeList"}
                         /\ m.type = "RegisterAck" => m.node_id \in Nat
                         /\ m.type = "NodeList" => m.nodes \in Seq(Infos)
  BY DEF UpMsgs, DownMsgs

----------------------------------------------------------------------------
(* What a step leaves alone.                                               *)

(* The table only grows, and failures are not undone.                      *)
Forward ==
  /\ \A i \in 1 .. Len(nodes) : i \in 1 .. Len(nodes') /\ nodes'[i].port = nodes[i].port
  /\ faults' >= faults

Untouched(m) ==
  /\ phase'[m] = phase[m] /\ port'[m] = port[m] /\ node_id'[m] = node_id[m]
  /\ up'[m] = up[m] /\ down'[m] = down[m] /\ peers'[m] = peers[m]

LEMMA NodeKept ==
  ASSUME TypeInv, TypeInv', Forward, NEW m \in Nodes, Untouched(m), NodeOk(m)
  PROVE  NodeOk(m)'
<1>1. \A id, p : Registered(id, p) => Registered(id, p)'
  BY DEF Forward, Registered
<1>2. IdOk(m)'
  BY <1>1 DEF NodeOk, IdOk, Untouched, Alive
<1>3. UpOk(m)'
  BY DEF NodeOk, UpOk, Untouched
<1>4. DownOk(m)'
  <2>1. \A list : Genuine(list) => Genuine(list)'
    BY <1>1 DEF Genuine
  <2> QED
    BY <1>1, <2>1 DEF NodeOk, DownOk, Untouched
<1>5. CountOk(m)'
  <2>1. /\ faults \in Nat /\ faults' \in Nat
        /\ up \in [Nodes -> Seq(UpMsgs)] /\ down \in [Nodes -> Seq(DownMsgs)]
    BY MembershipAssumption DEF TypeInv
  <2>2. CountOk(m) /\ Traffic(m)' = Traffic(m) /\ Traffic(m) \in Nat /\ faults' >= faults
    BY <2>1 DEF NodeOk, Untouched, Forward, Traffic
  <2> QED
    BY <2>1, <2>2 DEF CountOk, Untouched
<1>6. PeersOk(m)'
  <2>1. PeersOk(m) /\ (Alive(m) <=> Alive(m)')
    BY DEF NodeOk, Untouched, Alive
  <2> QED
    BY <1>1, <2>1 DEF PeersOk, Untouched
<1> QED
  BY <1>2, <1>3, <1>4, <1>5, <1>6 DEF NodeOk

LEMMA TableUnchanged ==
  ASSUME TypeInv, nodes' = nodes, faults' = faults
  PROVE  Forward
  BY Lengths DEF Forward

(* How the parts of the invariant come together after a step of node n, or *)
(* of the coordinator's thread for it.                                     *)
OthersUntouched(n) == \A m \in Nodes : m # n => Untouched(m)

LEMMA OneNodeStep ==
  ASSUME IInv, NEW n \in Nodes, TypeInv', TableInv', Forward, OthersUntouched(n), NodeOk(n)'
  PROVE  IInv'
<1>1. ASSUME NEW m \in Nodes
      PROVE  NodeOk(m)'
  BY NodeKept DEF IInv, OthersUntouched
<1> QED
  BY <1>1 DEF IInv

(* What is left of a stream after a read is as it was.                     *)
LEMMA UpTail ==
  ASSUME TypeInv, NEW n \in Nodes, UpOk(n), up[n] # <<>>, up' = Receive(up, n), node_id'[n] = node_id[n]
  PROVE  UpOk(n)'
<1> SUFFICES ASSUME NEW k \in 1 .. Len(up'[n])
             PROVE  /\ up'[n][k].type # "Register"
                    /\ up'[n][k].type = "Heartbeat" => node_id'[n] # 0 /\ up'[n][k].node_id = node_id'[n]
  BY DEF UpOk
<1>1. k + 1 \in 1 .. Len(up[n]) /\ up'[n][k] = up[n][k + 1] /\ Len(up[n]) \in Nat /\ k \in Nat \ {0}
  BY ReceivedUp
<1>2. /\ up[n][k + 1].type = "Register" => Len(up[n]) = 1
      /\ up[n][k + 1].type = "Heartbeat" => node_id[n] # 0 /\ up[n][k + 1].node_id = node_id[n]
  BY <1>1 DEF UpOk
<1> QED
  BY <1>1, <1>2

LEMMA DownTail ==
  ASSUME TypeInv, NEW n \in Nodes, DownOk(n), down[n] # <<>>, down' = Receive(down, n),
         node_id'[n] = node_id[n], nodes' = nodes, Alive(n)
  PROVE  DownOk(n)'
<1> SUFFICES ASSUME NEW k \in 1 .. Len(down'[n])
             PROVE  /\ down'[n][k].type # "RegisterAck"
                    /\ down'[n][k].type = "NodeList" => node_id'[n] # 0 /\ Genuine(down[n][k].nodes)'
  BY DEF DownOk
<1>1. k + 1 \in 1 .. Len(down[n]) /\ down'[n][k] = down[n][k + 1]
  BY ReceivedDown
<1>2. /\ down[n][k + 1].type # "RegisterAck"
      /\ down[n][k + 1].type = "NodeList" => node_id[n] # 0 /\ Genuine(down[n][k + 1].nodes)
  BY <1>1 DEF DownOk, Alive
<1> QED
  BY <1>1, <1>2, GenuineKept

----------------------------------------------------------------------------
(* The steps, one by one.                                                  *)

LEMMA StartInv ==
  ASSUME IInv, NEW n \in Nodes, Start(n)
  PROVE  IInv'
<1>0. TypeInv /\ TableInv /\ \A m \in Nodes : NodeOk(m)
  BY DEF IInv
<1>1. /\ phase[n] = "off"
      /\ phase' = [phase EXCEPT ![n] = "registering"]
      /\ UNCHANGED <<policy, running, nodes, next_node_id, node_id, down, lostUp, lostDown, peers, faults>>
  BY DEF Start, Becomes, coordVars
<1>2. PICK p \in Nodes : port' = [port EXCEPT ![n] = p] /\ up' = Send(up, n, [type |-> "Register", port |-> p])
  <2>1. PortsOf({"dead"}) \subseteq Nodes
    BY <1>0 DEF PortsOf, TypeInv
  <2> QED
    BY <2>1 DEF Start
<1>3. PICK msg \in UpMsgs : msg.type = "Register" /\ msg.port = p /\ up' = Send(up, n, msg)
  BY <1>2 DEF UpMsgs
<1>4. Traffic(n) = 0 /\ Len(up[n]) = 0 /\ Len(down[n]) = 0
  <2>1. CountOk(n)
    BY <1>0 DEF NodeOk
  <2> QED
    BY <1>0, <1>1, <2>1, Lengths DEF CountOk, Traffic
<1>5. /\ up' \in [Nodes -> Seq(UpMsgs)]
      /\ \A m \in Nodes : m # n => up'[m] = up[m]
      /\ Len(up'[n]) = 1 /\ up'[n][1] = msg
  <2>1. /\ up' \in [Nodes -> Seq(UpMsgs)] /\ Len(up'[n]) = Len(up[n]) + 1
        /\ up'[n][Len(up[n]) + 1] = msg
        /\ \A o \in Nodes : o # n => up'[o] = up[o]
    BY <1>0, <1>3, SentUp
  <2> QED
    BY <1>4, <2>1
<1>6. /\ phase'[n] = "registering" /\ \A m \in Nodes : m # n => phase'[m] = phase[m]
      /\ port'[n] = p /\ \A m \in Nodes : m # n => port'[m] = port[m]
  BY <1>0, <1>1, <1>2 DEF TypeInv
<1>7. TypeInv'
  BY <1>0, <1>1, <1>2, <1>5 DEF TypeInv
<1>8. TableInv'
  BY <1>0, <1>1 DEF TableInv
<1>9. Forward
  BY <1>0, <1>1, TableUnchanged
<1>10. OthersUntouched(n)
  BY <1>1, <1>5, <1>6 DEF OthersUntouched, Untouched
<1>11. NodeOk(n)'
  <2>1. node_id[n] = 0 /\ Len(peers[n]) = 0
    BY <1>0, <1>1 DEF NodeOk, IdOk, PeersOk, Alive
  <2>2. IdOk(n)' /\ UpOk(n)' /\ DownOk(n)' /\ PeersOk(n)'
    BY <1>1, <1>3, <1>4, <1>5, <1>6, <2>1 DEF IdOk, UpOk, DownOk, PeersOk, Alive
  <2>3. CountOk(n)'
    BY <1>0, <1>1, <1>4, <1>5, <1>6, Elements DEF CountOk, Traffic
  <2> QED
    BY <2>2, <2>3 DEF NodeOk
<1> QED
  BY <1>7, <1>8, <1>9, <1>10, <1>11, OneNodeStep

LEMMA RegisterAckInv ==
  ASSUME IInv, NEW n \in Nodes, RegisterAck(n)
  PROVE  IInv'
<1> DEFINE id == Head(down[n]).node_id
<1>0. TypeInv /\ TableInv /\ \A m \in Nodes : NodeOk(m)
  BY DEF IInv
<1>1. /\ phase[n] = "registering" /\ down[n] # <<>>
      /\ node_id' = [node_id EXCEPT ![n] = id] /\ down' = Receive(down, n)
      /\ phase' = [phase EXCEPT ![n] = "idle"]
      /\ UNCHANGED <<policy, running, nodes, next_node_id, port, up, lostUp, lostDown, peers, faults>>
  BY DEF RegisterAck, Becomes, coordVars
<1>2. /\ down' \in [Nodes -> Seq(DownMsgs)] /\ Len(down[n]) \in Nat \ {0} /\ 1 \in 1 .. Len(down[n])
      /\ Head(down[n]) = down[n][1] /\ down[n][1] \in DownMsgs /\ Len(down'[n]) = Len(down[n]) - 1
      /\ \A m \in Nodes : m # n => down'[m] = down[m]
  BY <1>0, <1>1, ReceivedDown
<1>3. node_id[n] = 0 /\ Len(peers[n]) = 0
  BY <1>0, <1>1 DEF NodeOk, IdOk, PeersOk, Alive
<1>4. down[n][1].type = "RegisterAck" /\ id = down[n][1].node_id /\ Registered(id, port[n])
  <2>1. down[n][1].type = "RegisterAck"
    BY <1>0, <1>2, <1>3, MessageFields DEF NodeOk, DownOk
  <2> QED
    BY <1>0, <1>2, <2>1 DEF NodeOk, DownOk
<1>5. Traffic(n) <= 1 /\ Len(up[n]) = 0 /\ Len(down[n]) = 1 /\ Len(down'[n]) = 0
  <2>1. CountOk(n)
    BY <1>0 DEF NodeOk
  <2> QED
    BY <1>0, <1>1, <1>2, <2>1, Lengths DEF CountOk, Traffic
<1> HIDE DEF id
<1>6. id \in Nat \ {0} /\ id \in 1 .. Len(nodes)
  BY <1>0, <1>4, Lengths DEF Registered
<1>7. /\ phase'[n] = "idle" /\ \A m \in Nodes : m # n => phase'[m] = phase[m]
      /\ node_id'[n] = id /\ \A m \in Nodes : m # n => node_id'[m] = node_id[m]
  BY <1>0, <1>1 DEF TypeInv
<1>8. TypeInv'
  BY <1>0, <1>1, <1>2, <1>6 DEF TypeInv
<1>9. TableInv'
  BY <1>0, <1>1, <1>7 DEF TableInv
<1>10. Forward
  BY <1>0, <1>1, <1>6, <1>7, Lengths DEF Forward
<1>11. OthersUntouched(n)
  BY <1>1, <1>2, <1>7 DEF OthersUntouched, Untouched
<1>12. NodeOk(n)'
  <2>1. IdOk(n)' /\ UpOk(n)' /\ DownOk(n)' /\ PeersOk(n)'
    BY <1>1, <1>3, <1>4, <1>5, <1>6, <1>7 DEF IdOk, UpOk, DownOk, PeersOk, Alive, Registered
  <2>2. CountOk(n)'
    BY <1>0, <1>1, <1>5, <1>7, Lengths DEF CountOk, Traffic
  <2> QED
    BY <2>1, <2>2 DEF NodeOk
<1> QED
  BY <1>8, <1>9, <1>10, <1>11, <1>12, OneNodeStep

(* What a node that ends leaves behind.                                    *)
LEMMA EndsFacts ==
  ASSUME TypeInv, NEW n \in Nodes, Ends(n)
  PROVE  /\ phase' \in [Nodes -> {"off", "registering", "idle", "waiting", "beaten", "dead"}]
         /\ peers' \in [Nodes -> Seq(Entries)] /\ down' \in [Nodes -> Seq(DownMsgs)]
         /\ lostDown' \in [Nodes -> BOOLEAN]
         /\ phase'[n] = "dead" /\ Len(peers'[n]) = 0 /\ Len(down'[n]) = 0 /\ ~lostDown'[n]
         /\ \A m \in Nodes : m # n => /\ phase'[m] = phase[m] /\ peers'[m] = peers[m]
                                      /\ down'[m] = down[m] /\ lostDown'[m] = lostDown[m]
<1>1. <<>> \in Seq(Entries) /\ <<>> \in Seq(DownMsgs) /\ Len(<<>>) = 0
  OBVIOUS
<1> QED
  BY <1>1 DEF TypeInv, Ends, Becomes

LEMMA FaultFacts ==
  ASSUME TypeInv, Fault
  PROVE  faults' = faults + 1 /\ faults \in Nat /\ faults' \in 0 .. MaxFaults
  BY MembershipAssumption DEF TypeInv, Fault

LEMMA TimesOutFacts ==
  ASSUME TypeInv, NEW n \in Nodes, TimesOut(n)
  PROVE  /\ faults \in Nat /\ faults' \in 0 .. MaxFaults /\ faults' \in {faults, faults + 1}
         /\ faults' = faults => Traffic(n) = 0
<1>1. faults \in Nat /\ faults \in 0 .. MaxFaults
  BY MembershipAssumption DEF TypeInv
<1>2. CASE Answered(n)
  BY <1>1, <1>2, FaultFacts DEF TimesOut
<1>3. CASE ~Answered(n)
  <2>1. up[n] = <<>> /\ down[n] = <<>> /\ faults' = faults
    BY <1>3 DEF TimesOut, Answered
  <2>2. Len(up[n]) = 0 /\ Len(down[n]) = 0
    BY <2>1
  <2> QED
    BY <1>1, <2>1, <2>2 DEF Traffic
<1> QED
  BY <1>2, <1>3

LEMMA RegisterTimeoutInv ==
  ASSUME IInv, NEW n \in Nodes, RegisterTimeout(n)
  PROVE  IInv'
<1>0. TypeInv /\ TableInv /\ NodeOk(n)
  BY DEF IInv
<1>1. /\ phase[n] = "registering" /\ TimesOut(n) /\ Ends(n)
      /\ UNCHANGED <<policy, running, nodes, next_node_id, port, node_id, up, lostUp>>
  BY DEF RegisterTimeout, coordVars
<1>2. /\ phase' \in [Nodes -> {"off", "registering", "idle", "waiting", "beaten", "dead"}]
      /\ peers' \in [Nodes -> Seq(Entries)] /\ down' \in [Nodes -> Seq(DownMsgs)]
      /\ lostDown' \in [Nodes -> BOOLEAN]
      /\ phase'[n] = "dead" /\ Len(peers'[n]) = 0 /\ Len(down'[n]) = 0 /\ ~lostDown'[n]
      /\ \A m \in Nodes : m # n => /\ phase'[m] = phase[m] /\ peers'[m] = peers[m]
                                   /\ down'[m] = down[m] /\ lostDown'[m] = lostDown[m]
  BY <1>0, <1>1, EndsFacts
<1>3. faults \in Nat /\ faults' \in 0 .. MaxFaults /\ faults' \in {faults, faults + 1}
  BY <1>0, <1>1, TimesOutFacts
<1>4. node_id[n] = 0
  BY <1>0, <1>1 DEF NodeOk, IdOk
<1>6. TypeInv'
  BY <1>0, <1>1, <1>2, <1>3 DEF TypeInv
<1>7. TableInv'
  BY <1>0, <1>1, <1>3 DEF TableInv
<1>8. Forward
  BY <1>0, <1>1, <1>3, Lengths DEF Forward
<1>9. OthersUntouched(n)
  BY <1>1, <1>2 DEF OthersUntouched, Untouched
<1>10. NodeOk(n)'
  <2>1. IdOk(n)'
    BY <1>1, <1>2, <1>4 DEF IdOk, Alive
  <2>2. UpOk(n)'
    <3>1. UpOk(n)
      BY <1>0 DEF NodeOk
    <3> QED
      BY <1>1, <1>2, <3>1 DEF UpOk
  <2>3. DownOk(n)' /\ PeersOk(n)'
    BY <1>2 DEF DownOk, PeersOk
  <2>4. CountOk(n)'
    <3>1. CountOk(n)
      BY <1>0 DEF NodeOk
    <3> QED
      BY <1>0, <1>1, <1>2, <1>3, <3>1, Lengths DEF CountOk, Traffic
  <2> QED
    BY <2>1, <2>2, <2>3, <2>4 DEF NodeOk
<1> QED
  BY <1>6, <1>7, <1>8, <1>9, <1>10, OneNodeStep

LEMMA HearTimeoutInv ==
  ASSUME IInv, NEW n \in Nodes, HearTimeout(n)
  PROVE  IInv'
<1>0. TypeInv /\ TableInv /\ NodeOk(n)
  BY DEF IInv
<1>1. /\ phase[n] = "waiting" /\ TimesOut(n) /\ phase' = [phase EXCEPT ![n] = "beaten"]
      /\ \/ UNCHANGED <<down, lostDown>>
         \/ down[n] # <<>> /\ down' = Receive(down, n) /\ lostDown' = [lostDown EXCEPT ![n] = TRUE]
      /\ UNCHANGED <<policy, running, nodes, next_node_id, port, node_id, up, lostUp, peers>>
  BY DEF HearTimeout, Becomes, coordVars
<1>2. phase'[n] = "beaten" /\ \A m \in Nodes : m # n => phase'[m] = phase[m]
  BY <1>0, <1>1 DEF TypeInv
<1>3. /\ down' \in [Nodes -> Seq(DownMsgs)] /\ lostDown' \in [Nodes -> BOOLEAN]
      /\ Len(down[n]) \in Nat /\ Len(down'[n]) \in Nat /\ Len(down'[n]) <= Len(down[n])
      /\ \A m \in Nodes : m # n => down'[m] = down[m] /\ lostDown'[m] = lostDown[m]
  <2>1. CASE UNCHANGED <<down, lostDown>>
    BY <1>0, <2>1 DEF TypeInv
  <2>2. CASE down[n] # <<>> /\ down' = Receive(down, n) /\ lostDown' = [lostDown EXCEPT ![n] = TRUE]
    <3>1. /\ down' \in [Nodes -> Seq(DownMsgs)] /\ Len(down[n]) \in Nat \ {0}
          /\ Len(down'[n]) = Len(down[n]) - 1 /\ \A m \in Nodes : m # n => down'[m] = down[m]
      BY <1>0, <2>2, ReceivedDown
    <3>2. Len(down'[n]) \in Nat /\ Len(down'[n]) <= Len(down[n])
      BY <3>1
    <3> QED
      BY <1>0, <2>2, <3>1, <3>2 DEF TypeInv
  <2> QED
    BY <1>1, <2>1, <2>2
<1>4. /\ faults \in Nat /\ faults' \in 0 .. MaxFaults /\ faults' \in {faults, faults + 1}
      /\ faults' = faults => Traffic(n) = 0
  BY <1>0, <1>1, TimesOutFacts
<1>6. TypeInv'
  BY <1>0, <1>1, <1>3, <1>4 DEF TypeInv
<1>7. TableInv'
  BY <1>0, <1>1, <1>4 DEF TableInv
<1>8. Forward
  BY <1>0, <1>1, <1>4, Lengths DEF Forward
<1>9. OthersUntouched(n)
  BY <1>1, <1>2, <1>3 DEF OthersUntouched, Untouched
<1>10. NodeOk(n)'
  <2>1. IdOk(n)' /\ PeersOk(n)'
    BY <1>0, <1>1, <1>2 DEF NodeOk, IdOk, PeersOk, Alive, Registered
  <2>2. UpOk(n)'
    BY <1>0, <1>1, <1>2 DEF NodeOk, UpOk
  <2>3. DownOk(n)'
    <3>1. CASE UNCHANGED <<down, lostDown>>
      BY <1>0, <1>1, <1>2, <3>1 DEF NodeOk, DownOk, Registered, Genuine
    <3>2. CASE down[n] # <<>> /\ down' = Receive(down, n)
      BY <1>0, <1>1, <3>2, DownTail DEF NodeOk, Alive
    <3> QED
      BY <1>1, <3>1, <3>2
  <2>4. CountOk(n)'
    <3>1. CountOk(n) /\ Traffic(n) <= faults + 1
      BY <1>0 DEF NodeOk, CountOk
    <3>2. Traffic(n) \in Nat /\ Traffic(n)' \in Nat /\ Traffic(n)' <= Traffic(n)
      BY <1>0, <1>1, <1>3, Lengths DEF Traffic
    <3> QED
      BY <1>2, <1>4, <3>1, <3>2 DEF CountOk
  <2> QED
    BY <2>1, <2>2, <2>3, <2>4 DEF NodeOk
<1> QED
  BY <1>6, <1>7, <1>8, <1>9, <1>10, OneNodeStep

LEMMA HearGarbageInv ==
  ASSUME IInv, NEW n \in Nodes, HearGarbage(n)
  PROVE  IInv'
<1>0. TypeInv /\ TableInv /\ NodeOk(n)
  BY DEF IInv
<1>1. /\ phase[n] = "waiting" /\ lostDown[n] /\ phase' = [phase EXCEPT ![n] = "beaten"]
      /\ \/ ~Answered(n) /\ UNCHANGED <<down, lostDown>>
         \/ /\ down[n] # <<>> /\ down' = Receive(down, n)
            /\ lostDown' \in {lostDown, [lostDown EXCEPT ![n] = FALSE]}
      /\ UNCHANGED <<policy, running, nodes, next_node_id, port, node_id, up, lostUp, peers, faults>>
  BY DEF HearGarbage, Becomes, coordVars
<1>2. phase'[n] = "beaten" /\ \A m \in Nodes : m # n => phase'[m] = phase[m]
  BY <1>0, <1>1 DEF TypeInv
<1>3. /\ down' \in [Nodes -> Seq(DownMsgs)] /\ lostDown' \in [Nodes -> BOOLEAN]
      /\ \A m \in Nodes : m # n => down'[m] = down[m] /\ lostDown'[m] = lostDown[m]
      /\ Traffic(n)' \in Nat /\ Traffic(n)' <= faults
  <2>1. CASE ~Answered(n) /\ UNCHANGED <<down, lostDown>>
    <3>1. up[n] = <<>> /\ down[n] = <<>> /\ up' = up /\ down' = down
      BY <1>1, <2>1 DEF Answered
    <3>2. Len(up'[n]) = 0 /\ Len(down'[n]) = 0
      BY <3>1
    <3>3. Traffic(n)' = 0
      BY <3>2 DEF Traffic
    <3> QED
      BY <1>0, <2>1, <3>3, Lengths DEF TypeInv
  <2>2. CASE /\ down[n] # <<>> /\ down' = Receive(down, n)
             /\ lostDown' \in {lostDown, [lostDown EXCEPT ![n] = FALSE]}
    <3>1. /\ down' \in [Nodes -> Seq(DownMsgs)] /\ Len(down[n]) \in Nat \ {0}
          /\ Len(down'[n]) = Len(down[n]) - 1 /\ \A m \in Nodes : m # n => down'[m] = down[m]
      BY <1>0, <2>2, ReceivedDown
    <3>2. CountOk(n)
      BY <1>0 DEF NodeOk
    <3>3. Traffic(n)' \in Nat /\ Traffic(n)' <= faults
      BY <1>0, <1>1, <3>1, <3>2, Lengths DEF CountOk, Traffic
    <3> QED
      BY <1>0, <2>2, <3>1, <3>3 DEF TypeInv
  <2> QED
    BY <1>1, <2>1, <2>2
<1>5. TypeInv'
  BY <1>0, <1>1, <1>3 DEF TypeInv
<1>6. TableInv'
  BY <1>0, <1>1 DEF TableInv
<1>7. Forward
  BY <1>0, <1>1, Lengths DEF Forward
<1>8. OthersUntouched(n)
  BY <1>1, <1>2, <1>3 DEF OthersUntouched, Untouched
<1>9. NodeOk(n)'
  <2>1. IdOk(n)' /\ PeersOk(n)'
    BY <1>0, <1>1, <1>2 DEF NodeOk, IdOk, PeersOk, Alive, Registered
  <2>2. UpOk(n)'
    BY <1>0, <1>1, <1>2 DEF NodeOk, UpOk
  <2>3. DownOk(n)'
    <3>1. CASE UNCHANGED <<down, lostDown>>
      BY <1>0, <1>1, <1>2, <3>1 DEF NodeOk, DownOk, Registered, Genuine
    <3>2. CASE down[n] # <<>> /\ down' = Receive(down, n)
      BY <1>0, <1>1, <3>2, DownTail DEF NodeOk, Alive
    <3> QED
      BY <1>1, <3>1, <3>2
  <2>4. CountOk(n)'
    BY <1>0, <1>1, <1>2, <1>3, Lengths DEF CountOk
  <2> QED
    BY <2>1, <2>2, <2>3, <2>4 DEF NodeOk
<1> QED
  BY <1>5, <1>6, <1>7, <1>8, <1>9, OneNodeStep

LEMMA BeatInv ==
  ASSUME IInv, NEW n \in Nodes, Beat(n)
  PROVE  IInv'
<1> DEFINE msg == [type |-> "Heartbeat", node_id |-> node_id[n], pending |-> Load[n]]
<1>0. TypeInv /\ TableInv /\ NodeOk(n)
  BY DEF IInv
<1>1. /\ phase[n] = "idle"
      /\ \/ running /\ up' = Send(up, n, msg) /\ phase' = [phase EXCEPT ![n] = "waiting"]
         \/ ~running /\ up' = up /\ phase' = [phase EXCEPT ![n] = "beaten"]
      /\ UNCHANGED <<policy, running, nodes, next_node_id, port, node_id, down, lostUp, lostDown, peers, faults>>
  BY DEF Beat, Becomes, coordVars
<1>2. msg \in UpMsgs
  BY <1>0, MembershipAssumption DEF UpMsgs, TypeInv
<1>3. node_id[n] # 0 /\ Alive(n)
  BY <1>0, <1>1 DEF NodeOk, IdOk, Alive
<1>4. msg.type = "Heartbeat" /\ msg.node_id = node_id[n]
  OBVIOUS
<1> HIDE DEF msg
<1>5. /\ phase' \in [Nodes -> {"off", "registering", "idle", "waiting", "beaten", "dead"}]
      /\ phase'[n] = (IF running THEN "waiting" ELSE "beaten")
      /\ \A m \in Nodes : m # n => phase'[m] = phase[m]
  BY <1>0, <1>1 DEF TypeInv
<1>6. /\ up' \in [Nodes -> Seq(UpMsgs)]
      /\ \A m \in Nodes : m # n => up'[m] = up[m]
      /\ Len(up[n]) \in Nat /\ Len(up'[n]) = (IF running THEN Len(up[n]) + 1 ELSE Len(up[n]))
      /\ \A k \in 1 .. Len(up[n]) : up'[n][k] = up[n][k]
      /\ running => up'[n][Len(up[n]) + 1] = msg
  <2>1. CASE running
    BY <1>0, <1>1, <1>2, <2>1, SentUp
  <2>2. CASE ~running
    BY <1>0, <1>1, <2>2, Lengths
  <2> QED
    BY <2>1, <2>2
<1>7. TypeInv'
  BY <1>0, <1>1, <1>5, <1>6 DEF TypeInv
<1>9. TableInv'
  BY <1>0, <1>1 DEF TableInv
<1>10. Forward
  BY <1>0, <1>1, TableUnchanged
<1>11. OthersUntouched(n)
  BY <1>1, <1>5, <1>6 DEF OthersUntouched, Untouched
<1>12. NodeOk(n)'
  <2>1. IdOk(n)' /\ PeersOk(n)'
    BY <1>0, <1>1, <1>3, <1>5 DEF NodeOk, IdOk, PeersOk, Alive, Registered
  <2>2. UpOk(n)'
    <3> SUFFICES ASSUME NEW k \in 1 .. Len(up'[n])
                 PROVE  up'[n][k].type = "Heartbeat" /\ up'[n][k].node_id = node_id[n]
      BY <1>1, <1>3 DEF UpOk
    <3>1. CASE k \in 1 .. Len(up[n])
      <4>1. up[n][k].type # "Register"
        BY <1>0, <1>1, <3>1 DEF NodeOk, UpOk
      <4>2. up[n][k].type = "Heartbeat"
        BY <1>0, <3>1, <4>1, Elements, MessageFields
      <4> QED
        BY <1>0, <1>6, <3>1, <4>2 DEF NodeOk, UpOk
    <3>2. CASE k \notin 1 .. Len(up[n])
      <4>1. running /\ k = Len(up[n]) + 1
        BY <1>6, <3>2
      <4> QED
        BY <1>4, <1>6, <4>1
    <3> QED
      BY <3>1, <3>2
  <2>3. DownOk(n)'
    BY <1>0, <1>1, <1>5 DEF NodeOk, DownOk, Registered, Genuine
  <2>4. CountOk(n)'
    <3>1. CountOk(n)
      BY <1>0 DEF NodeOk
    <3>2. Traffic(n) <= faults /\ Traffic(n) \in Nat /\ faults \in Nat
      BY <1>0, <1>1, <3>1, Lengths DEF CountOk, Traffic
    <3>3. Traffic(n)' = (IF running THEN Traffic(n) + 1 ELSE Traffic(n))
      BY <1>0, <1>1, <1>6, Lengths DEF Traffic
    <3> QED
      BY <1>1, <1>5, <3>2, <3>3 DEF CountOk
  <2> QED
    BY <2>1, <2>2, <2>3, <2>4 DEF NodeOk
<1> QED
  BY <1>7, <1>9, <1>10, <1>11, <1>12, OneNodeStep

LEMMA HearInv ==
  ASSUME IInv, NEW n \in Nodes, Hear(n)
  PROVE  IInv'
<1>0. TypeInv /\ TableInv /\ NodeOk(n)
  BY DEF IInv
<1>1. /\ phase[n] = "waiting" /\ down[n] # <<>> /\ phase' = [phase EXCEPT ![n] = "beaten"]
      /\ peers' = [peers EXCEPT ![n] = UpdatePeers(n, Head(down[n]).nodes)] /\ down' = Receive(down, n)
      /\ UNCHANGED <<policy, running, nodes, next_node_id, port, node_id, up, lostUp, lostDown, faults>>
  BY DEF Hear, Becomes, coordVars
<1>2. /\ down' \in [Nodes -> Seq(DownMsgs)] /\ Len(down[n]) \in Nat \ {0} /\ 1 \in 1 .. Len(down[n])
      /\ Head(down[n]) = down[n][1] /\ down[n][1] \in DownMsgs /\ Len(down'[n]) = Len(down[n]) - 1
      /\ \A m \in Nodes : m # n => down'[m] = down[m]
  BY <1>0, <1>1, ReceivedDown
<1>3. PICK list \in Seq(Infos) : Genuine(list) /\ list = down[n][1].nodes
  <2>1. down[n][1].type = "NodeList"
    BY <1>0, <1>1, <1>2, MessageFields DEF NodeOk, DownOk
  <2> QED
    BY <1>0, <1>2, <2>1, MessageFields DEF NodeOk, DownOk
<1>4. PICK P : P = UpdatePeers(n, list) /\ Updated(P, n, list)
  <2>1. \A i, j \in 1 .. Len(list) : list[i].node_id = list[j].node_id => i = j
    BY <1>3 DEF Genuine
  <2>2. \A i, j \in 1 .. Len(peers[n]) : peers[n][i].node_id = peers[n][j].node_id => i = j
    BY <1>0 DEF NodeOk, PeersOk
  <2> QED
    BY <1>0, <1>3, <2>1, <2>2, UpdatePeersFacts
<1>5. /\ phase' \in [Nodes -> {"off", "registering", "idle", "waiting", "beaten", "dead"}]
      /\ peers' \in [Nodes -> Seq(Entries)]
      /\ phase'[n] = "beaten" /\ peers'[n] = P
      /\ \A m \in Nodes : m # n => phase'[m] = phase[m] /\ peers'[m] = peers[m]
  <2>1. peers' = [peers EXCEPT ![n] = P]
    BY <1>1, <1>2, <1>3, <1>4
  <2> QED
    BY <1>0, <1>1, <1>4, <2>1 DEF TypeInv, Updated
<1>6. TypeInv'
  BY <1>0, <1>1, <1>2, <1>5 DEF TypeInv
<1>8. TableInv'
  BY <1>0, <1>1 DEF TableInv
<1>9. Forward
  BY <1>0, <1>1, TableUnchanged
<1>10. OthersUntouched(n)
  BY <1>1, <1>2, <1>5 DEF OthersUntouched, Untouched
<1>11. NodeOk(n)'
  <2>1. IdOk(n)'
    BY <1>0, <1>1, <1>5 DEF NodeOk, IdOk, Alive, Registered
  <2>2. UpOk(n)'
    BY <1>0, <1>1, <1>5 DEF NodeOk, UpOk
  <2>3. DownOk(n)'
    BY <1>0, <1>1, DownTail DEF NodeOk, Alive
  <2>4. CountOk(n)'
    <3>1. CountOk(n)
      BY <1>0 DEF NodeOk
    <3> QED
      BY <1>0, <1>1, <1>2, <1>5, <3>1, Lengths DEF CountOk, Traffic
  <2>5. PeersOk(n)'
    <3>1. ASSUME NEW k \in 1 .. Len(P)
          PROVE  Registered(P[k].node_id, P[k].port) /\ P[k].node_id # node_id[n]
      <4>1. CASE k \in 1 .. Len(peers[n]) /\ P[k].node_id = peers[n][k].node_id
                 /\ P[k].port = peers[n][k].port
        BY <1>0, <4>1 DEF NodeOk, PeersOk
      <4>2. CASE /\ P[k].node_id # node_id[n]
                 /\ \E j \in 1 .. Len(list) :
                      P[k].node_id = list[j].node_id /\ P[k].port = list[j].port
        BY <1>3, <4>2 DEF Genuine
      <4> QED
        BY <1>4, <4>1, <4>2 DEF Updated
    <3>2. \A k, l \in 1 .. Len(P) : P[k].node_id = P[l].node_id => k = l
      BY <1>4 DEF Updated
    <3>3. Alive(n)'
      BY <1>5 DEF Alive
    <3>4. peers'[n] = P /\ nodes' = nodes /\ node_id' = node_id
      BY <1>1, <1>5
    <3> QED
      BY <3>1, <3>2, <3>3, <3>4 DEF PeersOk, Registered
  <2> QED
    BY <2>1, <2>2, <2>3, <2>4, <2>5 DEF NodeOk
<1> QED
  BY <1>6, <1>8, <1>9, <1>10, <1>11, OneNodeStep

(* The coordinator reads a message without serving it.                     *)
LEMMA UpLostInv ==
  ASSUME IInv, NEW n \in Nodes, up[n] # <<>>, up' = Receive(up, n),
         faults' \in 0 .. MaxFaults, faults' \in {faults, faults + 1}, lostUp' \in [Nodes -> BOOLEAN],
         UNCHANGED <<policy, running, nodes, next_node_id, phase, port, node_id, down, lostDown, peers>>
  PROVE  IInv'
<1>0. TypeInv /\ TableInv /\ NodeOk(n)
  BY DEF IInv
<1>1. /\ up' \in [Nodes -> Seq(UpMsgs)] /\ Len(up[n]) \in Nat \ {0} /\ Len(up'[n]) = Len(up[n]) - 1
      /\ \A m \in Nodes : m # n => up'[m] = up[m]
  BY <1>0, ReceivedUp
<1>2. TypeInv'
  BY <1>0, <1>1 DEF TypeInv
<1>4. faults \in Nat
  BY <1>0, Lengths
<1>5. TableInv'
  BY <1>0, <1>4 DEF TableInv
<1>6. Forward
  BY <1>0, <1>4, Lengths DEF Forward
<1>7. OthersUntouched(n)
  BY <1>1 DEF OthersUntouched, Untouched
<1>8. NodeOk(n)'
  <2>1. IdOk(n)' /\ PeersOk(n)' /\ DownOk(n)'
    <3>1. IdOk(n) /\ PeersOk(n) /\ DownOk(n)
      BY <1>0 DEF NodeOk
    <3>2. IdOk(n)'
      BY <3>1 DEF IdOk, Alive, Registered
    <3>3. PeersOk(n)'
      BY <3>1 DEF PeersOk, Alive, Registered
    <3>4. DownOk(n)'
      BY <3>1, GenuineKept DEF DownOk, Registered
    <3> QED
      BY <3>2, <3>3, <3>4
  <2>2. UpOk(n)'
    BY <1>0, UpTail DEF NodeOk
  <2>3. CountOk(n)'
    <3>1. CountOk(n)
      BY <1>0 DEF NodeOk
    <3>2. Traffic(n) \in Nat \ {0} /\ Traffic(n)' = Traffic(n) - 1
      BY <1>0, <1>1, Lengths DEF Traffic
    <3> QED
      BY <1>4, <3>1, <3>2 DEF CountOk
  <2> QED
    BY <2>1, <2>2, <2>3 DEF NodeOk
<1> QED
  BY <1>2, <1>5, <1>6, <1>7, <1>8, OneNodeStep

LEMMA ServeTimeoutInv ==
  ASSUME IInv, NEW n \in Nodes, ServeTimeout(n)
  PROVE  IInv'
<1>0. TypeInv
  BY DEF IInv
<1>1. /\ up[n] # <<>> /\ up' = Receive(up, n) /\ Fault
      /\ lostUp' = [lostUp EXCEPT ![n] = TRUE]
      /\ UNCHANGED <<policy, running, nodes, next_node_id, phase, port, node_id, down, lostDown, peers>>
  BY DEF ServeTimeout, coordVars
<1>2. faults' \in 0 .. MaxFaults /\ faults' = faults + 1 /\ faults' # faults
  BY <1>0, <1>1, FaultFacts
<1>3. lostUp' \in [Nodes -> BOOLEAN] /\ \A m \in Nodes : m # n => lostUp'[m] = lostUp[m]
  BY <1>0, <1>1 DEF TypeInv
<1> QED
  BY <1>1, <1>2, <1>3, UpLostInv

LEMMA ServeGarbageInv ==
  ASSUME IInv, NEW n \in Nodes, ServeGarbage(n)
  PROVE  IInv'
<1>0. TypeInv
  BY DEF IInv
<1>1. /\ up[n] # <<>> /\ up' = Receive(up, n) /\ lostUp[n]
      /\ lostUp' \in {lostUp, [lostUp EXCEPT ![n] = FALSE]} /\ faults' = faults
      /\ UNCHANGED <<policy, running, nodes, next_node_id, phase, port, node_id, down, lostDown, peers>>
  BY DEF ServeGarbage, coordVars
<1>2. faults' \in 0 .. MaxFaults
  BY <1>0, <1>1 DEF TypeInv
<1>3. lostUp' \in [Nodes -> BOOLEAN] /\ \A m \in Nodes : m # n => lostUp'[m] = lostUp[m]
  BY <1>0, <1>1 DEF TypeInv
<1> QED
  BY <1>1, <1>2, <1>3, UpLostInv

LEMMA StopCoordinatorInv ==
  ASSUME IInv, StopCoordinator
  PROVE  IInv'
<1>0. TypeInv /\ TableInv
  BY DEF IInv
<1>1. /\ Fault /\ ~running' /\ running' \in BOOLEAN /\ up' = [n \in Nodes |-> <<>>]
      /\ UNCHANGED <<policy, nodes, next_node_id, phase, port, node_id, down, lostUp, lostDown, peers>>
  BY DEF StopCoordinator
<1>2. faults' = faults + 1 /\ faults \in Nat /\ faults' \in 0 .. MaxFaults
  BY <1>0, <1>1, FaultFacts
<1>3. up' \in [Nodes -> Seq(UpMsgs)] /\ \A n \in Nodes : Len(up'[n]) = 0
  <2>1. <<>> \in Seq(UpMsgs) /\ Len(<<>>) = 0
    OBVIOUS
  <2> QED
    BY <1>1, <2>1
<1>4. TypeInv'
  BY <1>0, <1>1, <1>2, <1>3 DEF TypeInv
<1>5. TableInv'
  BY <1>0, <1>1, <1>2 DEF TableInv
<1>6. ASSUME NEW n \in Nodes
      PROVE  NodeOk(n)'
  <2>0. NodeOk(n)
    BY DEF IInv
  <2>1. IdOk(n)' /\ PeersOk(n)' /\ DownOk(n)'
    BY <1>1, <2>0 DEF NodeOk, IdOk, PeersOk, DownOk, Alive, Registered, Genuine
  <2>2. UpOk(n)'
    BY <1>3 DEF UpOk
  <2>3. CountOk(n)'
    <3>1. CountOk(n)
      BY <2>0 DEF NodeOk
    <3>2. Traffic(n) \in Nat /\ Traffic(n)' \in Nat /\ Traffic(n)' <= Traffic(n)
      BY <1>0, <1>1, <1>3, Lengths DEF Traffic
    <3> QED
      BY <1>1, <1>2, <3>1, <3>2 DEF CountOk
  <2> QED
    BY <2>1, <2>2, <2>3 DEF NodeOk
<1> QED
  BY <1>4, <1>5, <1>6 DEF IInv

LEMMA DieInv ==
  ASSUME IInv, NEW n \in Nodes, Die(n)
  PROVE  IInv'
<1>0. TypeInv /\ TableInv /\ NodeOk(n)
  BY DEF IInv
<1>1. /\ Alive(n) /\ Fault /\ Ends(n)
      /\ UNCHANGED <<policy, running, nodes, next_node_id, port, node_id, up, lostUp>>
  BY DEF Die, coordVars
<1>2. /\ phase' \in [Nodes -> {"off", "registering", "idle", "waiting", "beaten", "dead"}]
      /\ peers' \in [Nodes -> Seq(Entries)] /\ down' \in [Nodes -> Seq(DownMsgs)]
      /\ lostDown' \in [Nodes -> BOOLEAN]
      /\ phase'[n] = "dead" /\ Len(peers'[n]) = 0 /\ Len(down'[n]) = 0 /\ ~lostDown'[n]
      /\ \A m \in Nodes : m # n => /\ phase'[m] = phase[m] /\ peers'[m] = peers[m]
                                   /\ down'[m] = down[m] /\ lostDown'[m] = lostDown[m]
  BY <1>0, <1>1, EndsFacts
<1>3. faults' = faults + 1 /\ faults \in Nat /\ faults' \in 0 .. MaxFaults
  BY <1>0, <1>1, FaultFacts
<1>4. node_id[n] # 0 /\ Registered(node_id[n], port[n])
  BY <1>0, <1>1 DEF NodeOk, IdOk
<1>5. TypeInv'
  BY <1>0, <1>1, <1>2, <1>3 DEF TypeInv
<1>6. TableInv'
  BY <1>0, <1>1, <1>3 DEF TableInv
<1>7. Forward
  BY <1>0, <1>1, <1>3, Lengths DEF Forward
<1>8. OthersUntouched(n)
  BY <1>1, <1>2 DEF OthersUntouched, Untouched
<1>9. NodeOk(n)'
  <2>1. IdOk(n)'
    BY <1>1, <1>2, <1>4 DEF IdOk, Alive, Registered
  <2>2. UpOk(n)'
    <3>1. UpOk(n)
      BY <1>0 DEF NodeOk
    <3> QED
      BY <1>1, <1>2, <3>1 DEF UpOk
  <2>3. DownOk(n)' /\ PeersOk(n)'
    BY <1>2 DEF DownOk, PeersOk
  <2>4. CountOk(n)'
    <3>1. CountOk(n)
      BY <1>0 DEF NodeOk
    <3> QED
      BY <1>0, <1>1, <1>2, <1>3, <3>1, Lengths DEF CountOk, Traffic
  <2> QED
    BY <2>1, <2>2, <2>3, <2>4 DEF NodeOk
<1> QED
  BY <1>5, <1>6, <1>7, <1>8, <1>9, OneNodeStep

(* A steal writes the figures of one entry.                                *)
LEMMA StealFacts ==
  ASSUME TypeInv, NEW n \in Nodes, TrySteal(n)
  PROVE  /\ peers' \in [Nodes -> Seq(Entries)]
         /\ \A m \in Nodes : m # n => peers'[m] = peers[m]
         /\ Len(peers'[n]) = Len(peers[n])
         /\ \A j \in 1 .. Len(peers[n]) :
              peers'[n][j].node_id = peers[n][j].node_id /\ peers'[n][j].port = peers[n][j].port
<1>1. PICK i \in SelectVictim(n), load \in 0 .. MaxLoad, got \in BOOLEAN :
        /\ \E m \in Nodes : Alive(m) /\ port[m] = peers[n][i].port
        /\ peers' = [peers EXCEPT ![n][i].pending = load,
                                  ![n][i].misses = IF got THEN 0 ELSE IF @ < MaxMisses THEN @ + 1 ELSE @]
  BY DEF TrySteal
<1>2. /\ peers[n] \in Seq(Entries) /\ peers \in [Nodes -> Seq(Entries)]
      /\ \A k \in 1 .. Len(peers[n]) : peers[n][k] \in Entries
  BY Elements DEF TypeInv
<1>3. i \in 1 .. Len(peers[n])
  BY <1>1, <1>2 DEF SelectVictim
<1>4. PICK e : e = peers[n][i]
  OBVIOUS
<1>5. PICK misses \in Nat : misses = IF got THEN 0 ELSE IF e.misses < MaxMisses THEN e.misses + 1 ELSE e.misses
  BY <1>2, <1>3, <1>4 DEF Entries
<1>6. PICK f : f = [e EXCEPT !.pending = load, !.misses = misses]
  OBVIOUS
<1>7. f \in Entries /\ f.node_id = e.node_id /\ f.port = e.port
  <2>1. e \in Entries /\ load \in Nat
    BY <1>2, <1>3, <1>4, MembershipAssumption
  <2> QED
    BY <1>6, <2>1 DEF Entries
<1>8. peers' = [peers EXCEPT ![n] = [peers[n] EXCEPT ![i] = f]]
  BY <1>1, <1>2, <1>3, <1>4, <1>5, <1>6 DEF Entries
<1>9. PICK s : s = [peers[n] EXCEPT ![i] = f]
  OBVIOUS
<1>10. /\ s \in Seq(Entries) /\ Len(s) = Len(peers[n])
       /\ \A j \in 1 .. Len(peers[n]) : s[j] = IF j = i THEN f ELSE peers[n][j]
  BY <1>2, <1>3, <1>7, <1>9
<1>11. /\ peers' \in [Nodes -> Seq(Entries)] /\ peers'[n] = s
       /\ \A m \in Nodes : m # n => peers'[m] = peers[m]
  BY <1>2, <1>8, <1>9, <1>10
<1> QED
  BY <1>1, <1>4, <1>7, <1>10, <1>11

LEMMA TryStealInv ==
  ASSUME IInv, NEW n \in Nodes, TrySteal(n)
  PROVE  IInv'
<1>0. TypeInv /\ TableInv /\ NodeOk(n) /\ \A m \in Nodes : NodeOk(m)
  BY DEF IInv
<1>1. /\ UNCHANGED <<policy, running, nodes, next_node_id, phase, port, node_id, up, down, lostUp, lostDown, faults>>
      /\ Alive(n)
  BY DEF TrySteal, coordVars, wireVars
<1>2. /\ peers' \in [Nodes -> Seq(Entries)]
      /\ \A m \in Nodes : m # n => peers'[m] = peers[m]
      /\ Len(peers'[n]) = Len(peers[n])
      /\ \A j \in 1 .. Len(peers[n]) :
           peers'[n][j].node_id = peers[n][j].node_id /\ peers'[n][j].port = peers[n][j].port
  BY <1>0, StealFacts
<1>3. TypeInv'
  BY <1>0, <1>1, <1>2 DEF TypeInv
<1>4. TableInv'
  BY <1>0, <1>1 DEF TableInv
<1>5. Forward
  BY <1>0, <1>1, TableUnchanged
<1>6. OthersUntouched(n)
  BY <1>1, <1>2 DEF OthersUntouched, Untouched
<1>7. NodeOk(n)'
  <2>1. IdOk(n)' /\ UpOk(n)'
    BY <1>0, <1>1 DEF NodeOk, IdOk, UpOk, Alive, Registered
  <2>3. DownOk(n)'
    <3>1. DownOk(n)
      BY <1>0 DEF NodeOk
    <3> QED
      BY <1>1, <3>1, GenuineKept DEF DownOk, Registered
  <2>4. CountOk(n)'
    BY <1>0, <1>1 DEF NodeOk, CountOk, Traffic
  <2>2. PeersOk(n)'
    <3>1. PeersOk(n)
      BY <1>0 DEF NodeOk
    <3>2. ASSUME NEW j \in 1 .. Len(peers[n])
          PROVE  /\ Registered(peers[n][j].node_id, peers[n][j].port)'
                 /\ peers'[n][j].node_id # node_id[n]
      <4>1. Registered(peers[n][j].node_id, peers[n][j].port) /\ peers[n][j].node_id # node_id[n]
        BY <3>1 DEF PeersOk
      <4> QED
        BY <1>1, <1>2, <4>1 DEF Registered
    <3> QED
      BY <1>1, <1>2, <3>1, <3>2 DEF PeersOk, Alive
  <2> QED
    BY <2>1, <2>2, <2>3, <2>4 DEF NodeOk
<1> QED
  BY <1>3, <1>4, <1>5, <1>6, <1>7, OneNodeStep

(* Everybody has been answered when time passes.                           *)
LEMMA TickInv ==
  ASSUME IInv, Tick
  PROVE  IInv'
<1>0. TypeInv /\ TableInv /\ \A m \in Nodes : NodeOk(m)
  BY DEF IInv
<1>1. /\ \A n \in Nodes : phase[n] \notin {"registering", "idle", "waiting"}
      /\ phase' = [n \in Nodes |-> IF phase[n] = "beaten" THEN "idle" ELSE phase[n]]
      /\ nodes' = [i \in DOMAIN nodes |->
                     [nodes[i] EXCEPT !.age = IF @ > kNodeTimeout THEN @ ELSE @ + 1]]
      /\ UNCHANGED <<policy, running, next_node_id, port, node_id, up, down, lostUp, lostDown, peers, faults>>
  BY DEF Tick, wireVars
<1>2. \A i \in 1 .. Len(nodes) : nodes[i] \in Recs /\ DOMAIN nodes = 1 .. Len(nodes) /\ Len(nodes) \in Nat
  BY <1>0 DEF TypeInv
<1>3. ASSUME NEW i \in 1 .. Len(nodes)
      PROVE  /\ nodes'[i] \in Recs
             /\ nodes'[i].node_id = nodes[i].node_id /\ nodes'[i].port = nodes[i].port
  <2>1. nodes[i] \in Recs /\ nodes[i].age \in 0 .. kNodeTimeout + 1 /\ kNodeTimeout \in Nat
    BY <1>2, MembershipAssumption DEF Recs
  <2>2. PICK a : a = IF nodes[i].age > kNodeTimeout THEN nodes[i].age ELSE nodes[i].age + 1
    OBVIOUS
  <2>3. a \in 0 .. kNodeTimeout + 1
    BY <2>1, <2>2
  <2>4. nodes'[i] = [nodes[i] EXCEPT !.age = a]
    BY <1>1, <1>2, <2>1, <2>2 DEF Recs
  <2> QED
    BY <2>1, <2>3, <2>4 DEF Recs
<1>4. nodes' \in Seq(Recs) /\ Len(nodes') = Len(nodes)
  <2>1. Len(nodes) \in Nat /\ DOMAIN nodes = 1 .. Len(nodes)
    BY <1>0 DEF TypeInv
  <2>2. PICK s : s = nodes'
    OBVIOUS
  <2>3. s = [i \in 1 .. Len(nodes) |-> s[i]] /\ \A i \in 1 .. Len(nodes) : s[i] \in Recs
    BY <1>1, <1>3, <2>1, <2>2
  <2>4. s \in Seq(Recs) /\ Len(s) = Len(nodes)
    BY <2>1, <2>3, FunctionIsSeq
  <2> QED
    BY <2>2, <2>4
<1>5. /\ phase' \in [Nodes -> {"off", "registering", "idle", "waiting", "beaten", "dead"}]
      /\ \A n \in Nodes : \/ phase[n] = "beaten" /\ phase'[n] = "idle"
                          \/ phase[n] \in {"off", "dead"} /\ phase'[n] = phase[n]
  BY <1>0, <1>1 DEF TypeInv
<1>6. TypeInv'
  BY <1>0, <1>1, <1>4, <1>5 DEF TypeInv
<1>7. \A v \in Nodes : Alive(v)' <=> Alive(v)
  BY <1>1, <1>5 DEF Alive
<1>8. TableInv'
  BY <1>0, <1>1, <1>3, <1>4, <1>7 DEF TableInv
<1>9. \A id, p : Registered(id, p)' <=> Registered(id, p)
  BY <1>3, <1>4 DEF Registered
<1>10. ASSUME NEW n \in Nodes
       PROVE  NodeOk(n)'
  <2>0. NodeOk(n) /\ (Alive(n)' <=> Alive(n))
    BY <1>0, <1>7
  <2>1. IdOk(n)'
    BY <1>1, <1>5, <1>9, <2>0 DEF NodeOk, IdOk
  <2>2. UpOk(n)'
    BY <1>1, <1>5, <2>0 DEF NodeOk, UpOk
  <2>3. DownOk(n)'
    <3>1. \A list : Genuine(list) => Genuine(list)'
      BY <1>9 DEF Genuine
    <3> QED
      BY <1>1, <1>5, <1>9, <2>0, <3>1 DEF NodeOk, DownOk
  <2>4. CountOk(n)'
    BY <1>1, <1>5, <2>0 DEF NodeOk, CountOk, Traffic
  <2>5. PeersOk(n)'
    BY <1>1, <1>9, <2>0 DEF NodeOk, PeersOk
  <2> QED
    BY <2>1, <2>2, <2>3, <2>4, <2>5 DEF NodeOk
<1> QED
  BY <1>6, <1>8, <1>10 DEF IInv

(* A registration is served once, for a node that has no identifier.       *)
LEMMA ServeRegisterInv ==
  ASSUME IInv, NEW n \in Nodes, ServeRegister(n)
  PROVE  IInv'
<1>0. TypeInv /\ TableInv /\ NodeOk(n)
  BY DEF IInv
<1>1. /\ up[n] # <<>> /\ Head(up[n]).type = "Register"
      /\ nodes' = Append(nodes, [node_id |-> next_node_id, port |-> Head(up[n]).port,
                                 pending |-> 0, age |-> 0])
      /\ next_node_id' = next_node_id + 1
      /\ up' = Receive(up, n)
      /\ down' = Send(down, n, [type |-> "RegisterAck", node_id |-> next_node_id])
      /\ UNCHANGED <<policy, running, phase, port, node_id, lostUp, lostDown, peers, faults>>
  BY DEF ServeRegister, Heard, RegisterNode
<1>2. /\ up' \in [Nodes -> Seq(UpMsgs)] /\ 1 \in 1 .. Len(up[n]) /\ Head(up[n]) = up[n][1]
      /\ Len(up'[n]) = Len(up[n]) - 1
      /\ \A m \in Nodes : m # n => up'[m] = up[m]
  BY <1>0, <1>1, ReceivedUp
<1>3. /\ up[n][1].port = port[n] /\ node_id[n] = 0 /\ Len(up[n]) = 1 /\ Len(down[n]) = 0
      /\ phase[n] \in {"registering", "dead"}
  BY <1>0, <1>1, <1>2 DEF NodeOk, UpOk
<1>4. PICK id : id = Len(nodes) + 1
  OBVIOUS
<1>5. id \in Nat /\ id = next_node_id /\ nodes \in Seq(Recs) /\ Len(nodes) \in Nat
  BY <1>0, <1>4 DEF TypeInv
<1>6. PICK rec : rec = [node_id |-> id, port |-> port[n], pending |-> 0, age |-> 0]
  OBVIOUS
<1>7. rec \in Recs /\ rec.node_id = id /\ rec.port = port[n]
  BY <1>0, <1>5, <1>6, MembershipAssumption DEF Recs, TypeInv
<1>8. nodes' = Append(nodes, rec)
  BY <1>1, <1>2, <1>3, <1>5, <1>6
<1>9. /\ nodes' \in Seq(Recs) /\ Len(nodes') = id /\ nodes'[id] = rec
      /\ \A i \in 1 .. Len(nodes) : nodes'[i] = nodes[i]
      /\ id \in 1 .. Len(nodes')
      /\ \A i \in 1 .. Len(nodes') : i \in 1 .. Len(nodes) \/ i = id
  BY <1>4, <1>5, <1>7, <1>8
<1>10. PICK ack : ack = [type |-> "RegisterAck", node_id |-> id]
  OBVIOUS
<1>11. ack \in DownMsgs /\ ack.type = "RegisterAck" /\ ack.node_id = id
  BY <1>5, <1>10 DEF DownMsgs
<1>12. /\ down' \in [Nodes -> Seq(DownMsgs)] /\ Len(down'[n]) = 1 /\ down'[n][1] = ack
       /\ \A m \in Nodes : m # n => down'[m] = down[m]
  <2>1. down' = Send(down, n, ack)
    BY <1>1, <1>5, <1>10
  <2>2. /\ down' \in [Nodes -> Seq(DownMsgs)] /\ Len(down'[n]) = Len(down[n]) + 1
        /\ down'[n][Len(down[n]) + 1] = ack
        /\ \A m \in Nodes : m # n => down'[m] = down[m]
    BY <1>0, <1>11, <2>1, SentDown
  <2> QED
    BY <1>3, <2>2
<1>13. TypeInv'
  <2>1. next_node_id' = Len(nodes') + 1
    BY <1>1, <1>5, <1>9
  <2> QED
    BY <1>0, <1>1, <1>2, <1>9, <1>12, <2>1 DEF TypeInv
<1>14. TableInv'
  BY <1>0, <1>7, <1>9 DEF TableInv
<1>16. Forward
  BY <1>0, <1>1, <1>4, <1>5, <1>9, Lengths DEF Forward
<1>17. OthersUntouched(n)
  BY <1>1, <1>2, <1>7, <1>9, <1>12 DEF OthersUntouched, Untouched
<1>18. node_id[n] = 0 /\ Len(peers[n]) = 0
  BY <1>0, <1>3 DEF NodeOk, PeersOk, Alive
<1>19. NodeOk(n)'
  <2>1. IdOk(n)' /\ PeersOk(n)'
    BY <1>1, <1>3, <1>18 DEF IdOk, PeersOk, Alive
  <2>2. UpOk(n)'
    BY <1>2, <1>3 DEF UpOk
  <2>3. DownOk(n)'
    BY <1>1, <1>3, <1>7, <1>9, <1>11, <1>12 DEF DownOk, Registered
  <2>4. CountOk(n)'
    <3>1. Traffic(n)' = 1 /\ faults \in Nat
      BY <1>0, <1>2, <1>3, <1>12, Lengths DEF Traffic
    <3> QED
      BY <1>1, <1>3, <3>1 DEF CountOk
  <2> QED
    BY <2>1, <2>2, <2>3, <2>4 DEF NodeOk
<1> QED
  BY <1>13, <1>14, <1>16, <1>17, <1>19, OneNodeStep

(* A heartbeat leaves identifiers and ports as they are, and the answer is *)
(* true to the table.                                                      *)
LEMMA ServeHeartbeatInv ==
  ASSUME IInv, NEW n \in Nodes, ServeHeartbeat(n)
  PROVE  IInv'
<1>0. TypeInv /\ TableInv /\ NodeOk(n)
  BY DEF IInv
<1>1. /\ up[n] # <<>> /\ Head(up[n]).type = "Heartbeat"
      /\ nodes' = TouchNode(Head(up[n]).node_id, Head(up[n]).pending)
      /\ up' = Receive(up, n)
      /\ down' = Send(down, n, [type |-> "NodeList", nodes |-> CurrentNodes(nodes')])
      /\ UNCHANGED <<policy, running, next_node_id, phase, port, node_id, lostUp, lostDown, peers, faults>>
  BY DEF ServeHeartbeat, Heard
<1>2. /\ up' \in [Nodes -> Seq(UpMsgs)] /\ 1 \in 1 .. Len(up[n]) /\ Head(up[n]) = up[n][1]
      /\ Len(up[n]) \in Nat \ {0} /\ Len(up'[n]) = Len(up[n]) - 1
      /\ \A m \in Nodes : m # n => up'[m] = up[m]
  BY <1>0, <1>1, ReceivedUp
<1>3. Head(up[n]).node_id = node_id[n] /\ node_id[n] \in 1 .. Len(nodes) /\ node_id[n] # 0
  BY <1>0, <1>1, <1>2 DEF NodeOk, UpOk, IdOk, Registered
<1>4. nodes' = [i \in DOMAIN nodes |->
                  IF nodes[i].node_id = node_id[n] THEN [nodes[i] EXCEPT !.age = 0] ELSE nodes[i]]
  BY <1>1, <1>3 DEF TouchNode
<1>5. ASSUME NEW i \in 1 .. Len(nodes)
      PROVE  /\ nodes'[i] \in Recs /\ nodes'[i].node_id = i /\ nodes'[i].port = nodes[i].port
  <2>1. nodes[i] \in Recs /\ nodes[i].node_id = i /\ DOMAIN nodes = 1 .. Len(nodes)
    BY <1>0 DEF TypeInv, TableInv
  <2>2. kNodeTimeout \in Nat /\ nodes[i].age \in Nat
    BY <2>1, MembershipAssumption DEF Recs
  <2>3. CASE i = node_id[n]
    <3>1. nodes'[i] = [nodes[i] EXCEPT !.age = 0]
      BY <1>4, <2>1, <2>3
    <3> QED
      BY <2>1, <2>2, <2>3, <3>1 DEF Recs
  <2>4. CASE i # node_id[n]
    <3>1. nodes'[i] = nodes[i]
      BY <1>4, <2>1, <2>4
    <3> QED
      BY <2>1, <3>1
  <2> QED
    BY <2>3, <2>4
<1>6. nodes' \in Seq(Recs) /\ Len(nodes') = Len(nodes)
  <2>1. Len(nodes) \in Nat /\ DOMAIN nodes = 1 .. Len(nodes)
    BY <1>0 DEF TypeInv
  <2>2. PICK s : s = nodes'
    OBVIOUS
  <2>3. s = [i \in 1 .. Len(nodes) |-> s[i]] /\ \A i \in 1 .. Len(nodes) : s[i] \in Recs
    BY <1>4, <1>5, <2>1, <2>2
  <2>4. s \in Seq(Recs) /\ Len(s) = Len(nodes)
    BY <2>1, <2>3, FunctionIsSeq
  <2> QED
    BY <2>2, <2>4
<1>7. PICK list : list = CurrentNodes(nodes') /\ TrueList(list, nodes')
  <2>1. PICK recs \in Seq(Recs) : recs = nodes'
    BY <1>6
  <2>2. \A i \in 1 .. Len(recs) : recs[i].node_id = i
    BY <1>5, <1>6, <2>1
  <2>3. TrueList(CurrentNodes(recs), recs)
    BY <2>2, CurrentNodesFacts
  <2> QED
    BY <2>1, <2>3
<1>8. list \in Seq(Infos) /\ Genuine(list)'
  BY <1>7 DEF TrueList, Genuine, Registered
<1>9. PICK ans : ans = [type |-> "NodeList", nodes |-> list]
  OBVIOUS
<1>10. ans \in DownMsgs /\ ans.type = "NodeList" /\ ans.nodes = list
  BY <1>8, <1>9 DEF DownMsgs
<1>11. /\ down' \in [Nodes -> Seq(DownMsgs)]
       /\ Len(down[n]) \in Nat /\ Len(down'[n]) = Len(down[n]) + 1
       /\ \A k \in 1 .. Len(down[n]) : down'[n][k] = down[n][k]
       /\ down'[n][Len(down[n]) + 1] = ans
       /\ \A m \in Nodes : m # n => down'[m] = down[m]
  <2>1. down' = Send(down, n, ans)
    BY <1>1, <1>7, <1>9
  <2> QED
    BY <1>0, <1>10, <2>1, SentDown
<1>12. TypeInv'
  BY <1>0, <1>1, <1>2, <1>6, <1>11 DEF TypeInv
<1>13. TableInv'
  BY <1>0, <1>5, <1>6 DEF TableInv
<1>15. Forward
  BY <1>0, <1>1, <1>5, <1>6, Lengths DEF Forward
<1>16. \A id, p : Registered(id, p)' <=> Registered(id, p)
  BY <1>5, <1>6 DEF Registered
<1>17. OthersUntouched(n)
  BY <1>1, <1>2, <1>5, <1>6, <1>11 DEF OthersUntouched, Untouched
<1>18. NodeOk(n)'
  <2>1. IdOk(n)'
    BY <1>0, <1>1, <1>16 DEF NodeOk, IdOk, Alive
  <2>2. PeersOk(n)'
    BY <1>0, <1>1, <1>16 DEF NodeOk, PeersOk, Alive
  <2>3. UpOk(n)'
    BY <1>0, <1>1, UpTail DEF NodeOk
  <2>4. DownOk(n)'
    <3> SUFFICES ASSUME NEW k \in 1 .. Len(down'[n])
                 PROVE  /\ down'[n][k].type = "RegisterAck" =>
                             phase[n] \in {"registering", "dead"} /\ Registered(down[n][k].node_id, port[n])'
                        /\ down'[n][k].type = "NodeList" => Genuine(down[n][k].nodes)'
      BY <1>1, <1>3 DEF DownOk
    <3>1. CASE k \in 1 .. Len(down[n])
      <4>1. PICK msg : msg = down[n][k] /\ msg = down'[n][k]
        BY <1>11, <3>1
      <4>2. /\ msg.type = "RegisterAck" =>
                 phase[n] \in {"registering", "dead"} /\ Registered(msg.node_id, port[n])
            /\ msg.type = "NodeList" => Genuine(msg.nodes)
        BY <1>0, <3>1, <4>1 DEF NodeOk, DownOk
      <4>3. \A l : Genuine(l) => Genuine(l)'
        BY <1>16 DEF Genuine
      <4>4. PICK p : p = port[n] /\ p = port'[n]
        BY <1>1
      <4>5. /\ msg.type = "RegisterAck" => Registered(msg.node_id, p)'
            /\ msg.type = "NodeList" => Genuine(msg.nodes)'
        BY <1>16, <4>2, <4>3, <4>4
      <4> QED
        BY <4>1, <4>2, <4>4, <4>5 DEF Registered, Genuine
    <3>2. CASE k \notin 1 .. Len(down[n])
      <4>1. k = Len(down[n]) + 1
        BY <1>11, <3>2
      <4>2. down'[n][k] = ans
        BY <1>11, <4>1
      <4> QED
        BY <1>8, <1>10, <4>2 DEF Genuine
    <3> QED
      BY <3>1, <3>2
  <2>5. CountOk(n)'
    <3>1. CountOk(n)
      BY <1>0 DEF NodeOk
    <3>2. Traffic(n)' = Traffic(n)
      BY <1>0, <1>2, <1>11, Lengths DEF Traffic
    <3> QED
      BY <1>1, <3>1, <3>2 DEF CountOk
  <2> QED
    BY <2>1, <2>2, <2>3, <2>4, <2>5 DEF NodeOk
<1> QED
  BY <1>12, <1>13, <1>15, <1>17, <1>18, OneNodeStep

----------------------------------------------------------------------------
(* The theorems.                                                           *)

LEMMA NextInv ==
  ASSUME IInv, [Next]_vars
  PROVE  IInv'
<1>1. CASE UNCHANGED vars
  BY <1>1, StutterInv
<1>2. ASSUME NEW n \in Nodes, Serve(n)
      PROVE  IInv'
  BY <1>2, ServeRegisterInv, ServeHeartbeatInv, ServeGarbageInv DEF Serve
<1>3. ASSUME NEW n \in Nodes, HeartbeatLoop(n)
      PROVE  IInv'
  BY <1>3, RegisterAckInv, RegisterTimeoutInv, BeatInv, HearInv, HearTimeoutInv, HearGarbageInv
  DEF HeartbeatLoop
<1>4. ASSUME NEW n \in Nodes, ServeTimeout(n) \/ Start(n) \/ Die(n) \/ TrySteal(n)
      PROVE  IInv'
  BY <1>4, ServeTimeoutInv, StartInv, DieInv, TryStealInv
<1>5. CASE Tick \/ StopCoordinator
  BY <1>5, TickInv, StopCoordinatorInv
<1> QED
  BY <1>1, <1>2, <1>3, <1>4, <1>5 DEF Next

(***************************************************************************)
(* The invariant holds in every reachable state: in each, the coordinator's *)
(* table, the messages under way and the nodes' peer tables fit together.  *)
(***************************************************************************)
THEOREM Invariant == Spec => []IInv
<1>1. Init => IInv
  BY InitInv
<1>2. IInv /\ [Next]_vars => IInv'
  BY NextInv
<1> QED
  BY <1>1, <1>2, PTL DEF Spec

(***************************************************************************)
(* Every variable keeps its type; no node has more messages under way than *)
(* one, and one for every failure: a heartbeat is only sent when the one   *)
(* before it was answered or given up (coordinator_loop).                  *)
(***************************************************************************)
THEOREM TypeCorrect == Spec => []TypeOK
<1>1. IInv => TypeOK
  <2> SUFFICES ASSUME IInv
               PROVE  TypeOK
    OBVIOUS
  <2>0. TypeInv /\ \A n \in Nodes : NodeOk(n)
    BY DEF IInv
  <2>1. \A i \in DOMAIN nodes : nodes[i].age \in 0 .. kNodeTimeout + 1 /\ nodes[i].port \in Nodes
    <3>1. \A i \in DOMAIN nodes : nodes[i] \in Recs
      BY <2>0 DEF TypeInv
    <3> QED
      BY <3>1 DEF Recs
  <2>2. node_id \in [Nodes -> 0 .. Len(nodes)]
    <3>1. \A n \in Nodes : node_id[n] \in 0 .. Len(nodes)
      BY <2>0, Lengths DEF NodeOk, IdOk, Registered
    <3> QED
      BY <2>0, <3>1 DEF TypeInv
  <2>3. ASSUME NEW n \in Nodes
        PROVE  Len(up[n]) <= MaxFaults + 1 /\ Len(down[n]) <= MaxFaults + 1
    <3>1. Traffic(n) <= faults + 1
      BY <2>0 DEF NodeOk, CountOk
    <3>2. faults \in 0 .. MaxFaults /\ MaxFaults \in Nat
      BY <2>0, MembershipAssumption DEF TypeInv
    <3> QED
      BY <2>0, <3>1, <3>2, Lengths DEF Traffic
  <2> QED
    BY <2>0, <2>1, <2>2, <2>3 DEF TypeInv, TypeOK
<1> QED
  BY <1>1, Invariant, PTL

(***************************************************************************)
(* Peer tables are genuine whatever the lists that made them were (late    *)
(* ones, answers to earlier heartbeats, ones that follow a lost one) and   *)
(* whoever was restarted on whose port.  update_peers never lists the      *)
(* node's own identifier, never one twice, and what it lists is registered *)
(* under that identifier and port, which is the port of the node that has  *)
(* the identifier.                                                         *)
(***************************************************************************)
THEOREM PeersGenuine == Spec => []PeersAreGenuine
<1>1. IInv => PeersAreGenuine
  <2> SUFFICES ASSUME IInv, NEW n \in Nodes, NEW i \in DOMAIN peers[n], NEW id, id = peers[n][i].node_id
               PROVE  /\ id # node_id[n]
                      /\ \A j \in DOMAIN peers[n] : peers[n][j].node_id = id => i = j
                      /\ id \in DOMAIN nodes /\ nodes[id].port = peers[n][i].port
                      /\ \A m \in Nodes : node_id[m] = id => port[m] = peers[n][i].port
    BY DEF PeersAreGenuine
  <2>0. TypeInv /\ \A m \in Nodes : NodeOk(m)
    BY DEF IInv
  <2>1. DOMAIN peers[n] = 1 .. Len(peers[n]) /\ DOMAIN nodes = 1 .. Len(nodes) /\ Len(nodes) \in Nat
    BY <2>0, Elements DEF TypeInv
  <2>2. Registered(id, peers[n][i].port) /\ id # node_id[n]
    BY <2>0, <2>1 DEF NodeOk, PeersOk
  <2>3. \A j \in DOMAIN peers[n] : peers[n][j].node_id = id => i = j
    BY <2>0, <2>1 DEF NodeOk, PeersOk
  <2>4. id \in DOMAIN nodes /\ nodes[id].port = peers[n][i].port /\ id # 0
    BY <2>1, <2>2 DEF Registered
  <2>5. ASSUME NEW m \in Nodes, node_id[m] = id
        PROVE  port[m] = peers[n][i].port
    <3>1. Registered(id, port[m])
      BY <2>0, <2>4, <2>5 DEF NodeOk, IdOk
    <3> QED
      BY <2>4, <3>1 DEF Registered
  <2> QED
    BY <2>2, <2>3, <2>4, <2>5
<1> QED
  BY <1>1, Invariant, PTL
=============================================================================
