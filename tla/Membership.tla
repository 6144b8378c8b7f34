----------------------------- MODULE Membership -----------------------------
(***************************************************************************)
(* Cluster membership: the coordinator (src/cluster/Coordinator.cpp), the  *)
(* registration, the heartbeats and the peer table of the nodes            *)
(* (src/cluster/Node.cpp), and the choice of a steal victim from it.       *)
(*                                                                         *)
(* A node that has ended may be started again on its port: that is another *)
(* process, and to the coordinator another node.                           *)
(*                                                                         *)
(* Each node has one connection to the coordinator, a stream of messages   *)
(* in each direction.  A receive that times out inside a frame leaves the  *)
(* receiver out of step: from then on it finds no header (module Protocol, *)
(* WireSound) until a read happens to start at the front of a frame.       *)
(*                                                                         *)
(* Time is counted in ticks.  In each tick every node ends one round of    *)
(* its heartbeat loop, as heartbeat_ms and the receive timeout are short   *)
(* beside kNodeTimeoutMs.  The steal itself is module Node's; here a steal *)
(* is its effect on the peer table.                                        *)
(***************************************************************************)
EXTENDS Protocol, FiniteSets

CONSTANTS
  Nodes,        \* the node processes, numbered in the order in which they start
  Thieves,      \* those whose stealing is followed
  Policies,     \* of "None", "Random", "LoadAware", "Adaptive"
  kNodeTimeout, \* ticks a silent node stays on the list
  Load,         \* the load each node reports with its heartbeats
  MaxLoad,      \* bound: the load a victim may answer with
  MaxMisses,    \* bound: misses counted
  MaxFaults     \* bound: receive timeouts although the sender answers in time, and processes that end

ASSUME MembershipAssumption ==
  /\ Nodes \subseteq Nat /\ IsFiniteSet(Nodes) /\ Thieves \subseteq Nodes
  /\ Policies \subseteq {"None", "Random", "LoadAware", "Adaptive"}
  /\ kNodeTimeout \in Nat \ {0, 1}
  /\ Load \in [Nodes -> Nat] /\ MaxLoad \in Nat /\ MaxMisses \in Nat /\ MaxFaults \in Nat

VARIABLES
  policy,         \* cfg_.policy of the thieves
  running,        \* running_ of the coordinator
  nodes,          \* nodes_ of the coordinator, with the age of last_seen_ms
  next_node_id,
  phase,          \* what each node is doing: "off", "registering", "idle", "waiting", "beaten", "dead"
  port,           \* the port of each node: the number of the first to use it
  node_id,
  up, down,       \* the messages on the way to the coordinator and back
  lostUp,         \* the coordinator's reads from this node are out of step
  lostDown,       \* the node's reads are
  peers,          \* peers_
  faults

coordVars == <<running, nodes, next_node_id>>
wireVars == <<up, down, lostUp, lostDown>>
vars == <<policy, coordVars, phase, port, node_id, wireVars, peers, faults>>

Alive(n) == phase[n] \in {"idle", "waiting", "beaten"}

Init ==
  /\ policy \in Policies
  /\ running = TRUE /\ nodes = <<>> /\ next_node_id = 1
  /\ phase = [n \in Nodes |-> "off"]
  /\ port = [n \in Nodes |-> n]
  /\ node_id = [n \in Nodes |-> 0]
  /\ up = [n \in Nodes |-> <<>>] /\ down = [n \in Nodes |-> <<>>]
  /\ lostUp = [n \in Nodes |-> FALSE] /\ lostDown = [n \in Nodes |-> FALSE]
  /\ peers = [n \in Nodes |-> <<>>]
  /\ faults = 0

Send(chan, n, m) == [chan EXCEPT ![n] = Append(@, m)]
Receive(chan, n) == [chan EXCEPT ![n] = Tail(@)]
Becomes(n, ph) == phase' = [phase EXCEPT ![n] = ph]

(* The process ends, and with it what it knew; what it sent is on its way. *)
Ends(n) ==
  /\ Becomes(n, "dead")
  /\ peers' = [peers EXCEPT ![n] = <<>>]
  /\ down' = [down EXCEPT ![n] = <<>>] /\ lostDown' = [lostDown EXCEPT ![n] = FALSE]

(* The elements of s at the indices in I, in their order.                  *)
Subsequence(s, I) ==
  [k \in 1 .. Cardinality(I) |-> s[CHOOSE i \in I : Cardinality({j \in I : j <= i}) = k]]

(* Something goes wrong that need not.                                     *)
Fault == faults < MaxFaults /\ faults' = faults + 1

----------------------------------------------------------------------------
(* The coordinator's thread for the connection of node n.                  *)

(* Faulty variant: the identifier is handed out again.                     *)
RegisterNode_SameId(p) ==
  /\ nodes' = Append(nodes, [node_id |-> next_node_id, port |-> p, pending |-> 0, age |-> 0])
  /\ UNCHANGED next_node_id

RegisterNode(p) ==
  /\ nodes' = Append(nodes, [node_id |-> next_node_id, port |-> p, pending |-> 0, age |-> 0])
  /\ next_node_id' = next_node_id + 1

(* touch_node; the load is not looked at.                                  *)
TouchNode(id, load) ==
  [i \in DOMAIN nodes |-> IF nodes[i].node_id = id THEN [nodes[i] EXCEPT !.age = 0] ELSE nodes[i]]

Info(rec) == [node_id |-> rec.node_id, port |-> rec.port, pending |-> rec.pending]

(* Faulty variant: every node that ever registered is listed.              *)
CurrentNodes_All(recs) == [i \in DOMAIN recs |-> Info(recs[i])]

CurrentNodes(recs) ==
  Subsequence([i \in DOMAIN recs |-> Info(recs[i])], {i \in DOMAIN recs : recs[i].age <= kNodeTimeout})

Heard(n, type) == running /\ ~lostUp[n] /\ up[n] # <<>> /\ Head(up[n]).type = type

ServeRegister(n) ==
  /\ Heard(n, "Register")
  /\ RegisterNode(Head(up[n]).port)
  /\ up' = Receive(up, n)
  /\ down' = Send(down, n, [type |-> "RegisterAck", node_id |-> next_node_id])
  /\ UNCHANGED <<policy, running, phase, port, node_id, lostUp, lostDown, peers, faults>>

ServeHeartbeat(n) ==
  /\ Heard(n, "Heartbeat")
  /\ up' = Receive(up, n)
  /\ nodes' = TouchNode(Head(up[n]).node_id, Head(up[n]).pending)
  /\ down' = Send(down, n, [type |-> "NodeList", nodes |-> CurrentNodes(nodes')])
  /\ UNCHANGED <<policy, running, next_node_id, phase, port, node_id, lostUp, lostDown, peers, faults>>

(* A timeout inside a frame.  (One between frames changes nothing.)        *)
ServeTimeout(n) ==
  /\ running /\ ~lostUp[n] /\ up[n] # <<>>
  /\ Fault
  /\ up' = Receive(up, n) /\ lostUp' = [lostUp EXCEPT ![n] = TRUE]
  /\ UNCHANGED <<policy, coordVars, phase, port, node_id, down, lostDown, peers>>

(* Reads out of step fail, and may or may not get back into step.          *)
ServeGarbage(n) ==
  /\ running /\ lostUp[n] /\ up[n] # <<>>
  /\ up' = Receive(up, n) /\ lostUp' \in {lostUp, [lostUp EXCEPT ![n] = FALSE]}
  /\ UNCHANGED <<policy, coordVars, phase, port, node_id, down, lostDown, peers, faults>>

Serve(n) == ServeRegister(n) \/ ServeHeartbeat(n) \/ ServeGarbage(n)

(* stop: the connections close and no message is read any more.            *)
StopCoordinator ==
  /\ running
  /\ Fault
  /\ running' = FALSE /\ up' = [n \in Nodes |-> <<>>]
  /\ UNCHANGED <<policy, nodes, next_node_id, phase, port, node_id, down, lostUp, lostDown, peers>>

----------------------------------------------------------------------------
(* A node: start, and its heartbeat loop.                                  *)

PortsOf(phases) == {port[m] : m \in {k \in Nodes : phase[k] \in phases}}

(* On a port of its own, or on one that nodes had which have ended.        *)
Start(n) ==
  /\ phase[n] = "off" /\ running /\ \A m \in Nodes : m < n => phase[m] # "off"
  /\ \E p \in ({n} \cup PortsOf({"dead"})) \ PortsOf({"registering", "idle", "waiting", "beaten"}) :
       /\ port' = [port EXCEPT ![n] = p]
       /\ up' = Send(up, n, [type |-> "Register", port |-> p])
  /\ Becomes(n, "registering")
  /\ UNCHANGED <<policy, coordVars, node_id, down, lostUp, lostDown, peers, faults>>

(* Is an answer there, or a message the coordinator has yet to look at?    *)
Answered(n) == down[n] # <<>> \/ up[n] # <<>>
TimesOut(n) == IF Answered(n) THEN Fault ELSE UNCHANGED faults

RegisterAck(n) ==
  /\ phase[n] = "registering" /\ down[n] # <<>>
  /\ node_id' = [node_id EXCEPT ![n] = Head(down[n]).node_id]
  /\ down' = Receive(down, n)
  /\ Becomes(n, "idle")
  /\ UNCHANGED <<policy, coordVars, port, up, lostUp, lostDown, peers, faults>>

(* No RegisterAck in time: start returns false and the process ends.       *)
RegisterTimeout(n) ==
  /\ phase[n] = "registering"
  /\ TimesOut(n)
  /\ Ends(n)
  /\ UNCHANGED <<policy, coordVars, port, node_id, up, lostUp>>

(* The heartbeat is sent, or the connection is closed and the loop goes on. *)
Beat(n) ==
  /\ phase[n] = "idle"
  /\ \/ /\ running
        /\ up' = Send(up, n, [type |-> "Heartbeat", node_id |-> node_id[n], pending |-> Load[n]])
        /\ Becomes(n, "waiting")
     \/ ~running /\ Becomes(n, "beaten") /\ UNCHANGED up
  /\ UNCHANGED <<policy, coordVars, port, node_id, down, lostUp, lostDown, peers, faults>>

Known(n, id) == \E i \in DOMAIN peers[n] : peers[n][i].node_id = id

Entry(e) == [node_id |-> e.node_id, port |-> e.port, pending |-> e.pending, misses |-> 0]

(* Faulty variant: known peers are appended again.                         *)
UpdatePeers_Appends(n, list) ==
  peers[n] \o Subsequence([i \in DOMAIN list |-> Entry(list[i])],
                          {i \in DOMAIN list : list[i].node_id # node_id[n]})

(* Faulty variant: the loop ends, not goes on, at the node's own entry.    *)
UpdatePeers_Breaks(n, list) ==
  LET new == {i \in DOMAIN list : /\ ~Known(n, list[i].node_id)
                                  /\ \A j \in 1 .. i : list[j].node_id # node_id[n]}
  IN peers[n] \o [i \in 1 .. Cardinality(new) |-> Entry(list[i])]

(* update_peers: known peers get the list's load figure, new ones are      *)
(* appended, and nobody is taken out.                                      *)
UpdatePeers(n, list) ==
  LET refreshed(p) ==
        IF \E i \in DOMAIN list : list[i].node_id = p.node_id
        THEN [p EXCEPT !.pending = list[CHOOSE i \in DOMAIN list : list[i].node_id = p.node_id].pending]
        ELSE p
  IN [i \in DOMAIN peers[n] |-> refreshed(peers[n][i])] \o
     Subsequence([i \in DOMAIN list |-> Entry(list[i])],
                 {i \in DOMAIN list : list[i].node_id # node_id[n] /\ ~Known(n, list[i].node_id)})

(* The answer read is the oldest one, perhaps that to an earlier heartbeat. *)
Hear(n) ==
  /\ phase[n] = "waiting" /\ ~lostDown[n] /\ down[n] # <<>>
  /\ Becomes(n, "beaten")
  /\ down' = Receive(down, n)
  /\ peers' = [peers EXCEPT ![n] = UpdatePeers(n, Head(down[n]).nodes)]
  /\ UNCHANGED <<policy, coordVars, port, node_id, up, lostUp, lostDown, faults>>

(* A timeout, before the answer or inside it.                              *)
HearTimeout(n) ==
  /\ phase[n] = "waiting" /\ ~lostDown[n]
  /\ TimesOut(n)
  /\ \/ UNCHANGED <<down, lostDown>>
     \/ down[n] # <<>> /\ down' = Receive(down, n) /\ lostDown' = [lostDown EXCEPT ![n] = TRUE]
  /\ Becomes(n, "beaten")
  /\ UNCHANGED <<policy, coordVars, port, node_id, up, lostUp, peers>>

HearGarbage(n) ==
  /\ phase[n] = "waiting" /\ lostDown[n]
  /\ \/ ~Answered(n) /\ UNCHANGED <<down, lostDown>>
     \/ down[n] # <<>> /\ down' = Receive(down, n) /\ lostDown' \in {lostDown, [lostDown EXCEPT ![n] = FALSE]}
  /\ Becomes(n, "beaten")
  /\ UNCHANGED <<policy, coordVars, port, node_id, up, lostUp, peers, faults>>

HeartbeatLoop(n) ==
  RegisterAck(n) \/ RegisterTimeout(n) \/ Beat(n) \/ HearTimeout(n) \/ HearGarbage(n) \/ Hear(n)

(* A crash, or stop: nobody is told.                                       *)
Die(n) ==
  /\ Alive(n)
  /\ Fault
  /\ Ends(n)
  /\ UNCHANGED <<policy, coordVars, port, node_id, up, lostUp>>

Tick ==
  /\ \A n \in Nodes : phase[n] \notin {"registering", "idle", "waiting"}
  /\ phase' = [n \in Nodes |-> IF phase[n] = "beaten" THEN "idle" ELSE phase[n]]
  /\ nodes' = [i \in DOMAIN nodes |->
                 [nodes[i] EXCEPT !.age = IF @ > kNodeTimeout THEN @ ELSE @ + 1]]
  /\ UNCHANGED <<policy, running, next_node_id, port, node_id, wireVars, peers, faults>>

----------------------------------------------------------------------------
(* Stealing.                                                               *)

(* Is p a better victim than q?  Adaptive divides the load by 1 + misses.  *)
Discount(p) == IF policy = "Adaptive" THEN 1 + p.misses ELSE 1
Better(p, q) == p.pending * Discount(q) > q.pending * Discount(p)

(* The entries of the peer table that select_victim may return.            *)
SelectVictim(n) ==
  LET P == peers[n]
      best == {i \in DOMAIN P : /\ P[i].pending > 0
                                /\ \A j \in DOMAIN P : ~Better(P[j], P[i])
                                /\ \A j \in 1 .. i - 1 : Better(P[i], P[j])}
  IN CASE policy = "None" -> {}
       [] policy = "Random" \/ best = {} -> DOMAIN P
       [] OTHER -> best

(* try_remote_steal: the victim answers with tasks or without, and with    *)
(* its load, whoever has its port by now, be it the thief itself.  A       *)
(* connection that fails leaves the table as it is.                        *)
TrySteal(n) ==
  /\ n \in Thieves /\ Alive(n)
  /\ \E i \in SelectVictim(n), load \in 0 .. MaxLoad, got \in BOOLEAN :
       /\ \E m \in Nodes : Alive(m) /\ port[m] = peers[n][i].port
       /\ peers' = [peers EXCEPT ![n][i].pending = load,
                                 ![n][i].misses = IF got THEN 0 ELSE IF @ < MaxMisses THEN @ + 1 ELSE @]
  /\ UNCHANGED <<policy, coordVars, phase, port, node_id, wireVars, faults>>

----------------------------------------------------------------------------
Next ==
  \/ \E n \in Nodes : Serve(n) \/ ServeTimeout(n) \/ Start(n) \/ HeartbeatLoop(n) \/ Die(n) \/ TrySteal(n)
  \/ Tick \/ StopCoordinator

(* The coordinator's and the nodes' loops run on and the clock advances.   *)
(* Nodes need not start, and nothing has to fail.                          *)
Spec ==
  /\ Init /\ [][Next]_vars
  /\ \A n \in Nodes : WF_vars(Serve(n)) /\ WF_vars(HeartbeatLoop(n))
  /\ WF_vars(Tick)

----------------------------------------------------------------------------
TypeOK ==
  /\ policy \in Policies /\ running \in BOOLEAN
  /\ next_node_id = Len(nodes) + 1
  /\ \A i \in DOMAIN nodes : nodes[i].age \in 0 .. kNodeTimeout + 1 /\ nodes[i].port \in Nodes
  /\ port \in [Nodes -> Nodes]
  /\ phase \in [Nodes -> {"off", "registering", "idle", "waiting", "beaten", "dead"}]
  /\ node_id \in [Nodes -> 0 .. Len(nodes)]
  /\ \A n \in Nodes : Len(up[n]) <= MaxFaults + 1 /\ Len(down[n]) <= MaxFaults + 1
  /\ faults \in 0 .. MaxFaults

(***************************************************************************)
(* However late, stale or out of step the coordinator's answers are, and   *)
(* however often nodes are restarted on their ports, the identifiers of a  *)
(* peer table are those of other nodes, each once, and each with the port  *)
(* under which the coordinator registered it and its node listens.  (The   *)
(* ports may be the same: a restarted node is listed beside the one it     *)
(* replaces, in its own table too.)                                        *)
(***************************************************************************)
PeersAreGenuine ==
  \A n \in Nodes : \A i \in DOMAIN peers[n] :
    LET id == peers[n][i].node_id IN
    /\ id # node_id[n]
    /\ \A j \in DOMAIN peers[n] : peers[n][j].node_id = id => i = j
    /\ id \in DOMAIN nodes /\ nodes[id].port = peers[n][i].port
    /\ \A m \in Nodes : node_id[m] = id => port[m] = peers[n][i].port

(***************************************************************************)
(* Every message is read as it was written; no part of one, cut off        *)
(* anywhere, passes for a whole one, strings, lists and their lengths      *)
(* included; and a reader that starts anywhere but at the front of a frame *)
(* gets no message at all.  The samples have all types that are sent.  (No *)
(* sample has kMagic in its payload.)                                      *)
(***************************************************************************)
WireSound ==
  /\ SamplesSound
  /\ \A n \in Nodes : \A i \in DOMAIN up[n] : \E m \in Samples : m.type = up[n][i].type
  /\ \A n \in Nodes : \A i \in DOMAIN down[n] : \E m \in Samples : m.type = down[n][i].type

(* From some time on only live nodes are handed to anybody: the ones that  *)
(* died or stopped are not, nor are those whose registration was served    *)
(* after they had given up, even if their ports are in use again.          *)
DeadNodesLeave ==
  <>[](LET list == CurrentNodes(nodes) IN
       \A i \in DOMAIN list : \E n \in Nodes : Alive(n) /\ node_id[n] = list[i].node_id)

InStep(n) == Alive(n) /\ ~lostUp[n] /\ ~lostDown[n]

(* Nodes that stay up learn of each other, unless the coordinator stops or *)
(* a connection to it falls out of step for good: nobody reconnects.       *)
LiveNodesMeet ==
  <>[](running => \A n, m \in Nodes : n # m /\ InStep(n) /\ InStep(m) => Known(n, node_id[m]))

(***************************************************************************)
(* What the coordinator sends of a node is its "Load as of this node's     *)
(* last heartbeat.  Redistributed by the coordinator so a thief can aim at *)
(* the busiest peer" (Protocol.hpp): the answer to a heartbeat gives the   *)
(* load that came with it.                                                 *)
(***************************************************************************)
LoadRedistributed ==
  \A n \in Nodes : \A i \in DOMAIN down[n] :
    down[n][i].type = "NodeList" =>
      \A k \in DOMAIN down[n][i].nodes :
        down[n][i].nodes[k].node_id = node_id[n] => down[n][i].nodes[k].pending = Load[n]
=============================================================================
