----------------------------- MODULE NodeProofs -----------------------------
(***************************************************************************)
(* Proofs about module Node.  A task is followed twice.  Its submission is *)
(* at one point of its origin's hand-over at a time (At): pooled, with a   *)
(* worker, taken for a peer, outstanding, answered for, given up, being    *)
(* re-run, or seen by the observer.  Its stealable copy (Copy) goes from   *)
(* the pool to at most one thief's worker, or is lost on the way.          *)
(***************************************************************************)
EXTENDS Node, FiniteSetTheorems, SequenceTheorems, TLAPS

(* The points of the hand-over, and the node or connection each belongs to.*)
Tags == {"pool", "own", "take", "out", "finish", "lost", "rerun", "reran", "seen"}
Sites(t) == IF t \in {"take", "finish"} THEN Conns ELSE Nodes
Home(t, k) == IF t \in {"take", "finish"} THEN k[2] ELSE k

At(x, t, k) ==
  \/ t = "pool" /\ x \in pool[k]
  \/ t = "own" /\ Job(x, "own", "ran") \in jobs[k]
  \/ t = "take" /\ serve[k].at = "take" /\ x \in serve[k].hand
  \/ t = "out" /\ x \in outstanding[k]
  \/ t = "finish" /\ serve[k].at = "finish" /\ x \in serve[k].hand
  \/ t = "lost" /\ x \in lost[k]
  \/ t = "rerun" /\ Job(x, "rerun", "queued") \in jobs[k]
  \/ t = "reran" /\ Job(x, "rerun", "ran") \in jobs[k]
  \/ t = "seen" /\ observed[x] # 0 /\ k = Origin[x]

(* A submitted task is at exactly one point, at home.                      *)
OnceInv ==
  \A x \in Tasks : \A a, b \in Tags : \A i \in Sites(a), j \in Sites(b) :
    At(x, a, i) /\ At(x, b, j) => a = b /\ i = j
StartedInv ==
  \A x \in Tasks : x \in started <=> \E t \in Tags : \E k \in Sites(t) : At(x, t, k)
HomeInv ==
  \A x \in Tasks : \A t \in Tags : \A k \in Sites(t) : At(x, t, k) => Home(t, k) = Origin[x]

(* The reaper's tasks are the ones it gave up on.                          *)
ReapedInv ==
  /\ reaped \subseteq started
  /\ \A x \in Tasks : \A t \in Tags : \A k \in Sites(t) : At(x, t, k) =>
       /\ t \in {"lost", "rerun", "reran"} => x \in reaped
       /\ t \in {"pool", "own", "take", "out", "finish"} => x \notin reaped

(* A pipeline's next stage is submitted when the observer sees a stage.    *)
ChainInv ==
  /\ AdvancesOnce
  /\ \A x \in Tasks : Stage[x] # NoTask => (Stage[x] \in started <=> observed[x] # 0)

HeldInv == OnceInv /\ StartedInv /\ HomeInv /\ ReapedInv /\ ChainInv

(* Where the copy is that a thief may run.                                 *)
CopyTags == {"pool", "take", "send", "resp", "steal", "queued", "ran", "reported"}
CopySites(t) == IF t \in {"take", "send", "resp"} THEN Conns ELSE Nodes

InResp(x, c) == \E m \in 1 .. Len(resp[c]) : x \in resp[c][m]

Copy(x, t, k) ==
  \/ t = "pool" /\ x \in pool[k]
  \/ t = "take" /\ serve[k].at = "take" /\ x \in serve[k].hand
  \/ t = "send" /\ serve[k].at = "send" /\ x \in serve[k].hand
  \/ t = "resp" /\ InResp(x, k)
  \/ t = "steal" /\ x \in steal[k].tasks
  \/ t \in {"queued", "ran", "reported"} /\ Job(x, "stolen", t) \in jobs[k]

CopyOnceInv ==
  \A x \in Tasks : \A a, b \in CopyTags : \A i \in CopySites(a), j \in CopySites(b) :
    Copy(x, a, i) /\ Copy(x, b, j) => a = b /\ i = j
RespInv ==
  \A c \in Conns : \A l, m \in 1 .. Len(resp[c]) : l # m => resp[c][l] \cap resp[c][m] = {}
CopyStartedInv ==
  \A x \in Tasks : \A t \in CopyTags : \A k \in CopySites(t) : Copy(x, t, k) => x \in started
CopyHome(x, t, k) ==
  /\ t = "pool" => Origin[x] = k
  /\ t \in {"take", "send", "resp"} => Origin[x] = k[2]
  /\ t \in {"steal", "queued", "ran", "reported"} => Origin[x] # k
CopyHomeInv ==
  \A x \in Tasks : \A t \in CopyTags : \A k \in CopySites(t) : Copy(x, t, k) => CopyHome(x, t, k)

CopyInv == CopyOnceInv /\ RespInv /\ CopyStartedInv /\ CopyHomeInv

(* Links, and the shapes of what threads hold.                             *)
ShapeInv ==
  /\ \A t \in Nodes : steal[t].at = "wait" =>
       steal[t].victim # t /\ opened[<<t, steal[t].victim>>] > 0
  /\ \A c \in Conns : /\ serve[c].at = "finish" => \E x \in Tasks : serve[c].hand = {x}
                      /\ serve[c].at = "recv" => serve[c].hand = {}
  /\ \A n \in Nodes : \A j \in jobs[n] : /\ j.kind = "own" => j.at = "ran"
                                         /\ j.kind = "rerun" => j.at # "reported"
  /\ \A n \in Nodes : IsFiniteSet(jobs[n]) /\ IsFiniteSet(InHand(n))

(* Completion notices, before and after they are sent, are about tasks of  *)
(* other nodes.                                                            *)
Notice(x, t) ==
  \/ \E m \in 1 .. Len(completions[t]) : completions[t][m] = x
  \/ \E m \in 1 .. Len(batch[t]) : batch[t][m] = x
Posted(x, c) == \E m \in 1 .. Len(chan[c]) : chan[c][m] = Result(x)

NoticeInv == \A t \in Nodes, x \in Tasks : Notice(x, t) => Origin[x] # t

(* How often a task's handler can have run.                                *)
Reran(x) ==
  x \in reaped /\ x \notin lost[Origin[x]] /\ Job(x, "rerun", "queued") \notin jobs[Origin[x]]
Extra(x) == IF Reran(x) THEN 1 ELSE 0
UnrunTags == {"pool", "take", "send", "resp", "steal", "queued"}

Unrun(x) == \E t \in UnrunTags : \E k \in CopySites(t) : Copy(x, t, k)

ExecInv ==
  \A x \in Tasks : /\ executed[x] <= 1 + Extra(x)
                   /\ Unrun(x) => executed[x] <= Extra(x)
                   /\ executed[x] # 0 => x \in started

(* With handlers everywhere, what is reported or counted was executed.     *)
EveryHandler == \A n \in Nodes : Handled[n] = Tasks
DoneTags == {"own", "reran", "finish", "seen"}
Claimed(x) ==
  \/ \E t \in DoneTags : \E k \in Sites(t) : At(x, t, k)
  \/ \E t \in {"ran", "reported"} : \E k \in Nodes : Copy(x, t, k)
  \/ \E t \in Nodes : Notice(x, t)
  \/ \E c \in Conns : Posted(x, c)

DoneInv == EveryHandler => \A x \in Tasks : Claimed(x) => executed[x] # 0

IInv == /\ TypeOK /\ ShapeInv /\ NoticeInv /\ HeldInv /\ CopyInv /\ ExecInv /\ DoneInv
        /\ LedgerBalanced

----------------------------------------------------------------------------
(* Facts about the definitions above.                                      *)

(* Jobs are equal when their fields are.                                   *)
LEMMA JobInjective ==
  ASSUME NEW x, NEW k, NEW a, NEW y, NEW l, NEW b
  PROVE  Job(x, k, a) = Job(y, l, b) <=> x = y /\ k = l /\ a = b
<1>1. /\ Job(x, k, a).task = x /\ Job(x, k, a).kind = k /\ Job(x, k, a).at = a
      /\ Job(y, l, b).task = y /\ Job(y, l, b).kind = l /\ Job(y, l, b).at = b
  BY DEF Job
<1> QED
  BY <1>1

(* The first element and the rest of a sequence.                           *)
LEMMA TailFacts ==
  ASSUME NEW S, NEW s \in Seq(S), s # <<>>
  PROVE  /\ Tail(s) \in Seq(S) /\ Len(s) \in Nat \ {0} /\ Len(Tail(s)) = Len(s) - 1
         /\ Head(s) = s[1] /\ Head(s) \in S
         /\ \A m \in 1 .. Len(s) - 1 : Tail(s)[m] = s[m + 1]
BY HeadTailProperties, LenProperties, EmptySeq, ElementOfSeq

(* A sequence with an element added.                                       *)
LEMMA AppendFacts ==
  ASSUME NEW S, NEW s \in Seq(S), NEW e \in S
  PROVE  /\ Append(s, e) \in Seq(S) /\ Len(s) \in Nat /\ Len(Append(s, e)) = Len(s) + 1
         /\ Append(s, e)[Len(s) + 1] = e
         /\ \A m \in 1 .. Len(s) : Append(s, e)[m] = s[m]
BY AppendProperties, LenProperties

(* Connections and their ends.                                             *)
LEMMA ConnFacts ==
  /\ \A c \in Conns : /\ c[1] \in Nodes /\ c[2] \in Nodes /\ c[1] # c[2]
                      /\ c[3] \in 1 .. MaxConns /\ c = <<c[1], c[2], c[3]>>
  /\ \A t, v \in Nodes : \A k \in 1 .. MaxConns : t # v => <<t, v, k>> \in Conns
BY DEF Conns

(* The points of the hand-over at nodes and at connections.                *)
LEMMA SiteFacts ==
  /\ \A t \in Tags \ {"take", "finish"} : Sites(t) = Nodes /\ \A k : Home(t, k) = k
  /\ \A t \in {"take", "finish"} : Sites(t) = Conns /\ \A k : Home(t, k) = k[2]
  /\ \A t \in Tags : \A k \in Sites(t) : Home(t, k) \in Nodes
BY ConnFacts DEF Sites, Home, Tags

(* A step that moves the submissions of S from point a of site i to point  *)
(* b of site j, and submits the tasks New.                                 *)
Moved(S, a, i, b, j, New) ==
  \A x \in Tasks : \A t \in Tags : \A k \in Sites(t) :
    At(x, t, k)' <=> \/ At(x, t, k) /\ ~(x \in S /\ t = a /\ k = i)
                     \/ x \in S /\ t = b /\ k = j
                     \/ x \in New /\ t = "pool" /\ k = Origin[x]

(* Such a step leaves each submission at one point, at home.               *)
LEMMA MovedInv ==
  ASSUME OnceInv, StartedInv, HomeInv,
         NEW S \in SUBSET Tasks, NEW New \in SUBSET Tasks,
         NEW a \in Tags, NEW i \in Sites(a), NEW b \in Tags, NEW j \in Sites(b),
         \A x \in S : At(x, a, i), Home(a, i) = Home(b, j),
         New \cap started = {}, started' = started \cup New,
         Moved(S, a, i, b, j, New)
  PROVE  OnceInv' /\ StartedInv' /\ HomeInv'
<1>1. "pool" \in Tags /\ \A x \in Tasks : Origin[x] \in Sites("pool")
  BY NodeAssumption DEF Tags, Sites
<1>2. \A x \in Tasks : x \in New => \A t \in Tags : \A k \in Sites(t) : ~At(x, t, k)
  BY DEF StartedInv
<1>3. \A x \in S : x \in started /\ x \notin New
  BY DEF StartedInv
<1>4. \A x \in Tasks : \A t \in Tags : \A k \in Sites(t) : At(x, t, k)' =>
        \/ x \notin S /\ x \notin New /\ At(x, t, k)
        \/ x \in S /\ x \notin New /\ t = b /\ k = j
        \/ x \notin S /\ x \in New /\ t = "pool" /\ k = Origin[x]
  <2> SUFFICES ASSUME NEW x \in Tasks, NEW t \in Tags, NEW k \in Sites(t), At(x, t, k)'
               PROVE  \/ x \notin S /\ x \notin New /\ At(x, t, k)
                      \/ x \in S /\ x \notin New /\ t = b /\ k = j
                      \/ x \notin S /\ x \in New /\ t = "pool" /\ k = Origin[x]
    OBVIOUS
  <2>1. CASE At(x, t, k) /\ ~(x \in S /\ t = a /\ k = i)
    BY <2>1, <1>2 DEF OnceInv
  <2>2. CASE x \in S /\ t = b /\ k = j
    BY <2>2, <1>3
  <2>3. CASE x \in New /\ t = "pool" /\ k = Origin[x]
    BY <2>3, <1>3
  <2> QED
    BY <2>1, <2>2, <2>3 DEF Moved
<1>5. OnceInv'
  <2> SUFFICES ASSUME NEW x \in Tasks, NEW t \in Tags, NEW u \in Tags,
                      NEW k \in Sites(t), NEW l \in Sites(u), At(x, t, k)', At(x, u, l)'
               PROVE  t = u /\ k = l
    BY DEF OnceInv, Sites
  <2> QED
    BY <1>4 DEF OnceInv
<1>6. HomeInv'
  <2> SUFFICES ASSUME NEW x \in Tasks, NEW t \in Tags, NEW k \in Sites(t), At(x, t, k)'
               PROVE  Home(t, k) = Origin[x]
    BY DEF HomeInv, Sites, Home
  <2> QED
    BY <1>4, SiteFacts DEF HomeInv, Tags
<1>7. StartedInv'
  <2> SUFFICES ASSUME NEW x \in Tasks
               PROVE  x \in started' <=> \E t \in Tags : \E k \in Sites(t) : At(x, t, k)'
    BY DEF StartedInv, Sites
  <2>1. ASSUME NEW t \in Tags, NEW k \in Sites(t), At(x, t, k)'
        PROVE  x \in started'
    BY <2>1, <1>3, <1>4 DEF StartedInv
  <2>2. ASSUME x \in New PROVE At(x, "pool", Origin[x])'
    BY <2>2, <1>1 DEF Moved
  <2>3. ASSUME x \in S PROVE At(x, b, j)'
    BY <2>3 DEF Moved
  <2>4. ASSUME x \in started, x \notin S
        PROVE  \E t \in Tags : \E k \in Sites(t) : At(x, t, k)'
    <3>1. PICK t \in Tags : \E k \in Sites(t) : At(x, t, k)
      BY <2>4 DEF StartedInv
    <3>2. PICK k \in Sites(t) : At(x, t, k)
      BY <3>1
    <3>3. At(x, t, k)'
      BY <3>2, <2>4 DEF Moved
    <3> QED
      BY <3>3
  <2> QED
    BY <2>1, <2>2, <2>3, <2>4, <1>1
<1> QED
  BY <1>5, <1>6, <1>7

(* What is at a point of the hand-over has been submitted.                 *)
LEMMA HeldIsStarted ==
  ASSUME StartedInv, NEW x \in Tasks, NEW t \in Tags, NEW k \in Sites(t), At(x, t, k)
  PROVE  x \in started
BY DEF StartedInv

(* A step that takes the copies of S from point a of site i to point b of  *)
(* site j, submits the tasks New, and may lose other copies.               *)
CopyMoved(S, a, i, b, j, New) ==
  \A x \in Tasks : \A t \in CopyTags : \A k \in CopySites(t) :
    Copy(x, t, k)' => \/ Copy(x, t, k) /\ ~(x \in S /\ t = a /\ k = i)
                      \/ x \in S /\ t = b /\ k = j
                      \/ x \in New /\ t = "pool" /\ k = Origin[x]

(* Such a step leaves each task one copy, and that in a legitimate place.  *)
LEMMA CopyMovedInv ==
  ASSUME CopyOnceInv, CopyStartedInv, CopyHomeInv,
         NEW S \in SUBSET Tasks, NEW New \in SUBSET Tasks,
         NEW a \in CopyTags, NEW i \in CopySites(a), NEW b \in CopyTags, NEW j \in CopySites(b),
         \A x \in S : Copy(x, a, i) /\ CopyHome(x, b, j),
         New \cap started = {}, started' = started \cup New,
         CopyMoved(S, a, i, b, j, New)
  PROVE  CopyOnceInv' /\ CopyStartedInv' /\ CopyHomeInv'
<1>1. \A x \in Tasks : x \in New => \A t \in CopyTags : \A k \in CopySites(t) : ~Copy(x, t, k)
  BY DEF CopyStartedInv
<1>2. \A x \in S : x \in started /\ x \notin New
  BY DEF CopyStartedInv
<1>3. \A x \in Tasks : \A t \in CopyTags : \A k \in CopySites(t) : Copy(x, t, k)' =>
        \/ x \notin S /\ x \notin New /\ Copy(x, t, k)
        \/ x \in S /\ x \notin New /\ t = b /\ k = j
        \/ x \notin S /\ x \in New /\ t = "pool" /\ k = Origin[x]
  <2> SUFFICES ASSUME NEW x \in Tasks, NEW t \in CopyTags, NEW k \in CopySites(t),
                      Copy(x, t, k)'
               PROVE  \/ x \notin S /\ x \notin New /\ Copy(x, t, k)
                      \/ x \in S /\ x \notin New /\ t = b /\ k = j
                      \/ x \notin S /\ x \in New /\ t = "pool" /\ k = Origin[x]
    OBVIOUS
  <2>1. CASE Copy(x, t, k) /\ ~(x \in S /\ t = a /\ k = i)
    BY <2>1, <1>1 DEF CopyOnceInv
  <2>2. CASE x \in S /\ t = b /\ k = j
    BY <2>2, <1>2
  <2>3. CASE x \in New /\ t = "pool" /\ k = Origin[x]
    BY <2>3, <1>2
  <2> QED
    BY <2>1, <2>2, <2>3 DEF CopyMoved
<1>4. CopyOnceInv'
  <2> SUFFICES ASSUME NEW x \in Tasks, NEW t \in CopyTags, NEW u \in CopyTags,
                      NEW k \in CopySites(t), NEW l \in CopySites(u),
                      Copy(x, t, k)', Copy(x, u, l)'
               PROVE  t = u /\ k = l
    BY DEF CopyOnceInv, CopySites
  <2> QED
    BY <1>3 DEF CopyOnceInv
<1>5. CopyStartedInv'
  <2> SUFFICES ASSUME NEW x \in Tasks, NEW t \in CopyTags, NEW k \in CopySites(t),
                      Copy(x, t, k)'
               PROVE  x \in started'
    BY DEF CopyStartedInv, CopySites
  <2> QED
    BY <1>2, <1>3 DEF CopyStartedInv
<1>6. CopyHomeInv'
  <2> SUFFICES ASSUME NEW x \in Tasks, NEW t \in CopyTags, NEW k \in CopySites(t),
                      Copy(x, t, k)'
               PROVE  CopyHome(x, t, k)
    BY DEF CopyHomeInv, CopySites, CopyHome
  <2>1. "pool" = t /\ k = Origin[x] => CopyHome(x, t, k)
    BY DEF CopyHome
  <2> QED
    BY <2>1, <1>3 DEF CopyHomeInv
<1> QED
  BY <1>4, <1>5, <1>6

(* So does one that only loses copies, or submits New.                     *)
LEMMA CopyLostInv ==
  ASSUME CopyOnceInv, CopyStartedInv, CopyHomeInv, NEW New \in SUBSET Tasks,
         New \cap started = {}, started' = started \cup New,
         \A x \in Tasks : \A t \in CopyTags : \A k \in CopySites(t) :
           Copy(x, t, k)' => Copy(x, t, k) \/ (x \in New /\ t = "pool" /\ k = Origin[x])
  PROVE  CopyOnceInv' /\ CopyStartedInv' /\ CopyHomeInv'
<1>1. CASE Nodes = {}
  <2>1. Tasks = {}
    BY <1>1, NodeAssumption
  <2> QED
    BY <2>1 DEF CopyOnceInv, CopyStartedInv, CopyHomeInv
<1>2. CASE Nodes # {}
  <2>1. PICK n : n \in Nodes
    BY <1>2
  <2>2. "pool" \in CopyTags /\ n \in CopySites("pool")
    BY <2>1 DEF CopyTags, CopySites
  <2>3. CopyMoved({}, "pool", n, "pool", n, New)
    BY DEF CopyMoved
  <2> QED
    BY <2>2, <2>3, CopyMovedInv
<1> QED
  BY <1>1, <1>2

(* Or one that only loses copies.                                          *)
LEMMA CopyFewer ==
  ASSUME CopyOnceInv, CopyStartedInv, CopyHomeInv, UNCHANGED started,
         \A x \in Tasks : \A t \in CopyTags : \A k \in CopySites(t) : Copy(x, t, k)' => Copy(x, t, k)
  PROVE  /\ CopyOnceInv' /\ CopyStartedInv' /\ CopyHomeInv'
         /\ \A x \in Tasks : Unrun(x)' => Unrun(x)
<1>1. PICK New \in SUBSET Tasks : New = {}
  OBVIOUS
<1>2. New \cap started = {} /\ started' = started \cup New
  BY <1>1
<1>3. CopyOnceInv' /\ CopyStartedInv' /\ CopyHomeInv'
  BY <1>1, <1>2, CopyLostInv
<1>4. ASSUME NEW x \in Tasks, Unrun(x)' PROVE Unrun(x)
  <2>1. PICK t \in UnrunTags : \E k \in CopySites(t) : Copy(x, t, k)'
    BY <1>4 DEF Unrun, CopySites
  <2>2. PICK k \in CopySites(t) : Copy(x, t, k)'
    BY <2>1
  <2>3. Copy(x, t, k)
    BY <2>2 DEF UnrunTags, CopyTags
  <2> QED
    BY <2>3 DEF Unrun
<1> QED
  BY <1>3, <1>4

(* A step that runs no handler.                                            *)
LEMMA ExecKept ==
  ASSUME TypeOK, ExecInv, UNCHANGED executed, started \subseteq started',
         \A x \in Tasks : Reran(x) => Reran(x)',
         \A x \in Tasks : Unrun(x)' => Unrun(x) \/ x \notin started
  PROVE  ExecInv'
<1> SUFFICES ASSUME NEW x \in Tasks
             PROVE  /\ executed[x] <= 1 + Extra(x)'
                    /\ Unrun(x)' => executed[x] <= Extra(x)'
                    /\ executed[x] # 0 => x \in started'
  BY DEF ExecInv
<1>1. executed[x] \in Nat /\ Extra(x) \in {0, 1} /\ Extra(x)' \in {0, 1} /\ Extra(x) <= Extra(x)'
  BY DEF TypeOK, Extra
<1>2. x \notin started => executed[x] = 0
  BY DEF ExecInv
<1> QED
  BY <1>1, <1>2 DEF ExecInv

(* A worker runs the handler of x, whose copy it took.                     *)
LEMMA ExecCopy ==
  ASSUME TypeOK, ExecInv, NEW n \in Nodes, NEW y \in Tasks, RunHandler(n, y), UNCHANGED started,
         y \in started, Unrun(y), ~Unrun(y)',
         \A x \in Tasks : Reran(x) <=> Reran(x)',
         \A x \in Tasks : Unrun(x)' => Unrun(x)
  PROVE  ExecInv'
<1> SUFFICES ASSUME NEW x \in Tasks
             PROVE  /\ executed'[x] <= 1 + Extra(x)'
                    /\ Unrun(x)' => executed'[x] <= Extra(x)'
                    /\ executed'[x] # 0 => x \in started'
  BY DEF ExecInv
<1>1. executed[x] \in Nat /\ executed'[x] \in Nat /\ Extra(x) \in {0, 1} /\ Extra(x)' = Extra(x)
  BY DEF TypeOK, Extra, RunHandler
<1>2. x # y => executed'[x] = executed[x]
  BY DEF TypeOK, RunHandler
<1>3. executed'[y] <= executed[y] + 1
  BY DEF TypeOK, RunHandler
<1> QED
  BY <1>1, <1>2, <1>3 DEF ExecInv

(* What was executed stays executed, and a handler that exists runs.       *)
LEMMA HandlerRuns ==
  ASSUME TypeOK, NEW n \in Nodes, NEW y \in Tasks, RunHandler(n, y)
  PROVE  /\ executed' \in [Tasks -> Nat]
         /\ \A x \in Tasks : executed[x] # 0 => executed'[x] # 0
         /\ EveryHandler => executed'[y] # 0
<1>1. executed \in [Tasks -> Nat] /\ DOMAIN executed = Tasks
  BY DEF TypeOK
<1>2. \A x \in Tasks : x # y => executed'[x] = executed[x]
  BY <1>1 DEF RunHandler
<1>3. executed'[y] = executed[y] + IF y \in Handled[n] THEN 1 ELSE 0
  BY <1>1 DEF RunHandler
<1>4. executed' \in [Tasks -> Nat]
  BY <1>1 DEF RunHandler
<1> QED
  BY <1>1, <1>2, <1>3, <1>4 DEF EveryHandler

(* DoneInv is kept when only a task that was executed is newly claimed.    *)
LEMMA DoneKept ==
  ASSUME DoneInv, \A x \in Tasks : executed[x] # 0 => executed'[x] # 0,
         \A x \in Tasks : Claimed(x)' => Claimed(x) \/ (EveryHandler => executed'[x] # 0)
  PROVE  DoneInv'
<1> SUFFICES ASSUME EveryHandler, NEW x \in Tasks, Claimed(x)'
             PROVE  executed'[x] # 0
  BY DEF DoneInv, EveryHandler
<1> QED
  BY DEF DoneInv

----------------------------------------------------------------------------
(* Steps of the network, of the steal and completion threads and of stop:  *)
(* no submission moves, no copy multiplies.                                *)

(* The reaper's and the pipelines' parts follow the submissions.           *)
LEMMA HeldSame ==
  ASSUME HeldInv, UNCHANGED <<started, reaped, observed>>,
         \A x \in Tasks : \A t \in Tags : \A k \in Sites(t) : At(x, t, k)' <=> At(x, t, k)
  PROVE  HeldInv'
<1> USE DEF HeldInv
<1>1. OnceInv'
  <2> SUFFICES ASSUME NEW x \in Tasks, NEW t \in Tags, NEW u \in Tags,
                      NEW k \in Sites(t), NEW l \in Sites(u), At(x, t, k)', At(x, u, l)'
               PROVE  t = u /\ k = l
    BY DEF OnceInv, Sites
  <2> QED
    BY DEF OnceInv
<1>2. StartedInv'
  <2> SUFFICES ASSUME NEW x \in Tasks
               PROVE  x \in started <=> \E t \in Tags : \E k \in Sites(t) : At(x, t, k)'
    BY DEF StartedInv, Sites
  <2> QED
    BY DEF StartedInv
<1>3. HomeInv'
  <2> SUFFICES ASSUME NEW x \in Tasks, NEW t \in Tags, NEW k \in Sites(t), At(x, t, k)'
               PROVE  Home(t, k) = Origin[x]
    BY DEF HomeInv, Sites, Home
  <2> QED
    BY DEF HomeInv
<1>4. ReapedInv'
  <2> SUFFICES ASSUME NEW x \in Tasks, NEW t \in Tags, NEW k \in Sites(t), At(x, t, k)'
               PROVE  /\ t \in {"lost", "rerun", "reran"} => x \in reaped
                      /\ t \in {"pool", "own", "take", "out", "finish"} => x \notin reaped
    BY DEF ReapedInv, Sites
  <2> QED
    BY DEF ReapedInv
<1>5. ChainInv'
  BY DEF ChainInv, AdvancesOnce
<1> QED
  BY <1>1, <1>2, <1>3, <1>4, <1>5

(* What the points of the hand-over depend on.                             *)
LEMMA AtSame ==
  ASSUME UNCHANGED <<pool, jobs, serve, outstanding, lost, observed>>
  PROVE  \A x, t, k : At(x, t, k)' <=> At(x, t, k)
BY DEF At

(* What the ledger depends on.                                             *)
LEMMA LedgerSame ==
  ASSUME LedgerBalanced,
         UNCHANGED <<submitted, completed, pool, jobs, outstanding, serve, lost, debt>>
  PROVE  LedgerBalanced'
<1>1. \A n \in Nodes : Unsettled(n)' = Unsettled(n)
  BY DEF Unsettled, InHand
<1> QED
  BY <1>1 DEF LedgerBalanced

(* Re-runs, as far as they depend on unchanged state.                      *)
LEMMA RerunSame ==
  ASSUME UNCHANGED <<reaped, lost, jobs>>
  PROVE  \A x : Reran(x)' <=> Reran(x)
BY DEF Reran

(* Everything else about such a step.                                      *)
LEMMA QuietInv ==
  ASSUME IInv, TypeOK', UNCHANGED <<runtime, serve, outstanding, reaper, executed>>,
         \A c \in Conns : resp'[c] = resp[c] \/ resp'[c] = <<>>,
         \A t \in Nodes : steal'[t].tasks \subseteq steal[t].tasks,
         \A t \in Nodes : steal'[t].at = "wait" =>
           steal'[t].victim # t /\ opened'[<<t, steal'[t].victim>>] > 0,
         \A x \in Tasks, t \in Nodes : Notice(x, t)' => Notice(x, t),
         \A x \in Tasks, c \in Conns : Posted(x, c)' => Posted(x, c) \/ \E t \in Nodes : Notice(x, t)
  PROVE  IInv'
<1> USE DEF IInv, runtime, reaper
<1>1. ShapeInv'
  BY DEF ShapeInv, InHand
<1>2. NoticeInv'
  BY DEF NoticeInv
<1>3. \A x, t, k : At(x, t, k)' <=> At(x, t, k)
  BY AtSame
<1>4. HeldInv'
  BY <1>3, HeldSame
<1>5. \A x \in Tasks : \A t \in CopyTags : \A k \in CopySites(t) : Copy(x, t, k)' => Copy(x, t, k)
  <2> SUFFICES ASSUME NEW x \in Tasks, NEW t \in CopyTags, NEW k \in CopySites(t), Copy(x, t, k)'
               PROVE  Copy(x, t, k)
    OBVIOUS
  <2>1. CASE t = "resp"
    <3>1. k \in Conns
      BY <2>1 DEF CopySites
    <3>2. InResp(x, k)'
      BY <2>1 DEF Copy
    <3>3. CASE resp'[k] = resp[k]
      BY <2>1, <3>2, <3>3 DEF Copy, InResp
    <3>4. CASE resp'[k] = <<>>
      BY <3>2, <3>4 DEF InResp
    <3> QED
      BY <3>1, <3>3, <3>4
  <2>2. CASE t = "steal"
    <3>1. k \in Nodes
      BY <2>2 DEF CopySites
    <3> QED
      BY <2>2, <3>1 DEF Copy
  <2>3. CASE t \notin {"resp", "steal"}
    BY <2>3 DEF Copy
  <2> QED
    BY <2>1, <2>2, <2>3
<1>6. CopyInv'
  <2>1. CopyOnceInv' /\ CopyStartedInv' /\ CopyHomeInv'
    BY <1>5, CopyFewer DEF CopyInv
  <2>2. RespInv'
    <3> SUFFICES ASSUME NEW c \in Conns, NEW l \in 1 .. Len(resp'[c]),
                        NEW m \in 1 .. Len(resp'[c]), l # m
                 PROVE  resp'[c][l] \cap resp'[c][m] = {}
      BY DEF RespInv
    <3>1. resp'[c] = resp[c]
      OBVIOUS
    <3> QED
      BY <3>1 DEF RespInv, CopyInv
  <2> QED
    BY <2>1, <2>2 DEF CopyInv
<1>7. \A x \in Tasks : Unrun(x)' => Unrun(x)
  BY <1>5, CopyFewer DEF CopyInv
<1>8. ExecInv'
  BY <1>7, RerunSame, ExecKept
<1>9. \A x \in Tasks : Claimed(x)' => Claimed(x)
  <2> SUFFICES ASSUME NEW x \in Tasks, Claimed(x)' PROVE Claimed(x)
    OBVIOUS
  <2>1. ASSUME NEW t \in DoneTags, NEW k \in Sites(t), At(x, t, k)' PROVE Claimed(x)
    BY <2>1, <1>3 DEF Claimed
  <2>2. ASSUME NEW t \in {"ran", "reported"}, NEW k \in Nodes, Copy(x, t, k)' PROVE Claimed(x)
    BY <2>2, <1>5 DEF Claimed, CopyTags, CopySites
  <2>3. ASSUME NEW t \in Nodes, Notice(x, t)' PROVE Claimed(x)
    BY <2>3 DEF Claimed
  <2>4. ASSUME NEW c \in Conns, Posted(x, c)' PROVE Claimed(x)
    BY <2>4 DEF Claimed
  <2> QED
    BY <2>1, <2>2, <2>3, <2>4 DEF Claimed, Sites
<1>10. DoneInv'
  BY <1>9, DoneKept
<1>11. LedgerBalanced'
  BY LedgerSame
<1> QED
  BY <1>1, <1>2, <1>4, <1>6, <1>8, <1>10, <1>11

Messages == {Request} \cup {Result(x) : x \in Tasks}

(* What sending does to the links and channels.                            *)
LEMMA SendFacts ==
  ASSUME TypeOK, NEW t \in Nodes, NEW v \in Nodes, t # v, NEW msg \in Messages, Send(t, v, msg)
  PROVE  /\ opened' \in [Nodes \X Nodes -> 0 .. MaxConns]
         /\ connected' \in [Nodes \X Nodes -> BOOLEAN]
         /\ \A l \in Nodes \X Nodes : connected'[l] => opened'[l] > 0 /\ l[1] # l[2]
         /\ \A l \in Nodes \X Nodes : opened[l] > 0 => opened'[l] > 0
         /\ opened'[<<t, v>>] > 0
         /\ chan' \in [Conns -> Seq(Messages)]
         /\ \A x \in Tasks, c \in Conns : Posted(x, c)' => Posted(x, c) \/ msg = Result(x)
         /\ UNCHANGED resp
<1>0. <<t, v>> \in Nodes \X Nodes /\ <<t, v>>[1] = t /\ <<t, v>>[2] = v
  OBVIOUS
<1>1. PICK l \in Nodes \X Nodes : l = <<t, v>> /\ l[1] = t /\ l[2] = v
  BY <1>0, Zenon
<1>2. PICK k : k = opened[l] + IF connected[l] THEN 0 ELSE 1
  OBVIOUS
<1>3. /\ opened \in [Nodes \X Nodes -> 0 .. MaxConns] /\ connected \in [Nodes \X Nodes -> BOOLEAN]
      /\ \A i \in Nodes \X Nodes : connected[i] => opened[i] > 0 /\ i[1] # i[2]
      /\ chan \in [Conns -> Seq(Messages)]
  BY DEF TypeOK, Messages
<1>4. /\ connected[l] \/ opened[l] < MaxConns
      /\ opened' = [opened EXCEPT ![l] = k] /\ connected' = [connected EXCEPT ![l] = TRUE]
      /\ chan' = [chan EXCEPT ![<<t, v, k>>] = Append(@, msg)]
      /\ UNCHANGED resp
  BY <1>1, <1>2 DEF Send, CanReach
<1>5. k \in 1 .. MaxConns /\ (opened[l] > 0 => k > 0)
  BY <1>2, <1>3, <1>4, NodeAssumption
<1>6. /\ opened' \in [Nodes \X Nodes -> 0 .. MaxConns] /\ opened'[l] = k
      /\ \A i \in Nodes \X Nodes : i # l => opened'[i] = opened[i]
  BY <1>3, <1>4, <1>5
<1>7. /\ connected' \in [Nodes \X Nodes -> BOOLEAN]
      /\ \A i \in Nodes \X Nodes : i # l => connected'[i] = connected[i]
  BY <1>3, <1>4
<1>8. PICK d \in Conns : d = <<t, v, k>>
  BY <1>5, ConnFacts
<1>9. /\ chan'[d] = Append(chan[d], msg) /\ chan[d] \in Seq(Messages)
      /\ \A c \in Conns : c # d => chan'[c] = chan[c]
  BY <1>3, <1>4, <1>8
<1>10. /\ chan'[d] \in Seq(Messages) /\ Len(chan[d]) \in Nat /\ Len(chan'[d]) = Len(chan[d]) + 1
       /\ chan'[d][Len(chan[d]) + 1] = msg
       /\ \A m \in 1 .. Len(chan[d]) : chan'[d][m] = chan[d][m]
  BY <1>9, AppendFacts
<1>11. chan' \in [Conns -> Seq(Messages)]
  BY <1>3, <1>4, <1>8, <1>9, <1>10
<1>12. ASSUME NEW x \in Tasks, NEW c \in Conns, Posted(x, c)'
       PROVE  Posted(x, c) \/ msg = Result(x)
  <2>1. PICK m \in 1 .. Len(chan'[c]) : chan'[c][m] = Result(x)
    BY <1>12 DEF Posted
  <2>2. CASE c = d
    BY <2>1, <2>2, <1>10 DEF Posted
  <2>3. CASE c # d
    BY <2>1, <2>3, <1>9 DEF Posted
  <2> QED
    BY <2>2, <2>3
<1> QED
  BY <1>1, <1>3, <1>4, <1>5, <1>6, <1>7, <1>11, <1>12

(* What closing a link does to it.                                         *)
LEMMA CloseFacts ==
  ASSUME TypeOK, NEW t, NEW v, Close(t, v)
  PROVE  /\ connected' \in [Nodes \X Nodes -> BOOLEAN]
         /\ \A l \in Nodes \X Nodes : connected'[l] => connected[l]
         /\ UNCHANGED opened
BY DEF TypeOK, Close

(* A step that touches neither channels nor notices.                       *)
LEMMA PostSame ==
  ASSUME UNCHANGED <<chan, completions, batch>>
  PROVE  /\ \A x, t : Notice(x, t)' <=> Notice(x, t)
         /\ \A x, c : Posted(x, c)' <=> Posted(x, c)
BY DEF Notice, Posted

(* The states a steal thread may be in.                                    *)
LEMMA StealTypes ==
  ASSUME TypeOK, NEW t \in Nodes
  PROVE  /\ steal[t].tasks \subseteq Tasks
         /\ steal[t].at = "wait" => steal[t].victim \in Nodes /\ steal[t].tasks = {}
         /\ steal[t].at \in {"idle", "wait", "accept"}
         /\ IdleSteal.at = "idle" /\ IdleSteal.tasks = {}
<1>1. \/ steal[t] = IdleSteal
      \/ steal[t] \in [at : {"wait"}, victim : Nodes, tasks : {{}}]
      \/ steal[t] \in [at : {"accept"}, victim : {NoNode}, tasks : (SUBSET Tasks) \ {{}}]
  BY DEF TypeOK
<1> QED
  BY <1>1 DEF IdleSteal

Steals == {IdleSteal} \cup [at : {"wait"}, victim : Nodes, tasks : {{}}]
            \cup [at : {"accept"}, victim : {NoNode}, tasks : (SUBSET Tasks) \ {{}}]

(* steal_loop asks a peer for work.                                        *)
LEMMA StealRequestInv ==
  ASSUME IInv, NEW t \in Nodes, NEW v \in Nodes, StealRequest(t, v)
  PROVE  IInv'
<1> USE DEF IInv
<1>1. t # v /\ Request \in Messages /\ Send(t, v, Request)
  BY DEF StealRequest, Messages
<1>2. PICK s : s = [at |-> "wait", victim |-> v, tasks |-> {}]
  OBVIOUS
<1>3. /\ steal \in [Nodes -> Steals] /\ steal' = [steal EXCEPT ![t] = s] /\ s \in Steals
      /\ s.at = "wait" /\ s.victim = v /\ s.tasks = {}
  BY <1>2 DEF TypeOK, Steals, StealRequest
<1>4. steal' \in [Nodes -> Steals] /\ steal'[t] = s /\ \A u \in Nodes : u # t => steal'[u] = steal[u]
  BY <1>3
<1>5. /\ UNCHANGED <<state, runtime, serve, sender, outstanding, reaper, executed>>
  BY DEF StealRequest
<1>6. TypeOK'
  BY <1>1, <1>4, <1>5, SendFacts DEF TypeOK, Messages, Steals, runtime, sender, reaper
<1>7. ASSUME NEW x \in Tasks, NEW c \in Conns, Posted(x, c)' PROVE Posted(x, c)
  <2>1. Request # Result(x)
    BY DEF Request, Result
  <2> QED
    BY <1>1, <1>7, <2>1, SendFacts
<1>8. ASSUME NEW u \in Nodes, steal'[u].at = "wait"
      PROVE  steal'[u].victim # u /\ opened'[<<u, steal'[u].victim>>] > 0
  <2>1. CASE u = t
    BY <1>1, <1>3, <1>4, <2>1, SendFacts
  <2>2. CASE u # t
    <3>1. steal[u].victim \in Nodes /\ steal[u].victim # u /\ opened[<<u, steal[u].victim>>] > 0
      BY <1>4, <1>8, <2>2, StealTypes DEF ShapeInv
    <3> QED
      BY <1>1, <1>4, <2>2, <3>1, SendFacts
  <2> QED
    BY <2>1, <2>2
<1>9. \A x \in Tasks, u \in Nodes : Notice(x, u)' => Notice(x, u)
  BY <1>5 DEF Notice, sender
<1>10. \A u \in Nodes : steal'[u].tasks \subseteq steal[u].tasks
  BY <1>3, <1>4
<1>11. \A c \in Conns : resp'[c] = resp[c] \/ resp'[c] = <<>>
  BY <1>1, SendFacts
<1> QED
  BY <1>5, <1>6, <1>7, <1>8, <1>9, <1>10, <1>11, QuietInv

(* The steal thread goes back to idle, on the receive timeout or because   *)
(* the connection broke.                                                   *)
LEMMA StealEndsInv ==
  ASSUME IInv, NEW t \in Nodes, NEW v \in Nodes, Close(t, v),
         steal' = steal \/ steal' = [steal EXCEPT ![t] = IdleSteal],
         \E c : resp' = [resp EXCEPT ![c] = <<>>],
         UNCHANGED chan \/ \E c : chan' = [chan EXCEPT ![c] = <<>>],
         UNCHANGED <<state, runtime, serve, sender, outstanding, reaper, executed>>
  PROVE  IInv'
<1> USE DEF IInv
<1>1. /\ steal \in [Nodes -> Steals] /\ IdleSteal \in Steals
      /\ resp \in [Conns -> Seq(SUBSET Tasks)] /\ chan \in [Conns -> Seq(Messages)]
  BY DEF TypeOK, Steals, Messages
<1>2. steal' \in [Nodes -> Steals] /\ \A u \in Nodes : steal'[u] = steal[u] \/ steal'[u] = IdleSteal
  BY <1>1
<1>3. /\ resp' \in [Conns -> Seq(SUBSET Tasks)]
      /\ \A c \in Conns : resp'[c] = resp[c] \/ resp'[c] = <<>>
  <2>1. PICK d, e : e = <<>> /\ resp' = [resp EXCEPT ![d] = e]
    OBVIOUS
  <2>2. e \in Seq(SUBSET Tasks)
    BY <2>1
  <2> QED
    BY <1>1, <2>1, <2>2
<1>4. /\ chan' \in [Conns -> Seq(Messages)]
      /\ \A c \in Conns : chan'[c] = chan[c] \/ chan'[c] = <<>>
  <2>1. CASE UNCHANGED chan
    BY <1>1, <2>1
  <2>2. CASE \E c : chan' = [chan EXCEPT ![c] = <<>>]
    <3>1. PICK d, e : e = <<>> /\ chan' = [chan EXCEPT ![d] = e]
      BY <2>2
    <3>2. e \in Seq(Messages)
      BY <3>1
    <3> QED
      BY <1>1, <3>1, <3>2
  <2> QED
    BY <2>1, <2>2
<1>5. TypeOK'
  BY <1>2, <1>3, <1>4, CloseFacts DEF TypeOK, Messages, Steals, runtime, sender, reaper
<1>6. ASSUME NEW x \in Tasks, NEW c \in Conns, Posted(x, c)' PROVE Posted(x, c)
  <2>1. PICK m \in 1 .. Len(chan'[c]) : chan'[c][m] = Result(x)
    BY <1>6 DEF Posted
  <2>2. chan'[c] = chan[c]
    BY <1>4, <2>1
  <2> QED
    BY <2>1, <2>2 DEF Posted
<1>7. \A x \in Tasks, u \in Nodes : Notice(x, u)' => Notice(x, u)
  BY DEF Notice, sender
<1>8. ASSUME NEW u \in Nodes, steal'[u].at = "wait"
      PROVE  steal'[u].victim # u /\ opened'[<<u, steal'[u].victim>>] > 0
  <2>1. IdleSteal.at # "wait"
    BY DEF IdleSteal
  <2>2. steal'[u] = steal[u]
    BY <1>2, <1>8, <2>1
  <2> QED
    BY <1>8, <2>2, CloseFacts DEF ShapeInv
<1>9. \A u \in Nodes : steal'[u].tasks \subseteq steal[u].tasks
  BY <1>2 DEF IdleSteal
<1> QED
  BY <1>3, <1>5, <1>6, <1>7, <1>8, <1>9, QuietInv

(* The connection breaks.                                                  *)
LEMMA ResetInv ==
  ASSUME IInv, NEW t \in Nodes, NEW v \in Nodes, Reset(t, v)
  PROVE  IInv'
BY StealEndsInv DEF Reset

(* The receive timeout of a steal.                                         *)
LEMMA StealTimeoutInv ==
  ASSUME IInv, NEW t \in Nodes, StealTimeout(t)
  PROVE  IInv'
<1>1. steal[t].victim \in Nodes
  BY StealTypes DEF IInv, StealTimeout
<1> QED
  BY <1>1, StealEndsInv DEF StealTimeout

(* A step of the completion thread, or of stop: the steal threads and the  *)
(* responses are left alone.                                               *)
LEMMA SenderInv ==
  ASSUME IInv, TypeOK', UNCHANGED <<runtime, resp, serve, steal, outstanding, reaper, executed>>,
         \A l \in Nodes \X Nodes : opened[l] > 0 => opened'[l] > 0,
         \A x \in Tasks, t \in Nodes : Notice(x, t)' => Notice(x, t),
         \A x \in Tasks, c \in Conns : Posted(x, c)' => Posted(x, c) \/ \E t \in Nodes : Notice(x, t)
  PROVE  IInv'
<1>1. ASSUME NEW u \in Nodes, steal'[u].at = "wait"
      PROVE  steal'[u].victim # u /\ opened'[<<u, steal'[u].victim>>] > 0
  <2>1. steal[u].victim \in Nodes /\ steal[u].victim # u /\ opened[<<u, steal[u].victim>>] > 0
    BY <1>1, StealTypes DEF ShapeInv, IInv
  <2> QED
    BY <2>1
<1> QED
  BY <1>1, QuietInv

(* completion_loop takes the queue for its batch.                          *)
LEMMA SwapBatchInv ==
  ASSUME IInv, NEW t \in Nodes, SwapBatch(t)
  PROVE  IInv'
<1> USE DEF IInv
<1>1. /\ completions \in [Nodes -> Seq(Tasks)] /\ batch \in [Nodes -> Seq(Tasks)]
      /\ batch' = [batch EXCEPT ![t] = completions[t]]
      /\ completions' = [completions EXCEPT ![t] = <<>>]
      /\ UNCHANGED <<state, runtime, net, serve, steal, outstanding, reaper, executed>>
  BY DEF TypeOK, SwapBatch
<1>2. /\ completions' \in [Nodes -> Seq(Tasks)] /\ batch' \in [Nodes -> Seq(Tasks)]
      /\ batch'[t] = completions[t] /\ completions'[t] = <<>>
      /\ \A u \in Nodes : u # t => batch'[u] = batch[u] /\ completions'[u] = completions[u]
  BY <1>1
<1>3. TypeOK'
  BY <1>1, <1>2 DEF TypeOK, runtime, net, reaper
<1>4. ASSUME NEW x \in Tasks, NEW u \in Nodes, Notice(x, u)' PROVE Notice(x, u)
  <2>1. CASE u = t
    BY <1>2, <1>4, <2>1 DEF Notice
  <2>2. CASE u # t
    BY <1>2, <1>4, <2>2 DEF Notice
  <2> QED
    BY <2>1, <2>2
<1> QED
  BY <1>1, <1>3, <1>4, SenderInv DEF Posted, net

(* The batch without its first notice.                                     *)
LEMMA BatchTail ==
  ASSUME IInv, NEW t \in Nodes, batch[t] # <<>>, batch' = [batch EXCEPT ![t] = Tail(@)],
         UNCHANGED completions
  PROVE  /\ batch' \in [Nodes -> Seq(Tasks)] /\ Head(batch[t]) \in Tasks
         /\ Notice(Head(batch[t]), t)
         /\ Origin[Head(batch[t])] \in Nodes /\ Origin[Head(batch[t])] # t
         /\ \A x \in Tasks, u \in Nodes : Notice(x, u)' => Notice(x, u)
<1> USE DEF IInv
<1>1. PICK s : s = batch[t]
  OBVIOUS
<1>2. batch \in [Nodes -> Seq(Tasks)] /\ s \in Seq(Tasks) /\ s # <<>>
  BY <1>1 DEF TypeOK
<1>3. /\ Tail(s) \in Seq(Tasks) /\ Len(s) \in Nat \ {0} /\ Len(Tail(s)) = Len(s) - 1
      /\ Head(s) = s[1] /\ Head(s) \in Tasks
      /\ \A m \in 1 .. Len(s) - 1 : Tail(s)[m] = s[m + 1]
  BY <1>2, TailFacts
<1>4. /\ batch' \in [Nodes -> Seq(Tasks)] /\ batch'[t] = Tail(s)
      /\ \A u \in Nodes : u # t => batch'[u] = batch[u]
  BY <1>1, <1>2, <1>3
<1>5. Notice(Head(s), t)
  BY <1>1, <1>3 DEF Notice
<1>6. ASSUME NEW x \in Tasks, NEW u \in Nodes, Notice(x, u)' PROVE Notice(x, u)
  <2>1. CASE \E m \in 1 .. Len(completions[u]) : completions[u][m] = x
    BY <2>1 DEF Notice
  <2>2. CASE \E m \in 1 .. Len(batch'[u]) : batch'[u][m] = x
    <3>1. PICK m \in 1 .. Len(batch'[u]) : batch'[u][m] = x
      BY <2>2
    <3>2. CASE u = t
      <4>0. m \in 1 .. Len(s) - 1 /\ Tail(s)[m] = x
        BY <1>3, <1>4, <3>1, <3>2
      <4>1. m + 1 \in 1 .. Len(s) /\ s[m + 1] = x
        BY <1>3, <4>0
      <4> QED
        BY <1>1, <3>2, <4>1 DEF Notice
    <3>3. CASE u # t
      BY <1>4, <3>1, <3>3 DEF Notice
    <3> QED
      BY <3>2, <3>3
  <2> QED
    BY <1>6, <2>1, <2>2 DEF Notice
<1>7. Origin[Head(s)] \in Nodes /\ Origin[Head(s)] # t
  BY <1>3, <1>5, NodeAssumption DEF NoticeInv
<1> QED
  BY <1>1, <1>3, <1>4, <1>5, <1>6, <1>7

(* completion_loop reports a task to its origin.                           *)
LEMMA SendResultInv ==
  ASSUME IInv, NEW t \in Nodes, SendResult(t)
  PROVE  IInv'
<1> USE DEF IInv
<1>1. PICK y, v : y = Head(batch[t]) /\ v = Origin[y]
  OBVIOUS
<1>2. /\ batch[t] # <<>> /\ batch' = [batch EXCEPT ![t] = Tail(@)] /\ Send(t, v, Result(y))
      /\ UNCHANGED <<state, runtime, serve, steal, completions, outstanding, reaper, executed>>
  BY <1>1 DEF SendResult
<1>3. /\ batch' \in [Nodes -> Seq(Tasks)] /\ y \in Tasks /\ Notice(y, t)
      /\ v \in Nodes /\ v # t
      /\ \A x \in Tasks, u \in Nodes : Notice(x, u)' => Notice(x, u)
  BY <1>1, <1>2, BatchTail
<1>4. Result(y) \in Messages
  BY <1>3 DEF Messages
<1>5. TypeOK'
  BY <1>2, <1>3, <1>4, SendFacts DEF TypeOK, Messages, runtime, reaper
<1>6. ASSUME NEW x \in Tasks, NEW c \in Conns, Posted(x, c)'
      PROVE  Posted(x, c) \/ \E u \in Nodes : Notice(x, u)
  <2>1. Result(y) = Result(x) => x = y
    <3>1. Result(y).task = y /\ Result(x).task = x
      BY DEF Result
    <3> QED
      BY <3>1
  <2> QED
    BY <1>2, <1>3, <1>4, <1>6, <2>1, SendFacts
<1>7. /\ UNCHANGED resp
      /\ \A l \in Nodes \X Nodes : opened[l] > 0 => opened'[l] > 0
  BY <1>2, <1>3, <1>4, SendFacts
<1> QED
  BY <1>2, <1>3, <1>5, <1>6, <1>7, SenderInv

(* A report that could not be sent is dropped.                             *)
LEMMA DropResultInv ==
  ASSUME IInv, NEW t \in Nodes, DropResult(t)
  PROVE  IInv'
<1> USE DEF IInv
<1>1. PICK v : v = Origin[Head(batch[t])]
  OBVIOUS
<1>2. /\ batch[t] # <<>> /\ batch' = [batch EXCEPT ![t] = Tail(@)] /\ Close(t, v)
      /\ UNCHANGED <<state, runtime, chan, resp, serve, steal, completions, outstanding, reaper,
                     executed>>
  BY <1>1 DEF DropResult
<1>3. /\ batch' \in [Nodes -> Seq(Tasks)]
      /\ \A x \in Tasks, u \in Nodes : Notice(x, u)' => Notice(x, u)
  BY <1>1, <1>2, BatchTail
<1>4. TypeOK'
  BY <1>2, <1>3, CloseFacts DEF TypeOK, runtime, reaper
<1>5. \A l \in Nodes \X Nodes : opened[l] > 0 => opened'[l] > 0
  BY <1>2, CloseFacts
<1> QED
  BY <1>2, <1>3, <1>4, <1>5, SenderInv DEF Posted

(* stop(), and a crash, change what threads may run, not what they hold.   *)
LEMMA StopInv ==
  ASSUME IInv, NEW n \in Nodes, Stop(n) \/ StopStep(n) \/ Crash(n)
  PROVE  IInv'
<1> USE DEF IInv
<1>1. /\ \E s \in {"stopping", "shutdown", "stopped", "crashed"} : state' = [state EXCEPT ![n] = s]
      /\ connected' = connected \/ connected' = [l \in Nodes \X Nodes |-> connected[l] /\ l[1] # n]
      /\ UNCHANGED <<runtime, opened, chan, resp, serve, steal, sender, outstanding, reaper, executed>>
  BY DEF Stop, StopStep, StopJoin, StopShutdown, Crash, net
<1>2. state' \in [Nodes -> {"up", "stopping", "shutdown", "stopped", "crashed"}]
  BY <1>1 DEF TypeOK
<1>3. /\ connected' \in [Nodes \X Nodes -> BOOLEAN]
      /\ \A l \in Nodes \X Nodes : connected'[l] => connected[l]
  <2>1. connected \in [Nodes \X Nodes -> BOOLEAN]
    BY DEF TypeOK
  <2>2. CASE connected' = connected
    BY <2>1, <2>2
  <2>3. CASE connected' = [l \in Nodes \X Nodes |-> connected[l] /\ l[1] # n]
    BY <2>1, <2>3, Zenon
  <2> QED
    BY <1>1, <2>2, <2>3
<1>4. TypeOK'
  BY <1>1, <1>2, <1>3 DEF TypeOK, runtime, sender, reaper
<1> QED
  BY <1>1, <1>4, PostSame, SenderInv DEF sender

(* A stuttering step.                                                      *)
LEMMA StutterInv ==
  ASSUME IInv, UNCHANGED vars
  PROVE  IInv'
<1> USE DEF IInv, vars, net
<1>1. TypeOK'
  BY DEF TypeOK, runtime, sender, reaper
<1> QED
  BY <1>1, PostSame, SenderInv DEF sender

----------------------------------------------------------------------------
(* Tools for the steps that hand tasks over.                               *)

(* The copies that have not run, after a step that moves some of them.     *)
LEMMA UnrunMoved ==
  ASSUME NEW S \in SUBSET Tasks, NEW New \in SUBSET Tasks,
         NEW a \in UnrunTags, NEW i \in CopySites(a), NEW b, NEW j,
         \A x \in S : Copy(x, a, i), CopyMoved(S, a, i, b, j, New)
  PROVE  \A x \in Tasks : Unrun(x)' => Unrun(x) \/ x \in New
<1> SUFFICES ASSUME NEW x \in Tasks, Unrun(x)', x \notin New
             PROVE  Unrun(x)
  OBVIOUS
<1>1. PICK t \in UnrunTags : \E k \in CopySites(t) : Copy(x, t, k)'
  BY DEF Unrun, CopySites
<1>2. PICK k \in CopySites(t) : Copy(x, t, k)'
  BY <1>1
<1>3. Copy(x, t, k) \/ x \in S
  BY <1>2 DEF CopyMoved, UnrunTags, CopyTags
<1> QED
  BY <1>3 DEF Unrun

(* What serve threads have in hand follows from the hand-over.             *)
LEMMA HandSame ==
  ASSUME NEW n,
         \A x \in Tasks : \A c \in Conns : c[2] = n =>
           ((At(x, "take", c) \/ At(x, "finish", c))' <=> At(x, "take", c) \/ At(x, "finish", c))
  PROVE  InHand(n)' = InHand(n)
<1>1. \A p \in Conns \X Tasks : p \in InHand(n) <=>
        p[1][2] = n /\ (At(p[2], "take", p[1]) \/ At(p[2], "finish", p[1]))
  BY DEF InHand, At
<1>2. \A p \in Conns \X Tasks : p \in InHand(n)' <=>
        p[1][2] = n /\ (At(p[2], "take", p[1]) \/ At(p[2], "finish", p[1]))'
  BY DEF InHand, At
<1>3. InHand(n) \subseteq Conns \X Tasks /\ InHand(n)' \subseteq Conns \X Tasks
  BY DEF InHand
<1>4. \A p \in Conns \X Tasks : p[1] \in Conns /\ p[2] \in Tasks
  OBVIOUS
<1> QED
  BY <1>1, <1>2, <1>3, <1>4

(* Everything a node has unsettled is finite.                              *)
LEMMA UnsettledFinite ==
  ASSUME TypeOK, ShapeInv, NEW n \in Nodes
  PROVE  /\ IsFiniteSet(pool[n]) /\ IsFiniteSet(jobs[n]) /\ IsFiniteSet(outstanding[n])
         /\ IsFiniteSet(InHand(n)) /\ IsFiniteSet(lost[n])
         /\ Cardinality(pool[n]) \in Nat /\ Cardinality(jobs[n]) \in Nat
         /\ Cardinality(outstanding[n]) \in Nat /\ Cardinality(InHand(n)) \in Nat
         /\ Cardinality(lost[n]) \in Nat /\ Unsettled(n) \in Nat
         /\ submitted[n] \in Nat /\ completed[n] \in Nat
<1>1. /\ IsFiniteSet(pool[n]) /\ IsFiniteSet(outstanding[n]) /\ IsFiniteSet(lost[n])
  BY NodeAssumption, FS_Subset DEF TypeOK
<1>2. IsFiniteSet(jobs[n]) /\ IsFiniteSet(InHand(n))
  BY DEF ShapeInv
<1>3. /\ Cardinality(pool[n]) \in Nat /\ Cardinality(jobs[n]) \in Nat
      /\ Cardinality(outstanding[n]) \in Nat /\ Cardinality(InHand(n)) \in Nat
      /\ Cardinality(lost[n]) \in Nat
  BY <1>1, <1>2, FS_CardinalityType
<1>4. Unsettled(n) \in Nat
  BY <1>3 DEF Unsettled
<1> QED
  BY <1>1, <1>2, <1>3, <1>4 DEF TypeOK

(* A step that concerns the ledger of one node.                            *)
LEMMA LedgerStep ==
  ASSUME LedgerBalanced, NEW n \in Nodes,
         \A m \in Nodes \ {n} :
           /\ submitted'[m] = submitted[m] /\ completed'[m] = completed[m]
           /\ pool'[m] = pool[m] /\ jobs'[m] = jobs[m] /\ outstanding'[m] = outstanding[m]
           /\ InHand(m)' = InHand(m) /\ lost'[m] = lost[m] /\ debt'[m] = debt[m],
         submitted[n] = completed[n] + Unsettled(n) =>
           submitted'[n] = completed'[n] + Unsettled(n)'
  PROVE  LedgerBalanced'
<1>1. \A m \in Nodes \ {n} : Unsettled(m)' = Unsettled(m)
  BY DEF Unsettled
<1> QED
  BY <1>1 DEF LedgerBalanced

(* A channel without its first message.                                    *)
LEMMA ChanTail ==
  ASSUME TypeOK, NEW c \in Conns, chan[c] # <<>>, chan' = [chan EXCEPT ![c] = Tail(@)]
  PROVE  /\ chan' \in [Conns -> Seq(Messages)] /\ Head(chan[c]) \in Messages
         /\ \A x \in Tasks : Head(chan[c]) = Result(x) => Posted(x, c)
         /\ \A x \in Tasks, d \in Conns : Posted(x, d)' => Posted(x, d)
<1>1. PICK s : s = chan[c]
  OBVIOUS
<1>2. chan \in [Conns -> Seq(Messages)] /\ s \in Seq(Messages) /\ s # <<>>
  BY <1>1 DEF TypeOK, Messages
<1>3. /\ Tail(s) \in Seq(Messages) /\ Len(s) \in Nat \ {0} /\ Len(Tail(s)) = Len(s) - 1
      /\ Head(s) = s[1] /\ Head(s) \in Messages
      /\ \A m \in 1 .. Len(s) - 1 : Tail(s)[m] = s[m + 1]
  BY <1>2, TailFacts
<1>4. /\ chan' \in [Conns -> Seq(Messages)] /\ chan'[c] = Tail(s)
      /\ \A d \in Conns : d # c => chan'[d] = chan[d]
  BY <1>1, <1>2, <1>3
<1>5. \A x \in Tasks : Head(s) = Result(x) => Posted(x, c)
  BY <1>1, <1>3 DEF Posted
<1>6. ASSUME NEW x \in Tasks, NEW d \in Conns, Posted(x, d)' PROVE Posted(x, d)
  <2>1. PICK m \in 1 .. Len(chan'[d]) : chan'[d][m] = Result(x)
    BY <1>6 DEF Posted
  <2>2. CASE d = c
    <3>1. m \in 1 .. Len(s) - 1 /\ Tail(s)[m] = Result(x)
      BY <1>3, <1>4, <2>1, <2>2
    <3>2. m + 1 \in 1 .. Len(s) /\ s[m + 1] = Result(x)
      BY <1>3, <3>1
    <3> QED
      BY <1>1, <2>2, <3>2 DEF Posted
  <2>3. CASE d # c
    BY <1>4, <2>1, <2>3 DEF Posted
  <2> QED
    BY <2>2, <2>3
<1> QED
  BY <1>1, <1>3, <1>4, <1>5, <1>6

(* A claim that a step adds nothing to.                                    *)
LEMMA ClaimedStep ==
  ASSUME NEW x \in Tasks,
         \A t \in DoneTags : \A k \in Sites(t) : At(x, t, k)' => Claimed(x),
         \A t \in {"ran", "reported"} : \A k \in Nodes : Copy(x, t, k)' => Claimed(x),
         \A t \in Nodes : Notice(x, t)' => Claimed(x),
         \A c \in Conns : Posted(x, c)' => Claimed(x)
  PROVE  Claimed(x)' => Claimed(x)
<1> SUFFICES ASSUME Claimed(x)' PROVE Claimed(x)
  OBVIOUS
<1>1. \/ \E t \in DoneTags : \E k \in Sites(t) : At(x, t, k)'
      \/ \E t \in {"ran", "reported"} : \E k \in Nodes : Copy(x, t, k)'
      \/ \E t \in Nodes : Notice(x, t)'
      \/ \E c \in Conns : Posted(x, c)'
  BY DEF Claimed, Sites
<1> QED
  BY <1>1

(* What kinds of claim there are.                                          *)
LEMMA ClaimedBy ==
  ASSUME NEW x \in Tasks
  PROVE  /\ \A t \in DoneTags : \A k \in Sites(t) : At(x, t, k) => Claimed(x)
         /\ \A t \in {"ran", "reported"} : \A k \in Nodes : Copy(x, t, k) => Claimed(x)
         /\ \A t \in Nodes : Notice(x, t) => Claimed(x)
         /\ \A c \in Conns : Posted(x, c) => Claimed(x)
BY DEF Claimed

----------------------------------------------------------------------------
(* The copy on its way to the thief.                                       *)

(* The thief receives a response: its tasks pass to the steal thread.      *)
LEMMA StealResponseInv ==
  ASSUME IInv, NEW t \in Nodes, StealResponse(t)
  PROVE  IInv'
<1> USE DEF IInv
<1>1. PICK v, c : v = steal[t].victim /\ c = Conn(t, v)
  OBVIOUS
<1>2. v \in Nodes /\ v # t /\ opened[<<t, v>>] > 0 /\ steal[t].at = "wait" /\ steal[t].tasks = {}
  BY <1>1, StealTypes DEF StealResponse, ShapeInv
<1>3. c \in Conns /\ c[1] = t /\ c[2] = v
  <2>1. <<t, v>> \in Nodes \X Nodes
    BY <1>2
  <2>2. opened[<<t, v>>] \in 1 .. MaxConns
    BY <1>2, <2>1, NodeAssumption DEF TypeOK
  <2> QED
    BY <1>1, <1>2, <2>2, ConnFacts DEF Conn
<1>4. PICK s : s = resp[c]
  OBVIOUS
<1>5. /\ resp \in [Conns -> Seq(SUBSET Tasks)] /\ s \in Seq(SUBSET Tasks) /\ s # <<>>
      /\ steal \in [Nodes -> Steals]
      /\ resp' = [resp EXCEPT ![c] = Tail(s)]
      /\ UNCHANGED <<state, runtime, opened, connected, chan, serve, sender, outstanding,
                     reaper, executed>>
  BY <1>1, <1>3, <1>4 DEF StealResponse, TypeOK, Steals
<1>6. /\ Tail(s) \in Seq(SUBSET Tasks) /\ Len(s) \in Nat \ {0} /\ Len(Tail(s)) = Len(s) - 1
      /\ Head(s) = s[1] /\ Head(s) \in SUBSET Tasks
      /\ \A m \in 1 .. Len(s) - 1 : Tail(s)[m] = s[m + 1]
  BY <1>5, TailFacts
<1>7. PICK S \in SUBSET Tasks : S = Head(s)
  BY <1>6
<1>8. PICK e \in Steals : /\ steal' = [steal EXCEPT ![t] = e]
                          /\ e.at # "wait" /\ e.tasks = S
  <2>0. PICK f : f = IF S = {} THEN IdleSteal
                     ELSE [at |-> "accept", victim |-> NoNode, tasks |-> S]
    OBVIOUS
  <2>3. steal' = [steal EXCEPT ![t] = f]
    BY <1>1, <1>4, <1>7, <2>0 DEF StealResponse
  <2>1. CASE S = {}
    <3>1. f \in Steals /\ f.at # "wait" /\ f.tasks = S
      BY <2>0, <2>1 DEF Steals, IdleSteal
    <3> QED
      BY <2>3, <3>1
  <2>2. CASE S # {}
    <3>1. PICK e : e = [at |-> "accept", victim |-> NoNode, tasks |-> S]
      OBVIOUS
    <3>2. steal' = [steal EXCEPT ![t] = e]
      BY <2>0, <2>2, <2>3, <3>1
    <3>3. e \in Steals /\ e.at # "wait" /\ e.tasks = S
      <4>1. S \in (SUBSET Tasks) \ {{}}
        BY <2>2
      <4>2. e \in [at : {"accept"}, victim : {NoNode}, tasks : (SUBSET Tasks) \ {{}}]
        BY <3>1, <4>1
      <4> QED
        BY <3>1, <4>2 DEF Steals
    <3> QED
      BY <3>2, <3>3
  <2> QED
    BY <2>1, <2>2
<1>9. steal' \in [Nodes -> Steals] /\ steal'[t] = e /\ \A u \in Nodes : u # t => steal'[u] = steal[u]
  BY <1>5, <1>8
<1>10. /\ resp' \in [Conns -> Seq(SUBSET Tasks)] /\ resp'[c] = Tail(s)
       /\ \A d \in Conns : d # c => resp'[d] = resp[d]
  BY <1>3, <1>5, <1>6
<1>11. TypeOK'
  BY <1>5, <1>9, <1>10 DEF TypeOK, Steals, runtime, sender, reaper
<1>12. ShapeInv'
  <2>1. \A u \in Nodes : steal'[u].at = "wait" =>
          steal'[u].victim # u /\ opened'[<<u, steal'[u].victim>>] > 0
    BY <1>5, <1>8, <1>9 DEF ShapeInv
  <2> QED
    BY <1>5, <2>1 DEF ShapeInv, InHand, runtime
<1>13. NoticeInv'
  BY <1>5 DEF NoticeInv, Notice, sender
<1>14. \A x, u, k : At(x, u, k)' <=> At(x, u, k)
  BY <1>5, AtSame DEF runtime, reaper
<1>15. HeldInv'
  BY <1>5, <1>14, HeldSame DEF runtime, reaper
<1>16. \A x \in Tasks : InResp(x, c)' => InResp(x, c) /\ x \notin S
  <2> SUFFICES ASSUME NEW x \in Tasks, InResp(x, c)' PROVE InResp(x, c) /\ x \notin S
    OBVIOUS
  <2>1. PICK m \in 1 .. Len(resp'[c]) : x \in resp'[c][m]
    BY DEF InResp
  <2>2. m \in 1 .. Len(s) - 1 /\ x \in Tail(s)[m]
    BY <1>6, <1>10, <2>1
  <2>3. m + 1 \in 1 .. Len(s) /\ 1 \in 1 .. Len(s) /\ x \in s[m + 1] /\ 1 # m + 1
    BY <1>6, <2>2
  <2>4. s[1] \cap s[m + 1] = {}
    BY <1>3, <1>4, <2>3 DEF RespInv, CopyInv
  <2> QED
    BY <1>4, <1>6, <1>7, <2>3, <2>4 DEF InResp
<1>17. CopyMoved(S, "resp", c, "steal", t, {})
  <2> SUFFICES ASSUME NEW x \in Tasks, NEW u \in CopyTags, NEW k \in CopySites(u), Copy(x, u, k)'
               PROVE  \/ Copy(x, u, k) /\ ~(x \in S /\ u = "resp" /\ k = c)
                      \/ x \in S /\ u = "steal" /\ k = t
    BY DEF CopyMoved, CopySites
  <2>1. CASE u = "resp"
    <3>1. k \in Conns /\ InResp(x, k)'
      BY <2>1 DEF CopySites, Copy
    <3>2. CASE k = c
      BY <1>16, <2>1, <3>1, <3>2 DEF Copy
    <3>3. CASE k # c
      BY <1>10, <2>1, <3>1, <3>3 DEF Copy, InResp
    <3> QED
      BY <3>2, <3>3
  <2>2. CASE u = "steal"
    <3>1. k \in Nodes /\ x \in steal'[k].tasks
      BY <2>2 DEF CopySites, Copy
    <3> QED
      BY <1>8, <1>9, <2>2, <3>1 DEF Copy
  <2>3. CASE u \notin {"resp", "steal"}
    BY <1>5, <2>3 DEF Copy, runtime
  <2> QED
    BY <2>1, <2>2, <2>3
<1>18. /\ "resp" \in CopyTags /\ "resp" \in UnrunTags /\ c \in CopySites("resp")
       /\ "steal" \in CopyTags /\ t \in CopySites("steal")
  BY <1>3 DEF CopyTags, CopySites, UnrunTags
<1>19. \A x \in S : Copy(x, "resp", c) /\ CopyHome(x, "steal", t)
  <2> SUFFICES ASSUME NEW x \in S PROVE Copy(x, "resp", c) /\ CopyHome(x, "steal", t)
    OBVIOUS
  <2>1. Copy(x, "resp", c)
    BY <1>4, <1>6, <1>7 DEF Copy, InResp
  <2>2. Origin[x] = c[2]
    BY <1>18, <2>1 DEF CopyHomeInv, CopyHome, CopyInv
  <2> QED
    BY <1>2, <1>3, <2>1, <2>2 DEF CopyHome
<1>20. started' = started \cup {} /\ {} \in SUBSET Tasks /\ {} \cap started = {}
  BY <1>5 DEF runtime
<1>21. CopyOnceInv' /\ CopyStartedInv' /\ CopyHomeInv'
  BY <1>17, <1>18, <1>19, <1>20, CopyMovedInv DEF CopyInv
<1>22. RespInv'
  <2> SUFFICES ASSUME NEW d \in Conns, NEW l \in 1 .. Len(resp'[d]),
                      NEW m \in 1 .. Len(resp'[d]), l # m
               PROVE  resp'[d][l] \cap resp'[d][m] = {}
    BY DEF RespInv
  <2>1. CASE d = c
    <3>1. l \in 1 .. Len(s) - 1 /\ m \in 1 .. Len(s) - 1
      BY <1>6, <1>10, <2>1
    <3>2. /\ l + 1 \in 1 .. Len(s) /\ m + 1 \in 1 .. Len(s) /\ l + 1 # m + 1
          /\ resp'[c][l] = s[l + 1] /\ resp'[c][m] = s[m + 1]
      BY <1>6, <1>10, <3>1
    <3> QED
      BY <1>3, <1>4, <2>1, <3>2 DEF RespInv, CopyInv
  <2>2. CASE d # c
    BY <1>10, <2>2 DEF RespInv, CopyInv
  <2> QED
    BY <2>1, <2>2
<1>23. \A x \in Tasks : Unrun(x)' => Unrun(x)
  BY <1>17, <1>18, <1>19, <1>20, UnrunMoved
<1>24. ExecInv'
  BY <1>5, <1>23, RerunSame, ExecKept DEF runtime, reaper
<1>25. \A x \in Tasks : Claimed(x)' => Claimed(x)
  <2> SUFFICES ASSUME NEW x \in Tasks PROVE Claimed(x)' => Claimed(x)
    OBVIOUS
  <2>1. \A u \in {"ran", "reported"} : \A k \in Nodes : Copy(x, u, k)' => Copy(x, u, k)
    BY <1>5 DEF Copy, runtime
  <2>2. /\ \A u \in Nodes : Notice(x, u)' => Notice(x, u)
        /\ \A d \in Conns : Posted(x, d)' => Posted(x, d)
    BY <1>5, PostSame DEF sender
  <2> QED
    BY <1>14, <2>1, <2>2, ClaimedBy, ClaimedStep
<1>26. DoneInv'
  BY <1>5, <1>25, DoneKept
<1>27. LedgerBalanced'
  BY <1>5, LedgerSame DEF runtime, reaper
<1> QED
  BY <1>11, <1>12, <1>13, <1>15, <1>21, <1>22, <1>24, <1>26, <1>27 DEF CopyInv

Serves == [at : {"recv", "take", "send", "finish"}, give : Nat, hand : SUBSET Tasks]

(* A step of the serve thread of c.                                        *)
LEMMA ServeUpdate ==
  ASSUME TypeOK, NEW c \in Conns, NEW r \in Serves, serve' = [serve EXCEPT ![c] = r]
  PROVE  /\ serve' \in [Conns -> Serves] /\ serve'[c] = r
         /\ \A d \in Conns : d # c => serve'[d] = serve[d]
BY DEF TypeOK, Serves

(* What a serve thread holds.                                              *)
LEMMA ServeTypes ==
  ASSUME TypeOK, NEW c \in Conns
  PROVE  /\ serve[c] \in Serves /\ serve[c].hand \subseteq Tasks /\ serve[c].give \in Nat
         /\ serve[c].at \in {"recv", "take", "send", "finish"}
         /\ IdleServe \in Serves /\ IdleServe.at = "recv" /\ IdleServe.hand = {}
BY DEF TypeOK, Serves, IdleServe

(* The points of the hand-over away from serve threads.                    *)
LEMMA AtElsewhere ==
  ASSUME NEW x, NEW t, NEW k, t \notin {"take", "finish"},
         UNCHANGED <<pool, jobs, outstanding, lost, observed>>
  PROVE  At(x, t, k)' <=> At(x, t, k)
BY DEF At

(* A serve thread hands the response to the connection, or finds it        *)
(* closed: the copies are under way to the thief, or lost.                 *)
LEMMA ServeSendInv ==
  ASSUME IInv, NEW c \in Conns, ServeSend(c)
  PROVE  IInv'
<1> USE DEF IInv
<1>1. PICK S \in SUBSET Tasks : S = serve[c].hand
  BY ServeTypes
<1>2. /\ serve[c].at = "send" /\ serve' = [serve EXCEPT ![c] = IdleServe] /\ IdleServe \in Serves
      /\ resp' = resp \/ resp' = [resp EXCEPT ![c] = Append(resp[c], S)]
      /\ UNCHANGED <<state, runtime, opened, connected, chan, steal, sender, outstanding, reaper,
                     executed>>
  BY <1>1, ServeTypes DEF ServeSend
<1>3. /\ serve' \in [Conns -> Serves] /\ serve'[c] = IdleServe
      /\ \A d \in Conns : d # c => serve'[d] = serve[d]
  BY <1>2, ServeUpdate
<1>4. PICK s : s = resp[c]
  OBVIOUS
<1>5. s \in Seq(SUBSET Tasks) /\ resp \in [Conns -> Seq(SUBSET Tasks)]
  BY <1>4 DEF TypeOK
<1>6. /\ Append(s, S) \in Seq(SUBSET Tasks) /\ Len(s) \in Nat /\ Len(Append(s, S)) = Len(s) + 1
      /\ Append(s, S)[Len(s) + 1] = S
      /\ \A m \in 1 .. Len(s) : Append(s, S)[m] = s[m]
  BY <1>5, AppendFacts
<1>7. /\ resp' \in [Conns -> Seq(SUBSET Tasks)] /\ resp'[c] \in {s, Append(s, S)}
      /\ \A d \in Conns : d # c => resp'[d] = resp[d]
  BY <1>2, <1>4, <1>5, <1>6
<1>8. TypeOK'
  BY <1>2, <1>3, <1>7 DEF TypeOK, Serves, runtime, sender, reaper
<1>9. \A x, t, k : t \notin {"take", "finish"} => (At(x, t, k)' <=> At(x, t, k))
  BY <1>2, AtElsewhere DEF runtime, reaper
<1>10. \A x \in Tasks : \A t \in Tags : \A k \in Sites(t) : At(x, t, k)' <=> At(x, t, k)
  <2> SUFFICES ASSUME NEW x \in Tasks, NEW t \in {"take", "finish"}, NEW k \in Conns
               PROVE  At(x, t, k)' <=> At(x, t, k)
    BY <1>9 DEF Sites
  <2> QED
    BY <1>2, <1>3, ServeTypes DEF At
<1>11. HeldInv'
  BY <1>2, <1>10, HeldSame DEF runtime, reaper
<1>12. \A n \in Nodes : InHand(n)' = InHand(n)
  <2>1. \A x \in Tasks : \A d \in Conns :
          (At(x, "take", d) \/ At(x, "finish", d))' <=> At(x, "take", d) \/ At(x, "finish", d)
    BY <1>10, SiteFacts DEF Tags
  <2> QED
    BY <2>1, HandSame
<1>13. ShapeInv'
  BY <1>2, <1>3, <1>12, ServeTypes DEF ShapeInv, runtime
<1>14. NoticeInv'
  BY <1>2 DEF NoticeInv, Notice, sender
<1>15. /\ "send" \in CopyTags /\ "send" \in UnrunTags /\ c \in CopySites("send")
       /\ "resp" \in CopyTags /\ c \in CopySites("resp")
  BY DEF CopyTags, CopySites, UnrunTags
<1>16. CopyMoved(S, "send", c, "resp", c, {})
  <2> SUFFICES ASSUME NEW x \in Tasks, NEW u \in CopyTags, NEW k \in CopySites(u), Copy(x, u, k)'
               PROVE  \/ Copy(x, u, k) /\ ~(x \in S /\ u = "send" /\ k = c)
                      \/ x \in S /\ u = "resp" /\ k = c
    BY DEF CopyMoved, CopySites
  <2>1. CASE u = "resp"
    <3>1. k \in Conns /\ InResp(x, k)'
      BY <2>1 DEF CopySites, Copy
    <3>2. CASE k = c
      <4>1. PICK m \in 1 .. Len(resp'[c]) : x \in resp'[c][m]
        BY <3>1, <3>2 DEF InResp
      <4>2. InResp(x, c) \/ x \in S
        BY <1>4, <1>6, <1>7, <4>1 DEF InResp
      <4> QED
        BY <2>1, <3>2, <4>2 DEF Copy
    <3>3. CASE k # c
      BY <1>7, <2>1, <3>1, <3>3 DEF Copy, InResp
    <3> QED
      BY <3>2, <3>3
  <2>2. CASE u \in {"take", "send"}
    <3>1. k \in Conns /\ serve'[k].at = u /\ x \in serve'[k].hand
      BY <2>2 DEF CopySites, Copy
    <3>2. k # c
      BY <1>3, <2>2, <3>1, ServeTypes
    <3> QED
      BY <1>3, <2>2, <3>1, <3>2 DEF Copy
  <2>3. CASE u \notin {"resp", "take", "send"}
    BY <1>2, <2>3 DEF Copy, runtime
  <2> QED
    BY <2>1, <2>2, <2>3
<1>17. \A x \in S : Copy(x, "send", c) /\ CopyHome(x, "resp", c)
  <2> SUFFICES ASSUME NEW x \in S PROVE Copy(x, "send", c) /\ CopyHome(x, "resp", c)
    OBVIOUS
  <2>1. Copy(x, "send", c)
    BY <1>1, <1>2 DEF Copy
  <2>2. Origin[x] = c[2]
    BY <1>15, <2>1 DEF CopyHomeInv, CopyHome, CopyInv
  <2> QED
    BY <2>1, <2>2 DEF CopyHome
<1>18. started' = started \cup {} /\ {} \in SUBSET Tasks /\ {} \cap started = {}
  BY <1>2 DEF runtime
<1>19. CopyOnceInv' /\ CopyStartedInv' /\ CopyHomeInv'
  BY <1>15, <1>16, <1>17, <1>18, CopyMovedInv DEF CopyInv
<1>20. \A m \in 1 .. Len(s) : s[m] \cap S = {}
  <2> SUFFICES ASSUME NEW m \in 1 .. Len(s), NEW x \in S, x \in s[m] PROVE FALSE
    OBVIOUS
  <2>1. Copy(x, "resp", c)
    BY <1>4 DEF Copy, InResp
  <2> QED
    BY <1>15, <1>17, <2>1 DEF CopyOnceInv, CopyInv
<1>21. RespInv'
  <2> SUFFICES ASSUME NEW d \in Conns, NEW l \in 1 .. Len(resp'[d]),
                      NEW m \in 1 .. Len(resp'[d]), l # m
               PROVE  resp'[d][l] \cap resp'[d][m] = {}
    BY DEF RespInv
  <2>1. \A i, j \in 1 .. Len(s) : i # j => s[i] \cap s[j] = {}
    BY <1>4 DEF RespInv, CopyInv
  <2>2. CASE d = c /\ resp'[c] = s
    BY <2>1, <2>2
  <2>3. CASE d = c /\ resp'[c] = Append(s, S)
    <3>1. /\ l \in 1 .. Len(s) \/ l = Len(s) + 1
          /\ m \in 1 .. Len(s) \/ m = Len(s) + 1
      BY <1>6, <2>3
    <3> QED
      BY <1>6, <1>20, <2>1, <2>3, <3>1
  <2>4. CASE d # c
    BY <1>7, <2>4 DEF RespInv, CopyInv
  <2> QED
    BY <1>7, <2>2, <2>3, <2>4
<1>22. \A x \in Tasks : Unrun(x)' => Unrun(x)
  BY <1>15, <1>16, <1>17, <1>18, UnrunMoved
<1>23. ExecInv'
  BY <1>2, <1>22, RerunSame, ExecKept DEF runtime, reaper
<1>24. \A x \in Tasks : Claimed(x)' => Claimed(x)
  <2> SUFFICES ASSUME NEW x \in Tasks PROVE Claimed(x)' => Claimed(x)
    OBVIOUS
  <2>1. \A u \in {"ran", "reported"} : \A k \in Nodes : Copy(x, u, k)' => Copy(x, u, k)
    BY <1>2 DEF Copy, runtime
  <2>2. /\ \A u \in Nodes : Notice(x, u)' => Notice(x, u)
        /\ \A d \in Conns : Posted(x, d)' => Posted(x, d)
    BY <1>2, PostSame DEF sender
  <2>3. DoneTags \subseteq Tags
    BY DEF DoneTags, Tags
  <2> QED
    BY <1>10, <2>1, <2>2, <2>3, ClaimedBy, ClaimedStep
<1>25. DoneInv'
  BY <1>2, <1>24, DoneKept
<1>26. LedgerBalanced'
  <2>1. \A n \in Nodes : Unsettled(n)' = Unsettled(n)
    BY <1>2, <1>12 DEF Unsettled, runtime, reaper
  <2> QED
    BY <1>2, <2>1 DEF LedgerBalanced, runtime
<1> QED
  BY <1>8, <1>11, <1>13, <1>14, <1>19, <1>21, <1>23, <1>25, <1>26 DEF CopyInv

(* serve_peer reads a steal request: nothing is in hand yet.               *)
LEMMA ServeRequestInv ==
  ASSUME IInv, NEW c \in Conns, ServeRequest(c)
  PROVE  IInv'
<1> USE DEF IInv
<1>1. PICK v, g : v = c[2] /\ g = Half(c[1], Cardinality(pool[v]))
  OBVIOUS
<1>2. PICK r : r = [at |-> "take", give |-> g, hand |-> {}]
  OBVIOUS
<1>3. /\ serve[c] = IdleServe /\ chan[c] # <<>> /\ chan' = [chan EXCEPT ![c] = Tail(@)]
      /\ serve' = [serve EXCEPT ![c] = r]
      /\ UNCHANGED <<state, runtime, opened, connected, resp, steal, sender, outstanding, reaper,
                     executed>>
  BY <1>1, <1>2 DEF ServeRequest
<1>4. g \in Nat
  <2>1. v \in Nodes /\ c[1] \in Nodes
    BY <1>1, ConnFacts
  <2>2. Cardinality(pool[v]) \in Nat
    BY <2>1, UnsettledFinite
  <2>3. NumWorkers[c[1]] \in Nat
    BY <2>1, NodeAssumption
  <2> QED
    BY <1>1, <2>2, <2>3 DEF Half, Least
<1>5. r \in Serves /\ r.at = "take" /\ r.hand = {}
  BY <1>2, <1>4 DEF Serves
<1>6. /\ serve' \in [Conns -> Serves] /\ serve'[c] = r
      /\ \A d \in Conns : d # c => serve'[d] = serve[d]
  BY <1>3, <1>5, ServeUpdate
<1>7. TypeOK'
  BY <1>3, <1>6, ChanTail DEF TypeOK, Serves, Messages, runtime, sender, reaper
<1>8. serve[c].hand = {}
  BY <1>3, ServeTypes
<1>9. \A x, t, k : t \notin {"take", "finish"} => (At(x, t, k)' <=> At(x, t, k))
  BY <1>3, AtElsewhere DEF runtime, reaper
<1>10. \A x \in Tasks : \A t \in Tags : \A k \in Sites(t) : At(x, t, k)' <=> At(x, t, k)
  <2> SUFFICES ASSUME NEW x \in Tasks, NEW t \in {"take", "finish"}, NEW k \in Conns
               PROVE  At(x, t, k)' <=> At(x, t, k)
    BY <1>9 DEF Sites
  <2> QED
    BY <1>5, <1>6, <1>8 DEF At
<1>11. HeldInv'
  BY <1>3, <1>10, HeldSame DEF runtime, reaper
<1>12. \A n \in Nodes : InHand(n)' = InHand(n)
  <2>1. \A x \in Tasks : \A d \in Conns :
          (At(x, "take", d) \/ At(x, "finish", d))' <=> At(x, "take", d) \/ At(x, "finish", d)
    BY <1>10, SiteFacts DEF Tags
  <2> QED
    BY <2>1, HandSame
<1>13. ShapeInv'
  BY <1>3, <1>5, <1>6, <1>12 DEF ShapeInv, runtime
<1>14. NoticeInv'
  BY <1>3 DEF NoticeInv, Notice, sender
<1>15. \A x \in Tasks : \A u \in CopyTags : \A k \in CopySites(u) : Copy(x, u, k)' => Copy(x, u, k)
  <2> SUFFICES ASSUME NEW x \in Tasks, NEW u \in CopyTags, NEW k \in CopySites(u), Copy(x, u, k)'
               PROVE  Copy(x, u, k)
    OBVIOUS
  <2>1. CASE u \in {"take", "send"}
    <3>1. k \in Conns /\ serve'[k].at = u /\ x \in serve'[k].hand
      BY <2>1 DEF CopySites, Copy
    <3> QED
      BY <1>5, <1>6, <2>1, <3>1 DEF Copy
  <2>2. CASE u \notin {"take", "send"}
    BY <1>3, <2>2 DEF Copy, InResp, runtime
  <2> QED
    BY <2>1, <2>2
<1>16. /\ CopyOnceInv' /\ CopyStartedInv' /\ CopyHomeInv'
       /\ \A x \in Tasks : Unrun(x)' => Unrun(x)
  BY <1>3, <1>15, CopyFewer DEF CopyInv, runtime
<1>17. RespInv'
  BY <1>3 DEF RespInv, CopyInv
<1>18. ExecInv'
  BY <1>3, <1>16, RerunSame, ExecKept DEF runtime, reaper
<1>19. \A x \in Tasks : Claimed(x)' => Claimed(x)
  <2> SUFFICES ASSUME NEW x \in Tasks PROVE Claimed(x)' => Claimed(x)
    OBVIOUS
  <2>1. \A u \in {"ran", "reported"} : \A k \in Nodes : Copy(x, u, k)' => Copy(x, u, k)
    BY <1>3 DEF Copy, runtime
  <2>2. \A u \in Nodes : Notice(x, u)' => Notice(x, u)
    BY <1>3 DEF Notice, sender
  <2>3. \A d \in Conns : Posted(x, d)' => Posted(x, d)
    BY <1>3, ChanTail
  <2>4. DoneTags \subseteq Tags
    BY DEF DoneTags, Tags
  <2> QED
    BY <1>10, <2>1, <2>2, <2>3, <2>4, ClaimedBy, ClaimedStep
<1>20. DoneInv'
  BY <1>3, <1>19, DoneKept
<1>21. LedgerBalanced'
  <2>1. \A n \in Nodes : Unsettled(n)' = Unsettled(n)
    BY <1>3, <1>12 DEF Unsettled, runtime, reaper
  <2> QED
    BY <1>3, <2>1 DEF LedgerBalanced, runtime
<1> QED
  BY <1>7, <1>11, <1>13, <1>14, <1>16, <1>17, <1>18, <1>20, <1>21 DEF CopyInv

Jobs == [task : Tasks, kind : Kinds, at : {"queued", "ran", "reported"}]

(* A worker's job, and its membership in Jobs.                             *)
LEMMA JobTypes ==
  /\ \A x \in Tasks : /\ Job(x, "stolen", "queued") \in Jobs /\ Job(x, "stolen", "ran") \in Jobs
                      /\ Job(x, "stolen", "reported") \in Jobs /\ Job(x, "own", "ran") \in Jobs
                      /\ Job(x, "rerun", "queued") \in Jobs /\ Job(x, "rerun", "ran") \in Jobs
  /\ \A x, k, a : Job(x, k, a).task = x /\ Job(x, k, a).kind = k /\ Job(x, k, a).at = a
BY DEF Job, Jobs, Kinds

(* A step that adds a job of n.                                            *)
LEMMA JobAdded ==
  ASSUME TypeOK, ShapeInv, NEW n \in Nodes, NEW j \in Jobs, j \notin jobs[n],
         jobs' = [jobs EXCEPT ![n] = @ \cup {j}],
         j.kind = "own" => j.at = "ran", j.kind = "rerun" => j.at # "reported"
  PROVE  /\ jobs' \in [Nodes -> SUBSET Jobs]
         /\ \A m \in Nodes : \A i : i \in jobs'[m] <=> i \in jobs[m] \/ (m = n /\ i = j)
         /\ \A m \in Nodes \ {n} : jobs'[m] = jobs[m]
         /\ \A m \in Nodes : IsFiniteSet(jobs'[m])
         /\ \A m \in Nodes : \A i \in jobs'[m] : /\ i.kind = "own" => i.at = "ran"
                                                 /\ i.kind = "rerun" => i.at # "reported"
         /\ Cardinality(jobs'[n]) = Cardinality(jobs[n]) + 1
<1>1. jobs \in [Nodes -> SUBSET Jobs]
  BY DEF TypeOK, Jobs
<1>2. /\ jobs' \in [Nodes -> SUBSET Jobs] /\ jobs'[n] = jobs[n] \cup {j}
      /\ \A m \in Nodes \ {n} : jobs'[m] = jobs[m]
  BY <1>1
<1>3. \A m \in Nodes : IsFiniteSet(jobs[m])
  BY DEF ShapeInv
<1>4. IsFiniteSet(jobs'[n]) /\ Cardinality(jobs'[n]) = Cardinality(jobs[n]) + 1
  BY <1>2, <1>3, FS_AddElement
<1> QED
  BY <1>2, <1>3, <1>4 DEF ShapeInv

(* A step that takes a job of n away.                                      *)
LEMMA JobRemoved ==
  ASSUME TypeOK, ShapeInv, NEW n \in Nodes, NEW j \in jobs[n],
         jobs' = [jobs EXCEPT ![n] = @ \ {j}]
  PROVE  /\ jobs' \in [Nodes -> SUBSET Jobs]
         /\ \A m \in Nodes : \A i : i \in jobs'[m] <=> i \in jobs[m] /\ ~(m = n /\ i = j)
         /\ \A m \in Nodes \ {n} : jobs'[m] = jobs[m]
         /\ \A m \in Nodes : IsFiniteSet(jobs'[m])
         /\ \A m \in Nodes : \A i \in jobs'[m] : /\ i.kind = "own" => i.at = "ran"
                                                 /\ i.kind = "rerun" => i.at # "reported"
         /\ Cardinality(jobs'[n]) = Cardinality(jobs[n]) - 1
<1>1. jobs \in [Nodes -> SUBSET Jobs]
  BY DEF TypeOK, Jobs
<1>2. /\ jobs' \in [Nodes -> SUBSET Jobs] /\ jobs'[n] = jobs[n] \ {j}
      /\ \A m \in Nodes \ {n} : jobs'[m] = jobs[m]
  BY <1>1
<1>3. \A m \in Nodes : IsFiniteSet(jobs[m])
  BY DEF ShapeInv
<1>4. IsFiniteSet(jobs'[n]) /\ Cardinality(jobs'[n]) = Cardinality(jobs[n]) - 1
  BY <1>2, <1>3, FS_RemoveElement
<1> QED
  BY <1>2, <1>3, <1>4 DEF ShapeInv

(* A step that moves a job of n on.                                        *)
LEMMA JobReplaced ==
  ASSUME TypeOK, ShapeInv, NEW n \in Nodes, NEW i \in jobs[n], NEW j \in Jobs, j \notin jobs[n],
         jobs' = [jobs EXCEPT ![n] = (@ \ {i}) \cup {j}],
         j.kind = "own" => j.at = "ran", j.kind = "rerun" => j.at # "reported"
  PROVE  /\ jobs' \in [Nodes -> SUBSET Jobs]
         /\ \A m \in Nodes : \A h : h \in jobs'[m] <=> \/ h \in jobs[m] /\ ~(m = n /\ h = i)
                                                       \/ m = n /\ h = j
         /\ \A m \in Nodes \ {n} : jobs'[m] = jobs[m]
         /\ \A m \in Nodes : IsFiniteSet(jobs'[m])
         /\ \A m \in Nodes : \A h \in jobs'[m] : /\ h.kind = "own" => h.at = "ran"
                                                 /\ h.kind = "rerun" => h.at # "reported"
         /\ Cardinality(jobs'[n]) = Cardinality(jobs[n])
<1>1. jobs \in [Nodes -> SUBSET Jobs]
  BY DEF TypeOK, Jobs
<1>2. /\ jobs' \in [Nodes -> SUBSET Jobs] /\ jobs'[n] = (jobs[n] \ {i}) \cup {j}
      /\ \A m \in Nodes \ {n} : jobs'[m] = jobs[m]
  BY <1>1
<1>3. \A m \in Nodes : IsFiniteSet(jobs[m])
  BY DEF ShapeInv
<1>4. PICK T : T = jobs[n] \ {i}
  OBVIOUS
<1>5. IsFiniteSet(T) /\ Cardinality(T) = Cardinality(jobs[n]) - 1 /\ j \notin T
      /\ Cardinality(jobs[n]) \in Nat
  BY <1>3, <1>4, FS_RemoveElement, FS_CardinalityType
<1>6. IsFiniteSet(T \cup {j}) /\ Cardinality(T \cup {j}) = Cardinality(T) + 1
  BY <1>5, FS_AddElement
<1>7. IsFiniteSet(jobs'[n]) /\ Cardinality(jobs'[n]) = Cardinality(jobs[n])
  BY <1>2, <1>4, <1>5, <1>6
<1> QED
  BY <1>2, <1>3, <1>7 DEF ShapeInv

(* Jobs of stolen tasks are not part of the hand-over.                     *)
LEMMA StolenOnly ==
  ASSUME UNCHANGED <<pool, serve, outstanding, lost, reaped, observed>>,
         \A m \in Nodes : \A x \in Tasks : \A a \in {"queued", "ran", "reported"} :
           /\ Job(x, "own", a) \in jobs'[m] <=> Job(x, "own", a) \in jobs[m]
           /\ Job(x, "rerun", a) \in jobs'[m] <=> Job(x, "rerun", a) \in jobs[m]
  PROVE  /\ \A x \in Tasks : \A t \in Tags : \A k \in Sites(t) : At(x, t, k)' <=> At(x, t, k)
         /\ \A n \in Nodes : InHand(n)' = InHand(n)
         /\ \A x \in Tasks : Reran(x)' <=> Reran(x)
<1>1. ASSUME NEW x \in Tasks, NEW t \in Tags, NEW k \in Sites(t)
      PROVE  At(x, t, k)' <=> At(x, t, k)
  <2>1. CASE t \in {"own", "rerun", "reran"}
    <3>1. k \in Nodes
      BY <2>1 DEF Sites
    <3> QED
      BY <2>1, <3>1 DEF At
  <2>2. CASE t \notin {"own", "rerun", "reran"}
    BY <2>2 DEF At
  <2> QED
    BY <2>1, <2>2
<1>2. \A n \in Nodes : InHand(n)' = InHand(n)
  BY DEF InHand
<1>3. \A x \in Tasks : Reran(x)' <=> Reran(x)
  BY NodeAssumption DEF Reran
<1> QED
  BY <1>1, <1>2, <1>3

(* accept_stolen_task: the copy passes from the response to the workers.   *)
LEMMA AcceptStolenTaskInv ==
  ASSUME IInv, NEW t \in Nodes, NEW y \in Tasks, AcceptStolenTask(t, y)
  PROVE  IInv'
<1> USE DEF IInv
<1>1. PICK j : j = Job(y, "stolen", "queued")
  OBVIOUS
<1>2. /\ steal[t].at = "accept" /\ y \in steal[t].tasks
      /\ submitted' = [submitted EXCEPT ![t] = @ + 1]
      /\ jobs' = [jobs EXCEPT ![t] = @ \cup {j}]
      /\ UNCHANGED <<state, completed, local_executed, pool, started, observed, net, serve,
                     sender, outstanding, reaper, executed>>
  BY <1>1 DEF AcceptStolenTask
<1>3. /\ "steal" \in CopyTags /\ "steal" \in UnrunTags /\ t \in CopySites("steal")
      /\ "queued" \in CopyTags /\ t \in CopySites("queued")
      /\ Copy(y, "steal", t) /\ CopyHome(y, "steal", t) /\ CopyHome(y, "queued", t)
  <2>1. /\ "steal" \in CopyTags /\ "steal" \in UnrunTags /\ t \in CopySites("steal")
        /\ "queued" \in CopyTags /\ t \in CopySites("queued")
    BY DEF CopyTags, UnrunTags, CopySites
  <2>2. Copy(y, "steal", t)
    BY <1>2 DEF Copy
  <2>3. CopyHome(y, "steal", t)
    BY <2>1, <2>2 DEF CopyHomeInv, CopyInv
  <2> QED
    BY <2>1, <2>2, <2>3 DEF CopyHome
<1>4. j \in Jobs /\ j \notin jobs[t] /\ j.kind = "stolen"
  <2>1. ~Copy(y, "queued", t)
    BY <1>3 DEF CopyOnceInv, CopyInv
  <2> QED
    BY <1>1, <2>1, JobTypes DEF Copy
<1>5. /\ jobs' \in [Nodes -> SUBSET Jobs]
      /\ \A m \in Nodes : \A i : i \in jobs'[m] <=> i \in jobs[m] \/ (m = t /\ i = j)
      /\ \A m \in Nodes \ {t} : jobs'[m] = jobs[m]
      /\ \A m \in Nodes : IsFiniteSet(jobs'[m])
      /\ \A m \in Nodes : \A i \in jobs'[m] : /\ i.kind = "own" => i.at = "ran"
                                              /\ i.kind = "rerun" => i.at # "reported"
      /\ Cardinality(jobs'[t]) = Cardinality(jobs[t]) + 1
  BY <1>2, <1>4, JobAdded
<1>6. PICK e \in Steals : /\ steal' = [steal EXCEPT ![t] = e]
                          /\ e.at # "wait" /\ e.tasks = steal[t].tasks \ {y}
  <2>1. PICK r, s : r = steal[t].tasks \ {y} /\ s = steal[t]
    OBVIOUS
  <2>2. PICK f : f = IF r = {} THEN IdleSteal ELSE [s EXCEPT !.tasks = r]
    OBVIOUS
  <2>3. steal' = [steal EXCEPT ![t] = f]
    BY <2>1, <2>2 DEF AcceptStolenTask
  <2>4. s \in [at : {"accept"}, victim : {NoNode}, tasks : (SUBSET Tasks) \ {{}}]
    <3>1. s \in Steals /\ s.at = "accept" /\ IdleSteal.at = "idle"
      BY <1>2, <2>1 DEF TypeOK, Steals, IdleSteal
    <3> QED
      BY <3>1 DEF Steals
  <2>5. r \in SUBSET Tasks
    BY <2>1, <2>4
  <2>6. CASE r = {}
    <3>1. f \in Steals /\ f.at # "wait" /\ f.tasks = r
      BY <2>2, <2>6 DEF Steals, IdleSteal
    <3> QED
      BY <2>1, <2>3, <3>1
  <2>7. CASE r # {}
    <3>1. f \in [at : {"accept"}, victim : {NoNode}, tasks : (SUBSET Tasks) \ {{}}] /\ f.tasks = r
      BY <2>2, <2>4, <2>5, <2>7
    <3>2. f \in Steals /\ f.at # "wait"
      BY <3>1 DEF Steals
    <3> QED
      BY <2>1, <2>3, <3>1, <3>2
  <2> QED
    BY <2>6, <2>7
<1>7. steal' \in [Nodes -> Steals] /\ steal'[t] = e /\ \A u \in Nodes : u # t => steal'[u] = steal[u]
  BY <1>6 DEF TypeOK, Steals
<1>8. /\ submitted' \in [Nodes -> Nat] /\ submitted'[t] = submitted[t] + 1
      /\ \A m \in Nodes \ {t} : submitted'[m] = submitted[m]
  BY <1>2 DEF TypeOK
<1>9. TypeOK'
  BY <1>2, <1>5, <1>7, <1>8 DEF TypeOK, Steals, Jobs, net, sender, reaper
<1>10. \A m \in Nodes : \A x \in Tasks : \A a \in {"queued", "ran", "reported"} :
         /\ Job(x, "own", a) \in jobs'[m] <=> Job(x, "own", a) \in jobs[m]
         /\ Job(x, "rerun", a) \in jobs'[m] <=> Job(x, "rerun", a) \in jobs[m]
  BY <1>4, <1>5, JobTypes
<1>11. /\ \A x \in Tasks : \A u \in Tags : \A k \in Sites(u) : At(x, u, k)' <=> At(x, u, k)
       /\ \A n \in Nodes : InHand(n)' = InHand(n)
       /\ \A x \in Tasks : Reran(x)' <=> Reran(x)
  BY <1>2, <1>10, StolenOnly DEF reaper
<1>12. HeldInv'
  BY <1>2, <1>11, HeldSame DEF reaper
<1>13. ShapeInv'
  <2>1. \A u \in Nodes : steal'[u].at = "wait" =>
          steal'[u].victim # u /\ opened'[<<u, steal'[u].victim>>] > 0
    BY <1>2, <1>6, <1>7 DEF ShapeInv, net
  <2> QED
    BY <1>2, <1>5, <1>11, <2>1 DEF ShapeInv
<1>14. NoticeInv'
  BY <1>2 DEF NoticeInv, Notice, sender
<1>15. CopyMoved({y}, "steal", t, "queued", t, {})
  <2> SUFFICES ASSUME NEW x \in Tasks, NEW u \in CopyTags, NEW k \in CopySites(u), Copy(x, u, k)'
               PROVE  \/ Copy(x, u, k) /\ ~(x = y /\ u = "steal" /\ k = t)
                      \/ x = y /\ u = "queued" /\ k = t
    BY DEF CopyMoved, CopySites
  <2>1. CASE u = "steal"
    <3>1. k \in Nodes /\ x \in steal'[k].tasks
      BY <2>1 DEF CopySites, Copy
    <3> QED
      BY <1>6, <1>7, <2>1, <3>1 DEF Copy
  <2>2. CASE u \in {"queued", "ran", "reported"}
    <3>1. k \in Nodes /\ Job(x, "stolen", u) \in jobs'[k]
      BY <2>2 DEF CopySites, Copy
    <3>2. Job(x, "stolen", u) = j => x = y /\ u = "queued"
      BY <1>1, JobInjective
    <3> QED
      BY <1>5, <2>2, <3>1, <3>2 DEF Copy
  <2>3. CASE u \notin {"steal", "queued", "ran", "reported"}
    BY <1>2, <2>3 DEF Copy, InResp, net
  <2> QED
    BY <2>1, <2>2, <2>3
<1>16. started' = started \cup {} /\ {} \in SUBSET Tasks /\ {} \cap started = {} /\ {y} \in SUBSET Tasks
  BY <1>2
<1>17. \A x \in {y} : Copy(x, "steal", t) /\ CopyHome(x, "queued", t)
  BY <1>3
<1>18. CopyOnceInv' /\ CopyStartedInv' /\ CopyHomeInv'
  BY <1>3, <1>15, <1>16, <1>17, CopyMovedInv DEF CopyInv
<1>19. RespInv'
  BY <1>2 DEF RespInv, CopyInv, net
<1>20. \A x \in Tasks : Unrun(x)' => Unrun(x)
  BY <1>3, <1>15, <1>16, <1>17, UnrunMoved
<1>21. ExecInv'
  BY <1>2, <1>11, <1>20, ExecKept
<1>22. \A x \in Tasks : Claimed(x)' => Claimed(x)
  <2> SUFFICES ASSUME NEW x \in Tasks PROVE Claimed(x)' => Claimed(x)
    OBVIOUS
  <2>1. \A u \in {"ran", "reported"} : \A k \in Nodes : Copy(x, u, k)' => Copy(x, u, k)
    BY <1>15 DEF CopyMoved, CopyTags, CopySites
  <2>2. /\ \A u \in Nodes : Notice(x, u)' => Notice(x, u)
        /\ \A d \in Conns : Posted(x, d)' => Posted(x, d)
    BY <1>2, PostSame DEF sender, net
  <2>3. DoneTags \subseteq Tags
    BY DEF DoneTags, Tags
  <2> QED
    BY <1>11, <2>1, <2>2, <2>3, ClaimedBy, ClaimedStep
<1>23. DoneInv'
  BY <1>2, <1>22, DoneKept
<1>24. LedgerBalanced'
  <2>1. Unsettled(t)' = Unsettled(t) + 1
    BY <1>2, <1>5, <1>11, UnsettledFinite DEF Unsettled, reaper
  <2> QED
    BY <1>2, <1>5, <1>8, <1>11, <2>1, UnsettledFinite, LedgerStep DEF reaper
<1> QED
  BY <1>9, <1>12, <1>13, <1>14, <1>18, <1>19, <1>21, <1>23, <1>24 DEF CopyInv

----------------------------------------------------------------------------
(* The copy at the thief.                                                  *)

(* Copies that go to where they count as run.                              *)
LEMMA UnrunLeft ==
  ASSUME CopyOnceInv, CopyStartedInv, NEW S \in SUBSET Tasks, NEW New \in SUBSET Tasks,
         NEW a \in CopyTags, NEW i \in CopySites(a), NEW b, NEW j, b \notin UnrunTags,
         \A x \in S : Copy(x, a, i), CopyMoved(S, a, i, b, j, New), New \cap started = {}
  PROVE  /\ \A x \in Tasks : Unrun(x)' => Unrun(x) \/ x \in New
         /\ \A x \in S : ~Unrun(x)'
<1>1. UnrunTags \subseteq CopyTags
  BY DEF UnrunTags, CopyTags
<1>2. ASSUME NEW x \in Tasks, Unrun(x)'
      PROVE  x \in New \/ \E t \in UnrunTags : \E k \in CopySites(t) :
                            Copy(x, t, k) /\ ~(x \in S /\ t = a /\ k = i)
  <2>1. PICK t \in UnrunTags : \E k \in CopySites(t) : Copy(x, t, k)'
    BY <1>2 DEF Unrun, CopySites
  <2>2. PICK k \in CopySites(t) : Copy(x, t, k)'
    BY <2>1
  <2> QED
    BY <1>1, <2>2 DEF CopyMoved
<1>3. \A x \in Tasks : Unrun(x)' => Unrun(x) \/ x \in New
  BY <1>2 DEF Unrun
<1>4. ASSUME NEW x \in S, Unrun(x)' PROVE FALSE
  <2>1. x \in started /\ x \notin New
    BY DEF CopyStartedInv
  <2>2. PICK t \in UnrunTags : \E k \in CopySites(t) :
               Copy(x, t, k) /\ ~(x \in S /\ t = a /\ k = i)
    BY <1>2, <1>4, <2>1
  <2> QED
    BY <1>1, <2>2 DEF CopyOnceInv
<1> QED
  BY <1>3, <1>4

(* A stolen job moves on from one phase to the next.                       *)
StolenMove(n, y, a, b) ==
  /\ a # b /\ Job(y, "stolen", a) \in jobs[n]
  /\ jobs' = [jobs EXCEPT ![n] = (@ \ {Job(y, "stolen", a)}) \cup {Job(y, "stolen", b)}]
  /\ UNCHANGED <<state, submitted, completed, local_executed, pool, started, observed, net,
                 serve, steal, batch, outstanding, reaper>>

(* Such a step.                                                            *)
LEMMA StolenStep ==
  ASSUME IInv, NEW n \in Nodes, NEW y \in Tasks,
         NEW a \in {"queued", "ran"}, NEW b \in {"ran", "reported"}, StolenMove(n, y, a, b)
  PROVE  /\ jobs' \in [Nodes -> SUBSET Jobs] /\ ShapeInv' /\ HeldInv' /\ CopyInv' /\ LedgerBalanced'
         /\ Copy(y, a, n) /\ Origin[y] # n /\ y \in started
         /\ \A x \in Tasks : \A t \in Tags : \A k \in Sites(t) : At(x, t, k)' <=> At(x, t, k)
         /\ \A x \in Tasks : Reran(x)' <=> Reran(x)
         /\ \A x \in Tasks : Unrun(x)' => Unrun(x)
         /\ ~Unrun(y)'
         /\ \A x \in Tasks : \A t \in {"ran", "reported"} : \A k \in Nodes :
              Copy(x, t, k)' => Copy(x, t, k) \/ (x = y /\ t = b)
<1> USE DEF IInv, StolenMove
<1>1. PICK i, j : i = Job(y, "stolen", a) /\ j = Job(y, "stolen", b)
  OBVIOUS
<1>2. /\ a \in CopyTags /\ n \in CopySites(a) /\ b \in CopyTags /\ n \in CopySites(b)
      /\ b \notin UnrunTags
  BY DEF CopyTags, UnrunTags, CopySites
<1>3. Copy(y, a, n)
  BY DEF Copy
<1>4. Origin[y] # n /\ CopyHome(y, b, n) /\ y \in started
  <2>1. CopyHome(y, a, n) /\ y \in started
    BY <1>2, <1>3 DEF CopyHomeInv, CopyStartedInv, CopyInv
  <2> QED
    BY <2>1 DEF CopyHome
<1>5. i \in jobs[n] /\ j \in Jobs /\ j \notin jobs[n] /\ i.kind = "stolen" /\ j.kind = "stolen"
  <2>1. ~Copy(y, b, n)
    BY <1>2, <1>3 DEF CopyOnceInv, CopyInv
  <2> QED
    BY <1>1, <2>1, JobTypes DEF Copy
<1>6. /\ jobs' \in [Nodes -> SUBSET Jobs]
      /\ \A m \in Nodes : \A h : h \in jobs'[m] <=> \/ h \in jobs[m] /\ ~(m = n /\ h = i)
                                                    \/ m = n /\ h = j
      /\ \A m \in Nodes \ {n} : jobs'[m] = jobs[m]
      /\ \A m \in Nodes : IsFiniteSet(jobs'[m])
      /\ \A m \in Nodes : \A h \in jobs'[m] : /\ h.kind = "own" => h.at = "ran"
                                              /\ h.kind = "rerun" => h.at # "reported"
      /\ Cardinality(jobs'[n]) = Cardinality(jobs[n])
  BY <1>1, <1>5, JobReplaced
<1>7. \A m \in Nodes : \A x \in Tasks : \A p \in {"queued", "ran", "reported"} :
        /\ Job(x, "own", p) \in jobs'[m] <=> Job(x, "own", p) \in jobs[m]
        /\ Job(x, "rerun", p) \in jobs'[m] <=> Job(x, "rerun", p) \in jobs[m]
  BY <1>5, <1>6, JobTypes
<1>8. /\ \A x \in Tasks : \A u \in Tags : \A k \in Sites(u) : At(x, u, k)' <=> At(x, u, k)
      /\ \A m \in Nodes : InHand(m)' = InHand(m)
      /\ \A x \in Tasks : Reran(x)' <=> Reran(x)
  BY <1>7, StolenOnly DEF reaper
<1>9. HeldInv'
  BY <1>8, HeldSame DEF reaper
<1>10. ShapeInv'
  BY <1>6, <1>8 DEF ShapeInv, net
<1>11. CopyMoved({y}, a, n, b, n, {})
  <2> SUFFICES ASSUME NEW x \in Tasks, NEW u \in CopyTags, NEW k \in CopySites(u), Copy(x, u, k)'
               PROVE  \/ Copy(x, u, k) /\ ~(x = y /\ u = a /\ k = n)
                      \/ x = y /\ u = b /\ k = n
    BY DEF CopyMoved, CopySites
  <2>1. CASE u \in {"queued", "ran", "reported"}
    <3>1. k \in Nodes /\ Job(x, "stolen", u) \in jobs'[k]
      BY <2>1 DEF CopySites, Copy
    <3>2. /\ Job(x, "stolen", u) = j => x = y /\ u = b
          /\ x = y /\ u = a => Job(x, "stolen", u) = i
      BY <1>1, JobInjective
    <3> QED
      BY <1>6, <2>1, <3>1, <3>2 DEF Copy
  <2>2. CASE u \notin {"queued", "ran", "reported"}
    BY <2>2 DEF Copy, InResp, net
  <2> QED
    BY <2>1, <2>2
<1>12. started' = started \cup {} /\ {} \in SUBSET Tasks /\ {} \cap started = {} /\ {y} \in SUBSET Tasks
  OBVIOUS
<1>13. \A x \in {y} : Copy(x, a, n) /\ CopyHome(x, b, n)
  BY <1>3, <1>4
<1>14. CopyOnceInv' /\ CopyStartedInv' /\ CopyHomeInv'
  BY <1>2, <1>11, <1>12, <1>13, CopyMovedInv DEF CopyInv
<1>15. RespInv'
  BY DEF RespInv, CopyInv, net
<1>16. (\A x \in Tasks : Unrun(x)' => Unrun(x)) /\ ~Unrun(y)'
  <2>1. PICK S \in SUBSET Tasks, New \in SUBSET Tasks : S = {y} /\ New = {}
    OBVIOUS
  <2>2. /\ \A x \in S : Copy(x, a, n)
        /\ CopyMoved(S, a, n, b, n, New) /\ New \cap started = {}
    BY <1>11, <1>13, <2>1
  <2>3. /\ \A x \in Tasks : Unrun(x)' => Unrun(x) \/ x \in New
        /\ \A x \in S : ~Unrun(x)'
    BY <1>2, <2>2, UnrunLeft DEF CopyInv
  <2> QED
    BY <2>1, <2>3
<1>17. LedgerBalanced'
  <2>1. Unsettled(n)' = Unsettled(n)
    BY <1>6, <1>8 DEF Unsettled, reaper
  <2> QED
    BY <1>6, <1>8, <2>1, LedgerStep DEF reaper
<1>18. \A x \in Tasks : \A t \in {"ran", "reported"} : \A k \in Nodes :
         Copy(x, t, k)' => Copy(x, t, k) \/ (x = y /\ t = b)
  BY <1>11 DEF CopyMoved, CopyTags, CopySites
<1> QED
  BY <1>3, <1>4, <1>6, <1>8, <1>9, <1>10, <1>14, <1>15, <1>16, <1>17, <1>18 DEF CopyInv

(* A worker of the thief runs the stolen closure.                          *)
LEMMA RunStolenInv ==
  ASSUME IInv, NEW n \in Nodes, NEW y \in Tasks, RunClosure(n, y, "stolen")
  PROVE  IInv'
<1> USE DEF IInv
<1>1. /\ Job(y, "stolen", "queued") \in jobs[n]
      /\ jobs' = [jobs EXCEPT ![n] = (@ \ {Job(y, "stolen", "queued")})
                                     \cup {Job(y, "stolen", "ran")}]
      /\ RunHandler(n, y)
      /\ UNCHANGED <<state, submitted, completed, local_executed, pool, started, observed, net,
                     serve, steal, sender, outstanding, reaper>>
  BY DEF RunClosure
<1>2. UNCHANGED <<completions, batch>>
  BY <1>1 DEF sender
<1>3. PICK a \in {"queued", "ran"}, b \in {"ran", "reported"} : a = "queued" /\ b = "ran"
  OBVIOUS
<1>4. /\ jobs' \in [Nodes -> SUBSET Jobs] /\ ShapeInv' /\ HeldInv' /\ CopyInv' /\ LedgerBalanced'
      /\ Copy(y, a, n) /\ y \in started
      /\ \A x \in Tasks : \A t \in Tags : \A k \in Sites(t) : At(x, t, k)' <=> At(x, t, k)
      /\ \A x \in Tasks : Reran(x)' <=> Reran(x)
      /\ \A x \in Tasks : Unrun(x)' => Unrun(x)
      /\ ~Unrun(y)'
      /\ \A x \in Tasks : \A t \in {"ran", "reported"} : \A k \in Nodes :
           Copy(x, t, k)' => Copy(x, t, k) \/ (x = y /\ t = b)
  <2>1. StolenMove(n, y, a, b)
    BY <1>1, <1>2, <1>3 DEF StolenMove
  <2> QED
    BY <2>1, StolenStep
<1>5. TypeOK'
  BY <1>1, <1>4, HandlerRuns DEF TypeOK, Jobs, net, sender, reaper
<1>6. NoticeInv'
  BY <1>2 DEF NoticeInv, Notice
<1>7. Unrun(y)
  BY <1>3, <1>4 DEF Unrun, UnrunTags, CopySites
<1>8. ExecInv'
  BY <1>1, <1>4, <1>7, ExecCopy
<1>9. \A x \in Tasks : Claimed(x)' => Claimed(x) \/ x = y
  <2> SUFFICES ASSUME NEW x \in Tasks, x # y PROVE Claimed(x)' => Claimed(x)
    OBVIOUS
  <2>1. /\ \A u \in Nodes : Notice(x, u)' => Notice(x, u)
        /\ \A d \in Conns : Posted(x, d)' => Posted(x, d)
    BY <1>1, PostSame DEF sender, net
  <2>2. DoneTags \subseteq Tags
    BY DEF DoneTags, Tags
  <2> QED
    BY <1>4, <2>1, <2>2, ClaimedBy, ClaimedStep
<1>10. DoneInv'
  BY <1>1, <1>9, HandlerRuns, DoneKept
<1> QED
  BY <1>4, <1>5, <1>6, <1>8, <1>10

(* The closure's last step, enqueue_completion.                            *)
LEMMA EnqueueCompletionInv ==
  ASSUME IInv, NEW n \in Nodes, NEW y \in Tasks, EnqueueCompletion(n, y)
  PROVE  IInv'
<1> USE DEF IInv
<1>1. /\ Job(y, "stolen", "ran") \in jobs[n]
      /\ jobs' = [jobs EXCEPT ![n] = (@ \ {Job(y, "stolen", "ran")})
                                     \cup {Job(y, "stolen", "reported")}]
      /\ completions' = completions \/ completions' = [completions EXCEPT ![n] = Append(completions[n], y)]
      /\ UNCHANGED <<state, submitted, completed, local_executed, pool, started, observed, net,
                     serve, steal, batch, outstanding, reaper, executed>>
  BY DEF EnqueueCompletion
<1>2. PICK a \in {"queued", "ran"}, b \in {"ran", "reported"} : a = "ran" /\ b = "reported"
  OBVIOUS
<1>3. /\ jobs' \in [Nodes -> SUBSET Jobs] /\ ShapeInv' /\ HeldInv' /\ CopyInv' /\ LedgerBalanced'
      /\ Copy(y, a, n) /\ Origin[y] # n
      /\ \A x \in Tasks : \A t \in Tags : \A k \in Sites(t) : At(x, t, k)' <=> At(x, t, k)
      /\ \A x \in Tasks : Reran(x)' <=> Reran(x)
      /\ \A x \in Tasks : Unrun(x)' => Unrun(x)
      /\ \A x \in Tasks : \A t \in {"ran", "reported"} : \A k \in Nodes :
           Copy(x, t, k)' => Copy(x, t, k) \/ (x = y /\ t = b)
  <2>1. StolenMove(n, y, a, b)
    BY <1>1, <1>2 DEF StolenMove
  <2> QED
    BY <2>1, StolenStep
<1>4. PICK s : s = completions[n]
  OBVIOUS
<1>5. s \in Seq(Tasks) /\ completions \in [Nodes -> Seq(Tasks)]
  BY <1>4 DEF TypeOK
<1>6. /\ Append(s, y) \in Seq(Tasks) /\ Len(s) \in Nat /\ Len(Append(s, y)) = Len(s) + 1
      /\ Append(s, y)[Len(s) + 1] = y
      /\ \A m \in 1 .. Len(s) : Append(s, y)[m] = s[m]
  BY <1>5, AppendFacts
<1>7. /\ completions' \in [Nodes -> Seq(Tasks)] /\ completions'[n] \in {s, Append(s, y)}
      /\ \A u \in Nodes : u # n => completions'[u] = completions[u]
  BY <1>1, <1>4, <1>5, <1>6
<1>8. TypeOK'
  BY <1>1, <1>3, <1>7 DEF TypeOK, Jobs, net, reaper
<1>9. ASSUME NEW x \in Tasks, NEW u \in Nodes, Notice(x, u)'
      PROVE  Notice(x, u) \/ (x = y /\ u = n)
  <2>1. CASE \E m \in 1 .. Len(completions'[u]) : completions'[u][m] = x
    <3>1. PICK m \in 1 .. Len(completions'[u]) : completions'[u][m] = x
      BY <2>1
    <3>2. CASE u = n
      <4>1. CASE completions'[n] = s
        BY <1>4, <3>1, <3>2, <4>1 DEF Notice
      <4>2. CASE completions'[n] = Append(s, y)
        <5>1. m \in 1 .. Len(s) \/ m = Len(s) + 1
          BY <1>6, <3>1, <3>2, <4>2
        <5> QED
          BY <1>4, <1>6, <3>1, <3>2, <4>2, <5>1 DEF Notice
      <4> QED
        BY <1>7, <4>1, <4>2
    <3>3. CASE u # n
      BY <1>7, <3>1, <3>3 DEF Notice
    <3> QED
      BY <3>2, <3>3
  <2>2. CASE \E m \in 1 .. Len(batch'[u]) : batch'[u][m] = x
    BY <1>1, <2>2 DEF Notice
  <2> QED
    BY <1>9, <2>1, <2>2 DEF Notice
<1>10. NoticeInv'
  BY <1>3, <1>9 DEF NoticeInv
<1>11. ExecInv'
  BY <1>1, <1>3, ExecKept
<1>12. \A x \in Tasks : Claimed(x)' => Claimed(x)
  <2> SUFFICES ASSUME NEW x \in Tasks PROVE Claimed(x)' => Claimed(x)
    OBVIOUS
  <2>1. Claimed(y)
    BY <1>2, <1>3, ClaimedBy
  <2>2. \A d \in Conns : Posted(x, d)' => Posted(x, d)
    BY <1>1 DEF Posted, net
  <2>3. DoneTags \subseteq Tags
    BY DEF DoneTags, Tags
  <2> QED
    BY <1>3, <1>9, <2>1, <2>2, <2>3, ClaimedBy, ClaimedStep
<1>13. DoneInv'
  BY <1>1, <1>12, DoneKept
<1> QED
  BY <1>3, <1>8, <1>10, <1>11, <1>13

----------------------------------------------------------------------------
(* Tools for the steps at home.                                            *)

(* The whole of HeldInv, after a step that moves the submissions S, submits*)
(* New, and may give up on tasks of S.                                     *)
LEMMA HeldMoved ==
  ASSUME HeldInv,
         NEW S \in SUBSET Tasks, NEW New \in SUBSET Tasks,
         NEW a \in Tags, NEW i \in Sites(a), NEW b \in Tags, NEW j \in Sites(b),
         \A x \in S : At(x, a, i), Home(a, i) = Home(b, j),
         New \cap started = {}, started' = started \cup New,
         Moved(S, a, i, b, j, New),
         AdvancesOnce',
         \A x \in Tasks : observed[x] # 0 => observed'[x] # 0,
         \A x \in Tasks : Stage[x] # NoTask =>
           (Stage[x] \in New <=> observed[x] = 0 /\ observed'[x] # 0),
         reaped \subseteq reaped', reaped' \subseteq reaped \cup S,
         b \in {"lost", "rerun", "reran"} => S \subseteq reaped',
         b \in {"pool", "own", "take", "out", "finish"} => S \cap reaped' = {}
  PROVE  HeldInv'
<1> USE DEF HeldInv
<1>1. OnceInv' /\ StartedInv' /\ HomeInv'
  BY MovedInv
<1>2. \A x \in S : x \in started
  BY DEF StartedInv
<1>3. ReapedInv'
  <2>1. reaped' \subseteq started'
    BY <1>2 DEF ReapedInv
  <2> SUFFICES ASSUME NEW x \in Tasks, NEW t \in Tags, NEW k \in Sites(t), At(x, t, k)'
               PROVE  /\ t \in {"lost", "rerun", "reran"} => x \in reaped'
                      /\ t \in {"pool", "own", "take", "out", "finish"} => x \notin reaped'
    BY <2>1 DEF ReapedInv, Sites
  <2>2. CASE x \in S
    <3>1. x \notin New
      BY <1>2, <2>2
    <3>2. \/ t = b /\ k = j
          \/ At(x, t, k) /\ ~(t = a /\ k = i)
      BY <2>2, <3>1 DEF Moved
    <3>3. t = b
      BY <2>2, <3>2 DEF OnceInv
    <3> QED
      BY <2>2, <3>3
  <2>3. CASE x \notin S /\ At(x, t, k)
    BY <2>3 DEF ReapedInv
  <2>4. CASE x \notin S /\ ~At(x, t, k)
    <3>1. x \in New /\ t = "pool"
      BY <2>4 DEF Moved
    <3> QED
      BY <2>4, <3>1 DEF ReapedInv
  <2> QED
    BY <2>2, <2>3, <2>4
<1>4. ChainInv'
  <2> SUFFICES ASSUME NEW x \in Tasks, Stage[x] # NoTask
               PROVE  Stage[x] \in started' <=> observed'[x] # 0
    BY DEF ChainInv
  <2> QED
    BY DEF ChainInv
<1> QED
  BY <1>1, <1>3, <1>4

(* A step that moves no copy, except by submitting New or losing some.     *)
LEMMA CopiesLeft ==
  ASSUME CopyInv, UNCHANGED resp, NEW New \in SUBSET Tasks,
         New \cap started = {}, started' = started \cup New,
         \A x \in Tasks : \A t \in CopyTags : \A k \in CopySites(t) :
           Copy(x, t, k)' => Copy(x, t, k) \/ (x \in New /\ t = "pool" /\ k = Origin[x])
  PROVE  CopyInv' /\ \A x \in Tasks : Unrun(x)' => Unrun(x) \/ x \notin started
<1>1. CopyOnceInv' /\ CopyStartedInv' /\ CopyHomeInv'
  BY CopyLostInv DEF CopyInv
<1>2. RespInv'
  BY DEF RespInv, CopyInv
<1>3. ASSUME NEW x \in Tasks, Unrun(x)' PROVE Unrun(x) \/ x \notin started
  <2>1. PICK t \in UnrunTags : \E k \in CopySites(t) : Copy(x, t, k)'
    BY <1>3 DEF Unrun, CopySites
  <2>2. PICK k \in CopySites(t) : Copy(x, t, k)'
    BY <2>1
  <2>3. Copy(x, t, k) \/ x \in New
    BY <2>2 DEF UnrunTags, CopyTags
  <2> QED
    BY <2>3 DEF Unrun
<1> QED
  BY <1>1, <1>2, <1>3 DEF CopyInv

(* Tasks put into the pool.                                                *)
PoolsNew(n, New) ==
  /\ New \in SUBSET Tasks /\ New \cap pool[n] = {}
  /\ pool' = [pool EXCEPT ![n] = @ \cup New]

(* Such a step.                                                            *)
LEMMA PoolAdded ==
  ASSUME TypeOK, NEW n \in Nodes, NEW New, PoolsNew(n, New)
  PROVE  /\ pool' \in [Nodes -> SUBSET Tasks]
         /\ \A m \in Nodes : \A x : x \in pool'[m] <=> x \in pool[m] \/ (m = n /\ x \in New)
         /\ \A m \in Nodes \ {n} : pool'[m] = pool[m]
         /\ Cardinality(New) \in Nat
         /\ Cardinality(pool'[n]) = Cardinality(pool[n]) + Cardinality(New)
<1> USE DEF PoolsNew
<1>1. /\ pool' \in [Nodes -> SUBSET Tasks] /\ pool'[n] = pool[n] \cup New
      /\ \A m \in Nodes \ {n} : pool'[m] = pool[m]
  BY DEF TypeOK
<1>2. pool[n] \in SUBSET Tasks
  BY DEF TypeOK
<1>3. IsFiniteSet(pool[n]) /\ IsFiniteSet(New)
  BY <1>2, NodeAssumption, FS_Subset
<1>4. Cardinality(pool[n] \cup New) = Cardinality(pool[n]) + Cardinality(New) - Cardinality(pool[n] \cap New)
  BY <1>3, FS_Union
<1>5. pool[n] \cap New = {} /\ Cardinality({}) = 0
  BY FS_EmptySet
<1>6. Cardinality(New) \in Nat /\ Cardinality(pool[n]) \in Nat
  BY <1>3, FS_CardinalityType
<1>7. Cardinality(pool[n] \cap New) = 0
  BY <1>5
<1>8. Cardinality(pool'[n]) = Cardinality(pool[n]) + Cardinality(New)
  BY <1>1, <1>4, <1>6, <1>7
<1>9. \A m \in Nodes : \A x : x \in pool'[m] <=> x \in pool[m] \/ (m = n /\ x \in New)
  BY <1>1
<1> QED
  BY <1>1, <1>6, <1>8, <1>9

(* A task taken out of the pool.                                           *)
LEMMA PoolRemoved ==
  ASSUME TypeOK, NEW n \in Nodes, NEW y \in pool[n], pool' = [pool EXCEPT ![n] = @ \ {y}]
  PROVE  /\ pool' \in [Nodes -> SUBSET Tasks]
         /\ \A m \in Nodes : \A x : x \in pool'[m] <=> x \in pool[m] /\ ~(m = n /\ x = y)
         /\ \A m \in Nodes \ {n} : pool'[m] = pool[m]
         /\ Cardinality(pool[n]) \in Nat /\ Cardinality(pool'[n]) = Cardinality(pool[n]) - 1
<1>1. /\ pool' \in [Nodes -> SUBSET Tasks] /\ pool'[n] = pool[n] \ {y}
      /\ \A m \in Nodes \ {n} : pool'[m] = pool[m]
  BY DEF TypeOK
<1>2. pool[n] \in SUBSET Tasks
  BY DEF TypeOK
<1>3. IsFiniteSet(pool[n])
  BY <1>2, NodeAssumption, FS_Subset
<1>4. Cardinality(pool[n]) \in Nat /\ Cardinality(pool'[n]) = Cardinality(pool[n]) - 1
  BY <1>1, <1>3, FS_RemoveElement, FS_CardinalityType
<1> QED
  BY <1>1, <1>4

(* finish_one without the observer: only the ledger moves.                 *)
LEMMA FinishUnseen ==
  ASSUME TypeOK, NEW n \in Nodes, ObserveAndFinish(n, NoTask)
  PROVE  /\ UNCHANGED <<observed, submitted, pool, started>>
         /\ completed' \in [Nodes -> Nat] /\ completed'[n] = completed[n] + 1
         /\ \A m \in Nodes \ {n} : completed'[m] = completed[m]
<1>1. PICK N : N = {}
  OBVIOUS
<1>2. /\ observed' = [y \in Tasks |-> observed[y] + IF y = NoTask THEN 1 ELSE 0]
      /\ submitted' = [submitted EXCEPT ![n] = @ + Cardinality(N)]
      /\ pool' = [pool EXCEPT ![n] = @ \cup N]
      /\ started' = started \cup N
      /\ completed' = [completed EXCEPT ![n] = @ + 1]
  BY <1>1 DEF ObserveAndFinish
<1>3. Cardinality(N) = 0
  BY <1>1, FS_EmptySet
<1>4. observed' = observed
  BY <1>2, NodeAssumption DEF TypeOK
<1>5. submitted' = submitted
  BY <1>2, <1>3 DEF TypeOK
<1>6. pool' = pool /\ started' = started
  BY <1>1, <1>2 DEF TypeOK
<1> QED
  BY <1>2, <1>4, <1>5, <1>6 DEF TypeOK

(* The observer sees y, submits the stages New after it, q in number, and  *)
(* the ledger counts y.                                                    *)
Finishes(n, y, New, q) ==
  /\ New \in SUBSET Tasks /\ New \cap started = {} /\ started' = started \cup New
  /\ \A x \in New : Origin[x] = n
  /\ pool' \in [Nodes -> SUBSET Tasks]
  /\ \A m \in Nodes : \A x : x \in pool'[m] <=> x \in pool[m] \/ (m = n /\ x \in New)
  /\ \A m \in Nodes \ {n} : pool'[m] = pool[m]
  /\ q \in Nat /\ Cardinality(pool'[n]) = Cardinality(pool[n]) + q
  /\ submitted' \in [Nodes -> Nat] /\ submitted'[n] = submitted[n] + q
  /\ \A m \in Nodes \ {n} : submitted'[m] = submitted[m]
  /\ completed' \in [Nodes -> Nat] /\ completed'[n] = completed[n] + 1
  /\ \A m \in Nodes \ {n} : completed'[m] = completed[m]
  /\ observed' \in [Tasks -> Nat] /\ observed'[y] # 0
  /\ \A x \in Tasks : x # y => observed'[x] = observed[x]
  /\ AdvancesOnce'
  /\ \A x \in Tasks : observed[x] # 0 => observed'[x] # 0
  /\ \A x \in Tasks : Stage[x] # NoTask => (Stage[x] \in New <=> observed[x] = 0 /\ observed'[x] # 0)

(* What ObserveAndFinish does for a task the observer has not seen.        *)
LEMMA FinishSeen ==
  ASSUME TypeOK, ChainInv, StartedInv, NEW y \in Tasks, NEW n \in Nodes, n = Origin[y],
         observed[y] = 0, ObserveAndFinish(n, y)
  PROVE  \E New, q : Finishes(n, y, New, q)
<1>1. PICK New : New = IF Stage[y] = NoTask THEN {} ELSE {Stage[y]}
  OBVIOUS
<1>2. PICK q : q = Cardinality(New)
  OBVIOUS
<1>3. /\ observed' = [x \in Tasks |-> observed[x] + IF x = y THEN 1 ELSE 0]
      /\ submitted' = [submitted EXCEPT ![n] = @ + q]
      /\ pool' = [pool EXCEPT ![n] = @ \cup New]
      /\ started' = started \cup New
      /\ completed' = [completed EXCEPT ![n] = @ + 1]
  <2>1. y # NoTask
    BY NodeAssumption
  <2> QED
    BY <1>1, <1>2, <2>1 DEF ObserveAndFinish
<1>4. New \in SUBSET Tasks /\ New \cap started = {}
  BY <1>1, NodeAssumption DEF ChainInv
<1>5. \A x \in New : Origin[x] = n
  BY <1>1, NodeAssumption
<1>6. New \cap pool[n] = {}
  <2>1. \A x \in Tasks : x \in pool[n] => x \in started
    BY DEF StartedInv, Tags, Sites, At
  <2> QED
    BY <1>4, <2>1
<1>7. /\ pool' \in [Nodes -> SUBSET Tasks]
      /\ \A m \in Nodes : \A x : x \in pool'[m] <=> x \in pool[m] \/ (m = n /\ x \in New)
      /\ \A m \in Nodes \ {n} : pool'[m] = pool[m]
      /\ q \in Nat
      /\ Cardinality(pool'[n]) = Cardinality(pool[n]) + q
  <2>1. PoolsNew(n, New)
    BY <1>3, <1>4, <1>6 DEF PoolsNew
  <2> QED
    BY <1>2, <2>1, PoolAdded
<1>8. /\ submitted' \in [Nodes -> Nat] /\ submitted'[n] = submitted[n] + q
      /\ \A m \in Nodes \ {n} : submitted'[m] = submitted[m]
  BY <1>3, <1>7 DEF TypeOK
<1>9. /\ completed' \in [Nodes -> Nat] /\ completed'[n] = completed[n] + 1
      /\ \A m \in Nodes \ {n} : completed'[m] = completed[m]
  BY <1>3 DEF TypeOK
<1>10. /\ observed' \in [Tasks -> Nat] /\ observed'[y] = 1
       /\ \A x \in Tasks : x # y => observed'[x] = observed[x]
  BY <1>3 DEF TypeOK
<1>11. AdvancesOnce'
  BY <1>10 DEF AdvancesOnce, ChainInv
<1>12. \A x \in Tasks : Stage[x] # NoTask => (Stage[x] \in New <=> x = y)
  BY <1>1, NodeAssumption
<1>13. \A x \in Tasks : Stage[x] # NoTask => (Stage[x] \in New <=> observed[x] = 0 /\ observed'[x] # 0)
  BY <1>10, <1>12
<1>14. Finishes(n, y, New, q)
  BY <1>3, <1>4, <1>5, <1>7, <1>8, <1>9, <1>10, <1>11, <1>13 DEF Finishes
<1> QED
  BY <1>14

(* submit_portable: a task enters the pool of its origin.                  *)
LEMMA SubmitPortableInv ==
  ASSUME IInv, NEW n \in Nodes, NEW y \in Tasks, SubmitPortable(n, y)
  PROVE  IInv'
<1> USE DEF IInv
<1>1. PICK New \in SUBSET Tasks : New = {y}
  OBVIOUS
<1>2. /\ Origin[y] = n /\ y \in Roots /\ y \notin started
      /\ submitted' = [submitted EXCEPT ![n] = @ + 1]
      /\ pool' = [pool EXCEPT ![n] = @ \cup New]
      /\ started' = started \cup New
      /\ UNCHANGED <<state, completed, local_executed, jobs, observed, net, serve, steal,
                     sender, outstanding, reaper, executed>>
  BY <1>1 DEF SubmitPortable
<1>3. New \cap started = {} /\ New \cap pool[n] = {}
  <2>1. \A x \in Tasks : x \in pool[n] => x \in started
    BY DEF HeldInv, StartedInv, Tags, Sites, At
  <2> QED
    BY <1>1, <1>2, <2>1
<1>4. Cardinality(New) = 1
  BY <1>1, FS_Singleton
<1>5. /\ pool' \in [Nodes -> SUBSET Tasks]
      /\ \A m \in Nodes : \A x : x \in pool'[m] <=> x \in pool[m] \/ (m = n /\ x \in New)
      /\ \A m \in Nodes \ {n} : pool'[m] = pool[m]
      /\ Cardinality(pool'[n]) = Cardinality(pool[n]) + 1
  <2>1. PoolsNew(n, New)
    BY <1>2, <1>3 DEF PoolsNew
  <2> QED
    BY <1>4, <2>1, PoolAdded
<1>6. /\ submitted' \in [Nodes -> Nat] /\ submitted'[n] = submitted[n] + 1
      /\ \A m \in Nodes \ {n} : submitted'[m] = submitted[m]
  BY <1>2 DEF TypeOK
<1>7. TypeOK'
  BY <1>1, <1>2, <1>5, <1>6 DEF TypeOK, net, sender, reaper
<1>8. \A m \in Nodes : InHand(m)' = InHand(m)
  BY <1>2 DEF InHand
<1>9. ShapeInv'
  BY <1>2, <1>8 DEF ShapeInv, net
<1>10. NoticeInv'
  BY <1>2 DEF NoticeInv, Notice, sender
<1>11. \A x \in Tasks : \A t \in Tags : \A k \in Sites(t) :
         At(x, t, k)' <=> At(x, t, k) \/ (x \in New /\ t = "pool" /\ k = Origin[x])
  <2> SUFFICES ASSUME NEW x \in Tasks, NEW t \in Tags, NEW k \in Sites(t)
               PROVE  At(x, t, k)' <=> At(x, t, k) \/ (x \in New /\ t = "pool" /\ k = Origin[x])
    OBVIOUS
  <2>1. CASE t = "pool"
    <3>1. k \in Nodes
      BY <2>1 DEF Sites
    <3>2. (At(x, t, k)' <=> x \in pool'[k]) /\ (At(x, t, k) <=> x \in pool[k])
      BY <2>1 DEF At
    <3> QED
      BY <1>1, <1>2, <1>5, <2>1, <3>1, <3>2
  <2>2. CASE t # "pool"
    BY <1>2, <2>2 DEF At, reaper
  <2> QED
    BY <2>1, <2>2
<1>12. HeldInv'
  <2>1. PICK S \in SUBSET Tasks : S = {}
    OBVIOUS
  <2>2. "pool" \in Tags /\ n \in Sites("pool")
    BY DEF Tags, Sites
  <2>3. Moved(S, "pool", n, "pool", n, New)
    BY <1>11, <2>1 DEF Moved
  <2>4. AdvancesOnce'
    BY <1>2 DEF AdvancesOnce, HeldInv, ChainInv
  <2>5. \A x \in Tasks : Stage[x] # NoTask => Stage[x] \notin New
    BY <1>1, <1>2, NodeAssumption
  <2>6. reaped \subseteq reaped' /\ reaped' \subseteq reaped \cup S
    BY <1>2 DEF reaper
  <2>7. UNCHANGED observed
    BY <1>2
  <2> QED
    BY <1>2, <1>3, <2>1, <2>2, <2>3, <2>4, <2>5, <2>6, <2>7, HeldMoved
<1>13. \A x \in Tasks : \A t \in CopyTags : \A k \in CopySites(t) :
         Copy(x, t, k)' => Copy(x, t, k) \/ (x \in New /\ t = "pool" /\ k = Origin[x])
  <2> SUFFICES ASSUME NEW x \in Tasks, NEW t \in CopyTags, NEW k \in CopySites(t), Copy(x, t, k)'
               PROVE  Copy(x, t, k) \/ (x \in New /\ t = "pool" /\ k = Origin[x])
    OBVIOUS
  <2>1. CASE t = "pool"
    <3>1. k \in Nodes /\ x \in pool'[k]
      BY <2>1 DEF CopySites, Copy
    <3> QED
      BY <1>1, <1>2, <1>5, <2>1, <3>1 DEF Copy
  <2>2. CASE t # "pool"
    BY <1>2, <2>2 DEF Copy, InResp, net
  <2> QED
    BY <2>1, <2>2
<1>14. CopyInv' /\ \A x \in Tasks : Unrun(x)' => Unrun(x) \/ x \notin started
  BY <1>2, <1>3, <1>13, CopiesLeft DEF net
<1>15. ExecInv'
  BY <1>2, <1>14, RerunSame, ExecKept DEF reaper
<1>16. \A x \in Tasks : Claimed(x)' => Claimed(x)
  <2> SUFFICES ASSUME NEW x \in Tasks PROVE Claimed(x)' => Claimed(x)
    OBVIOUS
  <2>1. \A u \in {"ran", "reported"} : \A k \in Nodes : Copy(x, u, k)' => Copy(x, u, k)
    BY <1>2 DEF Copy
  <2>2. /\ \A u \in Nodes : Notice(x, u)' => Notice(x, u)
        /\ \A d \in Conns : Posted(x, d)' => Posted(x, d)
    BY <1>2, PostSame DEF sender, net
  <2>3. \A t \in DoneTags : \A k \in Sites(t) : At(x, t, k)' => At(x, t, k)
    BY <1>11 DEF DoneTags, Tags
  <2> QED
    BY <2>1, <2>2, <2>3, ClaimedBy, ClaimedStep
<1>17. DoneInv'
  BY <1>2, <1>16, DoneKept
<1>18. LedgerBalanced'
  <2>1. Unsettled(n)' = Unsettled(n) + 1
    BY <1>2, <1>5, <1>8, UnsettledFinite DEF Unsettled, reaper
  <2> QED
    BY <1>2, <1>5, <1>6, <1>8, <2>1, UnsettledFinite, LedgerStep DEF reaper
<1> QED
  BY <1>7, <1>9, <1>10, <1>12, <1>14, <1>15, <1>17, <1>18

----------------------------------------------------------------------------
(* The ledger counts a task.                                               *)

(* The observed task y leaves point a of site i, and nothing else moves.   *)
Leaves(y, a, i) ==
  \A x \in Tasks : \A t \in Tags \ {"pool", "seen"} : \A k \in Sites(t) :
    At(x, t, k)' <=> At(x, t, k) /\ ~(x = y /\ t = a /\ k = i)

(* What is common to on_task_complete and on_remote_task_complete.         *)
LEMMA SeenInv ==
  ASSUME IInv, NEW n \in Nodes, NEW y \in Tasks, NEW New, NEW q, Finishes(n, y, New, q),
         NEW a \in {"own", "reran", "finish"}, NEW i \in Sites(a), At(y, a, i), Leaves(y, a, i),
         UNCHANGED <<net, sender, outstanding, reaper, executed, steal>>,
         \A x \in Tasks : Reran(x) <=> Reran(x)',
         \A x \in Tasks : \A t \in CopyTags \ {"pool"} : \A k \in CopySites(t) :
           Copy(x, t, k)' => Copy(x, t, k)
  PROVE  NoticeInv' /\ HeldInv' /\ CopyInv' /\ ExecInv' /\ DoneInv'
<1> USE DEF IInv
<1>1. /\ New \in SUBSET Tasks /\ New \cap started = {} /\ started' = started \cup New
      /\ \A x \in New : Origin[x] = n
      /\ \A m \in Nodes : \A x : x \in pool'[m] <=> x \in pool[m] \/ (m = n /\ x \in New)
      /\ observed'[y] # 0
      /\ \A x \in Tasks : x # y => observed'[x] = observed[x]
      /\ AdvancesOnce'
      /\ \A x \in Tasks : observed[x] # 0 => observed'[x] # 0
      /\ \A x \in Tasks : Stage[x] # NoTask =>
           (Stage[x] \in New <=> observed[x] = 0 /\ observed'[x] # 0)
  BY DEF Finishes
<1>2. a \in Tags /\ a \in DoneTags /\ a \notin {"pool", "seen"} /\ "seen" \in Tags
  BY DEF Tags, DoneTags
<1>3. /\ Home(a, i) = Origin[y] /\ Origin[y] \in Nodes
      /\ Origin[y] \in Sites("seen") /\ Home("seen", Origin[y]) = Origin[y]
  <2>1. Home(a, i) = Origin[y]
    BY <1>2 DEF HeldInv, HomeInv
  <2> QED
    BY <2>1, NodeAssumption DEF Sites, Home
<1>4. observed[y] = 0
  <2>1. ~At(y, "seen", Origin[y])
    BY <1>2, <1>3 DEF HeldInv, OnceInv
  <2> QED
    BY <2>1 DEF At
<1>5. PICK S \in SUBSET Tasks : S = {y}
  OBVIOUS
<1>6. PICK h : h = Origin[y]
  OBVIOUS
<1>7. Moved(S, a, i, "seen", h, New)
  <2> SUFFICES ASSUME NEW x \in Tasks, NEW t \in Tags, NEW k \in Sites(t)
               PROVE  At(x, t, k)' <=> \/ At(x, t, k) /\ ~(x \in S /\ t = a /\ k = i)
                                       \/ x \in S /\ t = "seen" /\ k = h
                                       \/ x \in New /\ t = "pool" /\ k = Origin[x]
    BY DEF Moved, Sites
  <2>1. CASE t = "pool"
    <3>1. k \in Nodes
      BY <2>1 DEF Sites
    <3>2. (At(x, t, k)' <=> x \in pool'[k]) /\ (At(x, t, k) <=> x \in pool[k])
      BY <2>1 DEF At
    <3> QED
      BY <1>1, <1>2, <2>1, <3>1, <3>2
  <2>2. CASE t = "seen"
    <3>1. /\ At(x, t, k)' <=> observed'[x] # 0 /\ k = Origin[x]
          /\ At(x, t, k) <=> observed[x] # 0 /\ k = Origin[x]
      BY <2>2 DEF At
    <3> QED
      BY <1>1, <1>2, <1>4, <1>5, <1>6, <2>2, <3>1
  <2>3. CASE t \notin {"pool", "seen"}
    <3>1. At(x, t, k)' <=> At(x, t, k) /\ ~(x = y /\ t = a /\ k = i)
      BY <2>3 DEF Leaves
    <3> QED
      BY <1>5, <2>3, <3>1
  <2> QED
    BY <2>1, <2>2, <2>3
<1>8. HeldInv'
  <2>1. \A x \in S : At(x, a, i)
    BY <1>5
  <2>2. h \in Sites("seen") /\ Home(a, i) = Home("seen", h)
    BY <1>3, <1>6
  <2>3. reaped \subseteq reaped' /\ reaped' \subseteq reaped \cup S
    BY DEF reaper
  <2>4. /\ "seen" \notin {"lost", "rerun", "reran"}
        /\ "seen" \notin {"pool", "own", "take", "out", "finish"}
    OBVIOUS
  <2> QED
    BY <1>1, <1>2, <1>7, <2>1, <2>2, <2>3, <2>4, HeldMoved
<1>9. \A x \in Tasks : \A t \in CopyTags : \A k \in CopySites(t) :
        Copy(x, t, k)' => Copy(x, t, k) \/ (x \in New /\ t = "pool" /\ k = Origin[x])
  <2> SUFFICES ASSUME NEW x \in Tasks, NEW k \in CopySites("pool"), Copy(x, "pool", k)'
               PROVE  Copy(x, "pool", k) \/ (x \in New /\ k = Origin[x])
    OBVIOUS
  <2>1. k \in Nodes /\ x \in pool'[k]
    BY DEF CopySites, Copy
  <2> QED
    BY <1>1, <2>1 DEF Copy
<1>10. CopyInv' /\ \A x \in Tasks : Unrun(x)' => Unrun(x) \/ x \notin started
  <2>1. UNCHANGED resp
    BY DEF net
  <2> QED
    BY <1>1, <1>9, <2>1, CopiesLeft
<1>11. ExecInv'
  BY <1>1, <1>10, ExecKept
<1>12. NoticeInv'
  BY DEF NoticeInv, Notice, sender
<1>13. \A x \in Tasks : Claimed(x)' => Claimed(x)
  <2> SUFFICES ASSUME NEW x \in Tasks PROVE Claimed(x)' => Claimed(x)
    OBVIOUS
  <2>1. \A u \in {"ran", "reported"} : \A k \in Nodes : Copy(x, u, k)' => Copy(x, u, k)
    BY DEF CopyTags, CopySites
  <2>2. /\ \A u \in Nodes : Notice(x, u)' => Notice(x, u)
        /\ \A d \in Conns : Posted(x, d)' => Posted(x, d)
    BY PostSame DEF sender, net
  <2>3. Claimed(y)
    BY <1>2, ClaimedBy
  <2>4. ASSUME NEW t \in DoneTags, NEW k \in Sites(t), At(x, t, k)' PROVE Claimed(x)
    <3>1. t \in Tags /\ t # "pool"
      BY DEF DoneTags, Tags
    <3>2. At(x, t, k) \/ x = y
      BY <1>5, <1>7, <2>4, <3>1 DEF Moved
    <3> QED
      BY <2>3, <3>2, ClaimedBy
  <2> QED
    BY <2>1, <2>2, <2>4, ClaimedBy, ClaimedStep
<1>14. DoneInv'
  BY <1>13, DoneKept
<1> QED
  BY <1>8, <1>10, <1>11, <1>12, <1>14

(* on_task_complete for a task of the node's own or one it re-ran.         *)
LEMMA TaskCompleteInv ==
  ASSUME IInv, NEW n \in Nodes, NEW y \in Tasks, NEW kind \in {"own", "rerun"},
         TaskComplete(n, y, kind)
  PROVE  IInv'
<1> USE DEF IInv
<1>1. PICK j : j = Job(y, kind, "ran")
  OBVIOUS
<1>2. /\ j \in jobs[n] /\ jobs' = [jobs EXCEPT ![n] = @ \ {j}]
      /\ local_executed' = [local_executed EXCEPT ![n] = @ + 1]
      /\ ObserveAndFinish(n, y)
      /\ UNCHANGED <<state, net, serve, steal, sender, outstanding, reaper, executed>>
  <2>1. kind # "stolen"
    OBVIOUS
  <2> QED
    BY <1>1, <2>1 DEF TaskComplete
<1>3. PICK a \in {"own", "reran", "finish"} :
        a = IF kind = "own" THEN "own" ELSE "reran"
  OBVIOUS
<1>4. a \in Tags /\ a \notin {"take", "finish", "pool", "seen"} /\ n \in Sites(a) /\ At(y, a, n)
  <2>1. a \in Tags /\ a \notin {"take", "finish", "pool", "seen"}
    BY <1>3 DEF Tags
  <2>2. n \in Sites(a)
    BY <2>1 DEF Sites
  <2>3. CASE kind = "own"
    BY <1>1, <1>2, <1>3, <2>1, <2>2, <2>3 DEF At
  <2>4. CASE kind = "rerun"
    BY <1>1, <1>2, <1>3, <2>1, <2>2, <2>4 DEF At
  <2> QED
    BY <2>1, <2>2, <2>3, <2>4
<1>5. n = Origin[y] /\ observed[y] = 0
  <2>1. n = Origin[y]
    BY <1>4, SiteFacts DEF HeldInv, HomeInv
  <2>2. ~At(y, "seen", n)
    BY <1>4 DEF HeldInv, OnceInv, Tags, Sites
  <2> QED
    BY <2>1, <2>2 DEF At
<1>6. PICK New, q : Finishes(n, y, New, q)
  BY <1>2, <1>5, FinishSeen DEF HeldInv
<1>7. /\ New \in SUBSET Tasks /\ started' = started \cup New
      /\ pool' \in [Nodes -> SUBSET Tasks]
      /\ \A m \in Nodes \ {n} : pool'[m] = pool[m]
      /\ q \in Nat /\ Cardinality(pool'[n]) = Cardinality(pool[n]) + q
      /\ submitted' \in [Nodes -> Nat] /\ submitted'[n] = submitted[n] + q
      /\ \A m \in Nodes \ {n} : submitted'[m] = submitted[m]
      /\ completed' \in [Nodes -> Nat] /\ completed'[n] = completed[n] + 1
      /\ \A m \in Nodes \ {n} : completed'[m] = completed[m]
      /\ observed' \in [Tasks -> Nat]
  BY <1>6 DEF Finishes
<1>8. /\ jobs' \in [Nodes -> SUBSET Jobs]
      /\ \A m \in Nodes : \A i : i \in jobs'[m] <=> i \in jobs[m] /\ ~(m = n /\ i = j)
      /\ \A m \in Nodes \ {n} : jobs'[m] = jobs[m]
      /\ \A m \in Nodes : IsFiniteSet(jobs'[m])
      /\ \A m \in Nodes : \A i \in jobs'[m] : /\ i.kind = "own" => i.at = "ran"
                                              /\ i.kind = "rerun" => i.at # "reported"
      /\ Cardinality(jobs'[n]) = Cardinality(jobs[n]) - 1
  BY <1>2, JobRemoved
<1>9. local_executed' \in [Nodes -> Nat]
  BY <1>2 DEF TypeOK
<1>10. TypeOK'
  BY <1>2, <1>7, <1>8, <1>9 DEF TypeOK, Jobs, net, sender, reaper
<1>11. \A m \in Nodes : InHand(m)' = InHand(m)
  BY <1>2 DEF InHand
<1>12. ShapeInv'
  BY <1>2, <1>8, <1>11 DEF ShapeInv, net
<1>13. \A x \in Tasks : \A l, p : \A m \in Nodes :
         Job(x, l, p) \in jobs'[m] <=>
           Job(x, l, p) \in jobs[m] /\ ~(m = n /\ x = y /\ l = kind /\ p = "ran")
  BY <1>1, <1>8, JobInjective
<1>14. Leaves(y, a, n)
  <2> SUFFICES ASSUME NEW x \in Tasks, NEW t \in Tags \ {"pool", "seen"}, NEW k \in Sites(t)
               PROVE  At(x, t, k)' <=> At(x, t, k) /\ ~(x = y /\ t = a /\ k = n)
    BY DEF Leaves, Sites
  <2>1. CASE t \in {"own", "rerun", "reran"}
    <3>1. k \in Nodes
      BY <2>1 DEF Sites
    <3>2. CASE t = "own"
      <4>1. (At(x, t, k)' <=> Job(x, "own", "ran") \in jobs'[k])
            /\ (At(x, t, k) <=> Job(x, "own", "ran") \in jobs[k])
        BY <3>2 DEF At
      <4> QED
        BY <1>3, <1>13, <3>1, <3>2, <4>1
    <3>3. CASE t = "rerun"
      <4>1. (At(x, t, k)' <=> Job(x, "rerun", "queued") \in jobs'[k])
            /\ (At(x, t, k) <=> Job(x, "rerun", "queued") \in jobs[k])
        BY <3>3 DEF At
      <4> QED
        BY <1>3, <1>13, <3>1, <3>3, <4>1
    <3>4. CASE t = "reran"
      <4>1. (At(x, t, k)' <=> Job(x, "rerun", "ran") \in jobs'[k])
            /\ (At(x, t, k) <=> Job(x, "rerun", "ran") \in jobs[k])
        BY <3>4 DEF At
      <4> QED
        BY <1>3, <1>13, <3>1, <3>4, <4>1
    <3> QED
      BY <2>1, <3>2, <3>3, <3>4
  <2>2. CASE t \notin {"own", "rerun", "reran"}
    <3>1. At(x, t, k)' <=> At(x, t, k)
      BY <1>2, <2>2 DEF At, reaper
    <3> QED
      BY <1>3, <2>2, <3>1
  <2> QED
    BY <2>1, <2>2
<1>15. \A x \in Tasks : Reran(x) <=> Reran(x)'
  <2>1. \A x \in Tasks : Job(x, "rerun", "queued") \in jobs'[Origin[x]]
                         <=> Job(x, "rerun", "queued") \in jobs[Origin[x]]
    BY <1>13, NodeAssumption
  <2> QED
    BY <1>2, <2>1 DEF Reran, reaper
<1>16. \A x \in Tasks : \A t \in CopyTags \ {"pool"} : \A k \in CopySites(t) :
         Copy(x, t, k)' => Copy(x, t, k)
  <2> SUFFICES ASSUME NEW x \in Tasks, NEW t \in CopyTags \ {"pool"}, NEW k \in CopySites(t),
                      Copy(x, t, k)'
               PROVE  Copy(x, t, k)
    OBVIOUS
  <2>1. CASE t \in {"queued", "ran", "reported"}
    <3>1. k \in Nodes /\ Job(x, "stolen", t) \in jobs'[k]
      BY <2>1 DEF CopySites, Copy
    <3> QED
      BY <1>13, <2>1, <3>1 DEF Copy
  <2>2. CASE t \notin {"queued", "ran", "reported"}
    BY <1>2, <2>2 DEF Copy, InResp, net
  <2> QED
    BY <2>1, <2>2
<1>17. NoticeInv' /\ HeldInv' /\ CopyInv' /\ ExecInv' /\ DoneInv'
  <2>1. UNCHANGED <<net, sender, outstanding, reaper, executed, steal>>
    BY <1>2
  <2> QED
    BY <1>4, <1>6, <1>14, <1>15, <1>16, <2>1, SeenInv
<1>18. LedgerBalanced'
  <2>1. Unsettled(n)' = Unsettled(n) + q - 1
    <3>1. /\ outstanding'[n] = outstanding[n] /\ InHand(n)' = InHand(n)
          /\ lost'[n] = lost[n] /\ debt'[n] = debt[n]
      BY <1>2, <1>11 DEF reaper
    <3>2. /\ Cardinality(pool[n]) \in Nat /\ Cardinality(jobs[n]) \in Nat
          /\ Cardinality(outstanding[n]) \in Nat /\ Cardinality(InHand(n)) \in Nat
          /\ Cardinality(lost[n]) \in Nat
      BY UnsettledFinite
    <3> QED
      BY <1>7, <1>8, <3>1, <3>2 DEF Unsettled
  <2> QED
    BY <1>2, <1>7, <1>8, <1>11, <2>1, UnsettledFinite, LedgerStep DEF reaper
<1> QED
  BY <1>10, <1>12, <1>17, <1>18

(* What a serve thread that settled y no longer has in hand.               *)
LEMMA HandSettled ==
  ASSUME TypeOK, ShapeInv, NEW c \in Conns, NEW y \in Tasks,
         serve[c].at = "finish", serve[c].hand = {y}, serve' = [serve EXCEPT ![c] = IdleServe]
  PROVE  /\ \A m \in Nodes \ {c[2]} : InHand(m)' = InHand(m)
         /\ IsFiniteSet(InHand(c[2])')
         /\ Cardinality(InHand(c[2])') = Cardinality(InHand(c[2])) - 1
<1>1. /\ serve' \in [Conns -> Serves] /\ serve'[c] = IdleServe
      /\ \A d \in Conns : d # c => serve'[d] = serve[d]
  BY ServeUpdate, ServeTypes
<1>2. IdleServe.at = "recv" /\ c[2] \in Nodes
  BY ServeTypes, ConnFacts
<1>3. \A m \in Nodes \ {c[2]} : InHand(m)' = InHand(m)
  <2> SUFFICES ASSUME NEW m \in Nodes \ {c[2]} PROVE InHand(m)' = InHand(m)
    OBVIOUS
  <2>1. \A d \in Conns : d[2] = m => d # c
    OBVIOUS
  <2> QED
    BY <1>1, <2>1 DEF InHand
<1>4. PICK e : e = <<c, y>>
  OBVIOUS
<1>5. e \in Conns \X Tasks /\ e[1] = c /\ e[2] = y
  BY <1>4
<1>6. e \in InHand(c[2])
  BY <1>5 DEF InHand
<1>7. ASSUME NEW p \in Conns \X Tasks
      PROVE  p \in InHand(c[2])' <=> p \in InHand(c[2]) /\ p # e
  <2>0. p[1] \in Conns /\ p[2] \in Tasks /\ p = <<p[1], p[2]>>
    OBVIOUS
  <2>1. CASE p[1] = c
    <3>1. p \notin InHand(c[2])'
      BY <1>1, <1>2, <2>1 DEF InHand
    <3>2. p \in InHand(c[2]) => p[2] = y
      BY <2>1 DEF InHand
    <3>3. p[2] = y => p = e
      BY <1>4, <2>0, <2>1
    <3> QED
      BY <3>1, <3>2, <3>3
  <2>2. CASE p[1] # c
    <3>1. serve'[p[1]] = serve[p[1]]
      BY <1>1, <2>0, <2>2
    <3>2. p \in InHand(c[2])' <=> p \in InHand(c[2])
      BY <3>1 DEF InHand
    <3> QED
      BY <1>5, <2>2, <3>2
  <2> QED
    BY <2>1, <2>2
<1>8. InHand(c[2])' = InHand(c[2]) \ {e}
  <2>1. InHand(c[2]) \subseteq Conns \X Tasks /\ InHand(c[2])' \subseteq Conns \X Tasks
    BY DEF InHand
  <2> QED
    BY <1>7, <2>1
<1>9. IsFiniteSet(InHand(c[2]))
  BY <1>2 DEF ShapeInv
<1> QED
  BY <1>3, <1>6, <1>8, <1>9, FS_RemoveElement

(* on_remote_task_complete: a thief's result settles the task at home.     *)
LEMMA ServeFinishInv ==
  ASSUME IInv, NEW c \in Conns, NEW y \in Tasks, ServeFinish(c, y)
  PROVE  IInv'
<1> USE DEF IInv
<1>1. PICK n \in Nodes : n = c[2]
  BY ConnFacts
<1>2. /\ serve[c].at = "finish" /\ y \in serve[c].hand /\ serve' = [serve EXCEPT ![c] = IdleServe]
      /\ ObserveAndFinish(n, y)
      /\ UNCHANGED <<state, local_executed, jobs, net, steal, sender, outstanding, reaper,
                     executed>>
  BY <1>1 DEF ServeFinish
<1>3. serve[c].hand = {y}
  BY <1>2 DEF ShapeInv
<1>4. /\ serve' \in [Conns -> Serves] /\ serve'[c] = IdleServe
      /\ \A d \in Conns : d # c => serve'[d] = serve[d]
  BY <1>2, ServeUpdate, ServeTypes
<1>5. IdleServe.at = "recv" /\ IdleServe.hand = {}
  BY ServeTypes
<1>6. /\ "finish" \in Tags /\ "finish" \in {"own", "reran", "finish"} /\ c \in Sites("finish")
      /\ At(y, "finish", c)
  BY <1>2, SiteFacts DEF Tags, At
<1>7. n = Origin[y] /\ observed[y] = 0
  <2>1. n = Origin[y]
    BY <1>1, <1>6, SiteFacts DEF HeldInv, HomeInv
  <2>2. ~At(y, "seen", n)
    BY <1>6 DEF HeldInv, OnceInv, Tags, Sites
  <2> QED
    BY <2>1, <2>2 DEF At
<1>8. PICK New, q : Finishes(n, y, New, q)
  BY <1>2, <1>7, FinishSeen DEF HeldInv
<1>9. /\ New \in SUBSET Tasks /\ started' = started \cup New
      /\ pool' \in [Nodes -> SUBSET Tasks]
      /\ \A m \in Nodes \ {n} : pool'[m] = pool[m]
      /\ q \in Nat /\ Cardinality(pool'[n]) = Cardinality(pool[n]) + q
      /\ submitted' \in [Nodes -> Nat] /\ submitted'[n] = submitted[n] + q
      /\ \A m \in Nodes \ {n} : submitted'[m] = submitted[m]
      /\ completed' \in [Nodes -> Nat] /\ completed'[n] = completed[n] + 1
      /\ \A m \in Nodes \ {n} : completed'[m] = completed[m]
      /\ observed' \in [Tasks -> Nat]
  BY <1>8 DEF Finishes
<1>10. TypeOK'
  BY <1>2, <1>4, <1>9 DEF TypeOK, Serves, net, sender, reaper
<1>11. /\ \A m \in Nodes \ {n} : InHand(m)' = InHand(m)
       /\ IsFiniteSet(InHand(n)') /\ Cardinality(InHand(n)') = Cardinality(InHand(n)) - 1
  BY <1>1, <1>2, <1>3, HandSettled
<1>12. ShapeInv'
  <2>1. \A m \in Nodes : IsFiniteSet(InHand(m)')
    BY <1>11 DEF ShapeInv
  <2>2. \A d \in Conns : /\ serve'[d].at = "finish" => \E x \in Tasks : serve'[d].hand = {x}
                         /\ serve'[d].at = "recv" => serve'[d].hand = {}
    BY <1>4, <1>5 DEF ShapeInv
  <2> QED
    BY <1>2, <2>1, <2>2 DEF ShapeInv, net
<1>13. Leaves(y, "finish", c)
  <2> SUFFICES ASSUME NEW x \in Tasks, NEW t \in Tags \ {"pool", "seen"}, NEW k \in Sites(t)
               PROVE  At(x, t, k)' <=> At(x, t, k) /\ ~(x = y /\ t = "finish" /\ k = c)
    BY DEF Leaves, Sites
  <2>1. CASE t \in {"take", "finish"}
    <3>1. k \in Conns
      BY <2>1 DEF Sites
    <3>2. /\ At(x, t, k)' <=> serve'[k].at = t /\ x \in serve'[k].hand
          /\ At(x, t, k) <=> serve[k].at = t /\ x \in serve[k].hand
      BY <2>1 DEF At
    <3> QED
      BY <1>2, <1>3, <1>4, <1>5, <2>1, <3>1, <3>2
  <2>2. CASE t \notin {"take", "finish"}
    <3>1. At(x, t, k)' <=> At(x, t, k)
      BY <1>2, <2>2 DEF At, reaper
    <3> QED
      BY <2>2, <3>1
  <2> QED
    BY <2>1, <2>2
<1>14. \A x \in Tasks : Reran(x) <=> Reran(x)'
  BY <1>2 DEF Reran, reaper
<1>15. \A x \in Tasks : \A t \in CopyTags \ {"pool"} : \A k \in CopySites(t) :
         Copy(x, t, k)' => Copy(x, t, k)
  <2> SUFFICES ASSUME NEW x \in Tasks, NEW t \in CopyTags \ {"pool"}, NEW k \in CopySites(t),
                      Copy(x, t, k)'
               PROVE  Copy(x, t, k)
    OBVIOUS
  <2>1. CASE t \in {"take", "send"}
    <3>1. k \in Conns /\ serve'[k].at = t /\ x \in serve'[k].hand
      BY <2>1 DEF CopySites, Copy
    <3> QED
      BY <1>4, <1>5, <2>1, <3>1 DEF Copy
  <2>2. CASE t \notin {"take", "send"}
    BY <1>2, <2>2 DEF Copy, InResp, net
  <2> QED
    BY <2>1, <2>2
<1>16. NoticeInv' /\ HeldInv' /\ CopyInv' /\ ExecInv' /\ DoneInv'
  <2>1. UNCHANGED <<net, sender, outstanding, reaper, executed, steal>>
    BY <1>2
  <2> QED
    BY <1>6, <1>8, <1>13, <1>14, <1>15, <2>1, SeenInv
<1>17. LedgerBalanced'
  <2>1. Unsettled(n)' = Unsettled(n) + q - 1
    <3>1. /\ outstanding'[n] = outstanding[n] /\ jobs'[n] = jobs[n]
          /\ lost'[n] = lost[n] /\ debt'[n] = debt[n]
      BY <1>2 DEF reaper
    <3>2. /\ Cardinality(pool[n]) \in Nat /\ Cardinality(jobs[n]) \in Nat
          /\ Cardinality(outstanding[n]) \in Nat /\ Cardinality(InHand(n)) \in Nat
          /\ Cardinality(lost[n]) \in Nat
      BY UnsettledFinite
    <3> QED
      BY <1>9, <1>11, <3>1, <3>2 DEF Unsettled
  <2> QED
    BY <1>2, <1>9, <1>11, <2>1, UnsettledFinite, LedgerStep DEF reaper
<1> QED
  BY <1>10, <1>12, <1>16, <1>17

(* The thief's own ledger counts the stolen closure, unobserved.           *)
LEMMA StolenCompleteInv ==
  ASSUME IInv, NEW n \in Nodes, NEW y \in Tasks, TaskComplete(n, y, "stolen")
  PROVE  IInv'
<1> USE DEF IInv
<1>1. PICK j : j = Job(y, "stolen", "reported")
  OBVIOUS
<1>2. /\ j \in jobs[n] /\ jobs' = [jobs EXCEPT ![n] = @ \ {j}]
      /\ local_executed' = [local_executed EXCEPT ![n] = @ + 1]
      /\ ObserveAndFinish(n, NoTask)
      /\ UNCHANGED <<state, net, serve, steal, sender, outstanding, reaper, executed>>
  BY <1>1 DEF TaskComplete
<1>3. /\ UNCHANGED <<observed, submitted, pool, started>>
      /\ completed' \in [Nodes -> Nat] /\ completed'[n] = completed[n] + 1
      /\ \A m \in Nodes \ {n} : completed'[m] = completed[m]
  BY <1>2, FinishUnseen
<1>4. /\ jobs' \in [Nodes -> SUBSET Jobs]
      /\ \A m \in Nodes : \A i : i \in jobs'[m] <=> i \in jobs[m] /\ ~(m = n /\ i = j)
      /\ \A m \in Nodes \ {n} : jobs'[m] = jobs[m]
      /\ \A m \in Nodes : IsFiniteSet(jobs'[m])
      /\ \A m \in Nodes : \A i \in jobs'[m] : /\ i.kind = "own" => i.at = "ran"
                                              /\ i.kind = "rerun" => i.at # "reported"
      /\ Cardinality(jobs'[n]) = Cardinality(jobs[n]) - 1
  BY <1>2, JobRemoved
<1>5. local_executed' \in [Nodes -> Nat]
  BY <1>2 DEF TypeOK
<1>6. TypeOK'
  BY <1>2, <1>3, <1>4, <1>5 DEF TypeOK, Jobs, net, sender, reaper
<1>7. \A m \in Nodes : \A x \in Tasks : \A p \in {"queued", "ran", "reported"} :
        /\ Job(x, "own", p) \in jobs'[m] <=> Job(x, "own", p) \in jobs[m]
        /\ Job(x, "rerun", p) \in jobs'[m] <=> Job(x, "rerun", p) \in jobs[m]
  BY <1>1, <1>4, JobTypes
<1>8. /\ \A x \in Tasks : \A u \in Tags : \A k \in Sites(u) : At(x, u, k)' <=> At(x, u, k)
      /\ \A m \in Nodes : InHand(m)' = InHand(m)
      /\ \A x \in Tasks : Reran(x)' <=> Reran(x)
  BY <1>2, <1>3, <1>7, StolenOnly DEF reaper
<1>9. HeldInv'
  BY <1>2, <1>3, <1>8, HeldSame DEF reaper
<1>10. ShapeInv'
  BY <1>2, <1>4, <1>8 DEF ShapeInv, net
<1>11. NoticeInv'
  BY <1>2 DEF NoticeInv, Notice, sender
<1>12. \A x \in Tasks : \A t \in CopyTags : \A k \in CopySites(t) : Copy(x, t, k)' => Copy(x, t, k)
  <2> SUFFICES ASSUME NEW x \in Tasks, NEW t \in CopyTags, NEW k \in CopySites(t), Copy(x, t, k)'
               PROVE  Copy(x, t, k)
    OBVIOUS
  <2>1. CASE t \in {"queued", "ran", "reported"}
    <3>1. k \in Nodes /\ Job(x, "stolen", t) \in jobs'[k]
      BY <2>1 DEF CopySites, Copy
    <3> QED
      BY <1>4, <2>1, <3>1 DEF Copy
  <2>2. CASE t \notin {"queued", "ran", "reported"}
    BY <1>2, <1>3, <2>2 DEF Copy, InResp, net
  <2> QED
    BY <2>1, <2>2
<1>13. /\ CopyOnceInv' /\ CopyStartedInv' /\ CopyHomeInv'
       /\ \A x \in Tasks : Unrun(x)' => Unrun(x)
  BY <1>3, <1>12, CopyFewer DEF CopyInv
<1>14. RespInv'
  BY <1>2 DEF RespInv, CopyInv, net
<1>15. ExecInv'
  BY <1>2, <1>3, <1>8, <1>13, ExecKept
<1>16. \A x \in Tasks : Claimed(x)' => Claimed(x)
  <2> SUFFICES ASSUME NEW x \in Tasks PROVE Claimed(x)' => Claimed(x)
    OBVIOUS
  <2>1. \A u \in {"ran", "reported"} : \A k \in Nodes : Copy(x, u, k)' => Copy(x, u, k)
    BY <1>12 DEF CopyTags, CopySites
  <2>2. /\ \A u \in Nodes : Notice(x, u)' => Notice(x, u)
        /\ \A d \in Conns : Posted(x, d)' => Posted(x, d)
    BY <1>2, PostSame DEF sender, net
  <2>3. DoneTags \subseteq Tags
    BY DEF DoneTags, Tags
  <2> QED
    BY <1>8, <2>1, <2>2, <2>3, ClaimedBy, ClaimedStep
<1>17. DoneInv'
  BY <1>2, <1>16, DoneKept
<1>18. LedgerBalanced'
  <2>1. Unsettled(n)' = Unsettled(n) - 1
    <3>1. /\ pool'[n] = pool[n] /\ outstanding'[n] = outstanding[n] /\ InHand(n)' = InHand(n)
          /\ lost'[n] = lost[n] /\ debt'[n] = debt[n]
      BY <1>2, <1>3, <1>8 DEF reaper
    <3>2. /\ Cardinality(pool[n]) \in Nat /\ Cardinality(jobs[n]) \in Nat
          /\ Cardinality(outstanding[n]) \in Nat /\ Cardinality(InHand(n)) \in Nat
          /\ Cardinality(lost[n]) \in Nat
      BY UnsettledFinite
    <3> QED
      BY <1>4, <3>1, <3>2 DEF Unsettled
  <2> QED
    BY <1>2, <1>3, <1>4, <1>8, <2>1, UnsettledFinite, LedgerStep DEF reaper
<1> QED
  BY <1>6, <1>9, <1>10, <1>11, <1>13, <1>14, <1>15, <1>17, <1>18 DEF CopyInv

----------------------------------------------------------------------------
(* The reaper.                                                             *)

(* A step that no copy takes part in.                                      *)
LEMMA CopySame ==
  ASSUME CopyInv, UNCHANGED <<pool, serve, resp, steal, started>>,
         \A m \in Nodes : \A x \in Tasks : \A p \in {"queued", "ran", "reported"} :
           Job(x, "stolen", p) \in jobs'[m] <=> Job(x, "stolen", p) \in jobs[m]
  PROVE  /\ CopyInv' /\ \A x \in Tasks : Unrun(x)' => Unrun(x)
         /\ \A x \in Tasks : \A t \in CopyTags : \A k \in CopySites(t) : Copy(x, t, k)' => Copy(x, t, k)
<1>1. \A x \in Tasks : \A t \in CopyTags : \A k \in CopySites(t) : Copy(x, t, k)' => Copy(x, t, k)
  <2> SUFFICES ASSUME NEW x \in Tasks, NEW t \in CopyTags, NEW k \in CopySites(t), Copy(x, t, k)'
               PROVE  Copy(x, t, k)
    OBVIOUS
  <2>1. CASE t \in {"queued", "ran", "reported"}
    <3>1. k \in Nodes /\ Job(x, "stolen", t) \in jobs'[k]
      BY <2>1 DEF CopySites, Copy
    <3> QED
      BY <2>1, <3>1 DEF Copy
  <2>2. CASE t \notin {"queued", "ran", "reported"}
    BY <2>2 DEF Copy, InResp
  <2> QED
    BY <2>1, <2>2
<1>2. /\ CopyOnceInv' /\ CopyStartedInv' /\ CopyHomeInv'
      /\ \A x \in Tasks : Unrun(x)' => Unrun(x)
  BY <1>1, CopyFewer DEF CopyInv
<1>3. RespInv'
  BY DEF RespInv, CopyInv
<1> QED
  BY <1>1, <1>2, <1>3 DEF CopyInv

(* A step after which each claim is an old one, or one of y.               *)
LEMMA ClaimedSame ==
  ASSUME UNCHANGED <<chan, completions, batch>>, NEW y,
         \A x \in Tasks : \A t \in DoneTags : \A k \in Sites(t) : At(x, t, k)' => At(x, t, k) \/ x = y,
         \A x \in Tasks : \A t \in CopyTags : \A k \in CopySites(t) : Copy(x, t, k)' => Copy(x, t, k)
  PROVE  \A x \in Tasks : Claimed(x)' => Claimed(x) \/ x = y
<1> SUFFICES ASSUME NEW x \in Tasks, x # y PROVE Claimed(x)' => Claimed(x)
  OBVIOUS
<1>1. \A u \in {"ran", "reported"} : \A k \in Nodes : Copy(x, u, k)' => Copy(x, u, k)
  BY DEF CopyTags, CopySites
<1>2. /\ \A u \in Nodes : Notice(x, u)' => Notice(x, u)
      /\ \A d \in Conns : Posted(x, d)' => Posted(x, d)
  BY PostSame
<1> QED
  BY <1>1, <1>2, ClaimedBy, ClaimedStep

(* reap_outstanding settles the first submission of the task it re-runs.   *)
LEMMA ReapSettleInv ==
  ASSUME IInv, NEW n \in Nodes, ReapSettle(n)
  PROVE  IInv'
<1> USE DEF IInv
<1>1. /\ debt[n] # NoTask /\ debt' = [debt EXCEPT ![n] = NoTask]
      /\ ObserveAndFinish(n, NoTask)
      /\ UNCHANGED <<state, local_executed, jobs, net, serve, steal, sender, outstanding, lost,
                     reaped, executed>>
  BY DEF ReapSettle
<1>2. /\ UNCHANGED <<observed, submitted, pool, started>>
      /\ completed' \in [Nodes -> Nat] /\ completed'[n] = completed[n] + 1
      /\ \A m \in Nodes \ {n} : completed'[m] = completed[m]
  BY <1>1, FinishUnseen
<1>3. /\ debt' \in [Nodes -> Tasks \cup {NoTask}] /\ debt'[n] = NoTask
      /\ \A m \in Nodes \ {n} : debt'[m] = debt[m]
  BY <1>1 DEF TypeOK
<1>4. TypeOK'
  BY <1>1, <1>2, <1>3 DEF TypeOK, net, sender
<1>5. \A m \in Nodes : InHand(m)' = InHand(m)
  BY <1>1 DEF InHand
<1>6. ShapeInv'
  BY <1>1, <1>5 DEF ShapeInv, net
<1>7. NoticeInv'
  BY <1>1 DEF NoticeInv, Notice, sender
<1>8. \A x, t, k : At(x, t, k)' <=> At(x, t, k)
  BY <1>1, <1>2, AtSame
<1>9. HeldInv'
  BY <1>1, <1>2, <1>8, HeldSame
<1>10. /\ CopyInv' /\ \A x \in Tasks : Unrun(x)' => Unrun(x)
       /\ \A x \in Tasks : \A t \in CopyTags : \A k \in CopySites(t) : Copy(x, t, k)' => Copy(x, t, k)
  BY <1>1, <1>2, CopySame DEF net
<1>11. ExecInv'
  BY <1>1, <1>2, <1>10, RerunSame, ExecKept
<1>12. \A x \in Tasks : Claimed(x)' => Claimed(x) \/ x = NoTask
  BY <1>1, <1>8, <1>10, ClaimedSame DEF net, sender
<1>13. DoneInv'
  BY <1>1, <1>12, DoneKept, NodeAssumption
<1>14. LedgerBalanced'
  <2>1. Unsettled(n)' = Unsettled(n) - 1
    <3>1. /\ pool'[n] = pool[n] /\ outstanding'[n] = outstanding[n] /\ InHand(n)' = InHand(n)
          /\ lost'[n] = lost[n] /\ jobs'[n] = jobs[n]
      BY <1>1, <1>2, <1>5
    <3>2. /\ Cardinality(pool[n]) \in Nat /\ Cardinality(jobs[n]) \in Nat
          /\ Cardinality(outstanding[n]) \in Nat /\ Cardinality(InHand(n)) \in Nat
          /\ Cardinality(lost[n]) \in Nat
      BY UnsettledFinite
    <3> QED
      BY <1>1, <1>3, <3>1, <3>2 DEF Unsettled
  <2> QED
    BY <1>1, <1>2, <1>3, <1>5, <2>1, UnsettledFinite, LedgerStep
<1> QED
  BY <1>4, <1>6, <1>7, <1>9, <1>10, <1>11, <1>13, <1>14

(* reap_outstanding gives up on the tasks S.                               *)
LEMMA ReapCollectInv ==
  ASSUME IInv, NEW n \in Nodes, NEW S, ReapCollect(n, S)
  PROVE  IInv'
<1> USE DEF IInv
<1>1. /\ lost[n] = {} /\ S \subseteq outstanding[n]
      /\ outstanding' = [outstanding EXCEPT ![n] = @ \ S]
      /\ lost' = [lost EXCEPT ![n] = S]
      /\ reaped' = reaped \cup S
      /\ UNCHANGED <<state, runtime, net, serve, steal, sender, debt, executed>>
  BY DEF ReapCollect
<1>2. S \in SUBSET Tasks
  BY <1>1 DEF TypeOK
<1>3. /\ outstanding' \in [Nodes -> SUBSET Tasks] /\ outstanding'[n] = outstanding[n] \ S
      /\ \A m \in Nodes \ {n} : outstanding'[m] = outstanding[m]
  BY <1>1 DEF TypeOK
<1>4. /\ lost' \in [Nodes -> SUBSET Tasks] /\ lost'[n] = S
      /\ \A m \in Nodes \ {n} : lost'[m] = lost[m]
  BY <1>1, <1>2 DEF TypeOK
<1>5. reaped' \subseteq Tasks
  BY <1>1, <1>2 DEF TypeOK
<1>6. TypeOK'
  BY <1>1, <1>3, <1>4, <1>5 DEF TypeOK, runtime, net, sender
<1>7. \A m \in Nodes : InHand(m)' = InHand(m)
  BY <1>1 DEF InHand
<1>8. ShapeInv'
  BY <1>1, <1>7 DEF ShapeInv, net, runtime
<1>9. NoticeInv'
  BY <1>1 DEF NoticeInv, Notice, sender
<1>10. \A x \in S : At(x, "out", n) /\ Origin[x] = n /\ x \notin reaped
  <2> SUFFICES ASSUME NEW x \in S PROVE At(x, "out", n) /\ Origin[x] = n /\ x \notin reaped
    OBVIOUS
  <2>1. At(x, "out", n) /\ "out" \in Tags /\ n \in Sites("out") /\ x \in Tasks
    BY <1>1, <1>2 DEF At, Tags, Sites
  <2>2. Home("out", n) = n
    BY DEF Home
  <2> QED
    BY <2>1, <2>2 DEF HeldInv, HomeInv, ReapedInv
<1>11. Moved(S, "out", n, "lost", n, {})
  <2> SUFFICES ASSUME NEW x \in Tasks, NEW t \in Tags, NEW k \in Sites(t)
               PROVE  At(x, t, k)' <=> \/ At(x, t, k) /\ ~(x \in S /\ t = "out" /\ k = n)
                                       \/ x \in S /\ t = "lost" /\ k = n
    BY DEF Moved, Sites
  <2>1. CASE t = "out"
    <3>1. k \in Nodes /\ (At(x, t, k)' <=> x \in outstanding'[k]) /\ (At(x, t, k) <=> x \in outstanding[k])
      BY <2>1 DEF Sites, At
    <3> QED
      BY <1>3, <2>1, <3>1
  <2>2. CASE t = "lost"
    <3>1. k \in Nodes /\ (At(x, t, k)' <=> x \in lost'[k]) /\ (At(x, t, k) <=> x \in lost[k])
      BY <2>2 DEF Sites, At
    <3> QED
      BY <1>1, <1>4, <2>2, <3>1
  <2>3. CASE t \notin {"out", "lost"}
    <3>1. At(x, t, k)' <=> At(x, t, k)
      BY <1>1, <2>3 DEF At, runtime
    <3> QED
      BY <2>3, <3>1
  <2> QED
    BY <2>1, <2>2, <2>3
<1>12. HeldInv'
  <2>1. PICK N \in SUBSET Tasks : N = {}
    OBVIOUS
  <2>2. Moved(S, "out", n, "lost", n, N)
    BY <1>11, <2>1
  <2>3. /\ "out" \in Tags /\ n \in Sites("out") /\ "lost" \in Tags /\ n \in Sites("lost")
        /\ Home("out", n) = Home("lost", n)
    BY DEF Tags, Sites, Home
  <2>4. N \cap started = {} /\ started' = started \cup N /\ UNCHANGED observed
    BY <1>1, <2>1 DEF runtime
  <2>5. AdvancesOnce'
    BY <2>4 DEF AdvancesOnce, HeldInv, ChainInv
  <2>6. \A x \in Tasks : Stage[x] # NoTask => (Stage[x] \in N <=> observed[x] = 0 /\ observed'[x] # 0)
    BY <2>1, <2>4
  <2>7. /\ reaped \subseteq reaped' /\ reaped' \subseteq reaped \cup S /\ S \subseteq reaped'
        /\ "lost" \notin {"pool", "own", "take", "out", "finish"}
    BY <1>1
  <2>8. \A x \in S : At(x, "out", n)
    BY <1>10
  <2>9. \A x \in Tasks : observed[x] # 0 => observed'[x] # 0
    BY <2>4
  <2> QED
    BY <1>2, <2>2, <2>3, <2>4, <2>5, <2>6, <2>7, <2>8, <2>9, HeldMoved
<1>13. /\ CopyInv' /\ \A x \in Tasks : Unrun(x)' => Unrun(x)
       /\ \A x \in Tasks : \A t \in CopyTags : \A k \in CopySites(t) : Copy(x, t, k)' => Copy(x, t, k)
  BY <1>1, CopySame DEF net, runtime
<1>14. \A x \in Tasks : Reran(x) => Reran(x)'
  <2>1. \A x \in Tasks : Reran(x) => x \notin S /\ Origin[x] \in Nodes
    BY <1>10, NodeAssumption DEF Reran
  <2>2. \A x \in Tasks : x \notin S => \A m \in Nodes : x \in lost'[m] => x \in lost[m]
    BY <1>4
  <2> QED
    BY <1>1, <2>1, <2>2 DEF Reran, runtime
<1>15. ExecInv'
  BY <1>1, <1>13, <1>14, ExecKept DEF runtime
<1>16. \A x \in Tasks : Claimed(x)' => Claimed(x) \/ x = NoTask
  <2>1. \A x \in Tasks : \A t \in DoneTags : \A k \in Sites(t) : At(x, t, k)' => At(x, t, k) \/ x = NoTask
    BY <1>11 DEF Moved, DoneTags, Tags
  <2> QED
    BY <1>1, <1>13, <2>1, ClaimedSame DEF net, sender
<1>17. DoneInv'
  BY <1>1, <1>16, DoneKept, NodeAssumption
<1>18. LedgerBalanced'
  <2>1. Unsettled(n)' = Unsettled(n)
    <3>1. /\ pool'[n] = pool[n] /\ jobs'[n] = jobs[n] /\ InHand(n)' = InHand(n)
          /\ debt'[n] = debt[n]
      BY <1>1, <1>7 DEF runtime
    <3>2. /\ Cardinality(pool[n]) \in Nat /\ Cardinality(jobs[n]) \in Nat
          /\ Cardinality(outstanding[n]) \in Nat /\ Cardinality(InHand(n)) \in Nat
          /\ IsFiniteSet(outstanding[n])
      BY UnsettledFinite
    <3>3. Cardinality(lost[n]) = 0
      BY <1>1, FS_EmptySet
    <3>4. IsFiniteSet(S) /\ Cardinality(S) \in Nat
      BY <1>1, <3>2, FS_Subset, FS_CardinalityType
    <3>5. outstanding[n] \cap S = S
      BY <1>1
    <3>6. Cardinality(outstanding[n] \ S) = Cardinality(outstanding[n]) - Cardinality(S)
      BY <3>2, <3>5, FS_Difference
    <3> QED
      BY <1>3, <1>4, <3>1, <3>2, <3>3, <3>4, <3>6 DEF Unsettled
  <2> QED
    BY <1>1, <1>3, <1>4, <1>7, <2>1, LedgerStep DEF runtime
<1> QED
  BY <1>6, <1>8, <1>9, <1>12, <1>13, <1>15, <1>17, <1>18

(* HeldInv after a step that moves one submission and observes nothing.    *)
LEMMA HeldOneMoved ==
  ASSUME HeldInv, NEW y \in Tasks, NEW a \in Tags, NEW i \in Sites(a), NEW b \in Tags, NEW j \in Sites(b),
         At(y, a, i), Home(a, i) = Home(b, j), Moved({y}, a, i, b, j, {}),
         UNCHANGED <<observed, started, reaped>>,
         b \in {"lost", "rerun", "reran"} => y \in reaped,
         b \in {"pool", "own", "take", "out", "finish"} => y \notin reaped
  PROVE  HeldInv'
<1>1. PICK S \in SUBSET Tasks : S = {y}
  OBVIOUS
<1>2. PICK N \in SUBSET Tasks : N = {}
  OBVIOUS
<1>3. Moved(S, a, i, b, j, N)
  BY <1>1, <1>2
<1>4. N \cap started = {} /\ started' = started \cup N
  BY <1>2
<1>5. AdvancesOnce'
  BY DEF AdvancesOnce, HeldInv, ChainInv
<1>6. /\ \A x \in Tasks : Stage[x] # NoTask => (Stage[x] \in N <=> observed[x] = 0 /\ observed'[x] # 0)
      /\ \A x \in Tasks : observed[x] # 0 => observed'[x] # 0
  BY <1>2
<1>7. /\ reaped \subseteq reaped' /\ reaped' \subseteq reaped \cup S
      /\ b \in {"lost", "rerun", "reran"} => S \subseteq reaped'
      /\ b \in {"pool", "own", "take", "out", "finish"} => S \cap reaped' = {}
  BY <1>1
<1>8. \A x \in S : At(x, a, i)
  BY <1>1
<1> QED
  BY <1>3, <1>4, <1>5, <1>6, <1>7, <1>8, HeldMoved

(* reap_outstanding submits a task again.                                  *)
LEMMA ReapResubmitInv ==
  ASSUME IInv, NEW n \in Nodes, NEW y \in Tasks, ReapResubmit(n, y)
  PROVE  IInv'
<1> USE DEF IInv
<1>1. PICK j : j = Job(y, "rerun", "queued")
  OBVIOUS
<1>2. /\ debt[n] = NoTask /\ y \in lost[n]
      /\ lost' = [lost EXCEPT ![n] = @ \ {y}]
      /\ debt' = [debt EXCEPT ![n] = y]
      /\ submitted' = [submitted EXCEPT ![n] = @ + 1]
      /\ jobs' = [jobs EXCEPT ![n] = @ \cup {j}]
      /\ UNCHANGED <<state, completed, local_executed, pool, started, observed, net, serve,
                     steal, sender, outstanding, reaped, executed>>
  BY <1>1 DEF ReapResubmit
<1>3. /\ "lost" \in Tags /\ n \in Sites("lost") /\ "rerun" \in Tags /\ n \in Sites("rerun")
      /\ Home("lost", n) = n /\ Home("rerun", n) = n /\ At(y, "lost", n)
  BY <1>2 DEF Tags, Sites, Home, At
<1>4. y \in reaped /\ Origin[y] = n /\ j \notin jobs[n]
  <2>1. ~At(y, "rerun", n)
    BY <1>3 DEF HeldInv, OnceInv
  <2> QED
    BY <1>1, <1>3, <2>1 DEF HeldInv, HomeInv, ReapedInv, At
<1>5. j \in Jobs /\ j.kind = "rerun" /\ j.at = "queued"
  BY <1>1, JobTypes
<1>6. /\ jobs' \in [Nodes -> SUBSET Jobs]
      /\ \A m \in Nodes : \A i : i \in jobs'[m] <=> i \in jobs[m] \/ (m = n /\ i = j)
      /\ \A m \in Nodes \ {n} : jobs'[m] = jobs[m]
      /\ \A m \in Nodes : IsFiniteSet(jobs'[m])
      /\ \A m \in Nodes : \A i \in jobs'[m] : /\ i.kind = "own" => i.at = "ran"
                                              /\ i.kind = "rerun" => i.at # "reported"
      /\ Cardinality(jobs'[n]) = Cardinality(jobs[n]) + 1
  BY <1>2, <1>4, <1>5, JobAdded
<1>7. /\ lost' \in [Nodes -> SUBSET Tasks] /\ lost'[n] = lost[n] \ {y}
      /\ \A m \in Nodes \ {n} : lost'[m] = lost[m]
  BY <1>2 DEF TypeOK
<1>8. /\ debt' \in [Nodes -> Tasks \cup {NoTask}] /\ debt'[n] = y
      /\ \A m \in Nodes \ {n} : debt'[m] = debt[m]
  BY <1>2 DEF TypeOK
<1>9. /\ submitted' \in [Nodes -> Nat] /\ submitted'[n] = submitted[n] + 1
      /\ \A m \in Nodes \ {n} : submitted'[m] = submitted[m]
  BY <1>2 DEF TypeOK
<1>10. TypeOK'
  BY <1>2, <1>6, <1>7, <1>8, <1>9 DEF TypeOK, Jobs, net, sender
<1>11. \A m \in Nodes : InHand(m)' = InHand(m)
  BY <1>2 DEF InHand
<1>12. ShapeInv'
  BY <1>2, <1>6, <1>11 DEF ShapeInv, net
<1>13. NoticeInv'
  BY <1>2 DEF NoticeInv, Notice, sender
<1>14. \A x \in Tasks : \A l, p : \A m \in Nodes :
         Job(x, l, p) \in jobs'[m] <=>
           Job(x, l, p) \in jobs[m] \/ (m = n /\ x = y /\ l = "rerun" /\ p = "queued")
  BY <1>1, <1>6, JobInjective
<1>15. Moved({y}, "lost", n, "rerun", n, {})
  <2> SUFFICES ASSUME NEW x \in Tasks, NEW t \in Tags, NEW k \in Sites(t)
               PROVE  At(x, t, k)' <=> \/ At(x, t, k) /\ ~(x = y /\ t = "lost" /\ k = n)
                                       \/ x = y /\ t = "rerun" /\ k = n
    BY DEF Moved, Sites
  <2>1. CASE t = "lost"
    <3>1. k \in Nodes /\ (At(x, t, k)' <=> x \in lost'[k]) /\ (At(x, t, k) <=> x \in lost[k])
      BY <2>1 DEF Sites, At
    <3> QED
      BY <1>7, <2>1, <3>1
  <2>2. CASE t = "rerun"
    <3>1. /\ k \in Nodes
          /\ At(x, t, k)' <=> Job(x, "rerun", "queued") \in jobs'[k]
          /\ At(x, t, k) <=> Job(x, "rerun", "queued") \in jobs[k]
      BY <2>2 DEF Sites, At
    <3> QED
      BY <1>14, <2>2, <3>1
  <2>3. CASE t \in {"own", "reran"}
    <3>1. k \in Nodes
      BY <2>3 DEF Sites
    <3>2. At(x, t, k)' <=> At(x, t, k)
      BY <1>14, <2>3, <3>1 DEF At
    <3> QED
      BY <2>3, <3>2
  <2>4. CASE t \notin {"lost", "rerun", "own", "reran"}
    <3>1. At(x, t, k)' <=> At(x, t, k)
      BY <1>2, <2>4 DEF At
    <3> QED
      BY <2>4, <3>1
  <2> QED
    BY <2>1, <2>2, <2>3, <2>4
<1>16. HeldInv'
  BY <1>2, <1>3, <1>4, <1>15, HeldOneMoved
<1>17. /\ CopyInv' /\ \A x \in Tasks : Unrun(x)' => Unrun(x)
       /\ \A x \in Tasks : \A t \in CopyTags : \A k \in CopySites(t) : Copy(x, t, k)' => Copy(x, t, k)
  BY <1>2, <1>14, CopySame DEF net
<1>18. \A x \in Tasks : Reran(x) => Reran(x)'
  <2> SUFFICES ASSUME NEW x \in Tasks, Reran(x) PROVE Reran(x)'
    OBVIOUS
  <2>1. x # y /\ Origin[x] \in Nodes
    BY <1>2, <1>4, NodeAssumption DEF Reran
  <2>2. x \notin lost'[Origin[x]] /\ Job(x, "rerun", "queued") \notin jobs'[Origin[x]]
    BY <1>7, <1>14, <2>1 DEF Reran
  <2> QED
    BY <1>2, <2>2 DEF Reran
<1>19. ExecInv'
  BY <1>2, <1>17, <1>18, ExecKept
<1>20. \A x \in Tasks : Claimed(x)' => Claimed(x) \/ x = NoTask
  <2>1. \A x \in Tasks : \A t \in DoneTags : \A k \in Sites(t) : At(x, t, k)' => At(x, t, k) \/ x = NoTask
    BY <1>15 DEF Moved, DoneTags, Tags
  <2> QED
    BY <1>2, <1>17, <2>1, ClaimedSame DEF net, sender
<1>21. DoneInv'
  BY <1>2, <1>20, DoneKept, NodeAssumption
<1>22. LedgerBalanced'
  <2>1. Unsettled(n)' = Unsettled(n) + 1
    <3>1. /\ pool'[n] = pool[n] /\ outstanding'[n] = outstanding[n] /\ InHand(n)' = InHand(n)
      BY <1>2, <1>11
    <3>2. /\ Cardinality(pool[n]) \in Nat /\ Cardinality(jobs[n]) \in Nat
          /\ Cardinality(outstanding[n]) \in Nat /\ Cardinality(InHand(n)) \in Nat
          /\ Cardinality(lost[n]) \in Nat /\ IsFiniteSet(lost[n])
      BY UnsettledFinite
    <3>3. Cardinality(lost'[n]) = Cardinality(lost[n]) - 1
      BY <1>2, <1>7, <3>2, FS_RemoveElement
    <3>4. y # NoTask
      BY NodeAssumption
    <3> QED
      BY <1>2, <1>6, <1>8, <3>1, <3>2, <3>3, <3>4 DEF Unsettled
  <2> QED
    BY <1>2, <1>6, <1>7, <1>8, <1>9, <1>11, <2>1, UnsettledFinite, LedgerStep
<1> QED
  BY <1>10, <1>12, <1>13, <1>16, <1>17, <1>19, <1>21, <1>22

(* A worker runs the handler of a task its node re-runs.                   *)
LEMMA ExecRerun ==
  ASSUME TypeOK, ExecInv, NEW n \in Nodes, NEW y \in Tasks, RunHandler(n, y), UNCHANGED started,
         y \in started, ~Reran(y), Reran(y)',
         \A x \in Tasks : x # y => (Reran(x) <=> Reran(x)'),
         \A x \in Tasks : Unrun(x)' => Unrun(x)
  PROVE  ExecInv'
<1> SUFFICES ASSUME NEW x \in Tasks
             PROVE  /\ executed'[x] <= 1 + Extra(x)'
                    /\ Unrun(x)' => executed'[x] <= Extra(x)'
                    /\ executed'[x] # 0 => x \in started'
  BY DEF ExecInv
<1>1. executed[x] \in Nat /\ executed'[x] \in Nat /\ Extra(x) \in {0, 1}
  BY DEF TypeOK, Extra, RunHandler
<1>2. x # y => executed'[x] = executed[x] /\ Extra(x)' = Extra(x)
  BY DEF TypeOK, RunHandler, Extra
<1>3. executed'[y] <= executed[y] + 1
  BY DEF TypeOK, RunHandler
<1>4. x = y => Extra(x) = 0 /\ Extra(x)' = 1
  BY DEF Extra
<1> QED
  BY <1>1, <1>2, <1>3, <1>4 DEF ExecInv

(* A worker of the origin runs the closure the reaper submitted.           *)
LEMMA RunRerunInv ==
  ASSUME IInv, NEW n \in Nodes, NEW y \in Tasks, RunClosure(n, y, "rerun")
  PROVE  IInv'
<1> USE DEF IInv
<1>1. PICK i, j : i = Job(y, "rerun", "queued") /\ j = Job(y, "rerun", "ran")
  OBVIOUS
<1>2. /\ i \in jobs[n] /\ jobs' = [jobs EXCEPT ![n] = (@ \ {i}) \cup {j}]
      /\ RunHandler(n, y)
      /\ UNCHANGED <<state, submitted, completed, local_executed, pool, started, observed, net,
                     serve, steal, sender, outstanding, reaper>>
  BY <1>1 DEF RunClosure
<1>3. /\ "rerun" \in Tags /\ n \in Sites("rerun") /\ "reran" \in Tags /\ n \in Sites("reran")
      /\ "lost" \in Tags /\ n \in Sites("lost")
      /\ Home("rerun", n) = n /\ Home("reran", n) = n /\ At(y, "rerun", n)
  BY <1>1, <1>2 DEF Tags, Sites, Home, At
<1>4. y \in reaped /\ Origin[y] = n /\ j \notin jobs[n] /\ y \notin lost[n] /\ y \in started
  <2>1. ~At(y, "reran", n) /\ ~At(y, "lost", n)
    BY <1>3 DEF HeldInv, OnceInv
  <2> QED
    BY <1>1, <1>3, <2>1 DEF HeldInv, HomeInv, ReapedInv, StartedInv, At
<1>5. j \in Jobs /\ j.kind = "rerun" /\ j.at = "ran"
  BY <1>1, JobTypes
<1>6. /\ jobs' \in [Nodes -> SUBSET Jobs]
      /\ \A m \in Nodes : \A h : h \in jobs'[m] <=> \/ h \in jobs[m] /\ ~(m = n /\ h = i)
                                                    \/ m = n /\ h = j
      /\ \A m \in Nodes \ {n} : jobs'[m] = jobs[m]
      /\ \A m \in Nodes : IsFiniteSet(jobs'[m])
      /\ \A m \in Nodes : \A h \in jobs'[m] : /\ h.kind = "own" => h.at = "ran"
                                              /\ h.kind = "rerun" => h.at # "reported"
      /\ Cardinality(jobs'[n]) = Cardinality(jobs[n])
  BY <1>2, <1>4, <1>5, JobReplaced
<1>7. TypeOK'
  BY <1>2, <1>6, HandlerRuns DEF TypeOK, Jobs, net, sender, reaper
<1>8. \A m \in Nodes : InHand(m)' = InHand(m)
  BY <1>2 DEF InHand
<1>9. ShapeInv'
  BY <1>2, <1>6, <1>8 DEF ShapeInv, net
<1>10. NoticeInv'
  BY <1>2 DEF NoticeInv, Notice, sender
<1>11. \A x \in Tasks : \A l, p : \A m \in Nodes :
         Job(x, l, p) \in jobs'[m] <=>
           \/ Job(x, l, p) \in jobs[m] /\ ~(m = n /\ x = y /\ l = "rerun" /\ p = "queued")
           \/ m = n /\ x = y /\ l = "rerun" /\ p = "ran"
  BY <1>1, <1>6, JobInjective
<1>12. Moved({y}, "rerun", n, "reran", n, {})
  <2> SUFFICES ASSUME NEW x \in Tasks, NEW t \in Tags, NEW k \in Sites(t)
               PROVE  At(x, t, k)' <=> \/ At(x, t, k) /\ ~(x = y /\ t = "rerun" /\ k = n)
                                       \/ x = y /\ t = "reran" /\ k = n
    BY DEF Moved, Sites
  <2>1. CASE t = "rerun"
    <3>1. /\ k \in Nodes
          /\ At(x, t, k)' <=> Job(x, "rerun", "queued") \in jobs'[k]
          /\ At(x, t, k) <=> Job(x, "rerun", "queued") \in jobs[k]
      BY <2>1 DEF Sites, At
    <3> QED
      BY <1>11, <2>1, <3>1
  <2>2. CASE t = "reran"
    <3>1. /\ k \in Nodes
          /\ At(x, t, k)' <=> Job(x, "rerun", "ran") \in jobs'[k]
          /\ At(x, t, k) <=> Job(x, "rerun", "ran") \in jobs[k]
      BY <2>2 DEF Sites, At
    <3> QED
      BY <1>11, <2>2, <3>1
  <2>3. CASE t = "own"
    <3>1. k \in Nodes
      BY <2>3 DEF Sites
    <3>2. At(x, t, k)' <=> At(x, t, k)
      BY <1>11, <2>3, <3>1 DEF At
    <3> QED
      BY <2>3, <3>2
  <2>4. CASE t \notin {"rerun", "own", "reran"}
    <3>1. At(x, t, k)' <=> At(x, t, k)
      BY <1>2, <2>4 DEF At, reaper
    <3> QED
      BY <2>4, <3>1
  <2> QED
    BY <2>1, <2>2, <2>3, <2>4
<1>13. HeldInv'
  <2>1. UNCHANGED <<observed, started, reaped>>
    BY <1>2 DEF reaper
  <2> QED
    BY <1>3, <1>4, <1>12, <2>1, HeldOneMoved
<1>14. /\ CopyInv' /\ \A x \in Tasks : Unrun(x)' => Unrun(x)
       /\ \A x \in Tasks : \A t \in CopyTags : \A k \in CopySites(t) : Copy(x, t, k)' => Copy(x, t, k)
  BY <1>2, <1>11, CopySame DEF net
<1>15. ~Reran(y) /\ Reran(y)'
  <2>1. Job(y, "rerun", "queued") \notin jobs'[n]
    BY <1>11
  <2>2. ~Reran(y)
    BY <1>1, <1>2, <1>4 DEF Reran
  <2>3. Reran(y)'
    BY <1>2, <1>4, <2>1 DEF Reran, reaper
  <2> QED
    BY <2>2, <2>3
<1>16. \A x \in Tasks : x # y => (Reran(x) <=> Reran(x)')
  <2>1. \A x \in Tasks : x # y => (Job(x, "rerun", "queued") \in jobs'[Origin[x]]
                                   <=> Job(x, "rerun", "queued") \in jobs[Origin[x]])
    BY <1>11, NodeAssumption
  <2> QED
    BY <1>2, <2>1 DEF Reran, reaper
<1>17. ExecInv'
  BY <1>2, <1>4, <1>14, <1>15, <1>16, ExecRerun
<1>18. \A x \in Tasks : Claimed(x)' => Claimed(x) \/ x = y
  <2>1. \A x \in Tasks : \A t \in DoneTags : \A k \in Sites(t) : At(x, t, k)' => At(x, t, k) \/ x = y
    BY <1>12 DEF Moved, DoneTags, Tags
  <2> QED
    BY <1>2, <1>14, <2>1, ClaimedSame DEF net, sender
<1>19. DoneInv'
  BY <1>2, <1>18, HandlerRuns, DoneKept
<1>20. LedgerBalanced'
  <2>1. Unsettled(n)' = Unsettled(n)
    BY <1>2, <1>6, <1>8 DEF Unsettled, reaper
  <2> QED
    BY <1>2, <1>6, <1>8, <2>1, LedgerStep DEF reaper
<1> QED
  BY <1>7, <1>9, <1>10, <1>13, <1>14, <1>17, <1>19, <1>20

----------------------------------------------------------------------------
(* Tasks leave the pool.                                                   *)

(* A worker of the origin pops a task and runs it.                         *)
LEMMA RunPortableInv ==
  ASSUME IInv, NEW n \in Nodes, NEW y \in Tasks, RunPortable(n, y)
  PROVE  IInv'
<1> USE DEF IInv
<1>1. PICK j : j = Job(y, "own", "ran")
  OBVIOUS
<1>2. /\ y \in pool[n] /\ pool' = [pool EXCEPT ![n] = @ \ {y}]
      /\ jobs' = [jobs EXCEPT ![n] = @ \cup {j}]
      /\ RunHandler(n, y)
      /\ UNCHANGED <<state, submitted, completed, local_executed, started, observed, net,
                     serve, steal, sender, outstanding, reaper>>
  BY <1>1 DEF RunPortable
<1>3. /\ "pool" \in Tags /\ n \in Sites("pool") /\ "own" \in Tags /\ n \in Sites("own")
      /\ Home("pool", n) = n /\ Home("own", n) = n /\ At(y, "pool", n)
  BY <1>2 DEF Tags, Sites, Home, At
<1>4. y \notin reaped /\ j \notin jobs[n] /\ y \in started
  <2>1. ~At(y, "own", n)
    BY <1>3 DEF HeldInv, OnceInv
  <2> QED
    BY <1>1, <1>3, <2>1 DEF HeldInv, ReapedInv, StartedInv, At
<1>5. j \in Jobs /\ j.kind = "own" /\ j.at = "ran"
  BY <1>1, JobTypes
<1>6. /\ jobs' \in [Nodes -> SUBSET Jobs]
      /\ \A m \in Nodes : \A i : i \in jobs'[m] <=> i \in jobs[m] \/ (m = n /\ i = j)
      /\ \A m \in Nodes \ {n} : jobs'[m] = jobs[m]
      /\ \A m \in Nodes : IsFiniteSet(jobs'[m])
      /\ \A m \in Nodes : \A i \in jobs'[m] : /\ i.kind = "own" => i.at = "ran"
                                              /\ i.kind = "rerun" => i.at # "reported"
      /\ Cardinality(jobs'[n]) = Cardinality(jobs[n]) + 1
  BY <1>2, <1>4, <1>5, JobAdded
<1>7. /\ pool' \in [Nodes -> SUBSET Tasks]
      /\ \A m \in Nodes : \A x : x \in pool'[m] <=> x \in pool[m] /\ ~(m = n /\ x = y)
      /\ \A m \in Nodes \ {n} : pool'[m] = pool[m]
      /\ Cardinality(pool[n]) \in Nat /\ Cardinality(pool'[n]) = Cardinality(pool[n]) - 1
  BY <1>2, PoolRemoved
<1>8. TypeOK'
  BY <1>2, <1>6, <1>7, HandlerRuns DEF TypeOK, Jobs, net, sender, reaper
<1>9. \A m \in Nodes : InHand(m)' = InHand(m)
  BY <1>2 DEF InHand
<1>10. ShapeInv'
  BY <1>2, <1>6, <1>9 DEF ShapeInv, net
<1>11. NoticeInv'
  BY <1>2 DEF NoticeInv, Notice, sender
<1>12. \A x \in Tasks : \A l, p : \A m \in Nodes :
         Job(x, l, p) \in jobs'[m] <=>
           Job(x, l, p) \in jobs[m] \/ (m = n /\ x = y /\ l = "own" /\ p = "ran")
  BY <1>1, <1>6, JobInjective
<1>13. Moved({y}, "pool", n, "own", n, {})
  <2> SUFFICES ASSUME NEW x \in Tasks, NEW t \in Tags, NEW k \in Sites(t)
               PROVE  At(x, t, k)' <=> \/ At(x, t, k) /\ ~(x = y /\ t = "pool" /\ k = n)
                                       \/ x = y /\ t = "own" /\ k = n
    BY DEF Moved, Sites
  <2>1. CASE t = "pool"
    <3>1. k \in Nodes /\ (At(x, t, k)' <=> x \in pool'[k]) /\ (At(x, t, k) <=> x \in pool[k])
      BY <2>1 DEF Sites, At
    <3> QED
      BY <1>7, <2>1, <3>1
  <2>2. CASE t = "own"
    <3>1. /\ k \in Nodes
          /\ At(x, t, k)' <=> Job(x, "own", "ran") \in jobs'[k]
          /\ At(x, t, k) <=> Job(x, "own", "ran") \in jobs[k]
      BY <2>2 DEF Sites, At
    <3> QED
      BY <1>12, <2>2, <3>1
  <2>3. CASE t \in {"rerun", "reran"}
    <3>1. k \in Nodes
      BY <2>3 DEF Sites
    <3>2. At(x, t, k)' <=> At(x, t, k)
      BY <1>12, <2>3, <3>1 DEF At
    <3> QED
      BY <2>3, <3>2
  <2>4. CASE t \notin {"pool", "rerun", "own", "reran"}
    <3>1. At(x, t, k)' <=> At(x, t, k)
      BY <1>2, <2>4 DEF At, reaper
    <3> QED
      BY <2>4, <3>1
  <2> QED
    BY <2>1, <2>2, <2>3, <2>4
<1>14. HeldInv'
  <2>1. UNCHANGED <<observed, started, reaped>>
    BY <1>2 DEF reaper
  <2> QED
    BY <1>3, <1>4, <1>13, <2>1, HeldOneMoved
<1>15. \A x \in Tasks : \A t \in CopyTags : \A k \in CopySites(t) :
         Copy(x, t, k)' => Copy(x, t, k) /\ ~(x = y /\ t = "pool" /\ k = n)
  <2> SUFFICES ASSUME NEW x \in Tasks, NEW t \in CopyTags, NEW k \in CopySites(t), Copy(x, t, k)'
               PROVE  Copy(x, t, k) /\ ~(x = y /\ t = "pool" /\ k = n)
    OBVIOUS
  <2>1. CASE t = "pool"
    <3>1. k \in Nodes /\ x \in pool'[k]
      BY <2>1 DEF CopySites, Copy
    <3> QED
      BY <1>7, <2>1, <3>1 DEF Copy
  <2>2. CASE t \in {"queued", "ran", "reported"}
    <3>1. k \in Nodes /\ Job(x, "stolen", t) \in jobs'[k]
      BY <2>2 DEF CopySites, Copy
    <3> QED
      BY <1>12, <2>2, <3>1 DEF Copy
  <2>3. CASE t \notin {"pool", "queued", "ran", "reported"}
    BY <1>2, <2>3 DEF Copy, InResp, net
  <2> QED
    BY <2>1, <2>2, <2>3
<1>16. /\ CopyOnceInv' /\ CopyStartedInv' /\ CopyHomeInv'
       /\ \A x \in Tasks : Unrun(x)' => Unrun(x)
  BY <1>2, <1>15, CopyFewer DEF CopyInv
<1>17. RespInv'
  BY <1>2 DEF RespInv, CopyInv, net
<1>18. Unrun(y) /\ ~Unrun(y)'
  <2>1. "pool" \in UnrunTags /\ "pool" \in CopyTags /\ n \in CopySites("pool") /\ Copy(y, "pool", n)
    BY <1>2 DEF UnrunTags, CopyTags, CopySites, Copy
  <2>2. ASSUME Unrun(y)' PROVE FALSE
    <3>1. PICK t \in UnrunTags : \E k \in CopySites(t) : Copy(y, t, k)'
      BY <2>2 DEF Unrun, CopySites
    <3>2. PICK k \in CopySites(t) : Copy(y, t, k)'
      BY <3>1
    <3>3. t \in CopyTags
      BY DEF UnrunTags, CopyTags
    <3>4. Copy(y, t, k) /\ ~(t = "pool" /\ k = n)
      BY <1>15, <3>2, <3>3
    <3> QED
      BY <2>1, <3>3, <3>4 DEF CopyOnceInv, CopyInv
  <2> QED
    BY <2>1, <2>2 DEF Unrun
<1>19. \A x \in Tasks : Reran(x) <=> Reran(x)'
  <2>1. \A x \in Tasks : Job(x, "rerun", "queued") \in jobs'[Origin[x]]
                         <=> Job(x, "rerun", "queued") \in jobs[Origin[x]]
    BY <1>12, NodeAssumption
  <2> QED
    BY <1>2, <2>1 DEF Reran, reaper
<1>20. ExecInv'
  BY <1>2, <1>4, <1>16, <1>18, <1>19, ExecCopy
<1>21. \A x \in Tasks : Claimed(x)' => Claimed(x) \/ x = y
  <2>1. \A x \in Tasks : \A t \in DoneTags : \A k \in Sites(t) : At(x, t, k)' => At(x, t, k) \/ x = y
    BY <1>13 DEF Moved, DoneTags, Tags
  <2>2. \A x \in Tasks : \A t \in CopyTags : \A k \in CopySites(t) : Copy(x, t, k)' => Copy(x, t, k)
    BY <1>15
  <2> QED
    BY <1>2, <2>1, <2>2, ClaimedSame DEF net, sender
<1>22. DoneInv'
  BY <1>2, <1>21, HandlerRuns, DoneKept
<1>23. LedgerBalanced'
  <2>1. Unsettled(n)' = Unsettled(n)
    <3>1. /\ outstanding'[n] = outstanding[n] /\ InHand(n)' = InHand(n)
          /\ lost'[n] = lost[n] /\ debt'[n] = debt[n]
      BY <1>2, <1>9 DEF reaper
    <3>2. /\ Cardinality(pool[n]) \in Nat /\ Cardinality(jobs[n]) \in Nat
          /\ Cardinality(outstanding[n]) \in Nat /\ Cardinality(InHand(n)) \in Nat
          /\ Cardinality(lost[n]) \in Nat
      BY UnsettledFinite
    <3> QED
      BY <1>6, <1>7, <3>1, <3>2 DEF Unsettled
  <2> QED
    BY <1>2, <1>6, <1>7, <1>9, <2>1, LedgerStep DEF reaper
<1> QED
  BY <1>8, <1>10, <1>11, <1>14, <1>16, <1>17, <1>20, <1>22, <1>23 DEF CopyInv

(* A serve thread's hand after it took y.                                  *)
LEMMA HandTaken ==
  ASSUME TypeOK, ShapeInv, NEW c \in Conns, NEW y \in Tasks, NEW r \in Serves,
         serve' = [serve EXCEPT ![c] = r],
         r.at \in {"take", "finish"}, serve[c].at \in {"take", "recv"},
         serve[c].at = "recv" => serve[c].hand = {},
         y \notin serve[c].hand, r.hand = serve[c].hand \cup {y}
  PROVE  /\ \A m \in Nodes \ {c[2]} : InHand(m)' = InHand(m)
         /\ IsFiniteSet(InHand(c[2])')
         /\ Cardinality(InHand(c[2])') = Cardinality(InHand(c[2])) + 1
<1>1. /\ serve' \in [Conns -> Serves] /\ serve'[c] = r
      /\ \A d \in Conns : d # c => serve'[d] = serve[d]
  BY ServeUpdate
<1>2. c[2] \in Nodes
  BY ConnFacts
<1>3. \A m \in Nodes \ {c[2]} : InHand(m)' = InHand(m)
  <2> SUFFICES ASSUME NEW m \in Nodes \ {c[2]} PROVE InHand(m)' = InHand(m)
    OBVIOUS
  <2>1. \A d \in Conns : d[2] = m => d # c
    OBVIOUS
  <2> QED
    BY <1>1, <2>1 DEF InHand
<1>4. PICK e : e = <<c, y>>
  OBVIOUS
<1>5. e \in Conns \X Tasks /\ e[1] = c /\ e[2] = y
  BY <1>4
<1>6. e \notin InHand(c[2])
  BY <1>5 DEF InHand
<1>7. ASSUME NEW p \in Conns \X Tasks
      PROVE  p \in InHand(c[2])' <=> p \in InHand(c[2]) \/ p = e
  <2>0. p[1] \in Conns /\ p[2] \in Tasks /\ p = <<p[1], p[2]>>
    OBVIOUS
  <2>1. CASE p[1] = c
    <3>1. p \in InHand(c[2])' <=> p[2] \in serve[c].hand \/ p[2] = y
      BY <1>1, <2>1 DEF InHand
    <3>2. p \in InHand(c[2]) <=> p[2] \in serve[c].hand
      BY <2>1 DEF InHand
    <3>3. p[2] = y <=> p = e
      BY <1>4, <1>5, <2>0, <2>1
    <3> QED
      BY <3>1, <3>2, <3>3
  <2>2. CASE p[1] # c
    <3>1. serve'[p[1]] = serve[p[1]]
      BY <1>1, <2>0, <2>2
    <3>2. p \in InHand(c[2])' <=> p \in InHand(c[2])
      BY <3>1 DEF InHand
    <3> QED
      BY <1>5, <2>2, <3>2
  <2> QED
    BY <2>1, <2>2
<1>8. InHand(c[2])' = InHand(c[2]) \cup {e}
  <2>1. InHand(c[2]) \subseteq Conns \X Tasks /\ InHand(c[2])' \subseteq Conns \X Tasks
    BY DEF InHand
  <2> QED
    BY <1>5, <1>7, <2>1
<1>9. IsFiniteSet(InHand(c[2]))
  BY <1>2 DEF ShapeInv
<1> QED
  BY <1>3, <1>6, <1>8, <1>9, FS_AddElement

(* take_portable: a serve thread pops a task for the thief.                *)
LEMMA ServeTakeInv ==
  ASSUME IInv, NEW c \in Conns, NEW y \in Tasks, ServeTake(c, y)
  PROVE  IInv'
<1> USE DEF IInv
<1>1. PICK n \in Nodes : n = c[2]
  BY ConnFacts
<1>2. /\ serve[c].at = "take" /\ serve[c].give > 0 /\ y \in pool[n]
      /\ pool' = [pool EXCEPT ![n] = @ \ {y}]
      /\ serve' = [serve EXCEPT ![c].give = @ - 1, ![c].hand = @ \cup {y}]
      /\ UNCHANGED <<state, submitted, completed, local_executed, jobs, started, observed, net,
                     steal, sender, outstanding, reaper, executed>>
  BY <1>1 DEF ServeTake
<1>3. PICK r \in Serves : /\ serve' = [serve EXCEPT ![c] = r]
                          /\ r.at = "take" /\ r.hand = serve[c].hand \cup {y}
  <2>1. PICK s \in Serves : s = serve[c]
    BY ServeTypes
  <2>2. PICK r : r = [s EXCEPT !.give = @ - 1, !.hand = @ \cup {y}]
    OBVIOUS
  <2>3. serve' = [serve EXCEPT ![c] = r]
    BY <1>2, <2>1, <2>2 DEF TypeOK
  <2>4. s.give - 1 \in Nat /\ s.hand \cup {y} \in SUBSET Tasks
    BY <1>2, <2>1 DEF Serves
  <2>5. r \in Serves /\ r.at = s.at /\ r.hand = s.hand \cup {y}
    BY <2>2, <2>4 DEF Serves
  <2> QED
    BY <1>2, <2>1, <2>3, <2>5
<1>4. /\ serve' \in [Conns -> Serves] /\ serve'[c] = r
      /\ \A d \in Conns : d # c => serve'[d] = serve[d]
  BY <1>3, ServeUpdate
<1>5. /\ "pool" \in Tags /\ n \in Sites("pool") /\ "take" \in Tags /\ c \in Sites("take")
      /\ Home("pool", n) = n /\ Home("take", c) = n /\ At(y, "pool", n)
  BY <1>1, <1>2 DEF Tags, Sites, Home, At
<1>6. y \notin reaped /\ y \notin serve[c].hand /\ Origin[y] = n
  <2>1. ~At(y, "take", c)
    BY <1>5 DEF HeldInv, OnceInv
  <2>2. y \notin serve[c].hand
    BY <1>2, <2>1 DEF At
  <2> QED
    BY <1>5, <2>2 DEF HeldInv, HomeInv, ReapedInv
<1>7. /\ pool' \in [Nodes -> SUBSET Tasks]
      /\ \A m \in Nodes : \A x : x \in pool'[m] <=> x \in pool[m] /\ ~(m = n /\ x = y)
      /\ \A m \in Nodes \ {n} : pool'[m] = pool[m]
      /\ Cardinality(pool[n]) \in Nat /\ Cardinality(pool'[n]) = Cardinality(pool[n]) - 1
  BY <1>2, PoolRemoved
<1>8. TypeOK'
  BY <1>2, <1>4, <1>7 DEF TypeOK, Serves, net, sender, reaper
<1>9. /\ \A m \in Nodes \ {n} : InHand(m)' = InHand(m)
      /\ IsFiniteSet(InHand(n)') /\ Cardinality(InHand(n)') = Cardinality(InHand(n)) + 1
  BY <1>1, <1>2, <1>3, <1>6, HandTaken
<1>10. ShapeInv'
  <2>1. \A m \in Nodes : IsFiniteSet(InHand(m)')
    BY <1>9 DEF ShapeInv
  <2>2. \A d \in Conns : /\ serve'[d].at = "finish" => \E x \in Tasks : serve'[d].hand = {x}
                         /\ serve'[d].at = "recv" => serve'[d].hand = {}
    BY <1>3, <1>4 DEF ShapeInv
  <2> QED
    BY <1>2, <2>1, <2>2 DEF ShapeInv, net
<1>11. NoticeInv'
  BY <1>2 DEF NoticeInv, Notice, sender
<1>12. Moved({y}, "pool", n, "take", c, {})
  <2> SUFFICES ASSUME NEW x \in Tasks, NEW t \in Tags, NEW k \in Sites(t)
               PROVE  At(x, t, k)' <=> \/ At(x, t, k) /\ ~(x = y /\ t = "pool" /\ k = n)
                                       \/ x = y /\ t = "take" /\ k = c
    BY DEF Moved, Sites
  <2>1. CASE t = "pool"
    <3>1. k \in Nodes /\ (At(x, t, k)' <=> x \in pool'[k]) /\ (At(x, t, k) <=> x \in pool[k])
      BY <2>1 DEF Sites, At
    <3> QED
      BY <1>7, <2>1, <3>1
  <2>2. CASE t \in {"take", "finish"}
    <3>1. k \in Conns
      BY <2>2 DEF Sites
    <3>2. /\ At(x, t, k)' <=> serve'[k].at = t /\ x \in serve'[k].hand
          /\ At(x, t, k) <=> serve[k].at = t /\ x \in serve[k].hand
      BY <2>2 DEF At
    <3> QED
      BY <1>2, <1>3, <1>4, <2>2, <3>1, <3>2
  <2>3. CASE t \notin {"pool", "take", "finish"}
    <3>1. At(x, t, k)' <=> At(x, t, k)
      BY <1>2, <2>3 DEF At, reaper
    <3> QED
      BY <2>3, <3>1
  <2> QED
    BY <2>1, <2>2, <2>3
<1>13. HeldInv'
  <2>1. UNCHANGED <<observed, started, reaped>>
    BY <1>2 DEF reaper
  <2> QED
    BY <1>5, <1>6, <1>12, <2>1, HeldOneMoved
<1>14. CopyMoved({y}, "pool", n, "take", c, {})
  <2> SUFFICES ASSUME NEW x \in Tasks, NEW u \in CopyTags, NEW k \in CopySites(u), Copy(x, u, k)'
               PROVE  \/ Copy(x, u, k) /\ ~(x = y /\ u = "pool" /\ k = n)
                      \/ x = y /\ u = "take" /\ k = c
    BY DEF CopyMoved, CopySites
  <2>1. CASE u = "pool"
    <3>1. k \in Nodes /\ x \in pool'[k]
      BY <2>1 DEF CopySites, Copy
    <3> QED
      BY <1>7, <2>1, <3>1 DEF Copy
  <2>2. CASE u \in {"take", "send"}
    <3>1. k \in Conns /\ serve'[k].at = u /\ x \in serve'[k].hand
      BY <2>2 DEF CopySites, Copy
    <3>2. (x = y /\ u = "take" /\ k = c) \/ (serve[k].at = u /\ x \in serve[k].hand)
      BY <1>2, <1>3, <1>4, <2>2, <3>1
    <3> QED
      BY <2>2, <3>2 DEF Copy
  <2>3. CASE u \notin {"pool", "take", "send"}
    BY <1>2, <2>3 DEF Copy, InResp, net
  <2> QED
    BY <2>1, <2>2, <2>3
<1>15. /\ "pool" \in CopyTags /\ "pool" \in UnrunTags /\ n \in CopySites("pool")
       /\ "take" \in CopyTags /\ c \in CopySites("take")
  BY DEF CopyTags, CopySites, UnrunTags
<1>16. \A x \in {y} : Copy(x, "pool", n) /\ CopyHome(x, "take", c)
  BY <1>1, <1>2, <1>6 DEF Copy, CopyHome
<1>17. started' = started \cup {} /\ {} \in SUBSET Tasks /\ {} \cap started = {} /\ {y} \in SUBSET Tasks
  BY <1>2
<1>18. CopyOnceInv' /\ CopyStartedInv' /\ CopyHomeInv'
  BY <1>14, <1>15, <1>16, <1>17, CopyMovedInv DEF CopyInv
<1>19. RespInv'
  BY <1>2 DEF RespInv, CopyInv, net
<1>20. \A x \in Tasks : Unrun(x)' => Unrun(x)
  BY <1>14, <1>15, <1>16, <1>17, UnrunMoved
<1>21. ExecInv'
  BY <1>2, <1>20, RerunSame, ExecKept DEF reaper
<1>22. \A x \in Tasks : Claimed(x)' => Claimed(x)
  <2> SUFFICES ASSUME NEW x \in Tasks PROVE Claimed(x)' => Claimed(x)
    OBVIOUS
  <2>1. \A u \in {"ran", "reported"} : \A k \in Nodes : Copy(x, u, k)' => Copy(x, u, k)
    BY <1>2 DEF Copy
  <2>2. /\ \A u \in Nodes : Notice(x, u)' => Notice(x, u)
        /\ \A d \in Conns : Posted(x, d)' => Posted(x, d)
    BY <1>2, PostSame DEF sender, net
  <2>3. \A t \in DoneTags : \A k \in Sites(t) : At(x, t, k)' => At(x, t, k)
    BY <1>12 DEF Moved, DoneTags, Tags
  <2> QED
    BY <2>1, <2>2, <2>3, ClaimedBy, ClaimedStep
<1>23. DoneInv'
  BY <1>2, <1>22, DoneKept
<1>24. LedgerBalanced'
  <2>1. Unsettled(n)' = Unsettled(n)
    <3>1. /\ outstanding'[n] = outstanding[n] /\ jobs'[n] = jobs[n]
          /\ lost'[n] = lost[n] /\ debt'[n] = debt[n]
      BY <1>2 DEF reaper
    <3>2. /\ Cardinality(pool[n]) \in Nat /\ Cardinality(jobs[n]) \in Nat
          /\ Cardinality(outstanding[n]) \in Nat /\ Cardinality(InHand(n)) \in Nat
          /\ Cardinality(lost[n]) \in Nat
      BY UnsettledFinite
    <3> QED
      BY <1>7, <1>9, <3>1, <3>2 DEF Unsettled
  <2> QED
    BY <1>2, <1>7, <1>9, <2>1, LedgerStep DEF reaper
<1> QED
  BY <1>8, <1>10, <1>11, <1>13, <1>18, <1>19, <1>21, <1>23, <1>24 DEF CopyInv

(* A serve thread's hand after it tracked everything in it.                *)
LEMMA HandTracked ==
  ASSUME TypeOK, ShapeInv, NEW c \in Conns, NEW r \in Serves,
         serve[c].at = "take", serve' = [serve EXCEPT ![c] = r], r.at = "send"
  PROVE  /\ \A m \in Nodes \ {c[2]} : InHand(m)' = InHand(m)
         /\ IsFiniteSet(InHand(c[2])')
         /\ IsFiniteSet(serve[c].hand) /\ Cardinality(serve[c].hand) \in Nat
         /\ Cardinality(InHand(c[2])') = Cardinality(InHand(c[2])) - Cardinality(serve[c].hand)
<1>1. /\ serve' \in [Conns -> Serves] /\ serve'[c] = r
      /\ \A d \in Conns : d # c => serve'[d] = serve[d]
  BY ServeUpdate
<1>2. c[2] \in Nodes /\ serve[c].hand \subseteq Tasks
  BY ConnFacts, ServeTypes
<1>3. \A m \in Nodes \ {c[2]} : InHand(m)' = InHand(m)
  <2> SUFFICES ASSUME NEW m \in Nodes \ {c[2]} PROVE InHand(m)' = InHand(m)
    OBVIOUS
  <2>1. \A d \in Conns : d[2] = m => d # c
    OBVIOUS
  <2> QED
    BY <1>1, <2>1 DEF InHand
<1>4. PICK H, T : H = serve[c].hand /\ T = {c} \X H
  OBVIOUS
<1>5. IsFiniteSet(H) /\ Cardinality(H) \in Nat
  BY <1>2, <1>4, NodeAssumption, FS_Subset, FS_CardinalityType
<1>6. Cardinality(T) = Cardinality(H)
  <2>1. IsFiniteSet({c}) /\ Cardinality({c}) = 1
    BY FS_Singleton
  <2>2. Cardinality({c} \X H) = Cardinality({c}) * Cardinality(H)
    BY <1>5, <2>1, FS_Product
  <2> QED
    BY <1>4, <1>5, <2>1, <2>2
<1>7. T \subseteq InHand(c[2])
  <2> SUFFICES ASSUME NEW p \in T PROVE p \in InHand(c[2])
    OBVIOUS
  <2>1. p \in Conns \X Tasks /\ p[1] = c /\ p[2] \in H
    BY <1>2, <1>4
  <2> QED
    BY <1>4, <2>1 DEF InHand
<1>8. ASSUME NEW p \in Conns \X Tasks
      PROVE  p \in InHand(c[2])' <=> p \in InHand(c[2]) /\ p \notin T
  <2>0. p[1] \in Conns /\ p[2] \in Tasks /\ p = <<p[1], p[2]>>
    OBVIOUS
  <2>1. CASE p[1] = c
    <3>1. p \notin InHand(c[2])'
      BY <1>1, <2>1 DEF InHand
    <3>2. p \in InHand(c[2]) => p[2] \in H
      BY <1>4, <2>1 DEF InHand
    <3>3. p[2] \in H => p \in T
      BY <1>4, <2>0, <2>1
    <3> QED
      BY <3>1, <3>2, <3>3
  <2>2. CASE p[1] # c
    <3>1. serve'[p[1]] = serve[p[1]]
      BY <1>1, <2>0, <2>2
    <3>2. p \in InHand(c[2])' <=> p \in InHand(c[2])
      BY <3>1 DEF InHand
    <3>3. p \notin T
      BY <1>4, <2>2
    <3> QED
      BY <3>2, <3>3
  <2> QED
    BY <2>1, <2>2
<1>9. InHand(c[2])' = InHand(c[2]) \ T
  <2>1. InHand(c[2]) \subseteq Conns \X Tasks /\ InHand(c[2])' \subseteq Conns \X Tasks
    BY DEF InHand
  <2> QED
    BY <1>8, <2>1
<1>10. IsFiniteSet(InHand(c[2]))
  BY <1>2 DEF ShapeInv
<1>11. InHand(c[2]) \cap T = T
  BY <1>7
<1>12. /\ IsFiniteSet(InHand(c[2]) \ T)
       /\ Cardinality(InHand(c[2]) \ T) = Cardinality(InHand(c[2])) - Cardinality(T)
  <2>1. PICK I : I = InHand(c[2])
    OBVIOUS
  <2>2. IsFiniteSet(I) /\ I \cap T = T
    BY <1>10, <1>11, <2>1
  <2>3. IsFiniteSet(I \ T) /\ Cardinality(I \ T) = Cardinality(I) - Cardinality(I \cap T)
    BY <2>2, FS_Difference
  <2> QED
    BY <2>1, <2>2, <2>3
<1> QED
  BY <1>3, <1>4, <1>5, <1>6, <1>9, <1>12

(* track_outstanding: all that was taken becomes outstanding.              *)
LEMMA ServeTrackInv ==
  ASSUME IInv, NEW c \in Conns, ServeTrack(c)
  PROVE  IInv'
<1> USE DEF IInv
<1>1. PICK n \in Nodes : n = c[2]
  BY ConnFacts
<1>2. PICK S \in SUBSET Tasks : S = serve[c].hand
  BY ServeTypes
<1>3. /\ serve[c].at = "take"
      /\ outstanding' = [outstanding EXCEPT ![n] = @ \cup S]
      /\ serve' = [serve EXCEPT ![c].at = "send", ![c].give = 0]
      /\ UNCHANGED <<state, runtime, net, steal, sender, reaper, executed>>
  BY <1>1, <1>2 DEF ServeTrack
<1>4. PICK r \in Serves : serve' = [serve EXCEPT ![c] = r] /\ r.at = "send" /\ r.hand = S
  <2>1. PICK s \in Serves : s = serve[c]
    BY ServeTypes
  <2>2. PICK r : r = [s EXCEPT !.at = "send", !.give = 0]
    OBVIOUS
  <2>3. serve' = [serve EXCEPT ![c] = r]
    BY <1>3, <2>1, <2>2 DEF TypeOK
  <2>4. r \in Serves /\ r.at = "send" /\ r.hand = s.hand
    BY <2>2 DEF Serves
  <2> QED
    BY <1>2, <2>1, <2>3, <2>4
<1>5. /\ serve' \in [Conns -> Serves] /\ serve'[c] = r
      /\ \A d \in Conns : d # c => serve'[d] = serve[d]
  BY <1>4, ServeUpdate
<1>6. /\ outstanding' \in [Nodes -> SUBSET Tasks] /\ outstanding'[n] = outstanding[n] \cup S
      /\ \A m \in Nodes \ {n} : outstanding'[m] = outstanding[m]
  BY <1>3 DEF TypeOK
<1>7. TypeOK'
  BY <1>3, <1>5, <1>6 DEF TypeOK, Serves, runtime, net, sender, reaper
<1>8. /\ "take" \in Tags /\ c \in Sites("take") /\ "out" \in Tags /\ n \in Sites("out")
      /\ Home("take", c) = n /\ Home("out", n) = n
  BY <1>1 DEF Tags, Sites, Home
<1>9. \A x \in S : At(x, "take", c) /\ Origin[x] = n /\ x \notin reaped /\ x \notin outstanding[n]
  <2> SUFFICES ASSUME NEW x \in S
               PROVE  At(x, "take", c) /\ Origin[x] = n /\ x \notin reaped /\ x \notin outstanding[n]
    OBVIOUS
  <2>1. At(x, "take", c) /\ x \in Tasks
    BY <1>2, <1>3 DEF At
  <2>2. ~At(x, "out", n)
    BY <1>8, <2>1 DEF HeldInv, OnceInv
  <2>3. x \notin outstanding[n]
    BY <2>2 DEF At
  <2> QED
    BY <1>8, <2>1, <2>3 DEF HeldInv, HomeInv, ReapedInv
<1>10. /\ \A m \in Nodes \ {n} : InHand(m)' = InHand(m)
       /\ IsFiniteSet(InHand(n)') /\ IsFiniteSet(S) /\ Cardinality(S) \in Nat
       /\ Cardinality(InHand(n)') = Cardinality(InHand(n)) - Cardinality(S)
  BY <1>1, <1>2, <1>3, <1>4, HandTracked
<1>11. ShapeInv'
  <2>1. \A m \in Nodes : IsFiniteSet(InHand(m)')
    BY <1>10 DEF ShapeInv
  <2>2. \A d \in Conns : /\ serve'[d].at = "finish" => \E x \in Tasks : serve'[d].hand = {x}
                         /\ serve'[d].at = "recv" => serve'[d].hand = {}
    BY <1>4, <1>5 DEF ShapeInv
  <2> QED
    BY <1>3, <2>1, <2>2 DEF ShapeInv, net, runtime
<1>12. NoticeInv'
  BY <1>3 DEF NoticeInv, Notice, sender
<1>13. Moved(S, "take", c, "out", n, {})
  <2> SUFFICES ASSUME NEW x \in Tasks, NEW t \in Tags, NEW k \in Sites(t)
               PROVE  At(x, t, k)' <=> \/ At(x, t, k) /\ ~(x \in S /\ t = "take" /\ k = c)
                                       \/ x \in S /\ t = "out" /\ k = n
    BY DEF Moved, Sites
  <2>1. CASE t = "out"
    <3>1. k \in Nodes /\ (At(x, t, k)' <=> x \in outstanding'[k]) /\ (At(x, t, k) <=> x \in outstanding[k])
      BY <2>1 DEF Sites, At
    <3> QED
      BY <1>6, <2>1, <3>1
  <2>2. CASE t \in {"take", "finish"}
    <3>1. k \in Conns
      BY <2>2 DEF Sites
    <3>2. /\ At(x, t, k)' <=> serve'[k].at = t /\ x \in serve'[k].hand
          /\ At(x, t, k) <=> serve[k].at = t /\ x \in serve[k].hand
      BY <2>2 DEF At
    <3> QED
      BY <1>2, <1>3, <1>4, <1>5, <2>2, <3>1, <3>2
  <2>3. CASE t \notin {"out", "take", "finish"}
    <3>1. At(x, t, k)' <=> At(x, t, k)
      BY <1>3, <2>3 DEF At, reaper, runtime
    <3> QED
      BY <2>3, <3>1
  <2> QED
    BY <2>1, <2>2, <2>3
<1>14. HeldInv'
  <2>1. PICK N \in SUBSET Tasks : N = {}
    OBVIOUS
  <2>2. Moved(S, "take", c, "out", n, N)
    BY <1>13, <2>1
  <2>3. N \cap started = {} /\ started' = started \cup N /\ UNCHANGED <<observed, reaped>>
    BY <1>3, <2>1 DEF runtime, reaper
  <2>4. AdvancesOnce'
    BY <2>3 DEF AdvancesOnce, HeldInv, ChainInv
  <2>5. /\ \A x \in Tasks : Stage[x] # NoTask => (Stage[x] \in N <=> observed[x] = 0 /\ observed'[x] # 0)
        /\ \A x \in Tasks : observed[x] # 0 => observed'[x] # 0
    BY <2>1, <2>3
  <2>6. /\ reaped \subseteq reaped' /\ reaped' \subseteq reaped \cup S /\ S \cap reaped' = {}
        /\ "out" \notin {"lost", "rerun", "reran"}
    BY <1>9, <2>3
  <2>7. \A x \in S : At(x, "take", c)
    BY <1>9
  <2>8. Home("take", c) = Home("out", n)
    BY <1>8
  <2> QED
    BY <1>8, <2>2, <2>3, <2>4, <2>5, <2>6, <2>7, <2>8, HeldMoved
<1>15. CopyMoved(S, "take", c, "send", c, {})
  <2> SUFFICES ASSUME NEW x \in Tasks, NEW u \in CopyTags, NEW k \in CopySites(u), Copy(x, u, k)'
               PROVE  \/ Copy(x, u, k) /\ ~(x \in S /\ u = "take" /\ k = c)
                      \/ x \in S /\ u = "send" /\ k = c
    BY DEF CopyMoved, CopySites
  <2>1. CASE u \in {"take", "send"}
    <3>1. k \in Conns /\ serve'[k].at = u /\ x \in serve'[k].hand
      BY <2>1 DEF CopySites, Copy
    <3>2. CASE k = c
      BY <1>4, <1>5, <3>1, <3>2
    <3>3. CASE k # c
      BY <1>5, <2>1, <3>1, <3>3 DEF Copy
    <3> QED
      BY <3>2, <3>3
  <2>2. CASE u \notin {"take", "send"}
    BY <1>3, <2>2 DEF Copy, InResp, net, runtime
  <2> QED
    BY <2>1, <2>2
<1>16. /\ "take" \in CopyTags /\ "take" \in UnrunTags /\ c \in CopySites("take")
       /\ "send" \in CopyTags /\ c \in CopySites("send")
  BY DEF CopyTags, CopySites, UnrunTags
<1>17. \A x \in S : Copy(x, "take", c) /\ CopyHome(x, "send", c)
  <2> SUFFICES ASSUME NEW x \in S PROVE Copy(x, "take", c) /\ CopyHome(x, "send", c)
    OBVIOUS
  <2>1. Copy(x, "take", c)
    BY <1>2, <1>3 DEF Copy
  <2> QED
    BY <1>1, <1>9, <2>1 DEF CopyHome
<1>18. started' = started \cup {} /\ {} \in SUBSET Tasks /\ {} \cap started = {}
  BY <1>3 DEF runtime
<1>19. CopyOnceInv' /\ CopyStartedInv' /\ CopyHomeInv'
  BY <1>15, <1>16, <1>17, <1>18, CopyMovedInv DEF CopyInv
<1>20. RespInv'
  BY <1>3 DEF RespInv, CopyInv, net
<1>21. \A x \in Tasks : Unrun(x)' => Unrun(x)
  BY <1>15, <1>16, <1>17, <1>18, UnrunMoved
<1>22. ExecInv'
  BY <1>3, <1>21, RerunSame, ExecKept DEF reaper, runtime
<1>23. \A x \in Tasks : Claimed(x)' => Claimed(x)
  <2> SUFFICES ASSUME NEW x \in Tasks PROVE Claimed(x)' => Claimed(x)
    OBVIOUS
  <2>1. \A u \in {"ran", "reported"} : \A k \in Nodes : Copy(x, u, k)' => Copy(x, u, k)
    BY <1>3 DEF Copy, runtime
  <2>2. /\ \A u \in Nodes : Notice(x, u)' => Notice(x, u)
        /\ \A d \in Conns : Posted(x, d)' => Posted(x, d)
    BY <1>3, PostSame DEF sender, net
  <2>3. \A t \in DoneTags : \A k \in Sites(t) : At(x, t, k)' => At(x, t, k)
    BY <1>13 DEF Moved, DoneTags, Tags
  <2> QED
    BY <2>1, <2>2, <2>3, ClaimedBy, ClaimedStep
<1>24. DoneInv'
  BY <1>3, <1>23, DoneKept
<1>25. LedgerBalanced'
  <2>1. Unsettled(n)' = Unsettled(n)
    <3>1. /\ pool'[n] = pool[n] /\ jobs'[n] = jobs[n]
          /\ lost'[n] = lost[n] /\ debt'[n] = debt[n]
      BY <1>3 DEF reaper, runtime
    <3>2. /\ Cardinality(pool[n]) \in Nat /\ Cardinality(jobs[n]) \in Nat
          /\ Cardinality(outstanding[n]) \in Nat /\ Cardinality(InHand(n)) \in Nat
          /\ Cardinality(lost[n]) \in Nat /\ IsFiniteSet(outstanding[n])
      BY UnsettledFinite
    <3>3. PICK O : O = outstanding[n]
      OBVIOUS
    <3>4. O \cap S = {} /\ IsFiniteSet(O)
      BY <1>9, <3>2, <3>3
    <3>5. Cardinality(O \cup S) = Cardinality(O) + Cardinality(S) - Cardinality(O \cap S)
      BY <1>10, <3>4, FS_Union
    <3>6. Cardinality(O \cap S) = 0
      BY <3>4, FS_EmptySet
    <3>7. Cardinality(outstanding'[n]) = Cardinality(outstanding[n]) + Cardinality(S)
      BY <1>6, <1>10, <3>2, <3>3, <3>5, <3>6
    <3> QED
      BY <1>10, <3>1, <3>2, <3>7 DEF Unsettled
  <2> QED
    BY <1>3, <1>6, <1>10, <2>1, LedgerStep DEF reaper, runtime
<1> QED
  BY <1>7, <1>11, <1>12, <1>14, <1>19, <1>20, <1>22, <1>24, <1>25 DEF CopyInv

(* serve_peer reads a result that nobody waits for: it is ignored.         *)
LEMMA ServeLateInv ==
  ASSUME IInv, NEW c \in Conns, ServeResult(c), Head(chan[c]).task \notin outstanding[c[2]]
  PROVE  IInv'
<1> USE DEF IInv
<1>1. /\ chan[c] # <<>> /\ chan' = [chan EXCEPT ![c] = Tail(@)]
      /\ UNCHANGED <<state, runtime, opened, connected, resp, steal, sender, reaper, executed>>
  BY DEF ServeResult
<1>2. UNCHANGED <<outstanding, serve>>
  <2>1. PICK x : x = Head(chan[c]).task
    OBVIOUS
  <2>2. outstanding' = [outstanding EXCEPT ![c[2]] = @ \ {x}] /\ UNCHANGED serve
    BY <2>1 DEF ServeResult
  <2>3. c[2] \in Nodes /\ outstanding[c[2]] \ {x} = outstanding[c[2]]
    BY <2>1, ConnFacts
  <2> QED
    BY <2>2, <2>3 DEF TypeOK
<1>3. TypeOK'
  BY <1>1, <1>2, ChanTail DEF TypeOK, Messages, runtime, sender, reaper
<1>4. \A x \in Tasks, d \in Conns : Posted(x, d)' => Posted(x, d)
  BY <1>1, ChanTail
<1>5. \A x \in Tasks, u \in Nodes : Notice(x, u)' => Notice(x, u)
  BY <1>1 DEF Notice, sender
<1>6. \A t \in Nodes : steal'[t].at = "wait" =>
        steal'[t].victim # t /\ opened'[<<t, steal'[t].victim>>] > 0
  BY <1>1 DEF ShapeInv
<1> QED
  BY <1>1, <1>2, <1>3, <1>4, <1>5, <1>6, QuietInv

(* resolve_outstanding: the result of an outstanding task is taken up.     *)
LEMMA ServeOwedInv ==
  ASSUME IInv, NEW c \in Conns, ServeResult(c), Head(chan[c]).task \in outstanding[c[2]]
  PROVE  IInv'
<1> USE DEF IInv
<1>1. PICK n \in Nodes : n = c[2]
  BY ConnFacts
<1>2. PICK y \in Tasks : y = Head(chan[c]).task /\ Posted(y, c)
  <2>1. /\ chan[c] # <<>> /\ chan' = [chan EXCEPT ![c] = Tail(@)] /\ Head(chan[c]) # Request
    BY DEF ServeResult
  <2>2. PICK x \in Tasks : Head(chan[c]) = Result(x)
    BY <2>1, ChanTail DEF Messages
  <2>3. Posted(x, c)
    BY <2>1, <2>2, ChanTail
  <2>4. Result(x).task = x
    BY DEF Result
  <2> QED
    BY <2>2, <2>3, <2>4
<1>3. PICK r : r = [at |-> "finish", give |-> 0, hand |-> {y}]
  OBVIOUS
<1>4. /\ y \in outstanding[n] /\ serve[c] = IdleServe /\ chan[c] # <<>>
      /\ chan' = [chan EXCEPT ![c] = Tail(@)]
      /\ outstanding' = [outstanding EXCEPT ![n] = @ \ {y}]
      /\ serve' = [serve EXCEPT ![c] = r]
      /\ UNCHANGED <<state, runtime, opened, connected, resp, steal, sender, reaper, executed>>
  BY <1>1, <1>2, <1>3 DEF ServeResult
<1>5. r \in Serves /\ r.at = "finish" /\ r.hand = {y}
  BY <1>3 DEF Serves
<1>6. serve[c].at = "recv" /\ serve[c].hand = {}
  BY <1>4, ServeTypes
<1>7. /\ serve' \in [Conns -> Serves] /\ serve'[c] = r
      /\ \A d \in Conns : d # c => serve'[d] = serve[d]
  BY <1>4, <1>5, ServeUpdate
<1>8. /\ outstanding' \in [Nodes -> SUBSET Tasks] /\ outstanding'[n] = outstanding[n] \ {y}
      /\ \A m \in Nodes \ {n} : outstanding'[m] = outstanding[m]
  BY <1>4 DEF TypeOK
<1>9. TypeOK'
  BY <1>4, <1>7, <1>8, ChanTail DEF TypeOK, Serves, Messages, runtime, sender, reaper
<1>10. /\ "out" \in Tags /\ n \in Sites("out") /\ "finish" \in Tags /\ c \in Sites("finish")
       /\ Home("out", n) = n /\ Home("finish", c) = n /\ At(y, "out", n)
  BY <1>1, <1>4 DEF Tags, Sites, Home, At
<1>11. y \notin reaped
  BY <1>10 DEF HeldInv, ReapedInv
<1>12. /\ \A m \in Nodes \ {n} : InHand(m)' = InHand(m)
       /\ IsFiniteSet(InHand(n)') /\ Cardinality(InHand(n)') = Cardinality(InHand(n)) + 1
  <2>1. y \notin serve[c].hand /\ r.hand = serve[c].hand \cup {y}
    BY <1>5, <1>6
  <2> QED
    BY <1>1, <1>4, <1>5, <1>6, <2>1, HandTaken
<1>13. ShapeInv'
  <2>1. \A m \in Nodes : IsFiniteSet(InHand(m)')
    BY <1>12 DEF ShapeInv
  <2>2. \A d \in Conns : /\ serve'[d].at = "finish" => \E x \in Tasks : serve'[d].hand = {x}
                         /\ serve'[d].at = "recv" => serve'[d].hand = {}
    BY <1>5, <1>7 DEF ShapeInv
  <2> QED
    BY <1>4, <2>1, <2>2 DEF ShapeInv, runtime
<1>14. NoticeInv'
  BY <1>4 DEF NoticeInv, Notice, sender
<1>15. Moved({y}, "out", n, "finish", c, {})
  <2> SUFFICES ASSUME NEW x \in Tasks, NEW t \in Tags, NEW k \in Sites(t)
               PROVE  At(x, t, k)' <=> \/ At(x, t, k) /\ ~(x = y /\ t = "out" /\ k = n)
                                       \/ x = y /\ t = "finish" /\ k = c
    BY DEF Moved, Sites
  <2>1. CASE t = "out"
    <3>1. k \in Nodes /\ (At(x, t, k)' <=> x \in outstanding'[k]) /\ (At(x, t, k) <=> x \in outstanding[k])
      BY <2>1 DEF Sites, At
    <3> QED
      BY <1>8, <2>1, <3>1
  <2>2. CASE t \in {"take", "finish"}
    <3>1. k \in Conns
      BY <2>2 DEF Sites
    <3>2. /\ At(x, t, k)' <=> serve'[k].at = t /\ x \in serve'[k].hand
          /\ At(x, t, k) <=> serve[k].at = t /\ x \in serve[k].hand
      BY <2>2 DEF At
    <3> QED
      BY <1>5, <1>6, <1>7, <2>2, <3>1, <3>2
  <2>3. CASE t \notin {"out", "take", "finish"}
    <3>1. At(x, t, k)' <=> At(x, t, k)
      BY <1>4, <2>3 DEF At, reaper, runtime
    <3> QED
      BY <2>3, <3>1
  <2> QED
    BY <2>1, <2>2, <2>3
<1>16. HeldInv'
  <2>1. UNCHANGED <<observed, started, reaped>>
    BY <1>4 DEF reaper, runtime
  <2> QED
    BY <1>10, <1>11, <1>15, <2>1, HeldOneMoved
<1>17. \A x \in Tasks : \A u \in CopyTags : \A k \in CopySites(u) : Copy(x, u, k)' => Copy(x, u, k)
  <2> SUFFICES ASSUME NEW x \in Tasks, NEW u \in CopyTags, NEW k \in CopySites(u), Copy(x, u, k)'
               PROVE  Copy(x, u, k)
    OBVIOUS
  <2>1. CASE u \in {"take", "send"}
    <3>1. k \in Conns /\ serve'[k].at = u /\ x \in serve'[k].hand
      BY <2>1 DEF CopySites, Copy
    <3> QED
      BY <1>5, <1>7, <2>1, <3>1 DEF Copy
  <2>2. CASE u \notin {"take", "send"}
    BY <1>4, <2>2 DEF Copy, InResp, runtime
  <2> QED
    BY <2>1, <2>2
<1>18. /\ CopyOnceInv' /\ CopyStartedInv' /\ CopyHomeInv'
       /\ \A x \in Tasks : Unrun(x)' => Unrun(x)
  BY <1>4, <1>17, CopyFewer DEF CopyInv, runtime
<1>19. RespInv'
  BY <1>4 DEF RespInv, CopyInv
<1>20. ExecInv'
  BY <1>4, <1>18, RerunSame, ExecKept DEF runtime, reaper
<1>21. \A x \in Tasks : Claimed(x)' => Claimed(x)
  <2> SUFFICES ASSUME NEW x \in Tasks PROVE Claimed(x)' => Claimed(x)
    OBVIOUS
  <2>1. \A u \in {"ran", "reported"} : \A k \in Nodes : Copy(x, u, k)' => Copy(x, u, k)
    BY <1>4 DEF Copy, runtime
  <2>2. \A u \in Nodes : Notice(x, u)' => Notice(x, u)
    BY <1>4 DEF Notice, sender
  <2>3. \A d \in Conns : Posted(x, d)' => Posted(x, d)
    BY <1>4, ChanTail
  <2>4. Claimed(y)
    BY <1>2, ClaimedBy
  <2>5. \A t \in DoneTags : \A k \in Sites(t) : At(x, t, k)' => At(x, t, k) \/ x = y
    BY <1>15 DEF Moved, DoneTags, Tags
  <2> QED
    BY <2>1, <2>2, <2>3, <2>4, <2>5, ClaimedBy, ClaimedStep
<1>22. DoneInv'
  BY <1>4, <1>21, DoneKept
<1>23. LedgerBalanced'
  <2>1. Unsettled(n)' = Unsettled(n)
    <3>1. /\ pool'[n] = pool[n] /\ jobs'[n] = jobs[n]
          /\ lost'[n] = lost[n] /\ debt'[n] = debt[n]
      BY <1>4 DEF reaper, runtime
    <3>2. /\ Cardinality(pool[n]) \in Nat /\ Cardinality(jobs[n]) \in Nat
          /\ Cardinality(outstanding[n]) \in Nat /\ Cardinality(InHand(n)) \in Nat
          /\ Cardinality(lost[n]) \in Nat /\ IsFiniteSet(outstanding[n])
      BY UnsettledFinite
    <3>3. Cardinality(outstanding'[n]) = Cardinality(outstanding[n]) - 1
      BY <1>4, <1>8, <3>2, FS_RemoveElement
    <3> QED
      BY <1>12, <3>1, <3>2, <3>3 DEF Unsettled
  <2> QED
    BY <1>4, <1>8, <1>12, <2>1, LedgerStep DEF reaper, runtime
<1> QED
  BY <1>9, <1>13, <1>14, <1>16, <1>18, <1>19, <1>20, <1>22, <1>23 DEF CopyInv

----------------------------------------------------------------------------
(* The invariant, and what follows from it.                                *)

(* Nothing is held, under way or owed in the initial state.                *)
LEMMA InitInv == Init => IInv
<1> SUFFICES ASSUME Init PROVE IInv
  OBVIOUS
<1>1. /\ \A n \in Nodes : /\ pool[n] = {} /\ jobs[n] = {} /\ outstanding[n] = {} /\ lost[n] = {}
                          /\ debt[n] = NoTask /\ submitted[n] = 0 /\ completed[n] = 0
                          /\ steal[n] = IdleSteal /\ completions[n] = <<>> /\ batch[n] = <<>>
      /\ \A c \in Conns : serve[c] = IdleServe /\ resp[c] = <<>> /\ chan[c] = <<>>
      /\ \A x \in Tasks : executed[x] = 0 /\ observed[x] = 0
      /\ started = {} /\ reaped = {}
  BY DEF Init
<1>2. TypeOK
  <2>1. IdleServe \in Serves
    BY DEF IdleServe, Serves
  <2>2. PICK e : e = <<>>
    OBVIOUS
  <2>3. e \in Seq(Messages) /\ e \in Seq(SUBSET Tasks) /\ e \in Seq(Tasks)
    BY <2>2
  <2>4. chan = [c \in Conns |-> e] /\ resp = [c \in Conns |-> e]
        /\ completions = [n \in Nodes |-> e] /\ batch = [n \in Nodes |-> e]
    BY <2>2 DEF Init
  <2>5. /\ chan \in [Conns -> Seq(Messages)] /\ resp \in [Conns -> Seq(SUBSET Tasks)]
        /\ completions \in [Nodes -> Seq(Tasks)] /\ batch \in [Nodes -> Seq(Tasks)]
    BY <2>3, <2>4
  <2>6. serve \in [Conns -> Serves]
    BY <2>1 DEF Init
  <2>7. steal \in [Nodes -> Steals]
    BY DEF Init, Steals
  <2>8. /\ opened \in [Nodes \X Nodes -> 0 .. MaxConns]
        /\ connected \in [Nodes \X Nodes -> BOOLEAN]
        /\ \A l \in Nodes \X Nodes : ~connected[l]
    BY NodeAssumption DEF Init
  <2>9. /\ state \in [Nodes -> {"up", "stopping", "shutdown", "stopped", "crashed"}]
        /\ submitted \in [Nodes -> Nat] /\ completed \in [Nodes -> Nat]
        /\ local_executed \in [Nodes -> Nat]
        /\ pool \in [Nodes -> SUBSET Tasks]
        /\ jobs \in [Nodes -> SUBSET Jobs]
        /\ outstanding \in [Nodes -> SUBSET Tasks] /\ lost \in [Nodes -> SUBSET Tasks]
        /\ debt \in [Nodes -> Tasks \cup {NoTask}]
        /\ started \subseteq Tasks /\ reaped \subseteq Tasks
        /\ executed \in [Tasks -> Nat] /\ observed \in [Tasks -> Nat]
    BY DEF Init
  <2> QED
    BY <2>5, <2>6, <2>7, <2>8, <2>9 DEF TypeOK, Messages, Serves, Steals, Jobs
<1>3. IdleServe.at = "recv" /\ IdleServe.hand = {} /\ IdleSteal.at = "idle" /\ IdleSteal.tasks = {}
  BY DEF IdleServe, IdleSteal
<1>4. \A n \in Nodes : InHand(n) = {}
  <2> SUFFICES ASSUME NEW n \in Nodes, NEW p \in InHand(n) PROVE FALSE
    OBVIOUS
  <2>1. p[1] \in Conns /\ serve[p[1]].at \in {"take", "finish"}
    BY DEF InHand
  <2> QED
    BY <1>1, <1>3, <2>1
<1>5. ShapeInv
  BY <1>1, <1>3, <1>4, FS_EmptySet DEF ShapeInv
<1>6. NoticeInv
  <2>1. \A x \in Tasks, t \in Nodes : ~Notice(x, t)
    BY <1>1 DEF Notice
  <2> QED
    BY <2>1 DEF NoticeInv
<1>7. \A x \in Tasks : \A t \in Tags : \A k \in Sites(t) : ~At(x, t, k)
  <2> SUFFICES ASSUME NEW x \in Tasks, NEW t \in Tags, NEW k \in Sites(t), At(x, t, k) PROVE FALSE
    OBVIOUS
  <2>1. CASE t \in {"take", "finish"}
    <3>1. k \in Conns
      BY <2>1 DEF Sites
    <3> QED
      BY <1>1, <1>3, <2>1, <3>1 DEF At
  <2>2. CASE t \notin {"take", "finish"}
    <3>1. k \in Nodes
      BY <2>2 DEF Sites
    <3> QED
      BY <1>1, <2>2, <3>1 DEF At
  <2> QED
    BY <2>1, <2>2
<1>8. HeldInv
  BY <1>1, <1>7, NodeAssumption DEF HeldInv, OnceInv, StartedInv, HomeInv, ReapedInv, ChainInv, AdvancesOnce
<1>9. \A x \in Tasks : \A t \in CopyTags : \A k \in CopySites(t) : ~Copy(x, t, k)
  <2> SUFFICES ASSUME NEW x \in Tasks, NEW t \in CopyTags, NEW k \in CopySites(t), Copy(x, t, k)
               PROVE  FALSE
    OBVIOUS
  <2>1. CASE t \in {"take", "send", "resp"}
    <3>1. k \in Conns
      BY <2>1 DEF CopySites
    <3>2. ~InResp(x, k)
      BY <1>1, <3>1 DEF InResp
    <3> QED
      BY <1>1, <1>3, <2>1, <3>1, <3>2 DEF Copy
  <2>2. CASE t \notin {"take", "send", "resp"}
    <3>1. k \in Nodes
      BY <2>2 DEF CopySites
    <3> QED
      BY <1>1, <1>3, <2>2, <3>1 DEF Copy
  <2> QED
    BY <2>1, <2>2
<1>10. CopyInv
  <2>1. CopyOnceInv /\ CopyStartedInv /\ CopyHomeInv
    BY <1>9 DEF CopyOnceInv, CopyStartedInv, CopyHomeInv
  <2>2. RespInv
    BY <1>1 DEF RespInv
  <2> QED
    BY <2>1, <2>2 DEF CopyInv
<1>11. ExecInv
  <2>1. \A x \in Tasks : Extra(x) \in {0, 1}
    BY DEF Extra
  <2> QED
    BY <1>1, <2>1 DEF ExecInv
<1>12. DoneInv
  <2>1. ASSUME NEW x \in Tasks, Claimed(x) PROVE FALSE
    <3>1. \A t \in DoneTags : \A k \in Sites(t) : ~At(x, t, k)
      BY <1>7 DEF DoneTags, Tags
    <3>2. \A t \in {"ran", "reported"} : \A k \in Nodes : ~Copy(x, t, k)
      BY <1>9 DEF CopyTags, CopySites
    <3>3. \A t \in Nodes : ~Notice(x, t)
      BY <1>1 DEF Notice
    <3>4. \A c \in Conns : ~Posted(x, c)
      BY <1>1 DEF Posted
    <3> QED
      BY <2>1, <3>1, <3>2, <3>3, <3>4 DEF Claimed
  <2> QED
    BY <2>1 DEF DoneInv
<1>13. LedgerBalanced
  <2>1. \A n \in Nodes : Unsettled(n) = 0
    <3>1. PICK z : z = {}
      OBVIOUS
    <3>2. Cardinality(z) = 0
      BY <3>1, FS_EmptySet
    <3>3. \A n \in Nodes : /\ pool[n] = z /\ jobs[n] = z /\ outstanding[n] = z /\ lost[n] = z
                           /\ InHand(n) = z /\ debt[n] = NoTask
      BY <1>1, <1>4, <3>1
    <3> QED
      BY <3>2, <3>3 DEF Unsettled
  <2> QED
    BY <1>1, <2>1 DEF LedgerBalanced
<1> QED
  BY <1>2, <1>5, <1>6, <1>8, <1>10, <1>11, <1>12, <1>13 DEF IInv

(* Every step keeps the invariant.                                         *)
LEMMA NextInv == IInv /\ [Next]_vars => IInv'
<1> SUFFICES ASSUME IInv, [Next]_vars PROVE IInv'
  OBVIOUS
<1>1. ASSUME NEW n \in Nodes, NEW x \in Tasks, SubmitPortable(n, x) PROVE IInv'
  BY <1>1, SubmitPortableInv
<1>2. ASSUME NEW n \in Nodes, WorkerStep(n) PROVE IInv'
  <2>1. PICK x \in Tasks : \/ RunPortable(n, x) \/ EnqueueCompletion(n, x)
                           \/ \E kind \in {"stolen", "rerun"} : RunClosure(n, x, kind)
                           \/ \E kind \in Kinds : TaskComplete(n, x, kind)
    BY <1>2 DEF WorkerStep
  <2>2. CASE RunPortable(n, x)
    BY <2>2, RunPortableInv
  <2>3. CASE EnqueueCompletion(n, x)
    BY <2>3, EnqueueCompletionInv
  <2>4. CASE RunClosure(n, x, "stolen")
    BY <2>4, RunStolenInv
  <2>5. CASE RunClosure(n, x, "rerun")
    BY <2>5, RunRerunInv
  <2>6. CASE TaskComplete(n, x, "stolen")
    BY <2>6, StolenCompleteInv
  <2>7. ASSUME NEW kind \in {"own", "rerun"}, TaskComplete(n, x, kind) PROVE IInv'
    BY <2>7, TaskCompleteInv
  <2> QED
    BY <2>1, <2>2, <2>3, <2>4, <2>5, <2>6, <2>7 DEF Kinds
<1>3. ASSUME NEW n \in Nodes, NEW v \in Nodes, StealRequest(n, v) PROVE IInv'
  BY <1>3, StealRequestInv
<1>4. ASSUME NEW n \in Nodes, NEW v \in Nodes, Reset(n, v) PROVE IInv'
  BY <1>4, ResetInv
<1>5. ASSUME NEW n \in Nodes, StealStep(n) PROVE IInv'
  <2>1. CASE StealTimeout(n)
    BY <2>1, StealTimeoutInv
  <2>2. CASE StealResponse(n)
    BY <2>2, StealResponseInv
  <2>3. ASSUME NEW x \in Tasks, AcceptStolenTask(n, x) PROVE IInv'
    BY <2>3, AcceptStolenTaskInv
  <2> QED
    BY <1>5, <2>1, <2>2, <2>3 DEF StealStep
<1>6. ASSUME NEW n \in Nodes, CompletionStep(n) PROVE IInv'
  BY <1>6, SwapBatchInv, SendResultInv, DropResultInv DEF CompletionStep
<1>7. ASSUME NEW n \in Nodes, ReaperStep(n) PROVE IInv'
  <2>1. ASSUME NEW S, ReapCollect(n, S) PROVE IInv'
    BY <2>1, ReapCollectInv
  <2>2. ASSUME NEW x \in Tasks, ReapResubmit(n, x) PROVE IInv'
    BY <2>2, ReapResubmitInv
  <2>3. CASE ReapSettle(n)
    BY <2>3, ReapSettleInv
  <2> QED
    BY <1>7, <2>1, <2>2, <2>3 DEF ReaperStep
<1>8. ASSUME NEW n \in Nodes, Stop(n) \/ StopStep(n) \/ Crash(n) PROVE IInv'
  BY <1>8, StopInv
<1>9. ASSUME NEW c \in Conns, ServeStep(c) PROVE IInv'
  <2>1. CASE ServeRequest(c)
    BY <2>1, ServeRequestInv
  <2>2. ASSUME NEW x \in Tasks, ServeTake(c, x) PROVE IInv'
    BY <2>2, ServeTakeInv
  <2>3. ASSUME NEW x \in Tasks, ServeFinish(c, x) PROVE IInv'
    BY <2>3, ServeFinishInv
  <2>4. CASE ServeTrack(c)
    BY <2>4, ServeTrackInv
  <2>5. CASE ServeSend(c)
    BY <2>5, ServeSendInv
  <2>6. CASE ServeResult(c)
    BY <2>6, ServeLateInv, ServeOwedInv
  <2> QED
    BY <1>9, <2>1, <2>2, <2>3, <2>4, <2>5, <2>6 DEF ServeStep
<1>10. CASE UNCHANGED vars
  BY <1>10, StutterInv
<1> QED
  BY <1>1, <1>2, <1>3, <1>4, <1>5, <1>6, <1>7, <1>8, <1>9, <1>10 DEF Next

(***************************************************************************)
(* IInv is an invariant of the cluster.                                    *)
(***************************************************************************)
THEOREM Invariant == Spec => []IInv
BY InitInv, NextInv, PTL DEF Spec

(***************************************************************************)
(* The state keeps its types.                                              *)
(***************************************************************************)
THEOREM TypeCorrect == Spec => []TypeOK
<1>1. IInv => TypeOK
  BY DEF IInv
<1> QED
  BY <1>1, Invariant, PTL

(***************************************************************************)
(* Each node's ledger accounts for every submission once, in any cluster   *)
(* and under any crashes, lost messages, timeouts and late results:        *)
(* resolve_outstanding and the reaper never both settle a task.            *)
(***************************************************************************)
THEOREM LedgerAccounts == Spec => []LedgerBalanced
<1>1. IInv => LedgerBalanced
  BY DEF IInv
<1> QED
  BY <1>1, Invariant, PTL

(***************************************************************************)
(* The observer sees a task at most once, so no pipeline advances twice    *)
(* over a stage, although a reaped stage may run both here and at a thief. *)
(***************************************************************************)
THEOREM AdvancesAtMostOnce == Spec => []AdvancesOnce
<1>1. IInv => AdvancesOnce
  BY DEF IInv, HeldInv, ChainInv
<1> QED
  BY <1>1, Invariant, PTL

(***************************************************************************)
(* A task runs twice only if the reaper gave up on its thief, and never a  *)
(* third time, since the reaper's closure cannot be stolen.                *)
(***************************************************************************)
THEOREM RerunsOnlyWhenReaped == Spec => []RerunsOnlyReaped
<1>1. IInv => RerunsOnlyReaped
  <2> SUFFICES ASSUME IInv, NEW x \in Tasks
               PROVE  executed[x] <= IF x \in reaped THEN 2 ELSE 1
    BY DEF RerunsOnlyReaped
  <2>1. executed[x] \in Nat /\ executed[x] <= 1 + Extra(x)
    BY DEF IInv, ExecInv, TypeOK
  <2>2. Extra(x) \in {0, 1} /\ (Extra(x) = 1 => x \in reaped)
    BY DEF Extra, Reran
  <2> QED
    BY <2>1, <2>2
<1> QED
  BY <1>1, Invariant, PTL

(* A node that owes nothing has no submission short of the observer.       *)
LEMMA SettledAreSeen ==
  ASSUME IInv, NEW n \in Nodes, submitted[n] = completed[n],
         NEW x \in Tasks, x \in started, Origin[x] = n
  PROVE  At(x, "seen", n)
<1> USE DEF IInv
<1>1. Unsettled(n) = 0
  <2>1. Unsettled(n) \in Nat /\ submitted[n] \in Nat /\ completed[n] \in Nat
    BY UnsettledFinite
  <2>2. submitted[n] = completed[n] + Unsettled(n)
    BY DEF LedgerBalanced
  <2>3. PICK u, s : u = Unsettled(n) /\ s = completed[n]
    OBVIOUS
  <2>4. s = s + u /\ u \in Nat /\ s \in Nat
    BY <2>1, <2>2, <2>3
  <2> QED
    BY <2>3, <2>4
<1>2. /\ Cardinality(pool[n]) = 0 /\ Cardinality(jobs[n]) = 0 /\ Cardinality(outstanding[n]) = 0
      /\ Cardinality(InHand(n)) = 0 /\ Cardinality(lost[n]) = 0
  <2>1. /\ Cardinality(pool[n]) \in Nat /\ Cardinality(jobs[n]) \in Nat
        /\ Cardinality(outstanding[n]) \in Nat /\ Cardinality(InHand(n)) \in Nat
        /\ Cardinality(lost[n]) \in Nat
    BY UnsettledFinite
  <2>2. PICK a, b, c, d, e, f : /\ a = Cardinality(pool[n]) /\ b = Cardinality(jobs[n])
                                /\ c = Cardinality(outstanding[n]) /\ d = Cardinality(InHand(n))
                                /\ e = Cardinality(lost[n])
                                /\ f = IF debt[n] = NoTask THEN 0 ELSE 1
    OBVIOUS
  <2>3. /\ a \in Nat /\ b \in Nat /\ c \in Nat /\ d \in Nat /\ e \in Nat /\ f \in Nat
        /\ a + b + c + d + e + f = 0
    BY <1>1, <2>1, <2>2 DEF Unsettled
  <2>4. a = 0 /\ b = 0 /\ c = 0 /\ d = 0 /\ e = 0
    BY <2>3
  <2> QED
    BY <2>2, <2>4
<1>3. pool[n] = {} /\ jobs[n] = {} /\ outstanding[n] = {} /\ InHand(n) = {} /\ lost[n] = {}
  BY <1>2, UnsettledFinite, FS_EmptySet
<1>4. PICK t \in Tags : \E k \in Sites(t) : At(x, t, k)
  BY DEF HeldInv, StartedInv
<1>5. PICK k \in Sites(t) : At(x, t, k)
  BY <1>4
<1>6. Home(t, k) = n
  BY <1>5 DEF HeldInv, HomeInv
<1>7. CASE t \in {"take", "finish"}
  <2>1. k \in Conns /\ k[2] = n
    BY <1>6, <1>7 DEF Sites, Home
  <2>2. serve[k].at = t /\ x \in serve[k].hand
    BY <1>5, <1>7 DEF At
  <2>3. PICK p : p = <<k, x>>
    OBVIOUS
  <2>4. p \in Conns \X Tasks /\ p[1] = k /\ p[2] = x
    BY <2>1, <2>3
  <2>5. p \in InHand(n)
    BY <1>7, <2>1, <2>2, <2>4 DEF InHand
  <2> QED
    BY <1>3, <2>5
<1>8. CASE t \notin {"take", "finish"}
  <2>1. k = n
    BY <1>6, <1>8 DEF Home
  <2>2. t = "seen"
    BY <1>3, <1>5, <1>8, <2>1 DEF At
  <2> QED
    BY <1>5, <2>1, <2>2
<1> QED
  BY <1>7, <1>8

(***************************************************************************)
(* Where every node has every handler, a balanced ledger, which is what    *)
(* wait_all waits for, means that all tasks of the node were executed and  *)
(* observed and that their pipelines ran to the end.  Without that         *)
(* assumption a task can be counted that nothing ran (run node_handlers).  *)
(***************************************************************************)
THEOREM BalancedImpliesDone ==
  ASSUME EveryHandler
  PROVE  Spec => []BalancedMeansDone
<1>1. IInv => BalancedMeansDone
  <2> SUFFICES ASSUME IInv, NEW n \in Nodes, submitted[n] = completed[n],
                      NEW x \in started, Origin[x] = n
               PROVE  executed[x] >= 1 /\ observed[x] = 1 /\ Stage[x] \in started \cup {NoTask}
    BY DEF BalancedMeansDone
  <2>1. x \in Tasks
    BY DEF IInv, TypeOK
  <2>2. At(x, "seen", n)
    BY <2>1, SettledAreSeen
  <2>3. observed[x] # 0
    BY <2>2 DEF At
  <2>4. observed[x] = 1 /\ Stage[x] \in started \cup {NoTask}
    BY <2>1, <2>3 DEF IInv, HeldInv, ChainInv, AdvancesOnce, TypeOK
  <2>5. Claimed(x)
    BY <2>1, <2>2, ClaimedBy DEF DoneTags, Sites
  <2>6. executed[x] # 0 /\ executed[x] \in Nat
    BY <2>1, <2>5 DEF IInv, DoneInv, TypeOK
  <2> QED
    BY <2>4, <2>6
<1> QED
  BY <1>1, Invariant, PTL
=============================================================================
