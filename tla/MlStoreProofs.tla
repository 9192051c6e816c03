--------------------------- MODULE MlStoreProofs ---------------------------
(***************************************************************************)
(* Theorems about MlStore, for every set of processes, nodes, fields,      *)
(* links and batches and for every bound: what is in the index has its     *)
(* journal line and no more lines are lost than writes were torn; writers  *)
(* that keep apart leave the index right and lose nothing of a list; a     *)
(* rebuild restores the index; a server follows the store it ingests from. *)
(***************************************************************************)
EXTENDS MlStore, WellFoundedInduction, FiniteSetTheorems, SequenceTheorems, TLAPS

USE EventAssumption, StoreAssumption

-----------------------------------------------------------------------------
\* Why JournalFirst holds: what a process has in hand between two steps is in
\* the journal by the time it can reach the index.

Holds(j, e) == \E i \in DOMAIN j : j[i] = e

StepsOf(m) == CASE m = "idle"    -> {"idle"}
                [] m = "write"   -> {"edit", "append", "apply", "record"}
                [] m = "ingest"  -> {"check", "append", "fetch", "apply", "record"}
                [] m = "rebuild" -> {"read", "fetch", "apply", "record"}

HandSourced(p) ==
  LET e == Current(p) IN
  /\ pc[p] \in StepsOf(mode[p])
  /\ mode[p] = "write" => Len(queue[p]) = 1
  /\ pc[p] \in {"fetch", "apply", "record"} => Holds(journal, e)
  /\ mode[p] = "rebuild" => \A i \in DOMAIN queue[p] : Holds(journal, queue[p][i])
  /\ (pc[p] = "apply" /\ e.kind \in NodeKinds) =>
       \A f \in Fields : Sourced(journal, e.target, f, doc[p][f])
  /\ (pc[p] = "append" /\ mode[p] = "write" /\ e.kind \in NodeKinds) =>
       \A f \in Fields : \/ f \in e.sets /\ doc[p][f] = e.to[f]
                         \/ Sourced(journal, e.target, f, doc[p][f])

IInv == /\ TypeOK
        /\ bad = {} => IndexSourced /\ \A p \in Procs : HandSourced(p)

-----------------------------------------------------------------------------
\* Why writers that keep to their own nodes and links leave the index right:
\* a row is out of step with the journal only between the append of its last
\* event and the write of it, and only its owner can be there.

Quiet    == crashes = 0 /\ tears = 0 /\ rebuilds = 0
Separate == /\ Ingesters = {}
            /\ \A p, q \in Procs : p # q => Owned[p] \cap Owned[q] = {}

Lags(x) == \E p \in Procs : pc[p] = "apply" /\ Current(p).target = x

\* Tables t and u say the same of x.
Match(t, u, x) == /\ x \in DOMAIN t <=> x \in DOMAIN u
                  /\ x \in DOMAIN t => t[x] = u[x]

InStep ==
  /\ \A n \in DOMAIN nodes \cup DOMAIN Truth.nodes : Lags(n) \/ Match(nodes, Truth.nodes, n)
  /\ \A x \in DOMAIN links \cup DOMAIN Truth.links : Lags(x) \/ Match(links, Truth.links, x)

\* An update in hand still fits the node: nobody wrote it in between.
UpdateFits(p) ==
  LET e == Current(p) IN
  /\ e.kind = "node.updated"
  /\ e.target \in DOMAIN nodes
  /\ \A f \in e.sets \cap Lists : nodes[e.target][f] \subseteq e.to[f]
  /\ pc[p] = "append" => doc[p] = Merge(nodes[e.target], e)

HandFits(p) ==
  LET e == Current(p) IN
  /\ mode[p] \in {"idle", "write"}
  /\ mode[p] = "write" => e.target \in Owned[p]
  /\ (pc[p] = "edit" \/ (pc[p] = "append" /\ e.kind = "node.updated")) => UpdateFits(p)
  /\ (pc[p] = "append" /\ e.kind = "node.created") =>
        doc[p] = Merge(Blank, e) /\ e.target \notin DOMAIN Truth.nodes
  /\ (pc[p] = "apply" /\ e.kind \in NodeKinds) =>
        e.target \in DOMAIN Truth.nodes /\ Truth.nodes[e.target] = doc[p]
  /\ (pc[p] = "apply" /\ e.kind \notin NodeKinds) =>
        e.target \in DOMAIN Truth.links /\ Truth.links[e.target] = e.id

\* Every line is recorded, or about to be by who appended it; every node the
\* journal describes has a line of its own.
LinesKnown ==
  /\ \A i \in DOMAIN journal :
       \/ journal[i].id \in ids
       \/ \E p \in Procs : pc[p] \in {"apply", "record"} /\ Current(p).id = journal[i].id
  /\ \A n \in DOMAIN Truth.nodes : \E i \in DOMAIN journal : journal[i].target = n

WritersInv ==
  Quiet => /\ bad = {} /\ torn = FALSE
           /\ InStep
           /\ \A p \in Procs : HandFits(p)
           /\ LinesKnown
           /\ StaleNeverWrong
-----------------------------------------------------------------------------
\* Why a rebuild by the only process restores the index: it is at some line of
\* the journal, and the index is what the lines before it leave.

Alone == \A p, q \in Procs : p = q

AtLine(p, k) ==
  LET e == Current(p) IN
  /\ Len(queue[p]) = Len(Legible) - k
  /\ \A i \in 1 .. Len(queue[p]) : queue[p][i] = Legible[k + i]
  /\ ids = {Legible[i].id : i \in 1 .. k}
  /\ Graph = Histories[IF pc[p] = "record" THEN k + 1 ELSE k]
  /\ (pc[p] = "apply" /\ e.kind = "node.created") => doc[p] = Merge(Blank, e)
  /\ (pc[p] = "apply" /\ e.kind = "node.updated") =>
        e.target \in DOMAIN nodes /\ doc[p] = Merge(nodes[e.target], e)

RebuildInv ==
  \A p \in Procs : mode[p] = "rebuild" =>
    /\ pc[p] \in StepsOf("rebuild")
    /\ pc[p] = "read" => Graph = EmptyGraph /\ ids = {}
    /\ pc[p] # "read" => \E k \in 0 .. Len(Legible) - 1 : AtLine(p, k)

-----------------------------------------------------------------------------
\* Why one ingesting process follows the store it ingests from: its journal is
\* at line m of it, the events up to r are recorded, and m is r or the line
\* after it.

\* Batches of one journal: each continues the shorter ones, no event is twice.
OneSpool ==
  /\ Batches # {}
  /\ \A p \in Procs : Owned[p] = {}
  /\ \A b, c \in Batches : Len(b) <= Len(c) => \A i \in 1 .. Len(b) : b[i] = c[i]
  /\ \A b \in Batches : \A i, j \in 1 .. Len(b) : b[i].id = b[j].id => i = j

\* q is what comes next in b after i events.
Continues(q, b, i) == /\ i + Len(q) <= Len(b)
                      /\ \A x \in 1 .. Len(q) : q[x] = b[i + x]

HandFollows(p, b, r, m) ==
  \E i \in 0 .. r :
    /\ Continues(queue[p], b, i)
    /\ pc[p] \in StepsOf("ingest")
    /\ pc[p] # "check" => i = r
    /\ pc[p] \in {"fetch", "apply", "record"} => m = r + 1

Follows(b, m) ==
  /\ Truth = Replays(b)[m]
  /\ bad = {} => \E r \in {m - 1, m} \cap Nat :
       /\ ids = {b[i].id : i \in 1 .. r}
       /\ \A p \in Procs : mode[p] # "idle" => mode[p] = "ingest" /\ HandFollows(p, b, r, m)

FollowInv == rebuilds = 0 => \E b \in Batches : \E m \in 0 .. Len(b) : Follows(b, m)

-----------------------------------------------------------------------------
\* Every non-empty set of naturals has a least element.
LEMMA LeastElement ==
  ASSUME NEW S \in SUBSET Nat, S # {}
  PROVE  \E x \in S : \A y \in S : x <= y
<1> DEFINE R == OpToRel(<, Nat)
<1>1. PICK x \in S : \A y \in S : <<y, x>> \notin R
  <2>1. IsWellFoundedOn(R, Nat)
    BY NatLessThanWellFounded
  <2> HIDE DEF R
  <2>2. QED
    BY <2>1, WFMin
<1>2. \A y \in S : ~(y < x)
  BY <1>1 DEF OpToRel
<1>3. QED
  BY <1>2

\* Induction up to m, over a set.
LEMMA InductionTo ==
  ASSUME NEW S, NEW m \in Nat, 0 \in S, \A n \in 0 .. m - 1 : n \in S => n + 1 \in S
  PROVE  \A n \in 0 .. m : n \in S
<1> DEFINE T == {n \in 0 .. m : n \notin S}
<1>1. SUFFICES ASSUME T # {} PROVE FALSE
  OBVIOUS
<1>2. PICK x \in T : \A y \in T : x <= y
  <2>1. T \in SUBSET Nat
    OBVIOUS
  <2> HIDE DEF T
  <2>2. QED
    BY <1>1, <2>1, LeastElement
<1>3. x - 1 \in 0 .. m - 1 /\ x - 1 \in S /\ x - 1 + 1 = x
  BY <1>2
<1>4. QED
  BY <1>2, <1>3

\* The constructors build events, and merging builds documents.
LEMMA EventTypes ==
  ASSUME NEW x \in Int
  PROVE  /\ NewDoc(x) \in Docs
         /\ Blank \in Docs
         /\ \A n \in Nodes : Created(x, n) \in Event
         /\ \A n \in Nodes, f \in Fields, v \in SUBSET Int : Updated(x, n, f, v) \in Event
         /\ \A k \in Edges : Added(x, k) \in Event
         /\ \A k \in Trees : Recorded(x, k) \in Event
<1>1. NewDoc(x) \in Docs /\ Blank \in Docs
  BY DEF NewDoc, Docs, Blank
<1>2. \A n \in Nodes : Created(x, n) \in Event
  BY <1>1 DEF Created, Event, Kinds, NodeKinds, Targets
<1>3. ASSUME NEW n \in Nodes, NEW f \in Fields, NEW v \in SUBSET Int
      PROVE  Updated(x, n, f, v) \in Event
  <2>1. [Blank EXCEPT ![f] = v] \in Docs
    BY <1>1 DEF Docs
  <2>2. QED
    BY <2>1 DEF Updated, Event, Kinds, NodeKinds, Targets
<1>4. \A k \in Links : k \in Targets /\ k \notin Nodes
  BY DEF Targets, Links
<1>5. \A k \in Edges : Added(x, k) \in Event
  BY <1>1, <1>4 DEF Added, Event, Kinds, NodeKinds, Links
<1>6. \A k \in Trees : Recorded(x, k) \in Event
  BY <1>1, <1>4 DEF Recorded, Event, Kinds, NodeKinds, Links
<1>7. QED
  BY <1>1, <1>2, <1>3, <1>5, <1>6

\* An event merged into a document gives a document.
LEMMA MergeType ==
  ASSUME NEW d \in Docs, NEW e \in Event
  PROVE  Merge(d, e) \in Docs
BY DEF Merge, Docs, Event

\* What a replay can read is a sequence of events.
LEMMA LegibleType ==
  ASSUME TypeOK
  PROVE  Legible \in Seq(Event)
<1>1. CASE bad = {}
  BY <1>1 DEF Legible, TypeOK
<1>2. CASE bad # {}
  <2> DEFINE first == CHOOSE i \in bad : \A j \in bad : i <= j
  <2>1. bad \in SUBSET Nat
    BY DEF TypeOK
  <2>2. first \in bad
    BY <2>1, <1>2, LeastElement
  <2>3. /\ journal \in Seq(Event) /\ first \in 1 .. Len(journal)
    BY <2>2 DEF TypeOK
  <2>4. SubSeq(journal, 1, first - 1) \in Seq(Event)
    <3> HIDE DEF first
    <3> QED BY <2>3, SubSeqProperties, ElementOfSeq, LenProperties
  <2>5. QED
    BY <2>4, <1>2 DEF Legible
<1>3. QED
  BY <1>1, <1>2

-----------------------------------------------------------------------------
\* Type correctness: after any steps of any processes every variable holds
\* what the tables, the journal and the processes of store.py can hold.

\* The head and the tail of what a process still has to deal with.
LEMMA QueueType ==
  ASSUME TypeOK, NEW p \in Procs, queue[p] # <<>>
  PROVE  /\ Current(p) \in Event
         /\ Tail(queue[p]) \in Seq(Event)
         /\ Len(queue[p]) \in Nat \ {0}
         /\ Len(Tail(queue[p])) = Len(queue[p]) - 1
         /\ \A i \in DOMAIN Tail(queue[p]) :
              i + 1 \in DOMAIN queue[p] /\ Tail(queue[p])[i] = queue[p][i + 1]
         /\ 1 \in DOMAIN queue[p] /\ Current(p) = queue[p][1]
<1>1. queue[p] \in Seq(Event)
  BY DEF TypeOK
<1>2. QED
  BY <1>1, HeadTailProperties, LenProperties DEF Current

\* What TypeOK says of the variables one process runs on.
LocalOK ==
  /\ mode \in [Procs -> Modes] /\ pc \in [Procs -> Steps]
  /\ queue \in [Procs -> Seq(Event)] /\ doc \in [Procs -> Docs]
  /\ \A p \in Procs : pc[p] \in {"append", "fetch", "apply", "record", "edit"}
                        => queue[p] # <<>>

\* A call starts with well typed events and document in hand.
LEMMA BeginType ==
  ASSUME TypeOK, NEW p \in Procs, NEW m \in Modes, NEW step \in Steps,
         NEW es \in Seq(Event), NEW d \in Docs,
         step \in {"append", "fetch", "apply", "record", "edit"} => es # <<>>,
         Begin(p, m, step, es, d)
  PROVE  LocalOK'
BY DEF TypeOK, LocalOK, Begin, Goto

\* A step that moves on inside a call and changes the document in hand.
LEMMA StepType ==
  ASSUME TypeOK, NEW p \in Procs, NEW step \in Steps, NEW d \in Docs,
         queue[p] # <<>>, UNCHANGED <<mode, queue>>,
         pc' = [pc EXCEPT ![p] = step], doc' = [doc EXCEPT ![p] = d]
  PROVE  LocalOK'
BY DEF TypeOK, LocalOK

\* A call that returns or is cut short.
LEMMA EndType ==
  ASSUME TypeOK, NEW p \in Procs, End(p)
  PROVE  LocalOK'
BY DEF TypeOK, LocalOK, End, Goto, Modes, Steps

\* A new store is well typed.
LEMMA TypeInit == Init => TypeOK
<1>1. \A f \in {EmptyTable} : DOMAIN f = {} /\ (\A S : f \in [DOMAIN f -> S])
  BY DEF EmptyTable
<1>2. Blank \in Docs
  BY DEF Blank, Docs
<1>3. ASSUME Init PROVE /\ journal \in Seq(Event) /\ Len(journal) = 0
                        /\ queue \in [Procs -> Seq(Event)]
  BY <1>3 DEF Init
<1>4. ASSUME Init PROVE /\ DOMAIN nodes = {} /\ nodes \in [DOMAIN nodes -> Docs]
                        /\ DOMAIN links = {} /\ links \in [DOMAIN links -> Int]
  BY <1>1, <1>4 DEF Init
<1>5. ASSUME Init PROVE LocalOK
  BY <1>2, <1>5 DEF Init, LocalOK, Modes, Steps
<1>6. ASSUME Init PROVE TypeOK
  <2>1. bad \subseteq 1 .. Len(journal) /\ torn \in BOOLEAN /\ ids \subseteq Int
    BY <1>6 DEF Init
  <2>2. lastId \in Nat /\ crashes \in Nat /\ tears \in Nat /\ rebuilds \in Nat
    BY <1>6 DEF Init
  <2>3. QED
    BY <1>6, <1>3, <1>4, <1>5, <2>1, <2>2 DEF TypeOK, LocalOK
<1>7. QED
  BY <1>6

\* Every step of store.py keeps the types, action by action.
LEMMA TypeNext == TypeOK /\ [Next]_vars => TypeOK'
<1> SUFFICES ASSUME TypeOK, [Next]_vars PROVE TypeOK'
  OBVIOUS
<1> USE DEF Modes, Steps
<1>1. ASSUME NEW p \in Procs, CreateNode(p) PROVE TypeOK'
  <2>1. PICK n \in Nodes : Begin(p, "write", "append", <<Created(lastId', n)>>, NewDoc(lastId'))
    BY <1>1 DEF CreateNode
  <2>2. lastId' \in Nat
    BY <1>1 DEF CreateNode, Draw, TypeOK
  <2>3. <<Created(lastId', n)>> \in Seq(Event) /\ NewDoc(lastId') \in Docs
    BY <2>2, EventTypes
  <2>4. LocalOK'
    BY <2>1, <2>3, BeginType
  <2>5. QED
    BY <1>1, <2>2, <2>4 DEF CreateNode, TypeOK, LocalOK, disk, index, budget
<1>2. ASSUME NEW p \in Procs, BeginUpdate(p) PROVE TypeOK'
  <2>1. PICK n \in DOMAIN nodes, f \in Fields :
          LET v == IF f \in Lists THEN nodes[n][f] \cup {lastId'} ELSE {lastId'}
          IN  Begin(p, "write", "edit", <<Updated(lastId', n, f, v)>>, Blank)
    BY <1>2 DEF BeginUpdate
  <2> DEFINE v == IF f \in Lists THEN nodes[n][f] \cup {lastId'} ELSE {lastId'}
  <2>2. lastId' \in Nat
    BY <1>2 DEF BeginUpdate, Draw, TypeOK
  <2>3. n \in Nodes /\ nodes[n][f] \subseteq Int
    BY DEF TypeOK, Docs
  <2>4. v \in SUBSET Int
    BY <2>2, <2>3
  <2>5. <<Updated(lastId', n, f, v)>> \in Seq(Event) /\ Blank \in Docs
    <3> HIDE DEF v
    <3> QED BY <2>2, <2>3, <2>4, EventTypes
  <2>6. LocalOK'
    BY <2>1, <2>5, BeginType
  <2>7. QED
    BY <1>2, <2>2, <2>6 DEF BeginUpdate, TypeOK, LocalOK, disk, index, budget
<1>3. ASSUME NEW p \in Procs, UpdateNode(p) PROVE TypeOK'
  <2>1. CASE Current(p).target \in DOMAIN nodes
    <3>1. queue[p] # <<>> /\ nodes[Current(p).target] \in Docs
      BY <1>3, <2>1 DEF UpdateNode, TypeOK
    <3>2. Merge(nodes[Current(p).target], Current(p)) \in Docs
      BY <3>1, QueueType, MergeType
    <3>3. LocalOK'
      <4> DEFINE d == Merge(nodes[Current(p).target], Current(p))
      <4>1. /\ doc' = [doc EXCEPT ![p] = d]
            /\ pc' = [pc EXCEPT ![p] = "append"] /\ UNCHANGED <<mode, queue>>
        BY <1>3, <2>1 DEF UpdateNode, Goto
      <4>2. QED
        <5> HIDE DEF d
        <5>1. d \in Docs
          BY <3>2 DEF d
        <5> QED BY <3>1, <4>1, <5>1, StepType
    <3>4. QED
      BY <1>3, <3>3 DEF UpdateNode, TypeOK, LocalOK, disk, index, budget
  <2>2. CASE Current(p).target \notin DOMAIN nodes
    BY <1>3, <2>2, EndType DEF UpdateNode, TypeOK, LocalOK, disk, index, budget
  <2>3. QED
    BY <2>1, <2>2
<1>4. ASSUME NEW p \in Procs, AddEdge(p) PROVE TypeOK'
  <2>1. PICK k \in Edges : Begin(p, "write", "append", <<Added(lastId', k)>>, Blank)
    BY <1>4 DEF AddEdge
  <2>2. lastId' \in Nat
    BY <1>4 DEF AddEdge, Draw, TypeOK
  <2>3. <<Added(lastId', k)>> \in Seq(Event) /\ Blank \in Docs
    BY <2>2, EventTypes
  <2>4. LocalOK'
    BY <2>1, <2>3, BeginType
  <2>5. QED
    BY <1>4, <2>2, <2>4 DEF AddEdge, TypeOK, LocalOK, disk, index, budget
<1>5. ASSUME NEW p \in Procs, RecordTreeCommit(p) PROVE TypeOK'
  <2>1. PICK k \in Trees : Begin(p, "write", "append", <<Recorded(lastId', k)>>, Blank)
    BY <1>5 DEF RecordTreeCommit
  <2>2. lastId' \in Nat
    BY <1>5 DEF RecordTreeCommit, Draw, TypeOK
  <2>3. <<Recorded(lastId', k)>> \in Seq(Event) /\ Blank \in Docs
    BY <2>2, EventTypes
  <2>4. LocalOK'
    BY <2>1, <2>3, BeginType
  <2>5. QED
    BY <1>5, <2>2, <2>4 DEF RecordTreeCommit, TypeOK, LocalOK, disk, index, budget
<1>6. ASSUME NEW p \in Procs, AppendLine(p) PROVE TypeOK'
  <2>1. queue[p] # <<>>
    BY <1>6 DEF AppendLine, TypeOK
  <2>2. journal' \in Seq(Event) /\ Len(journal') = Len(journal) + 1
    BY <1>6, <2>1, QueueType, AppendProperties DEF AppendLine, TypeOK
  <2>3. bad' \subseteq 1 .. Len(journal')
    BY <1>6, <2>2, LenProperties DEF AppendLine, TypeOK
  <2>4. LocalOK'
    BY <1>6, <2>1 DEF AppendLine, Goto, TypeOK, LocalOK
  <2>5. QED
    BY <1>6, <2>2, <2>3, <2>4 DEF AppendLine, TypeOK, LocalOK, index, budget
<1>7. ASSUME NEW p \in Procs, Fetch(p) PROVE TypeOK'
  <2>1. queue[p] # <<>> /\ Current(p) \in Event
    BY <1>7, QueueType DEF Fetch, TypeOK
  <2>2. CASE Current(p).kind = "node.updated" /\ Current(p).target \notin DOMAIN nodes
    BY <1>7, <2>1, <2>2 DEF Fetch, Goto, TypeOK, disk, index, budget
  <2>3. CASE ~(Current(p).kind = "node.updated" /\ Current(p).target \notin DOMAIN nodes)
    <3> DEFINE d == CASE Current(p).kind = "node.created" -> Merge(Blank, Current(p))
                      [] Current(p).kind = "node.updated" ->
                           Merge(nodes[Current(p).target], Current(p))
                      [] OTHER -> Blank
    <3>1. Blank \in Docs
      BY DEF Blank, Docs
    <3>2. Current(p).kind = "node.updated" => nodes[Current(p).target] \in Docs
      BY <2>3 DEF TypeOK
    <3>3. d \in Docs
      BY <2>1, <3>1, <3>2, MergeType
    <3>4. doc' = [doc EXCEPT ![p] = d] /\ Goto(p, "apply") /\ UNCHANGED <<mode, queue>>
      BY <1>7, <2>3 DEF Fetch
    <3>5. LocalOK'
      <4> HIDE DEF d
      <4> QED BY <2>1, <3>3, <3>4, StepType DEF Goto
    <3>6. QED
      BY <1>7, <3>5 DEF Fetch, TypeOK, LocalOK, disk, index, budget
  <2>4. QED
    BY <2>2, <2>3
<1>8. ASSUME NEW p \in Procs, WriteRow(p) PROVE TypeOK'
  <2>1. queue[p] # <<>> /\ Current(p) \in Event /\ doc[p] \in Docs
    BY <1>8, QueueType DEF WriteRow, TypeOK
  <2>2. LocalOK'
    BY <1>8, <2>1 DEF WriteRow, Goto, TypeOK, LocalOK
  <2>3. CASE Current(p).kind \in NodeKinds
    <3>1. Current(p).target \in Nodes /\ nodes' = Put(nodes, Current(p).target, doc[p])
      BY <1>8, <2>1, <2>3 DEF WriteRow, Event
    <3>2. DOMAIN nodes' \subseteq Nodes /\ nodes' \in [DOMAIN nodes' -> Docs]
      <4>1. DOMAIN nodes \subseteq Nodes /\ nodes \in [DOMAIN nodes -> Docs]
        BY DEF TypeOK
      <4>2. QED
        BY ONLY <2>1, <3>1, <4>1 DEF Put
    <3>3. QED
      BY <1>8, <2>2, <2>3, <3>2 DEF WriteRow, TypeOK, LocalOK, disk, budget
  <2>4. CASE Current(p).kind \notin NodeKinds
    <3>1. /\ Current(p).target \in Links /\ Current(p).id \in Int
          /\ links' = Put(links, Current(p).target, Current(p).id)
      BY <1>8, <2>1, <2>4 DEF WriteRow, Event
    <3>2. DOMAIN links' \subseteq Links /\ links' \in [DOMAIN links' -> Int]
      <4>1. DOMAIN links \subseteq Links /\ links \in [DOMAIN links -> Int]
        BY DEF TypeOK
      <4>2. QED
        BY ONLY <3>1, <4>1 DEF Put
    <3>3. QED
      BY <1>8, <2>2, <2>4, <3>2 DEF WriteRow, TypeOK, LocalOK, disk, budget
  <2>5. QED
    BY <2>3, <2>4
<1>9. ASSUME NEW p \in Procs, RecordEvent(p) PROVE TypeOK'
  <2>1. /\ Current(p) \in Event /\ Len(queue[p]) \in Nat \ {0}
        /\ Tail(queue[p]) \in Seq(Event) /\ Len(Tail(queue[p])) = Len(queue[p]) - 1
    BY <1>9, QueueType DEF RecordEvent, TypeOK
  <2>2. ids' \subseteq Int
    BY <1>9, <2>1 DEF RecordEvent, Event, TypeOK
  <2>3. LocalOK'
    <3>1. CASE Len(queue[p]) = 1
      BY <1>9, <3>1, EndType DEF RecordEvent
    <3>2. CASE Len(queue[p]) # 1
      <4>1. Tail(queue[p]) # <<>>
        <5>1. Len(Tail(queue[p])) # 0 /\ Len(<<>>) = 0
          BY <2>1, <3>2, EmptySeq
        <5>2. QED
          BY <5>1
      <4>2. PICK step \in {"check", "fetch"} :
              /\ queue' = [queue EXCEPT ![p] = Tail(@)]
              /\ pc' = [pc EXCEPT ![p] = step] /\ UNCHANGED <<mode, doc>>
        BY <1>9, <3>2 DEF RecordEvent, Goto
      <4>3. QED
        BY <2>1, <4>1, <4>2 DEF TypeOK, LocalOK
    <3>3. QED
      BY <3>1, <3>2
  <2>4. QED
    BY <1>9, <2>2, <2>3 DEF RecordEvent, TypeOK, LocalOK, disk, budget
<1>10. ASSUME NEW p \in Procs, BeginIngest(p) PROVE TypeOK'
  <2>1. PICK b \in Batches : Begin(p, "ingest", "check", b, Blank)
    BY <1>10 DEF BeginIngest
  <2>2. b \in Seq(Event) /\ Blank \in Docs
    BY DEF Blank, Docs
  <2>3. LocalOK'
    BY <2>1, <2>2, BeginType
  <2>4. QED
    BY <1>10, <2>3 DEF BeginIngest, TypeOK, LocalOK, disk, index, budget
<1>11. ASSUME NEW p \in Procs, CheckEvent(p) PROVE TypeOK'
  <2>1. LocalOK'
    <3>1. CASE queue[p] = <<>>
      BY <1>11, <3>1, EndType DEF CheckEvent
    <3>2. CASE queue[p] # <<>>
      <4>1. Tail(queue[p]) \in Seq(Event)
        BY <3>2, QueueType
      <4>2. CASE Current(p).id \in ids
        <5>1. queue' = [queue EXCEPT ![p] = Tail(@)] /\ UNCHANGED <<mode, pc, doc>>
          BY <1>11, <3>2, <4>2 DEF CheckEvent
        <5>2. pc[p] = "check"
          BY <1>11 DEF CheckEvent
        <5>3. QED
          BY <4>1, <5>1, <5>2 DEF TypeOK, LocalOK
      <4>3. CASE Current(p).id \notin ids
        BY <1>11, <3>2, <4>3 DEF CheckEvent, Goto, TypeOK, LocalOK
      <4>4. QED
        BY <4>2, <4>3
    <3>3. QED
      BY <3>1, <3>2
  <2>2. QED
    BY <1>11, <2>1 DEF CheckEvent, TypeOK, LocalOK, disk, index, budget
<1>12. ASSUME NEW p \in Procs, ClearIndex(p) PROVE TypeOK'
  <2>1. <<>> \in Seq(Event) /\ Blank \in Docs
    BY DEF Blank, Docs
  <2>2. LocalOK'
    BY <1>12, <2>1, BeginType DEF ClearIndex
  <2>3. DOMAIN EmptyTable = {} /\ \A S : EmptyTable \in [{} -> S]
    BY DEF EmptyTable
  <2>4. QED
    BY <1>12, <2>2, <2>3 DEF ClearIndex, TypeOK, LocalOK, disk
<1>13. ASSUME NEW p \in Procs, ReadJournal(p) PROVE TypeOK'
  <2>1. LocalOK'
    <3>1. CASE Legible = <<>>
      BY <1>13, <3>1, EndType DEF ReadJournal
    <3>2. CASE Legible # <<>>
      <4>1. Legible \in Seq(Event)
        BY LegibleType
      <4>2. /\ queue' = [queue EXCEPT ![p] = Legible]
            /\ pc' = [pc EXCEPT ![p] = "fetch"] /\ UNCHANGED <<mode, doc>>
        BY <1>13, <3>2 DEF ReadJournal, Goto
      <4>3. QED
        BY <3>2, <4>1, <4>2 DEF TypeOK, LocalOK
    <3>3. QED
      BY <3>1, <3>2
  <2>2. QED
    BY <1>13, <2>1 DEF ReadJournal, TypeOK, LocalOK, disk, index, budget
<1>14. ASSUME NEW p \in Procs, Crash(p) \/ TearLine(p) PROVE TypeOK'
  <2>1. LocalOK'
    BY <1>14, EndType DEF Crash, TearLine
  <2>2. CASE Crash(p)
    BY <2>1, <2>2 DEF Crash, TypeOK, LocalOK, disk, index
  <2>3. CASE TearLine(p)
    BY <2>1, <2>3 DEF TearLine, TypeOK, LocalOK, index
  <2>4. QED
    BY <1>14, <2>2, <2>3
<1>15. CASE UNCHANGED vars
  BY <1>15 DEF vars, disk, index, local, budget, TypeOK
<1>16. QED
  BY <1>1, <1>2, <1>3, <1>4, <1>5, <1>6, <1>7, <1>8, <1>9, <1>10, <1>11,
     <1>12, <1>13, <1>14, <1>15 DEF Next

\* Every reachable state is well typed.
THEOREM TypeCorrect == Spec => []TypeOK
BY TypeInit, TypeNext, PTL DEF Spec

-----------------------------------------------------------------------------
\* Journal first.  The invariant is not inductive alone: a process carries
\* events and documents from step to step, so IInv adds that what it carries
\* towards the index is already in the journal.

JournalKept == \A i \in DOMAIN journal : i \in DOMAIN journal' /\ journal'[i] = journal[i]

\* What a line sourced stays sourced while the journal only grows.
LEMMA SourcedStays ==
  ASSUME JournalKept
  PROVE  /\ \A e : Holds(journal, e) => Holds(journal', e)
         /\ \A t, f, v : Sourced(journal, t, f, v) => Sourced(journal', t, f, v)
BY DEF JournalKept, Holds, Sourced

\* A process that takes no step keeps its hands sourced.
LEMMA OtherHands ==
  ASSUME JournalKept, NEW q \in Procs, HandSourced(q),
         mode'[q] = mode[q], pc'[q] = pc[q], queue'[q] = queue[q], doc'[q] = doc[q]
  PROVE  HandSourced(q)'
<1>1. Current(q)' = Current(q)
  BY DEF Current
<1>2. QED
  BY <1>1, SourcedStays DEF HandSourced

\* A step that leaves the index alone leaves it sourced.
LEMMA IndexKept ==
  ASSUME JournalKept, IndexSourced, UNCHANGED index
  PROVE  IndexSourced'
<1>1. \A n \in DOMAIN nodes : \A f \in Fields : Sourced(journal', n, f, nodes[n][f])
  BY SourcedStays DEF IndexSourced, index
<1>2. QED
  BY <1>1 DEF IndexSourced, index, JournalKept

\* Each step writes its own process's entries only.
LEMMA OneProcess ==
  ASSUME TypeOK, NEW p \in Procs,
         \/ CreateNode(p) \/ BeginUpdate(p) \/ UpdateNode(p) \/ AddEdge(p)
         \/ RecordTreeCommit(p) \/ AppendLine(p) \/ Fetch(p) \/ WriteRow(p)
         \/ RecordEvent(p) \/ BeginIngest(p) \/ CheckEvent(p) \/ ClearIndex(p)
         \/ ReadJournal(p) \/ Crash(p) \/ TearLine(p)
  PROVE  \A q \in Procs \ {p} :
            mode'[q] = mode[q] /\ pc'[q] = pc[q] /\ queue'[q] = queue[q] /\ doc'[q] = doc[q]
BY DEF CreateNode, BeginUpdate, UpdateNode, AddEdge, RecordTreeCommit, AppendLine,
       Fetch, WriteRow, RecordEvent, BeginIngest, CheckEvent, ClearIndex,
       ReadJournal, Crash, TearLine, Begin, End, Goto, TypeOK

\* The journal only grows, and a line that does not parse stays.
LEMMA JournalGrows ==
  ASSUME TypeOK, [Next]_vars
  PROVE  JournalKept /\ (bad' = {} => bad = {})
<1>1. ASSUME NEW p \in Procs, AppendLine(p) PROVE JournalKept /\ bad \subseteq bad'
  <2>1. journal \in Seq(Event) /\ Current(p) \in Event
    BY <1>1, QueueType DEF AppendLine, TypeOK
  <2>2. QED
    BY <1>1, <2>1, AppendProperties, LenProperties DEF AppendLine, JournalKept
<1>2. CASE UNCHANGED disk
  BY <1>2 DEF disk, JournalKept
<1>3. ASSUME NEW p \in Procs, TearLine(p) PROVE JournalKept /\ bad' = bad
  BY <1>3 DEF TearLine, JournalKept
<1>4. ASSUME Next, ~ UNCHANGED disk
      PROVE  \E q \in Procs : AppendLine(q) \/ TearLine(q)
  BY <1>4 DEF Next, CreateNode, BeginUpdate, UpdateNode, AddEdge, RecordTreeCommit,
              Fetch, WriteRow, RecordEvent, BeginIngest, CheckEvent, ClearIndex,
              ReadJournal, Crash
<1>5. QED
  BY <1>1, <1>2, <1>3, <1>4 DEF Next, vars

\* A new store has an empty index and empty hands.
LEMMA IInvInit == Init => IInv
<1>1. ASSUME Init PROVE IndexSourced
  BY <1>1 DEF Init, IndexSourced, EmptyTable
<1>2. ASSUME Init, NEW p \in Procs PROVE HandSourced(p)
  BY <1>2 DEF Init, HandSourced, StepsOf
<1>3. QED
  BY <1>1, <1>2, TypeInit DEF IInv

\* The hands of the process that takes the step, and the index after it.
LEMMA HandNext ==
  ASSUME TypeOK, TypeOK', JournalKept, bad = {}, bad' = {},
         IndexSourced, NEW p \in Procs, HandSourced(p),
         \/ CreateNode(p) \/ BeginUpdate(p) \/ UpdateNode(p) \/ AddEdge(p)
         \/ RecordTreeCommit(p) \/ AppendLine(p) \/ Fetch(p) \/ WriteRow(p)
         \/ RecordEvent(p) \/ BeginIngest(p) \/ CheckEvent(p) \/ ClearIndex(p)
         \/ ReadJournal(p) \/ Crash(p) \/ TearLine(p)
  PROVE  HandSourced(p)' /\ IndexSourced'
<1> USE DEF StepsOf, Modes
<1>1. CASE CreateNode(p)
  <2>1. PICK n \in Nodes : Begin(p, "write", "append", <<Created(lastId', n)>>, NewDoc(lastId'))
    BY <1>1 DEF CreateNode
  <2>2. /\ mode'[p] = "write" /\ pc'[p] = "append" /\ Len(queue'[p]) = 1
        /\ Current(p)' = Created(lastId', n) /\ doc'[p] = NewDoc(lastId')
    BY <2>1 DEF Begin, Goto, TypeOK, Current
  <2>3. HandSourced(p)'
    BY <2>2 DEF HandSourced, Created
  <2>4. QED
    BY <1>1, <2>3, IndexKept DEF CreateNode
<1>2. CASE BeginUpdate(p)
  <2>1. PICK e, d : Begin(p, "write", "edit", <<e>>, d)
    BY <1>2 DEF BeginUpdate
  <2>2. mode'[p] = "write" /\ pc'[p] = "edit" /\ Len(queue'[p]) = 1
    BY <2>1 DEF Begin, Goto, TypeOK
  <2>3. HandSourced(p)'
    BY <2>2 DEF HandSourced
  <2>4. QED
    BY <1>2, <2>3, IndexKept DEF BeginUpdate
<1>3. CASE UpdateNode(p)
  <2> DEFINE e == Current(p)
  <2>1. CASE e.target \in DOMAIN nodes
    <3>1. /\ mode'[p] = mode[p] /\ pc'[p] = "append" /\ queue'[p] = queue[p]
          /\ doc'[p] = Merge(nodes[e.target], e) /\ Current(p)' = e
      BY <1>3, <2>1 DEF UpdateNode, Goto, TypeOK, Current
    <3>2. \A f \in Fields : \/ f \in e.sets /\ doc'[p][f] = e.to[f]
                            \/ Sourced(journal', e.target, f, doc'[p][f])
      BY <2>1, <3>1, SourcedStays DEF Merge, IndexSourced
    <3>3. mode[p] = "rebuild" => \A i \in DOMAIN queue[p] : Holds(journal', queue[p][i])
      BY SourcedStays DEF HandSourced
    <3>4. mode[p] = "write" => Len(queue[p]) = 1
      BY DEF HandSourced
    <3>5. HandSourced(p)'
      <4>1. mode[p] = "write"
        BY <1>3 DEF UpdateNode, HandSourced, TypeOK
      <4>2. QED
        BY <3>1, <3>2, <3>3, <3>4, <4>1 DEF HandSourced
    <3>6. QED
      BY <1>3, <3>5, IndexKept DEF UpdateNode
  <2>2. CASE e.target \notin DOMAIN nodes
    <3>1. mode'[p] = "idle" /\ pc'[p] = "idle"
      BY <1>3, <2>2 DEF UpdateNode, End, Goto, TypeOK
    <3>2. QED
      BY <1>3, <3>1, IndexKept DEF UpdateNode, HandSourced
  <2>3. QED
    BY <2>1, <2>2
<1>4. CASE AddEdge(p) \/ RecordTreeCommit(p)
  <2>1. PICK x \in Links : \E e : /\ e \in {Added(lastId', x), Recorded(lastId', x)}
                                  /\ Begin(p, "write", "append", <<e>>, Blank)
    BY <1>4 DEF AddEdge, RecordTreeCommit, Links
  <2>2. PICK e : /\ e \in {Added(lastId', x), Recorded(lastId', x)}
                 /\ Begin(p, "write", "append", <<e>>, Blank)
    BY <2>1
  <2>3. /\ mode'[p] = "write" /\ pc'[p] = "append" /\ Len(queue'[p]) = 1
        /\ Current(p)' = e
    BY <2>2 DEF Begin, Goto, TypeOK, Current
  <2>4. e.kind \notin NodeKinds
    BY <2>2 DEF Added, Recorded, NodeKinds
  <2>5. HandSourced(p)'
    BY <2>3, <2>4 DEF HandSourced
  <2>6. QED
    BY <1>4, <2>5, IndexKept DEF AddEdge, RecordTreeCommit
<1>5. CASE AppendLine(p)
  <2> DEFINE e == Current(p)
  <2>1. journal \in Seq(Event) /\ e \in Event /\ queue[p] # <<>>
    BY <1>5, QueueType DEF AppendLine, TypeOK
  <2>2. /\ Len(journal) + 1 \in DOMAIN journal' /\ journal'[Len(journal) + 1] = e
    BY <1>5, <2>1, AppendProperties, LenProperties DEF AppendLine
  <2>3. /\ mode'[p] = mode[p] /\ queue'[p] = queue[p] /\ doc'[p] = doc[p] /\ Current(p)' = e
        /\ pc'[p] = IF mode[p] = "write" THEN "apply" ELSE "fetch"
    BY <1>5 DEF AppendLine, Goto, TypeOK, Current
  <2>4. Holds(journal', e)
    BY <2>2 DEF Holds
  <2>5. \A f \in Fields : f \in e.sets => Sourced(journal', e.target, f, e.to[f])
    BY <2>2 DEF Sourced
  <2>6. (mode[p] = "write" /\ e.kind \in NodeKinds) =>
          \A f \in Fields : Sourced(journal', e.target, f, doc[p][f])
    BY <1>5, <2>5, SourcedStays DEF HandSourced, AppendLine
  <2>7. mode[p] = "rebuild" => \A i \in DOMAIN queue[p] : Holds(journal', queue[p][i])
    BY SourcedStays DEF HandSourced
  <2>8. mode[p] = "write" => Len(queue[p]) = 1
    BY DEF HandSourced
  <2>9. HandSourced(p)'
    <3>1. mode[p] \in {"write", "ingest"}
      BY <1>5 DEF AppendLine, HandSourced, TypeOK
    <3>2. QED
      BY <2>3, <2>4, <2>6, <2>7, <2>8, <3>1 DEF HandSourced
  <2>10. QED
    BY <1>5, <2>9, IndexKept DEF AppendLine
<1>6. CASE Fetch(p)
  <2> DEFINE e == Current(p)
  <2>1. e \in Event /\ Holds(journal, e)
    BY <1>6, QueueType DEF Fetch, TypeOK, HandSourced
  <2>2. /\ mode'[p] = mode[p] /\ queue'[p] = queue[p] /\ Current(p)' = e
        /\ pc'[p] \in {"record", "apply"}
    BY <1>6 DEF Fetch, Goto, TypeOK, Current
  <2>3. \A f \in Fields : f \in e.sets => Sourced(journal, e.target, f, e.to[f])
    BY <2>1 DEF Holds, Sourced
  <2>4. ASSUME pc'[p] = "apply", e.kind = "node.created", NEW f \in Fields
        PROVE  Sourced(journal, e.target, f, doc'[p][f])
    <3>1. doc'[p] = Merge(Blank, e)
      BY <1>6, <2>4 DEF Fetch, Goto, TypeOK
    <3>2. e.sets = Fields
      BY <2>1, <2>4 DEF Event
    <3>3. QED
      BY <2>3, <3>1, <3>2 DEF Merge
  <2>5. ASSUME pc'[p] = "apply", e.kind = "node.updated", NEW f \in Fields
        PROVE  Sourced(journal, e.target, f, doc'[p][f])
    <3>1. e.target \in DOMAIN nodes
      BY <1>6, <2>5 DEF Fetch, Goto, TypeOK
    <3>2. doc'[p] = Merge(nodes[e.target], e)
      BY <1>6, <2>5, <3>1 DEF Fetch, Goto, TypeOK
    <3>3. QED
      BY <2>3, <3>1, <3>2 DEF Merge, IndexSourced
  <2>6. (pc'[p] = "apply" /\ e.kind \in NodeKinds) =>
          \A f \in Fields : Sourced(journal', e.target, f, doc'[p][f])
    BY <2>4, <2>5, SourcedStays DEF NodeKinds
  <2>7. Holds(journal', e) /\
        (mode[p] = "rebuild" => \A i \in DOMAIN queue[p] : Holds(journal', queue[p][i]))
    BY <2>1, SourcedStays DEF HandSourced
  <2>8. mode[p] = "write" => Len(queue[p]) = 1
    BY DEF HandSourced
  <2>9. HandSourced(p)'
    <3>1. mode[p] \in {"ingest", "rebuild"}
      BY <1>6 DEF Fetch, HandSourced, TypeOK
    <3>2. QED
      BY <2>2, <2>6, <2>7, <2>8, <3>1 DEF HandSourced
  <2>10. QED
    BY <1>6, <2>9, IndexKept DEF Fetch
<1>7. CASE WriteRow(p)
  <2> DEFINE e == Current(p)
  <2>1. e \in Event /\ Holds(journal, e)
    BY <1>7, QueueType DEF WriteRow, TypeOK, HandSourced
  <2>2. /\ mode'[p] = mode[p] /\ queue'[p] = queue[p] /\ Current(p)' = e
        /\ pc'[p] = "record"
    BY <1>7 DEF WriteRow, Goto, TypeOK, Current
  <2>3. HandSourced(p)'
    <3>1. Holds(journal', e) /\
          (mode[p] = "rebuild" => \A i \in DOMAIN queue[p] : Holds(journal', queue[p][i]))
      BY <2>1, SourcedStays DEF HandSourced
    <3>2. mode[p] = "write" => Len(queue[p]) = 1
      BY DEF HandSourced
    <3>3. QED
      BY <1>7, <2>2, <3>1, <3>2 DEF WriteRow, HandSourced, TypeOK
  <2>4. journal' = journal /\ ids' = ids
    BY <1>7 DEF WriteRow, disk
  <2>5. CASE e.kind \in NodeKinds
    <3>1. nodes' = Put(nodes, e.target, doc[p]) /\ links' = links
      BY <1>7, <2>5 DEF WriteRow
    <3>2. \A f \in Fields : Sourced(journal, e.target, f, doc[p][f])
      BY <1>7, <2>5 DEF WriteRow, HandSourced
    <3>3. \A n \in DOMAIN nodes' : \A f \in Fields : Sourced(journal, n, f, nodes'[n][f])
      BY <3>1, <3>2 DEF Put, IndexSourced
    <3>4. QED
      BY <2>3, <2>4, <3>1, <3>3 DEF IndexSourced, Sourced
  <2>6. CASE e.kind \notin NodeKinds
    <3>1. links' = Put(links, e.target, e.id) /\ nodes' = nodes
      BY <1>7, <2>6 DEF WriteRow
    <3>2. \E i \in DOMAIN journal : journal[i].target = e.target /\ journal[i].id = e.id
      BY <2>1 DEF Holds
    <3>3. \A k \in DOMAIN links' :
            \E i \in DOMAIN journal : journal[i].target = k /\ journal[i].id = links'[k]
      BY <3>1, <3>2 DEF Put, IndexSourced
    <3>4. QED
      BY <2>3, <2>4, <3>1, <3>3 DEF IndexSourced, Sourced
  <2>7. QED
    BY <2>5, <2>6
<1>8. CASE RecordEvent(p)
  <2> DEFINE e == Current(p)
  <2>1. /\ Holds(journal, e) /\ Len(queue[p]) \in Nat \ {0} /\ queue[p] # <<>>
        /\ journal' = journal /\ nodes' = nodes /\ links' = links /\ ids' = ids \cup {e.id}
    BY <1>8, QueueType DEF RecordEvent, TypeOK, HandSourced, disk
  <2>2. IndexSourced'
    BY <2>1 DEF IndexSourced, Sourced, Holds
  <2>3. CASE Len(queue[p]) = 1
    <3>1. mode'[p] = "idle" /\ pc'[p] = "idle"
      BY <1>8, <2>3 DEF RecordEvent, End, Goto, TypeOK
    <3>2. QED
      BY <2>2, <3>1 DEF HandSourced
  <2>4. CASE Len(queue[p]) # 1
    <3>1. /\ mode'[p] = mode[p] /\ queue'[p] = Tail(queue[p])
          /\ pc'[p] = IF mode[p] = "ingest" THEN "check" ELSE "fetch"
      BY <1>8, <2>4 DEF RecordEvent, Goto, TypeOK
    <3>2. mode[p] \in {"ingest", "rebuild"}
      BY <1>8, <2>4 DEF RecordEvent, HandSourced, TypeOK
    <3>3. mode[p] = "rebuild" => \A i \in DOMAIN queue'[p] : Holds(journal', queue'[p][i])
      BY <2>1, <3>1, QueueType, SourcedStays DEF HandSourced
    <3>4. ASSUME pc'[p] = "fetch" PROVE Holds(journal', Current(p)')
      <4>1. queue'[p] # <<>>
        BY <3>4 DEF TypeOK
      <4>2. queue'[p] \in Seq(Event)
        BY DEF TypeOK
      <4>3. 1 \in DOMAIN queue'[p] /\ Current(p)' = queue'[p][1]
        BY <4>1, <4>2, LenProperties, EmptySeq DEF Current
      <4>4. QED
        BY <3>1, <3>2, <3>3, <3>4, <4>3
    <3>5. QED
      BY <2>2, <3>1, <3>2, <3>3, <3>4 DEF HandSourced
  <2>5. QED
    BY <2>3, <2>4
<1>9. CASE BeginIngest(p)
  <2>1. PICK b, d : Begin(p, "ingest", "check", b, d)
    BY <1>9 DEF BeginIngest
  <2>2. mode'[p] = "ingest" /\ pc'[p] = "check"
    BY <2>1 DEF Begin, Goto, TypeOK
  <2>3. QED
    BY <1>9, <2>2, IndexKept DEF BeginIngest, HandSourced
<1>10. CASE CheckEvent(p)
  <2>1. pc[p] = "check" /\ mode[p] = "ingest"
    BY <1>10 DEF CheckEvent, HandSourced, TypeOK
  <2>2. \/ mode'[p] = "idle" /\ pc'[p] = "idle"
        \/ mode'[p] = "ingest" /\ pc'[p] \in {"check", "append"}
    BY <1>10, <2>1 DEF CheckEvent, End, Goto, TypeOK
  <2>3. QED
    BY <1>10, <2>2, IndexKept DEF CheckEvent, HandSourced
<1>11. CASE ClearIndex(p)
  <2>1. mode'[p] = "rebuild" /\ pc'[p] = "read" /\ queue'[p] = <<>>
    BY <1>11 DEF ClearIndex, Begin, Goto, TypeOK
  <2>2. HandSourced(p)'
    BY <2>1 DEF HandSourced
  <2>3. IndexSourced'
    BY <1>11 DEF ClearIndex, IndexSourced, EmptyTable
  <2>4. QED
    BY <2>2, <2>3
<1>12. CASE ReadJournal(p)
  <2>1. IndexSourced'
    BY <1>12, IndexKept DEF ReadJournal
  <2>2. CASE Legible = <<>>
    <3>1. mode'[p] = "idle" /\ pc'[p] = "idle"
      BY <1>12, <2>2 DEF ReadJournal, End, Goto, TypeOK
    <3>2. QED
      BY <2>1, <3>1 DEF HandSourced
  <2>3. CASE Legible # <<>>
    <3>1. Legible = journal
      BY DEF Legible
    <3>2. /\ mode'[p] = mode[p] /\ queue'[p] = journal /\ pc'[p] = "fetch"
          /\ journal' = journal /\ journal # <<>>
      BY <1>12, <2>3, <3>1 DEF ReadJournal, Goto, TypeOK, disk
    <3>3. \A i \in DOMAIN journal : Holds(journal', journal[i])
      BY <3>2 DEF Holds
    <3>4. 1 \in DOMAIN journal /\ Current(p)' = journal[1]
      BY <3>2, LenProperties, EmptySeq DEF Current, TypeOK
    <3>5. mode[p] = "rebuild"
      BY <1>12 DEF ReadJournal, HandSourced, TypeOK
    <3>6. QED
      BY <2>1, <3>2, <3>3, <3>4, <3>5 DEF HandSourced
  <2>4. QED
    BY <2>2, <2>3
<1>13. CASE Crash(p) \/ TearLine(p)
  <2>1. mode'[p] = "idle" /\ pc'[p] = "idle"
    BY <1>13 DEF Crash, TearLine, End, Goto, TypeOK
  <2>2. QED
    BY <1>13, <2>1, IndexKept DEF Crash, TearLine, HandSourced
<1>14. QED
  BY <1>1, <1>2, <1>3, <1>4, <1>5, <1>6, <1>7, <1>8, <1>9, <1>10, <1>11, <1>12, <1>13

\* The strengthened invariant is inductive.
LEMMA IInvNext == IInv /\ [Next]_vars => IInv'
<1> SUFFICES ASSUME IInv, [Next]_vars PROVE IInv'
  OBVIOUS
<1>1. TypeOK /\ TypeOK'
  BY TypeNext DEF IInv
<1>2. JournalKept /\ (bad' = {} => bad = {})
  BY <1>1, JournalGrows
<1>3. ASSUME bad' = {} PROVE IndexSourced' /\ \A q \in Procs : HandSourced(q)'
  <2>1. bad = {} /\ IndexSourced /\ \A q \in Procs : HandSourced(q)
    BY <1>2, <1>3 DEF IInv
  <2>2. CASE UNCHANGED vars
    <3>1. IndexSourced'
      BY <1>2, <2>1, <2>2, IndexKept DEF vars
    <3>2. \A q \in Procs : HandSourced(q)'
      BY <1>2, <2>1, <2>2, OtherHands DEF vars, local
    <3>3. QED
      BY <3>1, <3>2
  <2>3. CASE Next
    <3>1. PICK p \in Procs :
            \/ CreateNode(p) \/ BeginUpdate(p) \/ UpdateNode(p) \/ AddEdge(p)
            \/ RecordTreeCommit(p) \/ AppendLine(p) \/ Fetch(p) \/ WriteRow(p)
            \/ RecordEvent(p) \/ BeginIngest(p) \/ CheckEvent(p) \/ ClearIndex(p)
            \/ ReadJournal(p) \/ Crash(p) \/ TearLine(p)
      BY <2>3 DEF Next
    <3>2. HandSourced(p)' /\ IndexSourced'
      BY <1>1, <1>2, <1>3, <2>1, <3>1, HandNext
    <3>3. \A q \in Procs \ {p} : HandSourced(q)'
      BY <1>1, <1>2, <2>1, <3>1, OneProcess, OtherHands
    <3>4. QED
      BY <3>2, <3>3
  <2>4. QED
    BY <2>2, <2>3
<1>4. QED
  BY <1>1, <1>3 DEF IInv

\* The index never shows what a parsing journal does not hold, whatever the
\* processes do and wherever they are cut short (store.py:3-5).
THEOREM JournalFirstAlways == Spec => []JournalFirst
<1>1. IInv => JournalFirst
  BY DEF IInv, JournalFirst
<1>2. QED
  BY <1>1, IInvInit, IInvNext, PTL DEF Spec

-----------------------------------------------------------------------------
\* Damage.

\* Each spoilt line has a torn write of its own.
LEMMA DamageNext ==
  TypeOK /\ DamageBounded /\ [Next]_vars => DamageBounded'
<1> SUFFICES ASSUME TypeOK, DamageBounded, [Next]_vars PROVE DamageBounded'
  OBVIOUS
<1>1. IsFiniteSet(bad) /\ Cardinality(bad) \in Nat /\ tears \in Nat /\ torn \in BOOLEAN
      /\ Len(journal) + 1 \notin bad
  <2>1. Len(journal) \in Nat /\ bad \subseteq 1 .. Len(journal) /\ tears \in Nat /\ torn \in BOOLEAN
    BY LenProperties DEF TypeOK
  <2>2. IsFiniteSet(bad)
    <3>1. IsFiniteSet(1 .. Len(journal))
      BY <2>1, FS_Interval
    <3>2. QED
      BY <2>1, <3>1, FS_Subset
  <2>3. QED
    BY <2>1, <2>2, FS_CardinalityType
<1>2. CASE UNCHANGED <<bad, torn, tears>>
  BY <1>2 DEF DamageBounded
<1>3. ASSUME NEW p \in Procs, AppendLine(p) PROVE DamageBounded'
  <2>1. torn' = FALSE /\ tears' = tears
    BY <1>3 DEF AppendLine, budget
  <2>2. CASE torn
    <3>1. bad' = bad \cup {Len(journal) + 1}
      BY <1>3, <2>2 DEF AppendLine
    <3>2. Cardinality(bad') = Cardinality(bad) + 1
      BY <1>1, <3>1, FS_AddElement
    <3>3. QED
      BY <1>1, <2>1, <2>2, <3>2 DEF DamageBounded
  <2>3. CASE ~torn
    BY <1>3, <2>1, <2>3 DEF AppendLine, DamageBounded
  <2>4. QED
    BY <2>2, <2>3
<1>4. ASSUME NEW p \in Procs, TearLine(p) PROVE DamageBounded'
  <2>1. torn' = TRUE /\ tears' = tears + 1 /\ bad' = bad
    BY <1>4 DEF TearLine
  <2>2. QED
    BY <1>1, <2>1 DEF DamageBounded
<1>5. ASSUME NEW p \in Procs, Next, ~AppendLine(p), ~TearLine(p),
             \/ CreateNode(p) \/ BeginUpdate(p) \/ UpdateNode(p) \/ AddEdge(p)
             \/ RecordTreeCommit(p) \/ AppendLine(p) \/ Fetch(p) \/ WriteRow(p)
             \/ RecordEvent(p) \/ BeginIngest(p) \/ CheckEvent(p) \/ ClearIndex(p)
             \/ ReadJournal(p) \/ Crash(p) \/ TearLine(p)
      PROVE  UNCHANGED <<bad, torn, tears>>
  <2>1. CASE CreateNode(p) \/ BeginUpdate(p) \/ AddEdge(p) \/ RecordTreeCommit(p) \/ BeginIngest(p)
    BY <2>1 DEF CreateNode, BeginUpdate, AddEdge, RecordTreeCommit, BeginIngest, disk, budget
  <2>2. CASE UpdateNode(p) \/ Fetch(p) \/ WriteRow(p) \/ RecordEvent(p) \/ CheckEvent(p)
    BY <2>2 DEF UpdateNode, Fetch, WriteRow, RecordEvent, CheckEvent, disk, budget
  <2>3. CASE ClearIndex(p) \/ ReadJournal(p) \/ Crash(p)
    BY <2>3 DEF ClearIndex, ReadJournal, Crash, disk, budget
  <2>4. QED
    BY <1>5, <2>1, <2>2, <2>3
<1>6. CASE UNCHANGED vars
  BY <1>2, <1>6 DEF vars, disk, budget
<1>7. QED
  BY <1>2, <1>3, <1>4, <1>5, <1>6 DEF Next

\* Every write cut short spoils at most one line, whatever the crashes
\* (journal.py: the next append glues to the torn tail).
THEOREM DamageAlwaysBounded == Spec => []DamageBounded
<1>1. Init => DamageBounded
  BY FS_EmptySet DEF Init, DamageBounded
<1>2. QED
  BY <1>1, TypeCorrect, DamageNext, PTL DEF Spec

-----------------------------------------------------------------------------
\* What a replay computes.

\* The states of a replay exist for a journal of any length: what the function
\* Replays(j) is defined to be, it is.
LEMMA ReplaysDef ==
  ASSUME NEW j, Len(j) \in Nat
  PROVE  /\ DOMAIN Replays(j) = 0 .. Len(j)
         /\ Replays(j)[0] = EmptyGraph
         /\ \A k \in 1 .. Len(j) : Replays(j)[k] = Apply(Replays(j)[k - 1], j[k])
<1> DEFINE Is(g, n) == g = [k \in 0 .. n |-> IF k = 0 THEN EmptyGraph ELSE Apply(g[k - 1], j[k])]
           S == {n \in 0 .. Len(j) : \E g : Is(g, n)}
<1>1. 0 \in S
  <2> DEFINE g == [k \in 0 .. 0 |-> EmptyGraph]
  <2>1. Is(g, 0)
    OBVIOUS
  <2> HIDE DEF Is
  <2>2. QED
    BY <2>1
<1>2. ASSUME NEW n \in 0 .. Len(j) - 1, n \in S
      PROVE  n + 1 \in S
  <2>1. PICK g : Is(g, n)
    BY <1>2
  <2> DEFINE h == [k \in 0 .. n + 1 |-> IF k = n + 1 THEN Apply(g[n], j[n + 1]) ELSE g[k]]
  <2>2. ASSUME NEW k \in 0 .. n + 1
        PROVE  h[k] = IF k = 0 THEN EmptyGraph ELSE Apply(h[k - 1], j[k])
    <3>1. CASE k = n + 1
      <4>1. h[k] = Apply(g[n], j[k]) /\ k - 1 = n /\ h[n] = g[n] /\ k # 0
        BY <3>1
      <4> HIDE DEF h
      <4>2. QED
        BY <4>1
    <3>2. CASE k # n + 1 /\ k # 0
      <4>1. k \in 0 .. n /\ k - 1 \in 0 .. n /\ k - 1 # n + 1
        BY <3>2
      <4>2. h[k] = g[k] /\ h[k - 1] = g[k - 1]
        BY <3>2, <4>1
      <4>3. g[k] = Apply(g[k - 1], j[k])
        BY <2>1, <3>2, <4>1
      <4> HIDE DEF h
      <4>4. QED
        BY <3>2, <4>2, <4>3
    <3>3. CASE k = 0
      <4>1. g[0] = EmptyGraph
        BY <2>1
      <4>2. QED
        BY <3>3, <4>1
    <3>4. QED
      BY <3>1, <3>2, <3>3
  <2>3. DOMAIN h = 0 .. n + 1 /\ h = [k \in 0 .. n + 1 |-> h[k]]
    OBVIOUS
  <2> HIDE DEF h
  <2>4. Is(h, n + 1)
    BY <2>2, <2>3
  <2> HIDE DEF Is
  <2>5. QED
    BY <2>4
<1>3. Len(j) \in S
  <2> HIDE DEF S
  <2>1. \A n \in 0 .. Len(j) : n \in S
    BY <1>1, <1>2, InductionTo
  <2>2. QED
    BY <2>1
<1>4. PICK g : Is(g, Len(j))
  BY <1>3
<1>5. Is(Replays(j), Len(j))
  BY <1>4 DEF Replays
<1>6. QED
  <2> DEFINE r == Replays(j)
  <2>1. r = [k \in 0 .. Len(j) |-> IF k = 0 THEN EmptyGraph ELSE Apply(r[k - 1], j[k])]
    BY <1>5
  <2> HIDE DEF r
  <2>2. /\ DOMAIN r = 0 .. Len(j) /\ r[0] = EmptyGraph
        /\ \A k \in 1 .. Len(j) : r[k] = Apply(r[k - 1], j[k])
    BY <2>1
  <2>3. QED
    BY <2>2 DEF r

\* Two journals that begin alike go through the same states.
LEMMA ReplaysAgree ==
  ASSUME NEW i, NEW j, Len(i) \in Nat, Len(j) \in Nat, NEW n \in Nat, n <= Len(i), n <= Len(j),
         \A k \in 1 .. n : i[k] = j[k]
  PROVE  \A k \in 0 .. n : Replays(i)[k] = Replays(j)[k]
<1> DEFINE S == {k \in 0 .. n : Replays(i)[k] = Replays(j)[k]}
<1>1. 0 \in S
  BY ReplaysDef
<1>2. ASSUME NEW k \in 0 .. n - 1, k \in S
      PROVE  k + 1 \in S
  <2>1. k + 1 \in 1 .. Len(i) /\ k + 1 \in 1 .. Len(j) /\ k + 1 - 1 = k /\ k + 1 \in 1 .. n
    OBVIOUS
  <2>2. Replays(i)[k + 1] = Apply(Replays(i)[k], i[k + 1]) /\ Replays(j)[k + 1] = Apply(Replays(j)[k], j[k + 1])
    BY <2>1, ReplaysDef
  <2>3. QED
    BY <1>2, <2>1, <2>2
<1>3. \A k \in 0 .. n : k \in S
  <2> HIDE DEF S
  <2>1. QED
    BY <1>1, <1>2, InductionTo
<1>4. QED
  BY <1>3

\* One line more, one event more applied.
LEMMA ReplaysAppend ==
  ASSUME NEW T, NEW j \in Seq(T), NEW e \in T
  PROVE  /\ Len(Append(j, e)) = Len(j) + 1
         /\ \A k \in 0 .. Len(j) : Replays(Append(j, e))[k] = Replays(j)[k]
         /\ Replay(Append(j, e)) = Apply(Replay(j), e)
<1> DEFINE i == Append(j, e)
<1>1. /\ i \in Seq(T) /\ Len(i) = Len(j) + 1 /\ i[Len(i)] = e /\ Len(j) \in Nat
      /\ \A k \in 1 .. Len(j) : i[k] = j[k]
  BY AppendProperties, LenProperties
<1> HIDE DEF i
<1>2. \A k \in 0 .. Len(j) : Replays(i)[k] = Replays(j)[k]
  <2> DEFINE n == Len(j)
  <2>1. n \in Nat /\ Len(i) \in Nat /\ n <= Len(i) /\ n <= Len(j) /\ Len(j) \in Nat
    BY <1>1
  <2>2. \A k \in 1 .. n : i[k] = j[k]
    BY <1>1
  <2> HIDE DEF n
  <2>3. \A k \in 0 .. n : Replays(i)[k] = Replays(j)[k]
    BY <2>1, <2>2, ReplaysAgree
  <2>4. QED
    BY <2>3 DEF n
<1>3. Len(i) \in 1 .. Len(i) /\ Len(i) - 1 = Len(j)
  BY <1>1
<1>4. Replays(i)[Len(i)] = Apply(Replays(i)[Len(i) - 1], i[Len(i)])
  BY <1>1, <1>3, ReplaysDef
<1>5. Replays(i)[Len(i)] = Apply(Replays(j)[Len(j)], e)
  BY <1>1, <1>2, <1>3, <1>4
<1>6. QED
  BY <1>1, <1>2, <1>5 DEF Replay, i

\* A table of rows in R with keys in K, and a graph of two of them.
IsTable(t, K, R) == /\ t = [k \in DOMAIN t |-> t[k]]
                    /\ \A k \in DOMAIN t : k \in K /\ t[k] \in R
IsGraph(g) == /\ g = [nodes |-> g.nodes, links |-> g.links]
              /\ IsTable(g.nodes, Nodes, Docs) /\ IsTable(g.links, Links, Int)

\* A row put in a table, and the table that is left.
LEMMA PutIs ==
  ASSUME NEW t, NEW k, NEW r
  PROVE  /\ DOMAIN Put(t, k, r) = DOMAIN t \cup {k}
         /\ Put(t, k, r)[k] = r
         /\ \A x \in DOMAIN t \ {k} : Put(t, k, r)[x] = t[x]
BY DEF Put

\* It holds what such a table holds.
LEMMA PutTable ==
  ASSUME NEW K, NEW R, NEW t, IsTable(t, K, R), NEW k \in K, NEW r \in R
  PROVE  IsTable(Put(t, k, r), K, R)
<1> DEFINE u == Put(t, k, r)
<1>1. u = [x \in DOMAIN u |-> u[x]]
  BY DEF Put
<1>2. \A x \in DOMAIN u : x \in K /\ u[x] \in R
  BY DEF Put, IsTable
<1>3. QED
  BY <1>1, <1>2 DEF IsTable

\* The tables an event leaves.
LEMMA ApplyIs ==
  ASSUME NEW g, IsGraph(g), NEW e \in Event
  PROVE  /\ IsGraph(Apply(g, e))
         /\ e.kind = "node.created" =>
              Apply(g, e) = [nodes |-> Put(g.nodes, e.target, Merge(Blank, e)), links |-> g.links]
         /\ e.kind = "node.updated" /\ e.target \in DOMAIN g.nodes =>
              Apply(g, e) = [nodes |-> Put(g.nodes, e.target, Merge(g.nodes[e.target], e)), links |-> g.links]
         /\ e.kind = "node.updated" /\ e.target \notin DOMAIN g.nodes => Apply(g, e) = g
         /\ e.kind \notin NodeKinds =>
              Apply(g, e) = [nodes |-> g.nodes, links |-> Put(g.links, e.target, e.id)]
<1>1. g = [nodes |-> g.nodes, links |-> g.links] /\ IsTable(g.nodes, Nodes, Docs)
      /\ IsTable(g.links, Links, Int)
  BY DEF IsGraph
<1>2. \A N, L : /\ IsTable(N, Nodes, Docs) /\ IsTable(L, Links, Int) => IsGraph([nodes |-> N, links |-> L])
  BY DEF IsGraph
<1>3. /\ e.id \in Int /\ Blank \in Docs
      /\ e.kind \in NodeKinds => e.target \in Nodes
      /\ e.kind \notin NodeKinds => e.target \in Links
  BY DEF Event, Blank, Docs
<1>4. CASE e.kind = "node.created"
  <2>1. Apply(g, e) = [nodes |-> Put(g.nodes, e.target, Merge(Blank, e)), links |-> g.links]
    BY <1>1, <1>4 DEF Apply
  <2>2. Merge(Blank, e) \in Docs
    BY <1>3, MergeType
  <2>3. QED
    <3>1. IsTable(Put(g.nodes, e.target, Merge(Blank, e)), Nodes, Docs)
      BY <1>1, <1>3, <1>4, <2>2, PutTable DEF NodeKinds
    <3>2. IsGraph(Apply(g, e))
      BY <1>1, <1>2, <2>1, <3>1
    <3>3. QED
      BY <1>4, <2>1, <3>2 DEF NodeKinds
<1>5. CASE e.kind = "node.updated" /\ e.target \in DOMAIN g.nodes
  <2>1. Apply(g, e) = [nodes |-> Put(g.nodes, e.target, Merge(g.nodes[e.target], e)), links |-> g.links]
    BY <1>1, <1>5 DEF Apply
  <2>2. Merge(g.nodes[e.target], e) \in Docs
    BY <1>1, <1>5, MergeType DEF IsTable
  <2>3. QED
    <3>1. IsTable(Put(g.nodes, e.target, Merge(g.nodes[e.target], e)), Nodes, Docs)
      BY <1>1, <1>3, <1>5, <2>2, PutTable DEF NodeKinds
    <3>2. IsGraph(Apply(g, e))
      BY <1>1, <1>2, <2>1, <3>1
    <3>3. QED
      BY <1>5, <2>1, <3>2 DEF NodeKinds
<1>6. CASE e.kind = "node.updated" /\ e.target \notin DOMAIN g.nodes
  BY <1>6 DEF Apply, NodeKinds
<1>7. CASE e.kind \notin NodeKinds
  <2>1. Apply(g, e) = [nodes |-> g.nodes, links |-> Put(g.links, e.target, e.id)]
    BY <1>1, <1>7 DEF Apply, NodeKinds
  <2>2. QED
    <3>1. IsTable(Put(g.links, e.target, e.id), Links, Int)
      BY <1>1, <1>3, <1>7, PutTable
    <3>2. IsGraph(Apply(g, e))
      BY <1>1, <1>2, <2>1, <3>1
    <3>3. QED
      BY <1>7, <2>1, <3>2 DEF NodeKinds
<1>8. QED
  BY <1>4, <1>5, <1>6, <1>7 DEF NodeKinds

LEMMA EmptyIsGraph ==
  IsGraph(EmptyGraph) /\ DOMAIN EmptyGraph.nodes = {} /\ DOMAIN EmptyGraph.links = {}
BY DEF IsGraph, EmptyGraph, IsTable, EmptyTable

\* Every state of a replay is a graph.
LEMMA ReplaysGraph ==
  ASSUME NEW j \in Seq(Event)
  PROVE  \A k \in 0 .. Len(j) : IsGraph(Replays(j)[k])
<1> DEFINE S == {k \in 0 .. Len(j) : IsGraph(Replays(j)[k])}
<1>1. Len(j) \in Nat /\ \A k \in 1 .. Len(j) : j[k] \in Event
  BY LenProperties, ElementOfSeq
<1>2. 0 \in S
  BY <1>1, ReplaysDef, EmptyIsGraph
<1>3. ASSUME NEW k \in 0 .. Len(j) - 1, k \in S
      PROVE  k + 1 \in S
  <2>1. k + 1 \in 1 .. Len(j) /\ k + 1 - 1 = k /\ k + 1 \in 0 .. Len(j)
    BY <1>1
  <2>2. Replays(j)[k + 1] = Apply(Replays(j)[k], j[k + 1])
    BY <1>1, <2>1, ReplaysDef
  <2>3. QED
    BY <1>1, <1>3, <2>1, <2>2, ApplyIs
<1>4. \A k \in 0 .. Len(j) : k \in S
  <2> HIDE DEF S
  <2>1. QED
    BY <1>1, <1>2, <1>3, InductionTo
<1>5. QED
  BY <1>4

\* What an event leaves alone, and what it leaves of its target.
LEMMA ApplyRows ==
  ASSUME NEW g, IsGraph(g), NEW e \in Event
  PROVE  /\ \A x : x # e.target => /\ Match(Apply(g, e).nodes, g.nodes, x)
                                   /\ Match(Apply(g, e).links, g.links, x)
         /\ e.kind \in NodeKinds => Apply(g, e).links = g.links
         /\ e.kind = "node.created" =>
              /\ e.target \in DOMAIN Apply(g, e).nodes
              /\ Apply(g, e).nodes[e.target] = Merge(Blank, e)
         /\ (e.kind = "node.updated" /\ e.target \in DOMAIN g.nodes) =>
              /\ e.target \in DOMAIN Apply(g, e).nodes
              /\ Apply(g, e).nodes[e.target] = Merge(g.nodes[e.target], e)
         /\ e.kind \notin NodeKinds =>
              /\ Apply(g, e).nodes = g.nodes
              /\ e.target \in DOMAIN Apply(g, e).links
              /\ Apply(g, e).links[e.target] = e.id
<1> DEFINE h == Apply(g, e)
<1>1. \A t, k, r : /\ k \in DOMAIN Put(t, k, r) /\ Put(t, k, r)[k] = r
                   /\ \A x : x # k => Match(Put(t, k, r), t, x)
  <2> TAKE t, k, r
  <2> DEFINE u == Put(t, k, r)
  <2>1. /\ DOMAIN u = DOMAIN t \cup {k} /\ u[k] = r
        /\ \A x \in DOMAIN t \ {k} : u[x] = t[x]
    BY DEF Put
  <2> HIDE DEF u
  <2>2. k \in DOMAIN u /\ u[k] = r /\ \A x : x # k => Match(u, t, x)
    BY <2>1 DEF Match
  <2>3. QED
    BY <2>2 DEF u
<1>2. \A t, x : Match(t, t, x)
  BY DEF Match
<1>3. CASE e.kind = "node.created"
  <2>1. h = [nodes |-> Put(g.nodes, e.target, Merge(Blank, e)), links |-> g.links]
    BY <1>3, ApplyIs
  <2>2. h.nodes = Put(g.nodes, e.target, Merge(Blank, e)) /\ h.links = g.links
    BY <2>1
  <2> HIDE DEF h
  <2>3. QED
    BY <1>1, <1>2, <1>3, <2>2 DEF NodeKinds, h
<1>4. CASE e.kind = "node.updated" /\ e.target \in DOMAIN g.nodes
  <2>1. h = [nodes |-> Put(g.nodes, e.target, Merge(g.nodes[e.target], e)), links |-> g.links]
    BY <1>4, ApplyIs
  <2>2. h.nodes = Put(g.nodes, e.target, Merge(g.nodes[e.target], e)) /\ h.links = g.links
    BY <2>1
  <2> HIDE DEF h
  <2>3. QED
    BY <1>1, <1>2, <1>4, <2>2 DEF NodeKinds, h
<1>5. CASE e.kind = "node.updated" /\ e.target \notin DOMAIN g.nodes
  <2>1. h = g
    BY <1>5, ApplyIs
  <2> HIDE DEF h
  <2>2. QED
    BY <1>2, <1>5, <2>1 DEF NodeKinds, h
<1>6. CASE e.kind \notin NodeKinds
  <2>1. h = [nodes |-> g.nodes, links |-> Put(g.links, e.target, e.id)]
    BY <1>6, ApplyIs
  <2>2. h.nodes = g.nodes /\ h.links = Put(g.links, e.target, e.id)
    BY <2>1
  <2> HIDE DEF h
  <2>3. QED
    BY <1>1, <1>2, <1>6, <2>2 DEF NodeKinds, h
<1>7. QED
  BY <1>3, <1>4, <1>5, <1>6 DEF NodeKinds

LEMMA TruthIsGraph ==
  ASSUME TypeOK
  PROVE  IsGraph(Truth)
<1>1. Legible \in Seq(Event) /\ Len(Legible) \in 0 .. Len(Legible)
  BY LegibleType, LenProperties
<1>2. QED
  BY <1>1, ReplaysGraph DEF Truth, Replay

\* What a replay shows changes with the file only.
LEMMA TruthKept == UNCHANGED disk => Truth' = Truth /\ Histories' = Histories
BY DEF Truth, Histories, Legible, disk

\* A line that parses adds its event.
LEMMA TruthGrows ==
  ASSUME TypeOK, bad = {}, bad' = {}, NEW e \in Event, journal' = Append(journal, e)
  PROVE  /\ Truth = Histories[Len(journal)]
         /\ Truth' = Apply(Truth, e)
         /\ DOMAIN Histories = 0 .. Len(journal)
         /\ DOMAIN Histories' = 0 .. Len(journal) + 1
         /\ \A k \in DOMAIN Histories : Histories'[k] = Histories[k]
<1>1. Legible = journal /\ Legible' = Append(journal, e)
  BY DEF Legible
<1>2. journal \in Seq(Event) /\ Len(journal) \in Nat
  BY LenProperties DEF TypeOK
<1>3. /\ Len(Append(journal, e)) = Len(journal) + 1
      /\ \A k \in 0 .. Len(journal) : Replays(Append(journal, e))[k] = Replays(journal)[k]
      /\ Replay(Append(journal, e)) = Apply(Replay(journal), e)
  BY <1>2, ReplaysAppend
<1>4. Truth = Replay(journal) /\ Truth' = Replay(Append(journal, e))
  BY <1>1 DEF Truth
<1>5. Histories = Replays(journal) /\ Histories' = Replays(Append(journal, e))
  BY <1>1 DEF Histories
<1>6. DOMAIN Replays(journal) = 0 .. Len(journal)
  BY <1>2, ReplaysDef
<1>7. DOMAIN Replays(Append(journal, e)) = 0 .. Len(journal) + 1
  BY <1>2, <1>3, ReplaysDef
<1>8. Truth = Histories[Len(journal)]
  BY <1>4, <1>5 DEF Replay
<1>9. QED
  BY <1>3, <1>4, <1>5, <1>6, <1>7, <1>8

-----------------------------------------------------------------------------
\* Writers that keep to their own.

\* Where a writer is, with no failure so far.
LEMMA WriterAt ==
  ASSUME IInv, WritersInv, Quiet, NEW p \in Procs
  PROVE  /\ mode[p] \in {"idle", "write"}
         /\ mode[p] = "idle" => pc[p] = "idle"
         /\ mode[p] = "write" =>
              /\ pc[p] \in {"edit", "append", "apply", "record"}
              /\ Len(queue[p]) = 1
              /\ Current(p) \in Event
              /\ Current(p).target \in Owned[p]
<1>1. HandSourced(p) /\ HandFits(p) /\ TypeOK
  BY DEF IInv, WritersInv
<1>2. pc[p] \in StepsOf(mode[p]) /\ mode[p] \in {"idle", "write"}
  BY <1>1 DEF HandSourced, HandFits
<1>3. CASE mode[p] = "write"
  <2>1. pc[p] \in {"edit", "append", "apply", "record"}
    BY <1>2, <1>3 DEF StepsOf
  <2>2. queue[p] # <<>>
    BY <1>1, <2>1 DEF TypeOK
  <2>3. Current(p) \in Event
    BY <1>1, <2>2, QueueType
  <2>4. QED
    BY <1>1, <1>2, <1>3, <2>1, <2>3 DEF HandSourced, HandFits
<1>4. CASE mode[p] = "idle"
  BY <1>2, <1>4 DEF StepsOf
<1>5. QED
  BY <1>2, <1>3, <1>4

\* No failure so far leaves the writers' own steps.
LEMMA WriterSteps ==
  ASSUME IInv, WritersInv, Separate, Next, Quiet'
  PROVE  /\ Quiet
         /\ \E p \in Procs : \/ CreateNode(p) \/ BeginUpdate(p) \/ UpdateNode(p)
                             \/ AddEdge(p) \/ RecordTreeCommit(p)
                             \/ AppendLine(p) \/ WriteRow(p) \/ RecordEvent(p)
<1>1. PICK p \in Procs :
        \/ CreateNode(p) \/ BeginUpdate(p) \/ UpdateNode(p) \/ AddEdge(p)
        \/ RecordTreeCommit(p) \/ AppendLine(p) \/ Fetch(p) \/ WriteRow(p)
        \/ RecordEvent(p) \/ BeginIngest(p) \/ CheckEvent(p) \/ ClearIndex(p)
        \/ ReadJournal(p) \/ Crash(p) \/ TearLine(p)
  BY DEF Next
<1>2. TypeOK
  BY DEF IInv
<1>3. ~ClearIndex(p) /\ ~Crash(p) /\ ~TearLine(p) /\ ~BeginIngest(p)
  BY <1>2 DEF ClearIndex, Crash, TearLine, BeginIngest, Quiet, TypeOK, Separate
<1>4. Quiet
  <2>1. CASE CreateNode(p) \/ BeginUpdate(p) \/ AddEdge(p) \/ RecordTreeCommit(p)
    BY <2>1 DEF CreateNode, BeginUpdate, AddEdge, RecordTreeCommit, budget, Quiet
  <2>2. CASE UpdateNode(p) \/ Fetch(p) \/ WriteRow(p) \/ RecordEvent(p) \/ CheckEvent(p)
    BY <2>2 DEF UpdateNode, Fetch, WriteRow, RecordEvent, CheckEvent, budget, Quiet
  <2>3. CASE ReadJournal(p) \/ AppendLine(p)
    BY <2>3 DEF ReadJournal, AppendLine, budget, Quiet
  <2>4. QED
    BY <1>1, <1>3, <2>1, <2>2, <2>3
<1>5. ~Fetch(p) /\ ~CheckEvent(p) /\ ~ReadJournal(p)
  <2>1. pc[p] \in {"idle", "edit", "append", "apply", "record"}
    BY <1>4, WriterAt
  <2>2. QED
    BY <2>1 DEF Fetch, CheckEvent, ReadJournal
<1>6. QED
  BY <1>1, <1>3, <1>4, <1>5

\* A call that begins has one event and one document in hand.
LEMMA Handed ==
  ASSUME TypeOK, NEW p \in Procs, NEW m, NEW step, NEW e, NEW d,
         Begin(p, m, step, <<e>>, d)
  PROVE  mode'[p] = m /\ pc'[p] = step /\ Current(p)' = e /\ doc'[p] = d /\ mode[p] = "idle"
BY DEF Begin, Goto, Current, TypeOK

\* What a process holds keeps fitting when the rows of its target stay.
LEMMA FitsElsewhere ==
  ASSUME NEW q \in Procs, HandFits(q), mode[q] = "idle" => pc[q] = "idle",
         mode'[q] = mode[q], pc'[q] = pc[q], queue'[q] = queue[q], doc'[q] = doc[q],
         mode[q] = "write" => /\ Match(nodes', nodes, Current(q).target)
                              /\ Match(Truth'.nodes, Truth.nodes, Current(q).target)
                              /\ Match(Truth'.links, Truth.links, Current(q).target)
  PROVE  HandFits(q)'
<1>1. Current(q)' = Current(q)
  BY DEF Current
<1>2. mode[q] \in {"idle", "write"}
  BY DEF HandFits
<1>3. CASE mode[q] = "write"
  <2> DEFINE e == Current(q)
  <2>1. (pc[q] = "edit" \/ (pc[q] = "append" /\ e.kind = "node.updated")) => UpdateFits(q)'
    <3>1. SUFFICES ASSUME pc[q] = "edit" \/ (pc[q] = "append" /\ e.kind = "node.updated")
                   PROVE  UpdateFits(q)'
      OBVIOUS
    <3>2. UpdateFits(q)
      BY <3>1 DEF HandFits
    <3>3. e.target \in DOMAIN nodes' /\ nodes'[e.target] = nodes[e.target]
      BY <1>3, <3>2 DEF Match, UpdateFits
    <3>4. QED
      BY <1>1, <3>2, <3>3 DEF UpdateFits
  <2>2. (pc[q] = "append" /\ e.kind = "node.created") =>
            doc[q] = Merge(Blank, e) /\ e.target \notin DOMAIN Truth'.nodes
    BY <1>3 DEF HandFits, Match
  <2>3. (pc[q] = "apply" /\ e.kind \in NodeKinds) =>
            e.target \in DOMAIN Truth'.nodes /\ Truth'.nodes[e.target] = doc[q]
    BY <1>3 DEF HandFits, Match
  <2>4. (pc[q] = "apply" /\ e.kind \notin NodeKinds) =>
            e.target \in DOMAIN Truth'.links /\ Truth'.links[e.target] = e.id
    BY <1>3 DEF HandFits, Match
  <2>5. e.target \in Owned[q]
    BY <1>3 DEF HandFits
  <2>6. QED
    BY <1>1, <1>3, <2>1, <2>2, <2>3, <2>4, <2>5 DEF HandFits
<1>4. CASE mode[q] = "idle"
  BY <1>4 DEF HandFits
<1>5. QED
  BY <1>2, <1>3, <1>4

\* A step of p that leaves the file and the index alone, away from the write
\* of a row.
LEMMA HandsOnly ==
  ASSUME IInv, WritersInv, Quiet, NEW p \in Procs, UNCHANGED <<disk, index>>,
         pc[p] \notin {"apply", "record"}, pc'[p] \notin {"apply", "record"},
         \A q \in Procs \ {p} :
            mode'[q] = mode[q] /\ pc'[q] = pc[q] /\ queue'[q] = queue[q] /\ doc'[q] = doc[q],
         HandFits(p)'
  PROVE  WritersInv'
<1>1. /\ bad = {} /\ torn = FALSE /\ InStep /\ LinesKnown /\ StaleNeverWrong
      /\ \A q \in Procs : HandFits(q)
  BY DEF WritersInv
<1>2. Truth' = Truth /\ Histories' = Histories /\ nodes' = nodes /\ links' = links
      /\ ids' = ids /\ bad' = bad /\ torn' = torn /\ journal' = journal
  BY TruthKept DEF disk, index
<1>3. \A x : Lags(x) => Lags(x)'
  BY DEF Lags, Current
<1>4. InStep'
  BY <1>1, <1>2, <1>3 DEF InStep
<1>5. \A q \in Procs \ {p} : HandFits(q)'
  <2>1. TAKE q \in Procs \ {p}
  <2>2. mode[q] = "idle" => pc[q] = "idle"
    BY WriterAt
  <2>3. \A t, x : Match(t, t, x)
    BY DEF Match
  <2>4. QED
    BY <1>1, <1>2, <2>2, <2>3, FitsElsewhere
<1>6. LinesKnown'
  <2>1. \A q \in Procs : pc[q] \in {"apply", "record"} =>
           pc'[q] \in {"apply", "record"} /\ Current(q)' = Current(q)
    BY DEF Current
  <2>2. QED
    BY <1>1, <1>2, <2>1 DEF LinesKnown
<1>7. StaleNeverWrong'
  BY <1>1, <1>2 DEF StaleNeverWrong
<1>8. QED
  BY <1>1, <1>2, <1>4, <1>5, <1>6, <1>7 DEF WritersInv

\* A caller that begins a call.
LEMMA BeginFits ==
  ASSUME IInv, WritersInv, Quiet, NEW p \in Procs,
         CreateNode(p) \/ BeginUpdate(p) \/ AddEdge(p) \/ RecordTreeCommit(p)
  PROVE  WritersInv'
<1>1. TypeOK
  BY DEF IInv
<1>2. LinesKnown
  BY DEF WritersInv
<1>3. UNCHANGED <<disk, index>>
  BY DEF CreateNode, BeginUpdate, AddEdge, RecordTreeCommit
<1>4. Truth' = Truth /\ nodes' = nodes
  BY <1>3, TruthKept DEF index
<1>5. CASE CreateNode(p)
  <2>1. PICK n \in Owned[p] \cap Nodes :
          Unused(n) /\ Begin(p, "write", "append", <<Created(lastId', n)>>, NewDoc(lastId'))
    BY <1>5 DEF CreateNode
  <2> DEFINE e == Created(lastId', n)
  <2>2. mode'[p] = "write" /\ pc'[p] = "append" /\ Current(p)' = e
        /\ doc'[p] = NewDoc(lastId') /\ mode[p] = "idle"
    BY <1>1, <2>1, Handed
  <2>3. e.kind = "node.created" /\ e.target = n /\ e.sets = Fields /\ e.to = NewDoc(lastId')
    BY DEF Created
  <2>4. Merge(Blank, e) = NewDoc(lastId')
    BY <2>3 DEF Merge, NewDoc
  <2>5. n \notin DOMAIN Truth'.nodes
    BY <1>2, <1>4, <2>1 DEF LinesKnown, Unused
  <2> HIDE DEF e
  <2>6. HandFits(p)'
    BY <2>1, <2>2, <2>3, <2>4, <2>5 DEF HandFits
  <2>7. pc[p] = "idle"
    BY <2>2, WriterAt
  <2>8. QED
    BY <1>1, <1>5, <1>3, <2>2, <2>6, <2>7, OneProcess, HandsOnly
<1>6. CASE BeginUpdate(p)
  <2>1. PICK n \in Owned[p] \cap DOMAIN nodes, f \in Fields :
          Begin(p, "write", "edit",
                <<Updated(lastId', n, f, IF f \in Lists THEN nodes[n][f] \cup {lastId'}
                                         ELSE {lastId'})>>, Blank)
    BY <1>6 DEF BeginUpdate
  <2> DEFINE v == IF f \in Lists THEN nodes[n][f] \cup {lastId'} ELSE {lastId'}
             e == Updated(lastId', n, f, v)
  <2>2. mode'[p] = "write" /\ pc'[p] = "edit" /\ Current(p)' = e /\ mode[p] = "idle"
    BY <1>1, <2>1, Handed
  <2>3. e.kind = "node.updated" /\ e.target = n /\ e.sets = {f} /\ e.to[f] = v
    BY DEF Updated, Blank
  <2>4. f \in Lists => nodes[n][f] \subseteq v
    OBVIOUS
  <2> HIDE DEF e, v
  <2>5. UpdateFits(p)'
    BY <1>4, <2>1, <2>2, <2>3, <2>4 DEF UpdateFits
  <2>6. HandFits(p)'
    BY <2>1, <2>2, <2>3, <2>5 DEF HandFits
  <2>7. pc[p] = "idle"
    BY <2>2, WriterAt
  <2>8. QED
    BY <1>1, <1>6, <1>3, <2>2, <2>6, <2>7, OneProcess, HandsOnly
<1>7. CASE AddEdge(p) \/ RecordTreeCommit(p)
  <2>1. PICK k \in Owned[p] : \/ Begin(p, "write", "append", <<Added(lastId', k)>>, Blank)
                              \/ Begin(p, "write", "append", <<Recorded(lastId', k)>>, Blank)
    BY <1>7 DEF AddEdge, RecordTreeCommit
  <2>2. PICK e \in {Added(lastId', k), Recorded(lastId', k)} :
          Begin(p, "write", "append", <<e>>, Blank)
    BY <2>1
  <2>3. mode'[p] = "write" /\ pc'[p] = "append" /\ Current(p)' = e /\ mode[p] = "idle"
    BY <1>1, <2>2, Handed
  <2>4. e.kind \notin NodeKinds /\ e.target = k
    BY DEF Added, Recorded, NodeKinds
  <2>5. HandFits(p)'
    BY <2>2, <2>3, <2>4 DEF HandFits, NodeKinds
  <2>6. pc[p] = "idle"
    BY <2>3, WriterAt
  <2>7. QED
    BY <1>1, <1>7, <1>3, <2>3, <2>5, <2>6, OneProcess, HandsOnly
<1>8. QED
  BY <1>5, <1>6, <1>7

\* update_node reads the node again: nobody else has written it.
LEMMA UpdateNodeFits ==
  ASSUME IInv, WritersInv, Quiet, NEW p \in Procs, UpdateNode(p)
  PROVE  WritersInv'
<1>1. TypeOK
  BY DEF IInv
<1>2. mode[p] = "write" /\ pc[p] = "edit" /\ HandFits(p)
  BY WriterAt DEF UpdateNode, WritersInv
<1>3. UpdateFits(p) /\ Current(p).target \in Owned[p]
  BY <1>2 DEF HandFits
<1>4. UNCHANGED <<disk, index>> /\ nodes' = nodes
  BY DEF UpdateNode, index
<1>5. /\ doc' = [doc EXCEPT ![p] = Merge(nodes[Current(p).target], Current(p))]
      /\ pc' = [pc EXCEPT ![p] = "append"] /\ UNCHANGED <<mode, queue>>
  BY <1>3 DEF UpdateNode, UpdateFits, Goto
<1>6. /\ doc'[p] = Merge(nodes[Current(p).target], Current(p))
      /\ pc'[p] = "append" /\ mode'[p] = "write" /\ Current(p)' = Current(p)
  BY <1>1, <1>2, <1>5 DEF TypeOK, Current
<1>7. UpdateFits(p)'
  BY <1>3, <1>4, <1>6 DEF UpdateFits
<1>8. HandFits(p)'
  BY <1>3, <1>6, <1>7 DEF HandFits, UpdateFits
<1>9. QED
  BY <1>1, <1>2, <1>4, <1>6, <1>8, OneProcess, HandsOnly

\* Two processes in a call have different rows in hand.
LEMMA OwnTargets ==
  ASSUME IInv, WritersInv, Separate, Quiet, NEW p \in Procs, NEW q \in Procs, p # q,
         mode[p] = "write", mode[q] = "write"
  PROVE  Current(p).target # Current(q).target
<1>1. Current(p).target \in Owned[p] /\ Current(q).target \in Owned[q]
  BY WriterAt
<1>2. Owned[p] \cap Owned[q] = {}
  BY DEF Separate
<1>3. QED
  BY <1>1, <1>2

\* Before its line is appended, the node an update is about is as the journal
\* says.
LEMMA AboutToAppend ==
  ASSUME IInv, WritersInv, Separate, Quiet, NEW p \in Procs, pc[p] = "append"
  PROVE  /\ mode[p] = "write" /\ Current(p) \in Event /\ HandFits(p)
         /\ ~Lags(Current(p).target)
         /\ Current(p).kind = "node.updated" =>
              /\ UpdateFits(p)
              /\ Match(nodes, Truth.nodes, Current(p).target)
<1>1. mode[p] = "write" /\ Current(p) \in Event /\ HandFits(p) /\ InStep
  BY WriterAt DEF WritersInv
<1>2. ~Lags(Current(p).target)
  <2>1. SUFFICES ASSUME NEW q \in Procs, pc[q] = "apply", Current(q).target = Current(p).target
                 PROVE  FALSE
    BY DEF Lags
  <2>2. q # p /\ mode[q] = "write"
    BY <2>1, WriterAt
  <2>3. QED
    BY <1>1, <2>1, <2>2, OwnTargets
<1>3. CASE Current(p).kind = "node.updated"
  <2>1. UpdateFits(p)
    BY <1>1, <1>3 DEF HandFits
  <2>2. Current(p).target \in DOMAIN nodes
    BY <2>1 DEF UpdateFits
  <2>3. QED
    BY <1>1, <1>2, <2>1, <2>2 DEF InStep
<1>4. QED
  BY <1>1, <1>2, <1>3

\* A line is appended: its row lags until it is written.
LEMMA AppendFits ==
  ASSUME IInv, WritersInv, Separate, Quiet, NEW p \in Procs, AppendLine(p)
  PROVE  WritersInv'
<1> DEFINE e == Current(p)
           t == e.target
<1>1. /\ TypeOK /\ bad = {} /\ torn = FALSE /\ InStep /\ LinesKnown /\ StaleNeverWrong
      /\ \A q \in Procs : HandFits(q)
  BY DEF IInv, WritersInv
<1>2. pc[p] = "append" /\ journal' = Append(journal, e) /\ bad' = {} /\ torn' = FALSE
  BY <1>1 DEF AppendLine
<1>3. /\ mode[p] = "write" /\ e \in Event /\ HandFits(p) /\ ~Lags(t)
      /\ e.kind = "node.updated" => UpdateFits(p) /\ Match(nodes, Truth.nodes, t)
  BY <1>2, AboutToAppend
<1>4. /\ pc' = [pc EXCEPT ![p] = "apply"] /\ UNCHANGED <<mode, queue, doc>>
      /\ nodes' = nodes /\ links' = links /\ ids' = ids
  BY <1>3 DEF AppendLine, Goto, index
<1>5. \A q \in Procs : /\ Current(q)' = Current(q) /\ doc'[q] = doc[q] /\ mode'[q] = mode[q]
                       /\ pc'[q] = IF q = p THEN "apply" ELSE pc[q]
  BY <1>1, <1>4 DEF Current, TypeOK
<1>6. /\ Truth = Histories[Len(journal)] /\ Truth' = Apply(Truth, e)
      /\ DOMAIN Histories = 0 .. Len(journal) /\ DOMAIN Histories' = 0 .. Len(journal) + 1
      /\ \A k \in DOMAIN Histories : Histories'[k] = Histories[k]
  BY <1>1, <1>2, <1>3, TruthGrows
<1>7. IsGraph(Truth)
  BY <1>1, TruthIsGraph
<1>8. /\ \A x : x # t => Match(Truth'.nodes, Truth.nodes, x) /\ Match(Truth'.links, Truth.links, x)
      /\ e.kind = "node.created" =>
              t \in DOMAIN Truth'.nodes /\ Truth'.nodes[t] = Merge(Blank, e)
      /\ (e.kind = "node.updated" /\ t \in DOMAIN Truth.nodes) =>
              t \in DOMAIN Truth'.nodes /\ Truth'.nodes[t] = Merge(Truth.nodes[t], e)
      /\ e.kind \notin NodeKinds => t \in DOMAIN Truth'.links /\ Truth'.links[t] = e.id
  BY <1>3, <1>6, <1>7, ApplyRows
<1>9. \A x : (x = t \/ Lags(x)) => Lags(x)'
  BY <1>2, <1>5 DEF Lags
<1>10. InStep'
  <2>1. \A x : Lags(x)' \/ (x # t /\ ~Lags(x))
    BY <1>9
  <2>2. ASSUME NEW n \in DOMAIN nodes \cup DOMAIN Truth'.nodes, ~Lags(n)'
        PROVE  Match(nodes, Truth'.nodes, n)
    <3>1. n # t /\ ~Lags(n)
      BY <2>1, <2>2
    <3>2. Match(Truth'.nodes, Truth.nodes, n)
      BY <1>8, <3>1
    <3>3. n \in DOMAIN nodes \cup DOMAIN Truth.nodes
      BY <2>2, <3>2 DEF Match
    <3>4. Match(nodes, Truth.nodes, n)
      BY <1>1, <3>1, <3>3 DEF InStep
    <3>5. QED
      BY <3>2, <3>4 DEF Match
  <2>3. ASSUME NEW x \in DOMAIN links \cup DOMAIN Truth'.links, ~Lags(x)'
        PROVE  Match(links, Truth'.links, x)
    <3>1. x # t /\ ~Lags(x)
      BY <2>1, <2>3
    <3>2. Match(Truth'.links, Truth.links, x)
      BY <1>8, <3>1
    <3>3. x \in DOMAIN links \cup DOMAIN Truth.links
      BY <2>3, <3>2 DEF Match
    <3>4. Match(links, Truth.links, x)
      BY <1>1, <3>1, <3>3 DEF InStep
    <3>5. QED
      BY <3>2, <3>4 DEF Match
  <2>4. QED
    BY <1>4, <2>2, <2>3 DEF InStep
<1>11. \A q \in Procs \ {p} : HandFits(q)'
  <2>1. TAKE q \in Procs \ {p}
  <2>2. mode[q] = "idle" => pc[q] = "idle"
    BY WriterAt
  <2>3. mode[q] = "write" => Current(q).target # t
    BY <1>3, OwnTargets
  <2>4. mode[q] = "write" => /\ Match(nodes', nodes, Current(q).target)
                             /\ Match(Truth'.nodes, Truth.nodes, Current(q).target)
                             /\ Match(Truth'.links, Truth.links, Current(q).target)
    BY <1>4, <1>8, <2>3 DEF Match
  <2>5. queue'[q] = queue[q] /\ HandFits(q) /\ pc'[q] = pc[q] /\ mode'[q] = mode[q] /\ doc'[q] = doc[q]
    BY <1>1, <1>4, <1>5
  <2>6. QED
    BY <2>2, <2>4, <2>5, FitsElsewhere
<1>12. HandFits(p)'
  <2>1. e.kind = "node.created" => t \in DOMAIN Truth'.nodes /\ Truth'.nodes[t] = doc[p]
    BY <1>2, <1>3, <1>8 DEF HandFits
  <2>2. e.kind = "node.updated" => t \in DOMAIN Truth'.nodes /\ Truth'.nodes[t] = doc[p]
    BY <1>2, <1>3, <1>8 DEF UpdateFits, Match
  <2>3. t \in Owned[p]
    BY <1>3, WriterAt
  <2>4. pc'[p] = "apply" /\ mode'[p] = "write" /\ Current(p)' = e /\ doc'[p] = doc[p]
    BY <1>3, <1>5
  <2>5. QED
    BY <1>8, <2>1, <2>2, <2>3, <2>4 DEF HandFits, NodeKinds
<1>13. LinesKnown'
  <2>1. /\ DOMAIN journal' = DOMAIN journal \cup {Len(journal) + 1} /\ journal'[Len(journal) + 1] = e
        /\ \A i \in DOMAIN journal : journal'[i] = journal[i]
    <3>1. journal \in Seq(Event) /\ Len(journal) \in Nat
      BY <1>1, LenProperties DEF TypeOK
    <3>2. QED
      BY <1>2, <1>3, <3>1, AppendProperties, LenProperties
  <2>2. ASSUME NEW i \in DOMAIN journal'
        PROVE  \/ journal'[i].id \in ids'
               \/ \E q \in Procs : pc'[q] \in {"apply", "record"} /\ Current(q)'.id = journal'[i].id
    <3>1. CASE i \in DOMAIN journal
      BY <1>1, <1>2, <1>4, <1>5, <2>1, <3>1 DEF LinesKnown
    <3>2. CASE i = Len(journal) + 1
      BY <1>5, <2>1, <3>2
    <3>3. QED
      BY <2>1, <2>2, <3>1, <3>2
  <2>3. ASSUME NEW n \in DOMAIN Truth'.nodes
        PROVE  \E i \in DOMAIN journal' : journal'[i].target = n
    <3>1. CASE n = t
      BY <2>1, <3>1
    <3>2. CASE n # t
      <4>1. n \in DOMAIN Truth.nodes
        BY <1>8, <2>3, <3>2 DEF Match
      <4>2. QED
        BY <1>1, <2>1, <4>1 DEF LinesKnown
    <3>3. QED
      BY <3>1, <3>2
  <2>4. QED
    BY <2>2, <2>3 DEF LinesKnown
<1>14. StaleNeverWrong'
  <2>1. \A k \in DOMAIN Histories : k \in DOMAIN Histories' /\ Histories'[k] = Histories[k]
    BY <1>1, <1>6, LenProperties DEF TypeOK
  <2>2. QED
    BY <1>1, <1>4, <2>1 DEF StaleNeverWrong
<1>15. QED
  BY <1>2, <1>10, <1>11, <1>12, <1>13, <1>14 DEF WritersInv

\* And keeps every entry of every list.
LEMMA AppendKeepsLists ==
  ASSUME IInv, WritersInv, Separate, Quiet, NEW p \in Procs, AppendLine(p),
         NEW n \in DOMAIN Truth.nodes, NEW f \in Lists
  PROVE  n \in DOMAIN Truth'.nodes /\ Truth.nodes[n][f] \subseteq Truth'.nodes[n][f]
<1> DEFINE e == Current(p)
           t == e.target
<1>1. TypeOK /\ bad = {} /\ torn = FALSE
  BY DEF IInv, WritersInv
<1>2. pc[p] = "append" /\ journal' = Append(journal, e) /\ bad' = {}
  BY <1>1 DEF AppendLine
<1>3. /\ e \in Event /\ HandFits(p)
      /\ e.kind = "node.updated" => UpdateFits(p) /\ Match(nodes, Truth.nodes, t)
  BY <1>2, AboutToAppend
<1>4. Truth' = Apply(Truth, e) /\ IsGraph(Truth)
  BY <1>1, <1>2, <1>3, TruthGrows, TruthIsGraph
<1>5. CASE n # t
  <2>1. Match(Truth'.nodes, Truth.nodes, n)
    BY <1>3, <1>4, <1>5, ApplyRows
  <2>2. QED
    BY <2>1 DEF Match
<1>6. CASE n = t /\ e.kind \notin NodeKinds
  <2>1. Truth'.nodes = Truth.nodes
    BY <1>3, <1>4, <1>6, ApplyRows
  <2>2. QED
    BY <2>1
<1>7. CASE n = t /\ e.kind = "node.created"
  BY <1>2, <1>3, <1>7 DEF HandFits
<1>8. CASE n = t /\ e.kind = "node.updated"
  <2>1. t \in DOMAIN Truth'.nodes /\ Truth'.nodes[t] = Merge(Truth.nodes[t], e)
    BY <1>3, <1>4, <1>8, ApplyRows
  <2>2. Truth.nodes[t] = nodes[t] /\ UpdateFits(p)
    BY <1>3, <1>8 DEF UpdateFits, Match
  <2>3. f \in e.sets => nodes[t][f] \subseteq e.to[f]
    BY <2>2 DEF UpdateFits
  <2>4. Merge(Truth.nodes[t], e)[f] = IF f \in e.sets THEN e.to[f] ELSE nodes[t][f]
    BY <2>2 DEF Merge, Fields
  <2>5. QED
    BY <1>8, <2>1, <2>2, <2>3, <2>4
<1>9. QED
  BY <1>5, <1>6, <1>7, <1>8 DEF NodeKinds

\* The row is written: it says what the journal says.
LEMMA WriteRowFits ==
  ASSUME IInv, WritersInv, Separate, Quiet, NEW p \in Procs, WriteRow(p)
  PROVE  WritersInv'
<1> DEFINE e == Current(p)
           t == e.target
<1>1. /\ TypeOK /\ bad = {} /\ torn = FALSE /\ InStep /\ LinesKnown /\ StaleNeverWrong
      /\ \A q \in Procs : HandFits(q)
  BY DEF IInv, WritersInv
<1>2. mode[p] = "write" /\ pc[p] = "apply" /\ e \in Event /\ t \in Owned[p] /\ HandFits(p)
  BY <1>1, WriterAt DEF WriteRow
<1>3. /\ pc' = [pc EXCEPT ![p] = "record"] /\ UNCHANGED <<mode, queue, doc>>
      /\ UNCHANGED disk /\ ids' = ids /\ journal' = journal /\ bad' = bad /\ torn' = torn
  BY DEF WriteRow, Goto, disk
<1>4. Truth' = Truth /\ Histories' = Histories
  BY <1>3, TruthKept
<1>5. \A q \in Procs : /\ Current(q)' = Current(q) /\ doc'[q] = doc[q] /\ mode'[q] = mode[q]
                       /\ pc'[q] = IF q = p THEN "record" ELSE pc[q]
  BY <1>1, <1>3 DEF Current, TypeOK
<1>6. IsGraph(Truth)
  BY <1>1, TruthIsGraph
<1>7. /\ \A x \in DOMAIN nodes \cup DOMAIN Truth.nodes : x \in Nodes
      /\ \A x \in DOMAIN links \cup DOMAIN Truth.links : x \in Links
      /\ e.kind \in NodeKinds => t \in Nodes
      /\ e.kind \notin NodeKinds => t \in Links
  BY <1>1, <1>2, <1>6 DEF IsGraph, IsTable, TypeOK, Event
<1>8. \A q \in Procs : (mode[q] = "write" /\ q # p) => Current(q).target # t
  BY <1>2, OwnTargets
<1>9. \A x : x # t => /\ Match(nodes', nodes, x) /\ Match(links', links, x)
                      /\ Lags(x) => Lags(x)'
  <2>1. \A tab, r, x : x # t => Match(Put(tab, t, r), tab, x)
    BY DEF Put, Match
  <2>2. \A tab, x : Match(tab, tab, x)
    BY DEF Match
  <2>3. \A x : x # t => Match(nodes', nodes, x) /\ Match(links', links, x)
    BY <2>1, <2>2 DEF WriteRow
  <2>4. \A x : x # t => (Lags(x) => Lags(x)')
    BY <1>5 DEF Lags
  <2>5. QED
    BY <2>3, <2>4
<1>10. /\ e.kind \in NodeKinds => /\ t \in DOMAIN nodes' /\ nodes'[t] = Truth.nodes[t]
                                  /\ t \in DOMAIN Truth.nodes /\ links' = links
       /\ e.kind \notin NodeKinds => /\ t \in DOMAIN links' /\ links'[t] = Truth.links[t]
                                     /\ t \in DOMAIN Truth.links /\ nodes' = nodes
  <2>1. \A tab, r : t \in DOMAIN Put(tab, t, r) /\ Put(tab, t, r)[t] = r
    BY DEF Put
  <2>2. CASE e.kind \in NodeKinds
    <3>1. nodes' = Put(nodes, t, doc[p]) /\ links' = links
      BY <2>2 DEF WriteRow
    <3>2. t \in DOMAIN Truth.nodes /\ Truth.nodes[t] = doc[p]
      BY <1>2, <2>2 DEF HandFits
    <3>3. QED
      BY <2>1, <2>2, <3>1, <3>2
  <2>3. CASE e.kind \notin NodeKinds
    <3>1. links' = Put(links, t, e.id) /\ nodes' = nodes
      BY <2>3 DEF WriteRow
    <3>2. t \in DOMAIN Truth.links /\ Truth.links[t] = e.id
      BY <1>2, <2>3 DEF HandFits
    <3>3. QED
      BY <2>1, <2>3, <3>1, <3>2
  <2>4. QED
    BY <2>2, <2>3
<1>11. Match(nodes', Truth.nodes, t) /\ Match(links', Truth.links, t)
  <2>1. Nodes \cap Links = {}
    OBVIOUS
  <2>2. CASE e.kind \in NodeKinds
    BY <1>7, <1>10, <2>1, <2>2 DEF Match
  <2>3. CASE e.kind \notin NodeKinds
    BY <1>7, <1>10, <2>1, <2>3 DEF Match
  <2>4. QED
    BY <2>2, <2>3
<1>12. InStep'
  <2>1. ASSUME NEW n \in DOMAIN nodes' \cup DOMAIN Truth.nodes, ~Lags(n)'
        PROVE  Match(nodes', Truth.nodes, n)
    <3>1. CASE n = t
      BY <1>11, <3>1
    <3>2. CASE n # t
      <4>1. ~Lags(n) /\ Match(nodes', nodes, n)
        BY <1>9, <2>1, <3>2
      <4>2. n \in DOMAIN nodes \cup DOMAIN Truth.nodes
        BY <2>1, <4>1 DEF Match
      <4>3. Match(nodes, Truth.nodes, n)
        BY <1>1, <4>1, <4>2 DEF InStep
      <4>4. QED
        BY <4>1, <4>3 DEF Match
    <3>3. QED
      BY <3>1, <3>2
  <2>2. ASSUME NEW x \in DOMAIN links' \cup DOMAIN Truth.links, ~Lags(x)'
        PROVE  Match(links', Truth.links, x)
    <3>1. CASE x = t
      BY <1>11, <3>1
    <3>2. CASE x # t
      <4>1. ~Lags(x) /\ Match(links', links, x)
        BY <1>9, <2>2, <3>2
      <4>2. x \in DOMAIN links \cup DOMAIN Truth.links
        BY <2>2, <4>1 DEF Match
      <4>3. Match(links, Truth.links, x)
        BY <1>1, <4>1, <4>2 DEF InStep
      <4>4. QED
        BY <4>1, <4>3 DEF Match
    <3>3. QED
      BY <3>1, <3>2
  <2>3. QED
    BY <1>4, <2>1, <2>2 DEF InStep
<1>13. \A q \in Procs \ {p} : HandFits(q)'
  <2>1. TAKE q \in Procs \ {p}
  <2>2. mode[q] = "idle" => pc[q] = "idle"
    BY WriterAt
  <2>3. mode[q] = "write" => /\ Match(nodes', nodes, Current(q).target)
                             /\ Match(Truth'.nodes, Truth.nodes, Current(q).target)
                             /\ Match(Truth'.links, Truth.links, Current(q).target)
    BY <1>4, <1>8, <1>9 DEF Match
  <2>4. queue'[q] = queue[q] /\ HandFits(q) /\ pc'[q] = pc[q] /\ mode'[q] = mode[q] /\ doc'[q] = doc[q]
    BY <1>1, <1>3, <1>5
  <2>5. QED
    BY <2>2, <2>3, <2>4, FitsElsewhere
<1>14. HandFits(p)'
  BY <1>2, <1>5 DEF HandFits
<1>15. LinesKnown'
  BY <1>1, <1>3, <1>4, <1>5 DEF LinesKnown
<1>16. StaleNeverWrong'
  <2>1. Len(journal) \in DOMAIN Histories /\ Truth = Histories[Len(journal)]
    <3>1. Legible = journal /\ Len(journal) \in Nat
      BY <1>1, LenProperties DEF Legible, TypeOK
    <3>2. QED
      BY <3>1, ReplaysDef DEF Truth, Histories, Replay
  <2>2. ASSUME NEW n \in DOMAIN nodes'
        PROVE  \E k \in DOMAIN Histories :
                 n \in DOMAIN Histories[k].nodes /\ nodes'[n] = Histories[k].nodes[n]
    <3>1. CASE n = t
      BY <1>11, <2>1, <2>2, <3>1 DEF Match
    <3>2. CASE n # t
      <4>1. n \in DOMAIN nodes /\ nodes'[n] = nodes[n]
        BY <1>9, <2>2, <3>2 DEF Match
      <4>2. QED
        BY <1>1, <4>1 DEF StaleNeverWrong
    <3>3. QED
      BY <3>1, <3>2
  <2>3. ASSUME NEW x \in DOMAIN links'
        PROVE  \E k \in DOMAIN Histories :
                 x \in DOMAIN Histories[k].links /\ links'[x] = Histories[k].links[x]
    <3>1. CASE x = t
      BY <1>11, <2>1, <2>3, <3>1 DEF Match
    <3>2. CASE x # t
      <4>1. x \in DOMAIN links /\ links'[x] = links[x]
        BY <1>9, <2>3, <3>2 DEF Match
      <4>2. QED
        BY <1>1, <4>1 DEF StaleNeverWrong
    <3>3. QED
      BY <3>1, <3>2
  <2>4. QED
    BY <1>4, <2>2, <2>3 DEF StaleNeverWrong
<1>17. QED
  BY <1>1, <1>3, <1>12, <1>13, <1>14, <1>15, <1>16 DEF WritersInv

\* The event is recorded, and the call returns.
LEMMA RecordFits ==
  ASSUME IInv, WritersInv, Separate, Quiet, NEW p \in Procs, RecordEvent(p)
  PROVE  WritersInv'
<1>1. /\ TypeOK /\ bad = {} /\ torn = FALSE /\ InStep /\ LinesKnown /\ StaleNeverWrong
      /\ \A q \in Procs : HandFits(q)
  BY DEF IInv, WritersInv
<1>2. mode[p] = "write" /\ pc[p] = "record" /\ Len(queue[p]) = 1
  BY WriterAt DEF RecordEvent
<1>3. /\ ids' = ids \cup {Current(p).id} /\ End(p)
      /\ UNCHANGED disk /\ journal' = journal /\ bad' = bad /\ torn' = torn
      /\ nodes' = nodes /\ links' = links
  BY <1>2 DEF RecordEvent, disk
<1>4. Truth' = Truth /\ Histories' = Histories
  BY <1>3, TruthKept
<1>5. /\ mode'[p] = "idle" /\ pc'[p] = "idle"
      /\ \A q \in Procs \ {p} :
           mode'[q] = mode[q] /\ pc'[q] = pc[q] /\ queue'[q] = queue[q] /\ doc'[q] = doc[q]
  BY <1>1, <1>3 DEF End, Goto, TypeOK
<1>6. \A q \in Procs \ {p} : Current(q)' = Current(q)
  BY <1>5 DEF Current
<1>7. \A x : Lags(x) => Lags(x)'
  BY <1>2, <1>5, <1>6 DEF Lags
<1>8. InStep'
  BY <1>1, <1>3, <1>4, <1>7 DEF InStep
<1>9. \A q \in Procs \ {p} : HandFits(q)'
  <2>1. TAKE q \in Procs \ {p}
  <2>2. mode[q] = "idle" => pc[q] = "idle"
    BY WriterAt
  <2>3. \A t, x : Match(t, t, x)
    BY DEF Match
  <2>4. QED
    BY <1>1, <1>3, <1>4, <1>5, <2>2, <2>3, FitsElsewhere
<1>10. HandFits(p)'
  BY <1>5 DEF HandFits
<1>11. LinesKnown'
  <2>1. ASSUME NEW i \in DOMAIN journal
        PROVE  \/ journal[i].id \in ids'
               \/ \E q \in Procs : pc'[q] \in {"apply", "record"} /\ Current(q)'.id = journal[i].id
    <3>1. CASE journal[i].id \in ids
      BY <1>3, <3>1
    <3>2. CASE \E q \in Procs : pc[q] \in {"apply", "record"} /\ Current(q).id = journal[i].id
      <4>1. PICK q \in Procs : pc[q] \in {"apply", "record"} /\ Current(q).id = journal[i].id
        BY <3>2
      <4>2. CASE q = p
        BY <1>3, <4>1, <4>2
      <4>3. CASE q # p
        BY <1>5, <1>6, <4>1, <4>3
      <4>4. QED
        BY <4>2, <4>3
    <3>3. QED
      BY <1>1, <3>1, <3>2 DEF LinesKnown
  <2>2. QED
    BY <1>1, <1>3, <1>4, <2>1 DEF LinesKnown
<1>12. StaleNeverWrong'
  BY <1>1, <1>3, <1>4 DEF StaleNeverWrong
<1>13. QED
  BY <1>1, <1>3, <1>8, <1>9, <1>10, <1>11, <1>12 DEF WritersInv

LEMMA WritersInvInit == Init => WritersInv
<1> SUFFICES ASSUME Init PROVE WritersInv
  OBVIOUS
<1>1. /\ journal = <<>> /\ bad = {} /\ torn = FALSE /\ DOMAIN nodes = {} /\ DOMAIN links = {}
      /\ \A p \in Procs : mode[p] = "idle" /\ pc[p] = "idle"
  BY DEF Init, EmptyTable
<1>2. Legible = <<>> /\ Len(Legible) = 0
  BY <1>1 DEF Legible
<1>3. Truth = EmptyGraph
  BY <1>2, ReplaysDef DEF Truth, Replay
<1>4. DOMAIN Truth.nodes = {} /\ DOMAIN Truth.links = {}
  BY <1>3, EmptyIsGraph
<1>5. InStep /\ StaleNeverWrong
  BY <1>1, <1>4 DEF InStep, StaleNeverWrong
<1>6. LinesKnown
  BY <1>1, <1>4 DEF LinesKnown
<1>7. \A p \in Procs : HandFits(p)
  BY <1>1 DEF HandFits
<1>8. QED
  BY <1>1, <1>5, <1>6, <1>7 DEF WritersInv

LEMMA WritersInvNext == Separate /\ IInv /\ WritersInv /\ [Next]_vars => WritersInv'
<1> SUFFICES ASSUME Separate, IInv, WritersInv, [Next]_vars PROVE WritersInv'
  OBVIOUS
<1>1. CASE ~Quiet'
  BY <1>1 DEF WritersInv
<1>2. CASE Quiet' /\ Next
  <2>1. Quiet
    BY <1>2, WriterSteps
  <2>2. PICK p \in Procs : \/ CreateNode(p) \/ BeginUpdate(p) \/ UpdateNode(p)
                           \/ AddEdge(p) \/ RecordTreeCommit(p)
                           \/ AppendLine(p) \/ WriteRow(p) \/ RecordEvent(p)
    BY <1>2, WriterSteps
  <2>3. QED
    BY <2>1, <2>2, BeginFits, UpdateNodeFits, AppendFits, WriteRowFits, RecordFits
<1>3. CASE UNCHANGED vars
  <2>1. /\ UNCHANGED disk /\ UNCHANGED <<mode, pc, queue, doc, nodes, links, ids>>
        /\ UNCHANGED <<journal, bad, torn, crashes, tears, rebuilds>>
    BY <1>3 DEF vars, disk, index, local, budget
  <2>2. Truth' = Truth /\ Histories' = Histories
    BY <2>1, TruthKept
  <2>3. \A q : Current(q)' = Current(q)
    BY <2>1 DEF Current
  <2>4. \A x : Lags(x)' <=> Lags(x)
    BY <2>1, <2>3 DEF Lags
  <2>5. InStep' <=> InStep
    BY <2>1, <2>2, <2>4 DEF InStep
  <2>6. \A q \in Procs : HandFits(q)' <=> HandFits(q)
    BY <2>1, <2>2, <2>3 DEF HandFits, UpdateFits
  <2>7. LinesKnown' <=> LinesKnown
    BY <2>1, <2>2, <2>3 DEF LinesKnown
  <2>8. StaleNeverWrong' <=> StaleNeverWrong
    BY <2>1, <2>2 DEF StaleNeverWrong
  <2>9. Quiet' <=> Quiet
    BY <2>1 DEF Quiet
  <2>10. QED
    BY <2>1, <2>5, <2>6, <2>7, <2>8, <2>9 DEF WritersInv
<1>4. QED
  BY <1>1, <1>2, <1>3

\* No budget, no failure.
LEMMA StaysQuiet ==
  ASSUME MaxCrashes = 0, MaxTears = 0, MaxRebuilds = 0
  PROVE  /\ Init => Quiet
         /\ TypeOK /\ Quiet /\ [Next]_vars => Quiet'
<1>1. Init => Quiet
  BY DEF Init, Quiet
<1>2. ASSUME TypeOK, Quiet, [Next]_vars PROVE Quiet'
  <2>1. CASE UNCHANGED budget
    BY <1>2, <2>1 DEF budget, Quiet
  <2>2. ASSUME Next PROVE UNCHANGED budget
    <3>1. PICK p \in Procs :
            \/ CreateNode(p) \/ BeginUpdate(p) \/ UpdateNode(p) \/ AddEdge(p)
            \/ RecordTreeCommit(p) \/ AppendLine(p) \/ Fetch(p) \/ WriteRow(p)
            \/ RecordEvent(p) \/ BeginIngest(p) \/ CheckEvent(p) \/ ClearIndex(p)
            \/ ReadJournal(p) \/ Crash(p) \/ TearLine(p)
      BY <2>2 DEF Next
    <3>2. ~ClearIndex(p) /\ ~Crash(p) /\ ~TearLine(p)
      BY <1>2 DEF ClearIndex, Crash, TearLine, Quiet
    <3>3. CASE CreateNode(p) \/ BeginUpdate(p) \/ AddEdge(p) \/ RecordTreeCommit(p) \/ BeginIngest(p)
      BY <3>3 DEF CreateNode, BeginUpdate, AddEdge, RecordTreeCommit, BeginIngest
    <3>4. CASE UpdateNode(p) \/ Fetch(p) \/ WriteRow(p) \/ RecordEvent(p) \/ CheckEvent(p)
      BY <3>4 DEF UpdateNode, Fetch, WriteRow, RecordEvent, CheckEvent
    <3>5. CASE ReadJournal(p) \/ AppendLine(p)
      BY <3>5 DEF ReadJournal, AppendLine
    <3>6. QED
      BY <3>1, <3>2, <3>3, <3>4, <3>5
  <2>3. QED
    BY <1>2, <2>1, <2>2 DEF vars
<1>3. QED
  BY <1>1, <1>2

\* Together: what the theorems about writers rest on.
LEMMA WritersAlways ==
  ASSUME Separate
  PROVE  Spec => [](IInv /\ WritersInv)
<1>1. IInv /\ WritersInv /\ [Next]_vars => IInv' /\ WritersInv'
  BY IInvNext, WritersInvNext
<1>2. QED
  BY <1>1, IInvInit, WritersInvInit, PTL DEF Spec

\* Writers that keep to their own nodes and links: whatever their interleaving,
\* once nobody is in a call the index is the replay of the journal and every
\* line is recorded, as long as nothing failed and nothing was rebuilt.
THEOREM CurrentAlwaysWhenIdle ==
  ASSUME Separate
  PROVE  Spec => []CurrentWhenIdle
<1>1. IInv /\ WritersInv => CurrentWhenIdle
  <2> SUFFICES ASSUME IInv, WritersInv, Idle, Quiet
               PROVE  Graph = Truth /\ ids = {journal[i].id : i \in DOMAIN journal}
    BY DEF CurrentWhenIdle, Quiet
  <2>1. TypeOK /\ bad = {} /\ InStep /\ LinesKnown /\ IndexSourced
    BY DEF IInv, WritersInv
  <2>2. \A p \in Procs : pc[p] = "idle"
    BY WriterAt DEF Idle
  <2>3. \A x : ~Lags(x)
    BY <2>2 DEF Lags
  <2>4. IsGraph(Truth)
    BY <2>1, TruthIsGraph
  <2>5. nodes = Truth.nodes
    <3>1. DOMAIN nodes = DOMAIN Truth.nodes
      BY <2>1, <2>3 DEF InStep, Match
    <3>2. \A n \in DOMAIN nodes : nodes[n] = Truth.nodes[n]
      BY <2>1, <2>3 DEF InStep, Match
    <3>3. nodes = [n \in DOMAIN nodes |-> nodes[n]]
      BY <2>1 DEF TypeOK
    <3>4. Truth.nodes = [n \in DOMAIN Truth.nodes |-> Truth.nodes[n]]
      BY <2>4 DEF IsGraph, IsTable
    <3>5. QED
      BY <3>1, <3>2, <3>3, <3>4
  <2>6. links = Truth.links
    <3>1. DOMAIN links = DOMAIN Truth.links
      BY <2>1, <2>3 DEF InStep, Match
    <3>2. \A x \in DOMAIN links : links[x] = Truth.links[x]
      BY <2>1, <2>3 DEF InStep, Match
    <3>3. links = [x \in DOMAIN links |-> links[x]]
      BY <2>1 DEF TypeOK
    <3>4. Truth.links = [x \in DOMAIN Truth.links |-> Truth.links[x]]
      BY <2>4 DEF IsGraph, IsTable
    <3>5. QED
      BY <3>1, <3>2, <3>3, <3>4
  <2>7. Graph = Truth
    <3>1. Truth = [nodes |-> Truth.nodes, links |-> Truth.links]
      BY <2>4 DEF IsGraph
    <3>2. QED
      BY <2>5, <2>6, <3>1 DEF Graph
  <2>8. ids = {journal[i].id : i \in DOMAIN journal}
    <3>1. \A i \in DOMAIN journal : journal[i].id \in ids
      BY <2>1, <2>2 DEF LinesKnown
    <3>2. \A x \in ids : \E i \in DOMAIN journal : journal[i].id = x
      BY <2>1 DEF IndexSourced
    <3>3. QED
      BY <3>1, <3>2
  <2>9. QED
    BY <2>7, <2>8
<1>2. QED
  BY <1>1, WritersAlways, PTL

\* The same writers, mid-call too: every row the index shows is one the journal
\* described at some point ("stale, never wrong", store.py:4).
THEOREM StaleAlwaysNeverWrong ==
  ASSUME Separate, MaxCrashes = 0, MaxTears = 0, MaxRebuilds = 0
  PROVE  Spec => []StaleNeverWrong
<1>1. Init => Quiet
  BY StaysQuiet
<1>2. TypeOK /\ Quiet /\ [Next]_vars => Quiet'
  BY StaysQuiet
<1>3. IInv => TypeOK
  BY DEF IInv
<1>4. WritersInv /\ Quiet => StaleNeverWrong
  BY DEF WritersInv
<1>5. QED
  BY <1>1, <1>2, <1>3, <1>4, WritersAlways, PTL DEF Spec

\* And no entry of a list is ever lost from what a replay shows.
THEOREM ListsAlwaysKept ==
  ASSUME Separate, MaxCrashes = 0, MaxTears = 0, MaxRebuilds = 0
  PROVE  Spec => ListsKept
<1> DEFINE Keeps == \A n \in DOMAIN Truth.nodes : \A f \in Lists :
                      n \in DOMAIN Truth'.nodes /\ Truth.nodes[n][f] \subseteq Truth'.nodes[n][f]
<1>1. Init => Quiet
  BY StaysQuiet
<1>2. TypeOK /\ Quiet /\ [Next]_vars => Quiet'
  BY StaysQuiet
<1>3. IInv => TypeOK
  BY DEF IInv
<1>4. IInv /\ WritersInv /\ Quiet /\ [Next]_vars => Keeps
  <2> SUFFICES ASSUME IInv, WritersInv, Quiet, [Next]_vars PROVE Keeps
    OBVIOUS
  <2>1. CASE UNCHANGED disk
    <3>1. Truth' = Truth
      BY <2>1, TruthKept
    <3>2. QED
      BY <3>1
  <2>2. CASE Next
    <3>1. Quiet'
      BY <1>2, <1>3
    <3>2. PICK p \in Procs : \/ CreateNode(p) \/ BeginUpdate(p) \/ UpdateNode(p)
                             \/ AddEdge(p) \/ RecordTreeCommit(p)
                             \/ AppendLine(p) \/ WriteRow(p) \/ RecordEvent(p)
      BY <2>2, <3>1, WriterSteps
    <3>3. CASE AppendLine(p)
      BY <3>3, AppendKeepsLists
    <3>4. CASE ~AppendLine(p)
      <4>1. UNCHANGED disk
        BY <3>2, <3>4 DEF CreateNode, BeginUpdate, UpdateNode, AddEdge, RecordTreeCommit,
                          WriteRow, RecordEvent
      <4>2. QED
        BY <2>1, <4>1
    <3>5. QED
      BY <3>3, <3>4
  <2>3. QED
    BY <2>1, <2>2 DEF vars
<1>5. (IInv /\ WritersInv /\ Quiet /\ [Next]_vars) => [Keeps]_vars
  BY <1>4
<1>6. Spec => [][Keeps]_vars
  <2> HIDE DEF Keeps
  <2>1. QED
    BY <1>1, <1>2, <1>3, <1>5, WritersAlways, PTL DEF Spec
<1>7. QED
  BY <1>6 DEF ListsKept

-----------------------------------------------------------------------------
\* A rebuild with nobody else in the store.

\* What can be replayed, and the states of the replay.
LEMMA LegibleIs ==
  ASSUME TypeOK
  PROVE  /\ Legible \in Seq(Event) /\ Len(Legible) \in Nat /\ DOMAIN Legible = 1 .. Len(Legible)
         /\ \A i \in 1 .. Len(Legible) : Legible[i] \in Event
         /\ Truth = Histories[Len(Legible)]
         /\ Histories[0] = EmptyGraph
         /\ \A k \in 0 .. Len(Legible) - 1 :
              IsGraph(Histories[k]) /\ Histories[k + 1] = Apply(Histories[k], Legible[k + 1])
<1>1. Legible \in Seq(Event) /\ Len(Legible) \in Nat /\ DOMAIN Legible = 1 .. Len(Legible)
      /\ \A i \in 1 .. Len(Legible) : Legible[i] \in Event
  BY LegibleType, LenProperties, ElementOfSeq
<1>2. Histories[0] = EmptyGraph /\ Truth = Histories[Len(Legible)]
  BY <1>1, ReplaysDef DEF Histories, Truth, Replay
<1>3. ASSUME NEW k \in 0 .. Len(Legible) - 1
      PROVE  IsGraph(Histories[k]) /\ Histories[k + 1] = Apply(Histories[k], Legible[k + 1])
  <2>1. k \in 0 .. Len(Legible) /\ k + 1 \in 1 .. Len(Legible) /\ k + 1 - 1 = k
    BY <1>1
  <2>2. QED
    BY <1>1, <2>1, ReplaysDef, ReplaysGraph DEF Histories
<1>4. QED
  BY <1>1, <1>2, <1>3

LEMMA HeadAtLine ==
  ASSUME TypeOK, NEW p \in Procs, NEW k \in 0 .. Len(Legible) - 1, AtLine(p, k)
  PROVE  /\ Current(p) = Legible[k + 1] /\ Current(p) \in Event
         /\ queue[p] # <<>> /\ queue[p] \in Seq(Event)
         /\ Len(queue[p]) = Len(Legible) - k
<1>1. Len(Legible) \in Nat /\ \A i \in 1 .. Len(Legible) : Legible[i] \in Event
  BY LegibleIs
<1>2. queue[p] \in Seq(Event) /\ Len(queue[p]) = Len(Legible) - k
  BY DEF TypeOK, AtLine
<1>3. queue[p] # <<>>
  BY <1>1, <1>2
<1>4. Current(p) = queue[p][1] /\ 1 \in 1 .. Len(queue[p])
  BY <1>1, <1>2, <1>3, QueueType
<1>5. queue[p][1] = Legible[k + 1]
  BY <1>4 DEF AtLine
<1>6. QED
  BY <1>1, <1>2, <1>3, <1>4, <1>5

\* One event of the replay, step by step.
LEMMA RebuildSteps ==
  ASSUME TypeOK, NEW p \in Procs, mode[p] = "rebuild",
         NEW k \in 0 .. Len(Legible) - 1, AtLine(p, k),
         Fetch(p) \/ WriteRow(p) \/ RecordEvent(p)
  PROVE  /\ Legible' = Legible /\ Histories' = Histories /\ Truth' = Truth
         /\ mode'[p] = "rebuild" =>
              /\ pc'[p] \in {"fetch", "apply", "record"}
              /\ \E n \in 0 .. Len(Legible) - 1 : AtLine(p, n)'
         /\ mode'[p] # "rebuild" =>
              Graph' = Truth' /\ ids' = {Legible[i].id : i \in DOMAIN Legible}
<1> DEFINE e == Current(p)
           L == Len(Legible)
<1>1. UNCHANGED disk
  BY DEF Fetch, WriteRow, RecordEvent
<1>2. Legible' = Legible /\ Histories' = Histories /\ Truth' = Truth
  BY <1>1, TruthKept DEF disk, Legible
<1>3. /\ e = Legible[k + 1] /\ e \in Event /\ queue[p] # <<>> /\ queue[p] \in Seq(Event)
      /\ Len(queue[p]) = L - k
  BY HeadAtLine
<1>4. L \in Nat /\ IsGraph(Histories[k]) /\ Histories[k + 1] = Apply(Histories[k], e)
      /\ Truth = Histories[L] /\ DOMAIN Legible = 1 .. L
  BY <1>3, LegibleIs
<1>5. Graph.nodes = nodes /\ Graph.links = links
  BY DEF Graph
<1>6. /\ \A i \in 1 .. Len(queue[p]) : queue[p][i] = Legible[k + i]
      /\ ids = {Legible[i].id : i \in 1 .. k}
      /\ Graph = Histories[IF pc[p] = "record" THEN k + 1 ELSE k]
  BY DEF AtLine
<1>7. CASE Fetch(p)
  <2>1. pc[p] = "fetch" /\ UNCHANGED <<mode, queue, nodes, links, ids>> /\ Graph' = Graph
    BY <1>7 DEF Fetch, index, Graph
  <2>2. Graph = Histories[k] /\ IsGraph(Graph)
    BY <1>4, <1>6, <2>1
  <2>3. mode'[p] = "rebuild" /\ Current(p)' = e /\ Len(queue[p]') = Len(queue[p])
    BY <2>1 DEF Current
  <2>4. CASE e.kind = "node.updated" /\ e.target \notin DOMAIN nodes
    <3>1. pc'[p] = "record"
      BY <1>7, <2>4 DEF Fetch, Goto, TypeOK
    <3>2. Graph' = Histories[k + 1]
      BY <1>3, <1>4, <1>5, <2>1, <2>2, <2>4, ApplyIs
    <3>3. AtLine(p, k)'
      BY <1>2, <1>3, <1>6, <2>1, <2>3, <3>1, <3>2 DEF AtLine
    <3>4. QED
      BY <1>2, <2>3, <3>1, <3>3
  <2>5. CASE ~(e.kind = "node.updated" /\ e.target \notin DOMAIN nodes)
    <3>1. pc'[p] = "apply"
      BY <1>7, <2>5 DEF Fetch, Goto, TypeOK
    <3>2. /\ e.kind = "node.created" => doc'[p] = Merge(Blank, e)
          /\ e.kind = "node.updated" => doc'[p] = Merge(nodes[e.target], e)
      <4>1. /\ e.kind = "node.created" => doc' = [doc EXCEPT ![p] = Merge(Blank, e)]
            /\ e.kind = "node.updated" => doc' = [doc EXCEPT ![p] = Merge(nodes[e.target], e)]
        BY <1>7, <2>5 DEF Fetch
      <4>2. QED
        BY <4>1 DEF TypeOK
    <3>3. AtLine(p, k)'
      BY <1>2, <1>3, <1>6, <2>1, <2>3, <2>5, <3>1, <3>2 DEF AtLine
    <3>4. QED
      BY <1>2, <2>3, <3>1, <3>3
  <2>6. QED
    BY <2>4, <2>5
<1>8. CASE WriteRow(p)
  <2>1. pc[p] = "apply" /\ UNCHANGED <<mode, queue, ids>> /\ pc'[p] = "record"
    BY <1>8 DEF WriteRow, Goto, TypeOK
  <2>2. Graph = Histories[k] /\ IsGraph(Graph)
    BY <1>4, <1>6, <2>1
  <2>3. mode'[p] = "rebuild" /\ Current(p)' = e /\ Len(queue[p]') = Len(queue[p])
    BY <2>1 DEF Current
  <2>4. Graph' = Apply(Graph, e)
    <3>1. CASE e.kind = "node.created"
      <4>1. nodes' = Put(nodes, e.target, Merge(Blank, e)) /\ links' = links
        BY <1>8, <2>1, <3>1 DEF WriteRow, NodeKinds, AtLine
      <4>2. QED
        BY <1>3, <1>5, <2>2, <3>1, <4>1, ApplyIs DEF Graph
    <3>2. CASE e.kind = "node.updated"
      <4>1. /\ nodes' = Put(nodes, e.target, Merge(nodes[e.target], e)) /\ links' = links
            /\ e.target \in DOMAIN nodes
        BY <1>8, <2>1, <3>2 DEF WriteRow, NodeKinds, AtLine
      <4>2. QED
        BY <1>3, <1>5, <2>2, <3>2, <4>1, ApplyIs DEF Graph
    <3>3. CASE e.kind \notin NodeKinds
      <4>1. links' = Put(links, e.target, e.id) /\ nodes' = nodes
        BY <1>8, <3>3 DEF WriteRow
      <4>2. QED
        BY <1>3, <1>5, <2>2, <3>3, <4>1, ApplyIs DEF Graph
    <3>4. QED
      BY <3>1, <3>2, <3>3 DEF NodeKinds
  <2>5. Graph' = Histories[k + 1]
    BY <1>4, <2>2, <2>4
  <2>6. AtLine(p, k)'
    BY <1>2, <1>3, <1>6, <2>1, <2>3, <2>5 DEF AtLine
  <2>7. QED
    BY <1>2, <2>1, <2>3, <2>6
<1>9. CASE RecordEvent(p)
  <2>1. /\ pc[p] = "record" /\ ids' = ids \cup {e.id}
        /\ nodes' = nodes /\ links' = links /\ Graph' = Graph
    BY <1>9 DEF RecordEvent, Graph
  <2>2. Graph' = Histories[k + 1]
    BY <1>6, <2>1
  <2>3. ids' = {Legible[i].id : i \in 1 .. k + 1}
    <3>1. 1 .. k + 1 = (1 .. k) \cup {k + 1} /\ e = Legible[k + 1]
      BY <1>3
    <3>2. ids' = {Legible[i].id : i \in 1 .. k} \cup {Legible[k + 1].id}
      BY <1>6, <2>1, <3>1
    <3>3. QED
      BY <3>1, <3>2
  <2>4. CASE Len(queue[p]) = 1
    <3>1. mode'[p] = "idle"
      BY <1>9, <2>4 DEF RecordEvent, End, TypeOK
    <3>2. k + 1 = L
      <4>1. L \in Nat
        BY <1>4
      <4>2. Len(queue[p]) = L - k
        BY <1>3
      <4>3. k \in Nat
        OBVIOUS
      <4>4. 1 = L - k
        BY <4>2, <2>4
      <4>5. L \in Nat /\ k \in Nat /\ 1 = L - k
        BY <4>1, <4>3, <4>4
      <4>6. \A a, b \in Nat : 1 = a - b => b + 1 = a
        OBVIOUS
      <4>7. QED
        BY <4>5, <4>6
    <3>3. QED
      BY <1>2, <1>4, <2>2, <2>3, <3>1, <3>2
  <2>5. CASE Len(queue[p]) # 1
    <3>1. /\ queue'[p] = Tail(queue[p]) /\ mode'[p] = "rebuild" /\ pc'[p] = "fetch"
      BY <1>9, <2>5 DEF RecordEvent, Goto, TypeOK
    <3>2. /\ Len(Tail(queue[p])) = Len(queue[p]) - 1
          /\ \A i \in DOMAIN Tail(queue[p]) : Tail(queue[p])[i] = queue[p][i + 1]
          /\ DOMAIN Tail(queue[p]) = 1 .. Len(queue[p]) - 1
      BY <1>3, HeadTailProperties, QueueType, LenProperties
    <3>3. k + 1 \in 0 .. L - 1 /\ Len(queue'[p]) = L - (k + 1)
      BY <1>3, <1>4, <2>5, <3>1, <3>2
    <3>4. ASSUME NEW i \in 1 .. Len(queue'[p])
          PROVE  queue'[p][i] = Legible[k + 1 + i]
      <4>1. i \in DOMAIN Tail(queue[p]) /\ i + 1 \in 1 .. Len(queue[p]) /\ k + (i + 1) = k + 1 + i
        BY <1>3, <1>4, <3>1, <3>2, <3>4
      <4>2. queue[p][i + 1] = Legible[k + (i + 1)]
        BY <1>6, <4>1
      <4>3. QED
        BY <3>1, <3>2, <4>1, <4>2
    <3>5. AtLine(p, k + 1)'
      BY <1>2, <2>2, <2>3, <3>1, <3>3, <3>4 DEF AtLine
    <3>6. QED
      BY <1>2, <3>1, <3>3, <3>5
  <2>6. QED
    BY <2>4, <2>5
<1>10. QED
  BY <1>7, <1>8, <1>9

\* A rebuild by the only process is at some line of the journal.
LEMMA RebuildNext == Alone /\ TypeOK /\ RebuildInv /\ [Next]_vars => RebuildInv'
<1> SUFFICES ASSUME Alone, TypeOK, RebuildInv, [Next]_vars PROVE RebuildInv'
  OBVIOUS
<1>1. CASE UNCHANGED vars
  <2>1. UNCHANGED disk /\ UNCHANGED <<mode, pc, queue, doc, nodes, links, ids>>
    BY <1>1 DEF vars, index, local
  <2>2. Legible' = Legible /\ Histories' = Histories /\ Graph' = Graph
    BY <2>1, TruthKept DEF disk, Legible, Graph
  <2>3. \A q : Current(q)' = Current(q)
    BY <2>1 DEF Current
  <2>4. \A q \in Procs, k \in 0 .. Len(Legible) - 1 : AtLine(q, k)' <=> AtLine(q, k)
    <3>1. TAKE q \in Procs, k \in 0 .. Len(Legible) - 1
    <3>2. Current(q)' = Current(q)
      BY <2>3
    <3>3. QED
      BY <2>1, <2>2, <3>2 DEF AtLine
  <2>5. QED
    BY <2>1, <2>2, <2>4 DEF RebuildInv
<1>2. CASE Next
  <2>1. PICK p \in Procs :
          \/ CreateNode(p) \/ BeginUpdate(p) \/ UpdateNode(p) \/ AddEdge(p)
          \/ RecordTreeCommit(p) \/ AppendLine(p) \/ Fetch(p) \/ WriteRow(p)
          \/ RecordEvent(p) \/ BeginIngest(p) \/ CheckEvent(p) \/ ClearIndex(p)
          \/ ReadJournal(p) \/ Crash(p) \/ TearLine(p)
    BY <1>2 DEF Next
  <2>2. SUFFICES ASSUME mode'[p] = "rebuild"
                 PROVE  /\ pc'[p] \in StepsOf("rebuild")
                        /\ pc'[p] = "read" => Graph' = EmptyGraph /\ ids' = {}
                        /\ pc'[p] # "read" => \E k \in 0 .. Len(Legible') - 1 : AtLine(p, k)'
    <3>1. \A q \in Procs : q = p
      BY DEF Alone
    <3>2. QED
      BY <3>1 DEF RebuildInv
  <2>3. CASE ClearIndex(p)
    <3>1. pc'[p] = "read" /\ Graph' = EmptyGraph /\ ids' = {}
      BY <2>3 DEF ClearIndex, Begin, Goto, Graph, EmptyGraph, TypeOK
    <3>2. QED
      BY <3>1 DEF StepsOf
  <2>4. CASE mode[p] # "rebuild"
    <3>1. CASE CreateNode(p) \/ BeginUpdate(p) \/ AddEdge(p) \/ RecordTreeCommit(p) \/ BeginIngest(p)
      <4>1. mode'[p] \in {"write", "ingest"}
        BY <3>1 DEF CreateNode, BeginUpdate, AddEdge, RecordTreeCommit, BeginIngest, Begin, TypeOK
      <4>2. QED
        BY <2>2, <4>1
    <3>2. CASE UpdateNode(p) \/ AppendLine(p) \/ Fetch(p) \/ WriteRow(p) \/ RecordEvent(p)
      <4>1. mode'[p] \in {mode[p], "idle"}
        BY <3>2 DEF UpdateNode, AppendLine, Fetch, WriteRow, RecordEvent, End, TypeOK
      <4>2. QED
        BY <2>2, <2>4, <4>1
    <3>3. CASE CheckEvent(p) \/ ReadJournal(p) \/ Crash(p) \/ TearLine(p)
      <4>1. mode'[p] \in {mode[p], "idle"}
        BY <3>3 DEF CheckEvent, ReadJournal, Crash, TearLine, End, TypeOK
      <4>2. QED
        BY <2>2, <2>4, <4>1
    <3>4. QED
      BY <2>1, <2>3, <3>1, <3>2, <3>3
  <2>5. CASE mode[p] = "rebuild" /\ ReadJournal(p)
    <3>1. /\ pc[p] = "read" /\ Legible # <<>> /\ queue'[p] = Legible /\ pc'[p] = "fetch"
          /\ UNCHANGED <<disk, nodes, links, ids>>
      BY <2>2, <2>5 DEF ReadJournal, End, Goto, TypeOK, index
    <3>2. Graph = EmptyGraph /\ ids = {}
      BY <2>5, <3>1 DEF RebuildInv
    <3>3. Legible' = Legible /\ Histories' = Histories /\ Graph' = Graph
      BY <3>1, TruthKept DEF disk, Legible, Graph
    <3>4. Histories[0] = EmptyGraph /\ Len(Legible) \in Nat \ {0}
      BY <3>1, LegibleIs, EmptySeq
    <3>5. /\ Len(queue'[p]) = Len(Legible) - 0
          /\ \A i \in 1 .. Len(queue'[p]) : queue'[p][i] = Legible[0 + i]
          /\ ids' = {Legible[i].id : i \in 1 .. 0}
      BY <3>1, <3>2, <3>4
    <3>6. AtLine(p, 0)'
      BY <3>1, <3>2, <3>3, <3>4, <3>5 DEF AtLine
    <3>7. 0 \in 0 .. Len(Legible') - 1
      BY <3>3, <3>4
    <3>8. QED
      BY <3>1, <3>6, <3>7 DEF StepsOf
  <2>6. CASE mode[p] = "rebuild" /\ ~ReadJournal(p)
    <3>1. pc[p] \in {"read", "fetch", "apply", "record"}
      BY <2>6 DEF RebuildInv, StepsOf
    <3>2. Fetch(p) \/ WriteRow(p) \/ RecordEvent(p)
      <4>1. ~(CreateNode(p) \/ BeginUpdate(p) \/ AddEdge(p) \/ RecordTreeCommit(p) \/ BeginIngest(p)
              \/ ClearIndex(p))
        BY <2>6 DEF CreateNode, BeginUpdate, AddEdge, RecordTreeCommit, BeginIngest, ClearIndex, Begin
      <4>2. ~(UpdateNode(p) \/ AppendLine(p) \/ CheckEvent(p) \/ TearLine(p))
        BY <3>1 DEF UpdateNode, AppendLine, CheckEvent, TearLine
      <4>3. ~Crash(p)
        BY <2>2 DEF Crash, End, TypeOK
      <4>4. QED
        BY <2>1, <2>6, <4>1, <4>2, <4>3
    <3>3. pc[p] # "read"
      BY <3>2 DEF Fetch, WriteRow, RecordEvent
    <3>4. PICK k \in 0 .. Len(Legible) - 1 : AtLine(p, k)
      BY <2>6, <3>3 DEF RebuildInv
    <3>5. /\ Legible' = Legible /\ pc'[p] \in {"fetch", "apply", "record"}
          /\ \E n \in 0 .. Len(Legible) - 1 : AtLine(p, n)'
      BY <2>2, <2>6, <3>2, <3>4, RebuildSteps
    <3>6. QED
      BY <3>5 DEF StepsOf
  <2>7. QED
    BY <2>3, <2>4, <2>5, <2>6
<1>3. QED
  BY <1>1, <1>2

\* A rebuild that runs to its end leaves the index equal to the replay of what
\* can be read of the journal, whatever became of the index and of the journal
\* before (store.py:158-165), when nobody else uses the store meanwhile.
THEOREM RebuildAlwaysRestores ==
  ASSUME Alone
  PROVE  Spec => RebuildRestores
<1> DEFINE Restored ==
      \A p \in Procs : (mode[p] = "rebuild" /\ mode'[p] = "idle" /\ crashes' = crashes) =>
            /\ Graph' = Truth'
            /\ ids' = {Legible[i].id : i \in DOMAIN Legible}'
<1>1. Init => RebuildInv
  BY DEF Init, RebuildInv
<1>2. TypeOK /\ RebuildInv /\ [Next]_vars => RebuildInv'
  BY RebuildNext
<1>3. TypeOK /\ RebuildInv /\ [Next]_vars => Restored
  <2> SUFFICES ASSUME TypeOK, RebuildInv, [Next]_vars, NEW p \in Procs,
                      mode[p] = "rebuild", mode'[p] = "idle", crashes' = crashes
               PROVE  Graph' = Truth' /\ ids' = {Legible[i].id : i \in DOMAIN Legible}'
    OBVIOUS
  <2>1. \/ CreateNode(p) \/ BeginUpdate(p) \/ UpdateNode(p) \/ AddEdge(p)
        \/ RecordTreeCommit(p) \/ AppendLine(p) \/ Fetch(p) \/ WriteRow(p)
        \/ RecordEvent(p) \/ BeginIngest(p) \/ CheckEvent(p) \/ ClearIndex(p)
        \/ ReadJournal(p) \/ Crash(p) \/ TearLine(p)
    <3>1. Next
      BY DEF vars, local
    <3>2. QED
      BY <3>1 DEF Next, Alone
  <2>2. pc[p] \in {"read", "fetch", "apply", "record"}
    BY DEF RebuildInv, StepsOf
  <2>3. ReadJournal(p) \/ Fetch(p) \/ WriteRow(p) \/ RecordEvent(p)
    <3>1. ~(CreateNode(p) \/ BeginUpdate(p) \/ AddEdge(p) \/ RecordTreeCommit(p) \/ BeginIngest(p)
            \/ ClearIndex(p))
      BY DEF CreateNode, BeginUpdate, AddEdge, RecordTreeCommit, BeginIngest, ClearIndex, Begin
    <3>2. ~(UpdateNode(p) \/ AppendLine(p) \/ CheckEvent(p) \/ TearLine(p))
      BY <2>2 DEF UpdateNode, AppendLine, CheckEvent, TearLine
    <3>3. ~Crash(p)
      BY DEF Crash, TypeOK
    <3>4. QED
      BY <2>1, <3>1, <3>2, <3>3
  <2>4. CASE ReadJournal(p)
    <3>1. /\ pc[p] = "read" /\ Legible = <<>> /\ UNCHANGED <<disk, nodes, links, ids>>
      BY <2>4 DEF ReadJournal, index
    <3>2. Graph = EmptyGraph /\ ids = {}
      BY <3>1 DEF RebuildInv
    <3>3. Legible' = Legible /\ Truth' = Truth /\ Graph' = Graph /\ ids' = ids
      BY <3>1, TruthKept DEF disk, Legible, Graph
    <3>4. Truth = EmptyGraph /\ DOMAIN Legible = {}
      <4>1. Len(Legible) = 0
        BY <3>1
      <4>2. QED
        BY <4>1, LegibleIs
    <3>5. QED
      BY <3>2, <3>3, <3>4
  <2>5. CASE Fetch(p) \/ WriteRow(p) \/ RecordEvent(p)
    <3>1. pc[p] # "read"
      BY <2>5 DEF Fetch, WriteRow, RecordEvent
    <3>2. PICK k \in 0 .. Len(Legible) - 1 : AtLine(p, k)
      BY <3>1 DEF RebuildInv
    <3>3. Legible' = Legible /\ Graph' = Truth' /\ ids' = {Legible[i].id : i \in DOMAIN Legible}
      BY <2>5, <3>2, RebuildSteps
    <3>4. QED
      BY <3>3
  <2>6. QED
    BY <2>3, <2>4, <2>5
<1>4. TypeOK /\ RebuildInv /\ [Next]_vars => [Restored]_vars
  BY <1>3
<1>5. Spec => [][Restored]_vars
  <2> HIDE DEF Restored
  <2>1. QED
    BY <1>1, <1>2, <1>4, TypeCorrect, PTL DEF Spec
<1>6. QED
  BY <1>5 DEF RebuildRestores

-----------------------------------------------------------------------------
\* One process that ingests another store's journal.

\* Beginnings of sequences that agree are the same.
LEMMA SameBeginning ==
  ASSUME NEW T, NEW i \in Seq(T), NEW j \in Seq(T), NEW n \in Nat, n <= Len(i), n <= Len(j),
         \A k \in 1 .. n : i[k] = j[k]
  PROVE  SubSeq(i, 1, n) = SubSeq(j, 1, n)
<1>1. \A k \in 1 .. n : i[k] \in T /\ j[k] \in T
  BY LenProperties, ElementOfSeq
<1>2. /\ SubSeq(i, 1, n) \in Seq(T)
      /\ Len(SubSeq(i, 1, n)) = n
      /\ \A k \in 1 .. n : SubSeq(i, 1, n)[k] = i[k]
  BY <1>1, SubSeqProperties
<1>3. /\ SubSeq(j, 1, n) \in Seq(T)
      /\ Len(SubSeq(j, 1, n)) = n
      /\ \A k \in 1 .. n : SubSeq(j, 1, n)[k] = j[k]
  BY <1>1, SubSeqProperties
<1> DEFINE u == SubSeq(i, 1, n)
           v == SubSeq(j, 1, n)
<1>4. u \in Seq(T) /\ v \in Seq(T) /\ Len(u) = Len(v) /\ \A k \in 1 .. Len(u) : u[k] = v[k]
  BY <1>2, <1>3
<1> HIDE DEF u, v
<1>5. u = v
  BY <1>4, SeqEqual
<1>6. QED
  BY <1>5 DEF u, v

\* Once a line does not parse, what can be replayed is settled.
LEMMA LegibleFrozen ==
  ASSUME TypeOK, NEW e \in Event, journal' = Append(journal, e), bad' # {},
         bad' = bad \/ bad' = bad \cup {Len(journal) + 1}
  PROVE  Legible' = Legible
<1> DEFINE n == Len(journal)
           First(s) == CHOOSE i \in s : \A j \in s : i <= j
<1>1. journal \in Seq(Event) /\ n \in Nat /\ bad \in SUBSET (1 .. n)
  BY LenProperties DEF TypeOK
<1>2. /\ journal' \in Seq(Event) /\ Len(journal') = n + 1
      /\ \A k \in 1 .. n : journal'[k] = journal[k]
  BY <1>1, AppendProperties
<1>3. \A s \in SUBSET Nat : s # {} => First(s) \in s /\ \A j \in s : First(s) <= j
  BY LeastElement
<1>4. bad' \in SUBSET Nat /\ bad \in SUBSET Nat
  <2>1. bad \in SUBSET Nat /\ n + 1 \in Nat
    BY <1>1
  <2> HIDE DEF n
  <2>2. QED
    BY <2>1 DEF n
<1> DEFINE f == First(bad')
<1>5. f \in bad' /\ f \in Nat /\ \A j \in bad' : f <= j
  <2>1. f \in bad' /\ \A j \in bad' : f <= j
    <3> HIDE DEF First
    <3>1. QED
      BY <1>3, <1>4
  <2> HIDE DEF f
  <2>2. QED
    BY <1>4, <2>1
<1>6. f - 1 \in Nat /\ f - 1 <= n
  BY <1>1, <1>5
<1>7. Legible' = SubSeq(journal', 1, f - 1)
  BY DEF Legible
<1> HIDE DEF First, f
<1>8. SubSeq(journal', 1, f - 1) = SubSeq(journal, 1, f - 1)
  <2> DEFINE k == f - 1
  <2>1. k \in Nat /\ k <= Len(journal) /\ k <= Len(journal') /\ \A x \in 1 .. k : journal'[x] = journal[x]
    BY <1>1, <1>2, <1>6
  <2> HIDE DEF k
  <2>2. SubSeq(journal', 1, k) = SubSeq(journal, 1, k)
    BY <1>1, <1>2, <2>1, SameBeginning
  <2>3. QED
    BY <2>2 DEF k
<1>9. CASE bad = {}
  <2>1. f = n + 1
    BY <1>5, <1>9
  <2>2. SubSeq(journal, 1, f - 1) = journal
    <3>1. f - 1 = Len(journal)
      BY <1>1, <2>1
    <3>2. QED
      BY <1>1, <3>1, SubSeqFull
  <2>3. QED
    BY <1>7, <1>8, <1>9, <2>2 DEF Legible
<1>10. CASE bad # {}
  <2> DEFINE g == First(bad)
  <2>1. g \in bad /\ g \in 1 .. n /\ \A j \in bad : g <= j
    BY <1>1, <1>3, <1>4, <1>10
  <2>2. Legible = SubSeq(journal, 1, g - 1)
    BY <1>10 DEF Legible, First
  <2>3. f = g
    <3>1. f <= g /\ g \in Nat /\ f \in Nat
      BY <1>1, <1>5, <2>1
    <3>2. f # n + 1
      BY <1>1, <2>1, <3>1
    <3>3. f \in bad
      BY <1>5, <3>2
    <3>4. g <= f
      BY <2>1, <3>3
    <3> HIDE DEF g
    <3>5. QED
      BY <3>1, <3>4
  <2>4. QED
    BY <1>7, <1>8, <2>2, <2>3
<1>11. QED
  BY <1>9, <1>10

\* An event applied again changes nothing.
LEMMA ApplyTwice ==
  ASSUME NEW g, IsGraph(g), NEW e \in Event
  PROVE  Apply(Apply(g, e), e) = Apply(g, e)
<1> DEFINE h == Apply(g, e)
<1>1. IsGraph(h)
  BY ApplyIs
<1>2. \A t, k, r : Put(Put(t, k, r), k, r) = Put(t, k, r) /\ Put(t, k, r)[k] = r
                   /\ k \in DOMAIN Put(t, k, r)
  BY DEF Put
<1>3. \A d : Merge(Merge(d, e), e) = Merge(d, e)
  BY DEF Merge
<1>4. CASE e.kind = "node.created"
  <2>1. h = [nodes |-> Put(g.nodes, e.target, Merge(Blank, e)), links |-> g.links]
    BY <1>4, ApplyIs
  <2>2. Apply(h, e) = [nodes |-> Put(h.nodes, e.target, Merge(Blank, e)), links |-> h.links]
    <3> HIDE DEF h
    <3>1. QED
      BY <1>1, <1>4, ApplyIs
  <2>3. QED
    BY <1>2, <2>1, <2>2
<1>5. CASE e.kind = "node.updated" /\ e.target \in DOMAIN g.nodes
  <2>1. h = [nodes |-> Put(g.nodes, e.target, Merge(g.nodes[e.target], e)), links |-> g.links]
    BY <1>5, ApplyIs
  <2>2. e.target \in DOMAIN h.nodes /\ h.nodes[e.target] = Merge(g.nodes[e.target], e)
    BY <1>2, <2>1
  <2>3. Apply(h, e) = [nodes |-> Put(h.nodes, e.target, Merge(h.nodes[e.target], e)), links |-> h.links]
    <3> HIDE DEF h
    <3>1. QED
      BY <1>1, <1>5, <2>2, ApplyIs
  <2>4. QED
    BY <1>2, <1>3, <2>1, <2>2, <2>3
<1>6. CASE e.kind = "node.updated" /\ e.target \notin DOMAIN g.nodes
  BY <1>6, ApplyIs
<1>7. CASE e.kind \notin NodeKinds
  <2>1. h = [nodes |-> g.nodes, links |-> Put(g.links, e.target, e.id)]
    BY <1>7, ApplyIs
  <2>2. Apply(h, e) = [nodes |-> h.nodes, links |-> Put(h.links, e.target, e.id)]
    <3> HIDE DEF h
    <3>1. QED
      BY <1>1, <1>7, ApplyIs
  <2>3. QED
    BY <1>2, <2>1, <2>2
<1>8. QED
  BY <1>4, <1>5, <1>6, <1>7 DEF NodeKinds

LEMMA FollowInit == OneSpool /\ Init => FollowInv
<1> SUFFICES ASSUME OneSpool, Init PROVE FollowInv
  OBVIOUS
<1>1. PICK b \in Batches : TRUE
  BY DEF OneSpool
<1>2. b \in Seq(Event) /\ Len(b) \in Nat /\ Replays(b)[0] = EmptyGraph
  BY LenProperties, ReplaysDef
<1>3. Legible = <<>> /\ Len(Legible) = 0 /\ ids = {} /\ \A p \in Procs : mode[p] = "idle"
  BY DEF Init, Legible
<1>4. Truth = EmptyGraph
  BY <1>3, ReplaysDef DEF Truth, Replay
<1>5. 0 \in {0 - 1, 0} \cap Nat /\ ids = {b[i].id : i \in 1 .. 0}
  BY <1>3
<1>6. Follows(b, 0)
  BY <1>2, <1>3, <1>4, <1>5 DEF Follows
<1>7. QED
  BY <1>2, <1>6 DEF FollowInv

\* The hand of a process in the middle of a batch.
LEMMA HandAt ==
  ASSUME TypeOK, NEW p \in Procs, NEW b \in Batches, NEW i \in Nat,
         Continues(queue[p], b, i), queue[p] # <<>>
  PROVE  /\ b \in Seq(Event) /\ Len(b) \in Nat /\ i + 1 \in 1 .. Len(b)
         /\ Current(p) = b[i + 1] /\ Current(p) \in Event
         /\ Continues(Tail(queue[p]), b, i + 1)
<1> DEFINE q == queue[p]
           t == Tail(q)
<1>1. b \in Seq(Event) /\ Len(b) \in Nat
  BY LenProperties
<1>2. /\ Current(p) \in Event /\ Len(q) \in Nat \ {0} /\ Current(p) = q[1]
      /\ Len(t) = Len(q) - 1 /\ t \in Seq(Event)
      /\ \A x \in DOMAIN t : t[x] = q[x + 1]
  BY QueueType
<1>3. DOMAIN t = 1 .. Len(t)
  BY <1>2, LenProperties
<1>4. i + Len(q) <= Len(b) /\ \A x \in 1 .. Len(q) : q[x] = b[i + x]
  BY DEF Continues
<1> HIDE DEF q, t
<1>5. i + 1 \in 1 .. Len(b) /\ i + 1 + Len(t) <= Len(b)
  BY <1>1, <1>2, <1>4
<1>6. Current(p) = b[i + 1]
  BY <1>2, <1>4
<1>7. ASSUME NEW x \in 1 .. Len(t)
      PROVE  t[x] = b[i + 1 + x]
  <2>1. x + 1 \in 1 .. Len(q) /\ i + (x + 1) = i + 1 + x
    BY <1>2, <1>7
  <2>2. q[x + 1] = b[i + (x + 1)]
    BY <1>4, <2>1
  <2>3. QED
    BY <1>2, <1>3, <2>1, <2>2
<1>8. Continues(t, b, i + 1)
  BY <1>5, <1>7 DEF Continues
<1>9. QED
  BY <1>1, <1>2, <1>5, <1>6, <1>8 DEF q, t

\* The line appended continues what was ingested, or repeats its last line.
LEMMA AppendFollows ==
  ASSUME IInv, Alone, OneSpool, NEW b \in Batches, NEW m \in 0 .. Len(b), Follows(b, m),
         NEW p \in Procs, AppendLine(p)
  PROVE  \E n \in 0 .. Len(b) : Follows(b, n)'
<1> DEFINE e == Current(p)
<1>1. TypeOK
  BY DEF IInv
<1>2. pc[p] = "append" /\ journal' = Append(journal, e) /\ queue[p] # <<>> /\ e \in Event
  <2>1. pc[p] = "append" /\ journal' = Append(journal, e)
    BY DEF AppendLine
  <2>2. queue[p] # <<>>
    BY <1>1, <2>1 DEF TypeOK
  <2>3. QED
    BY <1>1, <2>1, <2>2, QueueType
<1>3. CASE bad' # {}
  <2>1. Legible' = Legible
    BY <1>1, <1>2, <1>3, LegibleFrozen DEF AppendLine
  <2>2. Truth' = Truth
    BY <2>1 DEF Truth
  <2>3. Follows(b, m)'
    BY <1>3, <2>2 DEF Follows
  <2>4. QED
    BY <2>3
<1>4. CASE bad' = {}
  <2>1. bad = {}
    BY <1>4 DEF AppendLine
  <2>2. mode[p] \in Modes /\ mode[p] # "idle"
    BY <1>1, <1>2, <2>1 DEF IInv, HandSourced, StepsOf, TypeOK
  <2>3. PICK r \in {m - 1, m} \cap Nat :
          ids = {b[i].id : i \in 1 .. r} /\ mode[p] = "ingest" /\ HandFollows(p, b, r, m)
    BY <2>1, <2>2 DEF Follows
  <2>4. Continues(queue[p], b, r)
    BY <1>2, <2>3 DEF HandFollows
  <2>5. r \in Nat
    BY <2>3
  <2>6. b \in Seq(Event) /\ Len(b) \in Nat /\ r + 1 \in 1 .. Len(b) /\ e = b[r + 1]
    BY <1>1, <1>2, <2>5, <2>4, HandAt
  <2>7. Truth' = Apply(Truth, e) /\ Truth = Replays(b)[m]
    BY <1>1, <1>2, <1>4, <2>1, TruthGrows DEF Follows
  <2>8. Replays(b)[r + 1] = Apply(Replays(b)[r], e) /\ IsGraph(Replays(b)[r])
    <3>1. r + 1 - 1 = r /\ r \in 0 .. Len(b)
      BY <2>3, <2>6
    <3>2. QED
      BY <2>6, <3>1, ReplaysDef, ReplaysGraph
  <2>9. Truth' = Replays(b)[r + 1]
    <3>1. m = r \/ m = r + 1
      BY <2>3
    <3>2. QED
      BY <1>2, <2>7, <2>8, <3>1, ApplyTwice
  <2>10. /\ mode' = mode /\ queue' = queue /\ ids' = ids /\ pc'[p] = "fetch"
    BY <1>1, <2>3 DEF AppendLine, Goto, TypeOK, index
  <2>11. HandFollows(p, b, r, r + 1)'
    <3>1. r \in 0 .. r
      BY <2>3
    <3>2. QED
      BY <2>4, <2>10, <3>1 DEF HandFollows, StepsOf, Continues
  <2>12. r \in {(r + 1) - 1, r + 1} \cap Nat /\ r + 1 \in 0 .. Len(b)
    BY <2>3, <2>6
  <2>13. Follows(b, r + 1)'
    BY <2>3, <2>9, <2>10, <2>11, <2>12 DEF Follows, Alone
  <2>14. QED
    BY <2>12, <2>13
<1>5. QED
  BY <1>3, <1>4

\* A batch of the same journal begins: what was followed in one is followed in
\* the longer of the two.
LEMMA BatchFollows ==
  ASSUME TypeOK, Alone, OneSpool, NEW b \in Batches, NEW m \in 0 .. Len(b), Follows(b, m),
         bad = {}, NEW p \in Procs, BeginIngest(p)
  PROVE  \E c \in Batches : \E n \in 0 .. Len(c) : Follows(c, n)'
<1>1. PICK c \in Batches : Begin(p, "ingest", "check", c, Blank)
  BY DEF BeginIngest
<1>2. mode'[p] = "ingest" /\ pc'[p] = "check" /\ queue'[p] = c /\ mode[p] = "idle"
  BY <1>1 DEF Begin, Goto, TypeOK
<1>3. Truth' = Truth /\ ids' = ids /\ bad' = {}
  BY TruthKept DEF BeginIngest, index, disk
<1>4. PICK r \in {m - 1, m} \cap Nat : ids = {b[i].id : i \in 1 .. r}
  BY DEF Follows
<1>5. /\ b \in Seq(Event) /\ c \in Seq(Event) /\ Len(b) \in Nat /\ Len(c) \in Nat
      /\ r \in Nat /\ r <= Len(b)
  BY <1>4, LenProperties
<1>6. CASE Len(c) <= Len(b)
  <2>1. \A x \in 1 .. Len(c) : c[x] = b[0 + x]
    BY <1>5, <1>6 DEF OneSpool
  <2>2. 0 \in 0 .. r /\ 0 + Len(c) <= Len(b)
    BY <1>5, <1>6
  <2>3. HandFollows(p, b, r, m)'
    BY <1>2, <2>1, <2>2 DEF HandFollows, StepsOf, Continues
  <2>4. Follows(b, m)'
    BY <1>2, <1>3, <1>4, <2>3 DEF Follows, Alone
  <2>5. QED
    BY <2>4
<1>7. CASE Len(b) <= Len(c)
  <2>1. \A x \in 1 .. Len(b) : b[x] = c[x]
    BY <1>5, <1>7 DEF OneSpool
  <2>2. \A k \in 0 .. Len(b) : Replays(b)[k] = Replays(c)[k]
    <3> DEFINE n == Len(b)
    <3>1. n \in Nat /\ n <= Len(b) /\ n <= Len(c) /\ \A x \in 1 .. n : b[x] = c[x]
      BY <1>5, <1>7, <2>1
    <3> HIDE DEF n
    <3>2. \A k \in 0 .. n : Replays(b)[k] = Replays(c)[k]
      BY <1>5, <3>1, ReplaysAgree
    <3>3. QED
      BY <3>2 DEF n
  <2>3. Truth = Replays(c)[m]
    BY <2>2 DEF Follows
  <2>4. ids = {c[i].id : i \in 1 .. r}
    <3>1. \A i \in 1 .. r : b[i] = c[i]
      BY <1>5, <2>1
    <3>2. {b[i].id : i \in 1 .. r} = {c[i].id : i \in 1 .. r}
      BY <3>1
    <3>3. QED
      BY <1>4, <3>2
  <2>5. 0 \in 0 .. r /\ 0 + Len(c) <= Len(c) /\ \A x \in 1 .. Len(c) : c[x] = c[0 + x]
    BY <1>5
  <2>6. HandFollows(p, c, r, m)'
    BY <1>2, <2>5 DEF HandFollows, StepsOf, Continues
  <2>7. Follows(c, m)'
    BY <1>2, <1>3, <1>4, <2>3, <2>4, <2>6 DEF Follows, Alone
  <2>8. m \in 0 .. Len(c)
    BY <1>5, <1>7
  <2>9. QED
    BY <2>7, <2>8
<1>8. Len(c) <= Len(b) \/ Len(b) <= Len(c)
  <2>1. \A x, y \in Nat : x <= y \/ y <= x
    OBVIOUS
  <2>2. QED
    BY <1>5, <2>1
<1>9. QED
  BY <1>6, <1>7, <1>8

\* Within a batch, between two appends.
LEMMA IngestFollows ==
  ASSUME TypeOK, Alone, OneSpool, NEW b \in Batches, NEW m \in 0 .. Len(b), Truth = Replays(b)[m],
         NEW r \in {m - 1, m} \cap Nat, ids = {b[i].id : i \in 1 .. r},
         NEW p \in Procs, mode[p] = "ingest", HandFollows(p, b, r, m),
         UNCHANGED <<journal, bad>>,
         CheckEvent(p) \/ Fetch(p) \/ WriteRow(p) \/ RecordEvent(p)
  PROVE  Follows(b, m)'
<1> DEFINE e == Current(p)
<1>1. Truth' = Truth
  BY DEF Truth, Legible
<1>2. PICK i \in 0 .. r : /\ Continues(queue[p], b, i)
                          /\ pc[p] \in StepsOf("ingest")
                          /\ pc[p] # "check" => i = r
                          /\ pc[p] \in {"fetch", "apply", "record"} => m = r + 1
  BY DEF HandFollows
<1>3. i \in Nat /\ r \in Nat
  OBVIOUS
<1>4. ASSUME NEW s \in {m - 1, m} \cap Nat, ids' = {b[j].id : j \in 1 .. s},
             mode'[p] # "idle" => mode'[p] = "ingest" /\ HandFollows(p, b, s, m)'
      PROVE  Follows(b, m)'
  BY <1>1, <1>4 DEF Follows, Alone
<1>5. CASE CheckEvent(p)
  <2>1. pc[p] = "check" /\ ids' = ids
    BY <1>5 DEF CheckEvent, index
  <2>2. CASE queue[p] = <<>>
    <3>1. mode'[p] = "idle"
      BY <1>5, <2>2 DEF CheckEvent, End, TypeOK
    <3>2. QED
      BY <1>4, <2>1, <3>1
  <2>3. CASE queue[p] # <<>>
    <3>1. /\ b \in Seq(Event) /\ Len(b) \in Nat /\ i + 1 \in 1 .. Len(b)
          /\ e = b[i + 1] /\ e \in Event
          /\ Continues(Tail(queue[p]), b, i + 1)
      BY <1>2, <1>3, <2>3, HandAt
    <3>2. e.id \in ids <=> i + 1 <= r
      <4>1. ASSUME e.id \in ids PROVE i + 1 <= r
        <5>1. PICK j \in 1 .. r : e.id = b[j].id
          BY <4>1
        <5>2. j \in 1 .. Len(b)
          BY <1>3, <3>1
        <5>3. j = i + 1
          BY <3>1, <5>1, <5>2 DEF OneSpool
        <5>4. QED
          BY <5>3
      <4>2. ASSUME i + 1 <= r PROVE e.id \in ids
        <5>1. i + 1 \in 1 .. r
          BY <1>3, <4>2
        <5>2. QED
          BY <3>1, <5>1
      <4>3. QED
        BY <4>1, <4>2
    <3>3. CASE e.id \in ids
      <4>1. queue'[p] = Tail(queue[p]) /\ mode'[p] = "ingest" /\ pc'[p] = "check"
        BY <1>5, <2>1, <2>3, <3>3 DEF CheckEvent, TypeOK
      <4>2. i + 1 \in 0 .. r
        BY <1>3, <3>2, <3>3
      <4>3. HandFollows(p, b, r, m)'
        BY <3>1, <4>1, <4>2 DEF HandFollows, StepsOf, Continues
      <4>4. QED
        BY <1>4, <2>1, <4>1, <4>3
    <3>4. CASE e.id \notin ids
      <4>1. queue' = queue /\ mode'[p] = "ingest" /\ pc'[p] = "append"
        BY <1>5, <2>1, <2>3, <3>4 DEF CheckEvent, Goto, TypeOK
      <4>2. i = r
        BY <1>3, <3>2, <3>4
      <4>3. HandFollows(p, b, r, m)'
        BY <1>2, <4>1, <4>2 DEF HandFollows, StepsOf, Continues
      <4>4. QED
        BY <1>4, <2>1, <4>1, <4>3
    <3>5. QED
      BY <3>3, <3>4
  <2>4. QED
    BY <2>2, <2>3
<1>6. CASE Fetch(p) \/ WriteRow(p)
  <2>1. /\ pc[p] \in {"fetch", "apply"} /\ ids' = ids /\ queue' = queue /\ mode'[p] = "ingest"
    BY <1>6 DEF Fetch, WriteRow, index
  <2>2. pc'[p] \in {"apply", "record"}
    BY <1>6 DEF Fetch, WriteRow, Goto, TypeOK
  <2>3. i = r /\ m = r + 1
    BY <1>2, <2>1
  <2>4. HandFollows(p, b, r, m)'
    BY <1>2, <2>1, <2>2, <2>3 DEF HandFollows, StepsOf, Continues
  <2>5. QED
    BY <1>4, <2>1, <2>4
<1>7. CASE RecordEvent(p)
  <2>1. pc[p] = "record" /\ ids' = ids \cup {e.id} /\ queue[p] # <<>>
    BY <1>7 DEF RecordEvent, TypeOK
  <2>2. i = r /\ m = r + 1
    BY <1>2, <2>1
  <2>3. /\ Len(b) \in Nat /\ r + 1 \in 1 .. Len(b)
        /\ e = b[r + 1]
        /\ Continues(Tail(queue[p]), b, r + 1)
    BY <1>2, <1>3, <2>1, <2>2, HandAt
  <2>4. ids' = {b[j].id : j \in 1 .. m}
    <3>1. 1 .. m = (1 .. r) \cup {r + 1}
      BY <1>3, <2>2
    <3>2. QED
      BY <2>1, <2>3, <3>1
  <2>5. m \in {m - 1, m} \cap Nat
    BY <1>3, <2>2
  <2>6. CASE Len(queue[p]) = 1
    <3>1. mode'[p] = "idle"
      BY <1>7, <2>6 DEF RecordEvent, End, TypeOK
    <3>2. QED
      BY <1>4, <2>4, <2>5, <3>1
  <2>7. CASE Len(queue[p]) # 1
    <3>1. queue'[p] = Tail(queue[p]) /\ mode'[p] = "ingest" /\ pc'[p] = "check"
      BY <1>7, <2>7 DEF RecordEvent, Goto, TypeOK
    <3>2. r + 1 \in 0 .. m
      BY <1>3, <2>2
    <3>3. HandFollows(p, b, m, m)'
      BY <2>3, <3>1, <3>2 DEF HandFollows, StepsOf, Continues
    <3>4. QED
      BY <1>4, <2>4, <2>5, <3>1, <3>3
  <2>8. QED
    BY <2>6, <2>7
<1>8. QED
  BY <1>5, <1>6, <1>7

LEMMA FollowNext == Alone /\ OneSpool /\ IInv /\ FollowInv /\ [Next]_vars => FollowInv'
<1> SUFFICES ASSUME Alone, OneSpool, IInv, FollowInv, [Next]_vars, rebuilds' = 0
             PROVE  \E b \in Batches : \E m \in 0 .. Len(b) : Follows(b, m)'
  BY DEF FollowInv
<1>1. TypeOK
  BY DEF IInv
<1>2. rebuilds = 0 /\ \A p \in Procs : ~ClearIndex(p)
  <2>1. \A p \in Procs : ~ClearIndex(p)
    BY <1>1 DEF ClearIndex, TypeOK
  <2>2. CASE UNCHANGED vars
    BY <2>1, <2>2 DEF vars, budget
  <2>3. CASE Next
    <3>1. rebuilds' = rebuilds
      BY <2>1, <2>3 DEF Next, CreateNode, BeginUpdate, UpdateNode, AddEdge, RecordTreeCommit,
         AppendLine, Fetch, WriteRow, RecordEvent, BeginIngest, CheckEvent, ReadJournal,
         Crash, TearLine, budget
    <3>2. QED
      BY <2>1, <3>1
  <2>4. QED
    BY <2>2, <2>3
<1>3. PICK b \in Batches : \E m \in 0 .. Len(b) : Follows(b, m)
  BY <1>2 DEF FollowInv
<1>4. PICK m \in 0 .. Len(b) : Follows(b, m)
  BY <1>3
<1>5. CASE UNCHANGED vars
  <2>1. UNCHANGED disk /\ UNCHANGED <<mode, pc, queue, doc, ids, bad>>
    BY <1>5 DEF vars, disk, index, local
  <2>2. Truth' = Truth
    BY <2>1, TruthKept
  <2>3. \A p \in Procs, r \in Nat : HandFollows(p, b, r, m)' <=> HandFollows(p, b, r, m)
    BY <2>1 DEF HandFollows, Continues
  <2>4. Follows(b, m)'
    BY <1>4, <2>1, <2>2, <2>3 DEF Follows
  <2>5. QED
    BY <2>4
<1>6. CASE Next
  <2>1. PICK p \in Procs :
          \/ CreateNode(p) \/ BeginUpdate(p) \/ UpdateNode(p) \/ AddEdge(p)
          \/ RecordTreeCommit(p) \/ AppendLine(p) \/ Fetch(p) \/ WriteRow(p)
          \/ RecordEvent(p) \/ BeginIngest(p) \/ CheckEvent(p) \/ ClearIndex(p)
          \/ ReadJournal(p) \/ Crash(p) \/ TearLine(p)
    BY <1>6 DEF Next
  <2>2. CASE AppendLine(p)
    BY <1>4, <2>2, AppendFollows
  <2>3. CASE ~AppendLine(p)
    <3>1. UNCHANGED <<journal, bad>>
      <4>1. CASE CreateNode(p) \/ BeginUpdate(p) \/ AddEdge(p) \/ RecordTreeCommit(p) \/ BeginIngest(p)
        BY <4>1 DEF CreateNode, BeginUpdate, AddEdge, RecordTreeCommit, BeginIngest, disk
      <4>2. CASE UpdateNode(p) \/ Fetch(p) \/ WriteRow(p) \/ RecordEvent(p) \/ CheckEvent(p)
        BY <4>2 DEF UpdateNode, Fetch, WriteRow, RecordEvent, CheckEvent, disk
      <4>3. CASE ReadJournal(p) \/ Crash(p) \/ TearLine(p)
        BY <4>3 DEF ReadJournal, Crash, TearLine, disk
      <4>4. QED
        BY <1>2, <2>1, <2>3, <4>1, <4>2, <4>3
    <3>2. Truth' = Truth
      BY <3>1 DEF Truth, Legible
    <3>3. CASE bad # {}
      <4>1. Follows(b, m)'
        BY <1>4, <3>1, <3>2, <3>3 DEF Follows
      <4>2. QED
        BY <4>1
    <3>4. CASE bad = {}
      <4>1. PICK r \in {m - 1, m} \cap Nat :
              /\ ids = {b[i].id : i \in 1 .. r}
              /\ mode[p] # "idle" => mode[p] = "ingest" /\ HandFollows(p, b, r, m)
        BY <1>4, <3>4 DEF Follows
      <4>2. pc[p] \in StepsOf(mode[p])
        BY <3>4 DEF IInv, HandSourced
      <4>3. CASE Crash(p) \/ TearLine(p)
        <5>1. mode'[p] = "idle" /\ ids' = ids /\ bad' = {}
          BY <1>1, <3>4, <4>3 DEF Crash, TearLine, End, TypeOK, disk, index
        <5>2. Follows(b, m)'
          BY <1>4, <3>2, <4>1, <5>1 DEF Follows, Alone
        <5>3. QED
          BY <5>2
      <4>4. ~(CreateNode(p) \/ BeginUpdate(p) \/ AddEdge(p) \/ RecordTreeCommit(p))
        BY DEF CreateNode, BeginUpdate, AddEdge, RecordTreeCommit, OneSpool
      <4>5. CASE BeginIngest(p)
        BY <1>1, <1>4, <3>4, <4>5, BatchFollows
      <4>6. ~UpdateNode(p) /\ ~ReadJournal(p)
        BY <4>1, <4>2 DEF UpdateNode, ReadJournal, StepsOf
      <4>7. CASE CheckEvent(p) \/ Fetch(p) \/ WriteRow(p) \/ RecordEvent(p)
        <5>1. mode[p] # "idle"
          BY <4>2, <4>7 DEF CheckEvent, Fetch, WriteRow, RecordEvent, StepsOf
        <5>2. mode[p] = "ingest" /\ HandFollows(p, b, r, m) /\ Truth = Replays(b)[m]
          BY <1>4, <4>1, <5>1 DEF Follows
        <5>3. Follows(b, m)'
          BY <1>1, <3>1, <4>1, <4>7, <5>2, IngestFollows
        <5>4. QED
          BY <5>3
      <4>8. QED
        BY <1>2, <2>1, <2>3, <4>3, <4>4, <4>5, <4>6, <4>7
    <3>5. QED
      BY <3>3, <3>4
  <2>4. QED
    BY <2>2, <2>3
<1>7. QED
  BY <1>5, <1>6

\* A server that only ingests one other store's journal, one process of it, is
\* always at a state that journal went through, however often batches are
\* posted again after crashes and torn lines (store.py:172-175).
THEOREM AlwaysFollowsSpool ==
  ASSUME Alone, OneSpool
  PROVE  Spec => []FollowsSpool
<1>1. Init => IInv /\ FollowInv
  BY IInvInit, FollowInit
<1>2. IInv /\ FollowInv /\ [Next]_vars => IInv' /\ FollowInv'
  BY IInvNext, FollowNext
<1>3. FollowInv => FollowsSpool
  BY DEF FollowInv, FollowsSpool, Follows
<1>4. QED
  BY <1>1, <1>2, <1>3, PTL DEF Spec
=============================================================================
