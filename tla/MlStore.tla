------------------------------ MODULE MlStore ------------------------------
(***************************************************************************)
(* The store of ml-party: an append-only journal that is the source of     *)
(* truth, and a SQLite index applied from it (src/mlparty/store.py,        *)
(* journal.py, index.py).  Any number of processes and server threads      *)
(* share both.  Each store operation is a sequence of separately committed *)
(* steps, and the steps of different processes interleave freely: the      *)
(* journal's flock and the index's transactions each cover one step only.  *)
(*                                                                         *)
(*   create_node, add_edge, record_tree_commit   append, write row, record *)
(*   update_node                    read doc, append, write doc, record    *)
(*   ingest_events   per event: has_event, append, read doc, write, record *)
(*   rebuild_index   clear, read journal, per event: read doc, write, rec. *)
(*                                                                         *)
(* Simplifications: updated_at, FTS rows and SQL columns follow the doc    *)
(* and are left out; event ids are numbers in the order they are drawn,    *)
(* of which only distinctness is used; a process reads a document in one   *)
(* step (one SELECT).                                                      *)
(***************************************************************************)
EXTENDS StoreEvents, FiniteSets

CONSTANTS
  Procs,        \* processes and server threads that use this store
  Owned,        \* [Procs -> what it creates, updates, links by itself]
  Ingesters,    \* server threads that run the ingest endpoint
  Rebuilders,   \* processes that may run mlp rebuild-index
  Batches,      \* event batches other stores may post, over and over
  MaxEvents,    \* bound on events drawn locally
  MaxCrashes,   \* bound on operations cut short
  MaxTears,     \* bound on appends cut short inside the write
  MaxRebuilds   \* bound on rebuilds

ASSUME StoreAssumption ==
  /\ Owned \in [Procs -> SUBSET Targets]
  /\ Ingesters \subseteq Procs
  /\ Rebuilders \subseteq Procs
  /\ Batches \subseteq Seq(Event)
  /\ \A b \in Batches : \A i \in 1 .. Len(b) : b[i].id < 0
  /\ {MaxEvents, MaxCrashes, MaxTears, MaxRebuilds} \subseteq Nat

VARIABLES
  journal,    \* the lines of journal.jsonl, as the events meant by them
  bad,        \* positions of lines that do not parse
  torn,       \* the file ends in a partial line
  nodes,      \* the nodes table: documents by id
  links,      \* the edges and tree_commits tables
  ids,        \* journal_ids: the events recorded as applied
  lastId,     \* last ULID drawn
  mode,       \* what each process is running
  pc,         \* and the step it is at
  queue,      \* events it still has to deal with, the current one first
  doc,        \* the document it holds in memory for the current event
  crashes, tears, rebuilds   \* budget used

index  == <<nodes, links, ids>>
disk   == <<journal, bad, torn>>
budget == <<crashes, tears, rebuilds>>
local  == <<mode, pc, queue, doc>>
vars   == <<disk, index, lastId, local, budget>>

Modes == {"idle", "write", "ingest", "rebuild"}
Steps == {"idle", "edit", "check", "append", "fetch", "apply", "record", "read"}

TypeOK ==
  /\ journal \in Seq(Event)
  /\ bad \subseteq 1 .. Len(journal)
  /\ torn \in BOOLEAN
  /\ DOMAIN nodes \subseteq Nodes
  /\ nodes \in [DOMAIN nodes -> Docs]
  /\ DOMAIN links \subseteq Links
  /\ links \in [DOMAIN links -> Int]
  /\ ids \subseteq Int
  /\ lastId \in Nat
  /\ mode \in [Procs -> Modes]
  /\ pc \in [Procs -> Steps]
  /\ queue \in [Procs -> Seq(Event)]
  /\ doc \in [Procs -> Docs]
  /\ crashes \in Nat /\ tears \in Nat /\ rebuilds \in Nat
  /\ \A p \in Procs : pc[p] \in {"append", "fetch", "apply", "record", "edit"}
                        => queue[p] # <<>>

Init ==
  /\ journal = <<>> /\ bad = {} /\ torn = FALSE
  /\ nodes = EmptyTable /\ links = EmptyTable /\ ids = {}
  /\ lastId = 0
  /\ mode = [p \in Procs |-> "idle"]
  /\ pc = [p \in Procs |-> "idle"]
  /\ queue = [p \in Procs |-> <<>>]
  /\ doc = [p \in Procs |-> Blank]
  /\ crashes = 0 /\ tears = 0 /\ rebuilds = 0

-----------------------------------------------------------------------------
\* Control of one process.

Goto(p, step)  == pc' = [pc EXCEPT ![p] = step]
Current(p)     == Head(queue[p])

\* Process p starts running m at step, with events es and document d in hand.
Begin(p, m, step, es, d) ==
  /\ mode[p] = "idle"
  /\ mode' = [mode EXCEPT ![p] = m]
  /\ queue' = [queue EXCEPT ![p] = es]
  /\ doc' = [doc EXCEPT ![p] = d]
  /\ Goto(p, step)

\* The call returns or raises.
End(p) ==
  /\ mode' = [mode EXCEPT ![p] = "idle"]
  /\ queue' = [queue EXCEPT ![p] = <<>>]
  /\ Goto(p, "idle")
  /\ UNCHANGED doc

\* The next ULID, within the bound.
Draw == lastId < MaxEvents /\ lastId' = lastId + 1

-----------------------------------------------------------------------------
\* Graph writes.

\* A node id is a new ULID: nobody has used it or is about to.
Unused(n) ==
  /\ \A i \in DOMAIN journal : journal[i].target # n
  /\ \A q \in Procs : \A i \in DOMAIN queue[q] : queue[q][i].target # n

CreateNode(p) ==
  \E n \in Owned[p] \cap Nodes :
    /\ Unused(n)
    /\ Draw
    /\ Begin(p, "write", "append", <<Created(lastId', n)>>, NewDoc(lastId'))
    /\ UNCHANGED <<disk, index, budget>>

\* Mutant: a list is replaced by the new entry.
BeginUpdateWholesale(p) ==
  \E n \in Owned[p] \cap DOMAIN nodes, f \in Fields :
    /\ Draw
    /\ Begin(p, "write", "edit", <<Updated(lastId', n, f, {lastId'})>>, Blank)
    /\ UNCHANGED <<disk, index, budget>>

\* A caller decides on an update of one field, having read the node: a list
\* field is read here and will be written back with one entry more
\* (node_annotate, _log_artifact_onto); a scalar is just replaced.
BeginUpdate(p) ==
  \E n \in Owned[p] \cap DOMAIN nodes, f \in Fields :
    /\ Draw
    /\ LET v == IF f \in Lists THEN nodes[n][f] \cup {lastId'} ELSE {lastId'}
       IN  Begin(p, "write", "edit", <<Updated(lastId', n, f, v)>>, Blank)
    /\ UNCHANGED <<disk, index, budget>>

\* Mutant: the fields are not merged into the document.
UpdateNodeUnmerged(p) ==
  /\ pc[p] = "edit"
  /\ doc' = [doc EXCEPT ![p] = Merge(Blank, Current(p))]
  /\ Goto(p, "append")
  /\ UNCHANGED <<mode, queue, disk, index, lastId, budget>>

\* update_node reads the document again and merges the fields into it.
UpdateNode(p) ==
  /\ pc[p] = "edit"
  /\ IF Current(p).target \in DOMAIN nodes
     THEN /\ doc' = [doc EXCEPT ![p] = Merge(nodes[Current(p).target], Current(p))]
          /\ Goto(p, "append")
          /\ UNCHANGED <<mode, queue>>
     ELSE End(p)
  /\ UNCHANGED <<disk, index, lastId, budget>>

AddEdge(p) ==
  \E k \in Owned[p] \cap Edges :
    /\ Ends[k] \subseteq DOMAIN nodes
    /\ Draw
    /\ Begin(p, "write", "append", <<Added(lastId', k)>>, Blank)
    /\ UNCHANGED <<disk, index, budget>>

RecordTreeCommit(p) ==
  \E k \in Owned[p] \cap Trees :
    /\ Draw
    /\ Begin(p, "write", "append", <<Recorded(lastId', k)>>, Blank)
    /\ UNCHANGED <<disk, index, budget>>

\* Mutant: the new line does not end a torn one.
AppendLineStillTorn(p) ==
  /\ pc[p] = "append"
  /\ journal' = Append(journal, Current(p))
  /\ bad' = IF torn THEN bad \cup {Len(journal) + 1} ELSE bad
  /\ Goto(p, IF mode[p] = "write" THEN "apply" ELSE "fetch")
  /\ UNCHANGED <<torn, index, lastId, mode, queue, doc, budget>>

\* Append one line under the flock.  After a torn tail the new line is glued
\* to the partial one, and the two together do not parse.
AppendLine(p) ==
  /\ pc[p] = "append"
  /\ journal' = Append(journal, Current(p))
  /\ bad' = IF torn THEN bad \cup {Len(journal) + 1} ELSE bad
  /\ torn' = FALSE
  /\ Goto(p, IF mode[p] = "write" THEN "apply" ELSE "fetch")
  /\ UNCHANGED <<index, lastId, mode, queue, doc, budget>>

\* _apply_event: the document a replayed event leaves.
Fetch(p) ==
  LET e == Current(p) IN
  /\ pc[p] = "fetch"
  /\ IF e.kind = "node.updated" /\ e.target \notin DOMAIN nodes
     THEN /\ Goto(p, "record")
          /\ UNCHANGED doc
     ELSE /\ Goto(p, "apply")
          /\ doc' = [doc EXCEPT ![p] =
               CASE e.kind = "node.created" -> Merge(Blank, e)
                 [] e.kind = "node.updated" -> Merge(nodes[e.target], e)
                 [] OTHER -> Blank]
  /\ UNCHANGED <<disk, index, lastId, mode, queue, budget>>

\* Mutant: every event is taken for an edge as well.
WriteRowUntyped(p) ==
  LET e == Current(p) IN
  /\ pc[p] = "apply"
  /\ nodes' = IF e.kind \in NodeKinds THEN Put(nodes, e.target, doc[p]) ELSE nodes
  /\ links' = Put(links, e.target, e.id)
  /\ Goto(p, "record")
  /\ UNCHANGED <<disk, ids, lastId, mode, queue, doc, budget>>

\* Mutant: INSERT OR IGNORE for edges and tree commits.
WriteRowOnce(p) ==
  LET e == Current(p) IN
  /\ pc[p] = "apply"
  /\ IF e.kind \in NodeKinds
     THEN nodes' = Put(nodes, e.target, doc[p]) /\ UNCHANGED links
     ELSE /\ links' = IF e.target \in DOMAIN links THEN links
                      ELSE Put(links, e.target, e.id)
          /\ UNCHANGED nodes
  /\ Goto(p, "record")
  /\ UNCHANGED <<disk, ids, lastId, mode, queue, doc, budget>>

\* One index transaction: upsert_node, add_edge or tree_commit_put.
WriteRow(p) ==
  LET e == Current(p) IN
  /\ pc[p] = "apply"
  /\ IF e.kind \in NodeKinds
     THEN nodes' = Put(nodes, e.target, doc[p]) /\ UNCHANGED links
     ELSE links' = Put(links, e.target, e.id) /\ UNCHANGED nodes
  /\ Goto(p, "record")
  /\ UNCHANGED <<disk, ids, lastId, mode, queue, doc, budget>>

\* record_event, then on to the next event of the batch or of the replay.
RecordEvent(p) ==
  /\ pc[p] = "record"
  /\ ids' = ids \cup {Current(p).id}
  /\ IF Len(queue[p]) = 1
     THEN End(p)
     ELSE /\ queue' = [queue EXCEPT ![p] = Tail(@)]
          /\ Goto(p, IF mode[p] = "ingest" THEN "check" ELSE "fetch")
          /\ UNCHANGED <<mode, doc>>
  /\ UNCHANGED <<disk, nodes, links, lastId, budget>>

-----------------------------------------------------------------------------
\* Ingest of another store's events.

BeginIngest(p) ==
  /\ p \in Ingesters
  /\ \E b \in Batches : Begin(p, "ingest", "check", b, Blank)
  /\ UNCHANGED <<disk, index, lastId, budget>>

\* Mutant: has_event is not asked.
CheckEventBlind(p) ==
  /\ pc[p] = "check"
  /\ IF queue[p] = <<>> THEN End(p)
     ELSE Goto(p, "append") /\ UNCHANGED <<mode, queue, doc>>
  /\ UNCHANGED <<disk, index, lastId, budget>>

\* Mutant: an event is applied before its line is appended.
CheckEventUnjournaled(p) ==
  /\ pc[p] = "check"
  /\ IF queue[p] = <<>> THEN End(p)
     ELSE IF Current(p).id \in ids
     THEN /\ queue' = [queue EXCEPT ![p] = Tail(@)]
          /\ UNCHANGED <<mode, pc, doc>>
     ELSE Goto(p, "fetch") /\ UNCHANGED <<mode, queue, doc>>
  /\ UNCHANGED <<disk, index, lastId, budget>>

\* has_event: an event already recorded is skipped.
CheckEvent(p) ==
  /\ pc[p] = "check"
  /\ IF queue[p] = <<>> THEN End(p)
     ELSE IF Current(p).id \in ids
     THEN /\ queue' = [queue EXCEPT ![p] = Tail(@)]
          /\ UNCHANGED <<mode, pc, doc>>
     ELSE Goto(p, "append") /\ UNCHANGED <<mode, queue, doc>>
  /\ UNCHANGED <<disk, index, lastId, budget>>

-----------------------------------------------------------------------------
\* Rebuild of the index.

ClearIndex(p) ==
  /\ p \in Rebuilders
  /\ rebuilds < MaxRebuilds
  /\ rebuilds' = rebuilds + 1
  /\ nodes' = EmptyTable /\ links' = EmptyTable /\ ids' = {}
  /\ Begin(p, "rebuild", "read", <<>>, Blank)
  /\ UNCHANGED <<disk, lastId, crashes, tears>>

\* iter_events reads the file once and stops at the first line that does not
\* parse: quietly when it is the last line, with an error when it is not.
\* Either way what came before it has been applied and nothing after it is.
Legible == IF bad = {} THEN journal
           ELSE LET first == CHOOSE i \in bad : \A j \in bad : i <= j
                IN  SubSeq(journal, 1, first - 1)

\* Mutant: the last line is taken for a torn one.
ReadJournalShort(p) ==
  /\ pc[p] = "read"
  /\ IF Len(Legible) <= 1 THEN End(p)
     ELSE /\ queue' = [queue EXCEPT ![p] = SubSeq(Legible, 1, Len(Legible) - 1)]
          /\ Goto(p, "fetch")
          /\ UNCHANGED <<mode, doc>>
  /\ UNCHANGED <<disk, index, lastId, budget>>

ReadJournal(p) ==
  /\ pc[p] = "read"
  /\ IF Legible = <<>> THEN End(p)
     ELSE /\ queue' = [queue EXCEPT ![p] = Legible]
          /\ Goto(p, "fetch")
          /\ UNCHANGED <<mode, doc>>
  /\ UNCHANGED <<disk, index, lastId, budget>>

-----------------------------------------------------------------------------
\* Failures.  A process dies, or a step raises, between two steps.

Crash(p) ==
  /\ mode[p] # "idle"
  /\ crashes < MaxCrashes
  /\ crashes' = crashes + 1
  /\ End(p)
  /\ UNCHANGED <<disk, index, lastId, tears, rebuilds>>

\* The write of a line is cut short: the file keeps a part of it.
TearLine(p) ==
  /\ pc[p] = "append"
  /\ tears < MaxTears
  /\ tears' = tears + 1
  /\ torn' = TRUE
  /\ End(p)
  /\ UNCHANGED <<journal, bad, index, lastId, crashes, rebuilds>>

-----------------------------------------------------------------------------
Next ==
  \E p \in Procs :
    \/ CreateNode(p) \/ BeginUpdate(p) \/ UpdateNode(p)
    \/ AddEdge(p) \/ RecordTreeCommit(p)
    \/ AppendLine(p) \/ Fetch(p) \/ WriteRow(p) \/ RecordEvent(p)
    \/ BeginIngest(p) \/ CheckEvent(p)
    \/ ClearIndex(p) \/ ReadJournal(p)
    \/ Crash(p) \/ TearLine(p)

Spec == Init /\ [][Next]_vars
-----------------------------------------------------------------------------
\* Properties.

Idle      == \A p \in Procs : mode[p] = "idle"
Graph     == [nodes |-> nodes, links |-> links]
\* What the journal says of the graph: the view rebuild_index would produce.
Truth     == Replay(Legible)
Histories == Replays(Legible)

\* Some line of j gave field f of node t the value v.
Sourced(j, t, f, v) ==
  \E i \in DOMAIN j : j[i].target = t /\ f \in j[i].sets /\ j[i].to[f] = v

\* Every field of every document, every edge and commit row and every id
\* recorded as applied has the line that produced it.
IndexSourced ==
  /\ \A n \in DOMAIN nodes : \A f \in Fields : Sourced(journal, n, f, nodes[n][f])
  /\ \A k \in DOMAIN links :
       \E i \in DOMAIN journal : journal[i].target = k /\ journal[i].id = links[k]
  /\ \A x \in ids : \E i \in DOMAIN journal : journal[i].id = x

\* As long as every line parses, the index shows nothing the journal does not
\* hold.  This is what "journal first" buys (store.py:3-5), under every
\* interleaving of writers, ingest, rebuild and crashes.
JournalFirst == bad = {} => IndexSourced

\* The index may lag behind the journal but never shows what the journal at
\* no time said: each document and each row is one that some prefix of the
\* journal describes ("stale, never wrong", store.py:4).
StaleNeverWrong ==
  LET past == Histories IN
  /\ \A n \in DOMAIN nodes : \E k \in DOMAIN past :
       n \in DOMAIN past[k].nodes /\ nodes[n] = past[k].nodes[n]
  /\ \A x \in DOMAIN links : \E k \in DOMAIN past :
       x \in DOMAIN past[k].links /\ links[x] = past[k].links[x]

\* With no failure, no rebuild and nobody in the middle of a call, the index
\* is exactly the replay of the journal and every line of it is recorded.
CurrentWhenIdle ==
  (Idle /\ crashes = 0 /\ tears = 0 /\ rebuilds = 0) =>
    /\ Graph = Truth
    /\ ids = {journal[i].id : i \in DOMAIN journal}

\* An annotation or artifact entry that the journal once gave a node stays in
\* that node's list: lists are append-only in what a replay shows
\* (http_api.py:331, DESIGN.md:55).
ListsKept ==
  [][LET before == Truth.nodes
         after  == Truth'.nodes
     IN  \A n \in DOMAIN before : \A f \in Lists :
           n \in DOMAIN after /\ before[n][f] \subseteq after[n][f]]_vars

\* A rebuild that runs to its end leaves the index equal to the replay of the
\* readable journal, whatever crashes the index went through before
\* (store.py:158-165).
RebuildRestores ==
  [][\A p \in Procs :
       (mode[p] = "rebuild" /\ mode'[p] = "idle" /\ crashes' = crashes) =>
          /\ Graph' = Truth'
          /\ ids' = {Legible[i].id : i \in DOMAIN Legible}']_vars

\* A write cut short spoils at most one line, its own or the next.
DamageBounded == Cardinality(bad) + (IF torn THEN 1 ELSE 0) <= tears

\* A server that only ingests one other store's journal always describes
\* a state that journal went through, however often batches are posted again
\* after crashes (store.py:172-175).  A rebuild that dies half way forgets
\* which events are in the journal, and is excluded.
FollowsSpool ==
  rebuilds = 0 => \E b \in Batches : \E k \in 0 .. Len(b) : Truth = Replays(b)[k]
=============================================================================
