---------------------------- MODULE StoreEvents ----------------------------
(***************************************************************************)
(* The events of an ml-party journal and what each one does to the graph   *)
(* the index shows (src/mlparty/store.py, journal.py, index.py).           *)
(*                                                                         *)
(* Data is abstracted to its origin.  The content of a scalar field is the *)
(* singleton of the id of the event that wrote it; the content of a list   *)
(* field (annotations, artifacts) is the set of ids of the events whose    *)
(* entries it holds.  A row of the edge or of the tree_commits table is    *)
(* the id of the event that wrote it.  Two contents are therefore equal    *)
(* exactly when the same writes produced them.                             *)
(***************************************************************************)
EXTENDS Integers, Sequences

CONSTANTS
  Nodes,    \* node ids
  Scalars,  \* fields of a node document replaced by a single value (status)
  Lists,    \* fields callers extend: read the list, append, write it back
  Edges,    \* primary keys of the edge table (src, dst, type)
  Trees,    \* primary keys of tree_commits (experiment, tree, parents)
  Ends      \* the nodes an edge connects

Fields  == Scalars \cup Lists
Links   == Edges \cup Trees
Targets == Nodes \cup Links

ASSUME EventAssumption ==
  /\ Scalars \cap Lists = {}
  /\ Nodes \cap Links = {}
  /\ Edges \cap Trees = {}
  /\ Ends \in [Edges -> SUBSET Nodes]

NodeKinds == {"node.created", "node.updated"}
Kinds     == NodeKinds \cup {"edge.added", "gitmap.recorded"}

Docs  == [Fields -> SUBSET Int]
Blank == [f \in Fields |-> {}]

\* A journal line: the ULID, the kind, what it is about, which fields of the
\* document it sets (every one for node.created) and what to.
Event == {e \in [id : Int, kind : Kinds, target : Targets,
                 sets : SUBSET Fields, to : Docs] :
            /\ e.kind \in NodeKinds => e.target \in Nodes
            /\ e.kind \notin NodeKinds => e.target \in Links
            /\ e.kind = "node.created" => e.sets = Fields}

NewDoc(id)      == [f \in Fields |-> IF f \in Scalars THEN {id} ELSE {}]
Created(id, n)  == [id |-> id, kind |-> "node.created", target |-> n,
                    sets |-> Fields, to |-> NewDoc(id)]
Updated(id, n, f, v) == [id |-> id, kind |-> "node.updated", target |-> n,
                         sets |-> {f}, to |-> [Blank EXCEPT ![f] = v]]
Added(id, k)    == [id |-> id, kind |-> "edge.added", target |-> k,
                    sets |-> {}, to |-> Blank]
Recorded(id, k) == [id |-> id, kind |-> "gitmap.recorded", target |-> k,
                    sets |-> {}, to |-> Blank]

\* The fields of e over document d.  dict.update: top-level keys are replaced
\* wholesale.
Merge(d, e) == [f \in Fields |-> IF f \in e.sets THEN e.to[f] ELSE d[f]]

\* INSERT OR REPLACE of one row.
Put(table, key, row) ==
  [k \in DOMAIN table \cup {key} |-> IF k = key THEN row ELSE table[k]]

EmptyTable == [k \in {} |-> {}]
EmptyGraph == [nodes |-> EmptyTable, links |-> EmptyTable]

\* One event applied to a graph, in one go (_apply_event).
Apply(g, e) ==
  CASE e.kind = "node.created" ->
         [g EXCEPT !.nodes = Put(@, e.target, Merge(Blank, e))]
    [] e.kind = "node.updated" ->
         IF e.target \in DOMAIN g.nodes
         THEN [g EXCEPT !.nodes = Put(@, e.target, Merge(@[e.target], e))]
         ELSE g
    [] OTHER -> [g EXCEPT !.links = Put(@, e.target, e.id)]

\* Replays(j)[k] is the graph the first k lines of j describe.
Replays(j) ==
  LET g[k \in 0 .. Len(j)] == IF k = 0 THEN EmptyGraph ELSE Apply(g[k - 1], j[k])
  IN  g
Replay(j) == Replays(j)[Len(j)]
=============================================================================
