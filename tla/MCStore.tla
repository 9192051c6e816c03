------------------------------ MODULE MCStore ------------------------------
(* Small instances of MlStore.                                             *)
EXTENDS MlStore, TLC

CONSTANTS n1, n2, part, tree, status, notes, p1, p2

MCEnds == (part :> {n1, n2})

\* Two writers that never update the same node or write the same row.
Disjoint == (p1 :> {n1, part}) @@ (p2 :> {n2, tree})
\* A server without writes of its own.
Server   == (p1 :> {})

\* The journal of a client: a run is created, its status set, the code of the
\* next run is committed, a note added.
Spool == << Created(-1, n1), Updated(-2, n1, status, {-2}), Recorded(-3, tree),
            Updated(-4, n1, notes, {-4}) >>
\* Flushes that failed are sent again with what was journaled since.
Growing == {SubSeq(Spool, 1, k) : k \in 1 .. Len(Spool)}
NoBatch == {}
=============================================================================
