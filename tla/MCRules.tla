------------------------------ MODULE MCRules ------------------------------
(* Small inputs for Rules.                                                 *)
EXTENDS Rules

CONSTANTS m1, m2, m3, m4, m5

NoCompute == [system |-> "absent", job_id |-> "absent", note |-> "absent", url |-> "absent", extra |-> FALSE]
MCRequests ==
  [title : {"none", "short", "good"}, purpose : {"blank", "good"}, hypothesis : Hypothesis,
   parameters : {"none", "list", "map"}, shape : {"none", "list"}, compute : {NoCompute}]
  \cup
  [title : {"short", "good"}, purpose : {"good"}, hypothesis : {"good", "bare probe"},
   parameters : {"list", "map"}, shape : {"map"}, compute : Compute]

MCFiles == [place : Places, kind : Kinds, size : {1}, link : BOOLEAN, listed : BOOLEAN, content : {"a"}]
             \cup [place : Places, kind : Kinds, size : {2, 3}, link : {FALSE}, listed : {TRUE}, content : {"b"}]
\* A second file is there for the counts: one that may be captured.
MCKept == {f \in MCFiles : f.listed /\ ~f.link /\ f.place \in {"top", "src", "secret"}}
MCSources ==
  [root : {"project"}, git : BOOLEAN,
   files : {{}} \cup {{f} : f \in MCFiles}
             \cup {{f, g} : f \in MCFiles, g \in MCKept}]
    \cup [root : {"home"}, git : BOOLEAN, files : {{f} : f \in MCFiles}]
\* One file to a path.
MCDistinct == {s \in MCSources : \A f, g \in s.files : Path(f) = Path(g) => f = g}
MCPriors == { (Lock :> "env"),
              (Lock :> "env") @@ (<<"top", "ext">> :> "a"),
              (Lock :> "old") @@ (<<"top", "ext">> :> "a") @@ (<<"src", "named">> :> "b") }

MCNodes == {m1, m2, m3, m4}
MCEdge  == {e \in [src : MCNodes, dst : MCNodes, type : {"supersedes", "duplicate-of", "derives-from"}] :
              e.src # e.dst}
\* Names are interchangeable: the lexical ranking takes them in order.
MCQueries ==
  [nodes : {MCNodes}, mode : {"hybrid"}, embedder : {TRUE},
   lex : {<<m1, m2>>, <<m1, m2, m3>>}, vec : {<<m3, m4, m1, m2>>, <<m2, m1, m4, m3>>},
   edges : {<<e, f>> : e \in MCEdge, f \in MCEdge}, hidden : {{}, {m2}}, limit : {1, 2}]
  \cup
  [nodes : {MCNodes}, mode : {"lexical", "semantic"}, embedder : {TRUE},
   lex : {<<m1, m2, m3>>}, vec : {<<m3, m4, m1, m2>>},
   edges : {<<e, f>> : e \in MCEdge, f \in MCEdge}, hidden : {{}}, limit : {1, 2}]
  \cup
  [nodes : {MCNodes}, mode : {"hybrid", "semantic"}, embedder : {FALSE},
   lex : {<<m1, m2, m3, m4>>}, vec : {<<>>},
   edges : {<<>>} \cup {<<e>> : e \in MCEdge}, hidden : {{}}, limit : {1, 2, 3}]
  \cup
  [nodes : {MCNodes \cup {m5}}, mode : {"hybrid"}, embedder : {TRUE},
   lex : {<<m1, m2, m3>>}, vec : {<<m2, m1>>},
   edges : {<<e, [f EXCEPT !.src = m5]>> : e \in MCEdge, f \in MCEdge}, hidden : {{}}, limit : {5}]

MCShapes   == UNION {[1 .. k -> 0 .. 5] : k \in 0 .. 2} \cup [1 .. 3 -> {1, 3, 4}]
MCIndices == UNION {[1 .. k -> 0 .. 3] : k \in 0 .. 3}
MCLengths  == 0 .. 60
=============================================================================
