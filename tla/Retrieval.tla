------------------------------ MODULE Retrieval ------------------------------
(* Hybrid retrieval (src/mlparty/retrieval.py): rankings fused by reciprocal *)
(* rank, the neighbours of the strongest, corrections downranked.            *)
(*                                                                           *)
(* A score is a whole number of units, so chosen that the fractions of the   *)
(* first four ranks, of the damping and of the downranking come out even.    *)
(* What a result shows is rounded to five decimals, and sorted by that.      *)
EXTENDS Integers, SequencesExt

CONSTANTS Unit \* a score of 1

\* 1 / (60 + pos) must be whole, and 11/20 and then 7/20 of it.
ASSUME RetrievalAssumption == \A pos \in 0 .. 3 : Unit % (400 * (60 + pos)) = 0

RRF_K == 60
Corrections == {"supersedes", "refutes", "duplicate-of"}

\* Mutant: a neighbour counts less than what it corrects.
DampedMore(score) == (score \div 20) * 6

\* NEIGHBOR_DAMP is 0.55.
Damped(score) == (score \div 20) * 11
\* DOWNRANK is 0.5 of a duplicate, else 0.35.
Downranked(score, types) == CASE types \cap {"supersedes", "refutes"} # {} -> (score \div 20) * 7
                              [] types = {"duplicate-of"} -> score \div 2
                              [] OTHER -> score
\* round(x, 5), in hundred-thousandths; a half goes up, where the code's goes to
\* the even side.
Rounded(score) == (score * 25 + Unit \div 8000) \div (Unit \div 4000)

\* A dict: its keys in the order they came, and their scores.
Score(d, n)  == IF n \in DOMAIN d.score THEN d.score[n] ELSE 0
Put(d, n, v) == [order |-> IF n \in DOMAIN d.score THEN d.order ELSE Append(d.order, n),
                 score |-> (n :> v) @@ d.score]
\* The keys from the highest score down, equal ones as they came.
Sorted(d) ==
  LET at == [n \in ToSet(d.order) |-> CHOOSE i \in DOMAIN d.order : d.order[i] = n]
  IN SetToSortSeq(ToSet(d.order), LAMBDA m, n : \/ d.score[m] > d.score[n]
                                                \/ d.score[m] = d.score[n] /\ at[m] < at[n])
Top(s, k) == SubSeq(s, 1, IF k < Len(s) THEN k ELSE Len(s))

\* _rrf of one more ranking.
Fuse(d, ranking) ==
  FoldLeft(LAMBDA x, pos : Put(x, ranking[pos], Score(x, ranking[pos]) + Unit \div (RRF_K + pos - 1)),
           d, [pos \in DOMAIN ranking |-> pos])

\* Which rankings a mode asks for; without an embedder there is no semantic one.
Lexical(q)  == IF q.mode = "semantic" THEN <<>> ELSE Top(q.lex, q.limit * 5)
Semantic(q) == IF q.mode \in {"hybrid", "semantic"} /\ q.embedder THEN Top(q.vec, q.limit * 5) ELSE <<>>
Fused(q) == Fuse(Fuse([order |-> <<>>, score |-> <<>>], Lexical(q)), Semantic(q))

Seeds(q) == Top(Sorted(Fused(q)), q.limit * 2)
Other(e, n) == IF e.src = n THEN e.dst ELSE e.src
EdgesFor(q, n) == SelectSeq(q.edges, LAMBDA e : n \in {e.src, e.dst})

\* The neighbours of each seed get the damped score the seed had, if that is more.
Expand(q, fused) ==
  FoldLeft(LAMBDA d, n :
             FoldLeft(LAMBDA x, e : LET v == Damped(Score(fused, n))
                                    IN IF v > Score(x, Other(e, n)) THEN Put(x, Other(e, n), v) ELSE x,
                      d, EdgesFor(q, n)),
           fused, Seeds(q))
Expanded(q) == Expand(q, Fused(q))

CorrectedBy(q, n) == {e \in ToSet(q.edges) : e.dst = n /\ e.type \in Corrections}
Shown(q, score, n) == Rounded(Downranked(score, {e.type : e \in CorrectedBy(q, n)}))

\* What the filters let through, with the scores that are shown.
Kept(q, d) == LET keep == SelectSeq(Sorted(d), LAMBDA n : n \notin q.hidden)
              IN [order |-> keep, score |-> [n \in ToSet(keep) |-> Shown(q, d.score[n], n)]]
\* Sorted again and cut; equal ones stay as the scores before had them.
Results(q) ==
  LET answer(d, out) == [i \in DOMAIN out |-> [node |-> out[i], score |-> d.score[out[i]]]]
      best(d)        == answer(d, Top(Sorted(d), q.limit))
  IN best(Kept(q, Expanded(q)))

-----------------------------------------------------------------------------
\* The score a node should have: its own, or the damped one of the strongest
\* seed next to it, whatever order the edges came in; then its corrections.
Fair(q, own, seeds) ==
  LET best(n) == LET near == {Damped(Score(own, m)) :
                                m \in {s \in seeds : \E e \in ToSet(q.edges) : {e.src, e.dst} = {s, n}}}
                 IN FoldSet(LAMBDA v, w : IF v > w THEN v ELSE w, Score(own, n), near)
  IN [n \in q.nodes |-> Shown(q, best(n), n)]

\* The results are the best scores there are, each as it should be, from the
\* highest down and none twice.
RankedFairly(q) ==
  LET ranked(out, fair, got, all) ==
        /\ Cardinality(got) = Len(out)
        /\ Len(out) = (IF Cardinality(all) < q.limit THEN Cardinality(all) ELSE q.limit)
        /\ \A i \in DOMAIN out : /\ out[i].node \in all /\ out[i].score = fair[out[i].node]
                                 /\ \A j \in DOMAIN out : i < j => out[i].score >= out[j].score
        /\ \A n \in all \ got : \A i \in DOMAIN out : out[i].score >= fair[n]
      of(out, fair) == ranked(out, fair, {out[i].node : i \in DOMAIN out},
                              {n \in q.nodes \ q.hidden : fair[n] > 0})
  IN of(Results(q), Fair(q, Fused(q), ToSet(Seeds(q))))

\* Old beliefs are not served ahead of new ones: a strong match that was
\* corrected comes behind what corrects it, unless that is corrected as well or
\* filtered out. This is said of a match that has its score from its own ranks:
\* one that was raised by a stronger neighbour can come ahead of its correction.
CorrectionsAhead(q) ==
  LET ahead(out, seeds, own, d) ==
        \A i \in DOMAIN out :
          LET n == out[i].node
          IN n \in seeds /\ Score(d, n) = Score(own, n) =>
               \A e \in CorrectedBy(q, n) :
                 e.src \in q.hidden \/ CorrectedBy(q, e.src) # {} \/ \E j \in 1 .. i - 1 : out[j].node = e.src
  IN ahead(Results(q), ToSet(Seeds(q)), Fused(q), Expanded(q))
=============================================================================
