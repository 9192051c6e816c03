-------------------------------- MODULE Rules --------------------------------
(* The rules of ml-party that are functions of their input, asked one        *)
(* question: the contract at the start of a run, what a snapshot captures,   *)
(* the ranking of a query, slices and ranges of arrays.                      *)
EXTENDS Contract, Capture, Retrieval, Tensor

CONSTANTS
  Requests, Sources, Priors, Queries, Shapes, Indices, Lengths \* what is asked

\* A shape and the indices into it are natural numbers, axis by axis; a source
\* has finitely many files.
ASSUME RulesAssumption ==
  /\ Requests \subseteq Request
  /\ \A s \in Sources : s.git \in BOOLEAN /\ IsFiniteSet(s.files)
  /\ \A s \in Shapes \cup Indices : s \in Seq(Nat)
  /\ Lengths \subseteq Nat

VARIABLE asked

None == [what |-> "nothing"]
Init == asked = None

First == asked = None
Contracts == First /\ \E r \in Requests : asked' = [what |-> "start", r |-> r]
Captures  == First /\ \E s \in Sources, p \in Priors : asked' = [what |-> "capture", s |-> s, p |-> p]
Asks      == First /\ \E q \in Queries : asked' = [what |-> "query", q |-> q]
Slices    == First /\ \E sh \in Shapes, p \in Indices, cheap \in BOOLEAN :
                asked' = [what |-> "slice", sh |-> sh, p |-> p, cheap |-> cheap]
Ranges    == First /\ \E n \in Lengths, b \in ItemSizes : asked' = [what |-> "range", n |-> n, b |-> b]

Next == Contracts \/ Captures \/ Asks \/ Slices \/ Ranges
Spec == Init /\ [][Next]_asked

\* Every refusal at the start of a run can be put right in two rounds, and in
\* one unless both the run and its compute reference are refused.
RefusalsRepair == asked.what = "start" => Repairs(asked.r)

\* snapshot_preview foretells what run_start will do with the same source.
PreviewHolds == asked.what = "capture" => CaptureForetold(asked.s, asked.p)

\* A query ranks by what it should, and corrections come before what they
\* correct.
RankingRight == asked.what = "query" => RankedFairly(asked.q) /\ CorrectionsAhead(asked.q)

\* A slice that is shown shows the right elements, and a range has read the
\* share of the array that it says.
ArraysRight ==
  /\ asked.what = "slice" =>
       LET ans == ReadSlice(asked.sh, asked.p, asked.cheap)
       IN ans.shown => SliceOf(asked.sh, asked.p, ans)
  /\ asked.what = "range" => RangeOf(asked.n, ReadRange(asked.n, asked.b))
=============================================================================
