------------------------------- MODULE Tensor -------------------------------
(* Slices and ranges of .npy arrays (src/mlparty/npyview.py): which elements *)
(* are read and what they are shown as.  An element is its place in the      *)
(* file, counted from the first; a slice's answer is a record of rows, of    *)
(* which a line has one.                                                     *)
EXTENDS Integers, SequencesExt

CONSTANTS
  LinePoints,  \* MAX_1D_POINTS
  AxisPoints,  \* MAX_2D_POINTS
  EagerElems,  \* MAX_EAGER_BYTES
  ExactBytes,  \* _EXACT_BYTES
  Blocks,      \* _SAMPLE_BLOCKS
  BlockElems,  \* _SAMPLE_BLOCK_ELEMS
  ItemSizes    \* bytes an element may have

\* 32 MiB are 128 blocks of 32768 elements of 8 bytes.
ASSUME TensorAssumption ==
  /\ {LinePoints, AxisPoints, ExactBytes, BlockElems} \subseteq Nat \ {0}
  /\ EagerElems \in Nat /\ Blocks \in Nat \ {0, 1} /\ ItemSizes \subseteq Nat \ {0}
  /\ \A b \in ItemSizes : ExactBytes >= b * Blocks * BlockElems
  /\ Blocks - 1 <= BlockElems

\* -(-n // m), and s[::k].
Ceil(n, m)  == (n + m - 1) \div m
Every(s, k) == [i \in 1 .. Ceil(Len(s), k) |-> s[(i - 1) * k + 1]]
\* _read_elems.
Elems(start, count) == [i \in 1 .. count |-> start + i - 1]

Rest(shape, prefix) == SubSeq(shape, Len(prefix) + 1, Len(shape))
Indexable(shape, prefix) == /\ Len(prefix) <= Len(shape) /\ Len(Rest(shape, prefix)) <= 2
                            /\ \A k \in DOMAIN prefix : prefix[k] < shape[k]

\* How many elements one step along axis k passes: the axes behind it, multiplied.
Behind(shape) ==
  LET b[i \in 0 .. Len(shape)] == IF i = 0 THEN 1 ELSE b[i - 1] * shape[Len(shape) - i + 1]
  IN [k \in 0 .. Len(shape) |-> b[Len(shape) - k]]

\* Mutant: the stride counts the axis itself.
StartsOfAxis(shape, prefix) ==
  LET at[k \in 0 .. Len(prefix)] == IF k = 0 THEN 0 ELSE at[k - 1] + prefix[k] * Behind(shape)[k - 1]
  IN at

\* flat, index by index: each times the stride of its axis.
Starts(shape, prefix) ==
  LET at[k \in 0 .. Len(prefix)] == IF k = 0 THEN 0 ELSE at[k - 1] + prefix[k] * Behind(shape)[k]
  IN at
\* The place of the first element.
Start(shape, prefix) == Starts(shape, prefix)[Len(prefix)]

\* One axis or none is left: a line.  Without cheap seeks all of it is read.
Line(start, n, cheap) ==
  LET step == Ceil(n, LinePoints)
  IN IF step > 1 /\ ~cheap /\ n > EagerElems THEN [shown |-> FALSE]
     ELSE [shown |-> TRUE, steps |-> <<1, step>>,
           rows |-> <<IF step > 1 /\ cheap
                      THEN [i \in 1 .. Ceil(n, step) |-> start + (i - 1) * step]
                      ELSE Every(Elems(start, n), step)>>]

\* Two axes are left: a heatmap.
Heatmap(start, r, c, cheap) ==
  LET rstep == Ceil(r, AxisPoints)
      cstep == Ceil(c, AxisPoints)
      all   == Elems(start, r * c)
      row(i) == IF cheap THEN Elems(start + i * c, c) ELSE SubSeq(all, i * c + 1, (i + 1) * c)
  IN IF ~cheap /\ r * c > EagerElems THEN [shown |-> FALSE]
     ELSE [shown |-> TRUE, steps |-> <<rstep, cstep>>,
           rows |-> [k \in 1 .. Ceil(r, rstep) |-> Every(row((k - 1) * rstep), cstep)]]

\* read_slice.  An empty axis makes a step of 0, which raises.
ReadSlice(shape, prefix, cheap) ==
  LET rest == Rest(shape, prefix)
  IN IF ~Indexable(shape, prefix) \/ (\E k \in DOMAIN rest : rest[k] = 0)
     THEN [shown |-> FALSE]
     ELSE CASE Len(rest) = 0 -> Line(Start(shape, prefix), 1, cheap)
            [] Len(rest) = 1 -> Line(Start(shape, prefix), rest[1], cheap)
            [] Len(rest) = 2 -> Heatmap(Start(shape, prefix), rest[1], rest[2], cheap)

Stride(n, block) == (n - block) \div (Blocks - 1)

\* tensor_range: the blocks it reads, as places of their first elements.
Sampled(n) == {k * Stride(n, BlockElems) : k \in 0 .. (n - BlockElems) \div Stride(n, BlockElems)}
ReadRange(n, item) ==
  IF n * item <= ExactBytes THEN [exact |-> TRUE, read |-> 0 .. n - 1]
  ELSE [exact |-> FALSE, share |-> Blocks * BlockElems,
        read |-> UNION {x .. x + BlockElems - 1 : x \in Sampled(n)}]

-----------------------------------------------------------------------------
\* The place of an element, axis by axis.
Walked(shape, ix) ==
  LET at[k \in 0 .. Len(ix)] == IF k = 0 THEN 0 ELSE at[k - 1] * shape[k] + ix[k]
  IN at
Place(shape, ix) == Walked(shape, ix)[Len(ix)]

\* Whatever the way it is read, a slice shows the elements that its steps name,
\* from the first to the last step that fits, and no more than there are points.
SliceOf(shape, prefix, ans) ==
  LET rest == Rest(shape, prefix)
      cols == IF rest = <<>> THEN 1 ELSE rest[Len(rest)]
      high == IF Len(rest) = 2 THEN rest[1] ELSE 1
      ix(i, j) == prefix \o CASE Len(rest) = 0 -> <<>>
                              [] Len(rest) = 1 -> <<(j - 1) * ans.steps[2]>>
                              [] Len(rest) = 2 -> <<(i - 1) * ans.steps[1], (j - 1) * ans.steps[2]>>
  IN /\ Len(ans.rows) * ans.steps[1] >= high /\ (Len(ans.rows) - 1) * ans.steps[1] < high
     /\ \A i \in DOMAIN ans.rows :
          /\ Len(ans.rows[i]) * ans.steps[2] >= cols /\ (Len(ans.rows[i]) - 1) * ans.steps[2] < cols
          /\ Len(ans.rows[i]) <= (IF Len(rest) = 2 THEN AxisPoints ELSE LinePoints)
          /\ \A j \in DOMAIN ans.rows[i] : ans.rows[i][j] = Place(shape, ix(i, j))
     /\ Len(rest) = 2 => Len(ans.rows) <= AxisPoints

\* A range is exact or a sample inside the array that begins at its start and
\* reads as many elements as its sampled_fraction says.
RangeOf(n, ans) == /\ ans.read \subseteq 0 .. n - 1
                   /\ n > 0 => 0 \in ans.read
                   /\ IF ans.exact THEN Cardinality(ans.read) = n
                      ELSE Cardinality(ans.read) = ans.share
=============================================================================
