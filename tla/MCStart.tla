------------------------------ MODULE MCStart ------------------------------
(* A small instance of RunStart.                                           *)
EXTENDS RunStart, TLC

CONSTANTS ana, ben, old, new, board

Alike == Permutations({ana, ben}) \cup Permutations({old, new})
=============================================================================
