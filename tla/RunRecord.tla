----------------------------- MODULE RunRecord -----------------------------
(***************************************************************************)
(* What a run's record promises: it is open until one call closes it, and  *)
(* from then on it says what that call said.                               *)
(***************************************************************************)
CONSTANT Closes      \* the calls that can close a run

VARIABLES
  status,   \* "open", or what closed it
  told      \* the calls that were told they closed it

Init == status = "open" /\ told = {}

\* A run closes; the call that closed it may die before it can report.
Close ==
  /\ status = "open"
  /\ status' \in {"finalized", "failed", "abandoned"}
  /\ \/ told' = told
     \/ \E c \in Closes : c.status = status' /\ told' = {c}

Spec == Init /\ [][Close]_<<status, told>>
=============================================================================
