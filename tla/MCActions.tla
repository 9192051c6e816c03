----------------------------- MODULE MCActions -----------------------------
(* A small instance of Actions.                                            *)
EXTENDS Actions, TLC

CONSTANTS sweep, e1, c1, a1

\* A required number, a choice with a default, and a flag that may be left
\* out, which the text uses or does not.
MCDeclared ==
  { [type |-> "int",    required |-> TRUE,  default |-> "none", uses |-> TRUE],
    [type |-> "choice", required |-> FALSE, default |-> "red",  uses |-> TRUE],
    [type |-> "str",    required |-> FALSE, default |-> "none", uses |-> FALSE] }
=============================================================================
