----------------------------- MODULE MCAccounts -----------------------------
(* A small instance of Accounts.                                           *)
EXTENDS Accounts, TLC

CONSTANTS alice, bob, e1, e2, t1

Alike == Permutations({alice, bob}) \cup Permutations({e1, e2})
NoUsers == [u \in {} |-> 0]
=============================================================================
