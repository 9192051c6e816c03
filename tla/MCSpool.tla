------------------------------ MODULE MCSpool ------------------------------
(* A small instance of SpoolSync.                                          *)
EXTENDS SpoolSync, TLC

CONSTANTS thread, cli

\* The thread and `mlp sync` do the same.
SymmetricClients == Permutations(Clients)
=============================================================================
