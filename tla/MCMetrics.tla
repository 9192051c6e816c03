----------------------------- MODULE MCMetrics -----------------------------
(* Small instances of MetricSync. *)
EXTENDS MetricSync, TLC

CONSTANTS f1, f2

\* Two SyncClients on one spool are interchangeable.
Interchangeable == Permutations(Flushers)
=============================================================================
