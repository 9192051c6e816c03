------------------------------- MODULE MCRun -------------------------------
(* Small instances of RunLifecycle.                                        *)
EXTENDS RunLifecycle

CONSTANT a1
=============================================================================
