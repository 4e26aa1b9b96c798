-------------------------- MODULE MCTaskOrchestrator --------------------------
(* Instances of TaskOrchestrator for TLC.                                    *)
EXTENDS TaskOrchestrator
=============================================================================
