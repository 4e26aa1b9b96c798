---------------------------- MODULE MCStudioBus ----------------------------
(* Instances of StudioBus for TLC.                                           *)
EXTENDS StudioBus
=============================================================================
