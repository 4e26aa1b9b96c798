---------------------------- MODULE MCFollowerJoint ----------------------------
(* Instances of FollowerJoint for TLC.                                       *)
EXTENDS FollowerJoint
=============================================================================
