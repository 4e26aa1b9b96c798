--------------------------- MODULE MCDevLoopRunner ---------------------------
(* Instances of DevLoopRunner for TLC: runners and process ids are model     *)
(* values that only occur in sets and as indices; identities are not         *)
(* interchangeable, since some pass and some do not.                         *)
EXTENDS DevLoopRunner, TLC

RunnersAndPids == Permutations(Runner) \cup Permutations(Pid)
=============================================================================
