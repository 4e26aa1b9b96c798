-------------------------- MODULE MCTeleopRecorder --------------------------
(* Instances of TeleopRecorder for TLC: ids and handlers are model values    *)
(* that only occur in sets and as indices, so they are interchangeable.      *)
EXTENDS TeleopRecorder, TLC

RecPermutations == Permutations(Rec)
AllPermutations == Permutations(Rec) \cup Permutations(Client)
=============================================================================
