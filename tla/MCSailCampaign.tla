---------------------------- MODULE MCSailCampaign ----------------------------
(* Instances of SailCampaign for TLC, with three configs to select from:     *)
(* fixtures, two of them for one replay; the one C2 family; measurements,    *)
(* two with a trial in common.  Operators and roots only occur in sets and   *)
(* as indices.                                                               *)
EXTENDS SailCampaign, TLC

CONSTANTS fixture, again, other, family, trials, trial, last

MCIds ==
  (fixture :> {"f"}) @@ (again :> {"f"}) @@ (other :> {"g"})
    @@ (family :> {"c1", "c2"})
    @@ (trials :> {"t1", "t2"}) @@ (trial :> {"t2"}) @@ (last :> {"t3"})

MCLane == {{fixture, again, other}, {family}, {trials, trial, last}}

MCBudget == [interventions |-> 2, replays |-> 2, trials |-> 2]

OpsAndRoots == Permutations(Op) \cup Permutations(Root)
=============================================================================
