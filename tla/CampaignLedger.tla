---------------------------- MODULE CampaignLedger ----------------------------
(***************************************************************************)
(* What a SAIL campaign promises about its evidence: one log, to which     *)
(* results are only ever appended, each of them once and within the one    *)
(* budget; simulations run one at a time, and none whose result the log    *)
(* has.  A run may be lost before its result is admitted, and then it is   *)
(* not charged.  SailCampaign implements this (KeepsCampaign there).       *)
(***************************************************************************)
EXTENDS Integers, Sequences

CONSTANTS
  Request,    \* requests for evidence, each with one result
  Simulated,  \* those whose result is simulated on request
  Ids,        \* the replays or trials of a request's result
  Price,      \* per request, what its result costs of each kind of effort
  Budget      \* what the campaign may spend of each kind

VARIABLES
  log,        \* admitted results, with what is left of the budget after each
  running     \* the requests being simulated

ledgerVars == <<log, running>>

Left == IF log = <<>> THEN Budget ELSE log[Len(log)].after

Affordable(r) == \A field \in DOMAIN Left : Price[r][field] <= Left[field]

\* Neither the request nor any of its replays or trials is in the log.
Unspent(r) == \A k \in DOMAIN log : log[k].exec # r /\ Ids[log[k].exec] \cap Ids[r] = {}

LedgerInit == log = <<>> /\ running = {}

Launch(r) ==
  /\ running = {} /\ r \in Simulated
  /\ Unspent(r) /\ Affordable(r)
  /\ running' = {r}
  /\ UNCHANGED log

Lose ==
  /\ running # {}
  /\ running' = {}
  /\ UNCHANGED log

Admit(r) ==
  /\ r \in Simulated => r \in running
  /\ Unspent(r) /\ Affordable(r)
  /\ log' = Append(log, [exec |-> r,
                         after |-> [field \in DOMAIN Left |-> Left[field] - Price[r][field]]])
  /\ running' = {}

LedgerNext == Lose \/ \E r \in Request : Launch(r) \/ Admit(r)

LedgerSpec == LedgerInit /\ [][LedgerNext]_ledgerVars
=============================================================================
