----------------------------- MODULE SailCampaign -----------------------------
(***************************************************************************)
(* The transaction of a SAIL campaign: operators (processes of the command *)
(* line) that each make one pass of run_live_operator over the campaign's  *)
(* persistent state, under its file lock: load it, obtain at most one      *)
(* result, write artifacts and a receipt, and append the result as the     *)
(* last write.  An operator may raise or be killed at any step, and then   *)
(* another one finds whatever it left behind.                              *)
(*                                                                         *)
(* Abstracted: the decision plane (surprise, acquisition, posterior,       *)
(* graphs) is a function of the frozen config and of the admitted result,  *)
(* so all artifacts of a pass are one value; digests identify what they    *)
(* digest; the config and the code it binds stay as they are.              *)
(***************************************************************************)
EXTENDS Integers, Sequences, FiniteSets

CONSTANTS
  Op,         \* operators
  Root,       \* directories given as --output
  Request,    \* trusted adapter requests and measurement receipts
  Simulated,  \* the requests among them
  Lane,       \* for each intervention a config may select: what can be admitted for it
  Ids,        \* anchor replay or measurement trial ids of a request's result
  Budget,     \* what the config leaves of its maxima
  None        \* no request, no lock holder, no file

Field == {"interventions", "replays", "trials"}

ASSUME CampaignAssumption ==
  /\ Simulated \subseteq Request /\ Lane \subseteq SUBSET Request
  /\ None \notin Request /\ None \notin Op
  /\ DOMAIN Ids = Request /\ \A r \in Request : IsFiniteSet(Ids[r])
  /\ Budget \in [Field -> Nat]

VARIABLES
  state,     \* the events of campaign_state.json; a missing file counts as no event
  lock,      \* the holder of .campaign-state.lock
  lane,      \* that of the intervention the config selects
  op,        \* per operator: where it is (pc), its arguments (req, root), the state
             \* it loaded (seen), the request whose result it admits (adm)
  adapter,   \* per root: whose adapter artifacts it has, all of them
  torn,      \* roots whose other artifacts are of several passes
  receipt,   \* per root: receipt.json
  answered   \* history: requests whose admission was answered

vars == <<state, lock, lane, op, adapter, torn, receipt, answered>>
outputs == <<adapter, torn, receipt>>

Held == {"open", "running", "decided", "writing", "sealed", "checked", "final"}

Idle == [pc |-> "idle", req |-> None, root |-> None, seen |-> <<>>, adm |-> None]
-----------------------------------------------------------------------------
\* The delta of prepare_admitted_result; _apply_delta in terms of what is left.
Cost(r) ==
  [interventions |-> 1,
   replays |-> IF r \in Simulated THEN Cardinality(Ids[r]) ELSE 0,
   trials  |-> IF r \in Simulated THEN 0 ELSE Cardinality(Ids[r])]

Charged(budget, r) == [f \in Field |-> budget[f] - Cost(r)[f]]

\* _validate_budget
Solvent(budget) == \A f \in Field : budget[f] >= 0

\* budget_after of the k-th event; the state's own budget is the last one.
BalanceAt(events, k) == IF k = 0 THEN Budget ELSE events[k].after
Balance(events) == BalanceAt(events, Len(events))

Replays(q, r) == q = r \/ Ids[q] \cap Ids[r] # {}

\* No event has the execution, a replay or a trial of this request.
Fresh(events, r) == \A k \in DOMAIN events : ~Replays(events[k].exec, r)

Event(events, r) == [exec |-> r, after |-> Charged(Balance(events), r)]

\* _validate_state: the chain of balances, and no id twice.
ValidState(events) ==
  \A k \in DOMAIN events :
    /\ events[k].after = Charged(BalanceAt(events, k - 1), events[k].exec)
    /\ Solvent(events[k].after)
    /\ \A j \in 1..(k - 1) : ~Replays(events[j].exec, events[k].exec)

\* The state an operator's receipt binds: prepared_state, or else the one it loaded.
Prepared(p) ==
  IF op[p].adm = None THEN op[p].seen
  ELSE Append(op[p].seen, Event(op[p].seen, op[p].adm))

\* _verify_live_operator_receipt of the receipt of a root, against a state.
Verifies(o, events) ==
  /\ receipt[o] # None /\ o \notin torn
  /\ receipt[o].state = events
  /\ receipt[o].adm # None =>
       /\ events # <<>> /\ events[Len(events)].exec = receipt[o].adm
       /\ receipt[o].adm \in Simulated => adapter[o] = receipt[o].adm
-----------------------------------------------------------------------------
Init ==
  /\ state = <<>> /\ lock = None
  /\ lane \in Lane
  /\ op = [p \in Op |-> Idle]
  /\ adapter = [o \in Root |-> None] /\ torn = {}
  /\ receipt = [o \in Root |-> None]
  /\ answered = {}

At(p, label) == op[p].pc = label
Goto(p, label) == op' = [op EXCEPT ![p].pc = label]

\* Mutant: the state is loaded without the file lock.
OpenUnlocked(p) ==
  /\ At(p, "idle") /\ ValidState(state)
  /\ lock' = p
  /\ \E r \in Request \cup {None}, o \in Root :
       op' = [op EXCEPT ![p] = [pc |-> "open", req |-> r, root |-> o,
                                seen |-> state, adm |-> None]]
  /\ UNCHANGED <<state, lane, outputs, answered>>

\* run_live_operator, with at most one request: locked_campaign_state waits for
\* the lock, before which a call has no effect, and raises if the state is invalid.
Open(p) ==
  /\ At(p, "idle") /\ lock = None /\ ValidState(state)
  /\ lock' = p
  /\ \E r \in Request \cup {None}, o \in Root :
       op' = [op EXCEPT ![p] = [pc |-> "open", req |-> r, root |-> o,
                                seen |-> state, adm |-> None]]
  /\ UNCHANGED <<state, lane, outputs, answered>>

\* The gate before a trusted adapter: something is left to run it on.
GateOpen(p) ==
  Balance(op[p].seen)["interventions"] > 0 /\ Balance(op[p].seen)["replays"] > 0

\* No result is opened.
Abstain(p) ==
  /\ At(p, "open")
  /\ \/ op[p].req = None
     \/ op[p].req \in lane \cap Simulated /\ ~GateOpen(p)
  /\ Goto(p, "decided")
  /\ UNCHANGED <<state, lock, lane, outputs, answered>>

\* Mutant: a request is run although the log has its result.
SimulateAgain(p) ==
  /\ At(p, "open") /\ op[p].req \in lane \cap Simulated
  /\ GateOpen(p) /\ Cardinality(Ids[op[p].req]) <= Balance(op[p].seen)["replays"]
  /\ adapter' = [adapter EXCEPT ![op[p].root] = None]
  /\ Goto(p, "running")
  /\ UNCHANGED <<state, lock, lane, torn, receipt, answered>>

\* execute_trusted_adapter_request: the replays run and their artifacts replace
\* those of the root one by one.  Of C2 a config has one request, so that its
\* execution id, which is known beforehand, is fresh if and only if its replays are.
Simulate(p) ==
  /\ At(p, "open") /\ op[p].req \in lane \cap Simulated
  /\ GateOpen(p) /\ Cardinality(Ids[op[p].req]) <= Balance(op[p].seen)["replays"]
  /\ Fresh(op[p].seen, op[p].req)
  /\ adapter' = [adapter EXCEPT ![op[p].root] = None]
  /\ Goto(p, "running")
  /\ UNCHANGED <<state, lock, lane, torn, receipt, answered>>

\* The adapter's receipt is written, its result admitted.
Issue(p) ==
  /\ At(p, "running")
  /\ adapter' = [adapter EXCEPT ![op[p].root] = op[p].req]
  /\ op' = [op EXCEPT ![p].pc = "decided", ![p].adm = op[p].req]
  /\ UNCHANGED <<state, lock, lane, torn, receipt, answered>>

\* verify_measurement_evaluator_receipt; trials and results are files of others.
Measure(p) ==
  /\ At(p, "open") /\ op[p].req \in lane \ Simulated
  /\ Cardinality(Ids[op[p].req]) <= Balance(op[p].seen)["trials"]
  /\ op' = [op EXCEPT ![p].pc = "decided", ![p].adm = op[p].req]
  /\ UNCHANGED <<state, lock, lane, outputs, answered>>

\* Mutant: the state is appended to before there is a receipt.
PublishLate(p) ==
  /\ At(p, "decided")
  /\ op[p].adm # None =>
       Fresh(op[p].seen, op[p].adm) /\ Solvent(Charged(Balance(op[p].seen), op[p].adm))
  /\ state' = Prepared(p)
  /\ torn' = torn \cup {op[p].root}
  /\ Goto(p, "writing")
  /\ UNCHANGED <<lock, lane, adapter, receipt, answered>>

\* prepare_admitted_result, then the first artifacts replace the root's.
Publish(p) ==
  /\ At(p, "decided")
  /\ op[p].adm # None =>
       Fresh(op[p].seen, op[p].adm) /\ Solvent(Charged(Balance(op[p].seen), op[p].adm))
  /\ torn' = torn \cup {op[p].root}
  /\ Goto(p, "writing")
  /\ UNCHANGED <<state, lock, lane, adapter, receipt, answered>>

\* The last artifact and, binding them all, the receipt.
Seal(p) ==
  /\ At(p, "writing")
  /\ torn' = torn \ {op[p].root}
  /\ receipt' = [receipt EXCEPT ![op[p].root] = [state |-> Prepared(p), adm |-> op[p].adm]]
  /\ Goto(p, "sealed")
  /\ UNCHANGED <<state, lock, lane, adapter, answered>>

\* The receipt is verified against the state to be; commit_prepared_state reads
\* the file once more and validates what it is about to write.
Check(p) ==
  /\ At(p, "sealed") /\ Verifies(op[p].root, Prepared(p))
  /\ \/ op[p].adm = None /\ Goto(p, "final")
     \/ /\ op[p].adm # None /\ state = op[p].seen /\ ValidState(Prepared(p))
        /\ Goto(p, "checked")
  /\ UNCHANGED <<state, lock, lane, outputs, answered>>

\* atomic_write_json replaces the file.
Commit(p) ==
  /\ At(p, "checked")
  /\ state' = Prepared(p)
  /\ Goto(p, "final")
  /\ UNCHANGED <<lock, lane, outputs, answered>>

\* The receipt is verified against the file; the lock is released by the return.
Answer(p) ==
  /\ At(p, "final") /\ Verifies(op[p].root, state)
  /\ lock' = None
  /\ answered' = answered \cup ({op[p].adm} \ {None})
  /\ op' = [op EXCEPT ![p] = Idle]
  /\ UNCHANGED <<state, lane, outputs>>

\* Something raises, or the process dies: its lock is released with its file,
\* and nothing that it wrote is taken back.
Stop(p) ==
  /\ ~At(p, "idle")
  /\ lock' = None
  /\ op' = [op EXCEPT ![p] = Idle]
  /\ UNCHANGED <<state, lane, outputs, answered>>

Step(p) ==
  \/ Open(p) \/ Abstain(p) \/ Simulate(p) \/ Issue(p) \/ Measure(p)
  \/ Publish(p) \/ Seal(p) \/ Check(p) \/ Commit(p) \/ Answer(p) \/ Stop(p)

Next == \E p \in Op : Step(p)

Spec == Init /\ [][Next]_vars
-----------------------------------------------------------------------------
Entry  == [exec : Request, after : [Field -> Nat]]
Events == Seq(Entry)

\* Types; the holder of the lock is the one operator between loading the state
\* and its answer.
CampaignTypeOK ==
  /\ state \in Events /\ lock \in Op \cup {None}
  /\ lane \in Lane
  /\ op \in [Op -> [pc : Held \cup {"idle"}, req : Request \cup {None},
                    root : Root \cup {None}, seen : Events, adm : Request \cup {None}]]
  /\ \A p \in Op : lock = p <=> op[p].pc \in Held
  /\ adapter \in [Root -> Request \cup {None}] /\ torn \subseteq Root
  /\ receipt \in [Root -> [state : Events, adm : Request \cup {None}] \cup {None}]
  /\ answered \subseteq Request

\* A result whose admission was answered stays in the campaign's log, whichever
\* operators raise or die, or work on the state of an earlier load.
AnswersAreKept == \A r \in answered : \E k \in DOMAIN state : state[k].exec = r

\* The inductive invariant.  The holder's state is the file's until it commits;
\* what it is about to append is fresh, paid for and, once checked, receipted.
Pass(p) ==
  /\ op[p].pc = "idle" => op[p] = Idle
  /\ op[p].pc # "idle" => op[p].root \in Root
  /\ op[p].pc \in Held \ {"final"} => op[p].seen = state
  /\ op[p].pc \in {"open", "running"} => op[p].adm = None
  /\ op[p].pc = "running" => op[p].req \in Simulated
  /\ op[p].adm # None => op[p].adm = op[p].req
  /\ op[p].pc \in {"writing", "sealed", "checked"} /\ op[p].adm # None =>
       Fresh(state, op[p].adm) /\ Solvent(Charged(Balance(state), op[p].adm))
  /\ op[p].pc = "checked" => op[p].adm # None /\ Verifies(op[p].root, Prepared(p))
  /\ op[p].pc = "final" /\ op[p].adm # None =>
       \E k \in DOMAIN state : state[k].exec = op[p].adm

CampaignInv ==
  /\ ValidState(state)
  /\ \A p \in Op : Pass(p)
  /\ AnswersAreKept

\* A result enters the log only when the receipt that explains it can already be
\* verified: an operator that dies right after leaves no unexplained charge.
HeadIsReceipted == [][state' # state => \E o \in Root : Verifies(o, state)']_vars

\* The requests whose simulation has started and may still be admitted.
Simulates(p) ==
  /\ op[p].req \in Simulated
  /\ \/ At(p, "running")
     \/ op[p].adm # None /\ ~At(p, "final")

Simulating == {r \in Simulated : \E p \in Op : Simulates(p) /\ op[p].req = r}

Ledger == INSTANCE CampaignLedger
            WITH log <- state, running <- Simulating, Price <- [r \in Request |-> Cost(r)]

\* Operators on one file, that may die at any step, are one ledger: results once,
\* in order and within the budget, one simulation at a time and none twice admitted.
KeepsCampaign == Ledger!LedgerSpec
=============================================================================
