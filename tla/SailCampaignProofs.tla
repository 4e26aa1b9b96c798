-------------------------- MODULE SailCampaignProofs --------------------------
(***************************************************************************)
(* Safety of a SAIL campaign, for any operators, output roots and requests *)
(* and any budget: what was answered stays, no charge without a receipt,   *)
(* and the whole protocol implements CampaignLedger.                       *)
(***************************************************************************)
EXTENDS SailCampaign, FiniteSetTheorems, TLAPS

USE CampaignAssumption DEF outputs, At, Goto

\* What a request costs, and that charges are whole numbers.
LEMMA CostTypes ==
  ASSUME NEW r \in Request
  PROVE  /\ Cost(r) \in [Field -> Nat]
         /\ \A b \in [Field -> Nat] : /\ Charged(b, r) \in [Field -> Int]
                                      /\ Solvent(Charged(b, r)) => Charged(b, r) \in [Field -> Nat]
<1>1. Cardinality(Ids[r]) \in Nat
  BY FS_CardinalityType
<1>2. Cost(r) \in [Field -> Nat]
  BY <1>1 DEF Cost, Field
<1>3. ASSUME NEW b \in [Field -> Nat]
      PROVE  /\ Charged(b, r) \in [Field -> Int]
             /\ Solvent(Charged(b, r)) => Charged(b, r) \in [Field -> Nat]
  BY <1>2, <1>3 DEF Charged, Solvent
<1>4. QED
  BY <1>2, <1>3

LEMMA BalanceType ==
  ASSUME NEW events \in Events
  PROVE  Balance(events) \in [Field -> Nat]
<1>1. CASE events = <<>>
  BY <1>1 DEF Balance, BalanceAt, Events
<1>2. CASE events # <<>>
  <2>1. Len(events) \in DOMAIN events /\ Len(events) # 0
    BY <1>2 DEF Events
  <2>2. events[Len(events)] \in Entry
    BY <2>1 DEF Events
  <2>3. QED
    BY <2>1, <2>2 DEF Balance, BalanceAt, Entry
<1>3. QED
  BY <1>1, <1>2

\* Appending the event of a fresh request that can be paid for.
LEMMA Appended ==
  ASSUME NEW events \in Events, ValidState(events), NEW r \in Request,
         Fresh(events, r), Solvent(Charged(Balance(events), r))
  PROVE  LET longer == Append(events, Event(events, r))
         IN  /\ longer \in Events /\ longer # <<>> /\ ValidState(longer)
             /\ longer[Len(longer)].exec = r
             /\ \A k \in DOMAIN events : k \in DOMAIN longer /\ longer[k] = events[k]
<1> DEFINE longer == Append(events, Event(events, r))
<1>1. Event(events, r) \in Entry
  BY BalanceType, CostTypes DEF Event, Entry
<1>2. longer \in Events
  BY <1>1 DEF Events
<1>3. /\ Len(longer) = Len(events) + 1 /\ DOMAIN longer = 1..(Len(events) + 1)
      /\ DOMAIN events = 1..Len(events) /\ Len(events) \in Nat
      /\ longer[Len(events) + 1] = Event(events, r)
      /\ \A k \in DOMAIN events : longer[k] = events[k]
  BY <1>1 DEF Events
<1>4. ASSUME NEW k \in DOMAIN longer
      PROVE  /\ longer[k].after = Charged(BalanceAt(longer, k - 1), longer[k].exec)
             /\ Solvent(longer[k].after)
             /\ \A j \in 1..(k - 1) : ~Replays(longer[j].exec, longer[k].exec)
  <2>1. BalanceAt(longer, k - 1) = BalanceAt(events, k - 1)
    BY <1>3 DEF BalanceAt
  <2>2. CASE k \in DOMAIN events
    BY <2>1, <2>2, <1>3 DEF ValidState
  <2>3. CASE k = Len(events) + 1
    BY <2>1, <2>3, <1>3 DEF Event, Balance, Fresh
  <2>4. QED
    BY <2>2, <2>3, <1>3
<1>5. QED
  BY <1>2, <1>3, <1>4 DEF ValidState, Event

\* While an operator holds the lock all others are idle; without a holder all are.
LEMMA Holder ==
  ASSUME CampaignTypeOK, CampaignInv, NEW p \in Op, op[p].pc \in Held
  PROVE  lock = p /\ \A q \in Op \ {p} : op[q] = Idle
  BY DEF CampaignTypeOK, CampaignInv, Pass

LEMMA PreparedType ==
  ASSUME CampaignTypeOK, CampaignInv, NEW p \in Op, op[p].seen = state,
         op[p].adm # None => /\ Fresh(state, op[p].adm)
                             /\ Solvent(Charged(Balance(state), op[p].adm))
  PROVE  /\ Prepared(p) \in Events /\ ValidState(Prepared(p))
         /\ op[p].adm = None => Prepared(p) = state
         /\ op[p].adm # None =>
              /\ Prepared(p) # <<>>
              /\ Prepared(p)[Len(Prepared(p))].exec = op[p].adm
              /\ Len(Prepared(p)) \in DOMAIN Prepared(p)
         /\ \A k \in DOMAIN state : k \in DOMAIN Prepared(p) /\ Prepared(p)[k] = state[k]
<1>1. op[p].adm \in Request \cup {None} /\ state \in Events /\ ValidState(state)
  BY DEF CampaignTypeOK, CampaignInv
<1>2. CASE op[p].adm = None
  BY <1>1, <1>2 DEF Prepared
<1>3. CASE op[p].adm # None
  <2>1. op[p].adm \in Request /\ Prepared(p) = Append(state, Event(state, op[p].adm))
    BY <1>1, <1>3 DEF Prepared
  <2>2. /\ Prepared(p) \in Events /\ Prepared(p) # <<>> /\ ValidState(Prepared(p))
        /\ Prepared(p)[Len(Prepared(p))].exec = op[p].adm
        /\ \A k \in DOMAIN state : k \in DOMAIN Prepared(p) /\ Prepared(p)[k] = state[k]
    BY <1>1, <1>3, <2>1, Appended
  <2>3. Len(Prepared(p)) \in DOMAIN Prepared(p)
    BY <2>2 DEF Events
  <2>4. QED
    BY <1>3, <2>2, <2>3
<1>4. QED
  BY <1>2, <1>3

\* Every step keeps the types.
LEMMA CampaignTypesStep ==
  ASSUME CampaignTypeOK, CampaignInv, [Next]_vars
  PROVE  CampaignTypeOK'
<1> USE DEF CampaignTypeOK, Held
<1>1. ASSUME NEW p \in Op, Open(p) PROVE CampaignTypeOK'
  <2>1. PICK r \in Request \cup {None}, o \in Root :
          op' = [op EXCEPT ![p] = [pc |-> "open", req |-> r, root |-> o,
                                   seen |-> state, adm |-> None]]
    BY <1>1 DEF Open
  <2>2. QED
    BY <1>1, <2>1 DEF Open
<1>2. ASSUME NEW p \in Op, Abstain(p) \/ Simulate(p) PROVE CampaignTypeOK'
  BY <1>2, Holder DEF Abstain, Simulate, CampaignInv, Pass
<1>3. ASSUME NEW p \in Op, Issue(p) \/ Measure(p) PROVE CampaignTypeOK'
  BY <1>3, Holder DEF Issue, Measure, CampaignInv, Pass
<1>4. ASSUME NEW p \in Op, Publish(p) PROVE CampaignTypeOK'
  BY <1>4 DEF Publish, CampaignInv, Pass
<1>5. ASSUME NEW p \in Op, Seal(p) PROVE CampaignTypeOK'
  <2>1. Pass(p) /\ op[p].pc = "writing"
    BY <1>5 DEF Seal, CampaignInv
  <2>2. Prepared(p) \in Events
    BY <2>1, PreparedType DEF Pass
  <2>3. QED
    BY <1>5, <2>1, <2>2 DEF Seal, Pass
<1>6. ASSUME NEW p \in Op, Check(p) PROVE CampaignTypeOK'
  BY <1>6 DEF Check
<1>7. ASSUME NEW p \in Op, Commit(p) PROVE CampaignTypeOK'
  <2>1. Pass(p) /\ op[p].pc = "checked"
    BY <1>7 DEF Commit, CampaignInv
  <2>2. Prepared(p) \in Events
    BY <2>1, PreparedType DEF Pass
  <2>3. QED
    BY <1>7, <2>2 DEF Commit
<1>8. ASSUME NEW p \in Op, Answer(p) \/ Stop(p) PROVE CampaignTypeOK'
  <2>1. op[p].pc \in Held /\ op' = [op EXCEPT ![p] = Idle] /\ lock' = None
    BY <1>8 DEF Answer, Stop
  <2>2. Idle \in [pc : Held \cup {"idle"}, req : Request \cup {None},
                 root : Root \cup {None}, seen : Events, adm : Request \cup {None}]
    BY DEF Idle, Events
  <2>3. \A q \in Op : op'[q].pc = "idle"
    BY <2>1, Holder DEF Idle
  <2>4. answered' \subseteq Request
    BY <1>8 DEF Answer, Stop
  <2>5. QED
    BY <1>8, <2>1, <2>2, <2>3, <2>4 DEF Answer, Stop
<1>9. CASE UNCHANGED vars
  BY <1>9 DEF vars
<1>10. QED
  BY <1>1, <1>2, <1>3, <1>4, <1>5, <1>6, <1>7, <1>8, <1>9 DEF Next, Step

\* An idle operator has nothing to keep.
LEMMA IdlePasses ==
  ASSUME NEW q, op'[q] = Idle
  PROVE  Pass(q)'
  BY DEF Pass, Idle, Held

\* A step of the holder that leaves the file alone has to keep the holder's part.
LEMMA HolderSteps ==
  ASSUME CampaignTypeOK, CampaignInv, NEW p \in Op, op[p].pc \in Held,
         \A q \in Op \ {p} : op'[q] = op[q],
         UNCHANGED <<state, answered>>, Pass(p)'
  PROVE  CampaignInv'
<1>1. \A q \in Op \ {p} : Pass(q)'
  BY Holder, IdlePasses
<1>2. QED
  BY <1>1 DEF CampaignInv, AnswersAreKept

LEMMA CampaignStep ==
  ASSUME CampaignTypeOK, CampaignInv, [Next]_vars
  PROVE  CampaignInv'
<1> USE DEF CampaignTypeOK
<1>1. ASSUME NEW p \in Op, Open(p) PROVE CampaignInv'
  <2>1. PICK r \in Request \cup {None}, o \in Root :
          op' = [op EXCEPT ![p] = [pc |-> "open", req |-> r, root |-> o,
                                   seen |-> state, adm |-> None]]
    BY <1>1 DEF Open
  <2>2. UNCHANGED <<state, answered>>
    BY <1>1 DEF Open
  <2>3. Pass(p)'
    BY <2>1, <2>2 DEF Pass, Held
  <2>4. \A q \in Op \ {p} : op'[q] = Idle
    BY <1>1, <2>1 DEF Open, CampaignInv, Pass
  <2>5. QED
    BY <2>2, <2>3, <2>4, IdlePasses DEF CampaignInv, AnswersAreKept
<1>2. ASSUME NEW p \in Op, Abstain(p) \/ Simulate(p) \/ Issue(p) \/ Measure(p)
      PROVE  CampaignInv'
  <2>1. op[p].pc \in Held /\ UNCHANGED <<state, answered>>
    BY <1>2 DEF Abstain, Simulate, Issue, Measure, Held
  <2>2. \A q \in Op \ {p} : op'[q] = op[q]
    BY <1>2 DEF Abstain, Simulate, Issue, Measure
  <2>3. Pass(p)'
    BY <1>2 DEF Abstain, Simulate, Issue, Measure, CampaignInv, Pass, Held
  <2>4. QED
    BY <2>1, <2>2, <2>3, HolderSteps
<1>3. ASSUME NEW p \in Op, Publish(p) \/ Seal(p) PROVE CampaignInv'
  <2>1. op[p].pc \in Held /\ UNCHANGED <<state, answered>>
    BY <1>3 DEF Publish, Seal, Held
  <2>2. \A q \in Op \ {p} : op'[q] = op[q]
    BY <1>3 DEF Publish, Seal
  <2>3. Pass(p)'
    BY <1>3 DEF Publish, Seal, CampaignInv, Pass, Held
  <2>4. QED
    BY <2>1, <2>2, <2>3, HolderSteps
<1>4. ASSUME NEW p \in Op, Check(p) PROVE CampaignInv'
  <2>1. op[p].pc \in Held /\ UNCHANGED <<state, answered, outputs>>
    BY <1>4 DEF Check, Held
  <2>2. \A q \in Op \ {p} : op'[q] = op[q]
    BY <1>4 DEF Check
  <2>3. Prepared(p)' = Prepared(p)
    BY <1>4 DEF Check, Prepared
  <2>4. \A o : Verifies(o, Prepared(p))' = Verifies(o, Prepared(p))
    BY <2>1, <2>3 DEF Verifies
  <2>5. Pass(p)'
    BY <1>4, <2>1, <2>4 DEF Check, CampaignInv, Pass, Held
  <2>6. QED
    BY <2>1, <2>2, <2>5, HolderSteps
<1>5. ASSUME NEW p \in Op, Commit(p) PROVE CampaignInv'
  <2>1. Pass(p) /\ op[p].pc = "checked" /\ op[p].pc \in Held /\ op[p].adm # None
    BY <1>5 DEF Commit, CampaignInv, Pass, Held
  <2>2. /\ state' = Prepared(p) /\ answered' = answered
        /\ op' = [op EXCEPT ![p].pc = "final"]
    BY <1>5 DEF Commit
  <2>3. /\ ValidState(state') /\ Len(state') \in DOMAIN state'
        /\ state'[Len(state')].exec = op[p].adm
        /\ \A k \in DOMAIN state : k \in DOMAIN state' /\ state'[k] = state[k]
    BY <2>1, <2>2, PreparedType DEF Pass, Held
  <2>4. Pass(p)'
    BY <2>1, <2>2, <2>3 DEF Pass, Held
  <2>5. \A q \in Op \ {p} : Pass(q)'
    BY <2>1, <2>2, Holder, IdlePasses
  <2>6. AnswersAreKept'
    BY <2>2, <2>3 DEF CampaignInv, AnswersAreKept
  <2>7. QED
    BY <2>3, <2>4, <2>5, <2>6 DEF CampaignInv, ValidState
<1>6. ASSUME NEW p \in Op, Answer(p) \/ Stop(p) PROVE CampaignInv'
  <2>1. op[p].pc \in Held /\ op' = [op EXCEPT ![p] = Idle] /\ state' = state
    BY <1>6 DEF Answer, Stop, Held
  <2>2. \A q \in Op : op'[q] = Idle
    BY <2>1, Holder
  <2>3. AnswersAreKept'
    BY <1>6, <2>1 DEF Answer, Stop, CampaignInv, Pass, AnswersAreKept
  <2>4. QED
    BY <2>1, <2>2, <2>3, IdlePasses DEF CampaignInv, ValidState
<1>7. CASE UNCHANGED vars
  BY <1>7 DEF vars, CampaignInv, Pass, AnswersAreKept, Prepared, Verifies
<1>8. QED
  BY <1>1, <1>2, <1>3, <1>4, <1>5, <1>6, <1>7 DEF Next, Step

LEMMA CampaignStart == Init => CampaignTypeOK /\ CampaignInv
<1> SUFFICES ASSUME Init PROVE CampaignTypeOK /\ CampaignInv
  OBVIOUS
<1>1. \A p \in Op : op[p] = Idle
  BY DEF Init
<1>2. CampaignTypeOK
  BY <1>1 DEF Init, CampaignTypeOK, Idle, Held, Events
<1>3. CampaignInv
  BY <1>1 DEF Init, CampaignInv, Pass, Idle, Held, ValidState, AnswersAreKept
<1>4. QED
  BY <1>2, <1>3

LEMMA CampaignAlways == Spec => [](CampaignTypeOK /\ CampaignInv)
<1>1. CampaignTypeOK /\ CampaignInv /\ [Next]_vars => (CampaignTypeOK /\ CampaignInv)'
  BY CampaignTypesStep, CampaignStep
<1>2. QED
  BY CampaignStart, <1>1, PTL DEF Spec

\* The variables have their types, and one operator has the lock while it works.
THEOREM CampaignTypes == Spec => []CampaignTypeOK
  BY CampaignAlways, PTL

\* Answered results stay in the log, whatever raises, dies or runs beside.
THEOREM AnswersKept == Spec => []AnswersAreKept
<1>1. CampaignInv => AnswersAreKept
  BY DEF CampaignInv
<1>2. QED
  BY CampaignAlways, <1>1, PTL

\* No operator ever leaves a state file that the next one would refuse: balances
\* chain from the config's, never below zero, and no id occurs twice.
THEOREM StateStaysValid == Spec => []ValidState(state)
<1>1. CampaignInv => ValidState(state)
  BY DEF CampaignInv
<1>2. QED
  BY CampaignAlways, <1>1, PTL

\* Every result in the log took exactly one of the interventions the config
\* allows, so there are never more of them, and every answered result is there
\* once: no death, retry or second operator charges twice or not at all.
EachChargedOnce ==
  /\ Len(state) + Balance(state)["interventions"] = Budget["interventions"]
  /\ Len(state) <= Budget["interventions"]
  /\ \A r \in answered : \E k \in DOMAIN state :
       \A j \in DOMAIN state : state[j].exec = r <=> j = k

\* What is left of the interventions, as the log grows.
Paid == Len(state) + Balance(state)["interventions"] = Budget["interventions"]

\* Only a commit changes the log, and it charges one intervention.
LEMMA PaidStep ==
  ASSUME CampaignTypeOK, CampaignInv, Paid, [Next]_vars
  PROVE  Paid'
<1>1. ASSUME NEW p \in Op, Commit(p) PROVE Paid'
  <2>1. Pass(p) /\ op[p].pc = "checked" /\ op[p].pc \in Held /\ op[p].adm # None
    BY <1>1 DEF Commit, CampaignInv, Pass, Held
  <2>2. op[p].seen = state /\ op[p].adm \in Request /\ state \in Events
    BY <2>1 DEF Pass, Held, CampaignTypeOK
  <2>3. state' = Append(state, Event(state, op[p].adm))
    BY <1>1, <2>1, <2>2 DEF Commit, Prepared
  <2>4. Event(state, op[p].adm) \in Entry
    <3>1. Solvent(Charged(Balance(state), op[p].adm))
      BY <2>1 DEF Pass
    <3>2. QED
      BY <2>2, <3>1, BalanceType, CostTypes DEF Event, Entry
  <2>5. Len(state) \in Nat /\ Len(state') = Len(state) + 1
    BY <2>2, <2>3, <2>4 DEF Events
  <2>6. state'[Len(state')] = Event(state, op[p].adm)
    BY <2>2, <2>3, <2>4, <2>5 DEF Events
  <2>7. Balance(state') = Charged(Balance(state), op[p].adm)
    BY <2>5, <2>6 DEF Balance, BalanceAt, Event
  <2>8. Charged(Balance(state), op[p].adm)["interventions"]
          = Balance(state)["interventions"] - 1
    BY DEF Charged, Cost, Field
  <2>9. Balance(state)["interventions"] \in Nat /\ Budget["interventions"] \in Nat
    BY <2>2, BalanceType DEF Field
  <2>10. Len(state') + Balance(state')["interventions"] = Budget["interventions"]
    <3>1. Balance(state')["interventions"] = Balance(state)["interventions"] - 1
      BY <2>7, <2>8
    <3>2. Len(state) + Balance(state)["interventions"] = Budget["interventions"]
      BY DEF Paid
    <3> DEFINE before == Balance(state)["interventions"]
               after  == Balance(state')["interventions"]
               size   == Len(state)
               longer == Len(state')
               all    == Budget["interventions"]
    <3>3. /\ before \in Nat /\ all \in Nat /\ size \in Nat
          /\ longer = size + 1 /\ after = before - 1 /\ size + before = all
      BY <2>5, <2>9, <3>1, <3>2
    <3> HIDE DEF before, after, size, longer, all
    <3>4. longer + after = all
      BY <3>3
    <3>5. QED
      BY <3>4 DEF longer, after, all
  <2>11. QED
    BY <2>10 DEF Paid
<1>2. CASE UNCHANGED state
  BY <1>2 DEF Paid, Balance, BalanceAt
<1>3. QED
  BY <1>1, <1>2
     DEF Next, Step, Open, Abstain, Simulate, Issue, Measure, Publish, Seal, Check, Answer,
         Stop, vars

\* The log is the account of what was admitted, whoever worked on it.
THEOREM ChargedOnce == Spec => []EachChargedOnce
<1>1. Init => Paid
  BY DEF Init, Paid, Balance, BalanceAt, Field
<1>2. CampaignTypeOK /\ CampaignInv /\ Paid => EachChargedOnce
  <2> SUFFICES ASSUME CampaignTypeOK, CampaignInv, Paid PROVE EachChargedOnce
    OBVIOUS
  <2>1. state \in Events /\ ValidState(state) /\ AnswersAreKept
    BY DEF CampaignTypeOK, CampaignInv
  <2>2. Len(state) \in Nat /\ DOMAIN state = 1..Len(state)
    BY <2>1 DEF Events
  <2>3. Balance(state)["interventions"] \in Nat
    BY <2>1, BalanceType DEF Field
  <2>4. ASSUME NEW j \in DOMAIN state, NEW k \in DOMAIN state, state[j].exec = state[k].exec
        PROVE  j = k
    BY <2>1, <2>2, <2>4 DEF ValidState, Replays
  <2>5. \A r \in answered : \E k \in DOMAIN state :
          \A j \in DOMAIN state : state[j].exec = r <=> j = k
    BY <2>1, <2>4 DEF AnswersAreKept
  <2>6. QED
    BY <2>2, <2>3, <2>5 DEF EachChargedOnce, Paid
<1>3. CampaignTypeOK /\ CampaignInv /\ Paid /\ [Next]_vars => Paid'
  BY PaidStep
<1>4. QED
  BY CampaignAlways, <1>1, <1>2, <1>3, PTL DEF Spec

\* Only a commit changes the file, and what it writes has its receipt.
LEMMA ReceiptStep ==
  ASSUME CampaignTypeOK, CampaignInv, [Next]_vars
  PROVE  state' # state => \E o \in Root : Verifies(o, state)'
<1> SUFFICES ASSUME state' # state PROVE \E o \in Root : Verifies(o, state)'
  OBVIOUS
<1>1. PICK p \in Op : Commit(p)
  BY DEF Next, Step, Open, Abstain, Simulate, Issue, Measure, Publish, Seal, Check,
     Answer, Stop, vars
<1>2. PICK o \in Root : Verifies(o, Prepared(p))
  BY <1>1 DEF Commit, CampaignInv, Pass
<1>3. Verifies(o, state)'
  BY <1>1, <1>2 DEF Commit, Verifies
<1>4. QED
  BY <1>3

\* No result is charged before its receipt can be verified.
THEOREM ReceiptComesFirst == Spec => HeadIsReceipted
<1>1. CampaignTypeOK /\ CampaignInv /\ [Next]_vars
        => [state' # state => \E o \in Root : Verifies(o, state)']_vars
  BY ReceiptStep
<1>2. QED
  BY CampaignAlways, <1>1, PTL DEF Spec, HeadIsReceipted
-----------------------------------------------------------------------------
(* The refinement of CampaignLedger.                                        *)

\* If all others are idle, what is simulated is this operator's request, if any.
LEMMA OneSimulates ==
  ASSUME NEW p \in Op, \A q \in Op \ {p} : op[q] = Idle
  PROVE  Simulating = IF Simulates(p) THEN {op[p].req} ELSE {}
<1>1. \A q \in Op \ {p} : ~Simulates(q)
  BY DEF Simulates, Idle
<1>2. QED
  BY <1>1 DEF Simulating, Simulates

LEMMA OneSimulatesNext ==
  ASSUME NEW p \in Op, \A q \in Op \ {p} : op'[q] = Idle
  PROVE  Simulating' = IF Simulates(p)' THEN {op'[p].req} ELSE {}
<1>1. \A q \in Op \ {p} : ~Simulates(q)'
  BY DEF Simulates, Idle
<1>2. QED
  BY <1>1 DEF Simulating, Simulates

\* The two accounts of the budget agree.
LEMMA SameBudget ==
  ASSUME CampaignTypeOK, CampaignInv, NEW r \in Request
  PROVE  /\ Ledger!Left = Balance(state) /\ DOMAIN Ledger!Left = Field
         /\ Ledger!Left \in [Field -> Nat]
         /\ Ledger!Unspent(r) <=> Fresh(state, r)
         /\ Ledger!Affordable(r) <=> Solvent(Charged(Balance(state), r))
<1>1. state \in Events
  BY DEF CampaignTypeOK
<1>2. Ledger!Left = Balance(state) /\ Balance(state) \in [Field -> Nat]
  BY <1>1, BalanceType DEF Ledger!Left, Balance, BalanceAt, Events
<1>3. Ledger!Unspent(r) <=> Fresh(state, r)
  BY DEF Ledger!Unspent, Fresh, Replays
<1>4. Cost(r) \in [Field -> Nat]
  BY CostTypes
<1>5. Ledger!Affordable(r) <=> Solvent(Charged(Balance(state), r))
  BY <1>2, <1>4 DEF Ledger!Affordable, Solvent, Charged
<1>6. QED
  BY <1>2, <1>3, <1>5

\* A step of the holder, of which the others know nothing.
LEMMA HolderAlone ==
  ASSUME CampaignTypeOK, CampaignInv, NEW p \in Op, op[p].pc \in Held,
         \A q \in Op \ {p} : op'[q] = op[q]
  PROVE  /\ Simulating = IF Simulates(p) THEN {op[p].req} ELSE {}
         /\ Simulating' = IF Simulates(p)' THEN {op'[p].req} ELSE {}
  BY Holder, OneSimulates, OneSimulatesNext

LEMMA LedgerStep ==
  ASSUME CampaignTypeOK, CampaignInv, [Next]_vars
  PROVE  [Ledger!LedgerNext]_(Ledger!ledgerVars)
<1> USE DEF Ledger!LedgerNext, Ledger!ledgerVars
<1>1. ASSUME NEW p \in Op, Open(p) PROVE UNCHANGED <<state, Simulating>>
  <2>1. \A q \in Op : op[q] = Idle
    BY <1>1 DEF Open, CampaignTypeOK, CampaignInv, Pass
  <2>2. /\ op'[p].pc = "open" /\ op'[p].adm = None /\ state' = state
        /\ \A q \in Op \ {p} : op'[q] = Idle
    BY <1>1, <2>1 DEF Open, CampaignTypeOK
  <2>3. ~Simulates(p) /\ ~Simulates(p)'
    BY <2>1, <2>2 DEF Simulates, Idle
  <2>4. QED
    BY <2>1, <2>2, <2>3, OneSimulates, OneSimulatesNext
<1>2. ASSUME NEW p \in Op, Simulate(p) PROVE Ledger!Launch(op[p].req)
  <2>1. /\ op[p].pc = "open" /\ op[p].pc \in Held /\ op[p].seen = state
        /\ op[p].adm = None /\ op[p].req \in Simulated /\ op[p].req \in Request
    BY <1>2 DEF Simulate, CampaignInv, Pass, Held
  <2>2. op' = [op EXCEPT ![p].pc = "running"] /\ state' = state
    BY <1>2 DEF Simulate
  <2>3. ~Simulates(p) /\ Simulates(p)' /\ op'[p].req = op[p].req
    BY <2>1, <2>2 DEF Simulates, CampaignTypeOK
  <2>4. Simulating = {} /\ Simulating' = {op[p].req}
    BY <2>1, <2>2, <2>3, HolderAlone DEF CampaignTypeOK
  <2>5. Fresh(state, op[p].req)
    BY <1>2, <2>1 DEF Simulate
  <2>6. /\ Balance(state)["interventions"] > 0
        /\ Cardinality(Ids[op[p].req]) <= Balance(state)["replays"]
    BY <1>2, <2>1 DEF Simulate, GateOpen
  <2>7. Balance(state) \in [Field -> Nat] /\ Cardinality(Ids[op[p].req]) \in Nat
    BY <2>1, BalanceType, FS_CardinalityType DEF CampaignTypeOK
  <2>8. Solvent(Charged(Balance(state), op[p].req))
    BY <2>1, <2>6, <2>7 DEF Solvent, Charged, Cost, Field
  <2>9. QED
    BY <2>1, <2>2, <2>4, <2>5, <2>8, SameBudget DEF Ledger!Launch
<1>3. ASSUME NEW p \in Op,
             Abstain(p) \/ Issue(p) \/ Measure(p) \/ Publish(p) \/ Seal(p) \/ Check(p)
      PROVE  UNCHANGED <<state, Simulating>>
  <2>1. op[p].pc \in Held /\ op[p].pc # "final" /\ state' = state
    BY <1>3 DEF Abstain, Issue, Measure, Publish, Seal, Check, Held
  <2>2. \A q \in Op \ {p} : op'[q] = op[q]
    BY <1>3 DEF Abstain, Issue, Measure, Publish, Seal, Check, CampaignTypeOK
  <2>3. op'[p].req = op[p].req
    BY <1>3 DEF Abstain, Issue, Measure, Publish, Seal, Check, CampaignTypeOK
  <2>4. Simulates(p)' <=> Simulates(p)
    BY <1>3, <2>3 DEF Abstain, Issue, Measure, Publish, Seal, Check, Simulates,
       CampaignTypeOK, CampaignInv, Pass
  <2>5. /\ Simulating = IF Simulates(p) THEN {op[p].req} ELSE {}
        /\ Simulating' = IF Simulates(p)' THEN {op'[p].req} ELSE {}
    BY <2>1, <2>2, HolderAlone
  <2>6. QED
    BY <2>1, <2>3, <2>4, <2>5
<1>4. ASSUME NEW p \in Op, Commit(p) PROVE Ledger!Admit(op[p].adm)
  <2>1. /\ op[p].pc = "checked" /\ op[p].pc \in Held /\ op[p].seen = state
        /\ op[p].adm \in Request /\ op[p].adm = op[p].req /\ op[p].adm # None
        /\ Fresh(state, op[p].adm) /\ Solvent(Charged(Balance(state), op[p].adm))
    BY <1>4 DEF Commit, CampaignTypeOK, CampaignInv, Pass, Held
  <2>2. op' = [op EXCEPT ![p].pc = "final"] /\ state' = Append(state, Event(state, op[p].adm))
    BY <1>4, <2>1 DEF Commit, Prepared
  <2>3. /\ op[p].adm \in Simulated => Simulates(p)
        /\ ~Simulates(p)'
    BY <2>1, <2>2 DEF Simulates, CampaignTypeOK
  <2>4. (op[p].adm \in Simulated => op[p].adm \in Simulating) /\ Simulating' = {}
    BY <2>1, <2>2, <2>3, HolderAlone DEF CampaignTypeOK
  <2>5. Event(state, op[p].adm)
          = [exec |-> op[p].adm,
             after |-> [field \in DOMAIN Ledger!Left |->
                          Ledger!Left[field] - Cost(op[p].adm)[field]]]
    BY <2>1, SameBudget DEF Event, Charged
  <2>6. QED
    BY <2>1, <2>2, <2>4, <2>5, SameBudget DEF Ledger!Admit
<1>5. ASSUME NEW p \in Op, Answer(p) \/ Stop(p)
      PROVE  Ledger!Lose \/ UNCHANGED <<state, Simulating>>
  <2>1. op[p].pc \in Held /\ op' = [op EXCEPT ![p] = Idle] /\ state' = state
    BY <1>5 DEF Answer, Stop, CampaignTypeOK, Held
  <2>2. ~Simulates(p)'
    BY <2>1 DEF Simulates, Idle, CampaignTypeOK
  <2>3. Simulating' = {}
    BY <2>1, <2>2, HolderAlone DEF CampaignTypeOK
  <2>4. QED
    BY <2>1, <2>3 DEF Ledger!Lose
<1>6. CASE UNCHANGED vars
  BY <1>6 DEF vars, Simulating, Simulates
<1>7. \A p \in Op : op[p].adm \in Request \cup {None} /\ op[p].req \in Request \cup {None}
  BY DEF CampaignTypeOK
<1>8. ASSUME NEW p \in Op, Simulate(p) PROVE Ledger!LedgerNext
  BY <1>2, <1>8 DEF Simulate
<1>9. ASSUME NEW p \in Op, Commit(p) PROVE Ledger!LedgerNext
  BY <1>4, <1>7, <1>9 DEF Commit, CampaignInv, Pass
<1>10. QED
  BY <1>1, <1>3, <1>5, <1>6, <1>8, <1>9 DEF Next, Step

\* The operators on one file are one ledger.
THEOREM LedgerIsKept == Spec => KeepsCampaign
<1>1. Init => Ledger!LedgerInit
  BY DEF Init, Ledger!LedgerInit, Simulating, Simulates, Idle
<1>2. CampaignTypeOK /\ CampaignInv /\ [Next]_vars => [Ledger!LedgerNext]_(Ledger!ledgerVars)
  BY LedgerStep
<1>3. QED
  BY CampaignAlways, <1>1, <1>2, PTL DEF Spec, KeepsCampaign, Ledger!LedgerSpec
=============================================================================
