---------------------------- MODULE TaskOrchestrator ----------------------------
(***************************************************************************)
(* The Studio's task orchestrator: its session, changed by operator        *)
(* requests and by one worker thread, the skill dispatcher the worker      *)
(* calls, and the demo loop whose thread moves the arm.                    *)
(*                                                                         *)
(* An action is a section under the orchestrator's lock, or a call the     *)
(* worker makes without it: the frame source, the model, a skill.  What    *)
(* the operator does in between is what the worker finds afterwards.  The  *)
(* states PAUSING, STOPPING and FAULTED are entered and left inside one    *)
(* section, so nobody sees them.                                           *)
(***************************************************************************)
EXTENDS Integers

CONSTANTS
  Mode,        \* the selectable modes
  MaxActions,  \* maximum_actions_per_session
  MaxWakes     \* bound: requests waiting in pending_reasons

ASSUME ModeAssumption ==
  Mode \subseteq {"observe_only", "simulation", "physical_shadow", "demo_physical"}
ASSUME LimitAssumption == MaxActions \in Nat \ {0} /\ MaxWakes \in Nat \ {0}

VARIABLES
  state,     \* self.state["state"]
  mode,      \* self.state["mode"]
  wakes,     \* requests in self.pending_reasons: start, resume, chat, refresh
  evidence,  \* a skill's result is the first of self.pending_reasons
  poll,      \* self.next_poll_monotonic is not None
  adapters,  \* the adapters of the session that are open
  faulted,   \* self.state["fault"] is not None
  pending,   \* self.pending_postcondition, by how the skill ended
  executed,  \* skill results in the session's ledger
  worker,    \* the worker thread
  skill,     \* the dispatcher's active skill, its stop event and its latch
  runs,      \* skill adapters that execute
  demo,      \* the demo controller: what it reports, and its thread
  asker      \* the handler of /api/orchestrator/demo

sessionVars == <<state, mode, wakes, evidence, poll, adapters, faulted, pending, executed>>
dispatchVars == <<skill, runs>>
vars == <<sessionVars, worker, dispatchVars, demo, asker>>

Active  == {"STARTING", "OBSERVING", "AWAITING_MODEL", "PROPOSED_ACTION",
            "EXECUTING_SKILL", "VERIFYING"}
Adapter == {"frame", "model"}
Outcome == {"none", "completed", "failed"}

\* STATE_TRANSITIONS between the states a worker's own transition enters.
Edges(s) ==
  CASE s = "STARTING"        -> {"OBSERVING"}
    [] s = "OBSERVING"       -> {"AWAITING_MODEL"}
    [] s = "AWAITING_MODEL"  -> {"PROPOSED_ACTION", "OBSERVING"}
    [] s = "PROPOSED_ACTION" -> {"EXECUTING_SKILL", "OBSERVING"}
    [] s = "EXECUTING_SKILL" -> {"VERIFYING"}
    [] s = "VERIFYING"       -> {"OBSERVING", "AWAITING_MODEL"}
    [] OTHER                 -> {}

\* _transition_locked accepts the state it is in.
CanGo(s) == s = state \/ s \in Edges(state)

Pc == {"idle", "taken", "fetching", "accepted", "viewed", "modelling", "decided",
       "proposed", "cleared", "executing", "returned", "faulting", "dead"}
View == {"open", "blocked", "complete"}
Plan == {"observe", "ask_user", "pause", "run_skill"}
Work == [pc: Pc, reason: {"none", "wake", "evidence", "poll"}, due: Outcome,
         of: {"none"} \cup View \cup Plan \cup Mode]
Rest == [pc |-> "idle", reason |-> "none", due |-> "none", of |-> "none"]

SessionOK ==
  /\ state \in Active \cup {"STOPPED", "PAUSED"}
  /\ mode \in Mode /\ adapters \subseteq Adapter /\ pending \in Outcome
FlagsOK  == evidence \in BOOLEAN /\ poll \in BOOLEAN /\ faulted \in BOOLEAN
CountsOK == wakes \in 0..MaxWakes /\ executed \in 0..MaxActions /\ runs \in Nat
SkillOK  == skill \in [active: BOOLEAN, stop: BOOLEAN, latched: BOOLEAN]
DemoOK   == /\ demo \in [status: {"idle", "running", "stopping", "ended"},
                         thread: {"off", "on", "done"}]
            /\ asker \in {"idle", "allowed"}

\* Types; a session executes at most its limit of skills.
TaskTypeOK == SessionOK /\ FlagsOK /\ CountsOK /\ worker \in Work /\ SkillOK /\ DemoOK

Init ==
  /\ state = "STOPPED" /\ mode \in Mode
  /\ wakes = 0 /\ evidence = FALSE /\ poll = FALSE
  /\ adapters = {} /\ faulted = FALSE
  /\ pending = "none" /\ executed = 0
  /\ worker = Rest
  /\ skill = [active |-> FALSE, stop |-> FALSE, latched |-> FALSE]
  /\ runs = 0
  /\ demo = [status |-> "idle", thread |-> "off"]
  /\ asker = "idle"

-----------------------------------------------------------------------------
(* Pausing, faulting and stopping, each a part of one section               *)

\* dispatcher.safe_stop: an adapter that fails to stop latches the dispatcher.
SafeStop ==
  IF skill.active
    THEN \E latch \in {skill.latched, TRUE} :
           skill' = [skill EXCEPT !.stop = TRUE, !.latched = latch]
    ELSE UNCHANGED skill

Quiesce == wakes' = 0 /\ evidence' = FALSE /\ poll' = FALSE

\* _pause_locked in an active state.
Hold ==
  /\ state' = "PAUSED"
  /\ Quiesce /\ SafeStop
  /\ UNCHANGED <<mode, adapters, faulted, executed, runs>>

\* _fault in an active state.
Fault ==
  /\ state' = "PAUSED"
  /\ Quiesce /\ SafeStop
  /\ faulted' = TRUE /\ adapters' = {}
  /\ UNCHANGED <<mode, executed, runs>>

\* stop in any state but STOPPED, but for the demo loop.
Close ==
  /\ state' = "STOPPED"
  /\ Quiesce /\ SafeStop
  /\ adapters' = {}
  /\ UNCHANGED <<mode, faulted, pending, executed, runs>>

\* request_stop: only while the thread is alive.
StopDemo ==
  IF demo.thread # "off" THEN demo' = [demo EXCEPT !.status = "stopping"]
                         ELSE UNCHANGED demo

DemoBusy == demo.status \in {"running", "stopping"}

\* stop reads the demo's status and then asks it to stop: the loop may have
\* ended in between.
StopBusyDemo == \/ DemoBusy /\ StopDemo
                \/ ~DemoBusy /\ UNCHANGED demo
                \/ demo.thread = "done" /\ StopDemo

-----------------------------------------------------------------------------
(* The operator                                                             *)

\* start: the demo mode waits for a command, the others begin to observe.
Start(m) ==
  /\ state = "STOPPED"
  /\ mode' = m
  /\ state' = IF m = "demo_physical" THEN "OBSERVING" ELSE "STARTING"
  /\ poll' = (m # "demo_physical")
  /\ wakes' = IF m = "demo_physical" THEN wakes ELSE wakes + 1
  /\ wakes' <= MaxWakes
  /\ adapters' = Adapter
  /\ faulted' = FALSE /\ pending' = "none" /\ executed' = 0
  /\ UNCHANGED <<evidence, worker, dispatchVars, demo, asker>>

\* A setting is refused, an adapter's constructor raises or the session cannot
\* be written: what was opened by then stays open.
StartFault(m) ==
  /\ state = "STOPPED"
  /\ mode' = m
  /\ adapters' \in {adapters, adapters \cup {"frame"}, Adapter}
  /\ faulted' = FALSE /\ pending' = "none" /\ executed' = 0
  /\ UNCHANGED <<state, wakes, evidence, poll, worker, dispatchVars, demo, asker>>

Pause ==
  /\ state \in Active
  /\ Hold
  /\ UNCHANGED <<pending, worker, demo, asker>>

\* Mutant: the adapters a fault closed stay closed.
ResumeAsIs ==
  /\ state = "PAUSED" /\ wakes < MaxWakes
  /\ state' = "STARTING"
  /\ faulted' = FALSE
  /\ poll' = TRUE
  /\ wakes' = wakes + 1
  /\ UNCHANGED <<mode, evidence, adapters, pending, executed, worker, dispatchVars, demo,
                 asker>>

\* resume opens the adapters a fault closed.
Resume ==
  /\ state = "PAUSED" /\ wakes < MaxWakes
  /\ state' = "STARTING"
  /\ adapters' = Adapter
  /\ faulted' = FALSE
  /\ poll' = TRUE
  /\ wakes' = wakes + 1
  /\ UNCHANGED <<mode, evidence, pending, executed, worker, dispatchVars, demo, asker>>

Stop ==
  /\ StopBusyDemo
  /\ IF state = "STOPPED" THEN UNCHANGED <<sessionVars, dispatchVars>> ELSE Close
  /\ UNCHANGED <<worker, asker>>

\* chat and refresh.
Wake ==
  /\ state \in Active /\ wakes < MaxWakes
  /\ wakes' = wakes + 1
  /\ UNCHANGED <<state, mode, evidence, poll, adapters, faulted, pending, executed, worker,
                 dispatchVars, demo, asker>>

\* chat with the exact demo command, in whatever mode: pending work is dropped.
DemoChat ==
  /\ state \in Active /\ demo.thread = "off"
  /\ demo' = [status |-> "running", thread |-> "on"]
  /\ Quiesce
  /\ UNCHANGED <<state, mode, adapters, faulted, pending, executed, worker, dispatchVars,
                 asker>>

-----------------------------------------------------------------------------
(* The demo endpoint and the demo loop's thread                             *)

\* The handler looks at a snapshot of the session ...
DemoAsk ==
  /\ asker = "idle" /\ state \in Active
  /\ asker' = "allowed"
  /\ UNCHANGED <<sessionVars, worker, dispatchVars, demo>>

\* ... and then starts the loop, or is refused because one is running.
DemoGo ==
  /\ asker = "allowed"
  /\ asker' = "idle"
  /\ IF demo.thread = "off" THEN demo' = [status |-> "running", thread |-> "on"]
                            ELSE UNCHANGED demo
  /\ UNCHANGED <<sessionVars, worker, dispatchVars>>

DemoHalt ==
  /\ asker = "allowed"
  /\ asker' = "idle"
  /\ StopDemo
  /\ UNCHANGED <<sessionVars, worker, dispatchVars>>

\* The loop's thread writes its final status and then ends.
DemoEnds ==
  /\ demo.thread = "on"
  /\ demo' = [status |-> "ended", thread |-> "done"]
  /\ UNCHANGED <<sessionVars, worker, dispatchVars, asker>>

DemoExits ==
  /\ demo.thread = "done"
  /\ demo' = [demo EXCEPT !.thread = "off"]
  /\ UNCHANGED <<sessionVars, worker, dispatchVars, asker>>

DemoThread == DemoEnds \/ DemoExits

-----------------------------------------------------------------------------
(* The worker                                                               *)

Goto(pc) == worker' = [worker EXCEPT !.pc = pc]
\* The worker's call returns to the loop; an uncaught error ends the thread.
Returns == worker' = Rest
Dies    == worker' = [Rest EXCEPT !.pc = "dead"]

\* The worker's own transition to s, and an error when the table has no edge.
Move(s, pc) ==
  /\ CanGo(s)
  /\ state' = s
  /\ Goto(pc)
MoveHome(s) ==
  /\ CanGo(s)
  /\ state' = s
  /\ Returns
Refuse(s) ==
  /\ ~CanGo(s)
  /\ Dies
  /\ UNCHANGED <<sessionVars, dispatchVars>>

\* _pause_locked, called by the worker.
PauseHere ==
  \/ state \in Active /\ Hold /\ Returns /\ UNCHANGED pending
  \/ state = "PAUSED" /\ Returns /\ UNCHANGED <<sessionVars, dispatchVars>>
  \/ state = "STOPPED" /\ Dies /\ UNCHANGED <<sessionVars, dispatchVars>>

\* _check_inactivity, before each turn of the loop.
Inactivity ==
  /\ worker.pc = "idle" /\ state \in Active /\ ~DemoBusy
  /\ Hold
  /\ UNCHANGED <<pending, worker, demo, asker>>

Awake == worker.pc = "idle" /\ state \in Active /\ ~DemoBusy

\* Mutant: a request is taken only when no poll is due.
TakeWakeLast ==
  /\ Awake /\ ~evidence /\ wakes > 0 /\ ~poll
  /\ worker' = [Rest EXCEPT !.pc = "taken", !.reason = "wake"]
  /\ wakes' = wakes - 1
  /\ UNCHANGED <<state, mode, evidence, poll, adapters, faulted, pending, executed,
                 dispatchVars, demo, asker>>

TakeWake ==
  /\ Awake /\ ~evidence /\ wakes > 0
  /\ worker' = [Rest EXCEPT !.pc = "taken", !.reason = "wake"]
  /\ wakes' = wakes - 1
  /\ UNCHANGED <<state, mode, evidence, poll, adapters, faulted, pending, executed,
                 dispatchVars, demo, asker>>

TakeEvidence ==
  /\ Awake /\ evidence
  /\ worker' = [Rest EXCEPT !.pc = "taken", !.reason = "evidence"]
  /\ evidence' = FALSE
  /\ UNCHANGED <<state, mode, wakes, poll, adapters, faulted, pending, executed,
                 dispatchVars, demo, asker>>

TakePoll ==
  /\ Awake /\ ~evidence /\ wakes = 0 /\ poll
  /\ worker' = [Rest EXCEPT !.pc = "taken", !.reason = "poll"]
  /\ UNCHANGED <<sessionVars, dispatchVars, demo, asker>>

\* Mutant: a paused session goes on polling.
BeginObservationAlways ==
  /\ worker.pc = "taken"
  /\ poll' = TRUE
  /\ state' = IF state = "STARTING" THEN "OBSERVING" ELSE state
  /\ IF state \in Active /\ "frame" \in adapters THEN Goto("fetching") ELSE Returns
  /\ UNCHANGED <<mode, wakes, evidence, adapters, faulted, pending, executed, dispatchVars,
                 demo, asker>>

\* _process_observation up to the fetch, whose adapter it takes along.
BeginObservation ==
  /\ worker.pc = "taken"
  /\ \/ /\ state \notin Active
        /\ Returns
        /\ UNCHANGED <<state, poll>>
     \/ /\ state \in Active
        /\ state' = IF state = "STARTING" THEN "OBSERVING" ELSE state
        /\ poll' = TRUE
        /\ Goto(IF "frame" \in adapters THEN "fetching" ELSE "faulting")
  /\ UNCHANGED <<mode, wakes, evidence, adapters, faulted, pending, executed, dispatchVars,
                 demo, asker>>

\* The fetch fails, or the frame cannot be classified.
FetchFails ==
  /\ worker.pc = "fetching"
  /\ \/ state = "STOPPED" /\ Returns
     \/ Goto("faulting")
  /\ UNCHANGED <<sessionVars, dispatchVars, demo, asker>>

\* A frame that looks like the last one is dropped, unless it was asked for;
\* an error of the transition is caught and becomes a fault.
FetchSuppressed ==
  /\ worker.pc = "fetching" /\ worker.reason = "poll" /\ state # "STOPPED"
  /\ \/ MoveHome("OBSERVING")
     \/ ~CanGo("OBSERVING") /\ Goto("faulting") /\ UNCHANGED state
  /\ UNCHANGED <<mode, wakes, evidence, poll, adapters, faulted, pending, executed,
                 dispatchVars, demo, asker>>

\* A frame is accepted and classified; the pending postcondition is read.
FetchAccepted ==
  /\ worker.pc = "fetching"
  /\ \/ state = "STOPPED" /\ Returns
     \/ /\ state # "STOPPED"
        /\ \E view \in View :
             worker' = [worker EXCEPT !.due = pending, !.of = view,
                          !.pc = IF pending # "none" /\ worker.reason = "evidence"
                                   THEN "accepted" ELSE "viewed"]
  /\ UNCHANGED <<sessionVars, dispatchVars, demo, asker>>

\* _fault, called without the lock: nothing unless the session is active.
FaultHere ==
  /\ worker.pc = "faulting"
  /\ Returns
  /\ IF state \in Active THEN Fault ELSE UNCHANGED <<state, mode, wakes, evidence, poll,
                                                     adapters, faulted, executed, dispatchVars>>
  /\ UNCHANGED <<pending, demo, asker>>

\* Mutant: the state is not changed by a verification.
VerifyInPlace ==
  /\ worker.pc = "accepted"
  /\ pending' = "none"
  /\ Goto("viewed")
  /\ UNCHANGED <<state, mode, wakes, evidence, poll, adapters, faulted, executed,
                 dispatchVars, demo, asker>>

\* The result is verified against the frame; a failed skill or a missed
\* postcondition faults within the same section.
Verify ==
  /\ worker.pc = "accepted"
  /\ pending' = "none"
  /\ \/ /\ worker.due = "completed"
        /\ state' = IF state = "EXECUTING_SKILL" THEN "VERIFYING" ELSE state
        /\ Goto("viewed")
        /\ UNCHANGED <<mode, wakes, evidence, poll, adapters, faulted, executed, dispatchVars>>
     \/ /\ Returns
        /\ IF state \in Active THEN Fault ELSE UNCHANGED <<state, mode, wakes, evidence, poll,
                                                           adapters, faulted, executed,
                                                           dispatchVars>>
  /\ UNCHANGED <<demo, asker>>

\* The checker, and it alone, completes the task: the worker stops the session.
\* The section before, which notes the outcome of the task, writes nothing that
\* is kept here: a command that comes between the two finds what it would have
\* found before them.
Complete ==
  /\ worker.pc = "viewed" /\ worker.of = "complete"
  /\ Returns
  /\ StopBusyDemo
  /\ IF state = "STOPPED" THEN UNCHANGED <<sessionVars, dispatchVars>> ELSE Close
  /\ UNCHANGED asker

Blocked ==
  /\ worker.pc = "viewed" /\ worker.of = "blocked"
  /\ PauseHere
  /\ UNCHANGED <<demo, asker>>

\* _run_model_turn up to the call of the model.
AskModel ==
  /\ worker.pc = "viewed" /\ worker.of = "open"
  /\ \/ state \notin Active /\ Returns /\ UNCHANGED <<sessionVars, dispatchVars>>
     \/ /\ state \in Active
        /\ Move("AWAITING_MODEL", IF "model" \in adapters THEN "modelling" ELSE "faulting")
        /\ UNCHANGED <<mode, wakes, evidence, poll, adapters, faulted, pending, executed,
                       dispatchVars>>
     \/ state \in Active /\ Refuse("AWAITING_MODEL")
  /\ UNCHANGED <<demo, asker>>

\* The model's error, or an answer that is rejected as a policy violation.
ModelFails ==
  /\ worker.pc = "modelling"
  /\ \/ state = "STOPPED" /\ Returns
     \/ state # "STOPPED" /\ Goto("faulting")
  /\ UNCHANGED <<sessionVars, dispatchVars, demo, asker>>

\* Mutant: an answer is used although the session went on meanwhile.
ModelAnswersLate ==
  /\ worker.pc = "modelling"
  /\ \/ state = "STOPPED" /\ Returns
     \/ state # "STOPPED" /\ \E plan \in Plan :
          worker' = [worker EXCEPT !.pc = "decided", !.of = plan]
  /\ UNCHANGED <<sessionVars, dispatchVars, demo, asker>>

\* An answer is discarded unless the session still awaits one.
ModelAnswers ==
  /\ worker.pc = "modelling"
  /\ \/ state # "AWAITING_MODEL" /\ Returns
     \/ state = "AWAITING_MODEL" /\ \E plan \in Plan :
          worker' = [worker EXCEPT !.pc = "decided", !.of = plan]
  /\ UNCHANGED <<sessionVars, dispatchVars, demo, asker>>

\* _handle_decision: the lock was released in between.
Observe ==
  /\ worker.pc = "decided" /\ worker.of = "observe"
  /\ \/ MoveHome("OBSERVING") /\ UNCHANGED <<mode, wakes, evidence, poll, adapters, faulted,
                                             pending, executed, dispatchVars>>
     \/ Refuse("OBSERVING")
  /\ UNCHANGED <<demo, asker>>

AskUser ==
  /\ worker.pc = "decided" /\ worker.of = "ask_user"
  /\ \/ /\ CanGo("PROPOSED_ACTION") /\ mode = "observe_only"
        /\ state' = "OBSERVING"
        /\ Returns
        /\ UNCHANGED <<mode, wakes, evidence, poll, adapters, faulted, pending, executed,
                       dispatchVars>>
     \/ /\ CanGo("PROPOSED_ACTION") /\ mode # "observe_only"
        /\ Hold
        /\ Returns
        /\ UNCHANGED pending
     \/ Refuse("PROPOSED_ACTION")
  /\ UNCHANGED <<demo, asker>>

PauseAsked ==
  /\ worker.pc = "decided" /\ worker.of = "pause"
  /\ PauseHere
  /\ UNCHANGED <<demo, asker>>

\* The proposal, and the mode it was made in.
Propose ==
  /\ worker.pc = "decided" /\ worker.of = "run_skill"
  /\ \/ /\ CanGo("PROPOSED_ACTION")
        /\ state' = "PROPOSED_ACTION"
        /\ worker' = [worker EXCEPT !.pc = "proposed", !.of = mode]
        /\ UNCHANGED <<mode, wakes, evidence, poll, adapters, faulted, pending, executed,
                       dispatchVars>>
     \/ Refuse("PROPOSED_ACTION")
  /\ UNCHANGED <<demo, asker>>

DryRun ==
  /\ worker.pc = "proposed" /\ worker.of = "observe_only"
  /\ \/ MoveHome("OBSERVING") /\ UNCHANGED <<mode, wakes, evidence, poll, adapters, faulted,
                                             pending, executed, dispatchVars>>
     \/ Refuse("OBSERVING")
  /\ UNCHANGED <<demo, asker>>

\* A shadow proposal, or a skill that is not promoted, pauses the session.
Withhold ==
  /\ worker.pc = "proposed" /\ worker.of \in {"physical_shadow", "simulation"}
  /\ PauseHere
  /\ UNCHANGED <<demo, asker>>

\* The demo mode has no authority to run a skill.
Deny ==
  /\ worker.pc = "proposed" /\ worker.of = "demo_physical"
  /\ Goto("faulting")
  /\ UNCHANGED <<sessionVars, dispatchVars, demo, asker>>

\* Mutant: one skill more than the limit.
ClearSkillOffByOne ==
  /\ worker.pc = "proposed" /\ worker.of = "simulation"
  /\ executed <= MaxActions
  /\ Move("EXECUTING_SKILL", "cleared")
  /\ UNCHANGED <<mode, wakes, evidence, poll, adapters, faulted, pending, executed,
                 dispatchVars, demo, asker>>

\* The limit is checked against the results in the ledger's tail, which is
\* taken to hold all of the session's.
ClearSkill ==
  /\ worker.pc = "proposed" /\ worker.of = "simulation"
  /\ \/ /\ executed >= MaxActions
        /\ Returns
        /\ IF state \in Active THEN Fault ELSE UNCHANGED <<state, mode, wakes, evidence, poll,
                                                           adapters, faulted, executed,
                                                           dispatchVars>>
        /\ UNCHANGED pending
     \/ /\ executed < MaxActions
        /\ Move("EXECUTING_SKILL", "cleared")
        /\ UNCHANGED <<mode, wakes, evidence, poll, adapters, faulted, pending, executed,
                       dispatchVars>>
     \/ executed < MaxActions /\ Refuse("EXECUTING_SKILL")
  /\ UNCHANGED <<demo, asker>>

-----------------------------------------------------------------------------
(* The dispatcher                                                           *)

\* Mutant: the latch is not looked at.
DispatchUnlatched ==
  /\ worker.pc = "cleared"
  /\ Goto("executing")
  /\ skill' = [skill EXCEPT !.active = TRUE, !.stop = FALSE]
  /\ runs' = runs + 1
  /\ UNCHANGED <<sessionVars, demo, asker>>

\* dispatch, up to the call of the adapter: a precondition may fail, and a
\* latched dispatcher starts nothing.
Dispatch ==
  /\ worker.pc = "cleared"
  /\ \/ Goto("faulting") /\ UNCHANGED dispatchVars
     \/ /\ ~skill.latched /\ ~skill.active
        /\ Goto("executing")
        /\ skill' = [skill EXCEPT !.active = TRUE, !.stop = FALSE]
        /\ runs' = runs + 1
  /\ UNCHANGED <<sessionVars, demo, asker>>

\* The adapter ends by itself, with an error or because it was stopped.
SkillEnds ==
  /\ worker.pc = "executing"
  /\ \E outcome \in {"completed", "failed"} :
       worker' = [worker EXCEPT !.pc = "returned", !.due = outcome]
  /\ skill' = [skill EXCEPT !.active = FALSE, !.stop = FALSE]
  /\ runs' = runs - 1
  /\ UNCHANGED <<sessionVars, demo, asker>>

\* The dispatcher gives up: the adapter stops within the grace period, or
\* goes on behind a latched dispatcher.
SkillTimesOut ==
  /\ worker.pc = "executing"
  /\ worker' = [worker EXCEPT !.pc = "returned", !.due = "failed"]
  /\ \E ended, latch \in BOOLEAN :
       /\ runs' = IF ended THEN runs - 1 ELSE runs
       /\ skill' = [active |-> FALSE, stop |-> FALSE,
                    latched |-> skill.latched \/ latch \/ ~ended]
  /\ UNCHANGED <<sessionVars, demo, asker>>

\* An adapter nobody waits for any more ends.
StrayEnds ==
  /\ runs > 0 /\ worker.pc # "executing"
  /\ runs' = runs - 1
  /\ UNCHANGED <<sessionVars, worker, skill, demo, asker>>

\* Mutant: the result is recorded, and no evidence asked for.
TakeResultForgotten ==
  /\ worker.pc = "returned"
  /\ Returns
  /\ IF state = "STOPPED" THEN UNCHANGED <<pending, executed>>
       ELSE /\ pending' = worker.due
            /\ executed' = executed + 1
  /\ UNCHANGED <<state, mode, wakes, evidence, poll, adapters, faulted, dispatchVars, demo,
                 asker>>

\* The result is recorded and its evidence asked for, unless the session is
\* stopped by then.
TakeResult ==
  /\ worker.pc = "returned"
  /\ Returns
  /\ IF state = "STOPPED" THEN UNCHANGED <<evidence, pending, executed>>
       ELSE /\ evidence' = TRUE
            /\ pending' = worker.due
            /\ executed' = executed + 1
  /\ UNCHANGED <<state, mode, wakes, poll, adapters, faulted, dispatchVars, demo, asker>>

-----------------------------------------------------------------------------
(* The system                                                               *)

Look    == FetchFails \/ FetchSuppressed \/ FetchAccepted
Conclude == FaultHere \/ Verify \/ Complete \/ Blocked
Decide  == Observe \/ AskUser \/ PauseAsked \/ Propose
Propound == DryRun \/ Withhold \/ Deny \/ ClearSkill
RunSkill == Dispatch \/ SkillEnds \/ SkillTimesOut \/ TakeResult

\* The worker's thread, but for an inactivity timer that expires.
Worker ==
  \/ TakeWake \/ TakeEvidence \/ TakePoll \/ BeginObservation
  \/ Look \/ Conclude
  \/ AskModel \/ ModelFails \/ ModelAnswers
  \/ Decide \/ Propound \/ RunSkill

Operator ==
  \/ \E m \in Mode : Start(m) \/ StartFault(m)
  \/ Pause \/ Resume \/ Stop \/ Wake \/ DemoChat
  \/ DemoAsk

DemoHandler == DemoGo \/ DemoHalt

Next == Operator \/ DemoHandler \/ Worker \/ Inactivity \/ StrayEnds \/ DemoThread

Spec == Init /\ [][Next]_vars

\* An operator who resumes and starts once the worker has come to rest, whose
\* pauses and stops miss the gaps between sections in which they would kill the
\* worker, and who leaves the demo alone while a skill's result is unverified.
\* Commands may come during every call the worker makes, and in the gaps after
\* a frame was accepted (a pause) and after a skill was cleared (both).
PauseGap == {"decided", "proposed"}
StopGap  == PauseGap \cup {"accepted", "viewed"}

CalmOperator ==
  \/ worker.pc = "idle" /\ \E m \in Mode : Start(m) \/ StartFault(m)
  \/ worker.pc = "idle" /\ Resume
  \/ worker.pc \notin PauseGap /\ Pause
  \/ worker.pc \notin StopGap /\ Stop
  \/ pending = "none" /\ DemoChat
  \/ DemoAsk
  \/ Wake

CalmNext == CalmOperator \/ DemoHandler \/ Worker \/ Inactivity \/ StrayEnds \/ DemoThread

CalmSpec == Init /\ [][CalmNext]_vars

\* The frame source, the model and the dispatcher all answer within a time
\* limit, a handler runs to its end, and the demo's script is finite.
CalmFairSpec == /\ CalmSpec
                /\ WF_vars(Worker) /\ WF_vars(DemoHandler) /\ WF_vars(DemoThread)

-----------------------------------------------------------------------------
(* Properties                                                               *)

\* The one worker thread never dies of an invalid transition.  It has no
\* handler for TaskOrchestratorError (task_orchestrator.py:1303): after one,
\* the session is shown as active and nothing it is asked for happens.
WorkerSurvives == worker.pc # "dead"

\* Never do two skill adapters execute: one that outlived its time limit or
\* could not be stopped keeps the dispatcher from starting another
\* (orchestrator_skills.py:316 and 345).
OneAdapterRuns == runs <= 1

\* A stopped or paused session has nothing scheduled, but for the evidence of
\* a skill that ended after the pause (task_orchestrator.py:1101 and 1188).
DownIsQuiet ==
  /\ state \in {"STOPPED", "PAUSED"} => wakes = 0 /\ ~poll
  /\ state = "STOPPED" => ~evidence

\* The adapters of an active session are open, whatever faults, pauses, stops
\* and failed starts came before, and those of a faulted one are closed
\* (task_orchestrator.py:1106 and 1134).
AdaptersFollowSession ==
  /\ state \in Active => adapters = Adapter
  /\ state = "PAUSED" /\ faulted => adapters = {}

\* Once its skill is over, a session in EXECUTING_SKILL has its evidence queued
\* or being fetched: it is not left there, where no other observation can lead
\* on, with a result nobody looks at (task_orchestrator.py:1926).
EvidenceIsComing ==
  state = "EXECUTING_SKILL" =>
    /\ worker.pc = "idle" => evidence /\ pending # "none"
    /\ worker.pc \in {"taken", "fetching"} => worker.reason = "evidence"

\* The result of a skill is verified before another skill is cleared, also
\* when it ended after a pause (task_orchestrator.py:1466: "A user Pause may
\* safely stop the adapter before its result reaches this worker. Resume returns
\* through OBSERVING, where the forced evidence is still verified").
ResultIsVerified == worker.pc \in {"cleared", "executing"} => pending = "none"

\* If demo loops come to an end, a request that waits is taken by the worker
\* or dropped by a pause, whatever skills the model runs meanwhile.
WakeIsTaken ==
  <>[](~DemoBusy) =>
    (wakes > 0) ~> (wakes = 0 \/ (worker.pc = "taken" /\ worker.reason = "wake"))

\* If demo loops come to an end, the result of a skill that was started is
\* verified, or the session is paused or stopped.
SkillSettles ==
  <>[](~DemoBusy) =>
    (worker.pc = "executing") ~> (state \in {"VERIFYING", "PAUSED", "STOPPED"})
=============================================================================
