------------------------ MODULE TaskOrchestratorProofs ------------------------
(***************************************************************************)
(* Safety of the task orchestrator, for any set of modes and any limits:   *)
(* with every operator, types, the limit on skills, the adapters, the      *)
(* quiet of a stopped or paused session and a single executing skill; with *)
(* a calm operator also a worker that survives, skills and motion that a   *)
(* stop reaches, and evidence that is coming.                              *)
(***************************************************************************)
EXTENDS TaskOrchestrator, TLAPS

\* Who executes: the worker waits for the dispatcher's active skill, and an
\* adapter nobody waits for has latched the dispatcher.
Dispatched ==
  /\ skill.active <=> worker.pc = "executing"
  /\ worker.pc = "executing" => runs = 1
  /\ worker.pc # "executing" /\ runs # 0 => runs = 1 /\ skill.latched

\* What the worker carries: a result to verify or record, within the limit.
Carried ==
  /\ worker.pc \in {"accepted", "returned"} => worker.due # "none"
  /\ worker.pc \in {"cleared", "executing", "returned"} => executed < MaxActions

\* A fault pauses the session at once, and leaving the pause clears it.
Sound == state \in Active => ~faulted

TaskInv ==
  TaskTypeOK /\ Dispatched /\ Carried /\ Sound /\ DownIsQuiet /\ AdaptersFollowSession

LEMMA Stopping ==
  ASSUME TaskTypeOK, SafeStop
  PROVE  /\ SkillOK'
         /\ skill'.active = skill.active
         /\ skill.latched => skill'.latched
         /\ skill.active => skill'.stop
  BY DEF TaskTypeOK, SkillOK, SafeStop

LEMMA AskingDemo ==
  ASSUME TaskTypeOK, StopBusyDemo \/ StopDemo, asker' \in {"idle", "allowed"}
  PROVE  DemoOK'
  BY DEF TaskTypeOK, DemoOK, StopBusyDemo, StopDemo

LEMMA RestIsWork == Rest \in Work
  BY DEF Rest, Work, Pc, Outcome

LEMMA TaskStarts == Init => TaskInv
<1> SUFFICES ASSUME Init PROVE TaskInv
  OBVIOUS
<1> USE LimitAssumption DEF Init
<1>1. SessionOK
  BY DEF SessionOK, Outcome
<1>2. FlagsOK
  BY DEF FlagsOK
<1>3. CountsOK
  BY DEF CountsOK
<1>4. SkillOK /\ DemoOK
  BY DEF SkillOK, DemoOK
<1>5. TaskTypeOK
  BY <1>1, <1>2, <1>3, <1>4, RestIsWork DEF TaskTypeOK
<1>6. Dispatched /\ Carried
  BY DEF Dispatched, Carried, Rest
<1>7. Sound /\ DownIsQuiet /\ AdaptersFollowSession
  BY DEF Sound, DownIsQuiet, AdaptersFollowSession, Active
<1> QED
  BY <1>5, <1>6, <1>7 DEF TaskInv

\* A section that pauses, faults or stops, the operator's or the worker's.
LEMMA HaltKeeps ==
  ASSUME TaskInv, Close \/ (state \in Active /\ (Hold \/ Fault)),
         worker' = worker \/ (worker' = Rest /\ worker.pc # "executing"),
         pending' \in Outcome, DemoOK'
  PROVE  TaskInv'
<1> USE DEF TaskInv
<1>1. /\ state' \in {"PAUSED", "STOPPED"} /\ wakes' = 0 /\ evidence' = FALSE /\ poll' = FALSE
      /\ mode' = mode /\ executed' = executed /\ runs' = runs /\ SafeStop
  BY DEF Close, Hold, Fault, Quiesce
<1>2. SkillOK' /\ skill'.active = skill.active /\ (skill.latched => skill'.latched)
  BY <1>1, Stopping
<1>3. worker' \in Work /\ (worker'.pc = "executing" <=> worker.pc = "executing")
  BY RestIsWork DEF TaskTypeOK, Rest
<1>4. adapters' \subseteq Adapter /\ faulted' \in BOOLEAN
  BY DEF Close, Hold, Fault, TaskTypeOK, SessionOK, FlagsOK
<1>5. SessionOK' /\ FlagsOK'
  BY <1>1, <1>4 DEF TaskTypeOK, SessionOK, FlagsOK
<1>6. CountsOK'
  BY <1>1, LimitAssumption DEF TaskTypeOK, CountsOK
<1>7. TaskTypeOK'
  BY <1>2, <1>3, <1>5, <1>6 DEF TaskTypeOK
<1>8. Dispatched'
  BY <1>1, <1>2, <1>3 DEF Dispatched
<1>9. Carried'
  BY <1>1 DEF Carried, Rest
<1>10. Sound' /\ DownIsQuiet'
  BY <1>1 DEF Sound, DownIsQuiet, Active
<1>11. AdaptersFollowSession'
  BY <1>1 DEF AdaptersFollowSession, Sound, Active, Close, Hold, Fault
<1> QED
  BY <1>7, <1>8, <1>9, <1>10, <1>11

LEMMA OperatorKeeps ==
  ASSUME TaskInv, Operator
  PROVE  TaskInv'
<1> USE DEF TaskInv
<1>1. ASSUME NEW m \in Mode, Start(m) \/ StartFault(m) PROVE TaskInv'
  <2> USE <1>1 DEF Start, StartFault, TaskTypeOK, dispatchVars
  <2>1. SessionOK' /\ FlagsOK'
    BY DEF SessionOK, FlagsOK, Active, Adapter, Outcome
  <2>2. CountsOK' /\ executed' = 0
    BY LimitAssumption DEF CountsOK
  <2>3. worker' \in Work /\ SkillOK' /\ DemoOK'
    BY DEF SkillOK, DemoOK
  <2>4. Dispatched' /\ Carried'
    BY <2>2, LimitAssumption DEF Dispatched, Carried
  <2>5. Sound' /\ AdaptersFollowSession'
    BY DEF Sound, AdaptersFollowSession, Active
  <2>6. DownIsQuiet'
    BY DEF DownIsQuiet
  <2> QED
    BY <2>1, <2>2, <2>3, <2>4, <2>5, <2>6
<1>2. CASE Pause
  BY <1>2, HaltKeeps DEF Pause, TaskTypeOK, SessionOK, DemoOK
<1>3. CASE Resume
  <2> USE <1>3 DEF Resume, TaskTypeOK, dispatchVars
  <2>1. SessionOK' /\ FlagsOK'
    BY DEF SessionOK, FlagsOK, Active
  <2>2. CountsOK'
    BY LimitAssumption DEF CountsOK
  <2>3. worker' \in Work /\ SkillOK' /\ DemoOK'
    BY DEF SkillOK, DemoOK
  <2>4. Dispatched' /\ Carried'
    BY DEF Dispatched, Carried
  <2>5. Sound' /\ AdaptersFollowSession' /\ DownIsQuiet'
    BY DEF Sound, AdaptersFollowSession, DownIsQuiet, Active
  <2> QED
    BY <2>1, <2>2, <2>3, <2>4, <2>5
<1>4. CASE Stop
  <2>1. DemoOK'
    BY <1>4, AskingDemo DEF Stop, TaskTypeOK, DemoOK
  <2>2. CASE state = "STOPPED"
    BY <1>4, <2>1, <2>2 DEF Stop, TaskTypeOK, SessionOK, FlagsOK, CountsOK, SkillOK,
       Dispatched, Carried, Sound, DownIsQuiet, AdaptersFollowSession, sessionVars,
       dispatchVars, Active
  <2>3. CASE state # "STOPPED"
    BY <1>4, <2>1, <2>3, HaltKeeps DEF Stop, Close, TaskTypeOK, SessionOK
  <2> QED
    BY <2>2, <2>3
<1>5. CASE Wake
  <2> USE <1>5 DEF Wake, TaskTypeOK, dispatchVars
  <2>1. CountsOK'
    BY LimitAssumption DEF CountsOK
  <2>2. TaskTypeOK'
    BY <2>1 DEF SessionOK, FlagsOK, SkillOK, DemoOK
  <2> QED
    BY <2>2 DEF Dispatched, Carried, Sound, DownIsQuiet, AdaptersFollowSession, Active
<1>6. CASE DemoChat
  <2> USE <1>6 DEF DemoChat, Quiesce, TaskTypeOK, dispatchVars
  <2>1. SessionOK' /\ FlagsOK'
    BY DEF SessionOK, FlagsOK
  <2>2. CountsOK'
    BY LimitAssumption DEF CountsOK
  <2>3. worker' \in Work /\ SkillOK' /\ DemoOK'
    BY DEF SkillOK, DemoOK
  <2>4. Dispatched' /\ Carried'
    BY DEF Dispatched, Carried
  <2>5. Sound' /\ AdaptersFollowSession' /\ DownIsQuiet'
    BY DEF Sound, AdaptersFollowSession, DownIsQuiet, Active
  <2> QED
    BY <2>1, <2>2, <2>3, <2>4, <2>5
<1>7. CASE DemoAsk
  BY <1>7 DEF DemoAsk, TaskTypeOK, SessionOK, FlagsOK, CountsOK, SkillOK, DemoOK, Dispatched,
     Carried, Sound, DownIsQuiet, AdaptersFollowSession, sessionVars, dispatchVars, Active
<1> QED
  BY <1>1, <1>2, <1>3, <1>4, <1>5, <1>6, <1>7 DEF Operator

LEMMA OthersKeep ==
  ASSUME TaskInv, DemoHandler \/ Inactivity \/ StrayEnds \/ DemoThread
  PROVE  TaskInv'
<1> USE DEF TaskInv
<1>1. CASE Inactivity
  BY <1>1, HaltKeeps DEF Inactivity, TaskTypeOK, SessionOK, DemoOK
<1> USE DEF TaskTypeOK, SessionOK, FlagsOK, CountsOK, SkillOK, Dispatched, Carried, Sound,
        DownIsQuiet, AdaptersFollowSession, dispatchVars, sessionVars, Active
<1>2. CASE DemoGo
  BY <1>2 DEF DemoGo, DemoOK
<1>3. CASE DemoHalt
  <2>1. DemoOK'
    BY <1>3, AskingDemo DEF DemoHalt
  <2> QED
    BY <1>3, <2>1 DEF DemoHalt
<1>4. CASE StrayEnds
  <2>1. SessionOK' /\ FlagsOK' /\ worker' \in Work /\ SkillOK' /\ DemoOK'
    BY <1>4 DEF StrayEnds, DemoOK
  <2>2. CountsOK' /\ Dispatched'
    BY <1>4 DEF StrayEnds
  <2> QED
    BY <1>4, <2>1, <2>2 DEF StrayEnds
<1>5. CASE DemoThread
  BY <1>5 DEF DemoThread, DemoEnds, DemoExits, DemoOK
<1> QED
  BY <1>1, <1>2, <1>3, <1>4, <1>5 DEF DemoHandler

-----------------------------------------------------------------------------
(* The worker.  Most of its steps only move it on, or go with the session    *)
(* from one active state to another.                                         *)

\* A step of the worker, at rest or between calls, that changes nothing else
\* but where an active session is, or schedules the next poll of one.
Glide ==
  /\ worker' \in Work
  /\ worker.pc # "executing" /\ worker'.pc # "executing"
  /\ worker'.pc \in {"accepted", "returned"} => worker'.due # "none"
  /\ worker'.pc \in {"cleared", "returned"} => executed < MaxActions
  /\ \/ state' = state /\ poll' = poll
     \/ state \in Active /\ state' \in Active /\ poll' \in BOOLEAN
  /\ UNCHANGED <<mode, wakes, evidence, adapters, faulted, executed, dispatchVars>>
  /\ pending' \in Outcome
  /\ DemoOK'

LEMMA GlideKeeps ==
  ASSUME TaskInv, Glide
  PROVE  TaskInv'
<1> USE DEF TaskInv, Glide, TaskTypeOK, dispatchVars
<1>1. SessionOK' /\ FlagsOK'
  BY DEF SessionOK, FlagsOK, Active
<1>2. CountsOK' /\ SkillOK'
  BY DEF CountsOK, SkillOK
<1>3. Dispatched'
  BY DEF Dispatched
<1>4. Carried'
  BY DEF Carried
<1>5. Sound' /\ DownIsQuiet' /\ AdaptersFollowSession'
  BY DEF Sound, DownIsQuiet, AdaptersFollowSession, Active
<1> QED
  BY <1>1, <1>2, <1>3, <1>4, <1>5

\* The states a worker's own transition enters are active, and so are those it
\* leaves.
LEMMA EdgesAreActive ==
  ASSUME TaskTypeOK, NEW s \in {"OBSERVING", "AWAITING_MODEL", "PROPOSED_ACTION",
                                "EXECUTING_SKILL"},
         CanGo(s)
  PROVE  s \in Active /\ state \in Active
  BY DEF TaskTypeOK, SessionOK, CanGo, Edges, Active

LEMMA WorkIs ==
  ASSUME TaskTypeOK
  PROVE  /\ \A pc \in Pc : [worker EXCEPT !.pc = pc] \in Work
         /\ \A pc \in Pc, due \in Outcome : [worker EXCEPT !.pc = pc, !.due = due] \in Work
         /\ \A pc \in Pc, of \in View \cup Plan \cup Mode :
              [worker EXCEPT !.pc = pc, !.of = of] \in Work
         /\ \A pc \in Pc, reason \in {"wake", "evidence", "poll"} :
              [Rest EXCEPT !.pc = pc, !.reason = reason] \in Work
         /\ Rest \in Work /\ [Rest EXCEPT !.pc = "dead"] \in Work
<1> USE DEF TaskTypeOK, Work
<1>1. \A pc \in Pc : [worker EXCEPT !.pc = pc] \in Work
  OBVIOUS
<1>2. \A pc \in Pc, due \in Outcome : [worker EXCEPT !.pc = pc, !.due = due] \in Work
  OBVIOUS
<1>3. \A pc \in Pc, of \in View \cup Plan \cup Mode :
        [worker EXCEPT !.pc = pc, !.of = of] \in Work
  OBVIOUS
<1>4. \A pc \in Pc, reason \in {"wake", "evidence", "poll"} :
        [Rest EXCEPT !.pc = pc, !.reason = reason] \in Work
  BY DEF Rest, Outcome
<1>5. Rest \in Work /\ [Rest EXCEPT !.pc = "dead"] \in Work
  BY RestIsWork DEF Rest, Pc, Outcome
<1> QED
  BY <1>1, <1>2, <1>3, <1>4, <1>5

LEMMA WorkGoes ==
  ASSUME TaskTypeOK
  PROVE  /\ \A pc \in Pc : Goto(pc) => worker' \in Work /\ worker'.pc = pc
                                          /\ worker'.due = worker.due
         /\ \A pc \in Pc, of \in View \cup Plan \cup Mode :
              worker' = [worker EXCEPT !.pc = pc, !.of = of]
                => worker' \in Work /\ worker'.pc = pc /\ worker'.of = of
         /\ Returns => worker' \in Work /\ worker'.pc = "idle"
         /\ Dies => worker' \in Work /\ worker'.pc = "dead"
<1>1. \A pc \in Pc : Goto(pc) => worker' \in Work
  BY WorkIs DEF Goto
<1>2. \A pc \in Pc : Goto(pc) => worker'.pc = pc /\ worker'.due = worker.due
  BY DEF Goto, TaskTypeOK, Work
<1>3. Returns => worker' \in Work /\ worker'.pc = "idle"
  BY RestIsWork DEF Returns, Rest
<1>4. Dies => worker' \in Work
  BY WorkIs DEF Dies
<1>5. Dies => worker'.pc = "dead"
  BY DEF Dies, Rest
<1>6. \A pc \in Pc, of \in View \cup Plan \cup Mode :
        worker' = [worker EXCEPT !.pc = pc, !.of = of] => worker' \in Work
  BY DEF TaskTypeOK, Work
<1>7. \A pc \in Pc, of \in View \cup Plan \cup Mode :
        worker' = [worker EXCEPT !.pc = pc, !.of = of] => worker'.pc = pc /\ worker'.of = of
  BY DEF TaskTypeOK, Work
<1> QED
  BY <1>1, <1>2, <1>3, <1>4, <1>5, <1>6, <1>7

\* A transition that the table refuses ends the worker's thread, no more.
LEMMA RefusalKeeps ==
  ASSUME TaskInv, worker.pc # "executing", UNCHANGED <<demo, asker>>,
         NEW s, Refuse(s) \/ (Dies /\ UNCHANGED <<sessionVars, dispatchVars>>)
                          \/ (Returns /\ UNCHANGED <<sessionVars, dispatchVars>>)
  PROVE  TaskInv'
<1>1. worker' \in Work /\ worker'.pc \in {"idle", "dead"}
  BY WorkGoes DEF TaskInv, Refuse
<1>2. Glide
  BY <1>1 DEF Refuse, Glide, TaskInv, TaskTypeOK, SessionOK, DemoOK, sessionVars
<1> QED
  BY <1>2, GlideKeeps

LEMMA PausingKeeps ==
  ASSUME TaskInv, worker.pc # "executing", UNCHANGED <<demo, asker>>,
         PauseHere \/ (state \in Active /\ Fault /\ Returns /\ pending' \in Outcome)
  PROVE  TaskInv'
<1>1. CASE state \in Active /\ (Hold \/ Fault) /\ Returns /\ pending' \in Outcome
  BY <1>1, HaltKeeps DEF Returns, TaskInv, TaskTypeOK, DemoOK
<1>2. CASE (Dies \/ Returns) /\ UNCHANGED <<sessionVars, dispatchVars>>
  BY <1>2, RefusalKeeps
<1> QED
  BY <1>1, <1>2 DEF PauseHere, TaskInv, TaskTypeOK, SessionOK

\* From taking a request to the frame that answers it.
LEMMA LookingKeeps ==
  ASSUME TaskInv, TakeWake \/ TakeEvidence \/ TakePoll \/ BeginObservation \/ Look
  PROVE  TaskInv'
<1> USE DEF TaskInv
<1>a. TaskTypeOK /\ pending \in Outcome /\ DemoOK
  BY DEF TaskTypeOK, SessionOK
<1>1. CASE TakeWake \/ TakeEvidence
  <2> USE <1>1 DEF TakeWake, TakeEvidence, Awake, TaskTypeOK, dispatchVars
  <2>1. worker' \in Work /\ worker'.pc = "taken"
    BY WorkIs DEF Pc, Rest
  <2>2. SessionOK' /\ FlagsOK'
    BY DEF SessionOK, FlagsOK
  <2>3. CountsOK'
    BY LimitAssumption DEF CountsOK
  <2>4. SkillOK' /\ DemoOK'
    BY DEF SkillOK, DemoOK
  <2>5. Dispatched' /\ Carried'
    BY <2>1 DEF Dispatched, Carried
  <2>6. Sound' /\ DownIsQuiet' /\ AdaptersFollowSession'
    BY DEF Sound, DownIsQuiet, AdaptersFollowSession, Active
  <2> QED
    BY <2>1, <2>2, <2>3, <2>4, <2>5, <2>6
<1>2. CASE TakePoll
  <2>1. worker' \in Work /\ worker'.pc = "taken" /\ worker.pc = "idle"
    BY <1>2, <1>a, WorkIs DEF TakePoll, Awake, Pc, Rest
  <2>2. Glide
    BY <1>2, <1>a, <2>1 DEF TakePoll, Glide, DemoOK, sessionVars
  <2> QED
    BY <2>2, GlideKeeps
<1>3. CASE BeginObservation
  <2>1. worker' \in Work /\ worker'.pc \in {"idle", "fetching", "faulting"}
    BY <1>3, <1>a, WorkGoes DEF BeginObservation, Pc
  <2>2. Glide
    BY <1>3, <1>a, <2>1 DEF BeginObservation, Glide, DemoOK, Active
  <2> QED
    BY <2>2, GlideKeeps
<1>4. CASE FetchFails
  <2>1. worker' \in Work /\ worker'.pc \in {"idle", "faulting"} /\ worker.pc = "fetching"
    BY <1>4, <1>a, WorkGoes DEF FetchFails, Pc
  <2>2. Glide
    BY <1>4, <1>a, <2>1 DEF FetchFails, Glide, DemoOK, sessionVars
  <2> QED
    BY <2>2, GlideKeeps
<1>5. CASE FetchSuppressed
  <2>1. worker' \in Work /\ worker'.pc \in {"idle", "faulting"} /\ worker.pc = "fetching"
    BY <1>5, <1>a, WorkGoes DEF FetchSuppressed, MoveHome, Pc
  <2>2. state' = state \/ (state \in Active /\ state' \in Active)
    BY <1>5, <1>a, EdgesAreActive DEF FetchSuppressed, MoveHome
  <2>3. Glide
    BY <1>5, <1>a, <2>1, <2>2 DEF FetchSuppressed, Glide, DemoOK, TaskTypeOK, FlagsOK
  <2> QED
    BY <2>3, GlideKeeps
<1>6. CASE FetchAccepted
  <2>1. worker' \in Work /\ worker.pc = "fetching"
        /\ worker'.pc \in {"idle", "accepted", "viewed"}
        /\ (worker'.pc = "accepted" => worker'.due # "none")
    <3>1. CASE Returns
      BY <1>6, <1>a, <3>1, WorkIs DEF FetchAccepted, Returns, Rest
    <3>2. CASE ~Returns
      <4>1. PICK view \in View :
              worker' = [worker EXCEPT !.due = pending, !.of = view,
                          !.pc = IF pending # "none" /\ worker.reason = "evidence"
                                   THEN "accepted" ELSE "viewed"]
        BY <1>6, <3>2 DEF FetchAccepted
      <4> QED
        BY <1>6, <1>a, <4>1 DEF FetchAccepted, TaskTypeOK, Work, Pc
    <3> QED
      BY <3>1, <3>2
  <2>2. Glide
    BY <1>6, <1>a, <2>1 DEF FetchAccepted, Glide, DemoOK, sessionVars
  <2> QED
    BY <2>2, GlideKeeps
<1> QED
  BY <1>1, <1>2, <1>3, <1>4, <1>5, <1>6 DEF Look

\* What follows from the frame, but for the call of the model.
LEMMA ConcludingKeeps ==
  ASSUME TaskInv, Conclude
  PROVE  TaskInv'
<1> USE DEF TaskInv
<1>a. TaskTypeOK /\ pending \in Outcome /\ DemoOK
  BY DEF TaskTypeOK, SessionOK
<1>1. CASE FaultHere
  <2>1. CASE state \in Active
    BY <1>1, <1>a, <2>1, PausingKeeps DEF FaultHere
  <2>2. CASE state \notin Active
    BY <1>1, <2>2, RefusalKeeps DEF FaultHere, sessionVars
  <2> QED
    BY <2>1, <2>2
<1>2. CASE Verify
  <2>1. CASE Returns /\ state \in Active /\ Fault
    BY <1>2, <2>1, PausingKeeps DEF Verify, Outcome
  <2>2. CASE ~(Returns /\ state \in Active /\ Fault)
    <3>1. worker' \in Work /\ worker'.pc \in {"idle", "viewed"} /\ worker.pc = "accepted"
      BY <1>2, <1>a, WorkGoes DEF Verify, Pc
    <3>2. Glide
      BY <1>2, <1>a, <2>2, <3>1 DEF Verify, Glide, DemoOK, Active, Outcome, TaskTypeOK, FlagsOK
    <3> QED
      BY <3>2, GlideKeeps
  <2> QED
    BY <2>1, <2>2
<1>3. CASE Complete
  <2>1. DemoOK'
    BY <1>3, <1>a, AskingDemo DEF Complete, DemoOK
  <2>2. CASE state = "STOPPED"
    <3>1. worker' \in Work /\ worker'.pc = "idle"
      BY <1>3, RestIsWork DEF Complete, Returns, Rest
    <3>2. Glide
      BY <1>3, <1>a, <2>1, <2>2, <3>1 DEF Complete, Glide, sessionVars
    <3> QED
      BY <3>2, GlideKeeps
  <2>3. CASE state # "STOPPED"
    BY <1>3, <1>a, <2>1, <2>3, HaltKeeps DEF Complete, Close, Returns
  <2> QED
    BY <2>2, <2>3
<1>4. CASE Blocked
  BY <1>4, PausingKeeps DEF Blocked
<1> QED
  BY <1>1, <1>2, <1>3, <1>4 DEF Conclude

\* The call of the model, and what its decision leads to.
LEMMA ModelKeeps ==
  ASSUME TaskInv, AskModel \/ ModelFails \/ ModelAnswers \/ Decide
  PROVE  TaskInv'
<1> USE DEF TaskInv
<1>a. TaskTypeOK /\ pending \in Outcome /\ DemoOK /\ FlagsOK
  BY DEF TaskTypeOK, SessionOK
<1>1. CASE AskModel
  <2>1. CASE Refuse("AWAITING_MODEL") \/ (Returns /\ UNCHANGED <<sessionVars, dispatchVars>>)
    BY <1>1, <2>1, RefusalKeeps DEF AskModel
  <2>2. CASE state \in Active
             /\ Move("AWAITING_MODEL", IF "model" \in adapters THEN "modelling" ELSE "faulting")
             /\ UNCHANGED <<mode, wakes, evidence, poll, adapters, faulted, pending, executed,
                            dispatchVars>>
    <3>1. worker' \in Work /\ worker'.pc \in {"modelling", "faulting"}
      BY <1>a, <2>2, WorkGoes DEF Move, Pc
    <3>2. Glide
      BY <1>1, <1>a, <2>2, <3>1 DEF AskModel, Move, Glide, DemoOK, Active, FlagsOK
    <3> QED
      BY <3>2, GlideKeeps
  <2> QED
    BY <1>1, <2>1, <2>2 DEF AskModel
<1>2. CASE ModelFails
  <2>1. worker' \in Work /\ worker'.pc \in {"idle", "faulting"}
    BY <1>2, <1>a, WorkGoes DEF ModelFails, Pc
  <2>2. Glide
    BY <1>2, <1>a, <2>1 DEF ModelFails, Glide, DemoOK, sessionVars
  <2> QED
    BY <2>2, GlideKeeps
<1>3. CASE ModelAnswers
  <2>1. CASE Returns
    BY <1>3, <2>1, RefusalKeeps DEF ModelAnswers
  <2>2. CASE ~Returns
    <3>1. PICK plan \in Plan : worker' = [worker EXCEPT !.pc = "decided", !.of = plan]
      BY <1>3, <2>2 DEF ModelAnswers
    <3>2. worker' \in Work /\ worker'.pc = "decided"
      BY <1>a, <3>1, WorkGoes DEF Pc
    <3>3. Glide
      BY <1>3, <1>a, <3>2 DEF ModelAnswers, Glide, DemoOK, sessionVars
    <3> QED
      BY <3>3, GlideKeeps
  <2> QED
    BY <2>1, <2>2
<1>4. CASE Observe
  <2>1. CASE Refuse("OBSERVING")
    BY <1>4, <2>1, RefusalKeeps DEF Observe
  <2>2. CASE MoveHome("OBSERVING") /\ UNCHANGED <<mode, wakes, evidence, poll, adapters,
                                                  faulted, pending, executed, dispatchVars>>
    <3>1. worker' \in Work /\ worker'.pc = "idle" /\ state' \in Active /\ state \in Active
      BY <1>a, <2>2, WorkGoes, EdgesAreActive DEF MoveHome
    <3>2. Glide
      BY <1>4, <1>a, <2>2, <3>1 DEF Observe, Glide, DemoOK, FlagsOK
    <3> QED
      BY <3>2, GlideKeeps
  <2> QED
    BY <1>4, <2>1, <2>2 DEF Observe
<1>5. CASE AskUser
  <2>1. CASE Refuse("PROPOSED_ACTION")
    BY <1>5, <2>1, RefusalKeeps DEF AskUser
  <2>2. CASE ~Refuse("PROPOSED_ACTION")
    <3>1. CanGo("PROPOSED_ACTION") /\ worker.pc = "decided" /\ Returns
          /\ UNCHANGED <<pending, demo, asker>>
      BY <1>5, <2>2 DEF AskUser
    <3>2. state \in Active /\ worker' \in Work /\ worker'.pc = "idle"
      BY <1>a, <3>1, EdgesAreActive, WorkGoes
    <3>3. CASE Hold
      BY <1>a, <3>1, <3>2, <3>3, HaltKeeps DEF DemoOK, Returns
    <3>4. CASE ~Hold
      <4>1. Glide
        BY <1>5, <1>a, <2>2, <3>1, <3>2, <3>4 DEF AskUser, Glide, DemoOK, FlagsOK, Active
      <4> QED
        BY <4>1, GlideKeeps
    <3> QED
      BY <3>3, <3>4
  <2> QED
    BY <2>1, <2>2
<1>6. CASE PauseAsked
  BY <1>6, PausingKeeps DEF PauseAsked
<1>7. CASE Propose
  <2>1. CASE Refuse("PROPOSED_ACTION")
    BY <1>7, <2>1, RefusalKeeps DEF Propose
  <2>2. CASE ~Refuse("PROPOSED_ACTION")
    <3>1. worker' \in Work /\ worker'.pc = "proposed" /\ CanGo("PROPOSED_ACTION")
      BY <1>7, <1>a, <2>2, WorkGoes DEF Propose, Pc, TaskTypeOK, SessionOK
    <3>2. state \in Active
      BY <1>a, <3>1, EdgesAreActive
    <3>3. Glide
      BY <1>7, <1>a, <2>2, <3>1, <3>2 DEF Propose, Glide, DemoOK, FlagsOK, Active
    <3> QED
      BY <3>3, GlideKeeps
  <2> QED
    BY <2>1, <2>2
<1> QED
  BY <1>1, <1>2, <1>3, <1>4, <1>5, <1>6, <1>7 DEF Decide

LEMMA PropoundingKeeps ==
  ASSUME TaskInv, Propound
  PROVE  TaskInv'
<1> USE DEF TaskInv
<1>a. TaskTypeOK /\ pending \in Outcome /\ DemoOK /\ FlagsOK
  BY DEF TaskTypeOK, SessionOK
<1>1. CASE DryRun
  <2>1. CASE Refuse("OBSERVING")
    BY <1>1, <2>1, RefusalKeeps DEF DryRun
  <2>2. CASE MoveHome("OBSERVING") /\ UNCHANGED <<mode, wakes, evidence, poll, adapters,
                                                  faulted, pending, executed, dispatchVars>>
    <3>1. worker' \in Work /\ worker'.pc = "idle" /\ state' \in Active /\ state \in Active
      BY <1>a, <2>2, WorkGoes, EdgesAreActive DEF MoveHome
    <3>2. Glide
      BY <1>1, <1>a, <2>2, <3>1 DEF DryRun, Glide, DemoOK, FlagsOK
    <3> QED
      BY <3>2, GlideKeeps
  <2> QED
    BY <1>1, <2>1, <2>2 DEF DryRun
<1>2. CASE Withhold
  BY <1>2, PausingKeeps DEF Withhold
<1>3. CASE Deny
  <2>1. worker' \in Work /\ worker'.pc = "faulting"
    BY <1>3, <1>a, WorkGoes DEF Deny, Pc
  <2>2. Glide
    BY <1>3, <1>a, <2>1 DEF Deny, Glide, DemoOK, sessionVars
  <2> QED
    BY <2>2, GlideKeeps
<1>4. CASE ClearSkill
  <2>1. CASE Refuse("EXECUTING_SKILL")
    BY <1>4, <2>1, RefusalKeeps DEF ClearSkill
  <2>2. CASE executed >= MaxActions /\ Returns
    <3>1. ~(executed < MaxActions)
      BY <2>2, LimitAssumption DEF TaskTypeOK, CountsOK
    <3>2. CASE state \in Active
      BY <1>4, <1>a, <3>1, <3>2, PausingKeeps DEF ClearSkill
    <3>3. CASE state \notin Active
      BY <1>4, <2>2, <3>1, <3>3, RefusalKeeps DEF ClearSkill, sessionVars
    <3> QED
      BY <3>2, <3>3
  <2>3. CASE executed < MaxActions /\ Move("EXECUTING_SKILL", "cleared")
             /\ UNCHANGED <<mode, wakes, evidence, poll, adapters, faulted, pending, executed,
                            dispatchVars>>
    <3>1. worker' \in Work /\ worker'.pc = "cleared" /\ state \in Active /\ state' \in Active
      BY <1>a, <2>3, WorkGoes, EdgesAreActive DEF Move, Pc
    <3>2. Glide
      BY <1>4, <1>a, <2>3, <3>1 DEF ClearSkill, Glide, DemoOK, FlagsOK
    <3> QED
      BY <3>2, GlideKeeps
  <2> QED
    BY <1>4, <2>1, <2>2, <2>3 DEF ClearSkill
<1> QED
  BY <1>1, <1>2, <1>3, <1>4 DEF Propound

\* A skill is started by a dispatcher that is neither busy nor latched, and
\* leaves the latch behind when it cannot be stopped.
LEMMA SkillKeeps ==
  ASSUME TaskInv, RunSkill
  PROVE  TaskInv'
<1> USE DEF TaskInv
<1>a. TaskTypeOK /\ pending \in Outcome /\ DemoOK /\ FlagsOK
  BY DEF TaskTypeOK, SessionOK
<1>1. CASE Dispatch
  <2>1. CASE Goto("faulting") /\ UNCHANGED dispatchVars
    <3>1. worker' \in Work /\ worker'.pc = "faulting"
      BY <1>a, <2>1, WorkGoes DEF Pc
    <3>2. Glide
      BY <1>1, <1>a, <2>1, <3>1 DEF Dispatch, Glide, DemoOK, sessionVars
    <3> QED
      BY <3>2, GlideKeeps
  <2>2. CASE /\ ~skill.latched /\ ~skill.active
             /\ Goto("executing")
             /\ skill' = [skill EXCEPT !.active = TRUE, !.stop = FALSE]
             /\ runs' = runs + 1
    <3>1. worker' \in Work /\ worker'.pc = "executing" /\ worker.pc = "cleared"
      BY <1>1, <1>a, <2>2, WorkGoes DEF Dispatch, Pc
    <3>2. SkillOK' /\ skill'.active
      BY <1>a, <2>2 DEF TaskTypeOK, SkillOK
    <3>3. runs = 0
      BY <2>2, <3>1 DEF Dispatched
    <3>4. CountsOK'
      BY <1>1, <2>2, <3>3 DEF Dispatch, sessionVars, TaskTypeOK, CountsOK
    <3>5. SessionOK' /\ FlagsOK' /\ DemoOK'
      BY <1>1 DEF Dispatch, sessionVars, TaskTypeOK, SessionOK, FlagsOK, DemoOK
    <3>6. Dispatched' /\ Carried'
      BY <1>1, <2>2, <3>1, <3>2, <3>3 DEF Dispatch, sessionVars, Dispatched, Carried
    <3>7. Sound' /\ DownIsQuiet' /\ AdaptersFollowSession'
      BY <1>1 DEF Dispatch, sessionVars, Sound, DownIsQuiet, AdaptersFollowSession
    <3> QED
      BY <3>1, <3>2, <3>4, <3>5, <3>6, <3>7 DEF TaskTypeOK
  <2> QED
    BY <1>1, <2>1, <2>2 DEF Dispatch
<1>2. CASE SkillEnds \/ SkillTimesOut
  <2>1. worker.pc = "executing" /\ UNCHANGED <<sessionVars, demo, asker>>
    BY <1>2 DEF SkillEnds, SkillTimesOut
  <2>2. runs = 1
    BY <2>1 DEF Dispatched
  <2>3. /\ SkillOK' /\ ~skill'.active
        /\ runs' \in {0, 1} /\ (runs' = 1 => skill'.latched)
    <3>1. CASE SkillEnds
      <4>1. SkillOK' /\ ~skill'.active
        BY <1>a, <3>1 DEF SkillEnds, TaskTypeOK, SkillOK
      <4> QED
        BY <2>2, <3>1, <4>1 DEF SkillEnds
    <3>2. CASE SkillTimesOut
      <4>1. PICK ended \in BOOLEAN, latch \in BOOLEAN :
              /\ runs' = IF ended THEN runs - 1 ELSE runs
              /\ skill' = [active |-> FALSE, stop |-> FALSE,
                           latched |-> skill.latched \/ latch \/ ~ended]
        BY <3>2 DEF SkillTimesOut
      <4>2. SkillOK' /\ ~skill'.active /\ (~ended => skill'.latched)
        BY <4>1 DEF SkillOK
      <4> QED
        BY <2>2, <4>1, <4>2
    <3> QED
      BY <1>2, <3>1, <3>2
  <2>4. PICK outcome \in {"completed", "failed"} :
          worker' = [worker EXCEPT !.pc = "returned", !.due = outcome]
    BY <1>2 DEF SkillEnds, SkillTimesOut
  <2>5. worker' \in Work
    BY <1>a, <2>4, WorkIs DEF Pc, Outcome
  <2>6. worker'.pc = "returned" /\ worker'.due # "none"
    BY <1>a, <2>4 DEF TaskTypeOK, Work
  <2>7. SessionOK' /\ FlagsOK' /\ CountsOK' /\ DemoOK'
    BY <2>1, <2>3 DEF TaskTypeOK, SessionOK, FlagsOK, CountsOK, DemoOK, sessionVars
  <2>8. Dispatched' /\ Carried'
    BY <2>1, <2>3, <2>6 DEF Dispatched, Carried, sessionVars
  <2>9. Sound' /\ DownIsQuiet' /\ AdaptersFollowSession'
    BY <2>1 DEF sessionVars, Sound, DownIsQuiet, AdaptersFollowSession
  <2> QED
    BY <2>3, <2>5, <2>7, <2>8, <2>9 DEF TaskTypeOK
<1>3. CASE TakeResult
  <2>1. worker' \in Work /\ worker'.pc = "idle" /\ worker.pc = "returned"
    BY <1>3, <1>a, WorkGoes DEF TakeResult
  <2>2. CASE state = "STOPPED"
    BY <1>3, <2>1, <2>2, RefusalKeeps DEF TakeResult, sessionVars
  <2>3. CASE state # "STOPPED"
    <3> USE <1>3, <2>3 DEF TakeResult, dispatchVars
    <3>1. SessionOK' /\ FlagsOK' /\ SkillOK' /\ DemoOK'
      BY DEF TaskTypeOK, SessionOK, FlagsOK, SkillOK, DemoOK, Work
    <3>2. CountsOK'
      BY <2>1, LimitAssumption DEF TaskTypeOK, CountsOK, Carried
    <3>3. Dispatched' /\ Carried'
      BY <2>1 DEF Dispatched, Carried
    <3>4. Sound' /\ DownIsQuiet' /\ AdaptersFollowSession'
      BY DEF Sound, DownIsQuiet, AdaptersFollowSession
    <3> QED
      BY <2>1, <3>1, <3>2, <3>3, <3>4 DEF TaskTypeOK
  <2> QED
    BY <2>2, <2>3
<1> QED
  BY <1>1, <1>2, <1>3 DEF RunSkill

-----------------------------------------------------------------------------
(* The theorems                                                              *)

LEMMA TaskKeeps == TaskInv /\ [Next]_vars => TaskInv'
<1> SUFFICES ASSUME TaskInv, [Next]_vars PROVE TaskInv'
  OBVIOUS
<1>1. CASE Worker
  BY <1>1, LookingKeeps, ConcludingKeeps, ModelKeeps, PropoundingKeeps, SkillKeeps DEF Worker
<1>2. CASE UNCHANGED vars
  BY <1>2 DEF vars, sessionVars, dispatchVars, TaskInv, TaskTypeOK, SessionOK, FlagsOK,
     CountsOK, SkillOK, DemoOK, Dispatched, Carried, Sound, DownIsQuiet, AdaptersFollowSession
<1> QED
  BY <1>1, <1>2, OperatorKeeps, OthersKeep DEF Next

THEOREM TaskSafety == Spec => []TaskInv
  BY TaskStarts, TaskKeeps, PTL DEF Spec

\* A skill limit that no model turn, fault or restart gets around is part of
\* the types.
THEOREM TaskTypes == Spec => []TaskTypeOK
  BY TaskSafety, PTL DEF TaskInv

\* Whatever an adapter that ignores its stop event does, never do two execute.
THEOREM OneAdapter == Spec => []OneAdapterRuns
<1>1. TaskInv => OneAdapterRuns
  BY DEF TaskInv, TaskTypeOK, CountsOK, Dispatched, OneAdapterRuns
<1> QED
  BY <1>1, TaskSafety, PTL

\* Nothing is scheduled in a stopped or paused session.
THEOREM QuietWhenDown == Spec => []DownIsQuiet
  BY TaskSafety, PTL DEF TaskInv

\* Adapters are open in an active session and closed in a faulted one.
THEOREM AdaptersFollow == Spec => []AdaptersFollowSession
  BY TaskSafety, PTL DEF TaskInv

-----------------------------------------------------------------------------
(* A calm operator                                                           *)

\* Where a calm operator can have left the session while the worker is
\* between two of its sections.
Whereabouts ==
  /\ worker.pc # "dead"
  /\ worker.pc \in {"idle", "taken"} =>
       state \in {"STARTING", "OBSERVING", "EXECUTING_SKILL", "PAUSED", "STOPPED"}
  /\ worker.pc = "fetching" => state \in {"OBSERVING", "EXECUTING_SKILL", "PAUSED", "STOPPED"}
  /\ worker.pc = "idle" /\ state = "EXECUTING_SKILL" => evidence /\ pending # "none"
  /\ worker.pc \in {"taken", "fetching"} /\ state = "EXECUTING_SKILL"
       => worker.reason = "evidence" /\ pending # "none"
  /\ worker.pc = "accepted"  => state \in {"OBSERVING", "EXECUTING_SKILL", "PAUSED"}
  /\ worker.pc = "viewed"    => state \in {"OBSERVING", "VERIFYING", "PAUSED"}
  /\ worker.pc = "modelling" => state \in {"AWAITING_MODEL", "PAUSED", "STOPPED"}
  /\ worker.pc = "decided"   => state = "AWAITING_MODEL"
  /\ worker.pc = "proposed"  => state = "PROPOSED_ACTION" /\ worker.of = mode
  /\ worker.pc \in {"cleared", "executing", "returned"}
       => state \in {"EXECUTING_SKILL", "PAUSED", "STOPPED"}
  /\ worker.pc \in {"cleared", "executing"} => mode = "simulation"

CalmInv == TaskInv /\ Whereabouts

LEMMA CalmStarts == Init => CalmInv
  BY TaskStarts DEF Init, CalmInv, Whereabouts, Rest

LEMMA CalmIsNext == CalmNext => Next
  BY DEF CalmNext, Next, CalmOperator, Operator

\* Halting the session, wherever the worker is but in the gaps.
LEMMA HaltedWhereabouts ==
  ASSUME CalmInv, mode' = mode, worker' = worker,
         \/ state' = "PAUSED" /\ worker.pc \notin PauseGap
         \/ state' = "STOPPED" /\ worker.pc \notin StopGap
  PROVE  Whereabouts'
  BY DEF CalmInv, Whereabouts, PauseGap, StopGap

LEMMA CalmOperatorKeeps ==
  ASSUME CalmInv, CalmOperator \/ Inactivity
  PROVE  Whereabouts'
<1>1. CASE worker.pc = "idle" /\ \E m \in Mode : Start(m) \/ StartFault(m)
  BY <1>1 DEF Start, StartFault, CalmInv, Whereabouts
<1>2. CASE worker.pc = "idle" /\ Resume
  BY <1>2 DEF Resume, CalmInv, Whereabouts
<1>3. CASE worker.pc \notin PauseGap /\ (Pause \/ Inactivity)
  BY <1>3, HaltedWhereabouts DEF Pause, Inactivity, Hold
<1>4. CASE worker.pc \notin StopGap /\ Stop
  <2>1. CASE state = "STOPPED"
    BY <1>4, <2>1 DEF Stop, sessionVars, dispatchVars, CalmInv, Whereabouts
  <2>2. CASE state # "STOPPED"
    BY <1>4, <2>2, HaltedWhereabouts DEF Stop, Close
  <2> QED
    BY <2>1, <2>2
<1>5. CASE (pending = "none" /\ DemoChat) \/ Wake \/ DemoAsk
  BY <1>5 DEF DemoChat, Wake, DemoAsk, Quiesce, sessionVars, dispatchVars, CalmInv, Whereabouts
<1>6. Inactivity => worker.pc \notin PauseGap
  BY DEF Inactivity, PauseGap
<1> QED
  BY <1>1, <1>2, <1>3, <1>4, <1>5, <1>6 DEF CalmOperator

LEMMA CalmLooking ==
  ASSUME CalmInv, TakeWake \/ TakeEvidence \/ TakePoll \/ BeginObservation \/ Look
  PROVE  Whereabouts'
<1> USE DEF CalmInv
<1>a. TaskTypeOK
  BY DEF TaskInv
<1>1. CASE TakeWake \/ TakePoll
  <2>1. worker'.pc = "taken" /\ UNCHANGED <<state, pending, mode>>
        /\ worker.pc = "idle" /\ ~evidence
    BY <1>1 DEF TakeWake, TakePoll, Awake, Rest, sessionVars
  <2> QED
    BY <2>1 DEF Whereabouts
<1>2. CASE TakeEvidence
  <2>1. worker'.pc = "taken" /\ worker'.reason = "evidence"
        /\ UNCHANGED <<state, pending, mode>> /\ worker.pc = "idle"
    BY <1>2 DEF TakeEvidence, Awake, Rest
  <2> QED
    BY <2>1 DEF Whereabouts
<1>3. CASE BeginObservation
  <2>1. CASE Returns /\ state \notin Active /\ UNCHANGED state
    BY <1>3, <1>a, <2>1, WorkGoes DEF Active, Whereabouts, BeginObservation
  <2>2. CASE ~(Returns /\ state \notin Active /\ UNCHANGED state)
    <3>1. worker' = [worker EXCEPT !.pc = worker'.pc] /\ worker'.pc \in {"fetching", "faulting"}
      BY <1>3, <1>a, <2>2 DEF BeginObservation, Goto, TaskTypeOK, Work
    <3>2. worker'.reason = worker.reason
      BY <1>a, <3>1 DEF TaskTypeOK, Work
    <3> QED
      BY <1>3, <2>2, <3>1, <3>2 DEF BeginObservation, Whereabouts
  <2> QED
    BY <2>1, <2>2
<1>4. CASE FetchFails
  <2>1. (worker'.pc = "idle" /\ state = "STOPPED") \/ worker'.pc = "faulting"
    BY <1>4, <1>a, WorkGoes DEF FetchFails, Pc
  <2> QED
    BY <1>4, <2>1 DEF FetchFails, sessionVars, Whereabouts
<1>5. CASE FetchSuppressed
  <2>1. (worker'.pc = "idle" /\ state' = "OBSERVING") \/ worker'.pc = "faulting"
    BY <1>5, <1>a, WorkGoes DEF FetchSuppressed, MoveHome, Pc
  <2> QED
    BY <2>1 DEF Whereabouts
<1>6. CASE FetchAccepted
  <2>1. CASE state = "STOPPED" /\ Returns
    BY <1>6, <1>a, <2>1, WorkGoes DEF FetchAccepted, sessionVars, Whereabouts
  <2>2. CASE ~(state = "STOPPED" /\ Returns)
    <3>1. PICK view \in View :
            worker' = [worker EXCEPT !.due = pending, !.of = view,
                        !.pc = IF pending # "none" /\ worker.reason = "evidence"
                                 THEN "accepted" ELSE "viewed"]
      BY <1>6, <2>2 DEF FetchAccepted
    <3>2. worker'.pc = IF pending # "none" /\ worker.reason = "evidence"
                         THEN "accepted" ELSE "viewed"
      BY <1>a, <3>1 DEF TaskTypeOK, Work
    <3> QED
      BY <1>6, <2>2, <3>2 DEF FetchAccepted, sessionVars, Whereabouts
  <2> QED
    BY <2>1, <2>2
<1> QED
  BY <1>1, <1>2, <1>3, <1>4, <1>5, <1>6 DEF Look

\* A refused transition needs a state that a calm operator does not leave.
LEMMA CalmConcluding ==
  ASSUME CalmInv, Conclude
  PROVE  Whereabouts'
<1> USE DEF CalmInv
<1>a. TaskTypeOK
  BY DEF TaskInv
<1>1. CASE Returns /\ state' \in {"PAUSED", "STOPPED"}
  BY <1>1, <1>a, WorkGoes DEF Whereabouts
<1>2. CASE FaultHere
  <2>1. state' \in {"PAUSED", "STOPPED"}
    BY <1>2, <1>a DEF FaultHere, Fault, TaskTypeOK, SessionOK
  <2> QED
    BY <1>1, <1>2, <2>1 DEF FaultHere
<1>3. CASE Verify
  <2>1. CASE Returns
    <3>1. worker.pc = "accepted" /\ state # "STOPPED"
      BY <1>3 DEF Verify, Whereabouts
    <3>2. worker'.pc = "idle"
      BY <1>a, <2>1, WorkGoes
    <3>3. Goto("viewed") => worker'.pc = "viewed"
      BY <1>a, WorkGoes DEF Pc
    <3>4. state' \in {"PAUSED", "STOPPED"}
      BY <1>3, <1>a, <3>2, <3>3 DEF Verify, Fault, TaskTypeOK, SessionOK
    <3> QED
      BY <1>1, <2>1, <3>4
  <2>2. CASE ~Returns
    <3>1. worker'.pc = "viewed" /\ worker.pc = "accepted"
          /\ state' = IF state = "EXECUTING_SKILL" THEN "VERIFYING" ELSE state
      BY <1>3, <1>a, <2>2, WorkGoes DEF Verify, Pc
    <3> QED
      BY <3>1 DEF Whereabouts
  <2> QED
    BY <2>1, <2>2
<1>4. CASE Complete
  BY <1>1, <1>4 DEF Complete, Close, sessionVars
<1>5. CASE Blocked
  BY <1>1, <1>5 DEF Blocked, PauseHere, Hold, sessionVars, Whereabouts
<1> QED
  BY <1>2, <1>3, <1>4, <1>5 DEF Conclude

LEMMA CalmModel ==
  ASSUME CalmInv, AskModel \/ ModelFails \/ ModelAnswers \/ Decide
  PROVE  Whereabouts'
<1> USE DEF CalmInv
<1>a. TaskTypeOK
  BY DEF TaskInv
<1>1. CASE AskModel
  <2>1. state \in {"OBSERVING", "VERIFYING", "PAUSED"}
    BY <1>1 DEF AskModel, Whereabouts
  <2>2. CASE state = "PAUSED"
    <3>1. Returns /\ UNCHANGED state
      BY <1>1, <2>2 DEF AskModel, Active, sessionVars
    <3> QED
      BY <1>a, <2>2, <3>1, WorkGoes DEF Whereabouts
  <2>3. CASE state # "PAUSED"
    <3>1. state' = "AWAITING_MODEL" /\ worker'.pc \in {"modelling", "faulting"}
      BY <1>1, <1>a, <2>1, <2>3, WorkGoes DEF AskModel, Move, Refuse, CanGo, Edges, Active, Pc
    <3> QED
      BY <3>1 DEF Whereabouts
  <2> QED
    BY <2>2, <2>3
<1>2. CASE ModelFails
  <2>1. state' = state /\ ((worker'.pc = "idle" /\ state = "STOPPED") \/ worker'.pc = "faulting")
    BY <1>2, <1>a, WorkGoes DEF ModelFails, sessionVars, Pc
  <2> QED
    BY <2>1 DEF Whereabouts
<1>3. CASE ModelAnswers
  <2>1. state' = state /\ worker.pc = "modelling"
    BY <1>3 DEF ModelAnswers, sessionVars
  <2>2. CASE state # "AWAITING_MODEL" /\ Returns
    BY <1>a, <2>1, <2>2, WorkGoes DEF Whereabouts
  <2>3. CASE state = "AWAITING_MODEL" /\ \E plan \in Plan :
               worker' = [worker EXCEPT !.pc = "decided", !.of = plan]
    <3>1. worker'.pc = "decided"
      BY <1>a, <2>3, WorkGoes DEF Pc
    <3> QED
      BY <2>1, <2>3, <3>1 DEF Whereabouts
  <2> QED
    BY <1>3, <2>2, <2>3 DEF ModelAnswers
<1>4. CASE Decide
  <2>1. worker.pc = "decided" /\ state = "AWAITING_MODEL"
    BY <1>4 DEF Decide, Observe, AskUser, PauseAsked, Propose, Whereabouts
  <2>2. CanGo("OBSERVING") /\ CanGo("PROPOSED_ACTION")
    BY <2>1 DEF CanGo, Edges
  <2>3. CASE Observe \/ AskUser \/ PauseAsked
    <3>1. Returns /\ state' \in {"OBSERVING", "PAUSED"}
      BY <2>1, <2>2, <2>3 DEF Observe, AskUser, PauseAsked, MoveHome, Refuse, PauseHere, Hold,
         Active
    <3> QED
      BY <1>a, <3>1, WorkGoes DEF Whereabouts
  <2>4. CASE Propose
    <3>1. /\ state' = "PROPOSED_ACTION" /\ mode' = mode
          /\ worker' = [worker EXCEPT !.pc = "proposed", !.of = mode]
      BY <2>2, <2>4 DEF Propose, Refuse
    <3>2. worker'.pc = "proposed" /\ worker'.of = mode'
      BY <1>a, <3>1, WorkGoes DEF Pc, TaskTypeOK, SessionOK
    <3> QED
      BY <3>1, <3>2 DEF Whereabouts
  <2> QED
    BY <1>4, <2>3, <2>4 DEF Decide
<1> QED
  BY <1>1, <1>2, <1>3, <1>4

LEMMA CalmPropound ==
  ASSUME CalmInv, Propound
  PROVE  Whereabouts'
<1> USE DEF CalmInv
<1>a. TaskTypeOK
  BY DEF TaskInv
<1>b. state = "PROPOSED_ACTION" /\ worker.of = mode /\ CanGo("OBSERVING")
      /\ CanGo("EXECUTING_SKILL")
  BY DEF Propound, DryRun, Withhold, Deny, ClearSkill, Whereabouts, CanGo, Edges
<1>1. CASE Returns /\ state' \in {"OBSERVING", "PAUSED"}
  BY <1>1, <1>a, WorkGoes DEF Whereabouts
<1>2. CASE DryRun \/ Withhold
  BY <1>1, <1>2, <1>b DEF DryRun, Withhold, MoveHome, Refuse, PauseHere, Hold, Active
<1>3. CASE Deny
  <2>1. worker'.pc = "faulting"
    BY <1>3, <1>a, WorkGoes DEF Deny, Pc
  <2> QED
    BY <2>1 DEF Whereabouts
<1>4. CASE ClearSkill
  <2>1. CASE Returns /\ Fault
    BY <1>1, <2>1 DEF Fault
  <2>2. CASE Move("EXECUTING_SKILL", "cleared") /\ UNCHANGED mode
    <3>1. worker'.pc = "cleared" /\ state' = "EXECUTING_SKILL" /\ mode' = "simulation"
      BY <1>4, <1>a, <1>b, <2>2, WorkGoes DEF ClearSkill, Move, Pc
    <3> QED
      BY <3>1 DEF Whereabouts
  <2> QED
    BY <1>4, <1>b, <2>1, <2>2 DEF ClearSkill, Refuse, Active
<1> QED
  BY <1>2, <1>3, <1>4 DEF Propound

LEMMA CalmSkill ==
  ASSUME CalmInv, RunSkill
  PROVE  Whereabouts'
<1> USE DEF CalmInv
<1>a. TaskTypeOK
  BY DEF TaskInv
<1>1. CASE Dispatch
  <2>1. worker'.pc \in {"faulting", "executing"} /\ worker.pc = "cleared"
        /\ UNCHANGED <<state, mode>>
    BY <1>1, <1>a, WorkGoes DEF Dispatch, sessionVars, Pc
  <2> QED
    BY <2>1 DEF Whereabouts
<1>2. CASE SkillEnds \/ SkillTimesOut
  <2>1. PICK outcome \in {"completed", "failed"} :
          worker' = [worker EXCEPT !.pc = "returned", !.due = outcome]
    BY <1>2 DEF SkillEnds, SkillTimesOut
  <2>2. worker'.pc = "returned" /\ worker.pc = "executing" /\ UNCHANGED state
    BY <1>2, <1>a, <2>1 DEF SkillEnds, SkillTimesOut, sessionVars, TaskTypeOK, Work
  <2> QED
    BY <2>2 DEF Whereabouts
<1>3. CASE TakeResult
  <2>1. worker'.pc = "idle" /\ worker.pc = "returned" /\ UNCHANGED state
        /\ state \in {"EXECUTING_SKILL", "PAUSED", "STOPPED"} /\ worker.due # "none"
    BY <1>3, <1>a, WorkGoes DEF TakeResult, Whereabouts, TaskInv, Carried
  <2> QED
    BY <1>3, <2>1 DEF TakeResult, Whereabouts
<1> QED
  BY <1>1, <1>2, <1>3 DEF RunSkill

LEMMA CalmKeeps == CalmInv /\ [CalmNext]_vars => CalmInv'
<1> SUFFICES ASSUME CalmInv, [CalmNext]_vars PROVE CalmInv'
  OBVIOUS
<1>1. TaskInv'
  BY CalmIsNext, TaskKeeps DEF CalmInv
<1>2. Whereabouts'
  <2>1. CASE Worker
    BY <2>1, CalmLooking, CalmConcluding, CalmModel, CalmPropound, CalmSkill DEF Worker
  <2>2. CASE DemoHandler \/ DemoThread \/ StrayEnds \/ UNCHANGED vars
    BY <2>2 DEF DemoHandler, DemoGo, DemoHalt, DemoThread, DemoEnds, DemoExits, StrayEnds,
       vars, sessionVars, dispatchVars, CalmInv, Whereabouts
  <2> QED
    BY <2>1, <2>2, CalmOperatorKeeps DEF CalmNext
<1> QED
  BY <1>1, <1>2 DEF CalmInv

THEOREM CalmSafety == CalmSpec => []CalmInv
  BY CalmStarts, CalmKeeps, PTL DEF CalmSpec

\* The worker's thread never meets a transition that its table refuses.
THEOREM Survival == CalmSpec => []WorkerSurvives
<1>1. CalmInv => WorkerSurvives
  BY DEF CalmInv, Whereabouts, WorkerSurvives
<1> QED
  BY <1>1, CalmSafety, PTL

\* A session that executes a skill that is over has evidence on its way.
THEOREM EvidenceComes == CalmSpec => []EvidenceIsComing
<1>1. CalmInv => EvidenceIsComing
  BY DEF CalmInv, Whereabouts, EvidenceIsComing
<1> QED
  BY <1>1, CalmSafety, PTL

-----------------------------------------------------------------------------
(* What a step may not do                                                    *)

\* Once an adapter could not be stopped, its dispatcher never starts another
\* and the one that is left over can only end, whatever is asked of the session.
LatchIsFinal ==
  [][skill.latched =>
       /\ skill'.latched /\ runs' <= runs
       /\ worker'.pc = "executing" => worker.pc = "executing"]_vars

THEOREM LatchFinal == Spec => LatchIsFinal
<1> DEFINE Final == skill.latched =>
      /\ skill'.latched /\ runs' <= runs
      /\ worker'.pc = "executing" => worker.pc = "executing"
<1>1. TaskInv /\ [Next]_vars => [Final]_vars
  <2> SUFFICES ASSUME TaskInv, [Next]_vars, skill.latched
               PROVE  /\ skill'.latched /\ runs' <= runs
                      /\ worker'.pc = "executing" => worker.pc = "executing"
    OBVIOUS
  <2>a. TaskTypeOK /\ SkillOK /\ runs \in Nat /\ worker \in Work
    BY DEF TaskInv, TaskTypeOK, CountsOK
  <2>b. ASSUME SafeStop PROVE skill'.latched
    BY <2>a, <2>b, Stopping
  <2>1. CASE RunSkill
    <3>1. CASE Dispatch
      <4>1. Goto("faulting") /\ runs' = runs /\ skill' = skill
        BY <3>1 DEF Dispatch, dispatchVars
      <4>2. worker'.pc = "faulting"
        BY <2>a, <4>1, WorkGoes DEF Pc
      <4> QED
        BY <2>a, <4>1, <4>2
    <3>2. CASE SkillEnds
      BY <2>a, <3>2 DEF SkillEnds, SkillOK
    <3>3. CASE SkillTimesOut
      <4>1. PICK ended \in BOOLEAN, latch \in BOOLEAN :
              /\ runs' = IF ended THEN runs - 1 ELSE runs
              /\ skill' = [active |-> FALSE, stop |-> FALSE,
                           latched |-> skill.latched \/ latch \/ ~ended]
        BY <3>3 DEF SkillTimesOut
      <4>2. worker.pc = "executing" /\ skill'.latched
        BY <3>3, <4>1 DEF SkillTimesOut
      <4>3. runs' <= runs
        BY <2>a, <4>1
      <4> QED
        BY <4>2, <4>3
    <3>4. CASE TakeResult
      <4>1. Returns /\ runs' = runs /\ skill' = skill
        BY <3>4 DEF TakeResult, dispatchVars
      <4>2. worker'.pc = "idle"
        BY <2>a, <4>1, WorkGoes
      <4> QED
        BY <2>a, <4>1, <4>2
    <3> QED
      BY <2>1, <3>1, <3>2, <3>3, <3>4 DEF RunSkill
  <2>2. ASSUME runs' <= runs, SafeStop \/ UNCHANGED skill,
               worker'.pc = "executing" => worker.pc = "executing"
        PROVE  /\ skill'.latched /\ runs' <= runs
               /\ worker'.pc = "executing" => worker.pc = "executing"
    BY <2>2, <2>b
  <2>3. CASE Operator \/ DemoHandler \/ Inactivity \/ StrayEnds \/ DemoThread \/ UNCHANGED vars
    <3>1. runs' <= runs /\ (SafeStop \/ UNCHANGED skill) /\ worker' = worker
      BY <2>3, <2>a DEF Operator, Start, StartFault, Pause, Resume, Stop, Wake, DemoChat,
         DemoAsk, DemoHandler, DemoGo, DemoHalt, Inactivity, StrayEnds, DemoThread, DemoEnds,
         DemoExits, Hold, Close, vars, dispatchVars
    <3> QED
      BY <3>1, <2>2
  <2>4. CASE TakeWake \/ TakeEvidence \/ TakePoll \/ BeginObservation \/ Look
    <3>1. UNCHANGED dispatchVars
      BY <2>4 DEF TakeWake, TakeEvidence, TakePoll, BeginObservation, Look, FetchFails,
         FetchSuppressed, FetchAccepted
    <3>2. worker'.pc # "executing"
      <4>1. CASE TakeWake \/ TakeEvidence \/ TakePoll
        <5>1. worker'.pc = "taken"
          BY <2>a, <4>1, WorkIs DEF TakeWake, TakeEvidence, TakePoll, Awake, Pc, Rest
        <5> QED
          BY <5>1
      <4>2. CASE FetchAccepted
        <5>1. CASE Returns
          BY <2>a, <5>1, WorkGoes
        <5>2. CASE ~Returns
          <6>1. PICK view \in View :
                  worker' = [worker EXCEPT !.due = pending, !.of = view,
                              !.pc = IF pending # "none" /\ worker.reason = "evidence"
                                       THEN "accepted" ELSE "viewed"]
            BY <4>2, <5>2 DEF FetchAccepted
          <6>2. worker'.pc \in {"accepted", "viewed"}
            BY <2>a, <6>1 DEF Work
          <6> QED
            BY <6>2
        <5> QED
          BY <5>1, <5>2
      <4>3. CASE BeginObservation \/ FetchFails \/ FetchSuppressed
        <5>1. Returns \/ Goto("fetching") \/ Goto("faulting")
          BY <4>3 DEF BeginObservation, FetchFails, FetchSuppressed, MoveHome
        <5> QED
          BY <2>a, <5>1, WorkGoes DEF Pc
      <4> QED
        BY <2>4, <4>1, <4>2, <4>3 DEF Look
    <3> QED
      BY <3>1, <3>2, <2>2, <2>a DEF dispatchVars
  <2>5. CASE Conclude \/ AskModel \/ ModelFails \/ ModelAnswers \/ Decide \/ Propound
    <3>1. runs' = runs /\ (SafeStop \/ UNCHANGED skill)
      BY <2>5 DEF Conclude, FaultHere, Verify, Complete, Blocked, AskModel, ModelFails,
         ModelAnswers, Decide, Observe, AskUser, PauseAsked, Propose, Propound, DryRun,
         Withhold, Deny, ClearSkill, PauseHere, Hold, Fault, Close, Refuse, dispatchVars
    <3>2. \/ Returns \/ Dies
          \/ \E pc \in {"viewed", "modelling", "faulting", "cleared"} : Goto(pc)
          \/ \E pc \in {"decided", "proposed"}, of \in Plan \cup Mode :
               worker' = [worker EXCEPT !.pc = pc, !.of = of]
      <4>1. CASE Conclude
        BY <4>1 DEF Conclude, FaultHere, Verify, Complete, Blocked, PauseHere
      <4>2. CASE AskModel \/ ModelFails \/ ModelAnswers
        BY <4>2 DEF AskModel, ModelFails, ModelAnswers, Move, Refuse
      <4>3. CASE Decide
        BY <2>a, <4>3 DEF Decide, Observe, AskUser, PauseAsked, Propose, PauseHere, MoveHome,
           Refuse, TaskTypeOK, SessionOK
      <4>4. CASE Propound
        BY <4>4 DEF Propound, DryRun, Withhold, Deny, ClearSkill, PauseHere, Move, MoveHome,
           Refuse
      <4> QED
        BY <2>5, <4>1, <4>2, <4>3, <4>4
    <3>3. worker'.pc # "executing"
      BY <2>a, <3>2, WorkGoes DEF Pc
    <3> QED
      BY <3>1, <3>3, <2>2, <2>a
  <2> QED
    BY <2>1, <2>3, <2>4, <2>5 DEF Next, Worker
<1> QED
  BY <1>1, TaskSafety, PTL DEF Spec, LatchIsFinal

\* With a calm operator a skill is started only while no other executes, by a
\* dispatcher without a latch, in simulation and with one left of the session's:
\* what was so when it was cleared still is.  That the session still executes is
\* not, since nothing is looked at between the two (task_orchestrator.py:1886).
SkillStartsClean ==
  [][runs' > runs =>
       runs = 0 /\ ~skill.latched /\ mode = "simulation" /\ executed < MaxActions]_vars

THEOREM SkillsStartClean == CalmSpec => SkillStartsClean
<1> DEFINE Clean == runs' > runs =>
      runs = 0 /\ ~skill.latched /\ mode = "simulation" /\ executed < MaxActions
<1>1. CalmInv /\ [CalmNext]_vars => [Clean]_vars
  <2> SUFFICES ASSUME CalmInv, [CalmNext]_vars, runs' > runs
               PROVE  /\ runs = 0 /\ ~skill.latched
                      /\ mode = "simulation" /\ executed < MaxActions
    OBVIOUS
  <2>1. runs \in Nat /\ runs' \in Nat /\ [Next]_vars
    BY CalmIsNext, TaskKeeps DEF CalmInv, TaskInv, TaskTypeOK, CountsOK
  <2>2. CASE RunSkill
    <3>1. worker.pc = "cleared" /\ ~skill.latched /\ ~skill.active
      BY <2>1, <2>2 DEF RunSkill, Dispatch, SkillEnds, SkillTimesOut, TakeResult, dispatchVars
    <3>2. runs = 0
      BY <3>1 DEF CalmInv, TaskInv, Dispatched
    <3> QED
      BY <3>1, <3>2 DEF CalmInv, TaskInv, Carried, Whereabouts
  <2>3. CASE ~RunSkill
    <3>1. runs' = runs \/ runs' = runs - 1
      <4>1. CASE Operator \/ DemoHandler \/ Inactivity \/ DemoThread \/ UNCHANGED vars
        BY <4>1 DEF Operator, Start, StartFault, Pause, Resume, Stop, Wake, DemoChat, DemoAsk,
           DemoHandler, DemoGo, DemoHalt, Inactivity, DemoThread, DemoEnds, DemoExits, Hold,
           Close, vars, dispatchVars
      <4>2. CASE StrayEnds
        BY <4>2 DEF StrayEnds
      <4>3. CASE TakeWake \/ TakeEvidence \/ TakePoll \/ BeginObservation \/ Look
        BY <4>3 DEF TakeWake, TakeEvidence, TakePoll, BeginObservation, Look, FetchFails,
           FetchSuppressed, FetchAccepted, dispatchVars
      <4>4. CASE Conclude \/ AskModel \/ ModelFails \/ ModelAnswers
        BY <4>4 DEF Conclude, FaultHere, Verify, Complete, Blocked, AskModel, ModelFails,
           ModelAnswers, PauseHere, Hold, Fault, Close, Refuse, dispatchVars
      <4>5. CASE Decide \/ Propound
        BY <4>5 DEF Decide, Observe, AskUser, PauseAsked, Propose, Propound, DryRun, Withhold,
           Deny, ClearSkill, PauseHere, Hold, Fault, Refuse, dispatchVars
      <4> QED
        BY <2>1, <2>3, <4>1, <4>2, <4>3, <4>4, <4>5 DEF Next, Worker
    <3> QED
      BY <2>1, <3>1
  <2> QED
    BY <2>2, <2>3
<1> QED
  BY <1>1, CalmSafety, PTL DEF CalmSpec, SkillStartsClean

\* How many steps of the worker a cleared skill is from its verification.
ToVerify ==
  CASE worker.pc = "cleared"   -> 7
    [] worker.pc = "executing" -> 6
    [] worker.pc = "returned"  -> 5
    [] worker.pc = "idle"      -> 4
    [] worker.pc = "taken"     -> 3
    [] worker.pc = "fetching"  -> 2
    [] worker.pc \in {"accepted", "faulting"} -> 1
    [] OTHER -> 0

\* What SkillSettles has of safety: while the session executes a skill, every
\* step of the worker brings its result closer to the verification, or to the
\* fault in its place, and none is taken for anything else.
SkillAdvances ==
  [][state = "EXECUTING_SKILL" =>
       /\ ToVerify > 0
       /\ state' = "EXECUTING_SKILL" /\ worker' # worker => ToVerify' < ToVerify]_vars

\* The places a worker goes to from each while the state stays.
LEMMA WorkerGoesOn ==
  ASSUME CalmInv, [CalmNext]_vars, worker' # worker,
         state = "EXECUTING_SKILL", state' = "EXECUTING_SKILL"
  PROVE  \/ worker.pc = "cleared" /\ worker'.pc \in {"executing", "faulting"}
         \/ worker.pc = "executing" /\ worker'.pc = "returned"
         \/ worker.pc = "returned" /\ worker'.pc = "idle"
         \/ worker.pc = "idle" /\ worker'.pc = "taken"
         \/ worker.pc = "taken" /\ worker'.pc \in {"fetching", "faulting"}
         \/ worker.pc = "fetching" /\ worker'.pc \in {"accepted", "faulting"}
<1> USE DEF CalmInv
<1>a. TaskTypeOK /\ worker \in Work /\ state \in Active
  BY DEF TaskInv, TaskTypeOK, Active
<1>1. CASE RunSkill
  <2>1. CASE Dispatch
    BY <2>1, <1>a, WorkGoes DEF Dispatch, Pc
  <2>2. CASE SkillEnds \/ SkillTimesOut
    BY <2>2, <1>a DEF SkillEnds, SkillTimesOut, Work
  <2>3. CASE TakeResult
    BY <2>3, <1>a, WorkGoes DEF TakeResult
  <2> QED
    BY <1>1, <2>1, <2>2, <2>3 DEF RunSkill
<1>2. CASE TakeWake \/ TakeEvidence \/ TakePoll
  BY <1>2 DEF TakeWake, TakeEvidence, TakePoll, Awake, Rest
<1>3. CASE BeginObservation
  BY <1>3, <1>a, WorkGoes DEF BeginObservation, Pc
<1>4. CASE Look
  <2>1. worker.pc = "fetching" /\ worker.reason = "evidence" /\ pending # "none"
    BY <1>4 DEF Look, FetchFails, FetchSuppressed, FetchAccepted, Whereabouts
  <2>2. CASE FetchFails
    BY <2>1, <2>2, <1>a, WorkGoes DEF FetchFails, Pc
  <2>3. CASE FetchAccepted
    BY <2>1, <2>3, <1>a DEF FetchAccepted, Work
  <2> QED
    BY <1>4, <2>1, <2>2, <2>3 DEF Look, FetchSuppressed
<1>5. ASSUME Conclude PROVE FALSE
  BY <1>5 DEF Conclude, FaultHere, Verify, Complete, Blocked, Fault, Active, Whereabouts
<1>6. ASSUME AskModel \/ ModelFails \/ ModelAnswers \/ Decide \/ Propound PROVE FALSE
  BY <1>6 DEF AskModel, ModelFails, ModelAnswers, Decide, Observe, AskUser, PauseAsked,
     Propose, Propound, DryRun, Withhold, Deny, ClearSkill, Whereabouts
<1>7. ASSUME CalmOperator \/ DemoHandler \/ Inactivity \/ StrayEnds \/ DemoThread
             \/ UNCHANGED vars
      PROVE  FALSE
  BY <1>7 DEF CalmOperator, Start, StartFault, Pause, Resume, Stop, Wake, DemoChat, DemoAsk,
     DemoHandler, DemoGo, DemoHalt, Inactivity, StrayEnds, DemoThread, DemoEnds, DemoExits, vars
<1> QED
  BY <1>1, <1>2, <1>3, <1>4, <1>5, <1>6, <1>7 DEF CalmNext, Worker

THEOREM SkillComesCloser == CalmSpec => SkillAdvances
<1> DEFINE Closer == state = "EXECUTING_SKILL" =>
      /\ ToVerify > 0
      /\ state' = "EXECUTING_SKILL" /\ worker' # worker => ToVerify' < ToVerify
<1>1. CalmInv /\ [CalmNext]_vars => [Closer]_vars
  <2> SUFFICES ASSUME CalmInv, [CalmNext]_vars, state = "EXECUTING_SKILL"
               PROVE  /\ ToVerify > 0
                      /\ state' = "EXECUTING_SKILL" /\ worker' # worker => ToVerify' < ToVerify
    OBVIOUS
  <2>1. worker.pc \in {"cleared", "executing", "returned", "idle", "taken", "fetching",
                       "accepted", "faulting"}
    BY DEF CalmInv, TaskInv, TaskTypeOK, Work, Pc, Whereabouts
  <2>2. ToVerify > 0
    BY <2>1 DEF ToVerify
  <2>3. ASSUME state' = "EXECUTING_SKILL", worker' # worker PROVE ToVerify' < ToVerify
    BY <2>3, WorkerGoesOn DEF ToVerify
  <2> QED
    BY <2>2, <2>3
<1> QED
  BY <1>1, CalmSafety, PTL DEF CalmSpec, SkillAdvances
=============================================================================
