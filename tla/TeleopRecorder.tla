--------------------------- MODULE TeleopRecorder ---------------------------
(***************************************************************************)
(* The Studio's teleoperation recorder: one TeleopRecordingManager object, *)
(* the HTTP handler threads that call its operations, the record-loop      *)
(* threads it starts (one per attempt), the drafts, archive and recordings *)
(* they leave on disk, and the crash or shutdown of the process.           *)
(*                                                                         *)
(* One action is one critical section of the manager's lock, or one piece  *)
(* of unlocked work between two of them.  The physical follower mode is    *)
(* modelled: the simulation mode runs the same control with no torque.     *)
(***************************************************************************)
EXTENDS Naturals, FiniteSets

CONSTANTS
  Rec,         \* recording ids; uuid4 makes each fresh, so each is used once
  NoRec,       \* Python's None where a recording, backend or thread could be
  Client,      \* HTTP handler threads
  MaxSamples   \* bound: rows one attempt writes at most

ASSUME NoRecAssumption == NoRec \notin Rec
ASSUME MaxSamplesAssumption == MaxSamples \in Nat \ {0}

VARIABLES
  \* ---- fields of the manager, shared by every thread
  st,        \* self.state
  backend,   \* self.backend: the attempt whose gateway it is
  video,     \* self.dual_video_recorder: the attempt whose cameras it is
  stopEv,    \* self.stop_event
  thread,    \* self.thread: the attempt of the last thread started
  \* ---- record-loop threads
  pc,        \* where the thread of an attempt stands
  errs,      \* its local list `errors` is non-empty
  snap,      \* its local failed_state / draft_state
  \* ---- hardware
  gate,      \* the physical gateway opened for an attempt
  cam,       \* the camera session started for an attempt
  \* ---- disk
  drafts,    \* attempts with a directory under drafts/
  failures,  \* attempts with a directory under failed_attempts/
  rows,      \* lines of samples.jsonl in an attempt's draft directory
  dstate,    \* draft_state.json in an attempt's draft directory
  recorded,  \* lines of samples.jsonl under recordings/ (0: no directory)
  receipt,   \* sample_count of recording_receipt.json (0: no receipt)
  \* ---- callers
  client,    \* where a handler thread stands, and its local variables
  srv        \* the Studio process

memVars  == <<st, backend, video, stopEv, thread>>
thrVars  == <<pc, errs, snap>>
devVars  == <<gate, cam>>
diskVars == <<drafts, failures, rows, dstate, recorded, receipt>>
callVars == <<client, srv>>
vars == <<memVars, thrVars, devVars, diskVars, callVars>>

OptRec == Rec \cup {NoRec}
Status == {"idle", "starting", "recording", "stopping", "awaiting_label",
           "error", "saved", "discarded"}

\* self.state: rid is recording_id, draft says draft_path is not None,
\* torque is physical_follower_torque_enabled, samples is sample_count.
State == [status: Status, rid: OptRec, draft: BOOLEAN,
          samples: 0..MaxSamples, torque: BOOLEAN]

IdleState == [status |-> "idle", rid |-> NoRec, draft |-> FALSE,
              samples |-> 0, torque |-> FALSE]

DiscardedState   == [IdleState EXCEPT !.status = "discarded"]
StartingState(r) == [IdleState EXCEPT !.status = "starting", !.rid = r, !.draft = TRUE]

\* No draft_state.json in the draft directory.
NoFile == [IdleState EXCEPT !.status = "none"]

Working  == {"videos", "opening", "arming", "announce", "loop", "export",
             "close", "finish", "publish"}
Settling == {"persist", "archive", "reset", "signal"}
Alive(r) == pc[r] \in Working \cup Settling

ClientPc == {"idle", "archive", "reset", "begin", "wait", "check", "join",
             "syncCheck", "connect"}
Ops      == {"none", "start", "sync", "discard"}
IdleClient == [pc |-> "idle", op |-> "none", rid |-> NoRec]

Active == {"starting", "recording"}

TypeOK ==
  /\ st \in State
  /\ backend \in OptRec /\ video \in OptRec /\ thread \in OptRec
  /\ stopEv \in BOOLEAN
  /\ pc \in [Rec -> {"none", "ended", "died"} \cup Working \cup Settling]
  /\ errs \in [Rec -> BOOLEAN]
  /\ snap \in [Rec -> State]
  /\ gate \in [Rec -> {"off", "held", "stuck", "abandoned"}]
  /\ cam \in [Rec -> {"off", "on", "done", "failed"}]
  /\ drafts \subseteq Rec /\ failures \subseteq Rec
  /\ rows \in [Rec -> 0..MaxSamples]
  /\ dstate \in [Rec -> State \cup {NoFile}]
  /\ recorded \in [Rec -> 0..MaxSamples]
  /\ receipt \in [Rec -> 0..MaxSamples]
  /\ client \in [Client -> [pc: ClientPc, op: Ops, rid: OptRec]]
  /\ srv \in {"up", "stopping", "joining", "exited", "crashed"}

Init ==
  /\ st = IdleState
  /\ backend = NoRec /\ video = NoRec /\ thread = NoRec
  /\ stopEv = FALSE
  /\ pc = [r \in Rec |-> "none"]
  /\ errs = [r \in Rec |-> FALSE]
  /\ snap = [r \in Rec |-> IdleState]
  /\ gate = [r \in Rec |-> "off"]
  /\ cam = [r \in Rec |-> "off"]
  /\ drafts = {} /\ failures = {}
  /\ rows = [r \in Rec |-> 0]
  /\ dstate = [r \in Rec |-> NoFile]
  /\ recorded = [r \in Rec |-> 0]
  /\ receipt = [r \in Rec |-> 0]
  /\ client = [c \in Client |-> IdleClient]
  /\ srv = "up"

-----------------------------------------------------------------------------
(* Helpers shared by the record loop and the handlers                       *)

\* _archive_failed_draft for the draft directory of x (NoRec: draft_path is
\* None): a missing draft or an existing destination leaves the disk alone.
ArchiveDraft(x) ==
  IF x \in drafts /\ x \notin failures
    THEN /\ drafts' = drafts \ {x}
         /\ failures' = failures \cup {x}
         /\ rows' = [rows EXCEPT ![x] = 0]
         /\ dstate' = [dstate EXCEPT ![x] = NoFile]
    ELSE UNCHANGED <<drafts, failures, rows, dstate>>

DraftOf(s) == IF s.draft THEN s.rid ELSE NoRec

\* The bus connect of a new session disables the follower's torque, so what an
\* earlier session or a dead process left energised is released.
Connected(x) == IF gate[x] \in {"stuck", "abandoned"} THEN "off" ELSE gate[x]

\* ready_event.set(): every handler blocked in ready_event.wait() wakes.
Woken == [c \in Client |->
            IF client[c].pc = "wait" THEN [client[c] EXCEPT !.pc = "check"]
                                     ELSE client[c]]

Running == srv \notin {"exited", "crashed"}

-----------------------------------------------------------------------------
(* _record_loop, run by the thread of attempt r                             *)

At(r, here)  == Running /\ pc[r] = here
Goto(r, there) == pc' = [pc EXCEPT ![r] = there]

\* Mutant: the camera is left to start by itself.
StartVideoLazy(r) ==
  /\ At(r, "videos") /\ Goto(r, "opening")
  /\ UNCHANGED <<memVars, errs, snap, devVars, diskVars, callVars>>

\* The camera session starts before the follower is opened.
StartVideo(r) ==
  /\ At(r, "videos") /\ Goto(r, "opening")
  /\ video' = r
  /\ cam' = [cam EXCEPT ![r] = "on"]
  /\ UNCHANGED <<st, backend, stopEv, thread, errs, snap, gate, diskVars, callVars>>

\* self.backend = factory(...); its open() connects the bus and starts the
\* bounded sync and the torque-held countdown.
OpenBackend(r) ==
  /\ At(r, "opening") /\ Goto(r, "arming")
  /\ backend' = r
  /\ gate' = [x \in Rec |-> IF x = r THEN "held" ELSE Connected(x)]
  /\ UNCHANGED <<st, video, stopEv, thread, errs, snap, cam, diskVars, callVars>>

\* open() returned: the initial evaluator state is written (_atomic_json makes
\* the directory again if it has gone), and under the lock the attempt is
\* admitted as a recording.
Admit(r) ==
  /\ At(r, "arming") /\ Goto(r, "announce")
  /\ st' = [st EXCEPT !.status = "recording", !.torque = TRUE]
  /\ drafts' = drafts \cup {r}
  /\ UNCHANGED <<backend, video, stopEv, thread, errs, snap, devVars, failures,
                 rows, dstate, recorded, receipt, callVars>>

Announce(r) ==
  /\ At(r, "announce") /\ Goto(r, "loop")
  /\ client' = Woken
  /\ UNCHANGED <<memVars, errs, snap, devVars, diskVars, srv>>

\* One pass of the loop: the row is numbered by the shared sample_count,
\* written and counted; recording_complete sets the stop event.  A row written
\* through the open handle of a draft that was moved or removed is not in it.
\* The count is read and set in two critical sections of the same pass; while
\* one recorder works no other thread sets it in between.
Sample(r) ==
  /\ At(r, "loop") /\ ~stopEv
  /\ backend # NoRec /\ st.rid # NoRec
  /\ rows[r] < MaxSamples /\ st.samples < MaxSamples
  /\ rows' = [rows EXCEPT ![r] = IF r \in drafts THEN @ + 1 ELSE @]
  /\ st' = [st EXCEPT !.samples = @ + 1]
  /\ \E complete \in BOOLEAN : stopEv' = complete
  /\ UNCHANGED <<backend, video, thread, thrVars, devVars, drafts, failures,
                 dstate, recorded, receipt, callVars>>

LeaveLoop(r) ==
  /\ At(r, "loop") /\ stopEv /\ Goto(r, "export")
  /\ st' = [st EXCEPT !.status = "stopping"]
  /\ UNCHANGED <<backend, video, stopEv, thread, errs, snap, devVars, diskVars, callVars>>

ExportTrace(r) ==
  /\ At(r, "export") /\ Goto(r, "close")
  /\ UNCHANGED <<memVars, errs, snap, devVars, diskVars, callVars>>

\* Mutant: the cleanup is not in a finally block.
RaiseNoFinally(r) ==
  /\ At(r, "loop") /\ Goto(r, "publish")
  /\ errs' = [errs EXCEPT ![r] = TRUE]
  /\ UNCHANGED <<memVars, snap, devVars, diskVars, callVars>>

\* An exception anywhere in the try block.  A factory may have set its field
\* before the start() or open() it was needed for failed.
Raise(r) ==
  /\ Running /\ pc[r] \in {"videos", "opening", "arming", "loop", "export"}
  /\ Goto(r, "close")
  /\ errs' = [errs EXCEPT ![r] = TRUE]
  /\ video' \in (IF pc[r] = "videos" THEN {video, r} ELSE {video})
  /\ backend' \in (IF pc[r] = "opening" THEN {backend, r} ELSE {backend})
  /\ UNCHANGED <<st, stopEv, thread, snap, devVars, diskVars, callVars>>

\* Mutant: the backend is dropped without being closed.
CloseBackendDropped(r) ==
  /\ At(r, "close") /\ Goto(r, "finish")
  /\ backend' = NoRec
  /\ UNCHANGED <<st, video, stopEv, thread, errs, snap, devVars, diskVars, callVars>>

\* finally: close whatever gateway self.backend holds, then drop it.
CloseBackend(r) ==
  /\ At(r, "close") /\ Goto(r, "finish")
  /\ backend' = NoRec
  /\ IF backend # NoRec /\ gate[backend] = "held"
       THEN \E end \in {"off", "stuck"} :
              /\ gate' = [gate EXCEPT ![backend] = end]
              /\ errs' = [errs EXCEPT ![r] = @ \/ end = "stuck"]
       ELSE UNCHANGED <<gate, errs>>
  /\ UNCHANGED <<st, video, stopEv, thread, snap, cam, diskVars, callVars>>

\* Then finish the camera session self.dual_video_recorder holds; a session
\* that never started or did not complete both streams is an error.  Its
\* metadata is written into the draft unless finish() itself raised.
FinishVideo(r) ==
  /\ At(r, "finish") /\ Goto(r, "publish")
  /\ video' = NoRec
  /\ IF video # NoRec
       THEN \E end \in {"done", "failed"} :
              /\ end = "done" => cam[video] = "on"
              /\ cam' = [cam EXCEPT ![video] = end]
              /\ errs' = [errs EXCEPT ![r] = @ \/ end = "failed"]
              /\ drafts' \in {drafts \cup {r}}
                             \cup (IF end = "failed" THEN {drafts} ELSE {})
       ELSE UNCHANGED <<cam, errs, drafts>>
  /\ UNCHANGED <<st, backend, stopEv, thread, snap, gate, failures, rows, dstate,
                 recorded, receipt, callVars>>

\* Mutant: errors do not make the attempt a failure.
PublishIgnoringErrors(r) ==
  /\ At(r, "publish") /\ Goto(r, "persist")
  /\ st' = [st EXCEPT !.status = "awaiting_label", !.torque = FALSE]
  /\ snap' = [snap EXCEPT ![r] = st']
  /\ UNCHANGED <<backend, video, stopEv, thread, errs, devVars, diskVars, callVars>>

\* Under the lock: the attempt's outcome, and a copy of the state.
Publish(r) ==
  /\ At(r, "publish") /\ Goto(r, "persist")
  /\ st' = [st EXCEPT !.status = IF errs[r] THEN "error" ELSE "awaiting_label",
                      !.torque = FALSE]
  /\ snap' = [snap EXCEPT ![r] = st']
  /\ UNCHANGED <<backend, video, stopEv, thread, errs, devVars, diskVars, callVars>>

\* draft_state.json of the thread's own draft; _atomic_json creates the
\* directory again when the draft has gone meanwhile.
Persist(r) ==
  /\ At(r, "persist") /\ Goto(r, IF errs[r] THEN "archive" ELSE "signal")
  /\ drafts' = drafts \cup {r}
  /\ dstate' = [dstate EXCEPT ![r] = snap[r]]
  /\ UNCHANGED <<memVars, errs, snap, devVars, failures, rows, recorded,
                 receipt, callVars>>

ArchiveFailed(r) ==
  /\ At(r, "archive") /\ Goto(r, "reset")
  /\ ArchiveDraft(DraftOf(snap[r]))
  /\ UNCHANGED <<memVars, errs, snap, devVars, recorded, receipt, callVars>>

\* Mutant: the failed state is left for the operator to clear.
ResetForgotten(r) ==
  /\ At(r, "reset") /\ Goto(r, "signal")
  /\ UNCHANGED <<memVars, errs, snap, devVars, diskVars, callVars>>

\* The failed thread replaces the state, whatever it has become, by idle.
ResetToIdle(r) ==
  /\ At(r, "reset") /\ Goto(r, "signal")
  /\ st' = IdleState
  /\ UNCHANGED <<backend, video, stopEv, thread, errs, snap, devVars, diskVars, callVars>>

Signal(r) ==
  /\ At(r, "signal") /\ Goto(r, "ended")
  /\ client' = Woken
  /\ UNCHANGED <<memVars, errs, snap, devVars, diskVars, srv>>

\* A file operation of the finally block raises before it has done its work:
\* the thread dies there and neither resets the state nor sets the ready event.
\* _atomic_json may have made the draft directory again first.
DiskFault(r) ==
  /\ Running /\ pc[r] \in {"persist", "archive"} /\ Goto(r, "died")
  /\ drafts' \in {drafts} \cup (IF pc[r] = "persist" THEN {drafts \cup {r}} ELSE {})
  /\ UNCHANGED <<memVars, errs, snap, devVars, failures, rows, dstate, recorded,
                 receipt, callVars>>

\* The draft was moved to the archive, and the rewrite of its draft_state.json
\* there raised: the thread dies with the move done.
ArchiveFault(r) ==
  /\ At(r, "archive") /\ Goto(r, "died")
  /\ ArchiveDraft(DraftOf(snap[r]))
  /\ UNCHANGED <<memVars, errs, snap, devVars, recorded, receipt, callVars>>

RecordStep(r) ==
  \/ StartVideo(r) \/ OpenBackend(r) \/ Admit(r) \/ Announce(r)
  \/ Sample(r) \/ LeaveLoop(r) \/ ExportTrace(r)
  \/ CloseBackend(r) \/ FinishVideo(r) \/ Publish(r)
  \/ Persist(r) \/ ArchiveFailed(r) \/ ResetToIdle(r) \/ Signal(r)

RecordLoop(r) == RecordStep(r) \/ Raise(r) \/ DiskFault(r) \/ ArchiveFault(r)

-----------------------------------------------------------------------------
(* The operations, run by handler thread c                                  *)

Idle(c)        == Running /\ client[c].pc = "idle"
Answered(c)    == client' = [client EXCEPT ![c] = IdleClient]
Step(c, there) == client' = [client EXCEPT ![c].pc = there]
Begun(c, there, op, x) ==
  client' = [client EXCEPT ![c] = [pc |-> there, op |-> op, rid |-> x]]

\* start and synchronize_physical_gateway begin by looking, under the lock, for
\* a failed attempt; with none they go on to their own critical section.
Request(c, op, there) ==
  /\ Idle(c) /\ srv = "up"
  /\ st.status # "error"
  /\ Begun(c, there, op, NoRec)
  /\ UNCHANGED <<memVars, thrVars, devVars, diskVars, srv>>

StartRequest(c) == Request(c, "start", "begin")
SyncRequest(c)  == Request(c, "sync", "syncCheck")

\* They, and discard, found a failed attempt: its copy is archived without the
\* lock.
RetryRequest(c) ==
  /\ Idle(c) /\ srv = "up"
  /\ st.status = "error"
  /\ \E op \in {"start", "sync", "discard"} : Begun(c, "archive", op, DraftOf(st))
  /\ UNCHANGED <<memVars, thrVars, devVars, diskVars, srv>>

RetryArchive(c) ==
  /\ Running /\ client[c].pc = "archive"
  /\ ArchiveDraft(client[c].rid)
  /\ Step(c, "reset")
  /\ UNCHANGED <<memVars, thrVars, devVars, recorded, receipt, srv>>

\* Moving the failed draft raised before the move: the handler answers with
\* the error.
RetryFault(c) ==
  /\ Running /\ client[c].pc = "archive"
  /\ Answered(c)
  /\ UNCHANGED <<memVars, thrVars, devVars, diskVars, srv>>

\* The move was done, and the rewrite of draft_state.json after it raised.
RetryArchiveFault(c) ==
  /\ Running /\ client[c].pc = "archive"
  /\ ArchiveDraft(client[c].rid)
  /\ Answered(c)
  /\ UNCHANGED <<memVars, thrVars, devVars, recorded, receipt, srv>>

\* The second critical section of _return_failed_attempt_to_ready does not
\* look at the state again before it replaces it.
RetryReset(c) ==
  /\ Running /\ client[c].pc = "reset"
  /\ st' = IdleState
  /\ \/ client[c].op = "start"   /\ Begun(c, "begin", "start", NoRec)
     \/ client[c].op = "sync"    /\ Begun(c, "syncCheck", "sync", NoRec)
     \/ client[c].op = "discard" /\ Answered(c)
  /\ UNCHANGED <<backend, video, stopEv, thread, thrVars, devVars, diskVars, srv>>

\* A request that is malformed, not acknowledged, or fails its preflight.
Rejected(c) ==
  /\ Running /\ client[c].pc = "begin"
  /\ Answered(c)
  /\ UNCHANGED <<memVars, thrVars, devVars, diskVars, srv>>

\* Mutant: start does not look at the status.
StartUnguarded(c, r) ==
  /\ Running /\ client[c].pc = "begin" /\ pc[r] = "none"
  /\ drafts' = drafts \cup {r}
  /\ stopEv' = FALSE
  /\ st' = StartingState(r)
  /\ thread' = r
  /\ Goto(r, "videos")
  /\ Begun(c, "wait", "start", r)
  /\ UNCHANGED <<backend, video, errs, snap, devVars, failures, rows, dstate,
                 recorded, receipt, srv>>

\* start's critical section: a new attempt, its draft directory, its thread.
Start(c, r) ==
  /\ Running /\ client[c].pc = "begin"
  /\ st.status \in {"idle", "saved", "discarded"}
  /\ pc[r] = "none"
  /\ drafts' = drafts \cup {r}
  /\ stopEv' = FALSE
  /\ st' = StartingState(r)
  /\ thread' = r
  /\ Goto(r, "videos")
  /\ Begun(c, "wait", "start", r)
  /\ UNCHANGED <<backend, video, errs, snap, devVars, failures, rows, dstate,
                 recorded, receipt, srv>>

\* ready_event.wait timed out.
StartTimeout(c) ==
  /\ Running /\ client[c].pc = "wait"
  /\ stopEv' = TRUE
  /\ Answered(c)
  /\ UNCHANGED <<st, backend, video, thread, thrVars, devVars, diskVars, srv>>

\* Woken: the answer depends on the status alone, and changes nothing.
StartAnswer(c) ==
  /\ Running /\ client[c].pc = "check"
  /\ Answered(c)
  /\ UNCHANGED <<memVars, thrVars, devVars, diskVars, srv>>

Stop(c) ==
  /\ Idle(c) /\ srv = "up"
  /\ st.status \in Active
  /\ stopEv' = TRUE
  /\ Begun(c, "join", "none", thread)
  /\ UNCHANGED <<st, backend, video, thread, thrVars, devVars, diskVars, srv>>

\* thread.join returned, or ran into its timeout.
StopAnswer(c) ==
  /\ Running /\ client[c].pc = "join"
  /\ Answered(c)
  /\ UNCHANGED <<memVars, thrVars, devVars, diskVars, srv>>

\* What finalize checks of the draft before it moves anything.
Complete(r) ==
  /\ r \in drafts
  /\ st.samples >= 1 /\ rows[r] = st.samples
  /\ cam[r] = "done"

\* Mutant: the draft is copied, not moved.
CopyToRecordings(r) ==
  /\ recorded[r] = 0
  /\ recorded' = [recorded EXCEPT ![r] = rows[r]]
  /\ UNCHANGED <<drafts, rows, dstate>>

MoveToRecordings(r) ==
  /\ recorded[r] = 0
  /\ drafts' = drafts \ {r}
  /\ recorded' = [recorded EXCEPT ![r] = rows[r]]
  /\ rows' = [rows EXCEPT ![r] = 0]
  /\ dstate' = [dstate EXCEPT ![r] = NoFile]

\* Mutant: the receipt counts one sample too many.
FinalizeOffByOne(c) ==
  /\ Idle(c) /\ srv = "up"
  /\ st.status = "awaiting_label" /\ st.draft
  /\ Complete(st.rid) /\ MoveToRecordings(st.rid)
  /\ receipt' = [receipt EXCEPT ![st.rid] = st.samples + 1]
  /\ st' = [st EXCEPT !.status = "saved", !.draft = FALSE]
  /\ UNCHANGED <<backend, video, stopEv, thread, thrVars, devVars, failures, callVars>>

\* finalize, one critical section: move the draft, hash, write the receipt.
Finalize(c) ==
  /\ Idle(c) /\ srv = "up"
  /\ st.status = "awaiting_label" /\ st.draft
  /\ Complete(st.rid) /\ MoveToRecordings(st.rid)
  /\ receipt' = [receipt EXCEPT ![st.rid] = st.samples]
  /\ st' = [st EXCEPT !.status = "saved", !.draft = FALSE]
  /\ UNCHANGED <<backend, video, stopEv, thread, thrVars, devVars, failures, callVars>>

\* Hashing or writing the receipt raised after the move.
FinalizeFault(c) ==
  /\ Idle(c) /\ srv = "up"
  /\ st.status = "awaiting_label" /\ st.draft
  /\ Complete(st.rid) /\ MoveToRecordings(st.rid)
  /\ UNCHANGED <<memVars, thrVars, devVars, failures, receipt, callVars>>

\* Mutant: the draft stays on disk.
DiscardKeepsDraft(c) ==
  /\ Idle(c) /\ srv = "up"
  /\ st.status = "awaiting_label"
  /\ st' = DiscardedState
  /\ UNCHANGED <<backend, video, stopEv, thread, thrVars, devVars, diskVars, callVars>>

\* discard of a stopped draft removes it.
Discard(c) ==
  /\ Idle(c) /\ srv = "up"
  /\ st.status = "awaiting_label"
  /\ IF st.draft
       THEN /\ drafts' = drafts \ {st.rid}
            /\ rows' = [rows EXCEPT ![st.rid] = 0]
            /\ dstate' = [dstate EXCEPT ![st.rid] = NoFile]
       ELSE UNCHANGED <<drafts, rows, dstate>>
  /\ st' = DiscardedState
  /\ UNCHANGED <<backend, video, stopEv, thread, thrVars, devVars, failures,
                 recorded, receipt, callVars>>

\* Removing the draft raised part of the way: the state stays, its files may
\* be gone.
DiscardFault(c) ==
  /\ Idle(c) /\ srv = "up"
  /\ st.status = "awaiting_label" /\ st.rid \in drafts
  /\ \E left \in {0, rows[st.rid]}, file \in {NoFile, dstate[st.rid]} :
       /\ rows' = [rows EXCEPT ![st.rid] = left]
       /\ dstate' = [dstate EXCEPT ![st.rid] = file]
  /\ UNCHANGED <<memVars, thrVars, devVars, drafts, failures, recorded, receipt, callVars>>

\* verify_physical_gateway and synchronize_physical_gateway look at the status
\* under the lock ...
VerifyRequest(c) ==
  /\ Idle(c) /\ srv = "up"
  /\ st.status \notin Active
  /\ Begun(c, "connect", "none", NoRec)
  /\ UNCHANGED <<memVars, thrVars, devVars, diskVars, srv>>

Synchronize(c) ==
  /\ Running /\ client[c].pc = "syncCheck"
  /\ IF st.status \in Active \cup {"awaiting_label"}
       THEN Answered(c)
       ELSE Step(c, "connect")
  /\ UNCHANGED <<memVars, thrVars, devVars, diskVars, srv>>

\* ... and open a gateway of their own without it, whatever has started
\* meanwhile, unless the connect raises.  An attempt's gateway that is open then
\* still counts as held: its recorder goes on commanding it, though the connect
\* may have cut its torque.
GatewayAnswer(c) ==
  /\ Running /\ client[c].pc = "connect"
  /\ gate' \in {gate, [x \in Rec |-> Connected(x)]}
  /\ Answered(c)
  /\ UNCHANGED <<memVars, thrVars, cam, diskVars, srv>>

Routine(c) ==
  \/ StartRequest(c)
  \/ RetryArchive(c) \/ RetryFault(c) \/ RetryArchiveFault(c) \/ RetryReset(c)
  \/ Rejected(c)
  \/ (\E r \in Rec : Start(c, r)) \/ StartTimeout(c) \/ StartAnswer(c)
  \/ Stop(c) \/ StopAnswer(c)
  \/ VerifyRequest(c) \/ SyncRequest(c) \/ Synchronize(c) \/ GatewayAnswer(c)

-----------------------------------------------------------------------------
(* The process                                                              *)

\* The threads die with the process; motors it had energised stay energised.
ProcessEnds ==
  /\ pc' = [r \in Rec |-> IF Alive(r) THEN "ended" ELSE pc[r]]
  /\ gate' = [r \in Rec |-> IF gate[r] = "held" THEN "abandoned" ELSE gate[r]]
  /\ client' = [c \in Client |-> IdleClient]

\* shutdown looks at the status under the lock ...
Shutdown ==
  /\ srv = "up"
  /\ IF st.status \in Active
       THEN /\ srv' = "stopping"
            /\ UNCHANGED <<pc, gate, client>>
       ELSE /\ srv' = "exited"
            /\ ProcessEnds
  /\ UNCHANGED <<memVars, errs, snap, cam, diskVars>>

\* ... and stop() looks at it again: with no attempt active any more its
\* conflict is caught and nothing is waited for.
ShutdownStop ==
  /\ srv = "stopping"
  /\ stopEv' = TRUE
  /\ IF st.status \in Active
       THEN /\ srv' = "joining"
            /\ UNCHANGED <<pc, gate, client>>
       ELSE /\ srv' = "exited"
            /\ ProcessEnds
  /\ UNCHANGED <<st, backend, video, thread, errs, snap, cam, diskVars>>

\* The join of the recorder thread returned, or timed out.
ShutdownJoined ==
  /\ srv = "joining"
  /\ srv' = "exited"
  /\ ProcessEnds
  /\ UNCHANGED <<memVars, errs, snap, cam, diskVars>>

Crash ==
  /\ Running
  /\ srv' = "crashed"
  /\ ProcessEnds
  /\ UNCHANGED <<memVars, errs, snap, cam, diskVars>>

\* A crash inside finalize, after the move and before the receipt.
CrashInFinalize(c) ==
  /\ Idle(c) /\ srv = "up"
  /\ st.status = "awaiting_label" /\ st.draft
  /\ Complete(st.rid) /\ MoveToRecordings(st.rid)
  /\ srv' = "crashed"
  /\ ProcessEnds
  /\ UNCHANGED <<memVars, errs, snap, cam, failures, receipt>>

DraftsMarked(status) == {d \in drafts : dstate[d].status = status}

\* _recover_existing_state in the constructor of a new process.
Restart ==
  /\ ~Running
  /\ srv' = "up"
  /\ LET moved == ({DraftOf(dstate[d]) : d \in DraftsMarked("error")} \cap drafts)
                     \ failures
     IN  /\ drafts' = drafts \ moved
         /\ failures' = failures \cup moved
         /\ rows' = [r \in Rec |-> IF r \in moved THEN 0 ELSE rows[r]]
         /\ dstate' = [r \in Rec |-> IF r \in moved THEN NoFile ELSE dstate[r]]
  /\ IF DraftsMarked("awaiting_label") = {}
       THEN st' = IdleState
       ELSE \E d \in DraftsMarked("awaiting_label") :
              st' = [dstate[d] EXCEPT !.torque = FALSE]
  /\ backend' = NoRec /\ video' = NoRec /\ thread' = NoRec /\ stopEv' = FALSE
  /\ UNCHANGED <<thrVars, devVars, recorded, receipt, client>>

Process ==
  Shutdown \/ ShutdownStop \/ ShutdownJoined \/ Crash \/ Restart

\* The operator disposes of an attempt: saves or discards its draft, or issues
\* the request that finds it failed.
Dispose(c) ==
  \/ Finalize(c) \/ FinalizeFault(c) \/ CrashInFinalize(c)
  \/ Discard(c) \/ DiscardFault(c) \/ RetryRequest(c)

Next ==
  \/ \E r \in Rec : RecordLoop(r)
  \/ \E c \in Client : Routine(c)
  \/ \E c \in Client : Dispose(c)
  \/ Process

-----------------------------------------------------------------------------
(* Specifications                                                           *)

\* Every interleaving of handlers the threading server allows.
Spec == Init /\ [][Next]_vars

\* No recorder thread is still settling and no other handler is archiving.
Quiet ==
  /\ \A r \in Rec : ~Alive(r)
  /\ \A c \in Client : client[c].pc \notin {"archive", "reset"}

\* The calm operator waits for the recorder thread to end, as stop() does,
\* before disposing of its attempt.  Nothing in the manager enforces this:
\* what goes wrong without it is shown by runs of Spec.
CalmNext ==
  \/ \E r \in Rec : RecordLoop(r)
  \/ \E c \in Client : Routine(c)
  \/ \E c \in Client : Quiet /\ Dispose(c)
  \/ Process

CalmSpec == Init /\ [][CalmNext]_vars

\* Threads are scheduled, and device and disk calls return: bus reads are
\* retried a fixed number of times, waits and joins have timeouts.  Nothing
\* forces an operator to issue a request, a device to fail or the loop to be
\* interrupted, so those steps have no fairness.
Fairness ==
  /\ \A r \in Rec : WF_vars(RecordStep(r))
  /\ \A c \in Client : WF_vars(RetryArchive(c) \/ RetryReset(c)
                               \/ StartTimeout(c) \/ StopAnswer(c))

CalmFairSpec == CalmSpec /\ Fairness

-----------------------------------------------------------------------------
(* Properties                                                               *)

\* One recorder at a time: start refuses while an attempt is unfinished
\* ("Stop, label, or discard the current recording first."), so two record
\* loops never use the shared gateway, cameras and state together.
OneRecorder ==
  \A r, s \in Rec : pc[r] \in Working /\ pc[s] \in Working => r = s

\* While a recorder's gateway may hold the follower under torque, the state
\* the operator polls shows that attempt as the unfinished one, so that stop
\* or shutdown can still reach it.  A gateway whose close raised is no longer
\* held in this sense, and shown as the error of its attempt.
TorqueIsVisible ==
  \A r \in Rec : gate[r] = "held" =>
    /\ st.rid = r /\ st.status \in {"starting", "recording", "stopping"}
    /\ backend = r

\* Every admitted recording starts its cameras before the follower opens, and
\* torque closes before them: no motion happens that no camera sees.
TorqueUnderCamera ==
  \A r \in Rec : gate[r] = "held" => cam[r] = "on"

\* A stopped draft waiting for its label is never hidden: the manager offers
\* exactly that draft, also after a crash and recovery.
AwaitedIsOffered ==
  \A d \in DraftsMarked("awaiting_label") :
    /\ \A e \in DraftsMarked("awaiting_label") : d = e
    /\ Running => st.status = "awaiting_label" /\ st.rid = d

\* A receipt certifies a finished recording: all counted rows are there, both
\* camera streams completed, its gateway is closed, and no draft of it is left
\* that could be labelled a second time.
SavedIsComplete ==
  \A r \in Rec : receipt[r] # 0 =>
    /\ recorded[r] = receipt[r]
    /\ cam[r] = "done" /\ gate[r] # "held"
    /\ r \notin drafts \cup failures

\* Evidence of a failed attempt is retained: neither discard nor a recovery,
\* nor the reuse of the shared state by a later attempt, removes it or turns
\* it into a labelled recording.
FailedEvidenceKept ==
  \A r \in Rec : errs[r] =>
    /\ r \in drafts \cup failures
    /\ recorded[r] = 0

-----------------------------------------------------------------------------
(* The inductive invariant of the calm specification                        *)

Owning == Working \cup {"persist", "archive", "reset"}

\* A thread that is not past its last write of the state owns the state.
Ownership ==
  \A r \in Rec :
    /\ pc[r] \in Owning => st.rid = r /\ st.draft
    /\ pc[r] \in {"videos", "opening", "arming"} => st.status = "starting"
    /\ pc[r] \in {"announce", "loop"} => st.status = "recording"
    /\ pc[r] = "export" => st.status = "stopping"
    /\ pc[r] \in {"close", "finish", "publish"} =>
         st.status \in Active \cup {"stopping"}
    /\ pc[r] = "persist" =>
         /\ snap[r] = st
         /\ st.status = IF errs[r] THEN "error" ELSE "awaiting_label"
    /\ pc[r] \in {"archive", "reset"} => errs[r] /\ st.status = "error"

\* Retries run alone, on a state nobody changes under them.
Retrying ==
  \A c \in Client : client[c].pc \in {"archive", "reset"} =>
    /\ st.status = "error"
    /\ \A r \in Rec : ~Alive(r)
    /\ \A d \in Client : client[d].pc \in {"archive", "reset"} => d = c

\* Where a recorder thread may have a gateway of its own open.
Driving == {"arming", "announce", "loop", "export", "close"}

Hardware ==
  /\ Running /\ backend # NoRec => pc[backend] \in Driving
  /\ Running /\ video # NoRec => pc[video] \in Driving \cup {"opening", "finish"}
  /\ \A r \in Rec :
       /\ pc[r] \in {"opening", "arming", "announce", "loop", "export"} => cam[r] = "on"
       /\ gate[r] = "held" => backend = r /\ cam[r] = "on" /\ pc[r] \in Driving

Unborn ==
  \A r \in Rec : pc[r] = "none" =>
    /\ r \notin drafts \cup failures
    /\ recorded[r] = 0 /\ receipt[r] = 0
    /\ ~errs[r] /\ dstate[r] = NoFile

Disk ==
  /\ drafts \cap failures = {}
  /\ \A r \in Rec :
       /\ pc[r] \in Working \cup {"persist"} =>
            /\ r \in drafts /\ dstate[r] = NoFile
            /\ recorded[r] = 0 /\ receipt[r] = 0
       /\ dstate[r].status = "awaiting_label" =>
            /\ dstate[r].rid = r /\ dstate[r].draft
            /\ ~errs[r] /\ pc[r] \notin Owning
       /\ receipt[r] # 0 => pc[r] \notin Owning
  /\ st.status = "awaiting_label" =>
       st.draft /\ st.rid \in Rec /\ ~errs[st.rid] /\ pc[st.rid] \notin Working

Dead == ~Running =>
  /\ \A r \in Rec : ~Alive(r)
  /\ \A c \in Client : client[c] = IdleClient

IInv ==
  /\ Ownership /\ Retrying /\ Hardware /\ Unborn /\ Disk /\ Dead
  /\ AwaitedIsOffered /\ SavedIsComplete /\ FailedEvidenceKept

-----------------------------------------------------------------------------
(* What the recorder's neighbours in the Studio see of it                   *)

Stage ==
  IF Running /\ st.status \in Active THEN "active"
  ELSE IF Running /\ st.status = "stopping" THEN "stopping"
  ELSE "free"

Held    == \E r \in Rec : gate[r] = "held"
Filming == \E r \in Rec : pc[r] \in Working /\ cam[r] = "on"

Bus == INSTANCE RecorderBus WITH stage <- Stage, held <- Held, filming <- Filming

\* The recorder is a RecorderBus: its status covers every use it makes of the
\* arm and the cameras, and uses them in the order film, energise, release, cut.
KeepsBus == Bus!BusSpec

-----------------------------------------------------------------------------
(* Liveness, and what the code does not give                                *)

\* Once the stop event is set during an attempt, its gateway is closed; only
\* the end of the process prevents it.  Closed is what the manager knows: a
\* close that raised ("stuck") may have left motors energised, is an error of
\* the attempt, and is released by the next connect.
StopReleasesTorque ==
  \A r \in Rec :
    (stopEv /\ gate[r] = "held") ~> (gate[r] # "held" \/ ~Running)

\* A failed attempt leaves the error state by itself; only a disk failure that
\* kills the recorder thread, or the end of the process, leaves that to the
\* next request.
FailureReturnsToReady ==
  st.status = "error" ~>
    (st.status # "error" \/ ~Running \/ \E r \in Rec : pc[r] = "died")

\* An orderly shutdown releases torque: the process does not exit at once,
\* without waiting for the recorder, while a gateway is held.
ShutdownReleasesTorque ==
  [][srv = "up" /\ srv' = "exited" => \A r \in Rec : gate[r] # "held"]_vars
=============================================================================
