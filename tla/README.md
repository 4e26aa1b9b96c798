# Verification of sim2claw

sim2claw drives an SO-101 robot arm from a simulation-first workbench. Most of
the repository is one-shot numerical analysis; its protocols are a loopback
**Studio** server whose threads share one arm, one set of cameras and one disk,
and a **development loop** whose command-line processes share a checkout, a lock
and a receipt store. This directory holds TLA+ models of those protocols, the
TLC runs that check them on small instances and TLAPS proofs for all instances.
Paths below are relative to `src/src/sim2claw/` unless they start with `src/`.

## 1. Inventory

| Part | State it keeps | Operations | Talks to | What is hard, and what makes it correct | Here |
|---|---|---|---|---|---|
| Teleoperation recorder, `teleop_recording.py` (`TeleopRecordingManager`) | one state dict, one backend, one camera session, two events, one thread field; drafts, failed attempts and recordings on disk | start, stop, finalize, discard, retry of a failed attempt, bus verification, sync, shutdown, recovery; one record-loop thread per attempt | physical gateway, cameras, Studio server, disk | handlers and record loops interleave between lock sections; device and disk failures in a `finally` block; crash between two file operations. One recorder at a time; torque never out of sight or reach; evidence never lost or mislabelled | `TeleopRecorder`, `RecorderBus` |
| Development-loop runner, `dev_loop/runner.py`, `worker.py` | `.runner.lock`; per identity a log, a lease and a receipt; the child process | `run_test_with_receipt`: reuse, refuse, launch, reap, time out, certify | the kernel (flock, processes), git, other runners | crash between spawn, lease and gate; abandoned children; reused process ids; edits under a run. One execution per identity, honest receipts, a lock that always comes back | `DevLoopRunner`, `TestLedger` |
| Development-loop lifecycle, `dev_loop/lifecycle.py` | contracts, receipts and leases as signed documents | build/verify of each, lease cleanup and resume, merge readiness | runner, review tools | stale documents; a chain of digests that must agree. Runner's part modelled | partly |
| Live workspace, `studio_live.py` (`LiveWorkspaceService`) | session leases with expiry, a read-only gateway, camera processes, snapshots in progress, a reaper thread | start, snapshot, end, stream, camera snapshot, reap, release | recorder status, gateway, camera processes | check of the recorder and opening of the bus are two steps; a session that is abandoned while hardware is open; a camera process that does not die. Whatever runs has somebody to stop it, and stays out of the recorder's way | `StudioBus` |
| Studio server, `studio_server.py` | the components, a replay lock | HTTP handlers, one daemon thread each; shutdown order | all of the above and below | hand-over of the bus, and permission for the demo loop, in several steps under different locks | `StudioBus`, `TaskOrchestrator` |
| Demo loop, `demo_loop_controller.py` | status, thread, stop event | start action, stop, shutdown | follower script, camera | stop request against the final status; a start allowed by a session that is gone | `TaskOrchestrator` |
| Task orchestrator, `task_orchestrator.py`, `orchestrator_skills.py` | state table, pending requests, poll time, pending postcondition, adapters, ledger; the dispatcher's active skill and latch | operator commands; one worker thread that observes, verifies, asks the model, runs skills | frame source, model, skill adapters, demo loop | every call is made without the lock; a stop that must win; skills that outlive their time limit. The worker survives, one adapter at a time, every result verified | `TaskOrchestrator` |
| Physical gateway, `physical_gateway.py` | bus connection, torque, last command and position, stall clocks | open, synchronize and arm, live anchor, rebase, sample, close | serial bus | numeric limits against three different reference positions; clocks that start over. Goals near the arm and rate limited, a stuck joint given up | `FollowerJoint` |
| SAIL campaign runtime, `sail/live_runtime.py`, `sail/live_evidence.py` and adapters | a chain of admitted results with its budget, a file lock; per output root artifacts and receipt | `run_live_operator`: load, run an adapter or verify a measurement, prepare, publish, verify, commit | disk, flock, simulator adapters | operators beside one another; a death between replays, artifacts, receipt and commit. Each result once, within one budget, never charged without its receipt | `SailCampaign`, `CampaignLedger` |
| Learning factory, metrology and parking transactions | promotion receipts, one-shot attempts | promote, consume | disk | a crash between consuming and moving | planned |
| Cameras, replay and canary, operations view, catalog and web, desktop client, analysis scripts | files and processes | wrappers, listings, numeric loops | — | pure I/O, layout or floating-point computation | not modelled |

The Studio server creates the recorder, the live workspace, the demo loop and
the orchestrator, and calls them from one thread per request. They share the
serial bus of the arm and the cameras; nothing but each component's own lock and
the order of calls in a handler keeps them apart. The recorder and the live
workspace meet in the recorder's status (read without the recorder's lock being
held across the opening of the bus). The runner meets other runners only on
disk and in the kernel's process table, SAIL operators only in the campaign's
state directory and its lock.

`PROJECT.json` lists the hazards at their lines, each with the properties that
would catch it, or why none does yet.

## 2. The recorder: `TeleopRecorder`

**State.** `st` is `self.state` reduced to status, recording id, whether a draft
path is set, sample count and the torque flag. `backend`, `video`, `stopEv` and
`thread` are the other shared fields. `pc`, `errs` and `snap` are the program
counter and locals of each attempt's record-loop thread; an attempt is its
recording id, fresh for each start. `gate` and `cam` are the hardware of each
attempt: a gateway is `held` while its follower is energised, `stuck` when its
close failed, `abandoned` when the process ended under it. `drafts`,
`failures`, `rows`, `dstate`, `recorded` and `receipt` are the disk. `client`
holds handler threads between two lock sections, `srv` the process.

**Actions.** One action is one lock section, or one piece of unlocked work
between two. The record loop is `StartVideo`, `OpenBackend`, `Admit`,
`Announce`, `Sample`, `LeaveLoop`, `ExportTrace`, then the `finally` block
`CloseBackend`, `FinishVideo`, `Publish`, `Persist`, `ArchiveFailed`,
`ResetToIdle`, `Signal`; `Raise` is an exception in the `try` block, `DiskFault`
and `ArchiveFault` one in the `finally` block, before the draft was moved or
after. `RetryFault`, `RetryArchiveFault`, `FinalizeFault` and `DiscardFault` are
the file operations of a handler failing. `start` is `StartRequest` or, with a
failed attempt about, `RetryRequest`, `RetryArchive`, `RetryReset`, and then
`Start`, `StartTimeout`, `StartAnswer`; the others are named for their methods.
A bus check or sync is its look at the status (`VerifyRequest`, `Synchronize`)
and, without the lock, its use of a gateway of its own (`GatewayAnswer`).
`Crash` and `CrashInFinalize` end the process at any point, `Restart` is the
constructor's recovery. `_atomic_json` makes missing directories, so `Admit`,
`FinishVideo` and `Persist` put a draft back that was removed meanwhile.

**Abstractions.** The physical-follower mode is modelled; simulation runs the
same control without torque. Two cameras are one session. Labels, hashes,
timestamps and the report fields attached to the state are left out; the replay
of a saved recording only attaches such a report. Recovery picks any stopped
draft, where the code picks the newest. `Sample` reads and sets the count of rows
in one step, where the code does so in two critical sections of one pass; no
other thread sets it while one recorder works, and no property of `Spec` depends
on it, since `finalize` compares the count with the rows. `held` is what an
attempt's recorder believes of its gateway: when a bus check connects meanwhile,
which switches the motors off, the gateway still counts as held.

**Two specifications.** `Spec` allows every interleaving a threading server
allows. In `CalmSpec` the operator finalizes, discards or retries only while no
recorder thread is alive and nobody else is retrying, as a user who waits for
`stop` to answer does. Nothing in the manager enforces that; the safety results
below need it, and the run `hidden_torque` shows what happens otherwise. Starts,
stops, bus checks, shutdowns, crashes and failures are not restricted.

**Properties.** `OneRecorder` (no two record loops share the devices),
`TorqueIsVisible` (a held gateway is the attempt the state shows, so stop and
shutdown reach it), `TorqueUnderCamera`, `AwaitedIsOffered` (the one stopped
draft is the one offered, also after recovery), `SavedIsComplete` (a receipt
stands for a finished recording whose draft is gone), `FailedEvidenceKept`.
Liveness: `StopReleasesTorque`, `FailureReturnsToReady`. All of them speak of
gateways that are `held`. A close that raised leaves a `stuck` one, whose motors
may still have torque: it makes the attempt a failure, counts as released in
`StopReleasesTorque`, is not what `TorqueIsVisible` speaks of, and is released by
the next connect.

**The promise.** `RecorderBus` is what the rest of the Studio may rely on: the
stage the recorder's status shows (`free`, `active`, `stopping`), whether it
holds the arm, and whether it films; it films before it energises, releases
before it cuts, and does neither while it is free. `KeepsBus` states that
`TeleopRecorder` implements it under `stage <- Stage`, `held <- Held`,
`filming <- Filming`.

## 3. The Studio's hardware: `StudioBus`

**State.** The recorder is `RecorderBus`, which this module extends, and
`shown`: its state shows the cameras as recording, which it does only some time
after they run. `lease` is the live workspace's `leases` (none, live, expired),
`gateway` its read-only gateway, `reaper` whether the reaper thread is alive,
`hand` the recorder requests between their steps with the streams they still have
to stop. `viewer` is one camera stream per handler thread: admitted but not
started (`opening`, with the live lock held), `streaming` on the books, or
running off the books, where its own thread stops it (`closing`), a recorder
request does (`dropped`), or nobody does before its browser goes away (`loose`).
`snap` is how far a snapshot of each camera is.

**Actions.** A method of the live workspace that holds its lock throughout is one
action: `StartSession`, `Snapshot`, `EndSession`, `Cleanup` (the reaper's, or a
request's that does no more). `open_camera` is two, `OpenCamera` and
`StartStream`, since the recorder's thread does not take the live lock and may
start its cameras between the look at its status and the start of the process;
`capture_camera_snapshot` is `SnapBegin`, `SnapShoot`, `SnapShot`, `SnapEnd`, the
middle two without the lock. A stream's thread ends with `CloseCamera`, and
`StopProcess` is the end of a process that is stopped without the lock.
`CleanupFault`, `EndFault` and `ReleaseFault` are the second wait of
`_stop_process` raising, in the reaper (which dies of it) or a request, in an
`end_session`, and in a `release_hardware`: the streams not yet stopped are then
off the books and running. `Ensured` is `_ensure_gateway` and the sample after
it: device errors close the gateway. A recorder request is `ReleaseHardware`, then
`BeginRecording` or `CheckBus` once the processes have stopped, or `Answer`.
`Crash` ends the process; camera processes run in sessions of their own and end
by themselves later.

**Two specifications.** `StudioSpec` allows every interleaving. In `OrderlySpec`
nothing of the live page is opened or admitted between the release and the answer
of a recorder request. The server does not make sure of it: `handover` shows what
happens without. It does not part the cameras (section 8).

**Properties.** `HardwareIsAttended`: the gateway and the streams on the books or
being opened are under a lease, live or expired, whose end takes them; a process
a recorder request took off the books is one it has yet to stop before it
answers. Processes let go of by a stop that failed are the exception the code
makes, and are called so (`loose`). `SharedOnlyWithLeaving`: a snapshot meets on
its camera only a stream that is off the books; that it may meet such a one is
how the code is. `LiveYieldsBus`: the live gateway is closed while the recorder
has an attempt in hand or a request uses the bus (in `OrderlySpec`, which leaves
out the races of `handover`). `CamerasStayShut`: while the arm has power nothing
of the live page is admitted on a camera. `AbandonedIsReclaimed`: when no session
is live, leases, gateway and streams all go, those being opened or stopped
included, unless the reaper is dead or a stream is loose.

## 4. The orchestrator and the demo loop: `TaskOrchestrator`

**State.** `state`, `mode`, `poll`, `adapters`, `faulted`, `pending`, `executed`
are the session; `pending_reasons` is `wakes`, the number of requests in it, and
`evidence`, whether the result of a skill is at its head, where the code inserts
it. `worker` is the worker's program counter, the reason it works for, the
postcondition it carries and what it was told. `skill` is the dispatcher's
active skill, stop event and latch, `runs` the number of adapters executing
(an adapter may outlive the dispatcher's wait). `demo` is the demo controller's
status and thread, `asker` a demo request that was allowed.

**Actions.** One action is one section under the orchestrator's lock, or one
call without it. The operator's are `Start`, `StartFault`, `Pause`, `Resume`,
`Stop`, `Wake` (chat, refresh), `DemoChat` and `DemoAsk` with `DemoGo` or
`DemoHalt`. The worker's follow `_worker_loop`: `TakeWake`, `TakeEvidence`,
`TakePoll`; `BeginObservation`; the fetch (`Look`); `Verify`, `Complete`,
`Blocked`; `AskModel`, `ModelFails`, `ModelAnswers`; the decision (`Decide`,
`Propound`); `Dispatch`, `SkillEnds` or `SkillTimesOut`, `TakeResult`.
`FaultHere` is `_fault` called without the lock. `Refuse` is
`_transition_locked` raising where nothing catches it, which ends the worker.
`Inactivity` is either timer expiring. `PAUSING`, `STOPPING` and `FAULTED` are
entered and left within one section, so no action leaves the session in them.

**Abstractions.** Frames, verdicts and model answers are any of the few outcomes
the control tells apart. A model answer that is rejected counts as an error of
the model: both fault. The skill limit counts the results in the whole ledger,
where the code counts those in the tail it keeps.

**Two specifications.** `Spec` allows operator commands anywhere. `CalmSpec`
leaves out the pauses and stops that would kill the worker, those between a
decision and its clearing (`PauseGap`) and the stops right after a frame was
taken (`StopGap`); resumes and starts while the worker is not at rest; and the
demo command in the chat while a result is unverified. Pauses and stops during
the calls of frame source, model and skill, and between the clearing of a skill
and its dispatch, stay, as do all demo requests. Without it `WorkerSurvives` and
`EvidenceIsComing` fail: a pause between `AWAITING_MODEL` and the decision, for
instance, makes the worker's transition invalid and its thread ends. The other
safety properties are proved under `Spec`. Two things that the documents promise
fail even under `CalmSpec`: that a pause prevents a dispatch, and that the demo
loop runs only in a session that is switched on (section 8).

**Properties.** `WorkerSurvives`, `OneAdapterRuns`, `DownIsQuiet`,
`AdaptersFollowSession`, `EvidenceIsComing` (a session is not left in
`EXECUTING_SKILL` with nothing on the way), and the liveness properties
`WakeIsTaken` and `SkillSettles`. Those two assume that demo loops come to an
end: a stop request that hits the loop's last instant leaves the status
`stopping` for ever, and the worker waits for it. `ResultIsVerified` does not
hold (section 8).

## 5. One joint: `FollowerJoint`

**State.** `session`, the last `goal` sent, `command` and `actual` as the
gateway remembers them, the stall clock, and `watch`, a history variable: an
observer that starts at any sample with the joint away from its goal and gives
up when the joint leaves a band narrower than the progress asked for; `since`,
another one, is the time between the last two samples.

**Actions.** `Open`, `SynchronizeAndArm` and `OpenLiveAnchored` are the three
ways a session is armed, and leave goal, command and measured position in
different relations. `Sample` is one control step: slew limit, send, read, stall
guard; `exact` is a precompiled target, sent unchanged or not at all. `Rebase`
and `ReadFails`, `Close` are the rest. Any position is measured: the servo and
what blocks the arm are external.

**Abstractions.** Angles are whole units and times whole ticks. One of the four
body joints that do not wrap; wrist roll and gripper, the excursion envelope
around the origin and the warnings are left out.

**Properties.** `GentleStep`: a new goal is in range and near the arm, and moves
no further than the rate allows for the time since the last sample (for no more
than the longest interval, and not at all after no time), but for what arming
left between goal and command, or moves towards the arm. `StuckIsReleased`: a
joint that stays in such a band is given up in less than twice the time limit
and one sample, although the clock starts over with each progress.

## 6. The runner: `DevLoopRunner` and `TestLedger`

**State.** `tree` is what the relevant paths hold, `lock` the holder of the
flock, `pc`, `id`, `pid`, `code` the locals of each call, `st`, `of`, `owner`,
`told`, `seen` the process behind each process id, and `lease`, `log`,
`receipt` the files of each identity. The command and runtime are fixed, so an
identity is a content of the paths.

**Actions.** A call queues (`Call`), takes the lock and computes the identity
(`Acquire`), then reuses, refuses or launches. A launch is `Launch` (log
truncated, worker spawned), `WriteLease`, `OpenGate`, then `Reap` or `Timeout`,
`CloseLease`, `Certify`. `GateLost`, `Interrupt`, `LaunchFault` and `Fault` are
the exceptions, `Crash` kills the runner: the kernel frees the lock and the
child lives on. `Exec`, `GiveUp`, `TestEnds` are the child. `OtherStarts` and
`OtherEnds` give its id to a stranger, `Edit` changes the tree, `LogChanged` a
log. A child that ignores SIGTERM outlives `Abandon`.

**Abstractions.** The identity is read in one step (the code reads files, diff
and commit one after the other). Lease expiry is not modelled: the runner never
reads it. A worker whose parent died after opening the gate still executes, as
the pipe keeps the token.

**Two specifications.** `Spec` allows edits at any time. In `StillSpec` the tree
changes only while no runner is inside and no child is alive: the one-writer
rule of the repository. Receipts are honest only then: an edit after the
identity was computed is what the child tests (`dev_loop/runner.py:100`).

**`TestLedger`** is what a caller relies on: at most one run of an identity at a
time, none of a certified one, certificates only for passing identities.
`DevLoopRunner` implements it under the mapping `running <- Executing`,
`certified <- Certified`: with any edits as a ledger of runs, where every identity
counts as passing (`KeepsRuns`), and with the still tree as it stands
(`KeepsLedger`). So edits put in doubt what a certificate says, never that a test
runs once at a time and not again when a receipt answers for it.

**Properties.** `RunIsLeased` (an executing test is named by the active lease of
its identity, so it executes once and can be found after a crash), `KeepsRuns`,
`PassIsHonest`, `KeepsLedger`, and the liveness property `CallReturns`.

## 7. The SAIL campaign: `SailCampaign` and `CampaignLedger`

**State.** `state` is the chain of events in `campaign_state.json`, each with the
budget after it, as what is left; a state is valid when every balance follows
from the one before, none is negative and no id occurs twice (`ValidState`).
`lock` is the holder of the flock. `op` is one call of `run_live_operator` per
operator: how far it is, its request and output root, the state it loaded, and
the request whose result it admits. `lane` is which requests can be admitted for
the intervention the config selects: fixtures, the one C2 family, or
measurements. `adapter`, `torn` and `receipt` are the files of each output root.
`answered` is a history variable.

**Actions.** `Open` takes the lock and loads the state (a call that waits for
the lock has no effect, so the call itself is part of `Open`). `Abstain`;
`Simulate` and `Issue`, the adapter's replays and its receipt; or `Measure`.
`Publish` prepares the next state and begins to replace the root's artifacts;
`Seal` writes the last one and the receipt; `Check` verifies the receipt against
the prepared state, reads the state file again and validates both; `Commit`
replaces the file; `Answer` verifies the receipt once more and returns. `Stop` is
an exception or the death of the process at any of these points: the lock is
released with its file, what was written stays, and a refusal by any of the
checks is such an exception.

**Abstractions.** Digests identify what they digest. The decision plane is a
function of the config and the admitted result, so the artifacts of a pass are
one value, and a root is `torn` while they are of several passes. A request
stands for its execution, its receipt and its result; its replay ids are fixed,
as the simulator is deterministic. The config, and the code whose hashes it
binds, do not change. Roots belong to one campaign.

**`CampaignLedger`** is what the campaign promises: a log that is only appended
to, each result once and within the budget, simulations one at a time and none
whose result the log has. A run may be lost and is then not charged (`Lose`):
the budget bounds what is admitted, not what was simulated before a death.
`KeepsCampaign` states that `SailCampaign` implements it under `log <- state`,
`running <- Simulating`.

**Properties.** `AnswersAreKept` (an answered admission is never lost),
`HeadIsReceipted` (the log changes only when a receipt for the new log can be
verified, so an operator that dies right after leaves no unexplained charge),
`KeepsCampaign`.

## 8. Runs

| Run | Instance | Question |
|---|---|---|
| `calm` | `CalmSpec`, 2 attempts, 2 handlers, symmetric | all safety properties and the inductive invariant of the recorder; it implements `RecorderBus` |
| `live` | `CalmFairSpec`, 2 attempts, 1 handler | torque is released after a stop; a failure leaves the error state |
| `orderly` | `OrderlyFairSpec`, 2 sessions, 2 streams, 2 cameras, 2 recorder requests | the Studio's hardware is attended to, yields to the recorder and is reclaimed, also when stops fail |
| `tasks` | `CalmFairSpec`, 4 modes, 2 skills a session, 2 waiting requests | safety and liveness of the orchestrator with the demo loop |
| `joint` | `Spec`, a range of 9 units and one beyond, time limit 4, at most 2 ticks a sample | goals and stall guard of a joint |
| `lease` | `FairSpec`, 2 runners, 2 identities, 2 process ids | leases, and the ledger of runs, under edits, crashes and reuse of ids; every queued call is answered |
| `still` | `StillSpec`, 3 runners, 2 identities, 2 process ids, symmetric | honest receipts and the refinement to the ledger |
| `campaign` | `Spec`, 2 operators, 2 roots, 3 lanes with 7 requests, symmetric | what was answered is kept, receipts come first, and the campaign is one ledger |

Deadlock is checked in all of them. The bounds: two attempts are enough for a
late write of one to meet the next, and a third would be a copy of the second,
since an ended thread does nothing; two handlers let a retry, a bus check and a
start overlap; `MaxSamples = 1` separates an empty, a full and a lost recording.
Two sessions let one expire while the other lives, two streams with two cameras
let one be stopped while the other ends by itself, two recorder requests let a
check meet a start. Two skills a session are the least with a limit that is
reached after a skill ran; of two waiting requests one can be taken while the
other is dropped. The joint's range is more than twice the tracking limit and
the rate is a third of it, so every clip of the limiter occurs, delays are none,
the longest interval or longer, and the time limit is more than a sample. Two
runners let one crash or wait while one runs, the third of `still` does so while
both do; two process ids let an orphan and a new child, or a stranger, exist
together; of two identities one passes and one does not. `Pid` bounds the
process table: with all ids taken a launch waits, until its fault. Two operators
let one work on a state the other has changed, and one follow another that died;
two roots keep a receipt apart from a newer one. The budget of two results,
replays and trials ends every lane by exhaustion, and can refuse two trials
where one is left; among the requests are two of one replay and two with a trial
in common. The proofs remove these bounds for safety.

Four runs show disagreements between the code and what it says of itself:

- `hidden_torque`: with `Spec`, a failed attempt is discarded while its thread is
  still to reset the state; a new attempt starts, and the reset to idle hides it
  with its follower under torque (`teleop_recording.py:3164`, likewise 2430).
- `shutdown`: a shutdown in the state `stopping` waits for nothing, and the
  daemon thread dies before it closes the gateway (3508).
- `handover`: with `StudioSpec`, a bus check or a live session has the bus open
  while the recorder holds the arm (`studio_server.py:777`, `studio_live.py:358`,
  `teleop_recording.py:2463`), against "The recorder/gateway becomes the sole
  camera and bus owner."
- `unverified`: a skill ends, a pause drops the evidence asked for, and after the
  resume another skill is cleared while the first result is unverified
  (`task_orchestrator.py:1101`), against "verifies its postcondition before
  continuing".

Three more disagreements are behaviours of the models that no run is about. A
snapshot or a stream that was admitted while the recorder was free may start its
process, or be still ending, when the recorder's cameras run:
`release_hardware` stops only the streams on its books (`studio_live.py:834`), and
the looks at 687 and 767 precede the starts at 724 and 805, against "The recorder
remains the exclusive owner of the C922"
(`src/docs/VISUALIZATION_STUDIO.md:166`). A pause between the clearing of a skill
and its dispatch finds nothing to stop, and the skill runs in the paused session
(`task_orchestrator.py:1886`), against "Pause prevents new polling, model turns,
and skill dispatch" (`src/docs/briefs/006-studio-task-orchestrator.md:193`). A
demo request is allowed, the session is stopped, and the request starts the loop
(`studio_server.py:711`), against the message at 714, "Power on a Demo Physical
session before starting motion." `OrderlySpec` and `CalmSpec` leave all three in,
so what is checked and proved under them holds beside them.

**Fairness.** The recorder's threads are scheduled and their calls return: bus
reads are retried a fixed number of times, waits and joins have timeouts. So
each thread's own steps are weakly fair, those of the `finally` block included,
and so are a handler's steps after it was admitted. Operator requests, failures,
crashes and interruptions are not fair. `Sample` is one of the thread's steps,
but once the stop event is set only `LeaveLoop` is possible. For the runner,
each call's steps are weakly fair, `Timeout` among them, since `wait` has one; a
test need not end, and crashes and faults need not happen. As every call takes
the lock at most once, weak fairness suffices for a waiter to get it. The live
workspace's reaper runs every half second and holds the lock for a bounded time,
so a pass of it is weakly fair; that it is alive is not assumed. So are the start
of an admitted stream and the end of a process that is being stopped, which a kill
brings about. The
orchestrator's worker is weakly fair as a whole: frame source, model and
dispatcher all answer within a time limit, and between them it only takes locks.
So are an allowed demo request and the demo's thread, whose script is finite.
Sessions, requests, skills that fail and inactivity are not fair.

## 9. Proofs

All are checked to the last leaf, from the named assumptions on the constants
alone (`NoRec` is not an attempt, `MaxSamples` is positive, `None` is neither a
runner, an identity nor a process id, `Passing` is a set of identities; modes are
among the four, limits and bounds are positive; the joint's limits are integers
in order, its rates and times natural, `MinProgress` and `Timeout` positive; a
request of a campaign has finitely many replays, and its budget is natural).

- `TeleopRecorderProofs`, for every operator (`Spec`): `RecorderTypes`;
  `ReceiptsTrue`, that a receipt counts the rows saved with it, of completed
  cameras, and `NothingLost`, that a draft goes nowhere but to the archive, to the
  recordings with all its rows or away by a discard of the attempt on offer. They
  rest on one fact, `CamerasOnce`: cameras that completed are no longer named by
  the shared field, so nobody finishes them twice. This is what remains of
  `SavedIsComplete` and `FailedEvidenceKept` without the calm operator.
- `TeleopRecorderSafety`: `CalmInvariant`, that `IInv` is an invariant of
  `CalmSpec`, and from it the six safety properties. `IInv` adds what makes them
  inductive: a thread that is not past its last write owns the state
  (`Ownership`); a retry runs alone (`Retrying`); which attempt the shared
  backend and camera fields name, and where (`Hardware`); an attempt that never
  started has left nothing (`Unborn`); what the disk holds at each point of an
  attempt (`Disk`); a dead process has no threads (`Dead`). `Ownership` is where
  the calm operator is needed: without it a second attempt can start before the
  first one's `ResetToIdle`. `StopIsKept` and `FailuresHaveOwners` are what the
  two liveness properties have of safety: a stop set while an attempt works is
  not cleared by a start, and each step of that attempt lowers its distance to
  the end (`Left`); an error state names an attempt whose own thread is still to
  reset it, unless a disk fault killed the thread.
- `DevLoopProofs`: `RunnerTypes`; `LeaseInvariant`, `RunsAreLeased` and
  `RunsKept` under `Spec`; `HonestInvariant`, `PassesAreHonest` and `LedgerKept`
  under `StillSpec`. `LeaseInv` says who is inside the lock (`Locking`), whose
  child is whose (`Parents`), that a child whose gate was opened is named by an
  active lease (`Leases`), and that codes, logs and receipts agree (`Logs`),
  which makes a receipt unusable as soon as its identity runs; `LeasedOnce`
  derives from it that no two children of an identity are admitted. `RunsKept`
  maps each runner and machine step to a step of the ledger of runs or a
  stutter. With a still tree `HonestInv` adds that a child reads what it runs
  for (`Fresh`); then a certificate is for a passing identity, and `LedgerKept`
  follows from `RunsKept`. `CallsCanStep` and `CallsComeCloser` are what
  `CallReturns` has of safety: a call that waits or works, or else the holder of
  the lock it waits for, has a step that its guards allow, and each of its steps
  lowers its distance to an answer (`Ahead`), which nobody else raises.
- `TeleopRecorderBus`: `BusKept`, the refinement of `RecorderBus` under
  `CalmSpec`: each action of the recorder is an action of the bus or a stutter.
  It rests on `CalmInvariant`: `Ownership` for the stage, `Hardware` for the order
  of camera and gateway.
- `StudioBusProofs`: `StudioTypes`, `HardwareAttended` and `SnapshotsShare`
  under `StudioSpec`, each inductive with the types; `LiveYields` under
  `OrderlySpec`. `RecorderComposed` shows that among sessions, requests and
  crashes the recorder is still a `RecorderBus`, and `EnergisedOvertly` that the
  arm has power only while the cameras record and the status shows it. From
  these follow, for every operator, `LiveCamerasShut` (no stream and no snapshot
  is admitted while the arm has power; one admitted before may still start), and
  for the orderly one `ArmHasItsBus`, the part of the documented handover that
  holds: never an open live gateway beside an energised arm. `ExpiredForGood`
  says that an expired lease is not renewed and that nothing opens without a
  live session.
- `TaskOrchestratorProofs`: under `Spec`, `TaskSafety`, and from it `TaskTypes`,
  `OneAdapter`, `QuietWhenDown`, `AdaptersFollow`. Its invariant `TaskInv` adds
  where a skill is active and what an outliving adapter has latched
  (`Dispatched`), and what the worker carries (`Carried`, `Sound`). Under
  `CalmSpec`, `CalmSafety`, and from it `Survival` and `EvidenceComes`:
  `CalmInv` adds in which states of the session each point of the worker can be
  (`Whereabouts`), which is what a command in a gap breaks. As action
  properties: `LatchFinal` (for every operator, a dispatcher whose adapter could
  not be stopped starts nothing more), `SkillsStartClean`, and
  `SkillComesCloser`, what `SkillSettles` has of safety: while the session
  executes a skill, every step of the worker lowers the distance to its
  verification.
- `FollowerJointProofs`: `JointTypes`, `StuckReleased`, `GentleSteps`, for all
  limits, rates and times. `Clocks` relates the gateway's stall clock to the
  observer's: either it started no later, or its anchor lies in the observed band
  and it started within one time limit and a sample, so that it does not start
  over again. `GentleSteps` follows from what clipping twice gives
  (`SlewMoves`).
- `SailCampaignProofs`: `CampaignTypes`, `AnswersKept`, `StateStaysValid`,
  `ReceiptComesFirst`, `ChargedOnce` and `LedgerIsKept`. `CampaignInv` adds that
  the holder's loaded state is the file's until it commits, and that what it is
  about to append is fresh, paid for and, once checked, receipted (`Pass`);
  `Appended` shows that such an event keeps the state valid. `ChargedOnce`
  accounts for the budget: the results in the log and the interventions left add
  up to what the config allows, and an answered result is in the log once.

Some of these state more than a run checks. Each was first checked by TLC on the
instance of a run of its component, then proved: the two under `Spec` in
`TeleopRecorderProofs`, the safety halves of the liveness properties, the action
properties of `StudioBusProofs` and `TaskOrchestratorProofs`, and `ChargedOnce`.

Only model-checked: the liveness properties `StopReleasesTorque`,
`FailureReturnsToReady`, `CallReturns`, `AbandonedIsReclaimed`, `WakeIsTaken`
and `SkillSettles`. TLAPS does not reason about ENABLED here, so that fairness
cannot be used. What is proved for `StopReleasesTorque`, `CallReturns` and
`SkillSettles` is that a rank falls with every step of those who must act and
that nobody raises it; for `FailureReturnsToReady`, that somebody is there who
must act; for `AbandonedIsReclaimed`, that an expired lease does not come back
to life. That the steps are taken, and the induction over the rank, stay with
TLC. The violation runs need no proof.

## 10. Plan

Done, in order of importance: `TeleopRecorder`; `TestLedger` and
`DevLoopRunner`; `RecorderBus` and `StudioBus`; `TaskOrchestrator` with the demo
loop; `FollowerJoint`; `SailCampaign`. The runs are kept few, so that the whole
check stays short. Next:

1. The gateway's open, synchronize and close as steps of their own, with torque
   off on every exit, and the wrist roll's wrap-around.
2. `LeaseLifecycle`: cleanup and resume of expired leases, merge readiness.
3. The orchestrator's operator shadow choice and the tail of its ledger.
4. Two campaigns with one output root; the one-shot metrology and parking
   transactions and the learning factory's promotion rule.

## 11. Not modelled

The analysis scripts, camera wrappers, replay, catalog and user interfaces,
which are most of the repository by lines: they compute in floating point, list
files or lay out pages, and keep no state that another thread or process changes
under them. Of the modelled parts: report fields of the recorder, the excitation
packets at the head of `teleop_recording.py`, the camera inventory and pose
mirror, the decision plane of a campaign, gripper and wrist roll, shutdown of
live workspace, demo loop and orchestrator.
