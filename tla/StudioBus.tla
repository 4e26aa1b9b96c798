------------------------------ MODULE StudioBus ------------------------------
(***************************************************************************)
(* The Studio's live workspace (LiveWorkspaceService), the HTTP handlers   *)
(* that hand its hardware over to the recorder, and the recorder as        *)
(* RecorderBus describes it.  They share the serial bus of the arm and the *)
(* cameras.                                                                *)
(*                                                                         *)
(* An operation of the live workspace that holds its lock throughout is    *)
(* one action.  Opening a stream is two, because the recorder's thread,    *)
(* which never takes that lock, may start its cameras after it was asked   *)
(* and before the stream's process starts; so is taking a snapshot, whose  *)
(* process starts after the lock was given up.  Processes that were taken  *)
(* off the books are stopped without the lock.  Time appears as the expiry *)
(* of leases.                                                              *)
(***************************************************************************)
EXTENDS RecorderBus

CONSTANTS
  Token,     \* tokens of live sessions; bound on the sessions at a time
  Viewer,    \* handler threads that serve a camera stream
  Camera,    \* the overhead and the wrist camera
  Handler    \* handler threads of recorder requests

VARIABLES
  shown,     \* self.recorder.state shows the cameras as recording
  lease,     \* self.leases: none, live, or expired and not yet removed
  gateway,   \* self.gateway is not None: the bus is open for reading
  viewer,    \* the streams' handler threads
  snap,      \* self.snapshot_camera_ids, and how far each snapshot is
  reaper,    \* self.reaper is alive
  hand       \* recorder requests: pc, and the viewers release_hardware stops

liveVars == <<lease, gateway, viewer, snap, reaper>>
vars == <<busVars, shown, liveVars, hand>>

\* opening: the recorder and the snapshots were asked, the lock is held, and no
\* process runs yet.  streaming: the process runs and is on the books.  The
\* others run off the books: closing, its own thread stops it; dropped, a
\* recorder request does; loose, an exception let go of it, and only its own
\* thread will stop it, when the browser goes away.
Stream   == [pc: {"none", "opening", "streaming", "closing", "dropped", "loose"},
             cams: SUBSET Camera]
Hand     == [pc: {"idle", "released", "checking"}, stops: SUBSET Viewer]
NoStream == [pc |-> "none", cams |-> {}]
NoHand   == [pc |-> "idle", stops |-> {}]

StudioTypeOK ==
  /\ BusTypeOK /\ shown \in BOOLEAN
  /\ lease \in [Token -> {"none", "live", "expired"}]
  /\ gateway \in BOOLEAN
  /\ viewer \in [Viewer -> Stream]
  /\ snap \in [Camera -> {"none", "admitted", "shooting", "shot"}]
  /\ reaper \in BOOLEAN
  /\ hand \in [Handler -> Hand]

StudioInit ==
  /\ BusInit /\ shown = FALSE
  /\ lease = [t \in Token |-> "none"]
  /\ gateway = FALSE
  /\ viewer = [v \in Viewer |-> NoStream]
  /\ snap = [c \in Camera |-> "none"]
  /\ reaper = TRUE
  /\ hand = [h \in Handler |-> NoHand]

-----------------------------------------------------------------------------
(* The recorder                                                             *)

\* Mutant: the cameras are shown only when the attempt is under way.
RecorderStepUnshown ==
  /\ \/ (Film \/ Energise \/ Leave \/ Release \/ Cut) /\ UNCHANGED shown
     \/ End /\ shown' = FALSE
  /\ UNCHANGED <<liveVars, hand>>

\* The recorder's thread writes the camera streams into its state after it
\* started them, and the outcome of the attempt replaces them.
RecorderStep ==
  /\ \/ Film /\ UNCHANGED shown
     \/ Energise /\ shown /\ UNCHANGED shown
     \/ (Leave \/ Release \/ Cut) /\ UNCHANGED shown
     \/ End /\ shown' = FALSE
  /\ UNCHANGED <<liveVars, hand>>

Show ==
  /\ filming /\ stage = "active" /\ ~shown
  /\ shown' = TRUE
  /\ UNCHANGED <<busVars, liveVars, hand>>

-----------------------------------------------------------------------------
(* Live sessions                                                            *)

Live       == {t \in Token : lease[t] = "live"}
Streaming  == {v \in Viewer : viewer[v].pc = "streaming"}
Active     == {v \in Viewer : viewer[v].pc \in {"opening", "streaming"}}
Streamed   == UNION {viewer[v].cams : v \in Streaming}
Running    == {v \in Viewer : viewer[v].pc \in {"streaming", "closing", "dropped", "loose"}}
Snapping   == {c \in Camera : snap[c] # "none"}

\* self.lock is held between two steps only while a stream is being opened.
LockFree   == \A v \in Viewer : viewer[v].pc # "opening"

\* The leases after _cleanup_expired.
Current == [t \in Token |-> IF lease[t] = "expired" THEN "none" ELSE lease[t]]

Stopped(S)    == [v \in Viewer |-> IF v \in S THEN NoStream ELSE viewer[v]]
Moved(S, pc)  == [v \in Viewer |->
                    IF v \in S THEN [viewer[v] EXCEPT !.pc = pc] ELSE viewer[v]]

\* The streams are taken off the books, but stopping those in S fails or comes
\* after a stop that failed.
Loosened(S)   == [v \in Viewer |->
                    IF v \in S THEN [viewer[v] EXCEPT !.pc = "loose"]
                    ELSE Stopped(Streaming)[v]]

\* _cleanup_expired stops every stream when no lease is left.
Cleaned == IF Live = {} THEN Stopped(Streaming) ELSE viewer

\* Mutant: the recorder is not asked before the bus is opened.
EnsuredUnasked(open) == BOOLEAN

\* Whether the gateway may be open after _ensure_gateway and a sample of the
\* arm: it is not opened while the recorder is at work, and an error in opening
\* or sampling closes it.
Ensured(open) == IF open \/ stage = "free" THEN BOOLEAN ELSE {FALSE}

StartSession(t) ==
  /\ LockFree /\ lease[t] = "none"
  /\ lease' = [Current EXCEPT ![t] = "live"]
  /\ gateway' \in Ensured(gateway /\ Live # {})
  /\ viewer' = Cleaned
  /\ UNCHANGED <<busVars, shown, snap, reaper, hand>>

\* snapshot with a token renews its lease.
Snapshot(t) ==
  /\ LockFree /\ t \in Live
  /\ lease' = Current
  /\ gateway' \in Ensured(gateway)
  /\ UNCHANGED <<busVars, shown, viewer, snap, reaper, hand>>

\* end_session releases the hardware when no lease is left, an expired one
\* included; the processes are stopped before the lock is.
LastLease(t) == lease[t] # "none" /\ \A x \in Token \ {t} : lease[x] = "none"

EndSession(t) ==
  /\ LockFree /\ lease[t] # "none"
  /\ lease' = [lease EXCEPT ![t] = "none"]
  /\ IF LastLease(t) THEN gateway' = FALSE /\ viewer' = Stopped(Streaming)
                     ELSE UNCHANGED <<gateway, viewer>>
  /\ UNCHANGED <<busVars, shown, snap, reaper, hand>>

\* Whether a lease has expired matters to who holds the lock.
Expire(t) ==
  /\ LockFree /\ t \in Live
  /\ lease' = [lease EXCEPT ![t] = "expired"]
  /\ UNCHANGED <<busVars, shown, gateway, viewer, snap, reaper, hand>>

\* Mutant: the leases are dropped, and nothing else.
CleanupOfLeases ==
  /\ LockFree
  /\ lease' = Current
  /\ UNCHANGED <<busVars, shown, gateway, viewer, snap, reaper, hand>>

\* _cleanup_expired: a pass of the reaper, or a request that does no more, as
\* one with an expired token.
Cleanup ==
  /\ LockFree
  /\ lease' = Current
  /\ gateway' = (gateway /\ Live # {})
  /\ viewer' = Cleaned
  /\ UNCHANGED <<busVars, shown, snap, reaper, hand>>

Reap == reaper /\ Cleanup

\* A camera process outlives its kill by more than the second _stop_process
\* waits: the exception ends the reaper, or a request, with the processes not
\* yet stopped off the books.
CleanupFault ==
  /\ LockFree /\ Live = {}
  /\ \E S \in SUBSET Streaming : S # {} /\ viewer' = Loosened(S)
  /\ lease' = Current
  /\ gateway' = FALSE
  /\ reaper' \in {reaper, FALSE}
  /\ UNCHANGED <<busVars, shown, snap, hand>>

\* The same in the end_session of the last session.
EndFault(t) ==
  /\ LockFree /\ LastLease(t)
  /\ \E S \in SUBSET Streaming : S # {} /\ viewer' = Loosened(S)
  /\ lease' = [lease EXCEPT ![t] = "none"]
  /\ gateway' = FALSE
  /\ UNCHANGED <<busVars, shown, snap, reaper, hand>>

-----------------------------------------------------------------------------
(* Cameras                                                                  *)

\* Mutant: a snapshot in progress is not looked at.
OpenCameraOverSnapshot(v, c, t) ==
  /\ LockFree /\ viewer[v].pc = "none"
  /\ t \in Live /\ ~shown
  /\ lease' = Current
  /\ viewer' = [viewer EXCEPT ![v] = [pc |-> "opening", cams |-> {c}]]
  /\ UNCHANGED <<busVars, shown, gateway, snap, reaper, hand>>

\* open_camera, as far as its checks; the lock stays held.
OpenCamera(v, c, t) ==
  /\ LockFree /\ viewer[v].pc = "none"
  /\ t \in Live /\ c \notin Snapping /\ ~shown
  /\ lease' = Current
  /\ viewer' = [viewer EXCEPT ![v] = [pc |-> "opening", cams |-> {c}]]
  /\ UNCHANGED <<busVars, shown, gateway, snap, reaper, hand>>

\* The process starts and is put on the books, or the camera, ffmpeg or the
\* start of the process fails; the lock is given up.
StartStream(v) ==
  /\ viewer[v].pc = "opening"
  /\ viewer' \in {Moved({v}, "streaming"), Stopped({v})}
  /\ UNCHANGED <<busVars, shown, lease, gateway, snap, reaper, hand>>

\* The browser went away or the process ended: close_camera takes it off the
\* books, if it is still there, and then stops it without the lock.
CloseCamera(v) ==
  /\ LockFree /\ viewer[v].pc \in {"streaming", "dropped", "loose"}
  /\ viewer' = Moved({v}, "closing")
  /\ UNCHANGED <<busVars, shown, lease, gateway, snap, reaper, hand>>

\* What its own thread or a recorder request stops ends, at last when killed.
StopProcess(v) ==
  /\ \/ viewer[v].pc = "closing"
     \/ viewer[v].pc = "dropped" /\ \E h \in Handler : v \in hand[h].stops
  /\ viewer' = Stopped({v})
  /\ hand' = [h \in Handler |-> [hand[h] EXCEPT !.stops = @ \ {v}]]
  /\ UNCHANGED <<busVars, shown, lease, gateway, snap, reaper>>

\* capture_camera_snapshot: admitted under the lock, taken without it.
SnapBegin(c) ==
  /\ LockFree /\ ~shown /\ c \notin Streamed /\ snap[c] = "none"
  /\ snap' = [snap EXCEPT ![c] = "admitted"]
  /\ UNCHANGED <<busVars, shown, lease, gateway, viewer, reaper, hand>>

SnapShoot(c) ==
  /\ snap[c] = "admitted"
  /\ snap' = [snap EXCEPT ![c] = "shooting"]
  /\ UNCHANGED <<busVars, shown, lease, gateway, viewer, reaper, hand>>

\* The process has ended, or could not be started.
SnapShot(c) ==
  /\ snap[c] \in {"admitted", "shooting"}
  /\ snap' = [snap EXCEPT ![c] = "shot"]
  /\ UNCHANGED <<busVars, shown, lease, gateway, viewer, reaper, hand>>

SnapEnd(c) ==
  /\ LockFree /\ snap[c] = "shot"
  /\ snap' = [snap EXCEPT ![c] = "none"]
  /\ UNCHANGED <<busVars, shown, lease, gateway, viewer, reaper, hand>>

-----------------------------------------------------------------------------
(* Recorder requests                                                        *)

\* Mutant: the cameras are noted for stopping, in place of their streams.
ReleaseByCamera(h) ==
  /\ LockFree /\ hand[h].pc = "idle"
  /\ lease' = [t \in Token |-> "none"]
  /\ gateway' = FALSE
  /\ viewer' = Moved(Streaming, "dropped")
  /\ hand' = [hand EXCEPT ![h] = [pc |-> "released", stops |-> Streamed]]
  /\ UNCHANGED <<busVars, shown, snap, reaper>>

\* Mutant: the books are cleared before the processes to stop are read.
ReleaseAndForget(h) ==
  /\ LockFree /\ hand[h].pc = "idle"
  /\ lease' = [t \in Token |-> "none"]
  /\ gateway' = FALSE
  /\ viewer' = Moved(Streaming, "dropped")
  /\ hand' = [hand EXCEPT ![h] = [pc |-> "released", stops |-> {}]]
  /\ UNCHANGED <<busVars, shown, snap, reaper>>

\* release_hardware, before a start, verify or sync.
ReleaseHardware(h) ==
  /\ LockFree /\ hand[h].pc = "idle"
  /\ lease' = [t \in Token |-> "none"]
  /\ gateway' = FALSE
  /\ viewer' = Moved(Streaming, "dropped")
  /\ hand' = [hand EXCEPT ![h] = [pc |-> "released", stops |-> Streaming]]
  /\ UNCHANGED <<busVars, shown, snap, reaper>>

\* One of them outlives its kill: the request fails, and what it had not
\* stopped yet is let go of.
ReleaseFault(h) ==
  /\ hand[h].pc = "released" /\ hand[h].stops # {}
  /\ viewer' = Moved({v \in hand[h].stops : viewer[v].pc = "dropped"}, "loose")
  /\ hand' = [hand EXCEPT ![h] = NoHand]
  /\ UNCHANGED <<busVars, shown, lease, gateway, snap, reaper>>

\* It returned: the processes it took off the books have stopped.
Released(h) == hand[h].pc = "released" /\ hand[h].stops = {}

\* start admits the attempt; its answer changes nothing more.
BeginRecording(h) ==
  /\ Released(h)
  /\ Begin
  /\ hand' = [hand EXCEPT ![h] = NoHand]
  /\ UNCHANGED <<shown, liveVars>>

\* verify and sync look at the status, and use the bus without the lock.
CheckBus(h) ==
  /\ Released(h)
  /\ stage # "active"
  /\ hand' = [hand EXCEPT ![h].pc = "checking"]
  /\ UNCHANGED <<busVars, shown, liveVars>>

\* The request is refused, or the check of the bus ends.
Answer(h) ==
  /\ Released(h) \/ hand[h].pc = "checking"
  /\ hand' = [hand EXCEPT ![h] = NoHand]
  /\ UNCHANGED <<busVars, shown, liveVars>>

-----------------------------------------------------------------------------
(* The process dies, and another one is started.  Stream processes run in    *)
(* sessions of their own: they end when they find their pipe closed.  A      *)
(* snapshot's process, which ends with its one frame, is not followed.       *)

Crash ==
  /\ Die
  /\ shown' = FALSE
  /\ lease' = [t \in Token |-> "none"]
  /\ gateway' = FALSE
  /\ viewer' = [v \in Viewer |->
                  IF v \in Running THEN [viewer[v] EXCEPT !.pc = "closing"] ELSE NoStream]
  /\ snap' = [c \in Camera |-> "none"]
  /\ reaper' = TRUE
  /\ hand' = [h \in Handler |-> NoHand]

-----------------------------------------------------------------------------
(* Specifications                                                           *)

\* What opens hardware for the live workspace.
Opens ==
  \/ \E t \in Token : StartSession(t) \/ Snapshot(t)
  \/ \E v \in Viewer, c \in Camera, t \in Token : OpenCamera(v, c, t)
  \/ \E c \in Camera : SnapBegin(c)

Works ==
  \/ RecorderStep \/ Show
  \/ \E t \in Token : EndSession(t) \/ Expire(t)
  \/ Reap \/ CleanupFault \/ \E t \in Token : EndFault(t)
  \/ \E v \in Viewer : StartStream(v) \/ CloseCamera(v) \/ StopProcess(v)
  \/ \E c \in Camera : SnapShoot(c) \/ SnapShot(c) \/ SnapEnd(c)
  \/ \E h \in Handler : ReleaseHardware(h) \/ ReleaseFault(h)
                        \/ BeginRecording(h) \/ CheckBus(h) \/ Answer(h)
  \/ Crash

StudioSpec == StudioInit /\ [][Opens \/ Works]_vars

\* The operator of an orderly Studio does not turn to the live page between the
\* release and the answer of a recorder request.  Nothing in the server makes
\* sure of it.
HandsIdle == \A h \in Handler : hand[h].pc = "idle"

OrderlySpec == StudioInit /\ [][(HandsIdle /\ Opens) \/ Works]_vars

\* The reaper runs every half second, the lock is held for a bounded time, and
\* a process that is being stopped ends.
OrderlyFairSpec ==
  /\ OrderlySpec
  /\ WF_vars(Reap)
  /\ \A v \in Viewer : WF_vars(StartStream(v)) /\ WF_vars(StopProcess(v))

-----------------------------------------------------------------------------
(* Properties                                                               *)

\* Whatever of the live workspace runs has somebody to end it.  The gateway and
\* the streams on the books, a stream being opened included, are under a lease,
\* so that the end of a session or the reaper takes them; a process off the
\* books is being stopped by its own thread (closing) or by a recorder request
\* that has not answered yet, or it is loose: an exception in stopping some
\* process let go of it, and it runs until its browser goes away.
HardwareIsAttended ==
  /\ gateway \/ Active # {} => \E t \in Token : lease[t] # "none"
  /\ \A v \in Viewer : viewer[v].pc = "dropped" =>
       \E h \in Handler : hand[h].pc = "released" /\ v \in hand[h].stops

\* A snapshot for the orchestrator meets on its camera no stream but one that
\* was taken off the books and whose process may not have ended: nothing makes
\* the snapshot wait for it.
SharedOnlyWithLeaving ==
  \A v \in Viewer : viewer[v].cams \cap Snapping # {} =>
    viewer[v].pc \in {"closing", "dropped", "loose"}

\* With an orderly operator the live gateway is closed whenever the recorder
\* has an attempt in hand, and while a recorder request uses the bus.
LiveYieldsBus == gateway => stage = "free" /\ HandsIdle

\* While the arm has power no stream and no snapshot of the live workspace is
\* admitted, whoever asks for one: the recorder shows its cameras before it
\* energises the arm.  What was admitted before may start, or go on, beside it
\* all the same: nothing in the code prevents that.
CamerasStayShut ==
  [][held => Active' \subseteq Active /\ Snapping' \subseteq Snapping]_vars

\* When no session is live any more, the reaper takes all the leases, the
\* gateway and the streams, and every process of a stream ends, also one that
\* was off the books already, unless a session is started.  Excepted is what
\* failed stops leave: a dead reaper, and loose processes.
AbandonedIsReclaimed ==
  Live = {} ~>
    \/ Live # {}
    \/ /\ \A t \in Token : lease[t] = "none"
       /\ ~gateway /\ \A v \in Viewer : viewer[v] = NoStream
    \/ ~reaper \/ \E v \in Viewer : viewer[v].pc = "loose"

\* "The recorder/gateway becomes the sole camera and bus owner."
SoleBusOwner ==
  held => ~gateway /\ \A h \in Handler : hand[h].pc # "checking"
=============================================================================
