--------------------------- MODULE StudioBusProofs ---------------------------
(***************************************************************************)
(* Safety of the live workspace, for any set of sessions, viewers, cameras *)
(* and recorder requests: types, hardware that always has somebody to end  *)
(* it, and what a snapshot may meet on its camera, for every operator; for *)
(* the orderly one, a live gateway that yields to the recorder.            *)
(***************************************************************************)
EXTENDS StudioBus, TLAPS

USE DEF busVars, liveVars

LEMMA NoneTypes == NoStream \in Stream /\ NoHand \in Hand
  BY DEF NoStream, Stream, NoHand, Hand

\* What stopping some streams leaves of all, and moving them on.
LEMMA StreamsStopped ==
  ASSUME StudioTypeOK, NEW S \in SUBSET Viewer
  PROVE  /\ Stopped(S) \in [Viewer -> Stream]
         /\ \A v \in Viewer : Stopped(S)[v] = IF v \in S THEN NoStream ELSE viewer[v]
  BY NoneTypes DEF StudioTypeOK, Stopped

LEMMA MovedIs ==
  ASSUME StudioTypeOK, NEW S, NEW pc, NEW v \in Viewer
  PROVE  Moved(S, pc)[v] = IF v \in S THEN [pc |-> pc, cams |-> viewer[v].cams] ELSE viewer[v]
  BY DEF StudioTypeOK, Moved, Stream

LEMMA StreamsMoved ==
  ASSUME StudioTypeOK, NEW S,
         NEW pc \in {"streaming", "closing", "dropped", "loose"}
  PROVE  Moved(S, pc) \in [Viewer -> Stream]
<1>1. ASSUME NEW v \in Viewer
      PROVE  [viewer[v] EXCEPT !.pc = pc] \in Stream /\ viewer[v] \in Stream
  BY DEF StudioTypeOK, Stream
<1>2. QED
  BY <1>1 DEF Moved

\* The same for the streams on the books, for a cleanup, and for one that fails.
LEMMA AllStreamsLeft ==
  ASSUME StudioTypeOK
  PROVE  /\ Streaming \in SUBSET Viewer
         /\ Stopped(Streaming) \in [Viewer -> Stream]
         /\ Cleaned \in [Viewer -> Stream]
         /\ \A v \in Viewer :
              /\ Stopped(Streaming)[v] = viewer[v] \/ Stopped(Streaming)[v] = NoStream
              /\ Stopped(Streaming)[v].pc # "streaming"
              /\ Cleaned[v] = viewer[v] \/ Cleaned[v] = NoStream
              /\ Cleaned[v].pc = "streaming" => Live # {}
<1>1. Streaming \in SUBSET Viewer
  BY DEF Streaming
<1>2. /\ Stopped(Streaming) \in [Viewer -> Stream]
      /\ \A v \in Viewer :
           Stopped(Streaming)[v] = IF v \in Streaming THEN NoStream ELSE viewer[v]
  BY <1>1, StreamsStopped
<1>3. \A v \in Viewer : v \notin Streaming => viewer[v].pc # "streaming"
  BY DEF Streaming
<1>4. viewer \in [Viewer -> Stream] /\ NoStream.pc = "none"
  BY DEF StudioTypeOK, NoStream
<1>5. \A v \in Viewer : /\ Stopped(Streaming)[v] = viewer[v] \/ Stopped(Streaming)[v] = NoStream
                        /\ Stopped(Streaming)[v].pc # "streaming"
  BY <1>2, <1>3, <1>4
<1>6. CASE Live = {}
  BY <1>1, <1>2, <1>5, <1>6 DEF Cleaned
<1>7. CASE Live # {}
  BY <1>1, <1>2, <1>4, <1>5, <1>7 DEF Cleaned
<1>8. QED
  BY <1>6, <1>7

LEMMA StreamsLoosened ==
  ASSUME StudioTypeOK, NEW S \in SUBSET Streaming
  PROVE  /\ Loosened(S) \in [Viewer -> Stream]
         /\ \A v \in Viewer :
              \/ v \in S /\ Loosened(S)[v] = [pc |-> "loose", cams |-> viewer[v].cams]
              \/ /\ Loosened(S)[v] = viewer[v] \/ Loosened(S)[v] = NoStream
                 /\ Loosened(S)[v].pc # "streaming"
<1>1. \A v \in Viewer : Loosened(S)[v] = IF v \in S
                            THEN [pc |-> "loose", cams |-> viewer[v].cams]
                            ELSE Stopped(Streaming)[v]
  BY DEF Loosened, StudioTypeOK, Stream
<1>2. \A v \in Viewer : /\ [pc |-> "loose", cams |-> viewer[v].cams] \in Stream
                        /\ Stopped(Streaming)[v] \in Stream
  BY AllStreamsLeft DEF StudioTypeOK, Stream
<1>3. Loosened(S) = [v \in Viewer |-> Loosened(S)[v]]
  BY DEF Loosened
<1>4. Loosened(S) \in [Viewer -> Stream]
  BY <1>1, <1>2, <1>3
<1>5. QED
  BY <1>1, <1>4, AllStreamsLeft

LEMMA StudioTypesStep ==
  ASSUME StudioTypeOK, [Opens \/ Works]_vars
  PROVE  StudioTypeOK'
<1> USE DEF StudioTypeOK, BusTypeOK
<1> Current \in [Token -> {"none", "live", "expired"}]
  BY DEF Current
<1>1. CASE RecorderStep \/ Show
  BY <1>1 DEF RecorderStep, Show, Film, Energise, Leave, Release, Cut, End
<1>2. ASSUME NEW t \in Token,
             StartSession(t) \/ Snapshot(t) \/ EndSession(t) \/ Expire(t)
      PROVE  StudioTypeOK'
  <2>1. CASE StartSession(t)
    BY <2>1, AllStreamsLeft DEF StartSession, Ensured
  <2>2. CASE Snapshot(t)
    BY <2>2 DEF Snapshot, Ensured
  <2>3. CASE EndSession(t)
    BY <2>3, AllStreamsLeft DEF EndSession
  <2>4. CASE Expire(t)
    BY <2>4 DEF Expire
  <2>5. QED
    BY <1>2, <2>1, <2>2, <2>3, <2>4
<1>3. CASE Reap
  BY <1>3, AllStreamsLeft DEF Reap, Cleanup
<1>4. CASE CleanupFault \/ \E t \in Token : EndFault(t)
  <2>1. CASE CleanupFault
    BY <2>1, StreamsLoosened DEF CleanupFault
  <2>2. ASSUME NEW t \in Token, EndFault(t) PROVE StudioTypeOK'
    BY <2>2, StreamsLoosened DEF EndFault
  <2>3. QED
    BY <1>4, <2>1, <2>2
<1>5. ASSUME NEW v \in Viewer, NEW c \in Camera, NEW t \in Token, OpenCamera(v, c, t)
      PROVE  StudioTypeOK'
  BY <1>5 DEF OpenCamera, Stream
<1>6. ASSUME NEW v \in Viewer, StartStream(v) \/ CloseCamera(v) \/ StopProcess(v)
      PROVE  StudioTypeOK'
  <2>1. {v} \in SUBSET Viewer
    OBVIOUS
  <2>2. CASE StartStream(v) \/ CloseCamera(v)
    BY <2>1, <2>2, StreamsMoved, StreamsStopped DEF StartStream, CloseCamera
  <2>3. CASE StopProcess(v)
    <3>1. hand' \in [Handler -> Hand]
      BY <2>3 DEF StopProcess, Hand
    <3>2. viewer' \in [Viewer -> Stream]
      BY <2>1, <2>3, StreamsStopped
         DEF StopProcess
    <3>3. QED
      BY <2>3, <3>1, <3>2 DEF StopProcess
  <2>4. QED
    BY <1>6, <2>2, <2>3
<1>7. ASSUME NEW c \in Camera, SnapBegin(c) \/ SnapShoot(c) \/ SnapShot(c) \/ SnapEnd(c)
      PROVE  StudioTypeOK'
  BY <1>7 DEF SnapBegin, SnapShoot, SnapShot, SnapEnd
<1>8. ASSUME NEW h \in Handler,
             \/ ReleaseHardware(h) \/ ReleaseFault(h)
             \/ BeginRecording(h) \/ CheckBus(h) \/ Answer(h)
      PROVE  StudioTypeOK'
  <2>1. CASE ReleaseHardware(h)
    <3>1. [pc |-> "released", stops |-> Streaming] \in Hand
      BY AllStreamsLeft DEF Hand
    <3>2. Moved(Streaming, "dropped") \in [Viewer -> Stream]
      BY AllStreamsLeft, StreamsMoved
    <3>3. QED
      BY <2>1, <3>1, <3>2 DEF ReleaseHardware
  <2>2. CASE ReleaseFault(h)
    <3>1. {v \in hand[h].stops : viewer[v].pc = "dropped"} \in SUBSET Viewer
      BY DEF Hand
    <3>2. viewer' \in [Viewer -> Stream]
      BY <2>2, <3>1, StreamsMoved DEF ReleaseFault
    <3>3. QED
      BY <2>2, <3>2, NoneTypes DEF ReleaseFault
  <2>3. CASE BeginRecording(h)
    BY <2>3, NoneTypes DEF BeginRecording, Begin
  <2>4. CASE CheckBus(h)
    BY <2>4 DEF CheckBus, Hand
  <2>5. CASE Answer(h)
    BY <2>5, NoneTypes DEF Answer
  <2>6. QED
    BY <1>8, <2>1, <2>2, <2>3, <2>4, <2>5
<1>9. CASE Crash
  <2>1. viewer' \in [Viewer -> Stream]
    BY <1>9, NoneTypes DEF Crash, Stream
  <2>2. QED
    BY <1>9, <2>1, NoneTypes DEF Crash, Die
<1>10. CASE UNCHANGED vars
  BY <1>10 DEF vars
<1>11. QED
  BY <1>1, <1>2, <1>3, <1>4, <1>5, <1>6, <1>7, <1>8, <1>9, <1>10 DEF Opens, Works

\* Every variable keeps its type, whatever the operator does.
THEOREM StudioTypes == StudioSpec => []StudioTypeOK
<1>1. StudioInit => StudioTypeOK
  BY NoneTypes DEF StudioInit, StudioTypeOK, BusInit, BusTypeOK
<1>2. StudioTypeOK /\ [Opens \/ Works]_vars => StudioTypeOK'
  BY StudioTypesStep
<1>3. QED
  BY <1>1, <1>2, PTL DEF StudioSpec

-----------------------------------------------------------------------------

\* What a step may make of a stream, unless it opens one.
LEMMA StreamMoves ==
  ASSUME StudioTypeOK, [Opens \/ Works]_vars, NEW u \in Viewer,
         ~ \E v \in Viewer, c \in Camera, t \in Token : OpenCamera(v, c, t)
  PROVE  \/ viewer'[u] \in {viewer[u], NoStream}
         \/ /\ viewer[u].pc # "none" /\ viewer'[u].cams = viewer[u].cams
            /\ \/ viewer'[u].pc \in {"closing", "dropped", "loose"}
               \/ viewer[u].pc = "opening" /\ viewer'[u].pc = "streaming"
<1>1. CASE viewer' \in {viewer, Cleaned, Stopped(Streaming)}
  BY <1>1, AllStreamsLeft
<1>2. ASSUME NEW v \in Viewer, StartStream(v) \/ CloseCamera(v) \/ StopProcess(v)
      PROVE  \/ viewer'[u] \in {viewer[u], NoStream}
             \/ /\ viewer[u].pc # "none" /\ viewer'[u].cams = viewer[u].cams
                /\ \/ viewer'[u].pc \in {"closing", "dropped", "loose"}
                   \/ viewer[u].pc = "opening" /\ viewer'[u].pc = "streaming"
  <2>1. {v} \in SUBSET Viewer
    OBVIOUS
  <2>2. CASE viewer' = Stopped({v})
    BY <2>1, <2>2, StreamsStopped
  <2>3. CASE viewer[v].pc = "opening" /\ viewer' = Moved({v}, "streaming")
    <3>1. viewer'[u] = IF u \in {v} THEN [pc |-> "streaming", cams |-> viewer[u].cams]
                       ELSE viewer[u]
      BY <2>1, <2>3, MovedIs
    <3>2. QED
      BY <2>3, <3>1
  <2>4. CASE CloseCamera(v)
    <3>1. viewer' = Moved({v}, "closing") /\ viewer[v].pc # "none"
      BY <2>4 DEF CloseCamera
    <3>2. viewer'[u] = IF u \in {v} THEN [pc |-> "closing", cams |-> viewer[u].cams]
                       ELSE viewer[u]
      BY <2>1, <3>1, MovedIs
    <3>3. QED
      BY <3>1, <3>2
  <2>5. QED
    BY <1>2, <2>2, <2>3, <2>4 DEF StartStream, StopProcess
<1>3. CASE CleanupFault \/ \E t \in Token : EndFault(t)
  <2>1. PICK S \in SUBSET Streaming : viewer' = Loosened(S)
    BY <1>3 DEF CleanupFault, EndFault
  <2>2. CASE u \in S
    BY <2>1, <2>2 DEF Loosened, Streaming, StudioTypeOK, Stream
  <2>3. CASE u \notin S
    BY <2>1, <2>3, AllStreamsLeft DEF Loosened
  <2>4. QED
    BY <2>2, <2>3
<1>4. ASSUME NEW h \in Handler, ReleaseHardware(h) \/ ReleaseFault(h)
      PROVE  \/ viewer'[u] = viewer[u]
             \/ /\ viewer[u].pc # "none" /\ viewer'[u].cams = viewer[u].cams
                /\ viewer'[u].pc \in {"closing", "dropped", "loose"}
  <2>1. CASE ReleaseHardware(h)
    <3>1. viewer'[u] = IF u \in Streaming THEN [pc |-> "dropped", cams |-> viewer[u].cams]
                       ELSE viewer[u]
      BY <2>1, AllStreamsLeft, MovedIs DEF ReleaseHardware
    <3>2. QED
      BY <3>1 DEF Streaming
  <2>2. CASE ReleaseFault(h)
    <3> DEFINE S == {v \in hand[h].stops : viewer[v].pc = "dropped"}
    <3>1. S \in SUBSET Viewer
      BY DEF StudioTypeOK, Hand
    <3>2. viewer'[u] = IF u \in S THEN [pc |-> "loose", cams |-> viewer[u].cams]
                       ELSE viewer[u]
      BY <2>2, <3>1, MovedIs DEF ReleaseFault
    <3>3. QED
      BY <3>2
  <2>3. QED
    BY <1>4, <2>1, <2>2
<1>5. CASE Crash
  BY <1>5 DEF Crash, Running, StudioTypeOK, Stream
<1>6. QED
  BY <1>1, <1>2, <1>3, <1>4, <1>5
     DEF Opens, Works, StartSession, Snapshot, SnapBegin, RecorderStep, Show, EndSession,
         Expire, Reap, Cleanup, SnapShoot, SnapShot, SnapEnd, BeginRecording, CheckBus,
         Answer, vars

\* Streams are only ever begun by OpenCamera, snapshots by SnapBegin.
LEMMA StreamsBegin ==
  ASSUME StudioTypeOK, [Opens \/ Works]_vars,
         ~ \E v \in Viewer, c \in Camera, t \in Token : OpenCamera(v, c, t)
  PROVE  Active' \subseteq Active
  BY StreamMoves DEF Active, NoStream

LEMMA SnapshotsBegin ==
  ASSUME StudioTypeOK, [Opens \/ Works]_vars, ~ \E c \in Camera : SnapBegin(c)
  PROVE  Snapping' \subseteq Snapping
<1>1. ASSUME NEW c \in Camera, SnapShoot(c) \/ SnapShot(c) \/ SnapEnd(c)
      PROVE  Snapping' \subseteq Snapping
  BY <1>1 DEF Snapping, SnapShoot, SnapShot, SnapEnd, StudioTypeOK
<1>2. CASE Crash
  BY <1>2 DEF Snapping, Crash
<1>3. CASE UNCHANGED snap
  BY <1>3 DEF Snapping
<1>4. QED
  BY <1>1, <1>2, <1>3
     DEF Opens, Works, StartSession, Snapshot, OpenCamera, RecorderStep, Show, EndSession,
         EndFault, Expire, Reap, Cleanup, CleanupFault, StartStream, CloseCamera,
         StopProcess, ReleaseHardware, ReleaseFault, BeginRecording, CheckBus, Answer, vars

\* A thread that serves no stream has no camera.
SlotsAreEmpty == \A v \in Viewer : viewer[v].pc = "none" => viewer[v].cams = {}

LEMMA SharingStep ==
  ASSUME StudioTypeOK, SlotsAreEmpty, SharedOnlyWithLeaving, [Opens \/ Works]_vars
  PROVE  SlotsAreEmpty' /\ SharedOnlyWithLeaving'
<1> USE DEF SlotsAreEmpty, SharedOnlyWithLeaving
<1>0. NoStream.pc = "none" /\ NoStream.cams = {}
  BY DEF NoStream
<1>1. ASSUME NEW v \in Viewer, NEW c \in Camera, NEW t \in Token, OpenCamera(v, c, t)
      PROVE  SlotsAreEmpty' /\ SharedOnlyWithLeaving'
  <2>1. /\ c \notin Snapping /\ Snapping' = Snapping
        /\ \A u \in Viewer : viewer'[u] = IF u = v THEN [pc |-> "opening", cams |-> {c}]
                                          ELSE viewer[u]
    BY <1>1 DEF OpenCamera, StudioTypeOK, Snapping
  <2>2. QED
    BY <2>1
<1>2. ASSUME ~ \E v \in Viewer, c \in Camera, t \in Token : OpenCamera(v, c, t)
      PROVE  SlotsAreEmpty'
  BY <1>0, <1>2, StreamMoves
<1>3. ASSUME NEW c \in Camera, SnapBegin(c)
      PROVE  SharedOnlyWithLeaving'
  <2>1. Snapping' \subseteq Snapping \cup {c} /\ viewer' = viewer
    BY <1>3 DEF SnapBegin, Snapping, StudioTypeOK
  <2>2. ASSUME NEW v \in Viewer, c \in viewer[v].cams
        PROVE  viewer[v].pc \in {"closing", "dropped", "loose"}
    <3>1. viewer[v].pc # "streaming"
      BY <1>3, <2>2 DEF SnapBegin, Streamed, Streaming
    <3>2. viewer[v].pc # "opening" /\ viewer[v].pc # "none"
      BY <1>3, <2>2 DEF SnapBegin, LockFree
    <3>3. QED
      BY <3>1, <3>2 DEF StudioTypeOK, Stream
  <2>3. QED
    BY <2>1, <2>2
<1>4. ASSUME ~ \E v \in Viewer, c \in Camera, t \in Token : OpenCamera(v, c, t),
             ~ \E c \in Camera : SnapBegin(c)
      PROVE  SharedOnlyWithLeaving'
  <2>1. Snapping' \subseteq Snapping
    BY <1>4, SnapshotsBegin
  <2>2. SUFFICES ASSUME NEW u \in Viewer, viewer'[u].cams \cap Snapping' # {}
                 PROVE  viewer'[u].pc \in {"closing", "dropped", "loose"}
    OBVIOUS
  <2>3. CASE viewer'[u] \in {viewer[u], NoStream}
    BY <1>0, <2>1, <2>2, <2>3
  <2>4. CASE viewer'[u].cams = viewer[u].cams /\ viewer[u].pc = "opening"
    BY <2>1, <2>2, <2>4
  <2>5. QED
    BY <1>4, <2>3, <2>4, StreamMoves
<1>5. QED
  BY <1>1, <1>2, <1>3, <1>4

\* A snapshot meets on its camera no stream but one that was taken off the
\* books, is being stopped or was let go of.
THEOREM SnapshotsShare == StudioSpec => []SharedOnlyWithLeaving
<1>1. StudioInit => SlotsAreEmpty /\ SharedOnlyWithLeaving
  BY DEF StudioInit, SlotsAreEmpty, SharedOnlyWithLeaving, NoStream
<1>2. StudioTypeOK /\ SlotsAreEmpty /\ SharedOnlyWithLeaving /\ [Opens \/ Works]_vars
        => SlotsAreEmpty' /\ SharedOnlyWithLeaving'
  BY SharingStep
<1>3. QED
  BY <1>1, <1>2, StudioTypes, PTL DEF StudioSpec

-----------------------------------------------------------------------------

\* What is open on the books keeps a lease.
Leased == gateway \/ Active # {} => \E t \in Token : lease[t] # "none"

LEMMA LeaseStep ==
  ASSUME StudioTypeOK, Leased, [Opens \/ Works]_vars
  PROVE  Leased'
<1> USE DEF StudioTypeOK, Leased
<1>0. /\ \A t \in Token : Current[t] # "none" <=> t \in Live
      /\ Live \subseteq Token
  BY DEF Current, Live
<1>1. ASSUME NEW t \in Token, lease'[t] # "none" PROVE Leased'
  BY <1>1
<1>2. ASSUME ~ \E v \in Viewer, c \in Camera, t \in Token : OpenCamera(v, c, t),
             gateway' => gateway, UNCHANGED lease
      PROVE  Leased'
  BY <1>2, StreamsBegin
<1>3. ASSUME gateway' = FALSE, Active' = {} PROVE Leased'
  BY <1>3
<1>4. ASSUME NEW t \in Token, StartSession(t) \/ Snapshot(t) \/ EndSession(t) \/ Expire(t)
      PROVE  Leased'
  <2>1. CASE StartSession(t)
    BY <1>1, <2>1 DEF StartSession, Current
  <2>2. CASE Snapshot(t)
    BY <1>0, <1>1, <2>2 DEF Snapshot
  <2>3. CASE EndSession(t)
    <3>1. CASE LastLease(t)
      <4>1. Active' = {}
        <5>1. \A v \in Viewer : /\ viewer'[v] = viewer[v] \/ viewer'[v] = NoStream
                                /\ viewer'[v].pc # "streaming"
          BY <2>3, <3>1, AllStreamsLeft DEF EndSession
        <5>2. QED
          BY <2>3, <5>1 DEF EndSession, LockFree, Active, NoStream
      <4>2. QED
        BY <1>3, <2>3, <3>1, <4>1 DEF EndSession
    <3>2. CASE ~LastLease(t)
      <4>1. PICK x \in Token \ {t} : lease[x] # "none"
        BY <2>3, <3>2 DEF EndSession, LastLease
      <4>2. lease'[x] # "none"
        BY <2>3, <4>1 DEF EndSession
      <4>3. QED
        BY <1>1, <4>2
    <3>3. QED
      BY <3>1, <3>2
  <2>4. CASE Expire(t)
    BY <1>1, <2>4 DEF Expire
  <2>5. QED
    BY <1>4, <2>1, <2>2, <2>3, <2>4
<1>5. CASE Reap
  <2>1. CASE Live = {}
    <3>1. \A v \in Viewer : /\ viewer'[v] = viewer[v] \/ viewer'[v] = NoStream
                            /\ viewer'[v].pc # "streaming"
      BY <1>5, <2>1, AllStreamsLeft DEF Reap, Cleanup
    <3>2. Active' = {}
      BY <1>5, <3>1 DEF Reap, Cleanup, LockFree, Active, NoStream
    <3>3. QED
      BY <1>3, <1>5, <2>1, <3>2 DEF Reap, Cleanup
  <2>2. CASE Live # {}
    BY <1>0, <1>1, <1>5, <2>2 DEF Reap, Cleanup
  <2>3. QED
    BY <2>1, <2>2
<1>6. CASE CleanupFault \/ \E t \in Token : EndFault(t)
  <2>1. LockFree /\ gateway' = FALSE
    BY <1>6 DEF CleanupFault, EndFault
  <2>2. PICK S \in SUBSET Streaming : viewer' = Loosened(S)
    BY <1>6 DEF CleanupFault, EndFault
  <2>3. ASSUME NEW v \in Viewer
        PROVE  viewer'[v].pc # "opening" /\ viewer'[v].pc # "streaming"
    <3>1. CASE viewer'[v] = [pc |-> "loose", cams |-> viewer[v].cams]
      BY <3>1
    <3>2. CASE /\ viewer'[v] = viewer[v] \/ viewer'[v] = NoStream
               /\ viewer'[v].pc # "streaming"
      BY <2>1, <3>2 DEF LockFree, NoStream
    <3>3. QED
      BY <2>2, <3>1, <3>2, StreamsLoosened
  <2>4. Active' = {}
    BY <2>3 DEF Active
  <2>5. QED
    BY <1>3, <2>1, <2>4
<1>7. ASSUME NEW v \in Viewer, NEW c \in Camera, NEW t \in Token, OpenCamera(v, c, t)
      PROVE  Leased'
  BY <1>0, <1>1, <1>7 DEF OpenCamera
<1>8. ASSUME NEW h \in Handler, ReleaseHardware(h) PROVE Leased'
  <2>1. \A v \in Viewer : viewer'[v] = IF v \in Streaming
                            THEN [pc |-> "dropped", cams |-> viewer[v].cams] ELSE viewer[v]
    BY <1>8, AllStreamsLeft, MovedIs DEF ReleaseHardware
  <2>2. ASSUME NEW v \in Viewer
        PROVE  viewer'[v].pc # "opening" /\ viewer'[v].pc # "streaming"
    <3>1. CASE v \in Streaming
      <4>1. viewer'[v] = [pc |-> "dropped", cams |-> viewer[v].cams]
        BY <2>1, <3>1
      <4>2. QED
        BY <4>1
    <3>2. CASE v \notin Streaming
      BY <1>8, <2>1, <3>2 DEF ReleaseHardware, LockFree, Streaming
    <3>3. QED
      BY <3>1, <3>2
  <2>3. Active' = {}
    BY <2>2 DEF Active
  <2>4. QED
    BY <1>3, <1>8, <2>3 DEF ReleaseHardware
<1>9. CASE Crash
  <2>1. Active' = {}
    BY <1>9 DEF Crash, Active, NoStream, Stream
  <2>2. QED
    BY <1>3, <1>9, <2>1 DEF Crash
<1>10. CASE ~ (\E v \in Viewer, c \in Camera, t \in Token : OpenCamera(v, c, t))
            /\ UNCHANGED <<lease, gateway>>
  BY <1>2, <1>10
<1>11. QED
  BY <1>4, <1>5, <1>6, <1>7, <1>8, <1>9, <1>10
     DEF Opens, Works, SnapBegin, RecorderStep, Show, StartStream, CloseCamera, StopProcess,
         SnapShoot, SnapShot, SnapEnd, ReleaseFault, BeginRecording, CheckBus, Answer, vars

\* What a recorder request took off the books it stops, or lets go of.
Handled == \A v \in Viewer : viewer[v].pc = "dropped" =>
             \E h \in Handler : hand[h].pc = "released" /\ v \in hand[h].stops

LEMMA HandledStep ==
  ASSUME StudioTypeOK, Handled, [Opens \/ Works]_vars
  PROVE  Handled'
<1> SUFFICES ASSUME NEW u \in Viewer, viewer'[u].pc = "dropped"
             PROVE  \E h \in Handler : hand'[h].pc = "released" /\ u \in hand'[h].stops
  BY DEF Handled
<1> USE DEF StudioTypeOK
<1>1. ASSUME NEW h \in Handler, ReleaseHardware(h)
      PROVE  \E g \in Handler : hand'[g].pc = "released" /\ u \in hand'[g].stops
  <2>1. CASE u \in Streaming
    <3>1. hand'[h] = [pc |-> "released", stops |-> Streaming]
      BY <1>1 DEF ReleaseHardware
    <3>2. QED
      BY <2>1, <3>1
  <2>2. CASE u \notin Streaming
    <3>0. viewer' = Moved(Streaming, "dropped")
      BY <1>1 DEF ReleaseHardware
    <3>1. viewer'[u] = viewer[u]
      <4>1. Moved(Streaming, "dropped")[u] = viewer[u]
        BY <2>2 DEF Moved
      <4>2. QED
        BY <3>0, <4>1
    <3>2. PICK g \in Handler : hand[g].pc = "released" /\ u \in hand[g].stops
      BY <3>1 DEF Handled
    <3>3. g # h /\ hand'[g] = hand[g]
      BY <1>1, <3>2 DEF ReleaseHardware
    <3>4. QED
      BY <3>2, <3>3
  <2>3. QED
    BY <2>1, <2>2
<1>2. ASSUME ~ \E h \in Handler : ReleaseHardware(h)
      PROVE  viewer[u].pc = "dropped"
  <2>1. CASE \E v \in Viewer, c \in Camera, t \in Token : OpenCamera(v, c, t)
    <3>1. PICK v \in Viewer, c \in Camera, t \in Token : OpenCamera(v, c, t)
      BY <2>1
    <3>2. viewer'[u] = IF u = v THEN [pc |-> "opening", cams |-> {c}] ELSE viewer[u]
      BY <3>1 DEF OpenCamera
    <3>3. QED
      BY <3>2
  <2>2. CASE CleanupFault \/ \E t \in Token : EndFault(t)
    <3>1. PICK S \in SUBSET Streaming : viewer' = Loosened(S)
      BY <2>2 DEF CleanupFault, EndFault
    <3>2. CASE viewer'[u] = [pc |-> "loose", cams |-> viewer[u].cams]
      BY <3>2
    <3>3. CASE viewer'[u] = viewer[u] \/ viewer'[u] = NoStream
      BY <3>3 DEF NoStream
    <3>4. QED
      BY <3>1, <3>2, <3>3, StreamsLoosened
  <2>3. CASE viewer' \in {viewer, Cleaned, Stopped(Streaming)}
    BY <2>3, AllStreamsLeft DEF NoStream
  <2>4. ASSUME NEW S \in SUBSET Viewer, NEW pc \in {"streaming", "closing", "loose"},
               viewer' \in {Stopped(S), Moved(S, pc)}
        PROVE  viewer[u].pc = "dropped"
    <3>1. CASE viewer' = Stopped(S)
      <4>1. viewer'[u] = IF u \in S THEN NoStream ELSE viewer[u]
        BY <3>1, StreamsStopped
      <4>2. QED
        BY <4>1 DEF NoStream
    <3>2. CASE viewer' = Moved(S, pc)
      <4>1. viewer'[u] = IF u \in S THEN [pc |-> pc, cams |-> viewer[u].cams] ELSE viewer[u]
        BY <3>2, MovedIs
      <4>2. QED
        BY <2>4, <4>1
    <3>3. QED
      BY <2>4, <3>1, <3>2
  <2>5. ASSUME NEW v \in Viewer, StartStream(v) \/ CloseCamera(v) \/ StopProcess(v)
        PROVE  viewer[u].pc = "dropped"
    <3>1. {v} \in SUBSET Viewer
      OBVIOUS
    <3>2. QED
      BY <2>4, <2>5, <3>1 DEF StartStream, CloseCamera, StopProcess
  <2>6. ASSUME NEW h \in Handler, ReleaseFault(h)
        PROVE  viewer[u].pc = "dropped"
    <3>1. {v \in hand[h].stops : viewer[v].pc = "dropped"} \in SUBSET Viewer
      BY DEF Hand
    <3>2. QED
      BY <2>4, <2>6, <3>1 DEF ReleaseFault
  <2>7. CASE Crash
    BY <2>7 DEF Crash, NoStream, Stream
  <2>8. QED
    BY <1>2, <2>1, <2>2, <2>3, <2>5, <2>6, <2>7
       DEF Opens, Works, StartSession, Snapshot, SnapBegin, RecorderStep, Show, EndSession,
           Expire, Reap, Cleanup, SnapShoot, SnapShot, SnapEnd, BeginRecording, CheckBus,
           Answer, vars
<1>3. ASSUME viewer[u].pc = "dropped", ~ \E h \in Handler : ReleaseHardware(h)
      PROVE  \E h \in Handler : hand'[h].pc = "released" /\ u \in hand'[h].stops
  <2>1. PICK g \in Handler : hand[g].pc = "released" /\ u \in hand[g].stops
    BY <1>3 DEF Handled
  <2>2. CASE hand'[g] = hand[g]
    BY <2>1, <2>2
  <2>3. ASSUME NEW v \in Viewer, StopProcess(v)
        PROVE  hand'[g].pc = "released" /\ u \in hand'[g].stops
    <3>1. {v} \in SUBSET Viewer
      OBVIOUS
    <3>2. u # v
      BY <2>3, <3>1, StreamsStopped
         DEF StopProcess, NoStream
    <3>3. hand'[g] = [hand[g] EXCEPT !.stops = @ \ {v}]
      BY <2>3 DEF StopProcess
    <3>4. hand[g] \in Hand
      OBVIOUS
    <3>5. QED
      BY <2>1, <3>2, <3>3, <3>4 DEF Hand
  <2>4. ASSUME NEW h \in Handler, ReleaseFault(h)
        PROVE  hand'[g] = hand[g]
    <3> DEFINE S == {v \in hand[h].stops : viewer[v].pc = "dropped"}
    <3>1. S \in SUBSET Viewer
      BY DEF Hand
    <3>2. u \notin S
      <4>1. viewer' = Moved(S, "loose")
        BY <2>4 DEF ReleaseFault
      <4>2. viewer'[u] = IF u \in S THEN [pc |-> "loose", cams |-> viewer[u].cams]
                         ELSE viewer[u]
        BY <3>1, <4>1, MovedIs
      <4>3. QED
        BY <4>2
    <3>3. h # g
      BY <1>3, <2>1, <3>2
    <3>4. QED
      BY <2>4, <3>3 DEF ReleaseFault
  <2>5. ASSUME NEW h \in Handler, BeginRecording(h) \/ CheckBus(h) \/ Answer(h)
        PROVE  hand'[g] = hand[g]
    <3>1. h # g
      BY <2>1, <2>5 DEF BeginRecording, CheckBus, Answer, Released
    <3>2. QED
      BY <2>5, <3>1 DEF BeginRecording, CheckBus, Answer
  <2>6. CASE Crash
    <3>1. viewer'[u].pc # "dropped"
      BY <2>6 DEF Crash, NoStream, Stream
    <3>2. QED
      BY <3>1
  <2>7. QED
    BY <1>3, <2>1, <2>2, <2>3, <2>4, <2>5, <2>6
       DEF Opens, Works, StartSession, Snapshot, OpenCamera, SnapBegin, RecorderStep, Show,
           EndSession, EndFault, Expire, Reap, Cleanup, CleanupFault, StartStream,
           CloseCamera, SnapShoot, SnapShot, SnapEnd, vars
<1>4. QED
  BY <1>1, <1>2, <1>3

\* What is open on the books is under a lease, so that the reaper or the end of
\* a session takes it; a process off the books is being stopped, or an exception
\* let go of it.
THEOREM HardwareAttended == StudioSpec => []HardwareIsAttended
<1>1. StudioInit => Leased /\ Handled
  BY DEF StudioInit, Leased, Handled, Active, NoStream
<1>2. StudioTypeOK /\ Leased /\ Handled /\ [Opens \/ Works]_vars => Leased' /\ Handled'
  BY LeaseStep, HandledStep
<1>3. Leased /\ Handled => HardwareIsAttended
  BY DEF Leased, Handled, HardwareIsAttended
<1>4. QED
  BY <1>1, <1>2, <1>3, StudioTypes, PTL DEF StudioSpec

-----------------------------------------------------------------------------

\* With an orderly operator every step leaves the bus to the recorder.
LEMMA YieldStep ==
  ASSUME StudioTypeOK, LiveYieldsBus, [(HandsIdle /\ Opens) \/ Works]_vars
  PROVE  LiveYieldsBus'
<1> USE DEF StudioTypeOK, BusTypeOK, LiveYieldsBus, HandsIdle
<1>1. CASE RecorderStep \/ Show
  BY <1>1 DEF RecorderStep, Show, Film, Energise, Leave, Release, Cut, End
<1>2. CASE HandsIdle /\ Opens
  <2>1. ASSUME NEW t \in Token, StartSession(t) \/ Snapshot(t)
        PROVE  LiveYieldsBus'
    BY <1>2, <2>1 DEF StartSession, Snapshot, Ensured
  <2>2. ASSUME NEW v \in Viewer, NEW c \in Camera, NEW t \in Token, OpenCamera(v, c, t)
        PROVE  LiveYieldsBus'
    BY <2>2 DEF OpenCamera
  <2>3. ASSUME NEW c \in Camera, SnapBegin(c)
        PROVE  LiveYieldsBus'
    BY <2>3 DEF SnapBegin
  <2>4. QED
    BY <1>2, <2>1, <2>2, <2>3 DEF Opens
<1>3. ASSUME NEW t \in Token, EndSession(t) \/ Expire(t)
      PROVE  LiveYieldsBus'
  BY <1>3 DEF EndSession, Expire
<1>4. CASE Reap \/ CleanupFault \/ \E t \in Token : EndFault(t)
  BY <1>4 DEF Reap, Cleanup, CleanupFault, EndFault
<1>5. ASSUME NEW v \in Viewer, StartStream(v) \/ CloseCamera(v) \/ StopProcess(v)
      PROVE  LiveYieldsBus'
  <2>1. CASE StartStream(v) \/ CloseCamera(v)
    BY <2>1 DEF StartStream, CloseCamera
  <2>2. CASE StopProcess(v)
    <3>1. /\ gateway' = gateway /\ stage' = stage
          /\ \A h \in Handler : hand'[h] = [hand[h] EXCEPT !.stops = @ \ {v}]
      BY <2>2 DEF StopProcess
    <3>2. \A h \in Handler : hand'[h].pc = hand[h].pc
      BY <3>1 DEF Hand
    <3>3. QED
      BY <3>1, <3>2
  <2>3. QED
    BY <1>5, <2>1, <2>2
<1>6. ASSUME NEW c \in Camera, SnapShoot(c) \/ SnapShot(c) \/ SnapEnd(c)
      PROVE  LiveYieldsBus'
  BY <1>6 DEF SnapShoot, SnapShot, SnapEnd
<1>7. ASSUME NEW h \in Handler,
             \/ ReleaseHardware(h) \/ ReleaseFault(h)
             \/ BeginRecording(h) \/ CheckBus(h) \/ Answer(h)
      PROVE  LiveYieldsBus'
  <2>1. CASE ReleaseHardware(h)
    BY <2>1 DEF ReleaseHardware
  <2>2. CASE BeginRecording(h)
    BY <2>2 DEF BeginRecording, Released
  <2>3. CASE CheckBus(h)
    BY <2>3 DEF CheckBus, Released
  <2>4. CASE Answer(h)
    BY <2>4 DEF Answer, Released, NoHand
  <2>5. CASE ReleaseFault(h)
    BY <2>5 DEF ReleaseFault
  <2>6. QED
    BY <1>7, <2>1, <2>2, <2>3, <2>4, <2>5
<1>8. CASE Crash
  BY <1>8 DEF Crash
<1>9. CASE UNCHANGED vars
  BY <1>9 DEF vars
<1>10. QED
  BY <1>1, <1>2, <1>3, <1>4, <1>5, <1>6, <1>7, <1>8, <1>9 DEF Works

\* Release before start, and the status check before the bus is opened, keep
\* the live gateway off the bus as long as nobody goes back to the live page
\* between the two.
THEOREM LiveYields == OrderlySpec => []LiveYieldsBus
<1>1. StudioInit => StudioTypeOK /\ LiveYieldsBus
  BY NoneTypes DEF StudioInit, LiveYieldsBus, StudioTypeOK, BusInit, BusTypeOK
<1>2. StudioTypeOK /\ LiveYieldsBus /\ [(HandsIdle /\ Opens) \/ Works]_vars
        => StudioTypeOK' /\ LiveYieldsBus'
  <2>1. [(HandsIdle /\ Opens) \/ Works]_vars => [Opens \/ Works]_vars
    OBVIOUS
  <2>2. QED
    BY <2>1, StudioTypesStep, YieldStep
<1>3. QED
  BY <1>1, <1>2, PTL DEF OrderlySpec
-----------------------------------------------------------------------------
(* The recorder in the Studio                                               *)

\* The sessions, handlers and crashes around it take no step of the recorder's
\* bus that RecorderBus does not know.
THEOREM RecorderComposed == StudioSpec => BusSpec
<1>1. StudioInit => BusInit
  BY DEF StudioInit
<1>2. [Opens \/ Works]_vars => [BusNext]_busVars
  <2> SUFFICES ASSUME [Opens \/ Works]_vars, busVars' # busVars
               PROVE  BusNext
    OBVIOUS
  <2>1. CASE RecorderStep
    BY <2>1 DEF RecorderStep, BusNext
  <2>2. CASE \E h \in Handler : BeginRecording(h)
    BY <2>2 DEF BeginRecording, BusNext
  <2>3. CASE Crash
    BY <2>3 DEF Crash, BusNext
  <2>4. QED
    BY <2>1, <2>2, <2>3
       DEF Opens, Works, StartSession, Snapshot, OpenCamera, SnapBegin, Show, EndSession,
           Expire, Reap, Cleanup, CleanupFault, EndFault, StartStream, CloseCamera,
           StopProcess, SnapShoot, SnapShot, SnapEnd, ReleaseHardware, ReleaseFault,
           CheckBus, Answer, vars
<1>3. QED
  BY <1>1, <1>2, PTL DEF StudioSpec, BusSpec

\* The arm has power only while its cameras record and the status that the other
\* requests read shows it: no one who asks finds a recorder that is free.
Overt ==
  /\ held => filming /\ shown
  /\ filming \/ shown => stage # "free"

THEOREM EnergisedOvertly == StudioSpec => []Overt
<1>1. StudioInit => Overt
  BY DEF StudioInit, BusInit, Overt
<1>2. Overt /\ [Opens \/ Works]_vars => Overt'
  <2> SUFFICES ASSUME Overt, [Opens \/ Works]_vars PROVE Overt'
    OBVIOUS
  <2>1. CASE RecorderStep
    BY <2>1 DEF RecorderStep, Film, Energise, Leave, Release, Cut, End, Overt
  <2>2. CASE Show
    BY <2>2 DEF Show, Overt
  <2>3. CASE \E h \in Handler : BeginRecording(h)
    BY <2>3 DEF BeginRecording, Begin, Overt
  <2>4. CASE Crash
    BY <2>4 DEF Crash, Die, Overt
  <2>5. CASE UNCHANGED <<busVars, shown>>
    BY <2>5 DEF Overt
  <2>6. QED
    BY <2>1, <2>2, <2>3, <2>4, <2>5
       DEF Opens, Works, StartSession, Snapshot, OpenCamera, SnapBegin, EndSession,
           Expire, Reap, Cleanup, CleanupFault, EndFault, StartStream, CloseCamera,
           StopProcess, SnapShoot, SnapShot, SnapEnd, ReleaseHardware, ReleaseFault,
           CheckBus, Answer, vars
<1>3. QED
  BY <1>1, <1>2, PTL DEF StudioSpec

\* With the orderly operator the arm is never energised beside an open gateway
\* of the live workspace: what the handover promises of the bus, of its gateways.
THEOREM ArmHasItsBus == OrderlySpec => [](held => ~gateway)
<1>1. OrderlySpec => StudioSpec
  <2>1. [(HandsIdle /\ Opens) \/ Works]_vars => [Opens \/ Works]_vars
    OBVIOUS
  <2>2. QED
    BY <2>1, PTL DEF OrderlySpec, StudioSpec
<1>2. Overt /\ LiveYieldsBus => (held => ~gateway)
  BY DEF Overt, LiveYieldsBus
<1>3. QED
  BY <1>1, <1>2, EnergisedOvertly, LiveYields, PTL

-----------------------------------------------------------------------------
(* What a step may not do                                                   *)

\* An expired lease is not renewed; while no session is live the gateway does
\* not open and no stream begins.
ExpiryIsFinal ==
  [][/\ \A t \in Token : lease[t] = "expired" => lease'[t] # "live"
     /\ Live' = {} => (gateway' => gateway) /\ Active' \subseteq Active]_vars

\* The checks of the live workspace find the recorder's cameras shown for as
\* long as the arm has power.
THEOREM LiveCamerasShut == StudioSpec => CamerasStayShut
<1>1. StudioTypeOK /\ Overt /\ [Opens \/ Works]_vars
        => [held => Active' \subseteq Active /\ Snapping' \subseteq Snapping]_vars
  <2> SUFFICES ASSUME StudioTypeOK, Overt, [Opens \/ Works]_vars, held
               PROVE  Active' \subseteq Active /\ Snapping' \subseteq Snapping
    OBVIOUS
  <2>1. shown
    BY DEF Overt
  <2>2. ~ \E v \in Viewer, c \in Camera, t \in Token : OpenCamera(v, c, t)
    BY <2>1 DEF OpenCamera
  <2>3. ~ \E c \in Camera : SnapBegin(c)
    BY <2>1 DEF SnapBegin
  <2>4. QED
    BY <2>2, <2>3, StreamsBegin, SnapshotsBegin
<1>2. QED
  BY <1>1, StudioTypes, EnergisedOvertly, PTL DEF StudioSpec, CamerasStayShut

THEOREM ExpiredForGood == StudioSpec => ExpiryIsFinal
<1> DEFINE Kept == /\ \A t \in Token : lease[t] = "expired" => lease'[t] # "live"
                   /\ Live' = {} => (gateway' => gateway) /\ Active' \subseteq Active
<1>1. StudioTypeOK /\ [Opens \/ Works]_vars => [Kept]_vars
  <2> SUFFICES ASSUME StudioTypeOK, [Opens \/ Works]_vars PROVE Kept
    OBVIOUS
  <2>1. ASSUME NEW t \in Token, StartSession(t) PROVE Kept
    <3>1. /\ \A x \in Token : lease'[x] = IF x = t THEN "live" ELSE Current[x]
          /\ lease[t] = "none"
      BY <2>1 DEF StartSession, Current
    <3>2. t \in Live' /\ \A x \in Token : lease[x] = "expired" => lease'[x] # "live"
      BY <3>1 DEF Live, Current
    <3>3. QED
      BY <3>2
  <2>2. ASSUME NEW t \in Live, lease' = Current PROVE Kept
    <3>1. t \in Live' /\ \A x \in Token : lease[x] = "expired" => lease'[x] # "live"
      BY <2>2 DEF Live, Current
    <3>2. QED
      BY <3>1
  <2>3. CASE \E v \in Viewer, c \in Camera, t \in Token : OpenCamera(v, c, t)
    BY <2>2, <2>3 DEF OpenCamera
  <2>4. CASE \E t \in Token : Snapshot(t)
    BY <2>2, <2>4 DEF Snapshot
  <2>5. ASSUME ~ \E v \in Viewer, c \in Camera, t \in Token : OpenCamera(v, c, t),
               gateway' => gateway,
               \A x \in Token : lease[x] = "expired" => lease'[x] # "live"
        PROVE  Kept
    BY <2>5, StreamsBegin
  <2>6. ASSUME ~ \E v \in Viewer, c \in Camera, t \in Token : OpenCamera(v, c, t),
               ~ \E t \in Token : StartSession(t) \/ Snapshot(t)
        PROVE  /\ gateway' => gateway
               /\ \A x \in Token : lease[x] = "expired" => lease'[x] # "live"
    <3>1. CASE Reap \/ CleanupFault
      BY <3>1 DEF Reap, Cleanup, CleanupFault, Current, StudioTypeOK
    <3>2. ASSUME NEW t \in Token, EndSession(t) \/ EndFault(t) \/ Expire(t)
          PROVE  /\ gateway' => gateway
                 /\ \A x \in Token : lease[x] = "expired" => lease'[x] # "live"
      BY <3>2 DEF EndSession, EndFault, Expire, StudioTypeOK
    <3>3. CASE gateway' = FALSE /\ lease' = [t \in Token |-> "none"]
      BY <3>3
    <3>4. CASE UNCHANGED <<gateway, lease>>
      BY <3>4
    <3>5. QED
      BY <2>6, <3>1, <3>2, <3>3, <3>4
         DEF Opens, Works, SnapBegin, RecorderStep, Show, StartStream, CloseCamera,
             StopProcess, SnapShoot, SnapShot, SnapEnd, ReleaseHardware, ReleaseFault,
             BeginRecording, CheckBus, Answer, Crash, vars
  <2>7. QED
    BY <2>1, <2>3, <2>4, <2>5, <2>6
<1>2. QED
  BY <1>1, StudioTypes, PTL DEF StudioSpec, ExpiryIsFinal
=============================================================================
