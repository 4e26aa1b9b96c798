-------------------------- MODULE TeleopRecorderBus --------------------------
(***************************************************************************)
(* With the calm operator the recorder implements RecorderBus, for any set *)
(* of recordings and of handlers: every step it takes is a step of the     *)
(* abstract recorder, or none.                                             *)
(***************************************************************************)
EXTENDS TeleopRecorderSafety

USE NoRecAssumption
USE DEF memVars, thrVars, devVars, diskVars, callVars

\* A camera that runs is the one the shared field names, until it is finished.
CamerasNamed ==
  \A r \in Rec :
    /\ pc[r] \in {"none", "videos"} => cam[r] = "off"
    /\ pc[r] \in Working /\ cam[r] = "on" => video = r /\ pc[r] # "publish"

LEMMA CamerasStep ==
  ASSUME TypeOK, IInv, CamerasNamed, [CalmNext]_vars
  PROVE  CamerasNamed'
<1> USE DEF TypeOK, CamerasNamed, IInv, Ownership, Owning, Working, Goto, At
<1>1. ASSUME NEW r \in Rec, RecordLoop(r) PROVE CamerasNamed'
  <2>1. CASE StartVideo(r)
    BY <2>1 DEF StartVideo
  <2>2. CASE Raise(r)
    BY <2>2 DEF Raise
  <2>3. CASE FinishVideo(r)
    <3>1. \A x \in Rec : pc'[x] \in Working => x = r
      BY <2>3 DEF FinishVideo
    <3>2. pc'[r] = "publish" /\ cam'[r] # "on"
      BY <2>3 DEF FinishVideo
    <3>3. \A x \in Rec \ {r} : pc'[x] = pc[x] /\ cam'[x] \in {cam[x], "done", "failed"}
      BY <2>3 DEF FinishVideo
    <3>4. \A x \in Rec : cam'[x] # cam[x] => x = video
      BY <2>3 DEF FinishVideo
    <3>5. \A x \in Rec : pc'[x] \in {"none", "videos"} => cam'[x] = "off"
      BY <2>3, <3>2, <3>3, <3>4 DEF FinishVideo, Hardware, Driving, Running
    <3>6. QED
      BY <3>1, <3>2, <3>5
  <2>4. CASE OpenBackend(r) \/ Admit(r) \/ Announce(r) \/ Sample(r) \/ LeaveLoop(r)
    BY <2>4 DEF OpenBackend, Admit, Announce, Sample, LeaveLoop
  <2>5. CASE ExportTrace(r) \/ CloseBackend(r)
    BY <2>5 DEF ExportTrace, CloseBackend
  <2>6. CASE Publish(r) \/ Persist(r) \/ ArchiveFailed(r) \/ ResetToIdle(r)
             \/ Signal(r) \/ DiskFault(r) \/ ArchiveFault(r)
    BY <2>6 DEF Publish, Persist, ArchiveFailed, ResetToIdle, Signal, DiskFault, ArchiveFault
  <2>7. QED
    BY <1>1, <2>1, <2>2, <2>3, <2>4, <2>5, <2>6 DEF RecordLoop, RecordStep
<1>2. ASSUME NEW c \in Client, Routine(c) PROVE CamerasNamed'
  <2>1. CASE \E r \in Rec : Start(c, r)
    <3>1. PICK r \in Rec : Start(c, r)
      BY <2>1
    <3>2. pc[r] = "none" /\ cam' = cam /\ video' = video /\ pc' = [pc EXCEPT ![r] = "videos"]
      BY <3>1 DEF Start
    <3>3. QED
      BY <3>2
  <2>2. CASE ~ \E r \in Rec : Start(c, r)
    <3>1. UNCHANGED <<pc, cam, video>>
      BY <1>2, <2>2 DEF Routine, StartRequest, Request, RetryArchive, RetryFault, RetryArchiveFault,
         RetryReset, Rejected, StartTimeout, StartAnswer, Stop, StopAnswer, VerifyRequest,
         SyncRequest, Synchronize, GatewayAnswer
    <3>2. QED
      BY <3>1
  <2>3. QED
    BY <2>1, <2>2
<1>3. ASSUME NEW c \in Client, Dispose(c) PROVE CamerasNamed'
  <2>1. CASE CrashInFinalize(c)
    BY <2>1 DEF CrashInFinalize, ProcessEnds, Alive, Settling
  <2>2. CASE ~CrashInFinalize(c)
    <3>1. UNCHANGED <<pc, cam, video>>
      BY <1>3, <2>2 DEF Dispose, Finalize, FinalizeFault, Discard, DiscardFault, RetryRequest
    <3>2. QED
      BY <3>1
  <2>3. QED
    BY <2>1, <2>2
<1>4. CASE Process
  <2>1. CASE Restart
    BY <2>1 DEF Restart, Dead, Alive
  <2>2. CASE ~Restart
    <3>1. UNCHANGED <<cam, video>> /\ (UNCHANGED pc \/ ProcessEnds)
      BY <1>4, <2>2 DEF Process, Shutdown, ShutdownStop, ShutdownJoined, Crash
    <3>2. QED
      BY <3>1 DEF ProcessEnds, Alive, Settling
  <2>3. QED
    BY <2>1, <2>2
<1>5. CASE UNCHANGED vars
  BY <1>5 DEF vars
<1>6. QED
  BY <1>1, <1>2, <1>3, <1>4, <1>5 DEF CalmNext

LEMMA CamerasHold == CalmSpec => []CamerasNamed
<1>1. Init => CamerasNamed
  BY DEF Init, CamerasNamed, Working
<1>2. TypeOK /\ IInv /\ CamerasNamed /\ [CalmNext]_vars => CamerasNamed'
  BY CamerasStep
<1>3. QED
  BY <1>1, <1>2, CalmInvariant, PTL DEF CalmSpec

-----------------------------------------------------------------------------
(* Refinement                                                               *)

\* At most one attempt is at work, and what it holds shows.
LEMMA AtWork ==
  ASSUME TypeOK, IInv, CamerasNamed, NEW r \in Rec, Running, pc[r] \in Working
  PROVE  /\ Held <=> gate[r] = "held"
         /\ Filming <=> cam[r] = "on"
         /\ Stage = IF st.status = "stopping" THEN "stopping" ELSE "active"
         /\ Stage # "free"
  BY DEF TypeOK, IInv, Ownership, Owning, Working, Hardware, Driving, Held, Filming,
     Stage, Active

LEMMA AtWorkAfter ==
  ASSUME TypeOK', IInv', CamerasNamed', NEW r \in Rec, Running', pc'[r] \in Working
  PROVE  /\ Held' <=> gate'[r] = "held"
         /\ Filming' <=> cam'[r] = "on"
         /\ Stage' = IF st'.status = "stopping" THEN "stopping" ELSE "active"
  BY DEF TypeOK, IInv, Ownership, Owning, Working, Hardware, Driving, Held, Filming,
     Stage, Active

\* With no attempt at work nothing is in use.
LEMMA NoneAtWork ==
  ASSUME TypeOK, IInv, \A r \in Rec : pc[r] \notin Working
  PROVE  ~Held /\ ~Filming
  BY DEF TypeOK, IInv, Hardware, Working, Driving, Held, Filming

LEMMA NoneAtWorkAfter ==
  ASSUME TypeOK', IInv', \A r \in Rec : pc'[r] \notin Working
  PROVE  ~Held' /\ ~Filming'
  BY DEF TypeOK, IInv, Hardware, Working, Driving, Held, Filming

\* A step that leaves what the neighbours look at alone.
LEMMA NothingSeen ==
  ASSUME gate' = gate, cam' = cam, st'.status = st.status, Running' <=> Running,
         \A r \in Rec : pc'[r] \in Working <=> pc[r] \in Working
  PROVE  UNCHANGED <<Stage, Held, Filming>>
  BY DEF Stage, Held, Filming, Active

LEMMA ThreadRefines ==
  ASSUME TypeOK, TypeOK', IInv, IInv', CamerasNamed, CamerasNamed',
         NEW r \in Rec, RecordLoop(r)
  PROVE  Bus!BusNext \/ UNCHANGED <<Stage, Held, Filming>>
<1> USE DEF Bus!BusNext, At, Goto, Active
<1>1. Running /\ Running' /\ srv' = srv
  BY DEF RecordLoop, RecordStep, StartVideo, OpenBackend, Admit, Announce, Sample,
     LeaveLoop, ExportTrace, CloseBackend, FinishVideo, Publish, Persist, ArchiveFailed,
     ResetToIdle, Signal, Raise, DiskFault, ArchiveFault, Running, callVars
<1>2. CASE StartVideo(r)
  <2>1. pc[r] \in Working /\ pc'[r] \in Working /\ gate' = gate /\ st' = st
    BY <1>2 DEF StartVideo, Working, TypeOK
  <2>2. cam'[r] = "on" /\ gate[r] # "held" /\ st.status = "starting"
    BY <1>2 DEF StartVideo, TypeOK, IInv, Hardware, Driving, Ownership
  <2>3. Filming' /\ ~Held /\ ~Held' /\ Stage = "active" /\ Stage' = "active"
    BY <1>1, <2>1, <2>2, AtWork, AtWorkAfter
  <2>4. QED
    BY <2>3 DEF Bus!Film, Held, Filming
<1>3. CASE OpenBackend(r)
  <2>1. pc[r] \in Working /\ pc'[r] \in Working /\ cam' = cam /\ st' = st
    BY <1>3 DEF OpenBackend, Working, TypeOK
  <2>2. cam[r] = "on" /\ gate[r] # "held" /\ gate'[r] = "held" /\ st.status = "starting"
    BY <1>3 DEF OpenBackend, TypeOK, IInv, Hardware, Driving, Ownership
  <2>3. Filming /\ Filming' /\ ~Held /\ Held' /\ Stage = "active" /\ Stage' = "active"
    BY <1>1, <2>1, <2>2, AtWork, AtWorkAfter
  <2>4. QED
    BY <2>3 DEF Bus!Energise, Held, Filming
<1>4. CASE Admit(r)
  <2>1. pc[r] \in Working /\ pc'[r] \in Working /\ gate' = gate /\ cam' = cam
    BY <1>4 DEF Admit, Working, TypeOK
  <2>2. st.status = "starting" /\ st'.status = "recording"
    BY <1>4 DEF Admit, TypeOK, State, IInv, Ownership
  <2>3. Stage' = Stage /\ (Held' <=> Held) /\ (Filming' <=> Filming)
    BY <1>1, <2>1, <2>2, AtWork, AtWorkAfter
  <2>4. QED
    BY <2>3 DEF Held, Filming
<1>5. CASE LeaveLoop(r)
  <2>1. pc[r] \in Working /\ pc'[r] \in Working /\ gate' = gate /\ cam' = cam
    BY <1>5 DEF LeaveLoop, Working, TypeOK
  <2>2. st.status = "recording" /\ st'.status = "stopping"
    BY <1>5 DEF LeaveLoop, TypeOK, State, IInv, Ownership
  <2>3. /\ Stage = "active" /\ Stage' = "stopping"
        /\ (Held' <=> Held) /\ (Filming' <=> Filming)
    BY <1>1, <2>1, <2>2, AtWork, AtWorkAfter
  <2>4. QED
    BY <2>3 DEF Bus!Leave, Held, Filming
<1>6. CASE CloseBackend(r)
  <2>1. pc[r] \in Working /\ pc'[r] \in Working /\ st' = st /\ cam' = cam
    BY <1>6 DEF CloseBackend, Working, TypeOK
  <2>2. gate'[r] # "held"
    BY <1>6 DEF CloseBackend, TypeOK, IInv, Hardware, Driving
  <2>3. Stage' = Stage /\ (Filming' <=> Filming) /\ ~Held'
    BY <1>1, <2>1, <2>2, AtWork, AtWorkAfter
  <2>4. QED
    BY <2>3 DEF Bus!Release, Held, Filming
<1>7. CASE FinishVideo(r)
  <2>1. pc[r] \in Working /\ pc'[r] \in Working /\ st' = st /\ gate' = gate
    BY <1>7 DEF FinishVideo, Working, TypeOK
  <2>2. cam'[r] # "on" /\ gate[r] # "held"
    BY <1>7, <2>1 DEF FinishVideo, TypeOK, IInv, Hardware, Driving, CamerasNamed
  <2>3. Stage' = Stage /\ ~Filming' /\ ~Held /\ ~Held'
    BY <1>1, <2>1, <2>2, AtWork, AtWorkAfter
  <2>4. QED
    BY <2>3 DEF Bus!Cut, Held, Filming
<1>8. CASE Publish(r)
  <2>1. pc[r] = "publish" /\ pc[r] \in Working /\ cam[r] # "on" /\ gate[r] # "held"
    BY <1>8 DEF Publish, Working, TypeOK, IInv, Hardware, Driving, CamerasNamed
  <2>2. Stage # "free" /\ ~Filming /\ ~Held
    BY <1>1, <2>1, AtWork
  <2>3. \A x \in Rec : pc'[x] \notin Working
    BY <1>8 DEF Publish, TypeOK, Working, IInv, Ownership, Owning
  <2>4. ~Filming' /\ ~Held'
    BY <2>3, NoneAtWorkAfter
  <2>5. st'.status \in {"error", "awaiting_label"}
    BY <1>8 DEF Publish, TypeOK, State
  <2>6. Stage' = "free"
    BY <2>5 DEF Stage
  <2>7. QED
    BY <2>2, <2>4, <2>6 DEF Bus!End, Held, Filming
<1>9. CASE Announce(r) \/ Sample(r) \/ ExportTrace(r) \/ Raise(r)
  <2>1. gate' = gate /\ cam' = cam /\ st'.status = st.status
    BY <1>9 DEF Announce, Sample, ExportTrace, Raise, TypeOK, State
  <2>2. \A x \in Rec : pc'[x] \in Working <=> pc[x] \in Working
    BY <1>9 DEF Announce, Sample, ExportTrace, Raise, TypeOK, Working
  <2>3. QED
    BY <1>1, <2>1, <2>2, NothingSeen
<1>10. CASE Persist(r) \/ ArchiveFailed(r) \/ Signal(r) \/ DiskFault(r) \/ ArchiveFault(r)
  <2>1. gate' = gate /\ cam' = cam /\ st' = st
    BY <1>10 DEF Persist, ArchiveFailed, Signal, DiskFault, ArchiveFault
  <2>2. \A x \in Rec : pc'[x] \in Working <=> pc[x] \in Working
    BY <1>10 DEF Persist, ArchiveFailed, Signal, DiskFault, ArchiveFault, TypeOK, Working
  <2>3. QED
    BY <1>1, <2>1, <2>2, NothingSeen
<1>11. CASE ResetToIdle(r)
  <2>1. gate' = gate /\ cam' = cam /\ st.status = "error" /\ st'.status = "idle"
    BY <1>11 DEF ResetToIdle, IdleState, IInv, Ownership, TypeOK
  <2>2. \A x \in Rec : pc'[x] \in Working <=> pc[x] \in Working
    BY <1>11 DEF ResetToIdle, TypeOK, Working
  <2>3. UNCHANGED <<Stage, Held, Filming>>
    BY <2>1, <2>2 DEF Stage, Held, Filming
  <2>4. QED
    BY <2>3
<1>12. QED
  BY <1>2, <1>3, <1>4, <1>5, <1>6, <1>7, <1>8, <1>9, <1>10, <1>11
  DEF RecordLoop, RecordStep

\* A handler's step that disposes of nothing: only start is seen, as Begin.
LEMMA HandlerRefines ==
  ASSUME TypeOK, IInv, CamerasNamed, NEW c \in Client, Routine(c)
  PROVE  Bus!BusNext \/ UNCHANGED <<Stage, Held, Filming>>
<1>1. CASE \E r \in Rec : Start(c, r)
  <2>1. PICK r \in Rec : Start(c, r)
    BY <1>1
  <2>2. Stage = "free" /\ Stage' = "active"
    BY <2>1 DEF Start, Stage, StartingState, IdleState, Active, Running
  <2>3. gate' = gate /\ cam' = cam /\ pc[r] = "none" /\ pc' = [pc EXCEPT ![r] = "videos"]
    BY <2>1 DEF Start, Goto
  <2>4. \A x \in Rec : pc[x] \notin Working
    BY <2>1 DEF Start, IInv, Ownership, Owning, Working, Active
  <2>5. ~Held /\ ~Filming /\ ~Held'
    BY <2>3, <2>4, NoneAtWork DEF Held
  <2>6. ~Filming'
    BY <2>3, <2>4 DEF Filming, TypeOK, CamerasNamed
  <2>7. QED
    BY <2>2, <2>5, <2>6 DEF Bus!BusNext, Bus!Begin, Held, Filming
<1>2. CASE RetryReset(c)
  <2>1. gate' = gate /\ cam' = cam /\ pc' = pc
    BY <1>2 DEF RetryReset
  <2>2. st.status = "error" /\ st'.status = "idle"
    BY <1>2 DEF RetryReset, IdleState, IInv, Retrying
  <2>3. Stage = "free" /\ Stage' = "free" /\ (Held' <=> Held) /\ (Filming' <=> Filming)
    BY <2>1, <2>2 DEF Stage, Held, Filming, Active
  <2>4. QED
    BY <2>3 DEF Held, Filming
<1>3. CASE GatewayAnswer(c)
  <2>1. st' = st /\ srv' = srv /\ cam' = cam /\ pc' = pc
    BY <1>3 DEF GatewayAnswer
  <2>2. \A x \in Rec : gate'[x] = "held" <=> gate[x] = "held"
    BY <1>3 DEF GatewayAnswer, Connected, TypeOK
  <2>3. Stage' = Stage /\ (Held' <=> Held) /\ (Filming' <=> Filming)
    BY <2>1, <2>2 DEF Stage, Held, Filming, Running
  <2>4. QED
    BY <2>3 DEF Held, Filming
<1>4. CASE StartRequest(c) \/ SyncRequest(c) \/ RetryArchive(c) \/ RetryFault(c)
             \/ RetryArchiveFault(c) \/ VerifyRequest(c) \/ Synchronize(c)
             \/ Rejected(c) \/ StartTimeout(c) \/ StartAnswer(c) \/ Stop(c)
             \/ StopAnswer(c)
  <2>1. st' = st /\ srv' = srv /\ cam' = cam /\ pc' = pc /\ gate' = gate
    BY <1>4 DEF StartRequest, SyncRequest, Request, RetryArchive, RetryFault, RetryArchiveFault, Rejected,
       StartTimeout, StartAnswer, Stop, StopAnswer, VerifyRequest, Synchronize
  <2>2. QED
    BY <2>1 DEF Stage, Held, Filming, Running
<1>5. QED
  BY <1>1, <1>2, <1>3, <1>4 DEF Routine

\* A disposal takes place in no stage, and leaves the stage free.
LEMMA DisposeRefines ==
  ASSUME TypeOK, TypeOK', IInv, IInv', NEW c \in Client, Quiet, Dispose(c)
  PROVE  UNCHANGED <<Stage, Held, Filming>>
<1>1. \A x \in Rec : pc[x] \notin Working
  BY DEF Quiet, Alive
<1>2. \A x \in Rec : pc'[x] \notin Working
  BY <1>1 DEF Dispose, Finalize, FinalizeFault, CrashInFinalize, ProcessEnds, Discard,
     DiscardFault, RetryRequest, TypeOK, Working
<1>3. st.status \in {"awaiting_label", "error"}
  BY DEF Dispose, Finalize, FinalizeFault, CrashInFinalize, Discard, DiscardFault,
     RetryRequest
<1>4. st'.status \in {"awaiting_label", "error", "saved", "discarded"}
  BY <1>3 DEF Dispose, Finalize, FinalizeFault, CrashInFinalize, Discard, DiscardFault,
     RetryRequest, DiscardedState, IdleState, TypeOK, State
<1>5. Stage = "free" /\ Stage' = "free"
  BY <1>3, <1>4 DEF Stage, Active
<1>6. ~Held /\ ~Held' /\ ~Filming /\ ~Filming'
  BY <1>1, <1>2, NoneAtWork, NoneAtWorkAfter
<1>7. QED
  BY <1>5, <1>6 DEF Held, Filming

\* The end of the process is Die; a new process finds nothing in use.
LEMMA ProcessRefines ==
  ASSUME TypeOK, TypeOK', IInv, IInv', Process
  PROVE  Bus!BusNext \/ UNCHANGED <<Stage, Held, Filming>>
<1>1. CASE ~Running'
  <2>1. \A x \in Rec : pc'[x] \notin Working
    BY <1>1 DEF IInv, Dead, Alive
  <2>2. Stage' = "free" /\ ~Held' /\ ~Filming'
    BY <1>1, <2>1, NoneAtWorkAfter DEF Stage
  <2>3. QED
    BY <2>2 DEF Bus!BusNext, Bus!Die, Held, Filming
<1>2. CASE Running' /\ Running
  <2>1. st' = st /\ cam' = cam /\ pc' = pc /\ gate' = gate
    BY <1>2 DEF Process, Shutdown, ShutdownStop, ShutdownJoined, Crash, Restart, Running
  <2>2. QED
    BY <1>2, <2>1 DEF Stage, Held, Filming
<1>3. CASE Running' /\ ~Running
  <2>1. Restart
    BY <1>3 DEF Process, Shutdown, ShutdownStop, ShutdownJoined, Crash, Running
  <2>2. \A x \in Rec : pc[x] \notin Working /\ pc'[x] \notin Working
    BY <1>3, <2>1 DEF Restart, IInv, Dead, Alive
  <2>3. st'.status \in {"idle", "awaiting_label"}
    BY <2>1 DEF Restart, IdleState, DraftsMarked, TypeOK, State, NoFile
  <2>4. Stage = "free" /\ Stage' = "free"
    BY <1>3, <2>3 DEF Stage, Active
  <2>5. ~Held /\ ~Held' /\ ~Filming /\ ~Filming'
    BY <2>2, NoneAtWork, NoneAtWorkAfter
  <2>6. QED
    BY <2>4, <2>5 DEF Held, Filming
<1>4. QED
  BY <1>1, <1>2, <1>3

\* With the calm operator the recorder is a RecorderBus: whoever reads its
\* status knows when it uses the arm and the cameras, and in which order.
THEOREM BusKept == CalmSpec => KeepsBus
<1>1. Init => Bus!BusInit
  BY DEF Init, Bus!BusInit, Stage, Held, Filming, IdleState, Active, Working
<1>2. /\ TypeOK /\ IInv /\ CamerasNamed
      /\ TypeOK' /\ IInv' /\ CamerasNamed'
      /\ [CalmNext]_vars
      => [Bus!BusNext]_Bus!busVars
  <2> SUFFICES ASSUME TypeOK, IInv, CamerasNamed, TypeOK', IInv', CamerasNamed',
                      [CalmNext]_vars
               PROVE  Bus!BusNext \/ UNCHANGED <<Stage, Held, Filming>>
    BY DEF Bus!busVars
  <2>1. CASE \E r \in Rec : RecordLoop(r)
    BY <2>1, ThreadRefines
  <2>2. CASE \E c \in Client : Routine(c)
    BY <2>2, HandlerRefines
  <2>3. CASE \E c \in Client : Quiet /\ Dispose(c)
    BY <2>3, DisposeRefines
  <2>4. CASE Process
    BY <2>4, ProcessRefines
  <2>5. CASE UNCHANGED vars
    BY <2>5 DEF vars, Stage, Held, Filming, Running
  <2>6. QED
    BY <2>1, <2>2, <2>3, <2>4, <2>5 DEF CalmNext
<1>3. QED
  BY <1>1, <1>2, CalmInvariant, CamerasHold, PTL DEF CalmSpec, KeepsBus, Bus!BusSpec
=============================================================================
