------------------------ MODULE TeleopRecorderProofs ------------------------
(***************************************************************************)
(* Safety of the recorder, for any set of recordings and of handlers.      *)
(***************************************************************************)
EXTENDS TeleopRecorder, TLAPS

USE NoRecAssumption, MaxSamplesAssumption
USE DEF memVars, thrVars, devVars, diskVars, callVars

\* The calm operator's steps are steps of the recorder.
LEMMA CalmIsNext == CalmNext => Next
BY DEF CalmNext, Next

\* The states the manager assigns whole are states.
LEMMA IdleTypes ==
  /\ IdleState \in State /\ DiscardedState \in State
  /\ \A r \in Rec : StartingState(r) \in State
<1>1. 0 \in 0..MaxSamples
  OBVIOUS
<1>2. IdleState \in State
  BY <1>1 DEF IdleState, State, Status, OptRec
<1>3. DiscardedState \in State
  BY <1>1 DEF DiscardedState, IdleState, State, Status, OptRec
<1>4. ASSUME NEW r \in Rec PROVE StartingState(r) \in State
  BY <1>1 DEF StartingState, IdleState, State, Status, OptRec
<1>5. QED
  BY <1>2, <1>3, <1>4

\* A missing draft_state.json is told apart from every state.
LEMMA NoFileIsNoState ==
  /\ NoFile \notin State
  /\ NoFile.status = "none"
BY DEF NoFile, IdleState, State, Status

\* What recovery makes of a draft's state is a state.
LEMMA RecoveredType ==
  ASSUME NEW s \in State
  PROVE  [s EXCEPT !.torque = FALSE] \in State
BY DEF State

\* Every step of the recorder keeps the types of its variables.
LEMMA TypeStep == TypeOK /\ [Next]_vars => TypeOK'
<1> SUFFICES ASSUME TypeOK, [Next]_vars PROVE TypeOK'
  OBVIOUS
<1> USE DEF TypeOK
<1>1. ASSUME NEW r \in Rec, StartVideo(r) PROVE TypeOK'
  BY <1>1 DEF StartVideo, Goto, OptRec, Working
<1>2. ASSUME NEW r \in Rec, OpenBackend(r) PROVE TypeOK'
  BY <1>2 DEF OpenBackend, Goto, OptRec, Working, Connected
<1>3. ASSUME NEW r \in Rec, Admit(r) PROVE TypeOK'
  BY <1>3 DEF Admit, Goto, Working, State, Status
<1>4. ASSUME NEW r \in Rec, Announce(r) PROVE TypeOK'
  BY <1>4 DEF Announce, Goto, Working, Woken, ClientPc
<1>5. ASSUME NEW r \in Rec, Sample(r) PROVE TypeOK'
  <2>1. st.samples + 1 \in 0..MaxSamples /\ rows[r] + 1 \in 0..MaxSamples
    <3>1. st.samples \in 0..MaxSamples /\ rows[r] \in 0..MaxSamples
      BY DEF State
    <3>2. st.samples < MaxSamples /\ rows[r] < MaxSamples
      BY <1>5 DEF Sample
    <3>3. QED
      BY <3>1, <3>2
  <2>2. st' \in State
    BY <1>5, <2>1 DEF Sample, State
  <2>3. rows' \in [Rec -> 0..MaxSamples] /\ stopEv' \in BOOLEAN
    BY <1>5, <2>1 DEF Sample
  <2>4. QED
    BY <1>5, <2>2, <2>3 DEF Sample
<1>6. ASSUME NEW r \in Rec, LeaveLoop(r) PROVE TypeOK'
  BY <1>6 DEF LeaveLoop, Goto, Working, State, Status
<1>7. ASSUME NEW r \in Rec, ExportTrace(r) PROVE TypeOK'
  BY <1>7 DEF ExportTrace, Goto, Working
<1>8. ASSUME NEW r \in Rec, Raise(r) PROVE TypeOK'
  BY <1>8 DEF Raise, Goto, Working, OptRec
<1>9. ASSUME NEW r \in Rec, CloseBackend(r) PROVE TypeOK'
  BY <1>9 DEF CloseBackend, Goto, Working, OptRec
<1>10. ASSUME NEW r \in Rec, FinishVideo(r) PROVE TypeOK'
  <2>1. drafts' \subseteq Rec
    BY <1>10 DEF FinishVideo
  <2>2. QED
    BY <1>10, <2>1 DEF FinishVideo, Goto, Working, OptRec
<1>11. ASSUME NEW r \in Rec, Publish(r) PROVE TypeOK'
  BY <1>11 DEF Publish, Goto, Settling, State, Status
<1>12. ASSUME NEW r \in Rec, Persist(r) PROVE TypeOK'
  BY <1>12 DEF Persist, Goto, Settling
<1>13. ASSUME NEW r \in Rec, ArchiveFailed(r) PROVE TypeOK'
  BY <1>13 DEF ArchiveFailed, Goto, Settling, ArchiveDraft
<1>14. ASSUME NEW r \in Rec, ResetToIdle(r) PROVE TypeOK'
  BY IdleTypes, <1>14 DEF ResetToIdle, Goto, Settling
<1>15. ASSUME NEW r \in Rec, Signal(r) PROVE TypeOK'
  BY <1>15 DEF Signal, Goto, Woken, ClientPc
<1>16. ASSUME NEW r \in Rec, DiskFault(r) PROVE TypeOK'
  BY <1>16 DEF DiskFault, Goto
<1>17. ASSUME NEW c \in Client, StartRequest(c) PROVE TypeOK'
  BY <1>17 DEF StartRequest, Request, Begun, ClientPc, Ops, OptRec
<1>18. ASSUME NEW c \in Client, SyncRequest(c) PROVE TypeOK'
  BY <1>18 DEF SyncRequest, Request, Begun, ClientPc, Ops, OptRec
<1>19. ASSUME NEW c \in Client, RetryRequest(c) PROVE TypeOK'
  BY <1>19 DEF RetryRequest, Begun, DraftOf, State, ClientPc, Ops, OptRec
<1>20. ASSUME NEW c \in Client, RetryArchive(c) PROVE TypeOK'
  BY <1>20 DEF RetryArchive, ArchiveDraft, Step, ClientPc
<1>21. ASSUME NEW c \in Client, RetryReset(c) PROVE TypeOK'
  <2>1. client' \in [Client -> [pc: ClientPc, op: Ops, rid: OptRec]]
    <3>1. \/ Begun(c, "begin", "start", NoRec)
          \/ Begun(c, "syncCheck", "sync", NoRec)
          \/ Answered(c)
      BY <1>21 DEF RetryReset
    <3>2. QED
      BY <3>1 DEF Begun, Answered, IdleClient, ClientPc, Ops, OptRec
  <2>2. QED
    BY IdleTypes, <1>21, <2>1 DEF RetryReset
<1>22. ASSUME NEW c \in Client, Rejected(c) PROVE TypeOK'
  BY <1>22 DEF Rejected, Answered, IdleClient, ClientPc, Ops, OptRec
<1>23. ASSUME NEW c \in Client, StartTimeout(c) PROVE TypeOK'
  BY <1>23 DEF StartTimeout, Answered, IdleClient, ClientPc, Ops, OptRec
<1>24. ASSUME NEW c \in Client, StartAnswer(c) PROVE TypeOK'
  BY <1>24 DEF StartAnswer, Answered, IdleClient, ClientPc, Ops, OptRec
<1>25. ASSUME NEW c \in Client, Stop(c) PROVE TypeOK'
  BY <1>25 DEF Stop, Begun, ClientPc, Ops, OptRec
<1>26. ASSUME NEW c \in Client, StopAnswer(c) PROVE TypeOK'
  BY <1>26 DEF StopAnswer, Answered, IdleClient, ClientPc, Ops, OptRec
<1>27. ASSUME NEW c \in Client, VerifyRequest(c) PROVE TypeOK'
  BY <1>27 DEF VerifyRequest, Begun, ClientPc, Ops, OptRec
<1>28. ASSUME NEW c \in Client, Synchronize(c) PROVE TypeOK'
  BY <1>28 DEF Synchronize, Answered, Step, IdleClient, ClientPc, Ops, OptRec
<1>29. ASSUME NEW c \in Client, GatewayAnswer(c) PROVE TypeOK'
  BY <1>29 DEF GatewayAnswer, Answered, Connected, IdleClient, ClientPc, Ops, OptRec
<1>30. ASSUME NEW c \in Client, Finalize(c) PROVE TypeOK'
  BY <1>30 DEF Finalize, Complete, MoveToRecordings, State, Status
<1>31. ASSUME NEW c \in Client, FinalizeFault(c) PROVE TypeOK'
  BY <1>31 DEF FinalizeFault, Complete, MoveToRecordings
<1>32. ASSUME NEW c \in Client, CrashInFinalize(c) PROVE TypeOK'
  BY <1>32 DEF CrashInFinalize, Complete, MoveToRecordings, ProcessEnds,
      IdleClient, ClientPc, Ops, OptRec
<1>33. ASSUME NEW c \in Client, Discard(c) PROVE TypeOK'
  BY IdleTypes, <1>33 DEF Discard, OptRec
<1>34. ASSUME NEW c \in Client, NEW r \in Rec, Start(c, r) PROVE TypeOK'
  BY IdleTypes, <1>34 DEF Start, Goto, Working, Begun, ClientPc, Ops, OptRec
<1>35. ASSUME Shutdown PROVE TypeOK'
  BY <1>35 DEF Shutdown, ProcessEnds, IdleClient, ClientPc, Ops, OptRec
<1>36. ASSUME ShutdownStop PROVE TypeOK'
  BY <1>36 DEF ShutdownStop, ProcessEnds, IdleClient, ClientPc, Ops, OptRec
<1>37. ASSUME ShutdownJoined PROVE TypeOK'
  BY <1>37 DEF ShutdownJoined, ProcessEnds, IdleClient, ClientPc, Ops, OptRec
<1>38. ASSUME Crash PROVE TypeOK'
  BY <1>38 DEF Crash, ProcessEnds, IdleClient, ClientPc, Ops, OptRec
<1>39. ASSUME Restart PROVE TypeOK'
  <2>1. st' \in State
    <3>1. CASE DraftsMarked("awaiting_label") = {}
      BY <1>39, <3>1, IdleTypes DEF Restart
    <3>2. CASE DraftsMarked("awaiting_label") # {}
      <4>1. PICK d \in DraftsMarked("awaiting_label") :
              st' = [dstate[d] EXCEPT !.torque = FALSE]
        BY <1>39, <3>2 DEF Restart
      <4>2. dstate[d] \in State
        BY NoFileIsNoState DEF DraftsMarked
      <4>3. QED
        BY <4>1, <4>2, RecoveredType
    <3>3. QED
      BY <3>1, <3>2
  <2>2. /\ drafts' \subseteq Rec /\ failures' \subseteq Rec
        /\ rows' \in [Rec -> 0..MaxSamples]
        /\ dstate' \in [Rec -> State \cup {NoFile}]
    BY <1>39 DEF Restart
  <2>3. QED
    BY <1>39, <2>1, <2>2 DEF Restart, OptRec
<1>40. ASSUME NEW c \in Client, RetryFault(c) PROVE TypeOK'
  BY <1>40 DEF RetryFault, Answered, IdleClient, ClientPc, Ops, OptRec
<1>41. ASSUME NEW c \in Client, DiscardFault(c) PROVE TypeOK'
  BY <1>41 DEF DiscardFault
<1>42. ASSUME NEW r \in Rec, ArchiveFault(r) PROVE TypeOK'
  BY <1>42 DEF ArchiveFault, Goto, ArchiveDraft
<1>43. ASSUME NEW c \in Client, RetryArchiveFault(c) PROVE TypeOK'
  BY <1>43 DEF RetryArchiveFault, ArchiveDraft, Answered, IdleClient, ClientPc, Ops, OptRec
<1>44. CASE UNCHANGED vars
  BY <1>44 DEF vars
<1> HIDE DEF TypeOK
<1> QED
  BY <1>1, <1>2, <1>3, <1>4, <1>5, <1>6, <1>7, <1>8, <1>9, <1>10,
     <1>11, <1>12, <1>13, <1>14, <1>15, <1>16, <1>17, <1>18, <1>19,
     <1>20, <1>21, <1>22, <1>23, <1>24, <1>25, <1>26, <1>27, <1>28,
     <1>29, <1>30, <1>31, <1>32, <1>33, <1>34, <1>35, <1>36, <1>37,
     <1>38, <1>39, <1>40, <1>41, <1>42, <1>43, <1>44
  DEF Next, RecordLoop, RecordStep, Routine, Dispose, Process

\* The constructor's state has the types.
LEMMA InitTypes == Init => TypeOK
<1> SUFFICES ASSUME Init PROVE TypeOK
  OBVIOUS
<1>1. client \in [Client -> [pc: ClientPc, op: Ops, rid: OptRec]]
  BY DEF Init, OptRec, ClientPc, Ops, IdleClient
<1>2. /\ rows \in [Rec -> 0..MaxSamples] /\ recorded \in [Rec -> 0..MaxSamples]
      /\ receipt \in [Rec -> 0..MaxSamples]
  BY DEF Init
<1>3. QED
  BY <1>1, <1>2, IdleTypes DEF Init, TypeOK, OptRec

\* Type correctness of the recorder under every interleaving of handlers.
THEOREM RecorderTypes == Spec => []TypeOK
BY InitTypes, TypeStep, PTL DEF Spec

-----------------------------------------------------------------------------
(* What no handler can spoil, however the server's threads interleave.       *)

\* An attempt's cameras run once: the manager has no session of it before its
\* thread's first step, and has let go of one that is complete.
CamerasOnce ==
  \A r \in Rec : /\ pc[r] \in {"none", "videos"} => cam[r] = "off" /\ video # r
                 /\ cam[r] = "done" => video # r

\* A receipt counts the rows that were saved, of an attempt all of whose cameras
\* completed; also when two attempts, or a disposal and a recorder, get into
\* each other's way, where SavedIsComplete asks for the calm operator.
ReceiptsAreTrue ==
  \A r \in Rec : receipt[r] # 0 => recorded[r] = receipt[r] /\ cam[r] = "done"

\* A draft goes nowhere but to the archive, to the recordings with all its rows,
\* or away because the attempt on offer was discarded; and what was archived,
\* saved or certified is never touched again.
NothingIsLost ==
  [][\A r \in Rec :
       /\ r \in drafts \ drafts' =>
            \/ r \in failures' \ failures
            \/ recorded[r] = 0 /\ recorded'[r] = rows[r] /\ rows[r] # 0
            \/ st.status = "awaiting_label" /\ st.rid = r /\ st' = DiscardedState
       /\ r \in failures => r \in failures'
       /\ recorded[r] # 0 => recorded'[r] = recorded[r]
       /\ receipt[r] # 0 => receipt'[r] = receipt[r]]_vars

Truth == CamerasOnce /\ ReceiptsAreTrue

\* What the disposal of the attempt on offer leaves: all its rows, saved once.
LEMMA MovedWhole ==
  ASSUME TypeOK, NEW r \in Rec, Complete(r), MoveToRecordings(r)
  PROVE  /\ recorded[r] = 0 /\ cam[r] = "done"
         /\ rows[r] = st.samples /\ st.samples # 0
         /\ recorded' = [recorded EXCEPT ![r] = st.samples]
BY DEF TypeOK, State, Complete, MoveToRecordings

\* Every step keeps cameras and receipts true.
LEMMA TruthStep == TypeOK /\ Truth /\ [Next]_vars => Truth'
<1> SUFFICES ASSUME TypeOK, Truth, [Next]_vars PROVE Truth'
  OBVIOUS
<1> USE DEF TypeOK, Truth
<1>1. ASSUME NEW r \in Rec, RecordLoop(r) PROVE Truth'
  <2>1. UNCHANGED <<recorded, receipt>>
    BY <1>1 DEF RecordLoop, RecordStep, StartVideo, OpenBackend, Admit, Announce, Sample,
       LeaveLoop, ExportTrace, CloseBackend, FinishVideo, Publish, Persist, ArchiveFailed,
       ResetToIdle, Signal, Raise, DiskFault, ArchiveFault
  <2>2. CASE StartVideo(r)
    BY <2>1, <2>2 DEF StartVideo, At, Goto, CamerasOnce, ReceiptsAreTrue
  <2>3. CASE Raise(r)
    BY <2>1, <2>3 DEF Raise, At, Goto, CamerasOnce, ReceiptsAreTrue
  <2>4. CASE FinishVideo(r)
    <3>1. pc' = [pc EXCEPT ![r] = "publish"] /\ pc[r] = "finish"
      BY <2>4 DEF FinishVideo, At, Goto
    <3>2. /\ video' = NoRec
          /\ \A x \in Rec : /\ cam'[x] \in {cam[x], "done", "failed"}
                            /\ cam[x] = "off" /\ cam'[x] # "off" => x = video /\ cam'[x] = "failed"
                            /\ cam[x] = "done" => cam'[x] = "done"
      BY <2>4 DEF FinishVideo, CamerasOnce
    <3>3. QED
      BY <2>1, <3>1, <3>2 DEF CamerasOnce, ReceiptsAreTrue
  <2>5. QED
    BY <1>1, <2>1, <2>2, <2>3, <2>4
       DEF RecordLoop, RecordStep, OpenBackend, Admit, Announce, Sample, LeaveLoop,
           ExportTrace, CloseBackend, Publish, Persist, ArchiveFailed, ResetToIdle, Signal,
           DiskFault, ArchiveFault, At, Goto, CamerasOnce, ReceiptsAreTrue
<1>2. ASSUME NEW c \in Client, Routine(c) PROVE Truth'
  <2>1. /\ UNCHANGED <<recorded, receipt, cam, video>>
        /\ pc' = pc \/ \E r \in Rec : pc[r] = "none" /\ pc' = [pc EXCEPT ![r] = "videos"]
    BY <1>2 DEF Routine, StartRequest, SyncRequest, Request, RetryArchive, RetryFault, RetryArchiveFault,
       RetryReset, Rejected, Start, StartTimeout, StartAnswer, Stop, StopAnswer,
       VerifyRequest, Synchronize, GatewayAnswer, Goto
  <2>2. QED
    BY <2>1 DEF CamerasOnce, ReceiptsAreTrue
<1>3. ASSUME NEW c \in Client, Dispose(c) PROVE Truth'
  <2>1. /\ UNCHANGED <<cam, video>>
        /\ \A r \in Rec : pc'[r] \in {pc[r], "ended"}
    BY <1>3 DEF Dispose, Finalize, FinalizeFault, CrashInFinalize, ProcessEnds, Discard,
       DiscardFault, RetryRequest
  <2>2. CamerasOnce'
    BY <2>1 DEF CamerasOnce
  <2>3. CASE UNCHANGED <<recorded, receipt>>
    BY <2>1, <2>2, <2>3 DEF ReceiptsAreTrue
  <2>4. CASE Finalize(c) \/ FinalizeFault(c) \/ CrashInFinalize(c)
    <3>1. st.rid \in Rec /\ Complete(st.rid) /\ MoveToRecordings(st.rid)
      BY <2>4 DEF Finalize, FinalizeFault, CrashInFinalize, Complete
    <3>2. receipt' \in {receipt, [receipt EXCEPT ![st.rid] = st.samples]}
      BY <2>4 DEF Finalize, FinalizeFault, CrashInFinalize
    <3>3. QED
      BY <2>1, <2>2, <3>1, <3>2, MovedWhole DEF ReceiptsAreTrue
  <2>5. QED
    BY <1>3, <2>3, <2>4 DEF Dispose, Discard, DiscardFault, RetryRequest
<1>4. ASSUME Process PROVE Truth'
  <2>1. /\ UNCHANGED <<recorded, receipt, cam>>
        /\ video' \in {video, NoRec}
        /\ \A r \in Rec : pc'[r] \in {pc[r], "ended"}
    BY <1>4 DEF Process, Shutdown, ShutdownStop, ShutdownJoined, Crash, ProcessEnds, Restart
  <2>2. QED
    BY <2>1 DEF CamerasOnce, ReceiptsAreTrue
<1>5. ASSUME UNCHANGED vars PROVE Truth'
  BY <1>5 DEF vars, CamerasOnce, ReceiptsAreTrue
<1>6. QED
  BY <1>1, <1>2, <1>3, <1>4, <1>5 DEF Next

\* Cameras and receipts are true throughout, with the types.
LEMMA TruthInvariant == Spec => [](TypeOK /\ Truth)
<1>1. Init => TypeOK /\ Truth
  BY InitTypes DEF Init, Truth, CamerasOnce, ReceiptsAreTrue
<1>2. TypeOK /\ Truth /\ [Next]_vars => (TypeOK /\ Truth)'
  BY TypeStep, TruthStep
<1>3. QED
  BY <1>1, <1>2, PTL DEF Spec

\* Whatever the handlers do, and when, a receipt is true.
THEOREM ReceiptsTrue == Spec => []ReceiptsAreTrue
<1>1. Truth => ReceiptsAreTrue
  BY DEF Truth
<1>2. QED
  BY <1>1, TruthInvariant, PTL

\* Archiving a draft moves it and nothing else.
LEMMA ArchivedWhole ==
  ASSUME NEW x, ArchiveDraft(x), NEW r \in Rec
  PROVE  /\ r \in drafts \ drafts' => r \in failures' \ failures
         /\ r \in failures => r \in failures'
BY DEF ArchiveDraft

\* Whatever the handlers do, and when, no draft is lost unasked, and nothing that
\* was archived, saved or certified is written again.
THEOREM NothingLost == Spec => NothingIsLost
<1> DEFINE Fates(r) ==
      /\ r \in drafts \ drafts' =>
           \/ r \in failures' \ failures
           \/ recorded[r] = 0 /\ recorded'[r] = rows[r] /\ rows[r] # 0
           \/ st.status = "awaiting_label" /\ st.rid = r /\ st' = DiscardedState
      /\ r \in failures => r \in failures'
      /\ recorded[r] # 0 => recorded'[r] = recorded[r]
      /\ receipt[r] # 0 => receipt'[r] = receipt[r]
<1>1. ASSUME TypeOK, Truth, [Next]_vars, NEW x \in Rec PROVE Fates(x)
  <2> USE <1>1 DEF TypeOK
  <2>1. ASSUME NEW r \in Rec, RecordLoop(r) PROVE Fates(x)
    <3>1. UNCHANGED <<recorded, receipt>>
      BY <2>1 DEF RecordLoop, RecordStep, StartVideo, OpenBackend, Admit, Announce, Sample,
         LeaveLoop, ExportTrace, CloseBackend, FinishVideo, Publish, Persist,
         ArchiveFailed, ResetToIdle, Signal, Raise, DiskFault, ArchiveFault
    <3>2. CASE ArchiveFailed(r) \/ ArchiveFault(r)
      BY <3>1, <3>2, ArchivedWhole DEF ArchiveFailed, ArchiveFault
    <3>3. CASE ~ArchiveFailed(r) /\ ~ArchiveFault(r)
      <4>1. drafts \subseteq drafts' /\ failures' = failures
        BY <2>1, <3>3 DEF RecordLoop, RecordStep, StartVideo, OpenBackend, Admit, Announce,
           Sample, LeaveLoop, ExportTrace, CloseBackend, FinishVideo, Publish, Persist,
           ResetToIdle, Signal, Raise, DiskFault
      <4>2. QED
        BY <3>1, <4>1
    <3>4. QED
      BY <3>2, <3>3
  <2>2. ASSUME NEW c \in Client, Routine(c) PROVE Fates(x)
    <3>1. UNCHANGED <<recorded, receipt>>
      BY <2>2 DEF Routine, StartRequest, SyncRequest, Request, RetryArchive, RetryFault, RetryArchiveFault,
         RetryReset, Rejected, Start, StartTimeout, StartAnswer, Stop, StopAnswer,
         VerifyRequest, Synchronize, GatewayAnswer
    <3>2. CASE RetryArchive(c) \/ RetryArchiveFault(c)
      BY <3>1, <3>2, ArchivedWhole DEF RetryArchive, RetryArchiveFault
    <3>3. CASE ~RetryArchive(c) /\ ~RetryArchiveFault(c)
      <4>1. drafts \subseteq drafts' /\ failures' = failures
        BY <2>2, <3>3 DEF Routine, StartRequest, SyncRequest, Request, RetryFault,
           RetryReset, Rejected, Start, StartTimeout, StartAnswer, Stop, StopAnswer,
           VerifyRequest, Synchronize, GatewayAnswer
      <4>2. QED
        BY <3>1, <4>1
    <3>4. QED
      BY <3>2, <3>3
  <2>3. ASSUME NEW c \in Client, Dispose(c) PROVE Fates(x)
    <3>1. CASE Finalize(c) \/ FinalizeFault(c) \/ CrashInFinalize(c)
      <4>1. st.rid \in Rec /\ Complete(st.rid) /\ MoveToRecordings(st.rid)
        BY <3>1 DEF Finalize, FinalizeFault, CrashInFinalize, Complete
      <4>2. /\ receipt' \in {receipt, [receipt EXCEPT ![st.rid] = st.samples]}
            /\ failures' = failures
        BY <3>1 DEF Finalize, FinalizeFault, CrashInFinalize
      <4>3. drafts' = drafts \ {st.rid}
        BY <4>1 DEF MoveToRecordings
      <4>4. receipt[st.rid] = 0
        BY <4>1, MovedWhole DEF Truth, ReceiptsAreTrue
      <4>5. QED
        BY <4>1, <4>2, <4>3, <4>4, MovedWhole
    <3>2. CASE Discard(c)
      BY <3>2 DEF Discard
    <3>3. CASE DiscardFault(c) \/ RetryRequest(c)
      BY <3>3 DEF DiscardFault, RetryRequest
    <3>4. QED
      BY <2>3, <3>1, <3>2, <3>3 DEF Dispose
  <2>4. ASSUME Process PROVE Fates(x)
    BY <2>4 DEF Process, Shutdown, ShutdownStop, ShutdownJoined, Crash, ProcessEnds, Restart
  <2>5. ASSUME UNCHANGED vars PROVE Fates(x)
    BY <2>5 DEF vars
  <2>6. QED
    BY <2>1, <2>2, <2>3, <2>4, <2>5 DEF Next
<1>2. TypeOK /\ Truth /\ [Next]_vars => [\A r \in Rec : Fates(r)]_vars
  BY <1>1
<1>3. QED
  BY <1>2, TruthInvariant, PTL DEF Spec, NothingIsLost
=============================================================================
