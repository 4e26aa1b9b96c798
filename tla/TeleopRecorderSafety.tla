------------------------ MODULE TeleopRecorderSafety ------------------------
(***************************************************************************)
(* IInv is inductive for the calm operator, and what follows from it, for  *)
(* any set of recordings and of handlers.                                  *)
(***************************************************************************)
EXTENDS TeleopRecorderProofs

USE NoRecAssumption
USE DEF memVars, thrVars, devVars, diskVars, callVars

\* A step of a recorder thread keeps the invariant.
LEMMA ThreadStep ==
  ASSUME TypeOK, IInv, NEW r \in Rec, RecordLoop(r)
  PROVE  IInv'
<1> USE DEF TypeOK, IInv, At, Goto, Idle, Running, Alive, Owning, Working, Settling,
    Active, Driving
<1>1. CASE StartVideo(r)
  <2>1. Ownership'
    BY <1>1 DEF StartVideo, Ownership
  <2>2. Retrying'
    BY <1>1 DEF StartVideo, Retrying
  <2>3. Hardware'
    BY <1>1 DEF StartVideo, Hardware
  <2>4. Unborn'
    BY <1>1 DEF StartVideo, Unborn
  <2>5. Disk'
    BY <1>1 DEF StartVideo, Disk
  <2>6. Dead'
    BY <1>1 DEF StartVideo, Dead
  <2>7. SavedIsComplete'
    BY <1>1 DEF StartVideo, SavedIsComplete, Disk
  <2>8. AwaitedIsOffered' /\ FailedEvidenceKept'
    BY <1>1 DEF StartVideo, AwaitedIsOffered, DraftsMarked, FailedEvidenceKept
  <2>9. QED
    BY <2>1, <2>2, <2>3, <2>4, <2>5, <2>6, <2>7, <2>8
<1>2. CASE OpenBackend(r)
  <2>1. Ownership'
    BY <1>2 DEF OpenBackend, Connected, Ownership
  <2>2. Retrying'
    BY <1>2 DEF OpenBackend, Connected, Retrying
  <2>3. Hardware'
    BY <1>2 DEF OpenBackend, Connected, Hardware, Ownership
  <2>4. Unborn'
    BY <1>2 DEF OpenBackend, Connected, Unborn
  <2>5. Disk'
    BY <1>2 DEF OpenBackend, Connected, Disk
  <2>6. Dead'
    BY <1>2 DEF OpenBackend, Connected, Dead
  <2>7. SavedIsComplete'
    BY <1>2 DEF OpenBackend, Connected, SavedIsComplete, Disk
  <2>8. AwaitedIsOffered' /\ FailedEvidenceKept'
    BY <1>2 DEF OpenBackend, AwaitedIsOffered, DraftsMarked, FailedEvidenceKept
  <2>9. QED
    BY <2>1, <2>2, <2>3, <2>4, <2>5, <2>6, <2>7, <2>8
<1>3. CASE Admit(r)
  <2>1. Ownership'
    BY <1>3 DEF Admit, Ownership
  <2>2. Retrying'
    BY <1>3 DEF Admit, Retrying
  <2>3. Hardware'
    BY <1>3 DEF Admit, Hardware
  <2>4. Unborn'
    BY <1>3 DEF Admit, Unborn
  <2>5. Disk'
    BY <1>3 DEF Admit, Disk
  <2>6. Dead'
    BY <1>3 DEF Admit, Dead
  <2>7. AwaitedIsOffered'
    BY <1>3 DEF Admit, AwaitedIsOffered, DraftsMarked, Ownership, Disk
  <2>8. SavedIsComplete'
    BY <1>3 DEF Admit, SavedIsComplete, Disk
  <2>9. FailedEvidenceKept'
    BY <1>3 DEF Admit, FailedEvidenceKept
  <2>10. QED
    BY <2>1, <2>2, <2>3, <2>4, <2>5, <2>6, <2>7, <2>8, <2>9
<1>4. CASE Announce(r)
  <2>1. Ownership'
    BY <1>4 DEF Announce, Woken, Ownership
  <2>2. Retrying'
    BY <1>4 DEF Announce, Woken, Retrying
  <2>3. Hardware'
    BY <1>4 DEF Announce, Woken, Hardware
  <2>4. Unborn'
    BY <1>4 DEF Announce, Woken, Unborn
  <2>5. Disk'
    BY <1>4 DEF Announce, Woken, Disk
  <2>6. Dead'
    BY <1>4 DEF Announce, Woken, Dead
  <2>7. AwaitedIsOffered' /\ SavedIsComplete' /\ FailedEvidenceKept'
    BY <1>4 DEF Announce, AwaitedIsOffered, DraftsMarked, SavedIsComplete,
        FailedEvidenceKept
  <2>8. QED
    BY <2>1, <2>2, <2>3, <2>4, <2>5, <2>6, <2>7
<1>5. CASE Sample(r)
  <2>1. Ownership'
    BY <1>5 DEF Sample, Ownership
  <2>2. Retrying'
    BY <1>5 DEF Sample, Retrying
  <2>3. Disk'
    BY <1>5 DEF Sample, Disk
  <2>4. AwaitedIsOffered'
    BY <1>5 DEF Sample, AwaitedIsOffered, DraftsMarked
  <2>5. UNCHANGED <<srv, backend, pc, video, cam, gate, client, drafts, failures,
                     recorded, receipt, errs, dstate>>
    BY <1>5 DEF Sample
  <2>6. Hardware' /\ Unborn' /\ Dead' /\ SavedIsComplete' /\ FailedEvidenceKept'
    BY <2>5 DEF Hardware, Unborn, Dead, SavedIsComplete, FailedEvidenceKept
  <2>7. QED
    BY <2>1, <2>2, <2>3, <2>4, <2>5, <2>6
<1>6. CASE LeaveLoop(r)
  <2>1. Ownership'
    BY <1>6 DEF LeaveLoop, Ownership
  <2>2. Retrying'
    BY <1>6 DEF LeaveLoop, Retrying
  <2>3. Hardware'
    BY <1>6 DEF LeaveLoop, Hardware
  <2>4. Unborn'
    BY <1>6 DEF LeaveLoop, Unborn
  <2>5. Disk'
    BY <1>6 DEF LeaveLoop, Disk
  <2>6. Dead'
    BY <1>6 DEF LeaveLoop, Dead
  <2>7. AwaitedIsOffered'
    BY <1>6 DEF LeaveLoop, AwaitedIsOffered, DraftsMarked, Ownership
  <2>8. SavedIsComplete' /\ FailedEvidenceKept'
    BY <1>6 DEF LeaveLoop, SavedIsComplete, FailedEvidenceKept
  <2>9. QED
    BY <2>1, <2>2, <2>3, <2>4, <2>5, <2>6, <2>7, <2>8
<1>7. CASE ExportTrace(r)
  <2>1. Ownership'
    BY <1>7 DEF ExportTrace, Ownership
  <2>2. Retrying'
    BY <1>7 DEF ExportTrace, Retrying
  <2>3. Hardware'
    BY <1>7 DEF ExportTrace, Hardware
  <2>4. Unborn'
    BY <1>7 DEF ExportTrace, Unborn
  <2>5. Disk'
    BY <1>7 DEF ExportTrace, Disk
  <2>6. Dead'
    BY <1>7 DEF ExportTrace, Dead
  <2>7. AwaitedIsOffered' /\ SavedIsComplete' /\ FailedEvidenceKept'
    BY <1>7 DEF ExportTrace, AwaitedIsOffered, DraftsMarked, SavedIsComplete,
        FailedEvidenceKept
  <2>8. QED
    BY <2>1, <2>2, <2>3, <2>4, <2>5, <2>6, <2>7
<1>8. CASE CloseBackend(r)
  <2>1. Ownership'
    BY <1>8 DEF CloseBackend, Ownership
  <2>2. Retrying'
    BY <1>8 DEF CloseBackend, Retrying
  <2>3. Hardware'
    BY <1>8 DEF CloseBackend, Hardware
  <2>4. Unborn'
    BY <1>8 DEF CloseBackend, Unborn
  <2>5. Disk'
    BY <1>8 DEF CloseBackend, Disk
  <2>6. Dead'
    BY <1>8 DEF CloseBackend, Dead
  <2>7. SavedIsComplete'
    BY <1>8 DEF CloseBackend, SavedIsComplete
  <2>8. FailedEvidenceKept'
    BY <1>8 DEF CloseBackend, FailedEvidenceKept, Disk
  <2>9. AwaitedIsOffered'
    BY <1>8 DEF CloseBackend, AwaitedIsOffered, DraftsMarked
  <2>10. QED
    BY <2>1, <2>2, <2>3, <2>4, <2>5, <2>6, <2>7, <2>8, <2>9
<1>9. CASE FinishVideo(r)
  <2>1. Ownership'
    BY <1>9 DEF FinishVideo, Ownership
  <2>2. Retrying'
    BY <1>9 DEF FinishVideo, Retrying
  <2>3. Hardware'
    BY <1>9 DEF FinishVideo, Hardware, Ownership
  <2>4. Unborn'
    BY <1>9 DEF FinishVideo, Unborn, Disk
  <2>5. Disk'
    BY <1>9 DEF FinishVideo, Disk
  <2>6. Dead'
    BY <1>9 DEF FinishVideo, Dead
  <2>7. AwaitedIsOffered'
    BY <1>9 DEF FinishVideo, AwaitedIsOffered, DraftsMarked, Disk
  <2>8. SavedIsComplete'
    BY <1>9 DEF FinishVideo, SavedIsComplete, Disk, Hardware
  <2>9. FailedEvidenceKept'
    BY <1>9 DEF FinishVideo, FailedEvidenceKept, Disk
  <2>10. QED
    BY <2>1, <2>2, <2>3, <2>4, <2>5, <2>6, <2>7, <2>8, <2>9
<1>10. CASE Publish(r)
  <2>1. Ownership'
    BY <1>10 DEF Publish, Ownership
  <2>2. Retrying'
    BY <1>10 DEF Publish, Retrying
  <2>3. Hardware'
    BY <1>10 DEF Publish, Hardware
  <2>4. Unborn'
    BY <1>10 DEF Publish, Unborn
  <2>5. Disk'
    BY <1>10 DEF Publish, Disk, Ownership
  <2>6. Dead'
    BY <1>10 DEF Publish, Dead
  <2>7. AwaitedIsOffered'
    BY <1>10 DEF Publish, AwaitedIsOffered, DraftsMarked, Ownership
  <2>8. SavedIsComplete' /\ FailedEvidenceKept'
    BY <1>10 DEF Publish, SavedIsComplete, FailedEvidenceKept
  <2>9. QED
    BY <2>1, <2>2, <2>3, <2>4, <2>5, <2>6, <2>7, <2>8
<1>11. CASE Persist(r)
  <2>1. Ownership'
    BY <1>11 DEF Persist, Ownership
  <2>2. Retrying'
    BY <1>11 DEF Persist, Retrying
  <2>3. Hardware'
    BY <1>11 DEF Persist, Hardware
  <2>4. Unborn'
    BY <1>11 DEF Persist, Unborn
  <2>5. Disk'
    BY <1>11 DEF Persist, Disk, Ownership
  <2>6. Dead'
    BY <1>11 DEF Persist, Dead
  <2>7. AwaitedIsOffered'
    BY <1>11 DEF Persist, AwaitedIsOffered, DraftsMarked, Ownership
  <2>8. SavedIsComplete'
    BY <1>11 DEF Persist, SavedIsComplete, Disk
  <2>9. FailedEvidenceKept'
    BY <1>11 DEF Persist, FailedEvidenceKept
  <2>10. QED
    BY <2>1, <2>2, <2>3, <2>4, <2>5, <2>6, <2>7, <2>8, <2>9
<1>12. CASE ArchiveFailed(r)
  <2>1. Ownership'
    BY <1>12 DEF ArchiveFailed, ArchiveDraft, DraftOf, Ownership
  <2>2. Retrying'
    BY <1>12 DEF ArchiveFailed, ArchiveDraft, DraftOf, Retrying
  <2>3. Hardware'
    BY <1>12 DEF ArchiveFailed, ArchiveDraft, DraftOf, Hardware
  <2>4. Unborn'
    BY <1>12 DEF ArchiveFailed, ArchiveDraft, DraftOf, Unborn
  <2>5. Disk'
    BY <1>12, NoFileIsNoState DEF ArchiveFailed, ArchiveDraft, DraftOf, Disk, Ownership
  <2>6. Dead'
    BY <1>12 DEF ArchiveFailed, ArchiveDraft, DraftOf, Dead
  <2>7. AwaitedIsOffered'
    BY <1>12 DEF ArchiveFailed, ArchiveDraft, DraftOf, AwaitedIsOffered, DraftsMarked
  <2>8. SavedIsComplete'
    BY <1>12 DEF ArchiveFailed, ArchiveDraft, DraftOf, SavedIsComplete
  <2>9. FailedEvidenceKept'
    BY <1>12 DEF ArchiveFailed, ArchiveDraft, DraftOf, FailedEvidenceKept
  <2>10. QED
    BY <2>1, <2>2, <2>3, <2>4, <2>5, <2>6, <2>7, <2>8, <2>9
<1>13. CASE ResetToIdle(r)
  <2>1. Ownership'
    BY <1>13 DEF ResetToIdle, Ownership
  <2>2. Retrying'
    BY <1>13 DEF ResetToIdle, Retrying
  <2>3. Hardware'
    BY <1>13 DEF ResetToIdle, Hardware
  <2>4. Unborn'
    BY <1>13 DEF ResetToIdle, Unborn
  <2>5. Disk'
    BY <1>13 DEF ResetToIdle, Disk, IdleState
  <2>6. Dead'
    BY <1>13 DEF ResetToIdle, Dead
  <2>7. AwaitedIsOffered'
    BY <1>13 DEF ResetToIdle, AwaitedIsOffered, DraftsMarked, Ownership
  <2>8. SavedIsComplete' /\ FailedEvidenceKept'
    BY <1>13 DEF ResetToIdle, SavedIsComplete, FailedEvidenceKept
  <2>9. QED
    BY <2>1, <2>2, <2>3, <2>4, <2>5, <2>6, <2>7, <2>8
<1>14. CASE Signal(r)
  <2>1. Ownership'
    BY <1>14 DEF Signal, Woken, Ownership
  <2>2. Retrying'
    BY <1>14 DEF Signal, Woken, Retrying
  <2>3. Hardware'
    BY <1>14 DEF Signal, Woken, Hardware
  <2>4. Unborn'
    BY <1>14 DEF Signal, Woken, Unborn
  <2>5. Disk'
    BY <1>14 DEF Signal, Woken, Disk
  <2>6. Dead'
    BY <1>14 DEF Signal, Woken, Dead
  <2>7. AwaitedIsOffered' /\ SavedIsComplete' /\ FailedEvidenceKept'
    BY <1>14 DEF Signal, AwaitedIsOffered, DraftsMarked, SavedIsComplete,
        FailedEvidenceKept
  <2>8. QED
    BY <2>1, <2>2, <2>3, <2>4, <2>5, <2>6, <2>7
<1>15. CASE Raise(r)
  <2>1. Ownership'
    BY <1>15 DEF Raise, Ownership
  <2>2. Retrying'
    BY <1>15 DEF Raise, Retrying
  <2>3. Hardware'
    BY <1>15 DEF Raise, Hardware, Ownership
  <2>4. Unborn'
    BY <1>15 DEF Raise, Unborn
  <2>5. Disk'
    BY <1>15 DEF Raise, Disk
  <2>6. Dead'
    BY <1>15 DEF Raise, Dead
  <2>7. FailedEvidenceKept'
    BY <1>15 DEF Raise, FailedEvidenceKept, Disk
  <2>8. AwaitedIsOffered' /\ SavedIsComplete'
    BY <1>15 DEF Raise, AwaitedIsOffered, DraftsMarked, SavedIsComplete
  <2>9. QED
    BY <2>1, <2>2, <2>3, <2>4, <2>5, <2>6, <2>7, <2>8
<1>16. CASE DiskFault(r)
  <2>1. Ownership'
    BY <1>16 DEF DiskFault, Ownership
  <2>2. Retrying'
    BY <1>16 DEF DiskFault, Retrying
  <2>3. Hardware'
    BY <1>16 DEF DiskFault, Hardware
  <2>4. Unborn'
    BY <1>16 DEF DiskFault, Unborn
  <2>5. Disk'
    BY <1>16 DEF DiskFault, Disk
  <2>6. Dead'
    BY <1>16 DEF DiskFault, Dead
  <2>7. AwaitedIsOffered' /\ SavedIsComplete' /\ FailedEvidenceKept'
    <3>1. drafts' = drafts
      <4>1. drafts' = drafts \/ (pc[r] = "persist" /\ drafts' = drafts \cup {r})
        BY <1>16 DEF DiskFault
      <4>2. pc[r] = "persist" => drafts \cup {r} = drafts
        BY DEF Disk
      <4>3. QED
        BY <4>1, <4>2
    <3>2. QED
      BY <1>16, <3>1 DEF DiskFault, AwaitedIsOffered, DraftsMarked, SavedIsComplete,
         FailedEvidenceKept
  <2>8. QED
    BY <2>1, <2>2, <2>3, <2>4, <2>5, <2>6, <2>7
<1>17. CASE ArchiveFault(r)
  <2>1. Ownership'
    BY <1>17 DEF ArchiveFault, ArchiveDraft, DraftOf, Ownership
  <2>2. Retrying'
    BY <1>17 DEF ArchiveFault, ArchiveDraft, DraftOf, Retrying
  <2>3. Hardware'
    BY <1>17 DEF ArchiveFault, ArchiveDraft, DraftOf, Hardware
  <2>4. Unborn'
    BY <1>17 DEF ArchiveFault, ArchiveDraft, DraftOf, Unborn
  <2>5. Disk'
    BY <1>17, NoFileIsNoState DEF ArchiveFault, ArchiveDraft, DraftOf, Disk, Ownership
  <2>6. Dead'
    BY <1>17 DEF ArchiveFault, ArchiveDraft, DraftOf, Dead
  <2>7. AwaitedIsOffered'
    BY <1>17 DEF ArchiveFault, ArchiveDraft, DraftOf, AwaitedIsOffered, DraftsMarked
  <2>8. SavedIsComplete'
    BY <1>17 DEF ArchiveFault, ArchiveDraft, DraftOf, SavedIsComplete
  <2>9. FailedEvidenceKept'
    BY <1>17 DEF ArchiveFault, ArchiveDraft, DraftOf, FailedEvidenceKept
  <2>10. QED
    BY <2>1, <2>2, <2>3, <2>4, <2>5, <2>6, <2>7, <2>8, <2>9
<1>18. QED
  BY <1>1, <1>2, <1>3, <1>4, <1>5, <1>6, <1>7, <1>8, <1>9, <1>10, <1>11, <1>12, <1>13,
      <1>14, <1>15, <1>16, <1>17
  DEF RecordLoop, RecordStep

\* A step of a handler that disposes of nothing keeps the invariant.
LEMMA HandlerStep ==
  ASSUME TypeOK, IInv, NEW c \in Client, Routine(c)
  PROVE  IInv'
<1> USE DEF TypeOK, IInv, At, Goto, Idle, Running, Alive, Owning, Working, Settling,
    Active, Driving
<1>1. CASE StartRequest(c)
  <2>1. Retrying'
    BY <1>1 DEF StartRequest, Request, Begun, Retrying
  <2>2. Dead'
    BY <1>1 DEF StartRequest, Request, Begun, Dead
  <2>3. Ownership' /\ Hardware' /\ Unborn' /\ Disk' /\ AwaitedIsOffered'
      /\ SavedIsComplete' /\ FailedEvidenceKept'
    BY <1>1 DEF StartRequest, Request, Ownership, Hardware, Unborn, Disk,
        AwaitedIsOffered, DraftsMarked, SavedIsComplete, FailedEvidenceKept
  <2>4. QED
    BY <2>1, <2>2, <2>3
<1>2. CASE SyncRequest(c)
  <2>1. Retrying'
    BY <1>2 DEF SyncRequest, Request, Begun, Retrying
  <2>2. Dead'
    BY <1>2 DEF SyncRequest, Request, Begun, Dead
  <2>3. Ownership' /\ Hardware' /\ Unborn' /\ Disk' /\ AwaitedIsOffered'
      /\ SavedIsComplete' /\ FailedEvidenceKept'
    BY <1>2 DEF SyncRequest, Request, Ownership, Hardware, Unborn, Disk,
        AwaitedIsOffered, DraftsMarked, SavedIsComplete, FailedEvidenceKept
  <2>4. QED
    BY <2>1, <2>2, <2>3
<1>3. CASE RetryArchive(c)
  <2>1. Retrying'
    BY <1>3 DEF RetryArchive, ArchiveDraft, Step, Retrying
  <2>2. Unborn'
    BY <1>3 DEF RetryArchive, ArchiveDraft, Step, Unborn
  <2>3. Disk'
    BY <1>3, NoFileIsNoState DEF RetryArchive, ArchiveDraft, Step, Disk, Retrying
  <2>4. Dead'
    BY <1>3 DEF RetryArchive, ArchiveDraft, Step, Dead
  <2>5. AwaitedIsOffered'
    BY <1>3 DEF RetryArchive, ArchiveDraft, Step, AwaitedIsOffered, DraftsMarked
  <2>6. SavedIsComplete'
    BY <1>3 DEF RetryArchive, ArchiveDraft, Step, SavedIsComplete
  <2>7. FailedEvidenceKept'
    BY <1>3 DEF RetryArchive, ArchiveDraft, Step, FailedEvidenceKept
  <2>8. Ownership' /\ Hardware'
    BY <1>3 DEF RetryArchive, Ownership, Hardware
  <2>9. QED
    BY <2>1, <2>2, <2>3, <2>4, <2>5, <2>6, <2>7, <2>8
<1>4. CASE RetryReset(c)
  <2>1. Ownership'
    BY <1>4 DEF RetryReset, Begun, Answered, IdleClient, Ownership, Retrying
  <2>2. Retrying'
    BY <1>4 DEF RetryReset, Begun, Answered, IdleClient, Retrying
  <2>3. Disk'
    BY <1>4 DEF RetryReset, Begun, Answered, IdleClient, Disk, IdleState
  <2>4. Dead'
    BY <1>4 DEF RetryReset, Begun, Answered, IdleClient, Dead
  <2>5. AwaitedIsOffered'
    BY <1>4 DEF RetryReset, Begun, Answered, IdleClient, AwaitedIsOffered, DraftsMarked,
        Retrying
  <2>6. Hardware' /\ Unborn' /\ SavedIsComplete' /\ FailedEvidenceKept'
    BY <1>4 DEF RetryReset, Hardware, Unborn, SavedIsComplete, FailedEvidenceKept
  <2>7. QED
    BY <2>1, <2>2, <2>3, <2>4, <2>5, <2>6
<1>5. CASE Rejected(c)
  <2>1. Retrying'
    BY <1>5 DEF Rejected, Answered, IdleClient, Retrying
  <2>2. Dead'
    BY <1>5 DEF Rejected, Answered, IdleClient, Dead
  <2>3. Ownership' /\ Hardware' /\ Unborn' /\ Disk' /\ AwaitedIsOffered'
      /\ SavedIsComplete' /\ FailedEvidenceKept'
    BY <1>5 DEF Rejected, Ownership, Hardware, Unborn, Disk, AwaitedIsOffered,
        DraftsMarked, SavedIsComplete, FailedEvidenceKept
  <2>4. QED
    BY <2>1, <2>2, <2>3
<1>6. CASE StartTimeout(c)
  <2>1. Retrying'
    BY <1>6 DEF StartTimeout, Answered, IdleClient, Retrying
  <2>2. Dead'
    BY <1>6 DEF StartTimeout, Answered, IdleClient, Dead
  <2>3. Ownership' /\ Hardware' /\ Unborn' /\ Disk' /\ AwaitedIsOffered'
      /\ SavedIsComplete' /\ FailedEvidenceKept'
    BY <1>6 DEF StartTimeout, Ownership, Hardware, Unborn, Disk, AwaitedIsOffered,
        DraftsMarked, SavedIsComplete, FailedEvidenceKept
  <2>4. QED
    BY <2>1, <2>2, <2>3
<1>7. CASE StartAnswer(c)
  <2>1. Retrying'
    BY <1>7 DEF StartAnswer, Answered, IdleClient, Retrying
  <2>2. Dead'
    BY <1>7 DEF StartAnswer, Answered, IdleClient, Dead
  <2>3. Ownership' /\ Hardware' /\ Unborn' /\ Disk' /\ AwaitedIsOffered'
      /\ SavedIsComplete' /\ FailedEvidenceKept'
    BY <1>7 DEF StartAnswer, Ownership, Hardware, Unborn, Disk, AwaitedIsOffered,
        DraftsMarked, SavedIsComplete, FailedEvidenceKept
  <2>4. QED
    BY <2>1, <2>2, <2>3
<1>8. CASE Stop(c)
  <2>1. Retrying'
    BY <1>8 DEF Stop, Begun, Retrying
  <2>2. Dead'
    BY <1>8 DEF Stop, Begun, Dead
  <2>3. Ownership' /\ Hardware' /\ Unborn' /\ Disk' /\ AwaitedIsOffered'
      /\ SavedIsComplete' /\ FailedEvidenceKept'
    BY <1>8 DEF Stop, Ownership, Hardware, Unborn, Disk, AwaitedIsOffered, DraftsMarked,
        SavedIsComplete, FailedEvidenceKept
  <2>4. QED
    BY <2>1, <2>2, <2>3
<1>9. CASE StopAnswer(c)
  <2>1. Retrying'
    BY <1>9 DEF StopAnswer, Answered, IdleClient, Retrying
  <2>2. Dead'
    BY <1>9 DEF StopAnswer, Answered, IdleClient, Dead
  <2>3. Ownership' /\ Hardware' /\ Unborn' /\ Disk' /\ AwaitedIsOffered'
      /\ SavedIsComplete' /\ FailedEvidenceKept'
    BY <1>9 DEF StopAnswer, Ownership, Hardware, Unborn, Disk, AwaitedIsOffered,
        DraftsMarked, SavedIsComplete, FailedEvidenceKept
  <2>4. QED
    BY <2>1, <2>2, <2>3
<1>10. CASE VerifyRequest(c)
  <2>1. Retrying'
    BY <1>10 DEF VerifyRequest, Begun, Retrying
  <2>2. Dead'
    BY <1>10 DEF VerifyRequest, Begun, Dead
  <2>3. Ownership' /\ Hardware' /\ Unborn' /\ Disk' /\ AwaitedIsOffered'
      /\ SavedIsComplete' /\ FailedEvidenceKept'
    BY <1>10 DEF VerifyRequest, Ownership, Hardware, Unborn, Disk, AwaitedIsOffered,
        DraftsMarked, SavedIsComplete, FailedEvidenceKept
  <2>4. QED
    BY <2>1, <2>2, <2>3
<1>11. CASE Synchronize(c)
  <2>1. Retrying'
    <3>1. /\ UNCHANGED <<st, pc>>
          /\ \A d \in Client : client'[d].pc \in {"archive", "reset"} =>
               client[d].pc \in {"archive", "reset"}
      BY <1>11 DEF Synchronize, Answered, IdleClient, Step
    <3>2. QED
      BY <3>1 DEF Retrying
  <2>2. Dead'
    BY <1>11 DEF Synchronize, Answered, IdleClient, Step, Dead
  <2>3. Ownership' /\ Hardware' /\ Unborn' /\ Disk' /\ AwaitedIsOffered'
      /\ SavedIsComplete' /\ FailedEvidenceKept'
    BY <1>11 DEF Synchronize, Ownership, Hardware, Unborn, Disk, AwaitedIsOffered,
        DraftsMarked, SavedIsComplete, FailedEvidenceKept
  <2>4. QED
    BY <2>1, <2>2, <2>3
<1>12. CASE GatewayAnswer(c)
  <2>1. Retrying'
    BY <1>12 DEF GatewayAnswer, Answered, IdleClient, Retrying
  <2>2. Hardware'
    BY <1>12 DEF GatewayAnswer, Connected, Hardware
  <2>3. Dead'
    BY <1>12 DEF GatewayAnswer, Answered, IdleClient, Dead
  <2>4. SavedIsComplete'
    BY <1>12 DEF GatewayAnswer, Connected, SavedIsComplete
  <2>5. Ownership' /\ Unborn' /\ Disk' /\ AwaitedIsOffered' /\ FailedEvidenceKept'
    BY <1>12 DEF GatewayAnswer, Ownership, Unborn, Disk, AwaitedIsOffered, DraftsMarked,
        FailedEvidenceKept
  <2>6. QED
    BY <2>1, <2>2, <2>3, <2>4, <2>5
<1>13. ASSUME NEW r \in Rec, Start(c, r) PROVE IInv'
  <2>1. Ownership'
    BY <1>13 DEF Start, Begun, Ownership, StartingState
  <2>2. Retrying'
    BY <1>13 DEF Start, Begun, Retrying
  <2>3. Hardware'
    BY <1>13 DEF Start, Begun, Hardware
  <2>4. Unborn'
    BY <1>13 DEF Start, Begun, Unborn
  <2>5. Disk'
    BY <1>13, NoFileIsNoState DEF Start, Begun, Disk, Unborn, StartingState
  <2>6. Dead'
    BY <1>13 DEF Start, Begun, Dead
  <2>7. AwaitedIsOffered'
    BY <1>13, NoFileIsNoState DEF Start, Begun, AwaitedIsOffered, DraftsMarked, Unborn
  <2>8. SavedIsComplete'
    BY <1>13 DEF Start, Begun, SavedIsComplete, Unborn
  <2>9. FailedEvidenceKept'
    BY <1>13 DEF Start, Begun, FailedEvidenceKept
  <2>10. QED
    BY <2>1, <2>2, <2>3, <2>4, <2>5, <2>6, <2>7, <2>8, <2>9
<1>14. CASE RetryFault(c)
  <2>1. Retrying'
    BY <1>14 DEF RetryFault, Answered, IdleClient, Retrying
  <2>2. Dead'
    BY <1>14 DEF RetryFault, Answered, IdleClient, Dead
  <2>3. Ownership' /\ Hardware' /\ Unborn' /\ Disk' /\ AwaitedIsOffered'
      /\ SavedIsComplete' /\ FailedEvidenceKept'
    BY <1>14 DEF RetryFault, Ownership, Hardware, Unborn, Disk, AwaitedIsOffered,
        DraftsMarked, SavedIsComplete, FailedEvidenceKept
  <2>4. QED
    BY <2>1, <2>2, <2>3
<1>15. CASE RetryArchiveFault(c)
  <2>1. Retrying'
    BY <1>15 DEF RetryArchiveFault, ArchiveDraft, Answered, IdleClient, Retrying
  <2>2. Unborn'
    BY <1>15 DEF RetryArchiveFault, ArchiveDraft, Answered, IdleClient, Unborn
  <2>3. Disk'
    BY <1>15, NoFileIsNoState DEF RetryArchiveFault, ArchiveDraft, Answered, IdleClient, Disk, Retrying
  <2>4. Dead'
    BY <1>15 DEF RetryArchiveFault, ArchiveDraft, Answered, IdleClient, Dead
  <2>5. AwaitedIsOffered'
    BY <1>15 DEF RetryArchiveFault, ArchiveDraft, Answered, IdleClient, AwaitedIsOffered, DraftsMarked
  <2>6. SavedIsComplete'
    BY <1>15 DEF RetryArchiveFault, ArchiveDraft, Answered, IdleClient, SavedIsComplete
  <2>7. FailedEvidenceKept'
    BY <1>15 DEF RetryArchiveFault, ArchiveDraft, Answered, IdleClient, FailedEvidenceKept
  <2>8. Ownership' /\ Hardware'
    BY <1>15 DEF RetryArchiveFault, Ownership, Hardware
  <2>9. QED
    BY <2>1, <2>2, <2>3, <2>4, <2>5, <2>6, <2>7, <2>8
<1>16. QED
  BY <1>1, <1>2, <1>3, <1>4, <1>5, <1>6, <1>7, <1>8, <1>9, <1>10, <1>11, <1>12, <1>13,
     <1>14, <1>15
  DEF Routine

\* Saving, discarding or retrying keeps the invariant when nothing else is
\* settling.
LEMMA DisposeStep ==
  ASSUME TypeOK, IInv, NEW c \in Client, Quiet, Dispose(c)
  PROVE  IInv'
<1> USE DEF TypeOK, IInv, At, Goto, Idle, Running, Alive, Owning, Working, Settling,
    Active, Driving
<1>1. CASE Finalize(c)
  <2>1. Ownership'
    BY <1>1 DEF Finalize, Complete, MoveToRecordings, Quiet, Ownership
  <2>2. Retrying'
    BY <1>1 DEF Finalize, Complete, MoveToRecordings, Quiet, Retrying
  <2>3. Unborn'
    BY <1>1 DEF Finalize, Complete, MoveToRecordings, Quiet, Unborn
  <2>4. Disk'
    BY <1>1, NoFileIsNoState DEF Finalize, Complete, MoveToRecordings, Quiet, Disk
  <2>5. AwaitedIsOffered'
    BY <1>1 DEF Finalize, Complete, MoveToRecordings, Quiet, AwaitedIsOffered,
        DraftsMarked
  <2>6. SavedIsComplete'
    BY <1>1 DEF Finalize, Complete, MoveToRecordings, Quiet, SavedIsComplete, Disk,
        Hardware
  <2>7. FailedEvidenceKept'
    BY <1>1 DEF Finalize, Complete, MoveToRecordings, Quiet, FailedEvidenceKept, Disk
  <2>8. Hardware' /\ Dead'
    BY <1>1 DEF Finalize, Hardware, Dead
  <2>9. QED
    BY <2>1, <2>2, <2>3, <2>4, <2>5, <2>6, <2>7, <2>8
<1>2. CASE FinalizeFault(c)
  <2>1. Unborn'
    BY <1>2 DEF FinalizeFault, Complete, MoveToRecordings, Quiet, Unborn
  <2>2. Disk'
    BY <1>2, NoFileIsNoState DEF FinalizeFault, Complete, MoveToRecordings, Quiet, Disk
  <2>3. AwaitedIsOffered'
    BY <1>2 DEF FinalizeFault, Complete, MoveToRecordings, Quiet, AwaitedIsOffered,
        DraftsMarked
  <2>4. SavedIsComplete'
    BY <1>2 DEF FinalizeFault, Complete, MoveToRecordings, Quiet, SavedIsComplete
  <2>5. FailedEvidenceKept'
    BY <1>2 DEF FinalizeFault, Complete, MoveToRecordings, Quiet, FailedEvidenceKept,
        Disk
  <2>6. Ownership' /\ Retrying' /\ Hardware' /\ Dead'
    BY <1>2 DEF FinalizeFault, Ownership, Retrying, Hardware, Dead
  <2>7. QED
    BY <2>1, <2>2, <2>3, <2>4, <2>5, <2>6
<1>3. CASE CrashInFinalize(c)
  <2>1. Ownership'
    BY <1>3 DEF CrashInFinalize, Complete, MoveToRecordings, ProcessEnds, IdleClient,
        Quiet, Ownership
  <2>2. Retrying'
    BY <1>3 DEF CrashInFinalize, Complete, MoveToRecordings, ProcessEnds, IdleClient,
        Quiet, Retrying
  <2>3. Hardware'
    BY <1>3 DEF CrashInFinalize, Complete, MoveToRecordings, ProcessEnds, IdleClient,
        Quiet, Hardware
  <2>4. Unborn'
    BY <1>3 DEF CrashInFinalize, Complete, MoveToRecordings, ProcessEnds, IdleClient,
        Quiet, Unborn
  <2>5. Disk'
    BY <1>3, NoFileIsNoState DEF CrashInFinalize, Complete, MoveToRecordings,
        ProcessEnds, IdleClient, Quiet, Disk
  <2>6. Dead'
    BY <1>3 DEF CrashInFinalize, Complete, MoveToRecordings, ProcessEnds, IdleClient,
        Quiet, Dead
  <2>7. AwaitedIsOffered'
    BY <1>3 DEF CrashInFinalize, Complete, MoveToRecordings, ProcessEnds, IdleClient,
        Quiet, AwaitedIsOffered, DraftsMarked
  <2>8. SavedIsComplete'
    BY <1>3 DEF CrashInFinalize, Complete, MoveToRecordings, ProcessEnds, IdleClient,
        Quiet, SavedIsComplete
  <2>9. FailedEvidenceKept'
    BY <1>3 DEF CrashInFinalize, Complete, MoveToRecordings, ProcessEnds, IdleClient,
        Quiet, FailedEvidenceKept, Disk
  <2>10. QED
    BY <2>1, <2>2, <2>3, <2>4, <2>5, <2>6, <2>7, <2>8, <2>9
<1>4. CASE Discard(c)
  <2>1. Ownership'
    BY <1>4 DEF Discard, Quiet, Ownership
  <2>2. Retrying'
    BY <1>4 DEF Discard, Quiet, Retrying
  <2>3. Unborn'
    BY <1>4 DEF Discard, Quiet, Unborn
  <2>4. Disk'
    BY <1>4, NoFileIsNoState DEF Discard, Quiet, Disk, DiscardedState
  <2>5. AwaitedIsOffered'
    BY <1>4 DEF Discard, Quiet, AwaitedIsOffered, DraftsMarked, Disk
  <2>6. SavedIsComplete'
    BY <1>4 DEF Discard, Quiet, SavedIsComplete
  <2>7. FailedEvidenceKept'
    BY <1>4 DEF Discard, Quiet, FailedEvidenceKept, Disk
  <2>8. Hardware' /\ Dead'
    BY <1>4 DEF Discard, Hardware, Dead
  <2>9. QED
    BY <2>1, <2>2, <2>3, <2>4, <2>5, <2>6, <2>7, <2>8
<1>5. CASE RetryRequest(c)
  <2>1. Retrying'
    BY <1>5 DEF RetryRequest, Begun, DraftOf, Quiet, Retrying
  <2>2. Dead'
    BY <1>5 DEF RetryRequest, Begun, DraftOf, Quiet, Dead
  <2>3. Ownership' /\ Hardware' /\ Unborn' /\ Disk' /\ AwaitedIsOffered'
      /\ SavedIsComplete' /\ FailedEvidenceKept'
    BY <1>5 DEF RetryRequest, Ownership, Hardware, Unborn, Disk, AwaitedIsOffered,
        DraftsMarked, SavedIsComplete, FailedEvidenceKept
  <2>4. QED
    BY <2>1, <2>2, <2>3
<1>6. CASE DiscardFault(c)
  <2>1. Unborn'
    BY <1>6 DEF DiscardFault, Quiet, Unborn, Disk
  <2>2. Disk'
    BY <1>6, NoFileIsNoState DEF DiscardFault, Quiet, Disk
  <2>3. AwaitedIsOffered'
    BY <1>6, NoFileIsNoState DEF DiscardFault, AwaitedIsOffered, DraftsMarked, Disk
  <2>4. Ownership' /\ Retrying' /\ Hardware' /\ Dead' /\ SavedIsComplete'
      /\ FailedEvidenceKept'
    BY <1>6 DEF DiscardFault, Quiet, Ownership, Retrying, Hardware, Dead,
        SavedIsComplete, FailedEvidenceKept
  <2>5. QED
    BY <2>1, <2>2, <2>3, <2>4
<1>7. QED
  BY <1>1, <1>2, <1>3, <1>4, <1>5, <1>6
  DEF Dispose

\* The end of the process keeps the invariant.
LEMMA EndStep ==
  ASSUME TypeOK, IInv, Shutdown \/ ShutdownStop \/ ShutdownJoined \/ Crash
  PROVE  IInv'
<1> USE DEF TypeOK, IInv, At, Goto, Idle, Running, Alive, Owning, Working, Settling,
    Active, Driving
<1>1. CASE Shutdown
  <2>1. Ownership'
    BY <1>1 DEF Shutdown, ProcessEnds, IdleClient, Ownership
  <2>2. Retrying'
    BY <1>1 DEF Shutdown, ProcessEnds, IdleClient, Retrying
  <2>3. Hardware'
    BY <1>1 DEF Shutdown, ProcessEnds, IdleClient, Hardware
  <2>4. Unborn'
    BY <1>1 DEF Shutdown, ProcessEnds, IdleClient, Unborn
  <2>5. Disk'
    BY <1>1 DEF Shutdown, ProcessEnds, IdleClient, Disk
  <2>6. Dead'
    BY <1>1 DEF Shutdown, ProcessEnds, IdleClient, Dead
  <2>7. AwaitedIsOffered'
    BY <1>1 DEF Shutdown, ProcessEnds, IdleClient, AwaitedIsOffered, DraftsMarked
  <2>8. SavedIsComplete'
    BY <1>1 DEF Shutdown, ProcessEnds, IdleClient, SavedIsComplete
  <2>9. FailedEvidenceKept'
    BY <1>1 DEF Shutdown, FailedEvidenceKept
  <2>10. QED
    BY <2>1, <2>2, <2>3, <2>4, <2>5, <2>6, <2>7, <2>8, <2>9
<1>2. CASE ShutdownStop
  <2>1. Ownership'
    BY <1>2 DEF ShutdownStop, ProcessEnds, IdleClient, Ownership
  <2>2. Retrying'
    BY <1>2 DEF ShutdownStop, ProcessEnds, IdleClient, Retrying
  <2>3. Hardware'
    BY <1>2 DEF ShutdownStop, ProcessEnds, IdleClient, Hardware
  <2>4. Unborn'
    BY <1>2 DEF ShutdownStop, ProcessEnds, IdleClient, Unborn
  <2>5. Disk'
    BY <1>2 DEF ShutdownStop, ProcessEnds, IdleClient, Disk
  <2>6. Dead'
    BY <1>2 DEF ShutdownStop, ProcessEnds, IdleClient, Dead
  <2>7. AwaitedIsOffered'
    BY <1>2 DEF ShutdownStop, ProcessEnds, IdleClient, AwaitedIsOffered, DraftsMarked
  <2>8. SavedIsComplete'
    BY <1>2 DEF ShutdownStop, ProcessEnds, IdleClient, SavedIsComplete
  <2>9. FailedEvidenceKept'
    BY <1>2 DEF ShutdownStop, FailedEvidenceKept
  <2>10. QED
    BY <2>1, <2>2, <2>3, <2>4, <2>5, <2>6, <2>7, <2>8, <2>9
<1>3. CASE ShutdownJoined
  <2>1. Ownership'
    BY <1>3 DEF ShutdownJoined, ProcessEnds, IdleClient, Ownership
  <2>2. Retrying'
    BY <1>3 DEF ShutdownJoined, ProcessEnds, IdleClient, Retrying
  <2>3. Hardware'
    BY <1>3 DEF ShutdownJoined, ProcessEnds, IdleClient, Hardware
  <2>4. Unborn'
    BY <1>3 DEF ShutdownJoined, ProcessEnds, IdleClient, Unborn
  <2>5. Disk'
    BY <1>3 DEF ShutdownJoined, ProcessEnds, IdleClient, Disk
  <2>6. Dead'
    BY <1>3 DEF ShutdownJoined, ProcessEnds, IdleClient, Dead
  <2>7. AwaitedIsOffered'
    BY <1>3 DEF ShutdownJoined, ProcessEnds, IdleClient, AwaitedIsOffered, DraftsMarked
  <2>8. SavedIsComplete'
    BY <1>3 DEF ShutdownJoined, ProcessEnds, IdleClient, SavedIsComplete
  <2>9. FailedEvidenceKept'
    BY <1>3 DEF ShutdownJoined, FailedEvidenceKept
  <2>10. QED
    BY <2>1, <2>2, <2>3, <2>4, <2>5, <2>6, <2>7, <2>8, <2>9
<1>4. CASE Crash
  <2>1. Ownership'
    BY <1>4 DEF Crash, ProcessEnds, IdleClient, Ownership
  <2>2. Retrying'
    BY <1>4 DEF Crash, ProcessEnds, IdleClient, Retrying
  <2>3. Hardware'
    BY <1>4 DEF Crash, ProcessEnds, IdleClient, Hardware
  <2>4. Unborn'
    BY <1>4 DEF Crash, ProcessEnds, IdleClient, Unborn
  <2>5. Disk'
    BY <1>4 DEF Crash, ProcessEnds, IdleClient, Disk
  <2>6. Dead'
    BY <1>4 DEF Crash, ProcessEnds, IdleClient, Dead
  <2>7. AwaitedIsOffered'
    BY <1>4 DEF Crash, ProcessEnds, IdleClient, AwaitedIsOffered, DraftsMarked
  <2>8. SavedIsComplete'
    BY <1>4 DEF Crash, ProcessEnds, IdleClient, SavedIsComplete
  <2>9. FailedEvidenceKept'
    BY <1>4 DEF Crash, FailedEvidenceKept
  <2>10. QED
    BY <2>1, <2>2, <2>3, <2>4, <2>5, <2>6, <2>7, <2>8, <2>9
<1>5. QED
  BY <1>1, <1>2, <1>3, <1>4

\* Recovery builds the invariant again from what the disk holds.
LEMMA RestartStep == TypeOK /\ IInv /\ Restart => IInv'
<1> SUFFICES ASSUME TypeOK, IInv, Restart PROVE IInv'
  OBVIOUS
<1> USE DEF IInv
<1>1. /\ UNCHANGED <<pc, errs, snap, gate, cam, recorded, receipt, client>>
      /\ backend' = NoRec /\ video' = NoRec /\ Running'
  BY DEF Restart, Running
<1>2. /\ \A r \in Rec : pc[r] \notin Working \cup Settling
      /\ \A c \in Client : client[c] = IdleClient
  BY DEF Restart, Dead, Alive
<1>3. PICK moved \in SUBSET drafts :
        /\ moved \cap failures = {}
        /\ drafts' = drafts \ moved /\ failures' = failures \cup moved
        /\ dstate' = [r \in Rec |-> IF r \in moved THEN NoFile ELSE dstate[r]]
  BY DEF Restart
<1>4. DraftsMarked("awaiting_label")' \subseteq DraftsMarked("awaiting_label")
  BY <1>3 DEF DraftsMarked, TypeOK
<1>5. \/ st' = IdleState /\ DraftsMarked("awaiting_label") = {}
      \/ \E d \in DraftsMarked("awaiting_label") : 
            d \in drafts /\ st' = [dstate[d] EXCEPT !.torque = FALSE] 
              /\ dstate[d].status = "awaiting_label" /\ dstate[d] \in State
  <2>1. CASE DraftsMarked("awaiting_label") = {}
    BY <2>1 DEF Restart
  <2>2. CASE DraftsMarked("awaiting_label") # {}
    <3>1. PICK d \in DraftsMarked("awaiting_label") :
            st' = [dstate[d] EXCEPT !.torque = FALSE]
      BY <2>2 DEF Restart
    <3>2. d \in drafts /\ dstate[d].status = "awaiting_label"
      BY DEF DraftsMarked
    <3>3. dstate[d] \in State
      BY <3>2, NoFileIsNoState DEF TypeOK
    <3>4. QED
      BY <3>1, <3>2, <3>3
  <2>3. QED
    BY <2>1, <2>2
<1>6. \/ st'.status = "idle" /\ DraftsMarked("awaiting_label") = {}
      \/ \E d \in DraftsMarked("awaiting_label") :
           /\ st'.status = "awaiting_label" /\ st'.rid = d /\ st'.draft
           /\ d \in Rec /\ ~errs[d]
  <2>1. CASE st' = IdleState /\ DraftsMarked("awaiting_label") = {}
    BY <2>1 DEF IdleState
  <2>2. ASSUME NEW d \in DraftsMarked("awaiting_label"), d \in drafts, 
           st' = [dstate[d] EXCEPT !.torque = FALSE],
              dstate[d].status = "awaiting_label", dstate[d] \in State
        PROVE /\ st'.status = "awaiting_label" /\ st'.rid = d /\ st'.draft
              /\ d \in Rec /\ ~errs[d]
    <3>1. d \in Rec /\ dstate[d].rid = d /\ dstate[d].draft /\ ~errs[d]
      BY <2>2 DEF Disk, TypeOK
    <3>2. st'.status = dstate[d].status /\ st'.rid = dstate[d].rid /\ st'.draft = dstate[d].draft
      BY <2>2 DEF State
    <3>3. QED
      BY <3>1, <3>2, <2>2
  <2>3. QED
    BY <2>1, <2>2, <1>5
<1>7. Ownership' /\ Retrying' /\ Dead'
  BY <1>1, <1>2 DEF Ownership, Retrying, Dead, Owning, Settling, Working, IdleClient
<1>8. Hardware'
  <2>1. \A r \in Rec : gate[r] # "held"
    BY <1>2 DEF Hardware, Driving, Working
  <2>2. QED
    BY <1>1, <1>2, <2>1 DEF Hardware, Working
<1>9. Unborn'
  BY <1>1, <1>3 DEF Unborn
<1>10. Disk'
  <2>1. drafts' \cap failures' = {}
    BY <1>3 DEF Disk
  <2>2. \A r \in Rec : pc[r] \notin Working \cup {"persist"}
    BY <1>2 DEF Settling
  <2>3. ASSUME NEW r \in Rec, dstate'[r].status = "awaiting_label"
        PROVE  dstate'[r].rid = r /\ dstate'[r].draft /\ ~errs[r] /\ pc[r] \notin Owning
    <3>1. dstate'[r] = dstate[r]
      BY <1>3, <2>3, NoFileIsNoState
    <3>2. QED
      BY <2>3, <3>1 DEF Disk
  <2>4. st'.status = "awaiting_label" =>
          st'.draft /\ st'.rid \in Rec /\ ~errs[st'.rid] /\ pc[st'.rid] \notin Working
    BY <1>6, <1>2
  <2>5. \A r \in Rec : receipt[r] # 0 => pc[r] \notin Owning
    BY DEF Disk
  <2>6. QED
    BY <1>1, <2>1, <2>2, <2>3, <2>4, <2>5 DEF Disk
<1>11. AwaitedIsOffered'
  BY <1>1, <1>4, <1>6 DEF AwaitedIsOffered
<1>12. SavedIsComplete' /\ FailedEvidenceKept'
  BY <1>1, <1>3 DEF SavedIsComplete, FailedEvidenceKept
<1>13. QED
  BY <1>7, <1>8, <1>9, <1>10, <1>11, <1>12

\* The invariant is kept by every step the calm operator allows.
LEMMA IInvStep == TypeOK /\ IInv /\ [CalmNext]_vars => IInv'
<1> SUFFICES ASSUME TypeOK, IInv, [CalmNext]_vars PROVE IInv'
  OBVIOUS
<1>1. CASE UNCHANGED vars
  BY <1>1 DEF vars, IInv, Ownership, Retrying, Hardware, Unborn, Disk, Dead,
      AwaitedIsOffered, SavedIsComplete, FailedEvidenceKept, Running, Alive,
      DraftsMarked
<1>2. CASE CalmNext
  <2>1. ASSUME NEW r \in Rec, RecordLoop(r) PROVE IInv'
    BY <2>1, ThreadStep
  <2>2. ASSUME NEW c \in Client, Routine(c) PROVE IInv'
    BY <2>2, HandlerStep
  <2>3. ASSUME NEW c \in Client, Quiet, Dispose(c) PROVE IInv'
    BY <2>3, DisposeStep
  <2>4. CASE Process
    BY <2>4, EndStep, RestartStep DEF Process
  <2>5. QED
    BY <1>2, <2>1, <2>2, <2>3, <2>4 DEF CalmNext
<1>3. QED
  BY <1>1, <1>2

\* The constructor establishes the invariant.
LEMMA IInvInit == Init => IInv
<1> SUFFICES ASSUME Init PROVE IInv
  OBVIOUS
<1>1. Ownership /\ Retrying /\ Hardware
  BY DEF Init, Ownership, Retrying, Hardware, Owning, Working, IdleClient
<1>2. Unborn /\ Dead
  BY DEF Init, Unborn, Dead, Running
<1>3. Disk
  BY NoFileIsNoState DEF Init, Disk, IdleState, Working
<1>4. AwaitedIsOffered /\ SavedIsComplete /\ FailedEvidenceKept
  BY DEF Init, AwaitedIsOffered, DraftsMarked, SavedIsComplete, FailedEvidenceKept
<1>5. QED
  BY <1>1, <1>2, <1>3, <1>4 DEF IInv

\* The inductive invariant holds throughout, with the types.
THEOREM CalmInvariant == CalmSpec => [](TypeOK /\ IInv)
<1>1. Init => TypeOK /\ IInv
  BY InitTypes, IInvInit
<1>2. TypeOK /\ IInv /\ [CalmNext]_vars => (TypeOK /\ IInv)'
  <2>1. [CalmNext]_vars => [Next]_vars
    BY CalmIsNext
  <2>2. QED
    BY <2>1, TypeStep, IInvStep
<1>3. QED
  BY <1>1, <1>2, PTL DEF CalmSpec

\* While a gateway may hold torque, the polled state shows its attempt as the
\* unfinished one, so stop and shutdown can reach it.
THEOREM TorqueVisible == CalmSpec => []TorqueIsVisible
<1>1. TypeOK /\ IInv => TorqueIsVisible
  BY DEF IInv, Hardware, Ownership, Driving, Owning, Working, Active, TorqueIsVisible
<1>2. QED
  BY <1>1, CalmInvariant, PTL

\* start's refusal while an attempt is unfinished keeps two record loops from
\* working on the shared gateway, cameras and state together.
THEOREM SingleRecorder == CalmSpec => []OneRecorder
<1>1. IInv => OneRecorder
  BY DEF IInv, Ownership, Owning, OneRecorder
<1>2. QED
  BY <1>1, CalmInvariant, PTL

\* No attempt holds torque that its cameras do not record.
THEOREM TorqueFilmed == CalmSpec => []TorqueUnderCamera
<1>1. IInv => TorqueUnderCamera
  BY DEF IInv, Hardware, TorqueUnderCamera
<1>2. QED
  BY <1>1, CalmInvariant, PTL

\* A stopped draft is the one the manager offers for labelling, also after a
\* crash and recovery.
THEOREM DraftOffered == CalmSpec => []AwaitedIsOffered
<1>1. IInv => AwaitedIsOffered
  BY DEF IInv
<1>2. QED
  BY <1>1, CalmInvariant, PTL

\* A receipt certifies a finished, complete recording, and no draft of it is
\* left.
THEOREM ReceiptsComplete == CalmSpec => []SavedIsComplete
<1>1. IInv => SavedIsComplete
  BY DEF IInv
<1>2. QED
  BY <1>1, CalmInvariant, PTL

\* The evidence of a failed attempt is never discarded or labelled.
THEOREM EvidenceKept == CalmSpec => []FailedEvidenceKept
<1>1. IInv => FailedEvidenceKept
  BY DEF IInv
<1>2. QED
  BY <1>1, CalmInvariant, PTL

-----------------------------------------------------------------------------
(* Why a stop releases the torque: nothing takes it back, and each step of   *)
(* the attempt it found brings the attempt nearer to its end.                *)

\* How many steps an attempt that was told to stop has before it is published.
Left ==
  [videos |-> 9, opening |-> 8, arming |-> 7, announce |-> 6, loop |-> 5, export |-> 4,
   close |-> 3, finish |-> 2, publish |-> 1,
   persist |-> 0, archive |-> 0, reset |-> 0, signal |-> 0,
   none |-> 0, ended |-> 0, died |-> 0]

\* The stop event is one field for all attempts, and each start clears it.  Yet
\* a stop set while an attempt is at work stays until that attempt is through,
\* no step takes the attempt back, and each of its own brings it forward:
\* it records no further row.
StopPrevails ==
  [][\A r \in Rec : stopEv /\ pc[r] \in Working =>
       /\ stopEv'
       /\ Left[pc'[r]] <= Left[pc[r]]
       /\ RecordStep(r) => Left[pc'[r]] < Left[pc[r]]]_vars

\* The thread that was told to stop leaves the stop event set and goes forward.
LEMMA StoppedThread ==
  ASSUME TypeOK, NEW r \in Rec, stopEv, pc[r] \in Working, RecordLoop(r)
  PROVE  /\ stopEv'
         /\ Left[pc'[r]] < Left[pc[r]]
<1> USE DEF At, Goto
<1>1. pc \in [Rec -> {"none", "ended", "died"} \cup Working \cup Settling]
  BY DEF TypeOK
<1>2. CASE StartVideo(r) \/ OpenBackend(r) \/ Admit(r) \/ Announce(r)
  <2>1. \/ pc[r] = "videos" /\ pc'[r] = "opening"
        \/ pc[r] = "opening" /\ pc'[r] = "arming"
        \/ pc[r] = "arming" /\ pc'[r] = "announce"
        \/ pc[r] = "announce" /\ pc'[r] = "loop"
    BY <1>1, <1>2 DEF StartVideo, OpenBackend, Admit, Announce
  <2>2. stopEv' = stopEv
    BY <1>2 DEF StartVideo, OpenBackend, Admit, Announce
  <2>3. QED
    BY <2>1, <2>2 DEF Left
<1>3. CASE LeaveLoop(r) \/ ExportTrace(r) \/ CloseBackend(r) \/ FinishVideo(r) \/ Publish(r)
  <2>1. \/ pc[r] = "loop" /\ pc'[r] = "export"
        \/ pc[r] = "export" /\ pc'[r] = "close"
        \/ pc[r] = "close" /\ pc'[r] = "finish"
        \/ pc[r] = "finish" /\ pc'[r] = "publish"
        \/ pc[r] = "publish" /\ pc'[r] = "persist"
    BY <1>1, <1>3 DEF LeaveLoop, ExportTrace, CloseBackend, FinishVideo, Publish
  <2>2. stopEv' = stopEv
    BY <1>3 DEF LeaveLoop, ExportTrace, CloseBackend, FinishVideo, Publish
  <2>3. QED
    BY <2>1, <2>2 DEF Left
<1>4. CASE Raise(r)
  <2>1. pc[r] \in {"videos", "opening", "arming", "loop", "export"} /\ pc'[r] = "close"
    BY <1>1, <1>4 DEF Raise
  <2>2. stopEv' = stopEv
    BY <1>4 DEF Raise
  <2>3. QED
    BY <2>1, <2>2 DEF Left
<1>5. QED
  BY <1>2, <1>3, <1>4
     DEF RecordLoop, RecordStep, Sample, Persist, ArchiveFailed, ResetToIdle, Signal,
         DiskFault, ArchiveFault, Working

\* Every other step leaves both alone, or ends the process.
LEMMA StoppedElsewhere ==
  ASSUME TypeOK, IInv, NEW r \in Rec, stopEv, pc[r] \in Working,
         [CalmNext]_vars, ~RecordLoop(r)
  PROVE  stopEv' /\ pc'[r] \in {pc[r], "ended"}
<1>1. Running /\ st.status \in {"starting", "recording", "stopping"}
  BY DEF IInv, Dead, Ownership, Owning, Active, Working, Alive
<1>2. \A s \in Rec \ {r} : pc[s] \notin Working
  BY DEF IInv, Ownership, Owning
<1>3. ASSUME NEW s \in Rec \ {r}, RecordLoop(s) PROVE stopEv' /\ pc'[r] = pc[r]
  <2>1. pc'[r] = pc[r]
    BY <1>3 DEF TypeOK, RecordLoop, RecordStep, StartVideo, OpenBackend, Admit, Announce,
       Sample, LeaveLoop, ExportTrace, CloseBackend, FinishVideo, Publish, Persist,
       ArchiveFailed, ResetToIdle, Signal, Raise, DiskFault, ArchiveFault, Goto
  <2>2. stopEv' = stopEv
    BY <1>2, <1>3 DEF RecordLoop, RecordStep, StartVideo, OpenBackend, Admit, Announce,
       Sample, LeaveLoop, ExportTrace, CloseBackend, FinishVideo, Publish, Persist,
       ArchiveFailed, ResetToIdle, Signal, Raise, DiskFault, ArchiveFault, At, Working
  <2>3. QED
    BY <2>1, <2>2
<1>4. ASSUME NEW c \in Client, Routine(c) PROVE stopEv' /\ pc'[r] = pc[r]
  BY <1>1, <1>4 DEF Routine, StartRequest, SyncRequest, Request, RetryArchive, RetryFault, RetryArchiveFault,
     RetryReset, Rejected, Start, StartTimeout, StartAnswer, Stop, StopAnswer,
     VerifyRequest, Synchronize, GatewayAnswer
<1>5. ~Quiet
  BY DEF Quiet, Alive
<1>6. ASSUME Process PROVE stopEv' /\ pc'[r] \in {pc[r], "ended"}
  BY <1>1, <1>6 DEF Process, Shutdown, ShutdownStop, ShutdownJoined, Crash, Restart,
     ProcessEnds, TypeOK
<1>7. ASSUME UNCHANGED vars PROVE stopEv' /\ pc'[r] = pc[r]
  BY <1>7 DEF vars
<1>8. QED
  BY <1>3, <1>4, <1>5, <1>6, <1>7 DEF CalmNext

\* With a calm operator a stop reaches the attempt it was meant for.
THEOREM StopIsKept == CalmSpec => StopPrevails
<1>1. ASSUME TypeOK, IInv, [CalmNext]_vars, NEW r \in Rec, stopEv, pc[r] \in Working
      PROVE  /\ stopEv'
             /\ Left[pc'[r]] <= Left[pc[r]]
             /\ RecordStep(r) => Left[pc'[r]] < Left[pc[r]]
  <2>1. pc' \in [Rec -> {"none", "ended", "died"} \cup Working \cup Settling]
    BY <1>1, TypeStep, CalmIsNext DEF TypeOK
  <2>2. Left[pc[r]] \in Nat /\ Left[pc'[r]] \in Nat
    BY <1>1, <2>1 DEF Left, Working, Settling
  <2>3. CASE RecordLoop(r)
    BY <1>1, <2>2, <2>3, StoppedThread
  <2>4. CASE ~RecordLoop(r)
    <3>1. stopEv' /\ pc'[r] \in {pc[r], "ended"}
      BY <1>1, <2>4, StoppedElsewhere
    <3>2. Left["ended"] = 0
      BY DEF Left
    <3>3. QED
      BY <2>2, <2>4, <3>1, <3>2 DEF RecordLoop
  <2>5. QED
    BY <2>3, <2>4
<1>2. TypeOK /\ IInv /\ [CalmNext]_vars =>
        [\A r \in Rec : stopEv /\ pc[r] \in Working =>
           /\ stopEv'
           /\ Left[pc'[r]] <= Left[pc[r]]
           /\ RecordStep(r) => Left[pc'[r]] < Left[pc[r]]]_vars
  BY <1>1
<1>3. QED
  BY <1>2, CalmInvariant, PTL DEF CalmSpec, StopPrevails

\* What FailureReturnsToReady has of safety: an error state belongs to the attempt
\* that failed, and that attempt's own thread is still to archive it and to reset
\* the state, unless a disk fault has killed it: nobody else's failure is shown,
\* and none is left to nobody.
FailureHasOwner ==
  Running /\ st.status = "error" =>
    /\ st.rid \in Rec /\ errs[st.rid]
    /\ pc[st.rid] \in {"persist", "archive", "reset", "died"}

LEMMA OwnerStep ==
  ASSUME TypeOK, IInv, FailureHasOwner, [CalmNext]_vars
  PROVE  FailureHasOwner'
<1> USE DEF TypeOK, FailureHasOwner, Goto, At
<1>1. ASSUME NEW r \in Rec, RecordLoop(r) PROVE FailureHasOwner'
  <2>1. CASE Publish(r)
    <3>1. st.rid = r
      BY <2>1 DEF Publish, IInv, Ownership, Owning, Working
    <3>2. st'.rid = r /\ (st'.status = "error" => errs[r]) /\ errs' = errs /\ pc'[r] = "persist"
      BY <2>1, <3>1 DEF Publish, State
    <3>3. QED
      BY <3>2
  <2>2. CASE Persist(r) \/ ArchiveFailed(r) \/ DiskFault(r) \/ ArchiveFault(r)
    <3>1. UNCHANGED <<st, errs, srv>>
      BY <2>2 DEF Persist, ArchiveFailed, DiskFault, ArchiveFault, memVars, callVars
    <3>2. st.rid = r /\ pc'[r] \in {"archive", "reset", "signal", "died"}
          /\ (pc'[r] = "signal" => ~errs[r])
      BY <2>2 DEF Persist, ArchiveFailed, DiskFault, ArchiveFault, IInv, Ownership, Owning
    <3>3. QED
      BY <3>1, <3>2 DEF Running
  <2>3. CASE Admit(r) \/ LeaveLoop(r) \/ ResetToIdle(r)
    <3>1. CASE Admit(r)
      <4>1. st' = [st EXCEPT !.status = "recording", !.torque = TRUE]
        BY <3>1 DEF Admit
      <4>2. st'.status = "recording"
        BY <4>1 DEF State
      <4>3. QED
        BY <4>2
    <3>2. CASE LeaveLoop(r)
      <4>1. st' = [st EXCEPT !.status = "stopping"]
        BY <3>2 DEF LeaveLoop
      <4>2. st'.status = "stopping"
        BY <4>1 DEF State
      <4>3. QED
        BY <4>2
    <3>3. CASE ResetToIdle(r)
      BY <3>3 DEF ResetToIdle, IdleState
    <3>4. QED
      BY <2>3, <3>1, <3>2, <3>3
  <2>4. CASE Sample(r)
    BY <2>4 DEF Sample, thrVars, IInv, Ownership, Owning, Working
  <2>5. CASE StartVideo(r) \/ OpenBackend(r) \/ Announce(r) \/ ExportTrace(r) \/ Raise(r)
             \/ CloseBackend(r) \/ FinishVideo(r)
    <3>1. pc[r] \in Working
      BY <2>5 DEF StartVideo, OpenBackend, Announce, ExportTrace, Raise, CloseBackend,
         FinishVideo, Working
    <3>2. st.status # "error"
      BY <3>1 DEF IInv, Ownership, Owning, Working, Active
    <3>3. st' = st
      BY <2>5 DEF StartVideo, OpenBackend, Announce, ExportTrace, Raise, CloseBackend,
         FinishVideo, memVars
    <3>4. QED
      BY <3>2, <3>3
  <2>6. CASE Signal(r)
    <3>1. UNCHANGED <<st, errs, srv>> /\ pc' = [pc EXCEPT ![r] = "ended"] /\ pc[r] = "signal"
      BY <2>6 DEF Signal, memVars
    <3>2. QED
      BY <3>1 DEF Running
  <2>7. QED
    BY <1>1, <2>1, <2>2, <2>3, <2>4, <2>5, <2>6 DEF RecordLoop, RecordStep
<1>2. ASSUME NEW c \in Client, Routine(c) PROVE FailureHasOwner'
  <2>1. CASE \E r \in Rec : Start(c, r)
    <3>1. st'.status = "starting"
      BY <2>1 DEF Start, StartingState, IdleState
    <3>2. QED
      BY <3>1
  <2>2. CASE RetryReset(c)
    <3>1. st'.status = "idle"
      BY <2>2 DEF RetryReset, IdleState
    <3>2. QED
      BY <3>1
  <2>3. CASE ~RetryReset(c) /\ ~ \E r \in Rec : Start(c, r)
    <3>1. UNCHANGED <<st, pc, errs, srv>>
      BY <1>2, <2>3
         DEF Routine, StartRequest, SyncRequest, Request, RetryArchive, RetryFault, RetryArchiveFault, Rejected,
             StartTimeout, StartAnswer, Stop, StopAnswer, VerifyRequest, Synchronize,
             GatewayAnswer
    <3>2. QED
      BY <3>1 DEF Running
  <2>4. QED
    BY <2>1, <2>2, <2>3
<1>3. ASSUME NEW c \in Client, Quiet, Dispose(c) PROVE FailureHasOwner'
  <2>1. CASE CrashInFinalize(c)
    BY <2>1 DEF CrashInFinalize, Running
  <2>2. CASE Finalize(c) \/ Discard(c)
    <3>1. CASE Finalize(c)
      <4>1. st' = [st EXCEPT !.status = "saved", !.draft = FALSE]
        BY <3>1 DEF Finalize
      <4>2. st'.status = "saved"
        BY <4>1 DEF State
      <4>3. QED
        BY <4>2
    <3>2. CASE Discard(c)
      <4>1. st'.status = "discarded"
        BY <3>2 DEF Discard, DiscardedState, IdleState
      <4>2. QED
        BY <4>1
    <3>3. QED
      BY <2>2, <3>1, <3>2
  <2>3. CASE FinalizeFault(c) \/ DiscardFault(c) \/ RetryRequest(c)
    BY <2>3 DEF FinalizeFault, DiscardFault, RetryRequest, memVars, thrVars, callVars, Running,
       Idle
  <2>4. QED
    BY <1>3, <2>1, <2>2, <2>3 DEF Dispose
<1>4. CASE Process
  <2>1. CASE Restart
    <3>1. st'.status \in {"idle", "awaiting_label"}
      <4>1. CASE DraftsMarked("awaiting_label") = {}
        BY <2>1, <4>1 DEF Restart, IdleState
      <4>2. CASE DraftsMarked("awaiting_label") # {}
        <5>1. PICK d \in DraftsMarked("awaiting_label") :
                st' = [dstate[d] EXCEPT !.torque = FALSE]
          BY <2>1, <4>2 DEF Restart
        <5>2. d \in Rec /\ dstate[d].status = "awaiting_label"
              /\ dstate[d] \in State \cup {NoFile}
          BY <5>1 DEF DraftsMarked
        <5>3. st'.status = dstate[d].status
          BY <5>1, <5>2 DEF State, NoFile, IdleState
        <5>4. QED
          BY <5>2, <5>3
      <4>3. QED
        BY <4>1, <4>2
    <3>2. QED
      BY <3>1
  <2>2. CASE ~Restart
    <3>1. st' = st /\ errs' = errs /\ (Running' => Running /\ pc' = pc)
      BY <1>4, <2>2 DEF Process, Shutdown, ShutdownStop, ShutdownJoined, Crash, Running, memVars
    <3>2. QED
      BY <3>1
  <2>3. QED
    BY <2>1, <2>2
<1>5. CASE UNCHANGED vars
  BY <1>5 DEF vars, memVars, thrVars, callVars, Running
<1>6. QED
  BY <1>1, <1>2, <1>3, <1>4, <1>5 DEF CalmNext

\* With a calm operator no failure is lost sight of, and none is another's.
THEOREM FailuresHaveOwners == CalmSpec => []FailureHasOwner
<1>1. Init => FailureHasOwner
  BY DEF Init, FailureHasOwner, IdleState
<1>2. TypeOK /\ IInv /\ FailureHasOwner /\ [CalmNext]_vars => FailureHasOwner'
  BY OwnerStep
<1>3. QED
  BY <1>1, <1>2, CalmInvariant, PTL DEF CalmSpec
=============================================================================
