------------------------ MODULE GeminiUpload_proofs ------------------------
(***************************************************************************)
(* Proofs about GeminiUpload, for every set of sessions and inputs, every  *)
(* chunk size, retry bound and fault budget, with or without late requests.*)
(***************************************************************************)
EXTENDS GeminiUpload, TLAPS

TypeInv == TypeOK /\ ProcessInv

(* The initial state is well typed: no process runs and no file is on      *)
(* disk.                                                                   *)
LEMMA InitTypeInv == Init => TypeInv
  BY ServerAssumption, ClientAssumption
     DEF Init, ServerInit, TypeInv, TypeOK, ServerTypeOK, ProcessInv, NoFailure,
         Categories, StagePcs, ResumePcs, UploadPcs, EarlyFailures,
         LateFailures, FileStates

(* Every step of stage-upload around its chunk keeps the types.            *)
LEMMA StageType ==
  ASSUME TypeInv, Stage
  PROVE  TypeInv'
<1> USE ServerAssumption, ClientAssumption
    DEF TypeInv, TypeOK, ServerTypeOK, ProcessInv, StagePcs, ResumePcs,
        UploadPcs, NoFault, Fault, Goto, Exit, serverVars, diskVars,
        outcomeVars, NoFailure, Categories, EarlyFailures, LateFailures
<1>1. ASSUME NEW s \in Sessions, OpenSession(s)
      PROVE  TypeInv'
  BY <1>1 DEF OpenSession, Opens
<1>2. ASSUME NEW s \in Sessions, StartFails(s)
      PROVE  TypeInv'
  BY <1>2 DEF StartFails, Opens
<1>3. CASE QueryStaged
  BY <1>3 DEF QueryStaged
<1>4. CASE QueryStagedFails
  BY <1>4 DEF QueryStagedFails
<1>5. CASE SealCheckpoint
  BY <1>5 DEF SealCheckpoint, ReplacesCheckpoint, Checkpoints
<1>6. CASE SealFails
  BY <1>6 DEF SealFails, ReplacesCheckpoint, Checkpoints
<1>7. CASE ProveStage
  BY <1>7 DEF ProveStage, Checkpoints
<1> QED
  BY <1>1, <1>2, <1>3, <1>4, <1>5, <1>6, <1>7 DEF Stage

(* Every outcome of upload_chunk keeps the types, retries included.        *)
LEMMA UploadType ==
  ASSUME TypeInv, Upload
  PROVE  TypeInv'
<1> USE ServerAssumption, ClientAssumption
    DEF TypeInv, TypeOK, ServerTypeOK, ProcessInv, StagePcs, ResumePcs,
        UploadPcs, NoFault, Fault, Goto, Exit, serverVars, diskVars,
        outcomeVars, NoFailure, Categories, EarlyFailures, LateFailures
<1>1. CASE ChunkTaken
  BY <1>1 DEF ChunkTaken, Fits, ChunkEnd, Stores, ChunkDone, ContinueFrom
<1>2. CASE ChunkThrottled
  BY <1>2 DEF ChunkThrottled, RetryAt, UploadFails, GiveUp, GiveUpAt
<1>3. CASE ChunkServerError
  BY <1>3 DEF ChunkServerError, MayStoreChunk, StoresSome, Fits, Stores, ChunkEnd, UploadFails, GiveUp, GiveUpAt
<1>4. CASE ChunkUnanswered
  BY <1>4 DEF ChunkUnanswered, MayStoreChunk, StoresSome, Fits, Stores, ChunkEnd, Delayed, ChunkRequest, Requests
<1>5. CASE ChunkRejected
  BY <1>5 DEF ChunkRejected, UploadFails, GiveUp, GiveUpAt
<1>6. CASE ResolveChunk
  BY <1>6 DEF ResolveChunk, ChunkDone, ContinueFrom, RetryAt, UploadFails, GiveUp, GiveUpAt
<1>7. CASE ResolveFails
  BY <1>7 DEF ResolveFails, UploadFails, GiveUp, GiveUpAt
<1> QED
  BY <1>1, <1>2, <1>3, <1>4, <1>5, <1>6, <1>7 DEF Upload

(* Every step of resume-analyze up to its finalize keeps the types.        *)
LEMMA ResumeType ==
  ASSUME TypeInv, Resume
  PROVE  TypeInv'
<1> USE ServerAssumption, ClientAssumption
    DEF TypeInv, TypeOK, ServerTypeOK, ProcessInv, StagePcs, ResumePcs,
        UploadPcs, NoFault, Fault, Goto, Exit, serverVars, diskVars,
        outcomeVars, NoFailure, Categories, EarlyFailures, LateFailures
<1>1. CASE ReadCheckpoint
  BY <1>1 DEF ReadCheckpoint, Checkpoints
<1>2. ASSUME NEW reason \in EarlyFailures, ReadFails(reason)
      PROVE  TypeInv'
  BY <1>2 DEF ReadFails, GiveUp, GiveUpAt
<1>3. CASE QueryOffset
  BY <1>3 DEF QueryOffset, ContinueFrom, GiveUp, GiveUpAt
<1>4. CASE QueryFails
  BY <1>4 DEF QueryFails, GiveUp, GiveUpAt
<1>5. CASE Requery
  BY <1>5 DEF Requery, ContinueFrom, GiveUp, GiveUpAt
<1>6. CASE RequeryFails
  BY <1>6 DEF RequeryFails, GiveUp, GiveUpAt
<1>7. CASE FinalizeAnswered
  BY <1>7 DEF FinalizeAnswered, Publishes, FileStates
<1>8. CASE FinalizeThrottled
  BY <1>8 DEF FinalizeThrottled, RetryAt, GiveUp, GiveUpAt
<1>9. CASE FinalizeServerError
  BY <1>9 DEF FinalizeServerError, MayPublish, StoresSome, Fits, Stores, Publishes, FileStates, RetryAt, GiveUp, GiveUpAt
<1>10. CASE FinalizeUnanswered
  BY <1>10 DEF FinalizeUnanswered, MayPublish, StoresSome, Fits, Stores, Publishes, FileStates, Delayed, FinalizeRequest, Requests, GiveUp, GiveUpAt
<1>11. CASE FinalizeRejected
  BY <1>11 DEF FinalizeRejected, GiveUp, GiveUpAt
<1> QED
  BY <1>1, <1>2, <1>3, <1>4, <1>5, <1>6, <1>7, <1>8, <1>9, <1>10, <1>11 DEF Resume

(* Every step from polling to the final report keeps the types.            *)
LEMMA ConcludeType ==
  ASSUME TypeInv, Conclude
  PROVE  TypeInv'
<1> USE ServerAssumption, ClientAssumption
    DEF TypeInv, TypeOK, ServerTypeOK, ProcessInv, StagePcs, ResumePcs,
        UploadPcs, NoFault, Fault, Goto, Exit, serverVars, diskVars,
        outcomeVars, NoFailure, Categories, EarlyFailures, LateFailures
<1>1. CASE PollActive
  BY <1>1 DEF PollActive
<1>2. CASE PollEnds
  BY <1>2 DEF PollEnds, Analyzed
<1>3. ASSUME NEW result \in {"ok", "empty", "failed"}, Generate(result)
      PROVE  TypeInv'
  BY <1>3 DEF Generate, Analyzed
<1>4. CASE DeleteAnswered
  BY <1>4 DEF DeleteAnswered, Erases, FileStates
<1>5. CASE DeleteRetried
  BY <1>5 DEF DeleteRetried, MayErase, Erases, FileStates, RetryAt, DeleteFails
<1>6. CASE DeleteUnanswered
  BY <1>6 DEF DeleteUnanswered, MayErase, Erases, FileStates, DeleteFails
<1>7. CASE DeleteRejected
  BY <1>7 DEF DeleteRejected, DeleteFails
<1>8. CASE RemoveCheckpoint
  BY <1>8 DEF RemoveCheckpoint
<1>9. CASE RemoveFails
  BY <1>9 DEF RemoveFails
<1>10. CASE WriteEvidence
  BY <1>10 DEF WriteEvidence, Record, FailureCategory, Reports
<1> QED
  BY <1>1, <1>2, <1>3, <1>4, <1>5, <1>6, <1>7, <1>8, <1>9, <1>10 DEF Conclude

(* Starting a command, a crash and the remote side keep the types.         *)
LEMMA OtherType ==
  ASSUME TypeInv, User \/ Crash \/ Remote \/ UNCHANGED vars
  PROVE  TypeInv'
<1> USE ServerAssumption, ClientAssumption
    DEF TypeInv, TypeOK, ServerTypeOK, ProcessInv, StagePcs, ResumePcs,
        UploadPcs, NoFault, Fault, Goto, Exit, serverVars, diskVars,
        outcomeVars, NoFailure, Categories, EarlyFailures, LateFailures
<1>1. CASE User
  BY <1>1 DEF User, StartStage, StartResume, Launch
<1>2. CASE Crash
  BY <1>2 DEF Crash
<1>3. ASSUME NEW s \in Sessions, ServerProcesses(s), UNCHANGED <<diskVars, procVars>>
      PROVE  TypeInv'
  BY <1>3 DEF ServerProcesses, procVars, FileStates
<1>4. ASSUME NEW r \in late, LateArrives(r), UNCHANGED <<diskVars, procVars>>
      PROVE  TypeInv'
  BY <1>4 DEF LateArrives, StoresSome, procVars, FileStates, Stores, Publishes, Requests
<1>5. CASE UNCHANGED vars
  BY <1>5 DEF vars, procVars
<1>6. CASE FaultsStop /\ UNCHANGED <<diskVars, procVars>>
  BY <1>6 DEF FaultsStop, procVars
<1> QED
  BY <1>1, <1>2, <1>3, <1>4, <1>5, <1>6 DEF Remote

(* Every variable keeps its type, and the program counter agrees with the  *)
(* command that is running and with the session it holds.                  *)
THEOREM TypeCorrect == Spec => []TypeInv
<1>1. TypeInv /\ [Next]_vars => TypeInv'
  BY StageType, UploadType, ResumeType, ConcludeType, OtherType DEF Next, Process
<1> QED
  BY InitTypeInv, <1>1, PTL DEF Spec

(***************************************************************************)
(* Safety.  Given the types, the remaining conjuncts of IInv carry         *)
(* themselves from step to step.                                           *)
(***************************************************************************)
SafeInv ==
    /\ SessionInv /\ StagingInv /\ ResumingInv
    /\ LateInv /\ ReportInv /\ PassInv
    /\ LiveFileIsReachable /\ PassIsClean

(* The safety invariant holds before the first command.                    *)
LEMMA InitSafeInv == Init => SafeInv
  BY ServerAssumption
     DEF Init, ServerInit, SafeInv, SessionInv, StagingInv, ResumingInv,
         LateInv, ReportInv, PassInv, LiveFileIsReachable, PassIsClean, Live,
         Staging, Resuming, UploadPcs, ResumePcs, NoFailure

(* Staging keeps the safety invariant: the session it seals is still open. *)
LEMMA StageSafe ==
  ASSUME TypeInv, TypeInv', SafeInv, Stage
  PROVE  SafeInv'
<1> USE ServerAssumption, ClientAssumption
    DEF SafeInv, SessionInv, StagingInv, ResumingInv, LateInv, ReportInv,
        PassInv, LiveFileIsReachable, PassIsClean, TypeInv, TypeOK,
        ServerTypeOK, FileStates, ProcessInv, StagePcs, ResumePcs, UploadPcs,
        Staging, Resuming, Reaches, Live, NoFault, Fault, Goto, Exit,
        serverVars, diskVars, outcomeVars, NoFailure, Requests, Checkpoints,
        EarlyFailures
<1>1. ASSUME NEW s \in Sessions, OpenSession(s)
      PROVE  SafeInv'
  BY <1>1 DEF OpenSession, Opens
<1>2. ASSUME NEW s \in Sessions, StartFails(s)
      PROVE  SafeInv'
  BY <1>2 DEF StartFails, Opens
<1>3. CASE QueryStaged
  BY <1>3 DEF QueryStaged
<1>4. CASE QueryStagedFails
  BY <1>4 DEF QueryStagedFails
<1>5. CASE SealCheckpoint
  BY <1>5 DEF SealCheckpoint, ReplacesCheckpoint
<1>6. CASE SealFails
  BY <1>6 DEF SealFails, ReplacesCheckpoint
<1>7. CASE ProveStage
  BY <1>7 DEF ProveStage
<1> QED
  BY <1>1, <1>2, <1>3, <1>4, <1>5, <1>6, <1>7 DEF Stage

(* No outcome of upload_chunk makes a session final or lets go of one.     *)
LEMMA UploadSafe ==
  ASSUME TypeInv, TypeInv', SafeInv, Upload
  PROVE  SafeInv'
<1> USE ServerAssumption, ClientAssumption
    DEF SafeInv, SessionInv, StagingInv, ResumingInv, LateInv, ReportInv,
        PassInv, LiveFileIsReachable, PassIsClean, TypeInv, TypeOK,
        ServerTypeOK, FileStates, ProcessInv, StagePcs, ResumePcs, UploadPcs,
        Staging, Resuming, Reaches, Live, NoFault, Fault, Goto, Exit,
        serverVars, diskVars, outcomeVars, NoFailure, Requests, Checkpoints,
        EarlyFailures
<1>1. CASE ChunkTaken
  BY <1>1 DEF ChunkTaken, Fits, ChunkEnd, Stores, ChunkDone, ContinueFrom
<1>2. CASE ChunkThrottled
  BY <1>2 DEF ChunkThrottled, RetryAt, UploadFails, GiveUp, GiveUpAt
<1>3. CASE ChunkServerError
  BY <1>3 DEF ChunkServerError, MayStoreChunk, StoresSome, Fits, Stores, ChunkEnd, UploadFails, GiveUp, GiveUpAt
<1>4. CASE ChunkUnanswered
  <2>1. CASE MayStoreChunk /\ UNCHANGED late
    BY <1>4, <2>1 DEF ChunkUnanswered, MayStoreChunk, StoresSome, Fits, Stores, ChunkEnd
  <2>2. CASE Delayed(ChunkRequest)
    <3>1. ChunkRequest.sid = sid /\ ChunkRequest.kind = "upload"
      BY DEF ChunkRequest
    <3>2. sid \in Sessions /\ status[sid] # "unborn" /\ late' = late \union {ChunkRequest}
      BY <1>4, <2>2 DEF ChunkUnanswered, Delayed
    <3>3. UNCHANGED <<serverVars, diskVars>> /\ pc' = "ambiguous"
          /\ UNCHANGED <<mode, sid, total, offset, attempt, outcomeVars>>
      BY <1>4, <2>2 DEF ChunkUnanswered, Delayed
    <3>4. SessionInv'
      BY <3>1, <3>2, <3>3
    <3>5. StagingInv'
      BY <1>4, <3>1, <3>2, <3>3 DEF ChunkUnanswered
    <3>6. LateInv'
      BY <3>1, <3>2, <3>3
    <3>7. (ResumingInv /\ ReportInv /\ PassInv)'
      BY <1>4, <3>2, <3>3 DEF ChunkUnanswered
    <3>8. (LiveFileIsReachable /\ PassIsClean)'
      BY <3>3
    <3> QED
      BY <3>4, <3>5, <3>6, <3>7, <3>8
  <2> QED
    BY <1>4, <2>1, <2>2 DEF ChunkUnanswered
<1>5. CASE ChunkRejected
  BY <1>5 DEF ChunkRejected, UploadFails, GiveUp, GiveUpAt
<1>6. CASE ResolveChunk
  BY <1>6 DEF ResolveChunk, ChunkDone, ContinueFrom, RetryAt, UploadFails, GiveUp, GiveUpAt
<1>7. CASE ResolveFails
  BY <1>7 DEF ResolveFails, UploadFails, GiveUp, GiveUpAt
<1> QED
  BY <1>1, <1>2, <1>3, <1>4, <1>5, <1>6, <1>7 DEF Upload

(* resume-analyze publishes a file only while its checkpoint is on disk.   *)
LEMMA ResumeSafe ==
  ASSUME TypeInv, TypeInv', SafeInv, Resume
  PROVE  SafeInv'
<1> USE ServerAssumption, ClientAssumption
    DEF SafeInv, SessionInv, StagingInv, ResumingInv, LateInv, ReportInv,
        PassInv, LiveFileIsReachable, PassIsClean, TypeInv, TypeOK,
        ServerTypeOK, FileStates, ProcessInv, StagePcs, ResumePcs, UploadPcs,
        Staging, Resuming, Reaches, Live, NoFault, Fault, Goto, Exit,
        serverVars, diskVars, outcomeVars, NoFailure, Requests, Checkpoints,
        EarlyFailures
<1>1. CASE ReadCheckpoint
  BY <1>1 DEF ReadCheckpoint
<1>2. ASSUME NEW reason \in EarlyFailures, ReadFails(reason)
      PROVE  SafeInv'
  BY <1>2 DEF ReadFails, GiveUp, GiveUpAt
<1>3. CASE QueryOffset
  BY <1>3 DEF QueryOffset, ContinueFrom, GiveUp, GiveUpAt
<1>4. CASE QueryFails
  BY <1>4 DEF QueryFails, GiveUp, GiveUpAt
<1>5. CASE Requery
  BY <1>5 DEF Requery, ContinueFrom, GiveUp, GiveUpAt
<1>6. CASE RequeryFails
  BY <1>6 DEF RequeryFails, GiveUp, GiveUpAt
<1>7. CASE FinalizeAnswered
  BY <1>7 DEF FinalizeAnswered, Publishes
<1>8. CASE FinalizeThrottled
  BY <1>8 DEF FinalizeThrottled, RetryAt, GiveUp, GiveUpAt
<1>9. CASE FinalizeServerError
  BY <1>9 DEF FinalizeServerError, MayPublish, StoresSome, Fits, Stores, Publishes, RetryAt, GiveUp, GiveUpAt
<1>10. CASE FinalizeUnanswered
  <2>1. CASE MayPublish /\ UNCHANGED late
    BY <1>10, <2>1 DEF FinalizeUnanswered, MayPublish, StoresSome, Fits, Stores, Publishes, GiveUp, GiveUpAt
  <2>2. CASE Delayed(FinalizeRequest)
    <3>1. FinalizeRequest.sid = sid
      BY DEF FinalizeRequest
    <3>2. sid \in Sessions /\ Reaches(sid) /\ late' = late \union {FinalizeRequest}
      BY <1>10, <2>2 DEF FinalizeUnanswered, Delayed
    <3>3. UNCHANGED <<serverVars, diskVars, sid, mode>> /\ pc' = "report"
          /\ category' = "FINALIZATION_FAILED"
      BY <1>10, <2>2 DEF FinalizeUnanswered, Delayed, GiveUp, GiveUpAt
    <3>4. SessionInv'
      BY <1>10, <3>1, <3>2, <3>3 DEF FinalizeUnanswered
    <3>5. LateInv'
      BY <3>1, <3>2, <3>3
    <3>6. (StagingInv /\ ResumingInv /\ ReportInv /\ PassInv)'
      BY <3>3
    <3>7. (LiveFileIsReachable /\ PassIsClean)'
      BY <3>3
    <3> QED
      BY <3>4, <3>5, <3>6, <3>7
  <2> QED
    BY <1>10, <2>1, <2>2 DEF FinalizeUnanswered
<1>11. CASE FinalizeRejected
  BY <1>11 DEF FinalizeRejected, GiveUp, GiveUpAt
<1> QED
  BY <1>1, <1>2, <1>3, <1>4, <1>5, <1>6, <1>7, <1>8, <1>9, <1>10, <1>11 DEF Resume

(* Deletion, release and report happen in the order that loses nothing.    *)
LEMMA ConcludeSafe ==
  ASSUME TypeInv, TypeInv', SafeInv, Conclude
  PROVE  SafeInv'
<1> USE ServerAssumption, ClientAssumption
    DEF SafeInv, SessionInv, StagingInv, ResumingInv, LateInv, ReportInv,
        PassInv, LiveFileIsReachable, PassIsClean, TypeInv, TypeOK,
        ServerTypeOK, FileStates, ProcessInv, StagePcs, ResumePcs, UploadPcs,
        Staging, Resuming, Reaches, Live, NoFault, Fault, Goto, Exit,
        serverVars, diskVars, outcomeVars, NoFailure, Requests, Checkpoints,
        EarlyFailures
<1>1. CASE PollActive
  BY <1>1 DEF PollActive
<1>2. CASE PollEnds
  BY <1>2 DEF PollEnds, Analyzed
<1>3. ASSUME NEW result \in {"ok", "empty", "failed"}, Generate(result)
      PROVE  SafeInv'
  BY <1>3 DEF Generate, Analyzed
<1>4. CASE DeleteAnswered
  BY <1>4 DEF DeleteAnswered, Erases
<1>5. CASE DeleteRetried
  BY <1>5 DEF DeleteRetried, MayErase, Erases, RetryAt, DeleteFails
<1>6. CASE DeleteUnanswered
  BY <1>6 DEF DeleteUnanswered, MayErase, Erases, DeleteFails
<1>7. CASE DeleteRejected
  BY <1>7 DEF DeleteRejected, DeleteFails
<1>8. CASE RemoveCheckpoint
  BY <1>8 DEF RemoveCheckpoint
<1>9. CASE RemoveFails
  BY <1>9 DEF RemoveFails
<1>10. CASE WriteEvidence
  BY <1>10 DEF WriteEvidence, Record, FailureCategory
<1> QED
  BY <1>1, <1>2, <1>3, <1>4, <1>5, <1>6, <1>7, <1>8, <1>9, <1>10 DEF Conclude

(* Crashes and late requests keep the safety invariant.                    *)
LEMMA OtherSafe ==
  ASSUME TypeInv, TypeInv', SafeInv, User \/ Crash \/ Remote \/ UNCHANGED vars
  PROVE  SafeInv'
<1> USE ServerAssumption, ClientAssumption
    DEF SafeInv, SessionInv, StagingInv, ResumingInv, LateInv, ReportInv,
        PassInv, LiveFileIsReachable, PassIsClean, TypeInv, TypeOK,
        ServerTypeOK, FileStates, ProcessInv, StagePcs, ResumePcs, UploadPcs,
        Staging, Resuming, Reaches, Live, NoFault, Fault, Goto, Exit,
        serverVars, diskVars, outcomeVars, NoFailure, Requests, Checkpoints,
        EarlyFailures
<1>1. CASE User
  BY <1>1 DEF User, StartStage, StartResume, Launch
<1>2. CASE Crash
  BY <1>2 DEF Crash
<1>3. ASSUME NEW s \in Sessions, ServerProcesses(s), UNCHANGED <<diskVars, procVars>>
      PROVE  SafeInv'
  BY <1>3 DEF ServerProcesses, procVars
<1>4. ASSUME NEW r \in late, LateArrives(r), UNCHANGED <<diskVars, procVars>>
      PROVE  SafeInv'
  BY <1>4 DEF LateArrives, StoresSome, procVars, Stores, Publishes, Fits, Completes
<1>5. CASE UNCHANGED vars
  BY <1>5 DEF vars, procVars
<1>6. CASE FaultsStop /\ UNCHANGED <<diskVars, procVars>>
  BY <1>6 DEF FaultsStop, procVars
<1> QED
  BY <1>1, <1>2, <1>3, <1>4, <1>5, <1>6 DEF Remote

(* The safety invariant holds of every behaviour of the two commands.      *)
THEOREM SafetyInvariant == Spec => []SafeInv
<1>1. TypeInv /\ TypeInv' /\ SafeInv /\ [Next]_vars => SafeInv'
  BY StageSafe, UploadSafe, ResumeSafe, ConcludeSafe, OtherSafe DEF Next, Process
<1> QED
  BY InitSafeInv, TypeCorrect, <1>1, PTL DEF Spec

(* The conjuncts that matter to a user, one theorem each: first, every     *)
(* variable of the model keeps its type.                                   *)
THEOREM TypeOKCorrect == Spec => []TypeOK
  BY TypeCorrect, PTL DEF TypeInv

(* The invariant the runs check is the one proved here. *)
THEOREM InductiveInvariant == Spec => []IInv
<1>1. TypeInv /\ SafeInv => IInv
  BY DEF TypeInv, SafeInv, IInv
<1> QED
  BY <1>1, TypeCorrect, SafetyInvariant, PTL

(* However the two commands crash, lose answers or are run again, a remote *)
(* file that exists is one the checkpoint on disk leads to, unless a later *)
(* stage-upload replaced that checkpoint.                                  *)
THEOREM LiveFileIsAlwaysReachable == Spec => []LiveFileIsReachable
<1>1. SafeInv => LiveFileIsReachable
  BY DEF SafeInv
<1> QED
  BY <1>1, SafetyInvariant, PTL

(* A GeminiResume proof on disk tells the truth about its remote file and  *)
(* its checkpoint, at the time it is written and ever after.               *)
THEOREM PassIsAlwaysClean == Spec => []PassIsClean
<1>1. SafeInv => PassIsClean
  BY DEF SafeInv
<1> QED
  BY <1>1, SafetyInvariant, PTL

(* A step that removes the checkpoint is the one action that may, and the  *)
(* deletion it follows was acknowledged.                                   *)
THEOREM CheckpointIsReleasedLast == Spec => CheckpointReleasedLast
<1> DEFINE Released == checkpoint # None /\ checkpoint' = None
                          => file[checkpoint.sid] = "deleted"
<1>1. ASSUME TypeInv, SafeInv, [Next]_vars
      PROVE  [Released]_vars
  <2> SUFFICES ASSUME checkpoint # None, checkpoint' = None
               PROVE  file[checkpoint.sid] = "deleted"
    OBVIOUS
  <2>1. CASE RemoveCheckpoint
    BY <2>1, <1>1 DEF RemoveCheckpoint, SafeInv, ResumingInv, Resuming,
                      ResumePcs, Reaches
  <2>2. CASE Stage
    BY <2>2, <1>1, NoneIsNoCheckpoint
       DEF Stage, Checkpoints, TypeInv, TypeOK, ProcessInv, StagePcs, Goto, OpenSession, StartFails, QueryStaged, QueryStagedFails,
           SealCheckpoint, SealFails, ReplacesCheckpoint, ProveStage, diskVars
  <2>3. CASE Upload
    BY <2>3 DEF Upload, ChunkTaken, ChunkThrottled, ChunkServerError,
                ChunkUnanswered, ChunkRejected, ResolveChunk, ResolveFails,
                diskVars
  <2>4. CASE Resume
    BY <2>4 DEF Resume, ReadCheckpoint, ReadFails, QueryOffset, QueryFails,
                Requery, RequeryFails, FinalizeAnswered, FinalizeThrottled,
                FinalizeServerError, FinalizeUnanswered, FinalizeRejected,
                diskVars
  <2>5. CASE Conclude
    BY <2>5, <2>1 DEF Conclude, PollActive, PollEnds, Generate, Analyzed,
                DeleteAnswered, DeleteRetried, DeleteUnanswered,
                DeleteRejected, RemoveFails, WriteEvidence, diskVars
  <2>6. CASE User \/ Crash \/ Remote \/ UNCHANGED vars
    BY <2>6 DEF User, StartStage, StartResume, Crash, Remote, vars, diskVars
  <2> QED
    BY <1>1, <2>2, <2>3, <2>4, <2>5, <2>6 DEF Next, Process
<1> QED
  BY <1>1, TypeCorrect, SafetyInvariant, PTL DEF Spec, CheckpointReleasedLast

(***************************************************************************)
(* What the numbers mean.  The properties about offsets and hints need a   *)
(* second invariant, on top of TypeInv and SafeInv: how much the server    *)
(* holds, and that the hint of a session is one number wherever it is.     *)
(***************************************************************************)
ServedInv ==
    /\ \A s \in Sessions : received[s] <= declared[s]
    /\ \A s \in Sessions : status[s] = "unborn" => received[s] = 0
    /\ \A s \in Sessions : status[s] = "final" => received[s] = declared[s]
    /\ \A r \in late : r.kind = "upload" => r.from <= r.upto
    /\ ~LateRequests => late = {}

LaunchInv ==
    /\ pc \in {"idle", "start", "read"} => sid = None
    /\ pc \in {"idle", "start"} => offset = 0
    /\ mode = "stage" => pc \in StagePcs \union UploadPcs

(* A session is staged once: while it is, no proof is about it yet, and    *)
(* what is sealed is what is proved.                                       *)
SealInv ==
    /\ staged # None => status[staged.sid] # "unborn"
    /\ mode = "stage" /\ staged # None => staged.sid # sid
    /\ pc \in {"seal", "prove"} => hint \in 1 .. received[sid]
    /\ pc = "prove" =>
           /\ status[sid] = "open"
           /\ \A r \in late : r.sid = sid => r.kind = "upload"
           /\ checkpoint = [sid |-> sid, hint |-> hint]

HintInv ==
    staged # None =>
        /\ Reaches(staged.sid) => checkpoint.hint = staged.hint
        /\ mode = "resume" /\ sid = staged.sid => hint = staged.hint
        /\ evidence # None /\ evidence.verdict = "PASS"
               /\ evidence.sid = staged.sid => evidence.hint = staged.hint

OffsetInv ==
    /\ ServedInv /\ LaunchInv /\ SealInv /\ HintInv
    /\ HintIsLowerBound /\ NoStaleReplay

(* Before the first command the server holds nothing.                      *)
LEMMA InitOffsetInv == Init => OffsetInv
  BY ServerAssumption
     DEF Init, ServerInit, OffsetInv, ServedInv, LaunchInv, SealInv, HintInv,
         HintIsLowerBound, NoStaleReplay

(* Staging seals and proves the one hint the server gave.                  *)
LEMMA StageOffset ==
  ASSUME TypeInv, TypeInv', SafeInv, OffsetInv, Stage
  PROVE  OffsetInv'
<1> USE ServerAssumption, ClientAssumption, NoneIsNoCheckpoint
    DEF OffsetInv, ServedInv, LaunchInv, SealInv, HintInv, HintIsLowerBound,
        NoStaleReplay, TypeInv, TypeOK, ServerTypeOK, ProcessInv, StagePcs,
        ResumePcs, UploadPcs, NoFault, Fault, Goto, Exit, serverVars, diskVars,
        outcomeVars, Requests, Checkpoints, Reaches
<1>1. ASSUME NEW s \in Sessions, OpenSession(s)
      PROVE  OffsetInv'
  BY <1>1 DEF OpenSession, Opens
<1>2. ASSUME NEW s \in Sessions, StartFails(s)
      PROVE  OffsetInv'
  BY <1>2 DEF StartFails, Opens
<1>3. CASE QueryStaged
  BY <1>3 DEF QueryStaged
<1>4. CASE QueryStagedFails
  BY <1>4 DEF QueryStagedFails
<1>5. CASE SealCheckpoint
  BY <1>5 DEF SealCheckpoint, ReplacesCheckpoint, SafeInv, StagingInv, Staging
<1>6. CASE SealFails
  BY <1>6 DEF SealFails, ReplacesCheckpoint, Checkpoints
<1>7. CASE ProveStage
  BY <1>7 DEF ProveStage, SafeInv, SessionInv, PassInv, PassIsClean
<1> QED
  BY <1>1, <1>2, <1>3, <1>4, <1>5, <1>6, <1>7 DEF Stage

(* A chunk is sent again only from where the server stands.                *)
LEMMA UploadOffset ==
  ASSUME TypeInv, TypeInv', SafeInv, OffsetInv, Upload
  PROVE  OffsetInv'
<1> USE ServerAssumption, ClientAssumption, NoneIsNoCheckpoint
    DEF OffsetInv, ServedInv, LaunchInv, SealInv, HintInv, HintIsLowerBound,
        NoStaleReplay, TypeInv, TypeOK, ServerTypeOK, ProcessInv, StagePcs,
        ResumePcs, UploadPcs, NoFault, Fault, Goto, Exit, serverVars, diskVars,
        outcomeVars, Requests, Checkpoints, Reaches
<1>1. CASE ChunkTaken
  BY <1>1 DEF ChunkTaken, Fits, ChunkEnd, Stores, ChunkDone, ContinueFrom
<1>2. CASE ChunkThrottled
  BY <1>2 DEF ChunkThrottled, RetryAt, UploadFails, GiveUp, GiveUpAt
<1>3. CASE ChunkServerError
  BY <1>3 DEF ChunkServerError, MayStoreChunk, StoresSome, Fits, StoresSome, Fits, Stores, ChunkEnd, UploadFails, GiveUp, GiveUpAt
<1>4. CASE ChunkUnanswered
  <2>1. CASE MayStoreChunk /\ UNCHANGED late
    BY <1>4, <2>1 DEF ChunkUnanswered, MayStoreChunk, StoresSome, Fits, StoresSome, Fits, Stores, ChunkEnd
  <2>2. CASE Delayed(ChunkRequest)
    <3>1. ChunkRequest.kind = "upload" /\ ChunkRequest.from <= ChunkRequest.upto
      BY DEF ChunkRequest, ChunkEnd
    <3>2. LateRequests /\ late' = late \union {ChunkRequest} /\ UNCHANGED serverVars
      BY <2>2 DEF Delayed
    <3>3. pc' = "ambiguous" /\ UNCHANGED <<diskVars, mode, sid, total, offset, attempt, outcomeVars>>
      BY <1>4 DEF ChunkUnanswered
    <3> QED
      BY <1>4, <3>1, <3>2, <3>3 DEF ChunkUnanswered
  <2> QED
    BY <1>4, <2>1, <2>2 DEF ChunkUnanswered
<1>5. CASE ChunkRejected
  BY <1>5 DEF ChunkRejected, UploadFails, GiveUp, GiveUpAt
<1>6. CASE ResolveChunk
  BY <1>6 DEF ResolveChunk, ChunkEnd, ChunkDone, ContinueFrom, RetryAt, UploadFails, GiveUp, GiveUpAt
<1>7. CASE ResolveFails
  BY <1>7 DEF ResolveFails, UploadFails, GiveUp, GiveUpAt
<1> QED
  BY <1>1, <1>2, <1>3, <1>4, <1>5, <1>6, <1>7 DEF Upload

(* Resuming takes its hint from the checkpoint, its offset from the server.*)
LEMMA ResumeOffset ==
  ASSUME TypeInv, TypeInv', SafeInv, OffsetInv, Resume
  PROVE  OffsetInv'
<1> USE ServerAssumption, ClientAssumption, NoneIsNoCheckpoint
    DEF OffsetInv, ServedInv, LaunchInv, SealInv, HintInv, HintIsLowerBound,
        NoStaleReplay, TypeInv, TypeOK, ServerTypeOK, ProcessInv, StagePcs,
        ResumePcs, UploadPcs, NoFault, Fault, Goto, Exit, serverVars, diskVars,
        outcomeVars, Requests, Checkpoints, Reaches
<1>1. CASE ReadCheckpoint
  BY <1>1 DEF ReadCheckpoint, Checkpoints
<1>2. ASSUME NEW reason \in EarlyFailures, ReadFails(reason)
      PROVE  OffsetInv'
  BY <1>2 DEF ReadFails, GiveUp, GiveUpAt
<1>3. CASE QueryOffset
  BY <1>3 DEF QueryOffset, ContinueFrom, GiveUp, GiveUpAt
<1>4. CASE QueryFails
  BY <1>4 DEF QueryFails, GiveUp, GiveUpAt
<1>5. CASE Requery
  BY <1>5 DEF Requery, ContinueFrom, GiveUp, GiveUpAt
<1>6. CASE RequeryFails
  BY <1>6 DEF RequeryFails, GiveUp, GiveUpAt
<1>7. CASE FinalizeAnswered
  BY <1>7 DEF FinalizeAnswered, Publishes, FileStates
<1>8. CASE FinalizeThrottled
  BY <1>8 DEF FinalizeThrottled, RetryAt, GiveUp, GiveUpAt
<1>9. CASE FinalizeServerError
  BY <1>9 DEF FinalizeServerError, MayPublish, StoresSome, Fits, Stores, Publishes, FileStates, RetryAt, GiveUp, GiveUpAt
<1>10. CASE FinalizeUnanswered
  <2> USE <1>10 DEF FinalizeUnanswered, FileStates, GiveUp, GiveUpAt
  <2>1. CASE UNCHANGED serverVars /\ UNCHANGED late
    BY <2>1
  <2>2. CASE StoresSome(sid, offset, total) /\ UNCHANGED late
    <3>1. PICK end \in offset + 1 .. total :
            Fits(sid, offset, total) /\ Stores(sid, end)
      BY <2>2 DEF StoresSome
    <3>2. /\ received' = [received EXCEPT ![sid] = end] /\ sid \in Sessions
          /\ end > received[sid] /\ end <= declared[sid] /\ end \in Nat
          /\ status[sid] = "open" /\ UNCHANGED <<status, declared, file>>
      BY <3>1 DEF Fits, Stores
    <3>3. pc' = "report" /\ UNCHANGED <<late, mode, sid, hint, diskVars>>
      BY <2>2
    <3> QED
      BY <3>2, <3>3
  <2>3. CASE MayPublish /\ Publishes(sid) /\ UNCHANGED late
    BY <2>3 DEF Publishes
  <2>4. CASE Delayed(FinalizeRequest)
    BY <2>4 DEF Delayed, FinalizeRequest
  <2> QED
    BY <2>1, <2>2, <2>3, <2>4 DEF MayPublish
<1>11. CASE FinalizeRejected
  BY <1>11 DEF FinalizeRejected, GiveUp, GiveUpAt
<1> QED
  BY <1>1, <1>2, <1>3, <1>4, <1>5, <1>6, <1>7, <1>8, <1>9, <1>10, <1>11 DEF Resume

(* Polling, deleting and reporting move no byte.                           *)
LEMMA ConcludeOffset ==
  ASSUME TypeInv, TypeInv', SafeInv, OffsetInv, Conclude
  PROVE  OffsetInv'
<1> USE ServerAssumption, ClientAssumption, NoneIsNoCheckpoint
    DEF OffsetInv, ServedInv, LaunchInv, SealInv, HintInv, HintIsLowerBound,
        NoStaleReplay, TypeInv, TypeOK, ServerTypeOK, ProcessInv, StagePcs,
        ResumePcs, UploadPcs, NoFault, Fault, Goto, Exit, serverVars, diskVars,
        outcomeVars, Requests, Checkpoints, Reaches
<1>1. CASE PollActive
  BY <1>1 DEF PollActive
<1>2. CASE PollEnds
  BY <1>2 DEF PollEnds, Analyzed
<1>3. ASSUME NEW result \in {"ok", "empty", "failed"}, Generate(result)
      PROVE  OffsetInv'
  BY <1>3 DEF Generate, Analyzed
<1>4. CASE DeleteAnswered
  BY <1>4 DEF DeleteAnswered, Erases, FileStates
<1>5. CASE DeleteRetried
  BY <1>5 DEF DeleteRetried, MayErase, Erases, FileStates, RetryAt, DeleteFails
<1>6. CASE DeleteUnanswered
  BY <1>6 DEF DeleteUnanswered, MayErase, Erases, FileStates, DeleteFails
<1>7. CASE DeleteRejected
  BY <1>7 DEF DeleteRejected, DeleteFails
<1>8. CASE RemoveCheckpoint
  BY <1>8 DEF RemoveCheckpoint
<1>9. CASE RemoveFails
  BY <1>9 DEF RemoveFails
<1>10. CASE WriteEvidence
  BY <1>10 DEF WriteEvidence, Record, FailureCategory, Reports
<1> QED
  BY <1>1, <1>2, <1>3, <1>4, <1>5, <1>6, <1>7, <1>8, <1>9, <1>10 DEF Conclude

(* The server only ever holds more, late requests included.                *)
LEMMA OtherOffset ==
  ASSUME TypeInv, TypeInv', SafeInv, OffsetInv, User \/ Crash \/ Remote \/ UNCHANGED vars
  PROVE  OffsetInv'
<1> USE ServerAssumption, ClientAssumption, NoneIsNoCheckpoint
    DEF OffsetInv, ServedInv, LaunchInv, SealInv, HintInv, HintIsLowerBound,
        NoStaleReplay, TypeInv, TypeOK, ServerTypeOK, ProcessInv, StagePcs,
        ResumePcs, UploadPcs, NoFault, Fault, Goto, Exit, serverVars, diskVars,
        outcomeVars, Requests, Checkpoints, Reaches
<1>1. CASE User
  BY <1>1 DEF User, StartStage, StartResume, Launch
<1>2. CASE Crash
  BY <1>2 DEF Crash
<1>3. ASSUME NEW s \in Sessions, ServerProcesses(s), UNCHANGED <<diskVars, procVars>>
      PROVE  OffsetInv'
  BY <1>3 DEF ServerProcesses, procVars, FileStates
<1>4. ASSUME NEW r \in late, LateArrives(r), UNCHANGED <<diskVars, procVars>>
      PROVE  OffsetInv'
  BY <1>4 DEF LateArrives, StoresSome, procVars, Fits, Completes, Stores, Publishes
<1>5. CASE UNCHANGED vars
  BY <1>5 DEF vars, procVars
<1>6. CASE FaultsStop /\ UNCHANGED <<diskVars, procVars>>
  BY <1>6 DEF FaultsStop, procVars
<1> QED
  BY <1>1, <1>2, <1>3, <1>4, <1>5, <1>6 DEF Remote

(* What the server holds and what the hints say, in every behaviour.       *)
THEOREM OffsetInvariant == Spec => []OffsetInv
<1>1. TypeInv /\ TypeInv' /\ SafeInv /\ OffsetInv /\ [Next]_vars => OffsetInv'
  BY StageOffset, UploadOffset, ResumeOffset, ConcludeOffset, OtherOffset
     DEF Next, Process
<1> QED
  BY InitOffsetInv, TypeCorrect, SafetyInvariant, <1>1, PTL DEF Spec

(* Without late requests no chunk, and no finalize for the first time,     *)
(* leaves for an open session except from the byte the server waits for.   *)
THEOREM ReplayIsNeverStale == Spec => []NoStaleReplay
<1>1. OffsetInv => NoStaleReplay
  BY DEF OffsetInv
<1> QED
  BY <1>1, OffsetInvariant, PTL

(* A persisted offset never exceeds what the server holds.                 *)
THEOREM HintIsAlwaysLowerBound == Spec => []HintIsLowerBound
<1>1. OffsetInv => HintIsLowerBound
  BY DEF OffsetInv
<1> QED
  BY <1>1, OffsetInvariant, PTL

(* The two Gemini proofs the gate accepts together are about one session   *)
(* that took the whole input from the staged offset and left nothing.      *)
THEOREM AcceptedRowIsAlwaysTrue == Spec => []AcceptedRowIsTrue
<1>1. TypeInv /\ SafeInv /\ OffsetInv => AcceptedRowIsTrue
  BY DEF TypeInv, TypeOK, ServerTypeOK, SafeInv, SessionInv, PassIsClean,
         OffsetInv, ServedInv, HintInv, AcceptedRowIsTrue, RowAccepted,
         Checkpoints, Reports
<1> QED
  BY <1>1, TypeCorrect, SafetyInvariant, OffsetInvariant, PTL

(***************************************************************************)
(* Alignment.  Only additions of a chunk move an aligned offset.           *)
(***************************************************************************)
(* A multiple of the chunk size leaves no remainder. *)
LEMMA MultipleIsAligned ==
  ASSUME NEW k \in Int, NEW c \in Nat \ {0}
  PROVE  (c * k) % c = 0
  BY SMTT(30)

(* One more chunk keeps an offset aligned. *)
LEMMA NextIsAligned ==
  ASSUME NEW a \in Nat, NEW c \in Nat \ {0}, a % c = 0
  PROVE  (a + c) % c = 0
<1> DEFINE q == a \div c
<1>1. q \in Int
  BY Z3
<1>2. a = c * q
  BY Z3T(30)
<1> HIDE DEF q
<1>3. a + c = c * (q + 1)
  BY <1>1, <1>2, Z3
<1>4. q + 1 \in Int
  BY <1>1
<1> QED
  BY <1>3, <1>4, MultipleIsAligned

(* The offset of a process that has one, and the way it became aligned.    *)
AlignedInv ==
    /\ pc \in {"idle", "start"} => offset = 0
    /\ pc = "requery" => ~Granular
    /\ AlignedContinuation

(* Zero is aligned. *)
LEMMA ZeroIsAligned == 0 % ChunkSize = 0
  BY ClientAssumption

(* upload_chunk was entered with an aligned offset and leaves with one.    *)
LEMMA ChunkDoneAligned ==
  ASSUME TypeInv, AlignedInv, pc \in UploadPcs, ChunkDone
  PROVE  AlignedInv'
<1>1. Granular => (offset + ChunkSize) % ChunkSize = 0
  BY ClientAssumption, NextIsAligned DEF TypeInv, TypeOK, AlignedInv, AlignedContinuation
<1> QED
  BY <1>1, ClientAssumption DEF TypeInv, TypeOK, AlignedInv, AlignedContinuation, UploadPcs,
     ChunkDone, ContinueFrom, Goto

(* Staging starts its one chunk at zero.                                   *)
LEMMA StageAligned ==
  ASSUME TypeInv, AlignedInv, Stage
  PROVE  AlignedInv'
<1> USE ClientAssumption, ZeroIsAligned
    DEF AlignedInv, AlignedContinuation, TypeInv, TypeOK, ProcessInv, StagePcs,
        ResumePcs, UploadPcs, Goto, Exit
<1>1. ASSUME NEW s \in Sessions, OpenSession(s)
      PROVE  AlignedInv'
  BY <1>1 DEF OpenSession, Opens
<1>2. ASSUME NEW s \in Sessions, StartFails(s)
      PROVE  AlignedInv'
  BY <1>2 DEF StartFails, Opens
<1>3. CASE QueryStaged
  BY <1>3 DEF QueryStaged
<1>4. CASE QueryStagedFails
  BY <1>4 DEF QueryStagedFails
<1>5. CASE SealCheckpoint
  BY <1>5 DEF SealCheckpoint, ReplacesCheckpoint, Checkpoints
<1>6. CASE SealFails
  BY <1>6 DEF SealFails, ReplacesCheckpoint, Checkpoints
<1>7. CASE ProveStage
  BY <1>7 DEF ProveStage, Checkpoints
<1> QED
  BY <1>1, <1>2, <1>3, <1>4, <1>5, <1>6, <1>7 DEF Stage

(* A repeated chunk starts where the first attempt did.                    *)
LEMMA UploadAligned ==
  ASSUME TypeInv, AlignedInv, Upload
  PROVE  AlignedInv'
<1> USE ClientAssumption, ZeroIsAligned
    DEF AlignedInv, AlignedContinuation, TypeInv, TypeOK, ProcessInv, StagePcs,
        ResumePcs, UploadPcs, Goto, Exit
<1>1. CASE ChunkTaken
  BY <1>1, ChunkDoneAligned DEF ChunkTaken
<1>2. CASE ChunkThrottled
  BY <1>2 DEF ChunkThrottled, RetryAt, UploadFails, GiveUp, GiveUpAt
<1>3. CASE ChunkServerError
  BY <1>3 DEF ChunkServerError, MayStoreChunk, StoresSome, Fits, Stores, ChunkEnd, UploadFails, GiveUp, GiveUpAt
<1>4. CASE ChunkUnanswered
  BY <1>4 DEF ChunkUnanswered, MayStoreChunk, StoresSome, Fits, Stores, ChunkEnd, Delayed, ChunkRequest, Requests
<1>5. CASE ChunkRejected
  BY <1>5 DEF ChunkRejected, UploadFails, GiveUp, GiveUpAt
<1>6. CASE ResolveChunk
  <2>1. CASE ChunkDone
    BY <1>6, <2>1, ChunkDoneAligned DEF ResolveChunk
  <2>2. CASE RetryAt("send", UploadFails) \/ UploadFails
    BY <1>6, <2>2 DEF ResolveChunk, RetryAt, UploadFails, GiveUp, GiveUpAt
  <2> QED
    BY <1>6, <2>1, <2>2 DEF ResolveChunk
<1>7. CASE ResolveFails
  BY <1>7 DEF ResolveFails, UploadFails, GiveUp, GiveUpAt
<1> QED
  BY <1>1, <1>2, <1>3, <1>4, <1>5, <1>6, <1>7 DEF Upload

(* Resuming refuses a server offset inside a chunk.                        *)
LEMMA ResumeAligned ==
  ASSUME TypeInv, AlignedInv, Resume
  PROVE  AlignedInv'
<1> USE ClientAssumption, ZeroIsAligned
    DEF AlignedInv, AlignedContinuation, TypeInv, TypeOK, ProcessInv, StagePcs,
        ResumePcs, UploadPcs, Goto, Exit
<1>1. CASE ReadCheckpoint
  BY <1>1 DEF ReadCheckpoint, Checkpoints
<1>2. ASSUME NEW reason \in EarlyFailures, ReadFails(reason)
      PROVE  AlignedInv'
  BY <1>2 DEF ReadFails, GiveUp, GiveUpAt
<1>3. CASE QueryOffset
  <2> DEFINE seen == received[sid]
  <2>1. seen \in Nat /\ total \in Nat
    BY <1>3, ServerAssumption DEF QueryOffset, ServerTypeOK
  <2>2. CASE ~Misaligned(seen) /\ seen <= total /\ ContinueFrom(seen, seen)
    <3>1. Granular /\ seen < total => seen % ChunkSize = 0
      BY <2>2 DEF Misaligned
    <3>2. offset' = seen /\ total' = total /\ pc' \in {"send", "finalize"}
          /\ (pc' = "send" => total - seen > ChunkSize)
      BY <2>2 DEF ContinueFrom
    <3> QED
      BY <2>1, <3>1, <3>2
  <2>3. CASE GiveUpAt("OFFSET_BEYOND_INPUT", seen) \/ GiveUpAt("OFFSET_MISALIGNED", seen)
    BY <1>3, <2>3 DEF QueryOffset, GiveUpAt
  <2> QED
    BY <1>3, <2>2, <2>3 DEF QueryOffset
<1>4. CASE QueryFails
  BY <1>4 DEF QueryFails, GiveUp, GiveUpAt
<1>5. CASE Requery
  BY <1>5 DEF Requery, ContinueFrom, GiveUp, GiveUpAt
<1>6. CASE RequeryFails
  BY <1>6 DEF RequeryFails, GiveUp, GiveUpAt
<1>7. CASE FinalizeAnswered
  BY <1>7 DEF FinalizeAnswered, Publishes, FileStates
<1>8. CASE FinalizeThrottled
  BY <1>8 DEF FinalizeThrottled, RetryAt, GiveUp, GiveUpAt
<1>9. CASE FinalizeServerError
  BY <1>9 DEF FinalizeServerError, MayPublish, StoresSome, Fits, Stores, Publishes, FileStates, RetryAt, GiveUp, GiveUpAt
<1>10. CASE FinalizeUnanswered
  BY <1>10 DEF FinalizeUnanswered, MayPublish, StoresSome, Fits, Stores, Publishes, FileStates, Delayed, FinalizeRequest, Requests, GiveUp, GiveUpAt
<1>11. CASE FinalizeRejected
  BY <1>11 DEF FinalizeRejected, GiveUp, GiveUpAt
<1> QED
  BY <1>1, <1>2, <1>3, <1>4, <1>5, <1>6, <1>7, <1>8, <1>9, <1>10, <1>11 DEF Resume

(* After the finalize no chunk is sent.                                    *)
LEMMA ConcludeAligned ==
  ASSUME TypeInv, AlignedInv, Conclude
  PROVE  AlignedInv'
<1> USE ClientAssumption, ZeroIsAligned
    DEF AlignedInv, AlignedContinuation, TypeInv, TypeOK, ProcessInv, StagePcs,
        ResumePcs, UploadPcs, Goto, Exit
<1>1. CASE PollActive
  BY <1>1 DEF PollActive
<1>2. CASE PollEnds
  BY <1>2 DEF PollEnds, Analyzed
<1>3. ASSUME NEW result \in {"ok", "empty", "failed"}, Generate(result)
      PROVE  AlignedInv'
  BY <1>3 DEF Generate, Analyzed
<1>4. CASE DeleteAnswered
  BY <1>4 DEF DeleteAnswered, Erases, FileStates
<1>5. CASE DeleteRetried
  BY <1>5 DEF DeleteRetried, MayErase, Erases, FileStates, RetryAt, DeleteFails
<1>6. CASE DeleteUnanswered
  BY <1>6 DEF DeleteUnanswered, MayErase, Erases, FileStates, DeleteFails
<1>7. CASE DeleteRejected
  BY <1>7 DEF DeleteRejected, DeleteFails
<1>8. CASE RemoveCheckpoint
  BY <1>8 DEF RemoveCheckpoint
<1>9. CASE RemoveFails
  BY <1>9 DEF RemoveFails
<1>10. CASE WriteEvidence
  BY <1>10 DEF WriteEvidence, Record, FailureCategory, Reports
<1> QED
  BY <1>1, <1>2, <1>3, <1>4, <1>5, <1>6, <1>7, <1>8, <1>9, <1>10 DEF Conclude

(* A started process is at offset zero.                                    *)
LEMMA OtherAligned ==
  ASSUME TypeInv, AlignedInv, User \/ Crash \/ Remote \/ UNCHANGED vars
  PROVE  AlignedInv'
<1> USE ClientAssumption, ZeroIsAligned
    DEF AlignedInv, AlignedContinuation, TypeInv, TypeOK, ProcessInv, StagePcs,
        ResumePcs, UploadPcs, Goto, Exit
<1>1. CASE User
  BY <1>1 DEF User, StartStage, StartResume, Launch
<1>2. CASE Crash
  BY <1>2 DEF Crash
<1>3. ASSUME NEW s \in Sessions, ServerProcesses(s), UNCHANGED <<diskVars, procVars>>
      PROVE  AlignedInv'
  BY <1>3 DEF ServerProcesses, procVars, FileStates
<1>4. ASSUME NEW r \in late, LateArrives(r), UNCHANGED <<diskVars, procVars>>
      PROVE  AlignedInv'
  BY <1>4 DEF LateArrives, StoresSome, procVars, FileStates, Stores, Publishes, Requests
<1>5. CASE UNCHANGED vars
  BY <1>5 DEF vars, procVars
<1>6. CASE FaultsStop /\ UNCHANGED <<diskVars, procVars>>
  BY <1>6 DEF FaultsStop, procVars
<1> QED
  BY <1>1, <1>2, <1>3, <1>4, <1>5, <1>6 DEF Remote

(* With a server granularity no chunk with bytes in it starts off it, for  *)
(* every chunk size, whatever part of an attempt the server kept.          *)
THEOREM ChunksAreAlwaysAligned == Spec => []AlignedContinuation
<1>1. Init => AlignedInv
  BY DEF Init, AlignedInv, AlignedContinuation, UploadPcs
<1>2. TypeInv /\ AlignedInv /\ [Next]_vars => AlignedInv'
  BY StageAligned, UploadAligned, ResumeAligned, ConcludeAligned, OtherAligned
     DEF Next, Process
<1>3. AlignedInv => AlignedContinuation
  BY DEF AlignedInv
<1> QED
  BY <1>1, <1>2, <1>3, TypeCorrect, PTL DEF Spec

(***************************************************************************)
(* Refinement.  Each change of the server or of the disk is one step of    *)
(* the ledger; a step that changes neither stutters.                       *)
(***************************************************************************)
LedgerSame == UNCHANGED <<status, file, checkpoint, evidence, superseded>>

(* What the ledger does not see is a stuttering step of it. *)
LEMMA SameIsStutter == ASSUME LedgerSame PROVE UNCHANGED Ledger!vars
  BY DEF LedgerSame, Ledger!vars, Journey, Live

(* Opening a session begins its journey. *)
LEMMA OpenBegins ==
  ASSUME TypeInv, NEW s \in Sessions, status[s] = "unborn", Opens(s, total),
         UNCHANGED diskVars
  PROVE  Ledger!Begin(s)
  BY DEF TypeInv, TypeOK, ServerTypeOK, Opens, diskVars, Ledger!Begin,
         Ledger!Move, Journey, Live

(* Sealing a checkpoint issues a ticket for a session that still fills. *)
LEMMA SealIssues ==
  ASSUME TypeInv, SafeInv, pc = "seal", ReplacesCheckpoint,
         UNCHANGED <<status, file, evidence>>
  PROVE  Ledger!Issue(sid)
<1>1. sid \in Sessions /\ status[sid] = "open"
  BY DEF TypeInv, ProcessInv, SafeInv, StagingInv, Staging, StagePcs
<1>2. checkpoint # None => checkpoint.sid # None
  BY ServerAssumption DEF TypeInv, TypeOK, Checkpoints
<1>3. [sid |-> sid, hint |-> hint] # None
  BY <1>1, NoneIsNoCheckpoint DEF Checkpoints, TypeInv, TypeOK
<1> QED
  BY <1>1, <1>2, <1>3 DEF ReplacesCheckpoint, Ledger!Issue, Journey, Live

(* Publishing the file of a session that can be found is a Publish. *)
LEMMA FinalizePublishes ==
  ASSUME TypeInv, NEW s \in Sessions, Reaches(s) \/ s \in superseded,
         status[s] = "open", Publishes(s), UNCHANGED diskVars
  PROVE  Ledger!Publish(s)
  BY DEF TypeInv, TypeOK, ServerTypeOK, Publishes, diskVars, Reaches,
         Ledger!Publish, Ledger!Move, Journey, Live

(* Deleting a file that exists is a Discard. *)
LEMMA EraseDiscards ==
  ASSUME TypeInv, SafeInv, NEW s \in Sessions, Live(s), Erases(s),
         UNCHANGED diskVars
  PROVE  Ledger!Discard(s)
  BY DEF TypeInv, TypeOK, ServerTypeOK, SafeInv, SessionInv, Erases, diskVars,
         Ledger!Discard, Ledger!Move, Journey, Live

(* Removing the checkpoint redeems the ticket of a discarded file. *)
LEMMA RemoveRedeems ==
  ASSUME TypeInv, SafeInv, RemoveCheckpoint
  PROVE  Ledger!Redeem
<1>1. /\ sid \in Sessions /\ checkpoint # None /\ checkpoint.sid = sid
      /\ file[sid] = "deleted" /\ status[sid] = "final"
  BY DEF RemoveCheckpoint, TypeInv, TypeOK, ServerTypeOK, ProcessInv, SafeInv,
         SessionInv, ResumingInv, Resuming, ResumePcs, Reaches
<1>2. sid # None
  BY <1>1, ServerAssumption
<1> QED
  BY <1>1, <1>2 DEF RemoveCheckpoint, serverVars, Ledger!Redeem, Journey, Live

(* A report certifies a discarded file that no ticket leads to, or nothing.*)
LEMMA ReportCertifies ==
  ASSUME TypeInv, TypeInv', SafeInv, WriteEvidence
  PROVE  Ledger!Certify(sid) \/ Ledger!Revoke
<1>1. UNCHANGED <<status, file, checkpoint, superseded>> /\ evidence' = Record /\ pc = "report"
  BY DEF WriteEvidence, serverVars
<1>2. CASE Record = None
  BY <1>1, <1>2 DEF Ledger!Revoke, Journey, Live
<1>3. CASE Record # None /\ FailureCategory = NoFailure
  <2>1. category = NoFailure /\ remote # "FAILED" /\ cleanup # "FAILED"
    BY <1>3 DEF FailureCategory, NoFailure
  <2>2. sid \in Sessions /\ file[sid] = "deleted" /\ status[sid] = "final" /\ checkpoint = None
    BY <1>1, <2>1 DEF SafeInv, ReportInv, SessionInv, TypeInv, TypeOK
  <2>3. sid # None
    BY <2>2, ServerAssumption
  <2> QED
    BY <1>1, <1>3, <2>2, <2>3 DEF Record, Ledger!Certify, Journey, Live
<1>4. CASE FailureCategory # NoFailure
  BY <1>1, <1>4 DEF Record, Ledger!Revoke, Journey, Live
<1> QED
  BY <1>2, <1>3, <1>4

(* stage-upload begins journeys and issues tickets. *)
LEMMA StageOfLedger ==
  ASSUME TypeInv, SafeInv, Stage
  PROVE  Ledger!Next \/ UNCHANGED Ledger!vars
<1>1. ASSUME NEW s \in Sessions, OpenSession(s) \/ StartFails(s)
      PROVE  Ledger!Begin(s) \/ LedgerSame
  BY <1>1, OpenBegins DEF OpenSession, StartFails, LedgerSame, diskVars, serverVars
<1>2. CASE SealCheckpoint \/ SealFails
  <2>1. sid \in Sessions
    BY <1>2 DEF SealCheckpoint, SealFails, TypeInv, ProcessInv
  <2>2. Ledger!Issue(sid) \/ LedgerSame
    BY <1>2, SealIssues DEF SealCheckpoint, SealFails, LedgerSame, serverVars
  <2> QED
    BY <2>1, <2>2, SameIsStutter DEF Ledger!Next
<1>3. CASE QueryStaged \/ QueryStagedFails \/ ProveStage
  BY <1>3, SameIsStutter DEF QueryStaged, QueryStagedFails, ProveStage,
     LedgerSame, serverVars, diskVars
<1> QED
  BY <1>1, <1>2, <1>3, SameIsStutter DEF Stage, Ledger!Next

(* Chunks are below the ledger. *)
LEMMA UploadOfLedger == ASSUME Upload PROVE LedgerSame
  BY DEF Upload, ChunkTaken, ChunkThrottled, ChunkServerError, ChunkUnanswered,
         ChunkRejected, ResolveChunk, ResolveFails, MayStoreChunk, StoresSome, Fits, Stores,
         Delayed, LedgerSame, serverVars, diskVars

(* resume-analyze publishes what its checkpoint leads to. *)
LEMMA ResumeOfLedger ==
  ASSUME TypeInv, SafeInv, Resume
  PROVE  Ledger!Next \/ UNCHANGED Ledger!vars
<1>1. CASE FinalizeAnswered \/ FinalizeServerError \/ FinalizeUnanswered
  <2>1. sid \in Sessions /\ Reaches(sid)
    BY <1>1 DEF FinalizeAnswered, FinalizeServerError, FinalizeUnanswered,
       TypeInv, ProcessInv, SafeInv, ResumingInv, Resuming, ResumePcs
  <2>2. UNCHANGED diskVars
        /\ \/ Completes(sid, offset, total) /\ Publishes(sid)
           \/ UNCHANGED <<status, file>>
    BY <1>1 DEF FinalizeAnswered, FinalizeServerError, FinalizeUnanswered,
       MayPublish, StoresSome, Stores, Delayed, serverVars
  <2>3. Ledger!Publish(sid) \/ LedgerSame
    BY <2>1, <2>2, FinalizePublishes DEF Completes, Fits, LedgerSame, serverVars, diskVars
  <2> QED
    BY <2>1, <2>3, SameIsStutter DEF Ledger!Next
<1>2. CASE ReadCheckpoint \/ \E reason \in EarlyFailures : ReadFails(reason)
  BY <1>2, SameIsStutter DEF ReadCheckpoint, ReadFails, LedgerSame, serverVars, diskVars
<1>3. CASE QueryOffset \/ QueryFails \/ Requery \/ RequeryFails
           \/ FinalizeThrottled \/ FinalizeRejected
  BY <1>3, SameIsStutter DEF QueryOffset, QueryFails, Requery, RequeryFails,
     FinalizeThrottled, FinalizeRejected, LedgerSame, serverVars, diskVars
<1> QED
  BY <1>1, <1>2, <1>3 DEF Resume

(* Concluding discards, redeems and certifies, in that order. *)
LEMMA ConcludeOfLedger ==
  ASSUME TypeInv, TypeInv', SafeInv, Conclude
  PROVE  Ledger!Next \/ UNCHANGED Ledger!vars
<1>1. CASE DeleteAnswered \/ DeleteRetried \/ DeleteUnanswered
  <2>1. sid \in Sessions
    BY <1>1 DEF DeleteAnswered, DeleteRetried, DeleteUnanswered, TypeInv, ProcessInv
  <2>2. UNCHANGED diskVars /\ ((Live(sid) /\ Erases(sid)) \/ UNCHANGED serverVars)
    BY <1>1 DEF DeleteAnswered, DeleteRetried, DeleteUnanswered, MayErase
  <2>3. Ledger!Discard(sid) \/ LedgerSame
    BY <2>1, <2>2, EraseDiscards DEF LedgerSame, serverVars, diskVars
  <2> QED
    BY <2>1, <2>3, SameIsStutter DEF Ledger!Next
<1>2. CASE RemoveCheckpoint
  BY <1>2, RemoveRedeems DEF Ledger!Next
<1>3. CASE WriteEvidence
  <2>1. CASE sid \in Sessions
    BY <1>3, <2>1, ReportCertifies DEF Ledger!Next
  <2>2. CASE sid \notin Sessions
    <3>1. FailureCategory # NoFailure
      BY <1>3, <2>2 DEF WriteEvidence, SafeInv, ReportInv, FailureCategory, NoFailure
    <3>2. Ledger!Revoke
      BY <1>3, <3>1 DEF WriteEvidence, Record, serverVars, Ledger!Revoke, Journey, Live
    <3> QED
      BY <3>2 DEF Ledger!Next
  <2> QED
    BY <2>1, <2>2
<1>4. CASE PollActive \/ PollEnds \/ DeleteRejected \/ RemoveFails
           \/ \E result \in {"ok", "empty", "failed"} : Generate(result)
  BY <1>4, SameIsStutter DEF PollActive, PollEnds, DeleteRejected, RemoveFails,
     Generate, Analyzed, LedgerSame, serverVars, diskVars
<1> QED
  BY <1>1, <1>2, <1>3, <1>4 DEF Conclude

(* A late finalize publishes too, and only what can still be found. *)
LEMMA OtherOfLedger ==
  ASSUME TypeInv, SafeInv, User \/ Crash \/ Remote \/ UNCHANGED vars
  PROVE  Ledger!Next \/ UNCHANGED Ledger!vars
<1>1. CASE User \/ Crash \/ (FaultsStop /\ UNCHANGED diskVars) \/ UNCHANGED vars
  BY <1>1, SameIsStutter DEF User, StartStage, StartResume, Crash, FaultsStop,
     vars, LedgerSame, serverVars, diskVars
<1>2. ASSUME NEW s \in Sessions, ServerProcesses(s), UNCHANGED diskVars
      PROVE  UNCHANGED Ledger!vars
  BY <1>2 DEF ServerProcesses, diskVars, TypeInv, TypeOK, ServerTypeOK,
     Ledger!vars, Journey, Live
<1>3. ASSUME NEW r \in late, LateArrives(r), UNCHANGED diskVars
      PROVE  Ledger!Next \/ UNCHANGED Ledger!vars
  <2>1. r.sid \in Sessions
    BY DEF TypeInv, TypeOK, ServerTypeOK, Requests
  <2>2. CASE r.kind = "finalize" /\ Completes(r.sid, r.from, r.upto) /\ Publishes(r.sid)
    <3>1. status[r.sid] = "open"
      BY <2>2 DEF Completes, Fits
    <3>2. Reaches(r.sid) \/ r.sid \in superseded
      BY <2>2, <3>1 DEF SafeInv, LateInv
    <3> QED
      BY <1>3, <2>1, <2>2, <3>1, <3>2, FinalizePublishes DEF Ledger!Next
  <2>3. CASE StoresSome(r.sid, r.from, r.upto) \/ UNCHANGED serverVars
    BY <1>3, <2>3, SameIsStutter DEF StoresSome, Stores, LedgerSame, serverVars, diskVars
  <2> QED
    BY <1>3, <2>2, <2>3 DEF LateArrives
<1> QED
  BY <1>1, <1>2, <1>3 DEF Remote, Ledger!Next

(* The two commands, with every crash, lost answer and late request, do no *)
(* more than the ledger allows.                                            *)
THEOREM CommandsImplementLedger == Spec => LedgerSpec
<1>1. Init => Ledger!Init
  BY DEF Init, ServerInit, Ledger!Init, Journey
<1>2. TypeInv /\ TypeInv' /\ SafeInv /\ [Next]_vars => [Ledger!Next]_(Ledger!vars)
  BY StageOfLedger, UploadOfLedger, SameIsStutter, ResumeOfLedger,
     ConcludeOfLedger, OtherOfLedger DEF Next, Process
<1> QED
  BY <1>1, <1>2, TypeCorrect, SafetyInvariant, PTL DEF Spec, LedgerSpec, Ledger!Spec
=============================================================================
