---------------------------- MODULE GeminiUpload ----------------------------
(***************************************************************************)
(* The two commands that carry one input to the Gemini Files service:      *)
(*                                                                         *)
(*   stage-upload    start a session, upload the first chunk, persist an   *)
(*                   encrypted checkpoint, write a GeminiStage proof;      *)
(*   resume-analyze  read the checkpoint, ask the server for its offset,   *)
(*                   upload the rest, finalize, poll, generate, delete the *)
(*                   remote file, delete the checkpoint, write evidence.   *)
(*                                                                         *)
(* Each runs as a process of its own and may crash between any two steps;  *)
(* what survives is the checkpoint, the two evidence files and the server. *)
(* A request and its answer are one step: the outcome says what the server *)
(* did and what the client saw, and they may differ.                       *)
(***************************************************************************)
EXTENDS UploadServer

CONSTANTS
    ChunkSize,          \* GeminiClient::chunk_size of every session
    Granular,           \* the start answer carried a chunk granularity
    MaxAttempts,        \* RetryPolicy::max_attempts
    FinalizeRepeats     \* the service answers a finalize of a final session

ASSUME ClientAssumption ==
    /\ ChunkSize \in Nat \ {0}
    /\ MaxAttempts \in Nat \ {0}
    /\ Granular \in BOOLEAN
    /\ FinalizeRepeats \in BOOLEAN

VARIABLES
    checkpoint,   \* file: the sealed session and staged_offset, or None
    staged,       \* file: the GeminiStage proof, or None
    evidence,     \* file: the last record resume-analyze wrote, or None
    pc, mode,     \* where the running process is, and which command it is
    sid, total,   \* session in use; length of the input it was given
    offset,       \* where the next or current chunk starts
    attempt,      \* attempts already made in the current retry loop
    hint,         \* ResumeOutcome::persisted_hint
    observed,     \* ResumeOutcome::observed_server_offset
    analysis,     \* result of analyze
    remote,       \* remote_cleanup_state
    cleanup,      \* checkpoint_cleanup_state
    category,     \* ResumeOutcome::failure_category
    superseded    \* history: sessions whose checkpoint was overwritten

diskVars == <<checkpoint, staged, evidence, superseded>>
outcomeVars == <<hint, observed, analysis, remote, cleanup, category>>
procVars == <<pc, mode, sid, total, offset, attempt, outcomeVars>>
vars == <<serverVars, late, faults, diskVars, procVars>>

StagePcs == {"start", "stagedQuery", "seal", "prove"}
ResumePcs == {"read", "query", "requery", "finalize", "poll", "generate",
              "delete", "remove", "report"}
UploadPcs == {"send", "ambiguous"}

EarlyFailures == {"CHECKPOINT_READ", "CHECKPOINT_DECRYPT", "QUERY_FAILED",
                  "OFFSET_BEYOND_INPUT", "OFFSET_MISALIGNED",
                  "CONTINUATION_FAILED", "FINALIZATION_FAILED"}
LateFailures == {"ANALYSIS_FAILED", "EMPTY_ANALYSIS", "REMOTE_CLEANUP_FAILED",
                 "CHECKPOINT_CLEANUP_FAILED"}
NoFailure == "NONE"
Categories == EarlyFailures \union LateFailures \union {NoFailure}

Checkpoints == [sid : Sessions, hint : Nat]

ASSUME NoneIsNoCheckpoint == None \notin Checkpoints

Reports ==
    [verdict : {"PASS", "FAIL"}, category : Categories,
     sid : Sessions \union {None}, hint : Nat, observed : Nat,
     remote : {"NOT_ATTEMPTED", "DELETED", "FAILED"},
     cleanup : {"RETAINED_FOR_RECOVERY", "DELETED", "FAILED"}]

TypeOK ==
    /\ ServerTypeOK
    /\ checkpoint \in Checkpoints \union {None}
    /\ staged \in Checkpoints \union {None}
    /\ evidence \in Reports \union {None}
    /\ pc \in {"idle"} \union StagePcs \union ResumePcs \union UploadPcs
    /\ mode \in {"idle", "stage", "resume"}
    /\ sid \in Sessions \union {None}
    /\ total \in InputLengths \union {0}
    /\ offset \in Nat
    /\ attempt \in 0 .. MaxAttempts - 1
    /\ hint \in Nat
    /\ observed \in Nat
    /\ analysis \in {"none", "ok", "empty", "failed"}
    /\ remote \in {"NOT_ATTEMPTED", "DELETED", "FAILED"}
    /\ cleanup \in {"RETAINED_FOR_RECOVERY", "DELETED", "FAILED"}
    /\ category \in Categories
    /\ superseded \subseteq Sessions

Init ==
    /\ ServerInit
    /\ checkpoint = None /\ staged = None /\ evidence = None
    /\ pc = "idle" /\ mode = "idle"
    /\ sid = None /\ total = 0
    /\ offset = 0 /\ attempt = 0
    /\ hint = 0 /\ observed = 0
    /\ analysis = "none"
    /\ remote = "NOT_ATTEMPTED"
    /\ cleanup = "RETAINED_FOR_RECOVERY"
    /\ category = NoFailure
    /\ superseded = {}

-----------------------------------------------------------------------------
(* Control flow shared by the actions. *)

Goto(label) ==
    /\ pc' = label
    /\ UNCHANGED <<mode, sid, total, offset, attempt, outcomeVars>>

(* The process ends: everything it held in memory is gone. *)
Exit ==
    /\ pc' = "idle" /\ mode' = "idle"
    /\ sid' = None /\ total' = 0
    /\ offset' = 0 /\ attempt' = 0
    /\ hint' = 0 /\ observed' = 0
    /\ analysis' = "none"
    /\ remote' = "NOT_ATTEMPTED"
    /\ cleanup' = "RETAINED_FOR_RECOVERY"
    /\ category' = NoFailure

Launch(command, label, length) ==
    /\ pc = "idle"
    /\ pc' = label /\ mode' = command /\ total' = length
    /\ UNCHANGED <<sid, offset, attempt, outcomeVars>>

(* resume-analyze gives up before a remote file is known to it. *)
GiveUpAt(reason, seen) ==
    /\ pc' = "report"
    /\ category' = reason
    /\ observed' = seen
    /\ UNCHANGED <<mode, sid, total, offset, attempt, hint, analysis, remote,
                   cleanup>>

GiveUp(reason) == GiveUpAt(reason, observed)

(* An error of upload_chunk: stage-upload exits, resume-analyze reports. *)
UploadFails ==
    IF mode = "stage" THEN Exit ELSE GiveUp("CONTINUATION_FAILED")

(* The head of the loop of continue_and_finalize, at the offset `from'. *)
ContinueFrom(from, seen) ==
    /\ pc' = IF total - from > ChunkSize THEN "send" ELSE "finalize"
    /\ offset' = from
    /\ observed' = seen
    /\ attempt' = 0
    /\ UNCHANGED <<mode, sid, total, hint, analysis, remote, cleanup, category>>

(* upload_chunk returned Ok. *)
ChunkDone ==
    \/ mode = "stage" /\ Goto("stagedQuery")
    \/ mode = "resume" /\ Granular /\ ContinueFrom(offset + ChunkSize, observed)
    \/ mode = "resume" /\ ~Granular /\ Goto("requery")

(* Variant: the attempts start over instead of running out. *)
RetryForever(label, exhausted) ==
    /\ pc' = label
    /\ attempt' = (attempt + 1) % MaxAttempts
    /\ UNCHANGED <<mode, sid, total, offset, outcomeVars>>

(* One more attempt at `label', if the retry policy has one left. *)
RetryAt(label, exhausted) ==
    IF attempt + 1 < MaxAttempts
    THEN /\ pc' = label
         /\ attempt' = attempt + 1
         /\ UNCHANGED <<mode, sid, total, offset, outcomeVars>>
    ELSE exhausted

-----------------------------------------------------------------------------
(* stage-upload *)

StartStage(length) ==
    /\ \E s \in Sessions : status[s] = "unborn"
    /\ Launch("stage", "start", length)
    /\ UNCHANGED <<serverVars, late, faults, diskVars>>

(* start_upload succeeds; an input of a single chunk is then refused. *)
OpenSession(s) ==
    /\ pc = "start"
    /\ status[s] = "unborn"
    /\ Opens(s, total)
    /\ IF total <= ChunkSize
       THEN Exit
       ELSE /\ pc' = "send" /\ sid' = s
            /\ UNCHANGED <<mode, total, offset, attempt, outcomeVars>>
    /\ NoFault
    /\ UNCHANGED <<late, diskVars>>

(* start_upload fails; the session may exist, and nobody knows its URL. *)
StartFails(s) ==
    /\ pc = "start"
    /\ status[s] = "unborn"
    /\ Fault
    /\ Opens(s, total) \/ UNCHANGED serverVars
    /\ Exit
    /\ UNCHANGED <<late, diskVars>>

(* Variant: believes that the chunk it sent was taken whole. *)
QueryStagedTrusting ==
    /\ pc = "stagedQuery"
    /\ pc' = "seal" /\ hint' = offset + ChunkSize
    /\ NoFault
    /\ UNCHANGED <<mode, sid, total, offset, attempt, observed, analysis,
                   remote, cleanup, category, serverVars, late, diskVars>>

(* The staged offset is what the server answers, not what was sent. *)
QueryStaged ==
    /\ pc = "stagedQuery"
    /\ IF received[sid] = 0
       THEN Exit
       ELSE /\ pc' = "seal" /\ hint' = received[sid]
            /\ UNCHANGED <<mode, sid, total, offset, attempt, observed,
                           analysis, remote, cleanup, category>>
    /\ NoFault
    /\ UNCHANGED <<serverVars, late, diskVars>>

QueryStagedFails ==
    /\ pc = "stagedQuery"
    /\ Fault
    /\ Exit
    /\ UNCHANGED <<serverVars, late, diskVars>>

(* write_atomic replaces whatever checkpoint the path held. *)
ReplacesCheckpoint ==
    /\ checkpoint' = [sid |-> sid, hint |-> hint]
    /\ superseded' = IF checkpoint = None THEN superseded
                     ELSE superseded \union {checkpoint.sid}

SealCheckpoint ==
    /\ pc = "seal"
    /\ ReplacesCheckpoint
    /\ Goto("prove")
    /\ NoFault
    /\ UNCHANGED <<serverVars, late, staged, evidence>>

(* The key, the seal or the write fails.  A failing fsync of the directory *)
(* leaves the new file in place.                                           *)
SealFails ==
    /\ pc = "seal"
    /\ Fault
    /\ ReplacesCheckpoint \/ UNCHANGED <<checkpoint, superseded>>
    /\ Exit
    /\ UNCHANGED <<serverVars, late, staged, evidence>>

ProveStage ==
    /\ pc = "prove"
    /\ staged' = [sid |-> sid, hint |-> hint]
    /\ Exit
    /\ NoFault
    /\ UNCHANGED <<serverVars, late, checkpoint, evidence, superseded>>

-----------------------------------------------------------------------------
(* upload_chunk, used by both commands. *)

ChunkEnd == offset + ChunkSize

(* 2xx.  A session with a granularity takes the whole chunk; without one   *)
(* the client does not rely on it.                                         *)
ChunkTaken ==
    /\ pc = "send"
    /\ Fits(sid, offset, ChunkEnd)
    /\ \E upto \in (IF Granular THEN {ChunkEnd} ELSE offset + 1 .. ChunkEnd) :
           Stores(sid, upto)
    /\ ChunkDone
    /\ NoFault
    /\ UNCHANGED <<late, diskVars>>

(* 429: nothing was taken, the chunk is sent again after a delay. *)
ChunkThrottled ==
    /\ pc = "send"
    /\ Fault
    /\ RetryAt("send", UploadFails)
    /\ UNCHANGED <<serverVars, late, diskVars>>

(* A failed or unanswered request may have left part of the chunk behind. *)
MayStoreChunk ==
    \/ UNCHANGED serverVars
    \/ StoresSome(sid, offset, ChunkEnd)

(* Variant: a 5xx is retried like a 429, without a query. *)
ChunkServerErrorBlind ==
    /\ pc = "send"
    /\ Fault
    /\ MayStoreChunk
    /\ RetryAt("send", UploadFails)
    /\ UNCHANGED <<late, diskVars>>

(* 5xx, with an attempt left: ask the server before anything else. *)
ChunkServerError ==
    /\ pc = "send"
    /\ Fault
    /\ MayStoreChunk
    /\ IF attempt + 1 < MaxAttempts THEN Goto("ambiguous") ELSE UploadFails
    /\ UNCHANGED <<late, diskVars>>

ChunkRequest == [kind |-> "upload", sid |-> sid, from |-> offset, upto |-> ChunkEnd]

(* Transport error: the request may have been taken, lost, or be late. *)
ChunkUnanswered ==
    /\ pc = "send"
    /\ Fault
    /\ \/ MayStoreChunk /\ UNCHANGED late
       \/ Delayed(ChunkRequest)
    /\ Goto("ambiguous")
    /\ UNCHANGED diskVars

(* Any other status. *)
ChunkRejected ==
    /\ pc = "send"
    /\ IF Fits(sid, offset, ChunkEnd) THEN Fault ELSE NoFault
    /\ UploadFails
    /\ UNCHANGED <<serverVars, late, diskVars>>

(* query_offset inside upload_chunk decides what became of the chunk. *)
ResolveChunk ==
    /\ pc = "ambiguous"
    /\ \/ received[sid] = ChunkEnd /\ ChunkDone
       \/ received[sid] = offset /\ RetryAt("send", UploadFails)
       \/ received[sid] \notin {offset, ChunkEnd} /\ UploadFails
    /\ NoFault
    /\ UNCHANGED <<serverVars, late, diskVars>>

ResolveFails ==
    /\ pc = "ambiguous"
    /\ Fault
    /\ UploadFails
    /\ UNCHANGED <<serverVars, late, diskVars>>

-----------------------------------------------------------------------------
(* resume-analyze, up to the finalized file. *)

StartResume(length) ==
    /\ Launch("resume", "read", length)
    /\ UNCHANGED <<serverVars, late, faults, diskVars>>

ReadCheckpoint ==
    /\ pc = "read"
    /\ checkpoint # None
    /\ pc' = "query" /\ sid' = checkpoint.sid /\ hint' = checkpoint.hint
    /\ NoFault
    /\ UNCHANGED <<mode, total, offset, attempt, observed, analysis, remote,
                   cleanup, category, serverVars, late, diskVars>>

(* No file, an unreadable one, or a key that does not open it. *)
ReadFails(reason) ==
    /\ pc = "read"
    /\ IF checkpoint = None
       THEN reason = "CHECKPOINT_READ" /\ NoFault
       ELSE reason \in {"CHECKPOINT_READ", "CHECKPOINT_DECRYPT"} /\ Fault
    /\ GiveUp(reason)
    /\ UNCHANGED <<serverVars, late, diskVars>>

(* Variant: the alignment check is missing. *)
MisalignedNever(seen) == FALSE

Misaligned(seen) == Granular /\ seen < total /\ seen % ChunkSize # 0

QueryOffset ==
    LET seen == received[sid] IN
    /\ pc = "query"
    /\ \/ seen > total /\ GiveUpAt("OFFSET_BEYOND_INPUT", seen)
       \/ seen <= total /\ Misaligned(seen) /\ GiveUpAt("OFFSET_MISALIGNED", seen)
       \/ seen <= total /\ ~Misaligned(seen) /\ ContinueFrom(seen, seen)
    /\ NoFault
    /\ UNCHANGED <<serverVars, late, diskVars>>

QueryFails ==
    /\ pc = "query"
    /\ Fault
    /\ GiveUp("QUERY_FAILED")
    /\ UNCHANGED <<serverVars, late, diskVars>>

(* Without a granularity the accepted offset is queried after each chunk. *)
Requery ==
    LET seen == received[sid] IN
    /\ pc = "requery"
    /\ IF seen > total THEN GiveUp("CONTINUATION_FAILED")
                       ELSE ContinueFrom(seen, observed)
    /\ NoFault
    /\ UNCHANGED <<serverVars, late, diskVars>>

RequeryFails ==
    /\ pc = "requery"
    /\ Fault
    /\ GiveUp("CONTINUATION_FAILED")
    /\ UNCHANGED <<serverVars, late, diskVars>>

(* A final session that answers a finalize of nothing with its file. *)
Repeats ==
    /\ FinalizeRepeats
    /\ status[sid] = "final" /\ received[sid] = offset /\ offset = total

FinalizeAnswered ==
    /\ pc = "finalize"
    /\ \/ Completes(sid, offset, total) /\ Publishes(sid)
       \/ Repeats /\ UNCHANGED serverVars
    /\ pc' = "poll" /\ attempt' = 0
    /\ NoFault
    /\ UNCHANGED <<mode, sid, total, offset, outcomeVars, late, diskVars>>

FinalizeThrottled ==
    /\ pc = "finalize"
    /\ Fault
    /\ RetryAt("finalize", GiveUp("FINALIZATION_FAILED"))
    /\ UNCHANGED <<serverVars, late, diskVars>>

(* A failed or unanswered finalize may have created the file, or have left *)
(* part of its bytes behind, or all of them without the file.              *)
MayPublish ==
    \/ UNCHANGED serverVars
    \/ StoresSome(sid, offset, total)
    \/ Completes(sid, offset, total) /\ Publishes(sid)

(* 5xx: the generic retry sends the finalize again, without a query, from  *)
(* the offset of the first attempt.                                        *)
FinalizeServerError ==
    /\ pc = "finalize"
    /\ Fault
    /\ MayPublish
    /\ RetryAt("finalize", GiveUp("FINALIZATION_FAILED"))
    /\ UNCHANGED <<late, diskVars>>

FinalizeRequest == [kind |-> "finalize", sid |-> sid, from |-> offset, upto |-> total]

(* Transport error, or an answer that does not decode. *)
FinalizeUnanswered ==
    /\ pc = "finalize"
    /\ Fault
    /\ \/ MayPublish /\ UNCHANGED late
       \/ Delayed(FinalizeRequest)
    /\ GiveUp("FINALIZATION_FAILED")
    /\ UNCHANGED diskVars

FinalizeRejected ==
    /\ pc = "finalize"
    /\ IF Completes(sid, offset, total) \/ Repeats THEN Fault ELSE NoFault
    /\ GiveUp("FINALIZATION_FAILED")
    /\ UNCHANGED <<serverVars, late, diskVars>>

-----------------------------------------------------------------------------
(* resume-analyze, from the finalized file on. *)

(* A file still PROCESSING is polled again, which changes nothing here     *)
(* until the deadline.                                                     *)
PollActive ==
    /\ pc = "poll"
    /\ file[sid] = "active"
    /\ Goto("generate")
    /\ UNCHANGED <<serverVars, late, faults, diskVars>>

Analyzed(result) ==
    /\ pc' = "delete"
    /\ analysis' = result
    /\ UNCHANGED <<mode, sid, total, offset, attempt, hint, observed, remote,
                   cleanup, category, serverVars, late, diskVars>>

(* Variant: a file that is PROCESSING is polled without a deadline. *)
PollEndsWithoutDeadline ==
    /\ pc = "poll"
    /\ IF file[sid] \in {"failed", "deleted"} THEN NoFault ELSE Fault
    /\ Analyzed("failed")

(* FAILED or gone, the deadline passed over PROCESSING, or the request     *)
(* failed.  Only the last needs a fault.                                   *)
PollEnds ==
    /\ pc = "poll"
    /\ IF file[sid] = "active" THEN Fault ELSE Fault \/ NoFault
    /\ Analyzed("failed")

Generate(result) ==
    /\ pc = "generate"
    /\ IF result = "failed" THEN Fault ELSE NoFault
    /\ Analyzed(result)

(* delete_file, whatever the analysis gave. *)
DeleteAnswered ==
    /\ pc = "delete"
    /\ Live(sid)
    /\ Erases(sid)
    /\ pc' = "remove" /\ remote' = "DELETED"
    /\ NoFault
    /\ UNCHANGED <<mode, sid, total, offset, attempt, hint, observed,
                   analysis, cleanup, category, late, diskVars>>

(* Variant: the checkpoint is removed whether or not the file was. *)
DeleteFailsCarelessly ==
    /\ pc' = "remove" /\ remote' = "FAILED"
    /\ UNCHANGED <<mode, sid, total, offset, attempt, hint, observed,
                   analysis, cleanup, category>>

DeleteFails ==
    /\ pc' = "report" /\ remote' = "FAILED"
    /\ UNCHANGED <<mode, sid, total, offset, attempt, hint, observed,
                   analysis, cleanup, category>>

MayErase == UNCHANGED serverVars \/ (Live(sid) /\ Erases(sid))

(* Variant: running out of attempts counts as deleted. *)
DeleteRetriedHopefully ==
    /\ pc = "delete"
    /\ Fault
    /\ MayErase
    /\ IF attempt + 1 < MaxAttempts
       THEN attempt' = attempt + 1 /\ UNCHANGED <<pc, remote>>
       ELSE pc' = "remove" /\ remote' = "DELETED" /\ UNCHANGED attempt
    /\ UNCHANGED <<mode, sid, total, offset, hint, observed, analysis,
                   cleanup, category, late, diskVars>>

(* 429, or 5xx with or without effect: the generic retry sends it again. *)
DeleteRetried ==
    /\ pc = "delete"
    /\ Fault
    /\ MayErase
    /\ RetryAt("delete", DeleteFails)
    /\ UNCHANGED <<late, diskVars>>

DeleteUnanswered ==
    /\ pc = "delete"
    /\ Fault
    /\ MayErase
    /\ DeleteFails
    /\ UNCHANGED <<late, diskVars>>

(* 404 once the file is gone. *)
DeleteRejected ==
    /\ pc = "delete"
    /\ ~Live(sid)
    /\ DeleteFails
    /\ NoFault
    /\ UNCHANGED <<serverVars, late, diskVars>>

(* Reached only when the remote deletion was acknowledged. *)
RemoveCheckpoint ==
    /\ pc = "remove"
    /\ pc' = "report" /\ cleanup' = "DELETED"
    /\ checkpoint' = None
    /\ NoFault
    /\ UNCHANGED <<mode, sid, total, offset, attempt, hint, observed,
                   analysis, remote, category, serverVars, late, staged,
                   evidence, superseded>>

RemoveFails ==
    /\ pc = "remove"
    /\ Fault
    /\ pc' = "report" /\ cleanup' = "FAILED"
    /\ UNCHANGED <<mode, sid, total, offset, attempt, hint, observed,
                   analysis, remote, category, serverVars, late, diskVars>>

(* Variant: only the analysis decides. *)
FailureCategoryHasty ==
    IF category # NoFailure THEN category
    ELSE IF analysis = "failed" THEN "ANALYSIS_FAILED"
    ELSE NoFailure

FailureCategory ==
    IF category # NoFailure THEN category
    ELSE IF analysis = "failed" THEN "ANALYSIS_FAILED"
    ELSE IF analysis = "empty" THEN "EMPTY_ANALYSIS"
    ELSE IF remote = "FAILED" THEN "REMOTE_CLEANUP_FAILED"
    ELSE IF cleanup = "FAILED" THEN "CHECKPOINT_CLEANUP_FAILED"
    ELSE NoFailure

(* A GeminiResume proof when nothing failed, a failed Evidence otherwise. *)
Record ==
    [verdict |-> IF FailureCategory = NoFailure THEN "PASS" ELSE "FAIL",
     category |-> FailureCategory, sid |-> sid, hint |-> hint,
     observed |-> observed, remote |-> remote, cleanup |-> cleanup]

WriteEvidence ==
    /\ pc = "report"
    /\ evidence' = Record
    /\ Exit
    /\ NoFault
    /\ UNCHANGED <<serverVars, late, checkpoint, staged, superseded>>

(* The process is killed; a failed write of a report or proof ends alike. *)
Crash ==
    /\ pc # "idle"
    /\ Fault
    /\ Exit
    /\ UNCHANGED <<serverVars, late, diskVars>>

-----------------------------------------------------------------------------
Stage ==
    \/ \E s \in Sessions : OpenSession(s) \/ StartFails(s)
    \/ QueryStaged \/ QueryStagedFails
    \/ SealCheckpoint \/ SealFails \/ ProveStage

Upload ==
    \/ ChunkTaken \/ ChunkThrottled \/ ChunkServerError \/ ChunkUnanswered
    \/ ChunkRejected \/ ResolveChunk \/ ResolveFails

Resume ==
    \/ ReadCheckpoint
    \/ \E reason \in EarlyFailures : ReadFails(reason)
    \/ QueryOffset \/ QueryFails \/ Requery \/ RequeryFails
    \/ FinalizeAnswered \/ FinalizeThrottled \/ FinalizeServerError
    \/ FinalizeUnanswered \/ FinalizeRejected

Conclude ==
    \/ PollActive \/ PollEnds
    \/ \E result \in {"ok", "empty", "failed"} : Generate(result)
    \/ DeleteAnswered \/ DeleteRetried \/ DeleteUnanswered \/ DeleteRejected
    \/ RemoveCheckpoint \/ RemoveFails \/ WriteEvidence

Process == Stage \/ Upload \/ Resume \/ Conclude

User == \E length \in InputLengths : StartStage(length) \/ StartResume(length)

Remote ==
    /\ \/ \E s \in Sessions : ServerProcesses(s)
       \/ \E request \in late : LateArrives(request)
       \/ FaultsStop
    /\ UNCHANGED <<diskVars, procVars>>

Next == User \/ Process \/ Crash \/ Remote

Spec == Init /\ [][Next]_vars

(***************************************************************************)
(* Fairness.  The runtime of a started command keeps making progress, its  *)
(* clock included; and whoever runs the commands keeps trying to resume,   *)
(* for every input infinitely often.  The service owes nothing: it need    *)
(* not process a file, and its faults need not stop.                       *)
(***************************************************************************)
Fairness ==
    /\ WF_vars(Process)
    /\ \A length \in InputLengths : SF_vars(StartResume(length))

FairSpec == Spec /\ Fairness

-----------------------------------------------------------------------------
(***************************************************************************)
(* The part of the Phase 0 gate that reads the two Gemini proofs of a row: *)
(* validate_typed_proof and validate_gemini_relationships.                 *)
(***************************************************************************)
RowAccepted ==
    /\ staged # None /\ evidence # None
    /\ evidence.verdict = "PASS"
    /\ staged.hint > 0
    /\ evidence.hint > 0
    /\ evidence.observed = evidence.hint
    /\ evidence.remote = "DELETED" /\ evidence.cleanup = "DELETED"
    /\ evidence.sid = staged.sid
    /\ evidence.hint >= staged.hint

-----------------------------------------------------------------------------
(* Properties *)

Reaches(s) == checkpoint # None /\ checkpoint.sid = s

(* While the network delays nothing, no chunk leaves for an open session   *)
(* unless the server holds exactly the bytes before it: a retry of         *)
(* upload_chunk is preceded by evidence that nothing was taken.  The same  *)
(* holds of the first attempt of a finalize; the generic retry repeats     *)
(* that one without asking, and a stale repetition is for the server to    *)
(* refuse.                                                                 *)
NoStaleReplay ==
    /\ ~LateRequests
    /\ pc = "send" \/ (pc = "finalize" /\ attempt = 0)
    /\ status[sid] = "open"
    => received[sid] = offset

(* With a server granularity every chunk with bytes in it starts on it,    *)
(* even when an earlier attempt left part of a chunk behind, in which case *)
(* resume-analyze refuses to go on (OFFSET_MISALIGNED).                    *)
AlignedContinuation ==
    Granular /\ (pc \in UploadPcs \/ (pc = "finalize" /\ offset < total))
        => offset % ChunkSize = 0

(* A persisted offset, in the checkpoint or in the stage proof, is one the *)
(* server really held, so a later process never resumes before it.         *)
HintIsLowerBound ==
    /\ checkpoint # None => checkpoint.hint \in 1 .. received[checkpoint.sid]
    /\ staged # None => staged.hint \in 1 .. received[staged.sid]

(* A remote file that still exists can be found again: the checkpoint on   *)
(* disk leads to its session, unless a later stage-upload replaced it.     *)
(* Crashes, lost answers and late finalizations included.                  *)
LiveFileIsReachable ==
    \A s \in Sessions : Live(s) => Reaches(s) \/ s \in superseded

(* A GeminiResume proof is on disk only when the remote file it is about   *)
(* is deleted and no checkpoint leads to that session any more.            *)
PassIsClean ==
    evidence # None /\ evidence.verdict = "PASS" =>
        file[evidence.sid] = "deleted" /\ ~Reaches(evidence.sid)

(* A pair of proofs the gate accepts is about one session, which took the  *)
(* whole input, was continued from the very offset that was staged, and    *)
(* left nothing behind.                                                    *)
AcceptedRowIsTrue ==
    RowAccepted =>
        /\ received[staged.sid] = declared[staged.sid]
        /\ file[staged.sid] = "deleted"
        /\ evidence.observed = staged.hint
        /\ ~Reaches(staged.sid)

(* resume-analyze lets go of a checkpoint only after its file is deleted.  *)
CheckpointReleasedLast ==
    [][checkpoint # None /\ checkpoint' = None
           => file[checkpoint.sid] = "deleted"]_vars

(* Every started command ends, though the service answers 5xx or 429 for   *)
(* ever, loses every answer or leaves the file PROCESSING: the attempts    *)
(* and the polling deadline end it.  The one assumption is that a chunk    *)
(* acknowledged with a 2xx had at least one byte taken.                    *)
CommandTerminates == pc # "idle" ~> pc = "idle"

(* When faults stop and resume-analyze is run again, a remote file does    *)
(* not stay: it is deleted, or the user has replaced its checkpoint.       *)
LiveFileEventuallyDeleted ==
    FinalizeRepeats /\ (Endless => <>Calm) =>
        \A s \in Sessions :
            Live(s) ~> (file[s] = "deleted" \/ s \in superseded)

-----------------------------------------------------------------------------
(* The inductive invariant behind LiveFileIsReachable and PassIsClean.     *)

Staging == mode = "stage" /\ pc \in UploadPcs \union {"stagedQuery", "seal"}

(* resume-analyze between reading the checkpoint and removing it. *)
Resuming ==
    \/ mode = "resume" /\ pc \in UploadPcs
    \/ pc \in ResumePcs \ {"read", "report"}

ProcessInv ==
    /\ pc \in StagePcs => mode = "stage"
    /\ pc \in ResumePcs => mode = "resume"
    /\ pc \in UploadPcs => mode \in {"stage", "resume"}
    /\ pc \notin {"idle", "start", "read", "report"} => sid \in Sessions
    /\ pc # "report" => category = NoFailure

(* A session has a file, live or deleted, exactly when it is final. *)
SessionInv ==
    /\ \A s \in Sessions : file[s] = "absent" <=> status[s] # "final"
    /\ \A r \in late : status[r.sid] # "unborn"
    /\ checkpoint # None => status[checkpoint.sid] # "unborn"

(* A session being staged cannot become final under its process. *)
StagingInv ==
    Staging =>
        /\ status[sid] = "open"
        /\ \A r \in late : r.sid = sid => r.kind = "upload"

ResumingInv ==
    /\ Resuming => Reaches(sid)
    /\ pc = "remove" => remote = "DELETED" /\ file[sid] = "deleted"

(* A finalize that is still under way is on a session somebody can find. *)
LateInv ==
    \A r \in late : r.kind = "finalize" =>
        Reaches(r.sid) \/ r.sid \in superseded \/ status[r.sid] = "final"

(* What the final report is entitled to say. *)
ReportInv ==
    pc = "report" /\ category = NoFailure =>
        /\ sid \in Sessions
        /\ remote \in {"DELETED", "FAILED"}
        /\ remote = "DELETED" =>
               /\ file[sid] = "deleted"
               /\ cleanup \in {"DELETED", "FAILED"}
               /\ cleanup = "DELETED" => checkpoint = None

PassInv ==
    evidence # None /\ evidence.verdict = "PASS" => evidence.sid \in Sessions

IInv ==
    /\ TypeOK
    /\ ProcessInv /\ SessionInv /\ StagingInv /\ ResumingInv
    /\ LateInv /\ ReportInv /\ PassInv
    /\ LiveFileIsReachable /\ PassIsClean

(***************************************************************************)
(* The commands implement UploadLedger.                                    *)
(***************************************************************************)
Journey(s) ==
    IF status[s] = "unborn" THEN "none"
    ELSE IF status[s] = "open" THEN "filling"
    ELSE IF Live(s) THEN "published"
    ELSE "discarded"

Ledger == INSTANCE UploadLedger WITH
    journey <- [s \in Sessions |-> Journey(s)],
    ticket <- IF checkpoint = None THEN None ELSE checkpoint.sid,
    abandoned <- superseded,
    certified <- IF evidence # None /\ evidence.verdict = "PASS"
                 THEN evidence.sid ELSE None

LedgerSpec == Ledger!Spec

-----------------------------------------------------------------------------
(* A statement of the documents that the code does not keep. *)

(* "Once a remote file exists, every terminal path attempts remote         *)
(* deletion": no report of resume-analyze says NOT_ATTEMPTED about a       *)
(* session whose remote file exists.                                       *)
EveryEndAttemptsDeletion ==
    pc = "report" /\ sid # None /\ Live(sid) => remote # "NOT_ATTEMPTED"
=============================================================================
