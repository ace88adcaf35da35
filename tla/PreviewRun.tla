----------------------------- MODULE PreviewRun -----------------------------
(***************************************************************************)
(* run_preview: a thread that decodes frames from an FFmpeg child, the     *)
(* event loop with its automation timers, and the end of the run, where    *)
(* the main thread cancels, joins, judges what was measured and writes the *)
(* proof.  Three judges look at that proof: the command itself, the        *)
(* verify-preview command, and the Phase 0 matrix.                         *)
(***************************************************************************)
EXTENDS PreviewBridge, Integers, Sequences

CONSTANTS
    RequestedSeconds,   \* --duration-seconds
    MaxFrames           \* bound on the frames FFmpeg emits

ASSUME PreviewAssumption ==
    /\ RequestedSeconds \in Nat \ {0}
    /\ MaxFrames \in Nat

VARIABLES
    automation,     \* --automation
    child,          \* the FFmpeg process
    cancelled,      \* the flag both threads share
    streamErrors,   \* stream_errors
    timers,         \* automation timers still to fire, in order of deadline
    hidden,         \* Metrics::hidden
    restored,       \* Metrics::restored
    sampled,        \* a resident-set sample at 20 s is in Metrics::rss_samples
    main,           \* where run_preview is
    loopFailed,     \* run_event_loop_until_quit returned an error
    proof           \* the proof on disk, or NoProof

runVars == <<automation, child, cancelled, streamErrors, timers, hidden,
             restored, sampled, main, loopFailed, proof>>
vars == <<bridgeVars, loop, reader, runVars>>

NoProof == [measured |-> -1]

(* What a run may measure, on both sides of every threshold. *)
Measured ==
    {RequestedSeconds * 1000 + d : d \in {-1001, -1000, -1, 0}}
MilliFps == {22999, 23000, 25000, 25001}
P95s == {100, 101}
Growths == {64, 65}
Unbounded == 1000000   \* stands for u64::MAX

Proofs ==
    [requested : Nat, measured : Int, fps : MilliFps, p95 : P95s,
     growth : Growths \union {Unbounded}, read : Nat, applied : Nat,
     dropped : Nat, hidden : BOOLEAN, restored : BOOLEAN,
     loopErrors : Nat, streamErrors : Nat, passed : BOOLEAN]

TypeOK ==
    /\ BridgeTypeOK
    /\ automation \in BOOLEAN
    /\ reader \in PublishPcs \union {"spawn", "read", "wait", "reap", "done"}
    /\ child \in {"none", "running", "gone"}
    /\ cancelled \in BOOLEAN
    /\ streamErrors \in Nat
    /\ timers \in Seq({"hide", "restore", "sample", "finish"})
    /\ hidden \in BOOLEAN /\ restored \in BOOLEAN /\ sampled \in BOOLEAN
    /\ main \in {"show", "loop", "stop", "join", "report", "exit", "aborted"}
    /\ loopFailed \in BOOLEAN
    /\ proof \in Proofs \union {NoProof}

Init ==
    /\ BridgeInit
    /\ automation \in BOOLEAN
    /\ reader = "spawn"
    /\ child = "none"
    /\ cancelled = FALSE
    /\ streamErrors = 0
    /\ timers = <<>>
    /\ hidden = FALSE /\ restored = FALSE /\ sampled = FALSE
    /\ main = "show"
    /\ loopFailed = FALSE
    /\ proof = NoProof

(* While the process lives, its threads do. *)
Alive == main \notin {"aborted", "exit"}

-----------------------------------------------------------------------------
(* The decoding thread: FfmpegPreview::stream_with and what follows it. *)

SpawnChild ==
    /\ reader = "spawn"
    /\ child' = "running" /\ reader' = "read"
    /\ UNCHANGED <<automation, bridgeVars, loop, cancelled, streamErrors,
                   timers, hidden, restored, sampled, main, loopFailed,
                   proof>>

StreamEndsWith(error, childAfter) ==
    /\ reader' = "done"
    /\ child' = childAfter
    /\ streamErrors' = streamErrors + (IF error THEN 1 ELSE 0)
    /\ UNCHANGED <<automation, bridgeVars, loop, cancelled, timers, hidden,
                   restored, sampled, main, loopFailed, proof>>

(* No runtime, or no FFmpeg after the retries. *)
SpawnFails ==
    reader = "spawn" /\ StreamEndsWith(TRUE, "none")

ReadFrame ==
    /\ reader = "read"
    /\ frames < MaxFrames
    /\ CountFrame
    /\ UNCHANGED runVars

(* End of file on a frame boundary: wait for the child's status. *)
ReadEnds ==
    /\ reader = "read"
    /\ reader' = "wait"
    /\ UNCHANGED <<bridgeVars, loop, runVars>>

(* A partial frame, an I/O error, a failing status or the timeout, which   *)
(* started with the thread: the child is killed and reaped.                *)
StreamFails ==
    reader \in {"read", "wait"} /\ StreamEndsWith(TRUE, "gone")

(* Variant: a cancelled stream leaves the child behind. *)
StreamCancelledLeavingChild ==
    /\ reader \in {"read", "wait"}
    /\ cancelled
    /\ StreamEndsWith(~automation, child)

(* Only an automated run expects to be cancelled. *)
StreamCancelled ==
    /\ reader \in {"read", "wait"}
    /\ cancelled
    /\ StreamEndsWith(~automation, "gone")

StreamCompletes ==
    reader = "wait" /\ StreamEndsWith(FALSE, "gone")

ReaderThread ==
    /\ Alive
    /\ \/ SpawnChild \/ SpawnFails \/ ReadFrame \/ ReadEnds \/ StreamFails
       \/ StreamCancelled \/ StreamCompletes
       \/ (Publish \/ TryQueue \/ Invoke \/ Complete) /\ UNCHANGED runVars

-----------------------------------------------------------------------------
(* The main thread, which is the UI thread while the event loop runs. *)

(* Deadlines of 100 ms, 250 ms, 20 s and the requested duration. *)
Schedule ==
    IF RequestedSeconds >= 20
    THEN <<"hide", "restore", "sample", "finish">>
    ELSE <<"hide", "restore", "finish">>

ShowWindow ==
    /\ main = "show"
    /\ main' = "loop" /\ loop' = "running"
    /\ timers' = IF automation THEN Schedule ELSE <<>>
    /\ UNCHANGED <<automation, bridgeVars, reader, child, cancelled,
                   streamErrors, hidden, restored, sampled, loopFailed,
                   proof>>

(* The `?' after show: the process exits with its decoding thread. *)
ShowFails ==
    /\ main = "show"
    /\ main' = "aborted"
    /\ UNCHANGED <<automation, bridgeVars, loop, reader, child, cancelled,
                   streamErrors, timers, hidden, restored, sampled,
                   loopFailed, proof>>

(* Hiding, showing and sampling may each fail and then leave no trace. *)
Fires(timer) ==
    /\ ui = "idle" /\ Dispatching
    /\ timers # <<>> /\ Head(timers) = timer
    /\ timers' = Tail(timers)

HideWindow ==
    /\ Fires("hide")
    /\ hidden' \in {hidden, TRUE}
    /\ UNCHANGED <<automation, bridgeVars, loop, reader, child, cancelled,
                   streamErrors, restored, sampled, main, loopFailed, proof>>

RestoreWindow ==
    /\ Fires("restore")
    /\ restored' \in {restored, TRUE}
    /\ UNCHANGED <<automation, bridgeVars, loop, reader, child, cancelled,
                   streamErrors, hidden, sampled, main, loopFailed, proof>>

SampleRss ==
    /\ Fires("sample")
    /\ sampled' \in {sampled, TRUE}
    /\ UNCHANGED <<automation, bridgeVars, loop, reader, child, cancelled,
                   streamErrors, hidden, restored, main, loopFailed, proof>>

Finish ==
    /\ Fires("finish")
    /\ cancelled' = TRUE
    /\ loop' = "quitting"
    /\ UNCHANGED <<automation, bridgeVars, reader, child, streamErrors,
                   hidden, restored, sampled, main, loopFailed, proof>>

(* Quit from the tray. *)
UserQuits ==
    /\ loop = "running" /\ ui = "idle"
    /\ loop' = "quitting"
    /\ UNCHANGED <<bridgeVars, reader, runVars>>

LoopEnds ==
    /\ ui = "idle"
    /\ \/ loop = "quitting" /\ UNCHANGED loopFailed
       \/ Dispatching /\ loopFailed' = TRUE
    /\ loop' = "ended" /\ main' = "stop"
    /\ UNCHANGED <<automation, bridgeVars, reader, child, cancelled,
                   streamErrors, timers, hidden, restored, sampled, proof>>

(* Variant: nobody tells the decoding thread. *)
StopSilently ==
    /\ main = "stop"
    /\ main' = "join"
    /\ UNCHANGED <<automation, bridgeVars, loop, reader, child, cancelled,
                   streamErrors, timers, hidden, restored, sampled,
                   loopFailed, proof>>

Stop ==
    /\ main = "stop"
    /\ cancelled' = TRUE /\ main' = "join"
    /\ UNCHANGED <<automation, bridgeVars, loop, reader, child, streamErrors,
                   timers, hidden, restored, sampled, loopFailed, proof>>

Join ==
    /\ main = "join"
    /\ reader = "done"
    /\ main' = "report"
    /\ loopErrors' = loopErrors + (IF loopFailed THEN 1 ELSE 0)
    /\ UNCHANGED <<automation, frames, slot, dropped, queued, closures, ui,
                   inHand, shown, applied, loop, reader, child, cancelled,
                   streamErrors, timers, hidden, restored, sampled,
                   loopFailed, proof>>

-----------------------------------------------------------------------------
(* The proof and its three judges. *)

(* Variant: a run without both samples has not grown. *)
RssGrowthOptimistic(complete, growth) == IF complete THEN growth ELSE 0

RssGrowth(complete, growth) == IF complete THEN growth ELSE Unbounded

(* evaluate_preview_gate *)
GatePasses(p, complete) ==
    /\ p.measured + 1000 >= p.requested
    /\ p.read > 0 /\ p.applied > 0
    /\ p.hidden /\ p.restored
    /\ p.fps \in 23000 .. 25000
    /\ p.p95 <= 100
    /\ p.growth <= 64
    /\ p.loopErrors = 0 /\ p.streamErrors = 0
    /\ complete

(* preview_accepted, of verify-preview *)
LintAccepts(p) ==
    /\ p.requested = 120000 /\ p.measured >= 120000
    /\ p.fps \in 23000 .. 25000
    /\ p.p95 <= 100
    /\ p.growth <= 64
    /\ p.read > 0 /\ p.applied > 0
    /\ p.applied + p.dropped <= p.read
    /\ p.hidden /\ p.restored
    /\ p.loopErrors = 0 /\ p.streamErrors = 0

(* validate_typed_proof; the renderer's name is never empty. *)
MatrixAccepts(p) ==
    /\ p.requested = 120000 /\ p.measured >= 120000
    /\ p.fps \in 23000 .. 25000
    /\ p.p95 <= 100
    /\ p.growth <= 64
    /\ p.read > 0 /\ p.applied > 0
    /\ p.applied + p.dropped <= p.read
    /\ p.hidden /\ p.restored
    /\ p.loopErrors = 0 /\ p.streamErrors = 0

(* Both samples: the timer's at 20 s and the one taken now. *)
Judge(measured, fps, p95, growth, complete) ==
    LET p == [requested |-> RequestedSeconds * 1000, measured |-> measured,
              fps |-> fps, p95 |-> p95, growth |-> RssGrowth(complete, growth),
              read |-> frames, applied |-> applied, dropped |-> dropped,
              hidden |-> ~automation \/ hidden,
              restored |-> ~automation \/ restored,
              loopErrors |-> loopErrors, streamErrors |-> streamErrors,
              passed |-> FALSE]
    IN  [p EXCEPT !.passed = GatePasses(p, complete)]

WriteProof ==
    /\ main = "report"
    /\ \E fps \in MilliFps, p95 \in P95s, growth \in Growths,
          complete \in {FALSE, sampled} :
         \E measured \in Measured :
            /\ timers = <<>> /\ automation
                 => measured >= RequestedSeconds * 1000
            /\ proof' = Judge(measured, fps, p95, growth, complete)
    /\ main' = "exit"
    /\ UNCHANGED <<automation, bridgeVars, loop, reader, child, cancelled,
                   streamErrors, timers, hidden, restored, sampled,
                   loopFailed>>

-----------------------------------------------------------------------------
MainThread ==
    \/ ShowWindow \/ ShowFails
    \/ HideWindow \/ RestoreWindow \/ SampleRss \/ Finish
    \/ LoopEnds \/ Stop \/ Join \/ WriteProof
    \/ UIThread /\ UNCHANGED runVars

Next == ReaderThread \/ MainThread \/ UserQuits

Spec == Init /\ [][Next]_vars

(***************************************************************************)
(* Fairness.  The event loop dispatches closures and timers and ends when  *)
(* it is asked to; the decoding thread finishes a publication it began and *)
(* notices the flag, which it polls every 10 ms.  FFmpeg owes nothing, and *)
(* the end of a run does not lean on the stream's timeout.                 *)
(***************************************************************************)
Fairness ==
    /\ WF_vars(UIThread /\ UNCHANGED runVars)
    /\ WF_vars(ShowWindow \/ ShowFails)
    /\ WF_vars(HideWindow \/ RestoreWindow \/ SampleRss \/ Finish)
    /\ WF_vars(loop = "quitting" /\ LoopEnds)
    /\ WF_vars(Stop \/ Join \/ WriteProof)
    /\ WF_vars(Alive /\ UNCHANGED runVars
                 /\ (Publish \/ TryQueue \/ Invoke \/ Complete))
    /\ WF_vars(Alive /\ (SpawnChild \/ SpawnFails))
    /\ WF_vars(Alive /\ StreamCancelled)

FairSpec == Spec /\ Fairness

-----------------------------------------------------------------------------
(* Properties *)

(* A proof is written only when the FFmpeg child is gone. *)
NoChildLeftBehind == proof # NoProof => child # "running"

(* verify-preview and the matrix agree, and accept nothing that the        *)
(* command itself reported as failed, although the command looks at facts  *)
(* (whether both samples were taken) that the proof does not hold.         *)
JudgesAgree ==
    proof # NoProof =>
        /\ LintAccepts(proof) <=> MatrixAccepts(proof)
        /\ MatrixAccepts(proof) => proof.passed

(* Only frames of the stream are in the proof, each at most once: what is  *)
(* neither applied nor dropped is the one frame the end of the run left.   *)
ProofCountsFrames ==
    proof # NoProof =>
        proof.read - (proof.applied + proof.dropped) \in 0 .. 1

(* An automated run ends, early or on time, without waiting for FFmpeg or  *)
(* for its timeout; and once somebody asks the event loop of any run to    *)
(* quit, the thread is joined and the proof written, whatever the decoding *)
(* thread is in the middle of.                                             *)
RunEnds ==
    /\ automation ~> main \in {"exit", "aborted"}
    /\ loop = "quitting" ~> main = "exit"

(* The bridge is a LatestValue display. *)
Display == INSTANCE LatestValue WITH
    offered <- Newest,
    taken <- IF inHand # 0 THEN inHand ELSE shown,
    open <- loop # "ended" /\ main # "aborted"

DisplaySpec == Display!Spec

(* The inductive invariant of a run: the bridge's, and where the loop is   *)
(* when run_preview is past it.                                            *)
RunInv ==
    /\ BridgeInv
    /\ loop \in {"starting", "ended"} => ui = "idle"
    /\ loop = "ended" <=> main \in {"stop", "join", "report", "exit"}
    /\ loop = "starting" <=> main \in {"show", "aborted"}
    /\ main \in {"report", "exit"} => reader = "done"
    /\ child = "running" => reader \notin {"spawn", "done"}
    /\ proof # NoProof => main = "exit"
=============================================================================
