------------------------- MODULE WindowRuns_proofs -------------------------
(***************************************************************************)
(* Proofs about the two commands with a window: PreviewRun, for every      *)
(* duration, with or without automation, and for any number of frames; and *)
(* TrayLifecycle, with or without a tray, automation and a user.           *)
(***************************************************************************)
EXTENDS MCWindowRuns, TLAPS

(* The initial state is well typed: nothing has been read or shown.        *)
LEMMA InitTypeOK == Init => TypeOK
<1> SUFFICES ASSUME Init PROVE TypeOK
  OBVIOUS
<1>1. /\ queued \in BOOLEAN /\ cancelled \in BOOLEAN /\ hidden \in BOOLEAN
      /\ restored \in BOOLEAN /\ sampled \in BOOLEAN /\ loopFailed \in BOOLEAN
  BY Zenon DEF Init, BridgeInit
<1> QED
  BY <1>1 DEF Init, BridgeInit, TypeOK, BridgeTypeOK, PublishPcs

(* Every step of the decoding thread keeps the types.                      *)
LEMMA ReaderType ==
  ASSUME TypeOK, ReaderThread
  PROVE  TypeOK'
<1> USE PreviewAssumption
    DEF TypeOK, BridgeTypeOK, PublishPcs, bridgeVars, runVars
<1>1. CASE SpawnChild
  BY <1>1 DEF SpawnChild
<1>2. CASE ReadFrame
  BY <1>2 DEF ReadFrame, CountFrame
<1>3. CASE ReadEnds
  BY <1>3 DEF ReadEnds
<1>4. CASE Publish /\ UNCHANGED runVars
  BY <1>4 DEF Publish
<1>5. CASE TryQueue /\ UNCHANGED runVars
  BY <1>5 DEF TryQueue
<1>6. CASE Invoke /\ UNCHANGED runVars
  BY <1>6 DEF Invoke
<1>7. CASE Complete /\ UNCHANGED runVars
  <2>1. queued' \in BOOLEAN
    BY <1>7, Zenon DEF Complete
  <2> QED
    BY <1>7, <2>1 DEF Complete
<1>8. CASE SpawnFails \/ StreamFails \/ StreamCancelled \/ StreamCompletes
  <2>1. PICK error \in BOOLEAN, after \in {"none", "gone"} : StreamEndsWith(error, after)
    BY <1>8, Zenon DEF SpawnFails, StreamFails, StreamCancelled, StreamCompletes
  <2>2. streamErrors' \in Nat
    BY <2>1 DEF StreamEndsWith
  <2> QED
    BY <2>1, <2>2 DEF StreamEndsWith
<1> QED
  BY <1>1, <1>2, <1>3, <1>4, <1>5, <1>6, <1>7, <1>8 DEF ReaderThread

(* What the command writes is a proof of the declared shape.               *)
LEMMA JudgeType ==
  ASSUME TypeOK, NEW measured \in Measured, NEW fps \in MilliFps,
         NEW p95 \in P95s, NEW growth \in Growths, NEW complete \in BOOLEAN
  PROVE  Judge(measured, fps, p95, growth, complete) \in Proofs
<1> DEFINE p == [requested |-> RequestedSeconds * 1000, measured |-> measured,
                 fps |-> fps, p95 |-> p95,
                 growth |-> RssGrowth(complete, growth),
                 read |-> frames, applied |-> applied, dropped |-> dropped,
                 hidden |-> ~automation \/ hidden,
                 restored |-> ~automation \/ restored,
                 loopErrors |-> loopErrors, streamErrors |-> streamErrors,
                 passed |-> FALSE]
<1>1. /\ (~automation \/ hidden) \in BOOLEAN
      /\ (~automation \/ restored) \in BOOLEAN
      /\ FALSE \in BOOLEAN
  BY Zenon
<1>6. GatePasses(p, complete) \in BOOLEAN
  <2> HIDE DEF p
  <2> QED
    BY DEF GatePasses
<1>2. RequestedSeconds * 1000 \in Nat /\ measured \in Int
  BY PreviewAssumption DEF Measured
<1>3. RssGrowth(complete, growth) \in Growths \union {Unbounded}
  BY DEF RssGrowth
<1>4. Judge(measured, fps, p95, growth, complete)
        = [p EXCEPT !.passed = GatePasses(p, complete)]
  BY DEF Judge
<1>5. p \in Proofs
  <2> HIDE DEF p
  <2> QED
    BY <1>1, <1>2, <1>3 DEF p, Proofs, TypeOK, BridgeTypeOK
<1> HIDE DEF p
<1> QED
  BY <1>4, <1>5, <1>6 DEF Proofs

(* Every step of the main thread keeps the types.                          *)
LEMMA MainType ==
  ASSUME TypeOK, MainThread \/ UserQuits \/ UNCHANGED vars
  PROVE  TypeOK'
<1> USE PreviewAssumption
    DEF TypeOK, BridgeTypeOK, PublishPcs, bridgeVars, runVars
<1>1. CASE ShowWindow
  <2>1. Schedule \in Seq({"hide", "restore", "sample", "finish"})
    <3>1. CASE RequestedSeconds >= 20
      BY <3>1 DEF Schedule
    <3>2. CASE ~(RequestedSeconds >= 20)
      BY <3>2 DEF Schedule
    <3> QED
      BY <3>1, <3>2
  <2>2. timers' \in Seq({"hide", "restore", "sample", "finish"})
    BY <1>1, <2>1 DEF ShowWindow
  <2> QED
    BY <1>1, <2>2 DEF ShowWindow
<1>2. CASE ShowFails
  BY <1>2 DEF ShowFails
<1>3. CASE HideWindow
  <2>1. hidden' \in BOOLEAN
    BY <1>3, Zenon DEF HideWindow
  <2>2. timers' \in Seq({"hide", "restore", "sample", "finish"})
    BY <1>3 DEF HideWindow, Fires
  <2> QED
    BY <1>3, <2>1, <2>2 DEF HideWindow
<1>4. CASE RestoreWindow
  <2>1. restored' \in BOOLEAN
    BY <1>4, Zenon DEF RestoreWindow
  <2>2. timers' \in Seq({"hide", "restore", "sample", "finish"})
    BY <1>4 DEF RestoreWindow, Fires
  <2> QED
    BY <1>4, <2>1, <2>2 DEF RestoreWindow
<1>5. CASE SampleRss
  <2>1. sampled' \in BOOLEAN
    BY <1>5, Zenon DEF SampleRss
  <2>2. timers' \in Seq({"hide", "restore", "sample", "finish"})
    BY <1>5 DEF SampleRss, Fires
  <2> QED
    BY <1>5, <2>1, <2>2 DEF SampleRss
<1>6. CASE Finish
  BY <1>6 DEF Finish, Fires
<1>7. CASE LoopEnds
  <2>1. loopFailed' \in BOOLEAN
    BY <1>7, Zenon DEF LoopEnds
  <2> QED
    BY <1>7, <2>1 DEF LoopEnds
<1>8. CASE Stop
  BY <1>8 DEF Stop
<1>9. CASE Join
  BY <1>9 DEF Join
<1>10. CASE WriteProof
  <2>1. PICK fps \in MilliFps, p95 \in P95s, growth \in Growths,
             complete \in {FALSE, sampled}, measured \in Measured :
                 proof' = Judge(measured, fps, p95, growth, complete)
    BY <1>10, ZenonT(30) DEF WriteProof
  <2>2. complete \in BOOLEAN
    BY <2>1, Zenon
  <2>3. proof' \in Proofs
    <3> HIDE DEF TypeOK
    <3> QED BY <2>1, <2>2, JudgeType
  <2> QED
    BY <1>10, <2>3 DEF WriteProof
<1>11. CASE UIThread /\ UNCHANGED runVars
  <2>1. CASE EnterClosure
    <3>1. queued' \in BOOLEAN
      BY <2>1, Zenon DEF EnterClosure
    <3> QED
      BY <1>11, <2>1, <3>1 DEF EnterClosure
  <2>2. CASE TakeFrame
    BY <1>11, <2>2 DEF TakeFrame
  <2>3. CASE ApplyFrame
    BY <1>11, <2>3 DEF ApplyFrame
  <2> QED
    BY <1>11, <2>1, <2>2, <2>3 DEF UIThread
<1>12. CASE UserQuits
  BY <1>12 DEF UserQuits
<1>13. CASE UNCHANGED vars
  BY <1>13 DEF vars
<1> QED
  BY <1>1, <1>2, <1>3, <1>4, <1>5, <1>6, <1>7, <1>8, <1>9, <1>10, <1>11,
     <1>12, <1>13 DEF MainThread

(* Every variable of the preview keeps its type, the proof on disk too.    *)
THEOREM TypeCorrect == Spec => []TypeOK
<1>1. TypeOK /\ [Next]_vars => TypeOK'
  BY ReaderType, MainType DEF Next
<1> QED
  BY InitTypeOK, <1>1, PTL DEF Spec

(* A run starts with an empty slot, a free flag and an idle event loop.    *)
LEMMA InitRunInv == Init => RunInv
  BY DEF Init, BridgeInit, RunInv, BridgeInv, SingleClosure, NoStrandedFrame,
         FramesAccounted, NewestFirst, Newest, FlagInv

(* The decoding thread: every access to the slot, the flag and the queue.  *)
LEMMA ReaderRunInv ==
  ASSUME TypeOK, RunInv, ReaderThread
  PROVE  RunInv'
<1> USE DEF RunInv, BridgeInv, SingleClosure, NoStrandedFrame, FramesAccounted,
            NewestFirst, Newest, FlagInv, TypeOK, BridgeTypeOK, PublishPcs,
            bridgeVars, runVars, Alive, ReaderThread
<1>1. CASE SpawnChild
  BY <1>1 DEF SpawnChild
<1>2. CASE ReadFrame
  BY <1>2 DEF ReadFrame, CountFrame
<1>3. CASE ReadEnds
  BY <1>3 DEF ReadEnds
<1>4. CASE Publish /\ UNCHANGED runVars
  BY <1>4 DEF Publish
<1>5. CASE TryQueue /\ UNCHANGED runVars
  BY <1>5 DEF TryQueue
<1>6. CASE Invoke /\ UNCHANGED runVars
  BY <1>6 DEF Invoke
<1>7. CASE Complete /\ UNCHANGED runVars
  <2>1. ~queued'
    BY <1>7, Zenon DEF Complete
  <2> QED
    BY <1>7, <2>1 DEF Complete
<1>8. ASSUME NEW error, NEW left \in {"none", "gone"},
             main \notin {"report", "exit"},
             reader \in {"spawn", "read", "wait"}, StreamEndsWith(error, left)
      PROVE  RunInv'
  BY <1>8 DEF StreamEndsWith
<1>9. CASE SpawnFails \/ StreamFails \/ StreamCancelled \/ StreamCompletes
  <2> main \notin {"report", "exit"}
    BY <1>9 DEF SpawnFails, StreamFails, StreamCancelled, StreamCompletes
  <2> QED
    BY <1>8, <1>9 DEF SpawnFails, StreamFails, StreamCancelled, StreamCompletes
<1> QED
  BY <1>1, <1>2, <1>3, <1>4, <1>5, <1>6, <1>7, <1>9

(* The main thread, as the UI thread and after its event loop has ended.   *)
LEMMA MainRunInv ==
  ASSUME TypeOK, RunInv, MainThread \/ UserQuits \/ UNCHANGED vars
  PROVE  RunInv'
<1> USE DEF RunInv, BridgeInv, SingleClosure, NoStrandedFrame, FramesAccounted,
            NewestFirst, Newest, FlagInv, TypeOK, BridgeTypeOK, PublishPcs,
            bridgeVars, runVars, Dispatching
<1>1. CASE ShowWindow
  BY <1>1 DEF ShowWindow
<1>2. CASE ShowFails
  BY <1>2 DEF ShowFails
<1>3. CASE HideWindow \/ RestoreWindow \/ SampleRss \/ Finish
  <2>1. CASE HideWindow
    BY <2>1 DEF HideWindow
  <2>2. CASE RestoreWindow
    BY <2>2 DEF RestoreWindow
  <2>3. CASE SampleRss
    BY <2>3 DEF SampleRss
  <2>4. CASE Finish
    BY <2>4 DEF Finish, Fires
  <2> QED
    BY <1>3, <2>1, <2>2, <2>3, <2>4
<1>4. CASE LoopEnds
  BY <1>4 DEF LoopEnds
<1>5. CASE Stop
  BY <1>5 DEF Stop
<1>6. CASE Join
  BY <1>6 DEF Join
<1>7. CASE WriteProof
  BY <1>7 DEF WriteProof
<1>8. CASE EnterClosure /\ UNCHANGED runVars
  BY <1>8 DEF EnterClosure
<1>9. CASE TakeFrame /\ UNCHANGED runVars
  BY <1>9 DEF TakeFrame
<1>10. CASE ApplyFrame /\ UNCHANGED runVars
  BY <1>10 DEF ApplyFrame
<1>11. CASE UserQuits
  BY <1>11 DEF UserQuits
<1>12. CASE UNCHANGED vars
  BY <1>12 DEF vars
<1> QED
  BY <1>1, <1>2, <1>3, <1>4, <1>5, <1>6, <1>7, <1>8, <1>9, <1>10, <1>11,
     <1>12 DEF MainThread, UIThread

(* The inductive invariant of a run, however the two threads interleave.   *)
THEOREM RunInvariant == Spec => []RunInv
<1>1. TypeOK /\ RunInv /\ [Next]_vars => RunInv'
  BY ReaderRunInv, MainRunInv DEF Next
<1> QED
  BY InitRunInv, TypeCorrect, <1>1, PTL DEF Spec

(* Never a second closure at the event loop, never a frame lost from the   *)
(* count, never an older frame shown after a newer one.                    *)
THEOREM EachFrameIsShownOnce == Spec => []EachFrameOnce
<1>1. RunInv => EachFrameOnce
  BY DEF RunInv, BridgeInv, EachFrameOnce
<1> QED
  BY <1>1, RunInvariant, PTL

(* Never a frame left in the slot that nobody will take.                   *)
THEOREM NoFrameIsStranded == Spec => []NoStrandedFrame
<1>1. RunInv => NoStrandedFrame
  BY DEF RunInv, BridgeInv
<1> QED
  BY <1>1, RunInvariant, PTL

(* No FFmpeg child survives the run whose proof is on disk.                *)
THEOREM NoChildIsLeftBehind == Spec => []NoChildLeftBehind
<1>1. RunInv => NoChildLeftBehind
  BY DEF RunInv, NoChildLeftBehind
<1> QED
  BY <1>1, RunInvariant, PTL

(* What is on disk when the process exits is what the run counted, and the *)
(* judges of the proof agree about it.                                     *)
ProofInv ==
    proof # NoProof =>
        /\ proof.read = frames /\ proof.applied = applied
        /\ proof.dropped = dropped
        /\ LintAccepts(proof) <=> MatrixAccepts(proof)
        /\ MatrixAccepts(proof) => proof.passed

(* The command passes every proof the matrix would accept: incomplete      *)
(* samples show as unbounded growth.                                       *)
LEMMA JudgeAgrees ==
  ASSUME TypeOK, NEW measured \in Measured, NEW fps \in MilliFps,
         NEW p95 \in P95s, NEW growth \in Growths, NEW complete \in BOOLEAN,
         NEW p, p = Judge(measured, fps, p95, growth, complete)
  PROVE  /\ p.read = frames /\ p.applied = applied /\ p.dropped = dropped
         /\ LintAccepts(p) <=> MatrixAccepts(p)
         /\ MatrixAccepts(p) => p.passed
<1>1. LintAccepts(p) <=> MatrixAccepts(p)
  BY DEF LintAccepts, MatrixAccepts
<1> DEFINE r ==
      [requested |-> RequestedSeconds * 1000, measured |-> measured,
       fps |-> fps, p95 |-> p95, growth |-> RssGrowth(complete, growth),
       read |-> frames, applied |-> applied, dropped |-> dropped,
       hidden |-> ~automation \/ hidden, restored |-> ~automation \/ restored,
       loopErrors |-> loopErrors, streamErrors |-> streamErrors,
       passed |-> FALSE]
<1>2. p = [r EXCEPT !.passed = GatePasses(r, complete)]
  BY DEF Judge
<1>3. /\ p.requested = r.requested /\ p.measured = r.measured
      /\ p.fps = r.fps /\ p.p95 = r.p95 /\ p.growth = r.growth
      /\ p.read = r.read /\ p.applied = r.applied /\ p.dropped = r.dropped
      /\ p.hidden = r.hidden /\ p.restored = r.restored
      /\ p.loopErrors = r.loopErrors /\ p.streamErrors = r.streamErrors
  BY <1>2
<1>4. p.passed = GatePasses(r, complete)
  <2> HIDE DEF r
  <2>1. "passed" \in DOMAIN r
    BY DEF r
  <2> QED
    BY <1>2, <2>1
<1>5. /\ r.read = frames /\ r.applied = applied /\ r.dropped = dropped
      /\ r.growth = RssGrowth(complete, growth)
      /\ r.requested = RequestedSeconds * 1000 /\ r.measured = measured
  OBVIOUS
<1> HIDE DEF r
<1>6. MatrixAccepts(p) => complete
  BY <1>3, <1>5 DEF MatrixAccepts, RssGrowth, Unbounded
<1>7. measured \in Int
  BY PreviewAssumption DEF Measured
<1>8. ASSUME MatrixAccepts(p)
      PROVE  GatePasses(r, complete)
  <2>1. p.hidden /\ p.restored
    BY <1>8, SMTT(30) DEF MatrixAccepts
  <2>2. r.hidden /\ r.restored
    BY <1>3, <2>1, Zenon
  <2>3. /\ r.requested = 120000 /\ r.measured >= 120000
        /\ r.fps \in 23000 .. 25000 /\ r.p95 <= 100 /\ r.growth <= 64
        /\ r.read > 0 /\ r.applied > 0
        /\ r.loopErrors = 0 /\ r.streamErrors = 0
    BY <1>3, <1>8, SMT DEF MatrixAccepts
  <2>4. r.measured + 1000 >= r.requested
    BY <1>5, <1>7, <2>3
  <2> QED
    BY <1>6, <1>8, <2>2, <2>3, <2>4, SMT DEF GatePasses
<1> QED
  BY <1>1, <1>3, <1>4, <1>5, <1>8

(* Nothing moves after the proof is written, and writing it establishes    *)
(* what the judges say of it.                                              *)
LEMMA ProofStep ==
  ASSUME TypeOK, RunInv, ProofInv, [Next]_vars
  PROVE  ProofInv'
<1>1. CASE WriteProof
  <2>1. /\ frames' = frames /\ applied' = applied /\ dropped' = dropped
    BY <1>1 DEF WriteProof, bridgeVars
  <2>2. PICK fps \in MilliFps, p95 \in P95s, growth \in Growths,
             complete \in {FALSE, sampled}, measured \in Measured :
               proof' = Judge(measured, fps, p95, growth, complete)
    BY <1>1, ZenonT(30) DEF WriteProof
  <2>3. complete \in BOOLEAN
    BY DEF TypeOK
  <2> DEFINE p == proof'
  <2>4. /\ p.read = frames /\ p.applied = applied /\ p.dropped = dropped
        /\ LintAccepts(p) <=> MatrixAccepts(p)
        /\ MatrixAccepts(p) => p.passed
    <3> HIDE DEF p
    <3>1. p = Judge(measured, fps, p95, growth, complete)
      BY <2>2 DEF p
    <3> QED
      BY <2>3, <3>1, JudgeAgrees
  <2> QED
    BY <2>1, <2>4 DEF ProofInv, LintAccepts, MatrixAccepts
<1>2. CASE proof # NoProof
  <2>1. main = "exit" /\ loop = "ended" /\ ui = "idle"
    BY <1>2 DEF RunInv
  <2>2. ~Next
    <3>1. ~ReaderThread
      BY <2>1 DEF ReaderThread, Alive
    <3>2. ~UserQuits
      BY <2>1 DEF UserQuits
    <3>3. ~MainThread
      BY <2>1 DEF MainThread, ShowWindow, ShowFails, HideWindow, RestoreWindow,
                  SampleRss, Finish, Fires, Dispatching, LoopEnds, Stop, Join,
                  WriteProof, UIThread, EnterClosure, TakeFrame, ApplyFrame
    <3> QED
      BY <3>1, <3>2, <3>3 DEF Next
  <2>3. UNCHANGED vars
    BY <2>2
  <2>4. /\ proof' = proof /\ frames' = frames /\ applied' = applied
        /\ dropped' = dropped
    BY <2>3 DEF vars, bridgeVars, runVars
  <2> QED
    BY <2>4 DEF ProofInv, LintAccepts, MatrixAccepts
<1>3. CASE proof = NoProof /\ ~WriteProof
  <2>1. proof' = proof
    BY <1>3 DEF Next, vars, runVars, ReaderThread, MainThread, SpawnChild,
                SpawnFails, StreamEndsWith, ReadFrame, ReadEnds, StreamFails,
                StreamCancelled, StreamCompletes, ShowWindow, ShowFails,
                HideWindow, RestoreWindow, SampleRss, Finish, UserQuits,
                LoopEnds, Stop, Join
  <2> QED
    BY <1>3, <2>1 DEF ProofInv
<1> QED
  BY <1>1, <1>2, <1>3

(* What is on disk when the process exits is what the run counted, each    *)
(* frame at most once, and no judge accepts what another refuses.          *)
THEOREM ProofIsHonest == Spec => [](JudgesAgree /\ ProofCountsFrames)
<1>1. Init => ProofInv
  BY DEF Init, ProofInv
<1>2. TypeOK /\ RunInv /\ ProofInv /\ [Next]_vars => ProofInv'
  BY ProofStep
<1>3. ProofInv => JudgesAgree
  BY DEF ProofInv, JudgesAgree
<1>4. TypeOK /\ RunInv /\ ProofInv => ProofCountsFrames
  <2> SUFFICES ASSUME TypeOK, RunInv, ProofInv, proof # NoProof
               PROVE  proof.read - (proof.applied + proof.dropped) \in 0 .. 1
    BY DEF ProofCountsFrames
  <2>1. reader = "done" /\ ui = "idle"
    BY DEF RunInv
  <2>2. inHand = 0
    BY <2>1 DEF RunInv, BridgeInv, FlagInv
  <2>3. frames = applied + dropped + (IF slot = 0 THEN 0 ELSE 1)
    BY <2>1, <2>2 DEF RunInv, BridgeInv, FramesAccounted, TypeOK, BridgeTypeOK
  <2>4. /\ proof.read = frames /\ proof.applied = applied
        /\ proof.dropped = dropped
    BY DEF ProofInv
  <2>5. frames - (applied + dropped) \in 0 .. 1
    BY <2>3 DEF TypeOK, BridgeTypeOK
  <2> QED
    BY <2>4, <2>5
<1> QED
  BY <1>1, <1>2, <1>3, <1>4, TypeCorrect, RunInvariant, PTL DEF Spec

(* A step of the decoding thread offers a frame to the display or is       *)
(* invisible to it.                                                        *)
LEMMA ReaderStepOfDisplay ==
  ASSUME TypeOK, RunInv, ReaderThread
  PROVE  [Display!Next]_(Display!vars)
<1> USE DEF Display!vars, Newest, bridgeVars, runVars
<1>1. CASE SpawnChild
  BY <1>1 DEF SpawnChild
<1>2. ASSUME NEW error, NEW left, StreamEndsWith(error, left),
             reader \in {"spawn", "read", "wait"}
      PROVE  UNCHANGED Display!vars
  BY <1>2 DEF StreamEndsWith
<1>3. CASE SpawnFails \/ StreamFails \/ StreamCancelled \/ StreamCompletes
  BY <1>2, <1>3 DEF SpawnFails, StreamFails, StreamCancelled, StreamCompletes
<1>4. CASE ReadFrame
  BY <1>4 DEF ReadFrame, CountFrame, TypeOK, BridgeTypeOK
<1>5. CASE ReadEnds
  BY <1>5 DEF ReadEnds
<1>6. CASE Publish /\ UNCHANGED runVars
  <2>1. Newest' = Newest + 1
    BY <1>6 DEF Publish, TypeOK, BridgeTypeOK
  <2>2. inHand' = inHand /\ shown' = shown /\ loop' = loop /\ main' = main
    BY <1>6 DEF Publish
  <2>3. Display!Offer
    <3> HIDE DEF Newest
    <3> QED
      BY <2>1, <2>2 DEF Display!Offer
  <2> QED
    BY <2>3 DEF Display!Next
<1>7. CASE (TryQueue \/ Invoke \/ Complete) /\ UNCHANGED runVars
  <2>1. /\ UNCHANGED <<frames, inHand, shown, loop, main>>
        /\ reader # "publish" /\ reader' # "publish"
    BY <1>7 DEF TryQueue, Invoke, Complete
  <2> QED
    BY <2>1
<1> QED
  BY <1>1, <1>3, <1>4, <1>5, <1>6, <1>7 DEF ReaderThread

(* A step of the main thread refreshes the display, closes it, or is       *)
(* invisible to it.                                                        *)
LEMMA MainStepOfDisplay ==
  ASSUME TypeOK, RunInv, MainThread \/ UserQuits \/ UNCHANGED vars
  PROVE  [Display!Next]_(Display!vars)
<1> USE DEF Display!vars, Newest, bridgeVars, runVars
<1>1. CASE UNCHANGED vars
  BY <1>1 DEF vars
<1>2. CASE \/ ShowWindow \/ UserQuits \/ HideWindow \/ RestoreWindow
           \/ SampleRss \/ Finish \/ Stop \/ Join \/ WriteProof
  <2>1. UNCHANGED <<frames, reader, inHand, shown>>
    BY <1>2 DEF ShowWindow, UserQuits, HideWindow, RestoreWindow, SampleRss,
                Finish, Stop, Join, WriteProof
  <2>2. (loop' # "ended" /\ main' # "aborted")
          = (loop # "ended" /\ main # "aborted")
    <3>1. CASE ShowWindow \/ UserQuits \/ Stop \/ Join
      BY <3>1 DEF ShowWindow, UserQuits, Stop, Join, RunInv
    <3>2. CASE HideWindow \/ RestoreWindow \/ SampleRss \/ Finish
      <4>1. \/ UNCHANGED <<loop, main>>
            \/ loop' = "quitting" /\ loop # "ended" /\ main' = main
        BY <3>2 DEF HideWindow, RestoreWindow, SampleRss, Finish, Fires, Dispatching
      <4> QED
        BY <4>1
    <3>3. CASE WriteProof
      BY <3>3, Zenon DEF WriteProof, RunInv
    <3> QED
      BY <1>2, <3>1, <3>2, <3>3
  <2> QED
    BY <2>1, <2>2
<1>3. CASE ShowFails \/ LoopEnds
  <2>1. UNCHANGED <<frames, reader, inHand, shown>>
    BY <1>3 DEF ShowFails, LoopEnds
  <2>2. (loop # "ended" /\ main # "aborted") = TRUE
    BY <1>3 DEF ShowFails, LoopEnds, Dispatching, RunInv
  <2>3. (loop' # "ended" /\ main' # "aborted") = FALSE
    BY <1>3 DEF ShowFails, LoopEnds
  <2>4. Display!Close
    BY <2>1, <2>2, <2>3 DEF Display!Close
  <2> QED
    BY <2>4 DEF Display!Next
<1>4. CASE EnterClosure /\ UNCHANGED runVars
  BY <1>4 DEF EnterClosure
<1>5. CASE TakeFrame /\ UNCHANGED runVars
  <2>1. UNCHANGED <<frames, reader, shown, loop, main>> /\ inHand' = slot
    BY <1>5 DEF TakeFrame
  <2>2. inHand = 0
    BY <1>5 DEF TakeFrame, RunInv, BridgeInv, FlagInv
  <2>3. CASE slot = 0
    BY <2>1, <2>2, <2>3
  <2>4. CASE slot # 0
    <3>1. slot = Newest /\ shown < slot
      BY <2>4 DEF RunInv, BridgeInv, NewestFirst
    <3>2. (loop # "ended" /\ main # "aborted") = TRUE
      BY <1>5 DEF TakeFrame, RunInv
    <3>3. Newest' = Newest
      BY <2>1
    <3>4. Display!Refresh
      <4> HIDE DEF Newest
      <4> QED
        BY <2>1, <2>2, <2>4, <3>1, <3>2, <3>3 DEF Display!Refresh
    <3> QED
      BY <3>4 DEF Display!Next
  <2> QED
    BY <2>3, <2>4
<1>6. CASE ApplyFrame /\ UNCHANGED runVars
  <2>1. /\ UNCHANGED <<frames, reader, loop, main>>
        /\ shown' = inHand /\ inHand' = 0
    BY <1>6 DEF ApplyFrame
  <2>2. inHand # 0
    BY <1>6 DEF ApplyFrame, RunInv, BridgeInv, FlagInv
  <2> QED
    BY <2>1, <2>2
<1> QED
  BY <1>1, <1>2, <1>3, <1>4, <1>5, <1>6 DEF MainThread, UIThread

(* The preview keeps the display's safety promise: each refresh takes the  *)
(* newest frame offered, later than any taken before, and none comes after *)
(* the window has closed.                                                  *)
THEOREM PreviewIsALatestValueDisplay ==
  Spec => Display!Init /\ [][Display!Next]_(Display!vars)
<1>1. Init => Display!Init
  BY DEF Init, BridgeInit, Display!Init, Newest
<1>2. TypeOK /\ RunInv /\ [Next]_vars => [Display!Next]_(Display!vars)
  BY ReaderStepOfDisplay, MainStepOfDisplay DEF Next
<1> QED
  BY <1>1, <1>2, TypeCorrect, RunInvariant, PTL DEF Spec

(***************************************************************************)
(* The tray lifecycle.  The timers still to fire are an end of the         *)
(* schedule; each end says what has been done and observed by then.        *)
(***************************************************************************)
FromFailsafe == <<"failsafe">>
FromQuit == <<"quit", "failsafe">>
FromLook == <<"look", "quit", "failsafe">>
FromRestore == <<"restore", "look", "quit", "failsafe">>
FromObserve == <<"observe", "restore", "look", "quit", "failsafe">>
FromClose == <<"close", "observe", "restore", "look", "quit", "failsafe">>
WarnedObserve == <<"observe", "quit", "failsafe">>
WarnedClose == <<"close", "observe", "quit", "failsafe">>

TrayEnds == {FromClose, FromObserve, FromRestore, FromLook, FromQuit,
             FromFailsafe, <<>>}
WarnedEnds == {WarnedClose, WarnedObserve, FromQuit, FromFailsafe, <<>>}

(* The end of the schedule before each timer. *)
LEMMA HeadsOfEnds ==
  /\ Head(FromClose) = "close" /\ Head(WarnedClose) = "close"
  /\ Head(FromObserve) = "observe" /\ Head(WarnedObserve) = "observe"
  /\ Head(FromRestore) = "restore" /\ Head(FromLook) = "look"
  /\ Head(FromQuit) = "quit" /\ Head(FromFailsafe) = "failsafe"
  BY DEF FromClose, WarnedClose, FromObserve, WarnedObserve, FromRestore,
         FromLook, FromQuit, FromFailsafe

(* Firing a timer leaves the next end. *)
LEMMA TailsOfEnds ==
  /\ Tail(FromClose) = FromObserve /\ Tail(WarnedClose) = WarnedObserve
  /\ Tail(FromObserve) = FromRestore /\ Tail(WarnedObserve) = FromQuit
  /\ Tail(FromRestore) = FromLook /\ Tail(FromLook) = FromQuit
  /\ Tail(FromQuit) = FromFailsafe /\ Tail(FromFailsafe) = <<>>
<1>1. Tail(FromClose) = FromObserve /\ Tail(FromObserve) = FromRestore
  BY DEF FromClose, FromObserve, FromRestore
<1>2. Tail(WarnedClose) = WarnedObserve /\ Tail(WarnedObserve) = FromQuit
  BY DEF WarnedClose, WarnedObserve, FromQuit
<1>3. Tail(FromRestore) = FromLook /\ Tail(FromLook) = FromQuit
  BY DEF FromRestore, FromLook, FromQuit
<1>4. Tail(FromQuit) = FromFailsafe /\ Tail(FromFailsafe) = <<>>
  BY DEF FromQuit, FromFailsafe
<1> QED
  BY <1>1, <1>2, <1>3, <1>4

(* The ends are told apart by what fires next, the two first ones and the  *)
(* two second ones by how much is left.                                    *)
LEMMA EndsDiffer ==
  /\ <<>> \notin {FromClose, WarnedClose, FromObserve, WarnedObserve,
                  FromRestore, FromLook, FromQuit, FromFailsafe}
  /\ FromClose # WarnedClose /\ FromObserve # WarnedObserve
  /\ {FromClose, WarnedClose} \intersect
       {FromObserve, WarnedObserve, FromRestore, FromLook, FromQuit,
        FromFailsafe} = {}
  /\ {FromObserve, WarnedObserve} \intersect
       {FromRestore, FromLook, FromQuit, FromFailsafe} = {}
  /\ FromRestore \notin {FromLook, FromQuit, FromFailsafe}
  /\ FromLook \notin {FromQuit, FromFailsafe}
  /\ FromQuit # FromFailsafe
<1>1. <<>> \notin {FromClose, WarnedClose, FromObserve, WarnedObserve,
                  FromRestore, FromLook, FromQuit, FromFailsafe}
  BY DEF FromClose, WarnedClose, FromObserve, WarnedObserve, FromRestore,
         FromLook, FromQuit, FromFailsafe
<1>2. FromClose # WarnedClose
  BY DEF FromClose, WarnedClose
<1>3. FromObserve # WarnedObserve
  BY DEF FromObserve, WarnedObserve
<1> QED
  BY <1>1, <1>2, <1>3, HeadsOfEnds

TrayTypes ==
    /\ trayMain \in {"idle", "show", "loop", "report", "ok", "failed", "aborted"}
    /\ trayAutomation \in BOOLEAN /\ fallback \in BOOLEAN
    /\ trayLoop \in {"starting", "running", "quitting", "ended"}
    /\ trayLoopFailed \in BOOLEAN
    /\ visible \in BOOLEAN /\ hand \in BOOLEAN
    /\ metrics \in Tray!TrayMetrics
    /\ story \in {"shown", "hidden", "back"}

(* Before the loop nothing has happened; after it nothing does. *)
TrayPhases ==
    /\ trayMain \in {"idle", "show", "aborted"} =>
           /\ trayTimers = <<>> /\ trayLoop = "starting" /\ ~trayLoopFailed
           /\ story = "shown" /\ ~hand
           /\ ~metrics.hidden /\ ~metrics.accessible /\ ~metrics.restored
    /\ trayMain = "loop" <=> trayLoop \in {"running", "quitting"}
    /\ trayMain \in {"report", "ok", "failed"} => trayLoop = "ended"
    /\ trayMain \in {"idle", "show", "loop", "report", "aborted"} => trayProof = Tray!NoProof
    /\ trayMain \notin {"idle", "show", "aborted"} =>
           trayTimers \in IF ~trayAutomation THEN {<<>>}
                          ELSE IF fallback THEN WarnedEnds ELSE TrayEnds

(* What a user cannot spoil. *)
TrayStory ==
    /\ fallback /\ trayMain # "idle" => metrics.warning
    /\ fallback => story = "shown"
    /\ ~visible /\ trayMain \notin {"idle", "show", "aborted"} => story # "shown"
    /\ metrics.hidden => story # "shown"
    /\ ~trayAutomation => ~metrics.hidden /\ ~metrics.accessible

(* What a callback leaves behind, whoever caused it. *)
TrayCallbacks ==
    /\ metrics.hidden \/ metrics.accessible => metrics.close_callback
    /\ metrics.restored => metrics.restore_callback
    /\ trayAutomation /\ trayMain \notin {"idle", "show", "aborted"} =>
           /\ trayTimers \notin {FromClose, WarnedClose} => metrics.close_callback
           /\ ~fallback /\ trayTimers \notin {FromClose, FromObserve, FromRestore} =>
                  metrics.restore_callback

(* What each timer has left behind when nobody else touched the window. *)
Untouched ==
    trayMain \notin {"idle", "show", "aborted"} /\ ~hand =>
        /\ visible <=> story # "hidden"
        /\ metrics.restored => visible
        /\ trayTimers = FromClose => story = "shown" /\ ~metrics.restored
        /\ trayTimers = FromObserve => story # "back" /\ ~metrics.restored
        /\ trayAutomation /\ trayTimers \notin {FromClose, WarnedClose} =>
               (metrics.close_event /\ ~fallback => story # "shown")
        /\ trayAutomation /\ trayTimers \notin {FromClose, WarnedClose, FromObserve, WarnedObserve} =>
               /\ fallback => metrics.accessible
               /\ ~fallback => (metrics.hidden <=> story # "shown")
        /\ trayAutomation /\ ~fallback /\ trayTimers \in {FromQuit, FromFailsafe, <<>>} =>
               (metrics.restored <=> visible)
        /\ trayAutomation /\ trayTimers \in {FromFailsafe, <<>>} => metrics.quit_callback
        /\ trayAutomation /\ trayLoop \in {"quitting", "ended"} /\ ~trayLoopFailed =>
               trayTimers \in {FromFailsafe, <<>>}

(* What the verdict and the proof on disk were made from. *)
TrayVerdict ==
    /\ trayMain = "ok" => Tray!Passed
    /\ trayMain = "failed" => ~Tray!Passed \/ trayProof = Tray!NoProof
    /\ trayMain = "ok" \/ trayProof # Tray!NoProof =>
           trayProof = IF fallback
                       THEN [accessible |-> metrics.accessible,
                             warning_shown |-> metrics.warning,
                             quit |-> metrics.quit_callback]
                       ELSE [hidden |-> metrics.hidden,
                             restored |-> metrics.restored,
                             quit |-> metrics.quit_callback]

TrayInv ==
    /\ TrayTypes /\ TrayPhases /\ TrayStory /\ TrayCallbacks
    /\ Untouched /\ TrayVerdict

(* Before a run nothing has happened. *)
LEMMA TrayInitInv == Tray!Init => TrayInv
<1> SUFFICES ASSUME Tray!Init PROVE TrayInv
  OBVIOUS
<1> USE DEF Tray!Init
<1>1. TrayTypes
  BY DEF TrayTypes, Tray!TrayMetrics
<1>2. TrayPhases /\ TrayStory
  BY DEF TrayPhases, TrayStory
<1>3. TrayCallbacks /\ Untouched /\ TrayVerdict
  BY DEF TrayCallbacks, Untouched, TrayVerdict
<1> QED
  BY <1>1, <1>2, <1>3 DEF TrayInv

(* A run starts with the whole schedule, or with no timer at all.          *)
LEMMA TrayStartKeepsInv ==
  ASSUME TrayInv, Tray!Launch \/ Tray!Show \/ Tray!ShowFails
  PROVE  TrayInv'
<1> USE HeadsOfEnds, TailsOfEnds, EndsDiffer
    DEF TrayInv, TrayTypes, TrayPhases, TrayStory, TrayCallbacks, Untouched,
        TrayVerdict, TrayEnds, WarnedEnds, Tray!TrayMetrics, Tray!Fires, Tray!Dispatching,
        Tray!Hides, Tray!Shows, Tray!Stays
<1>1. CASE Tray!Launch
  BY <1>1 DEF Tray!Launch
<1>2. CASE Tray!Show
  BY <1>2 DEF Tray!Show, Tray!Schedule, FromClose, WarnedClose
<1>3. CASE Tray!ShowFails
  BY <1>3 DEF Tray!ShowFails
<1> QED
  BY <1>1, <1>2, <1>3

(* Each timer adds what its end of the schedule is known by.               *)
LEMMA TimerKeepsInv ==
  ASSUME TrayInv, Tray!TimerFires
  PROVE  TrayInv'
<1> USE HeadsOfEnds, TailsOfEnds, EndsDiffer
    DEF TrayInv, TrayTypes, TrayPhases, TrayStory, TrayCallbacks, Untouched,
        TrayVerdict, TrayEnds, WarnedEnds, Tray!TrayMetrics, Tray!Fires, Tray!Dispatching,
        Tray!Hides, Tray!Shows, Tray!Stays
<1>1. CASE Tray!CloseByTimer
  <2> USE <1>1 DEF Tray!CloseByTimer, Tray!CloseRequested
  <2>1. TrayTypes'
    OBVIOUS
  <2>2. TrayPhases'
    OBVIOUS
  <2>3. TrayStory'
    OBVIOUS
  <2>4. TrayCallbacks'
    OBVIOUS
  <2>5. Untouched'
    OBVIOUS
  <2>6. TrayVerdict'
    OBVIOUS
  <2> QED
    BY <2>1, <2>2, <2>3, <2>4, <2>5, <2>6
<1>2. CASE Tray!Observe
  <2> USE <1>2 DEF Tray!Observe
  <2>1. TrayTypes'
    OBVIOUS
  <2>2. TrayPhases'
    OBVIOUS
  <2>3. TrayStory'
    OBVIOUS
  <2>4. TrayCallbacks'
    OBVIOUS
  <2>5. Untouched'
    <3>1. CASE fallback
      <4>1. trayTimers = WarnedObserve /\ trayTimers' = FromQuit /\ trayAutomation
        BY <3>1
      <4> QED
        BY <3>1, <4>1
    <3>2. CASE ~fallback
      <4>1. trayTimers = FromObserve /\ trayTimers' = FromRestore /\ trayAutomation
        BY <3>2
      <4> QED
        BY <3>2, <4>1
    <3> QED
      BY <3>1, <3>2
  <2>6. TrayVerdict'
    OBVIOUS
  <2> QED
    BY <2>1, <2>2, <2>3, <2>4, <2>5, <2>6
<1>3. CASE Tray!RestoreByTimer
  <2> USE <1>3 DEF Tray!RestoreByTimer, Tray!Restore
  <2>1. TrayTypes'
    OBVIOUS
  <2>2. TrayPhases'
    OBVIOUS
  <2>3. TrayStory'
    OBVIOUS
  <2>4. TrayCallbacks'
    OBVIOUS
  <2>5. Untouched'
    <3>1. trayAutomation /\ ~fallback /\ trayTimers = FromRestore /\ trayTimers' = FromLook
      OBVIOUS
    <3>2. trayMain' = "loop" /\ UNCHANGED <<trayAutomation, fallback, trayLoop, trayLoopFailed, hand>>
      OBVIOUS
    <3>3. metrics'.restore_callback
      OBVIOUS
    <3>4. /\ metrics'.close_callback = metrics.close_callback
          /\ metrics'.close_event = metrics.close_event
          /\ metrics'.hidden = metrics.hidden
      OBVIOUS
    <3>5. \/ UNCHANGED <<visible, story>> /\ metrics'.restored = metrics.restored
          \/ visible' /\ story' = IF story = "hidden" THEN "back" ELSE story
      OBVIOUS
    <3> HIDE <1>3 DEF Tray!RestoreByTimer, Tray!Restore, Tray!Fires
    <3>6. CASE hand
      BY <3>2, <3>6
    <3>7. CASE ~hand
      <4>1. (visible <=> story # "hidden") /\ (metrics.restored => visible)
            /\ (metrics.hidden <=> story # "shown") /\ metrics.close_callback
            /\ (metrics.close_event => story # "shown")
        BY <3>1, <3>7
      <4>2. trayLoop' \in {"quitting", "ended"} /\ ~trayLoopFailed' => FALSE
        BY <3>1, <3>2, <3>7
      <4>3. (visible' <=> story' # "hidden") /\ (metrics'.restored => visible')
            /\ (metrics'.hidden <=> story' # "shown")
            /\ (metrics'.close_event => story' # "shown")
        BY <3>4, <3>5, <4>1
      <4> QED
        BY <3>1, <3>2, <3>3, <3>4, <4>1, <4>2, <4>3
    <3> QED
      BY <3>6, <3>7
  <2>6. TrayVerdict'
    OBVIOUS
  <2> QED
    BY <2>1, <2>2, <2>3, <2>4, <2>5, <2>6
<1>4. CASE Tray!Look
  <2> USE <1>4 DEF Tray!Look
  <2>1. TrayTypes'
    OBVIOUS
  <2>2. TrayPhases'
    OBVIOUS
  <2>3. TrayStory'
    OBVIOUS
  <2>4. TrayCallbacks'
    OBVIOUS
  <2>5. Untouched'
    <3>1. trayAutomation /\ ~fallback /\ trayTimers = FromLook /\ trayTimers' = FromQuit
      OBVIOUS
    <3>2. trayMain' = "loop" /\ UNCHANGED <<trayAutomation, fallback, trayLoop, trayLoopFailed, hand, visible, story>>
      OBVIOUS
    <3>3. /\ metrics'.close_callback = metrics.close_callback
          /\ metrics'.close_event = metrics.close_event
          /\ metrics'.hidden = metrics.hidden
          /\ metrics'.restore_callback = metrics.restore_callback
          /\ metrics'.restored = visible
      OBVIOUS
    <3> HIDE <1>4 DEF Tray!Look, Tray!Fires
    <3> QED
      BY <3>1, <3>2, <3>3
  <2>6. TrayVerdict'
    OBVIOUS
  <2> QED
    BY <2>1, <2>2, <2>3, <2>4, <2>5, <2>6
<1>5. CASE Tray!QuitByTimer
  BY <1>5 DEF Tray!QuitByTimer, Tray!Quit
<1>6. CASE Tray!Failsafe
  BY <1>6 DEF Tray!Failsafe
<1> QED
  BY <1>1, <1>2, <1>3, <1>4, <1>5, <1>6 DEF Tray!TimerFires

(* A user spoils none of what is claimed in spite of one.                  *)
LEMMA UserKeepsInv ==
  ASSUME TrayInv, Tray!User
  PROVE  TrayInv'
<1> USE HeadsOfEnds, TailsOfEnds, EndsDiffer
    DEF TrayInv, TrayTypes, TrayPhases, TrayStory, TrayCallbacks, Untouched,
        TrayVerdict, TrayEnds, WarnedEnds, Tray!TrayMetrics, Tray!Fires, Tray!Dispatching,
        Tray!Hides, Tray!Shows, Tray!Stays
<1>1. CASE Tray!UserCloses
  BY <1>1 DEF Tray!UserCloses, Tray!CloseRequested
<1>2. CASE Tray!UserRestores
  BY <1>2 DEF Tray!UserRestores, Tray!Restore
<1>3. CASE Tray!UserQuits
  BY <1>3 DEF Tray!UserQuits, Tray!Quit
<1> QED
  BY <1>1, <1>2, <1>3 DEF Tray!User

(* The verdict and the proof are made from the same metrics.               *)
LEMMA EndKeepsInv ==
  ASSUME TrayInv, Tray!LoopEnds \/ Tray!WriteProof \/ Tray!WriteFails
  PROVE  TrayInv'
<1> USE HeadsOfEnds, TailsOfEnds, EndsDiffer
    DEF TrayInv, TrayTypes, TrayPhases, TrayStory, TrayCallbacks, Untouched,
        TrayVerdict, TrayEnds, WarnedEnds, Tray!TrayMetrics, Tray!Fires, Tray!Dispatching,
        Tray!Hides, Tray!Shows, Tray!Stays
<1>1. CASE Tray!LoopEnds
  <2> USE <1>1 DEF Tray!LoopEnds
  <2>1. TrayTypes'
    <3>1. trayLoopFailed' \in BOOLEAN
      BY Zenon
    <3> QED
      BY <3>1
  <2>2. TrayPhases'
    OBVIOUS
  <2>3. TrayStory'
    OBVIOUS
  <2>4. TrayCallbacks'
    OBVIOUS
  <2>5. Untouched'
    OBVIOUS
  <2>6. TrayVerdict'
    OBVIOUS
  <2> QED
    BY <2>1, <2>2, <2>3, <2>4, <2>5, <2>6
<1>2. CASE Tray!WriteProof
  BY <1>2 DEF Tray!WriteProof, Tray!Passed
<1>3. CASE Tray!WriteFails
  BY <1>3 DEF Tray!WriteFails
<1> QED
  BY <1>1, <1>2, <1>3

(* A behaviour of both commands is one of the tray and one of the preview.  *)
LEMMA WindowStep ==
  WindowNext \/ UNCHANGED <<vars, trayVars>> =>
    [Next]_vars /\ [Tray!Next]_(Tray!vars)
  BY DEF WindowNext, trayVars, Tray!vars

(* What holds of the tray run at every moment.                             *)
THEOREM TrayInvariant == WindowSpec => []TrayInv
<1>1. TrayInv /\ UNCHANGED Tray!vars => TrayInv'
  BY DEF Tray!vars, TrayInv, TrayTypes, TrayPhases, TrayStory, TrayCallbacks,
         Untouched, TrayVerdict, Tray!Passed
<1>2. TrayInv /\ [WindowNext]_<<vars, trayVars>> => TrayInv'
  BY <1>1, WindowStep, TrayStartKeepsInv, TimerKeepsInv, UserKeepsInv,
     EndKeepsInv DEF Tray!Next
<1> QED
  BY TrayInitInv, <1>2, PTL DEF WindowSpec, WindowInit

(* A PASS is of an automated run; without a tray its window was never      *)
(* hidden, with one it was hidden and, unless a user took part, shown      *)
(* again.                                                                  *)
THEOREM TrayPassIsAlwaysEarned == WindowSpec => []TrayPassIsEarned
<1>1. TrayInv => TrayPassIsEarned
  <2> SUFFICES ASSUME TrayInv PROVE Tray!PassIsEarned
    BY DEF TrayPassIsEarned
  <2>1. fallback => story = "shown"
    BY DEF TrayInv, TrayStory
  <2>2. ASSUME trayMain = "ok"
        PROVE  trayAutomation /\ (~fallback => story = "back" \/ (hand /\ story = "hidden"))
    <3>1. /\ fallback => metrics.accessible
          /\ ~fallback => metrics.hidden /\ metrics.restored
      BY <2>2 DEF TrayInv, TrayVerdict, Tray!Passed
    <3>2. trayAutomation
      BY <3>1 DEF TrayInv, TrayStory
    <3>3. ~fallback => story \in {"hidden", "back"}
      BY <3>1 DEF TrayInv, TrayTypes, TrayStory
    <3>4. ~fallback /\ ~hand => story # "hidden"
      BY <2>2, <3>1 DEF TrayInv, Untouched
    <3> QED
      BY <3>2, <3>3, <3>4
  <2> QED
    BY <2>1, <2>2 DEF Tray!PassIsEarned
<1> QED
  BY <1>1, TrayInvariant, PTL

(* An automated run nobody touches fails only because a window could not   *)
(* be hidden or shown, the loop broke or was held up, or no proof was made.*)
THEOREM TrayFailureHasItsCause == WindowSpec => []TrayFailureHasACause
<1>1. TrayInv => TrayFailureHasACause
  <2> SUFFICES ASSUME TrayInv, trayMain = "failed", trayAutomation, ~hand,
                      metrics.close_event, fallback \/ story # "hidden",
                      ~trayLoopFailed, ~metrics.failsafe,
                      trayProof # Tray!NoProof
               PROVE  Tray!Passed
    BY DEF TrayFailureHasACause, Tray!FailureHasACause, TrayInv, TrayVerdict
  <2>1. trayLoop = "ended"
    BY DEF TrayInv, TrayPhases
  <2>2. trayTimers \in {FromFailsafe, <<>>}
    BY <2>1 DEF TrayInv, Untouched
  <2>3. trayTimers \notin {FromClose, WarnedClose, FromObserve, WarnedObserve}
    BY <2>2, EndsDiffer
  <2>4. metrics.close_callback /\ metrics.quit_callback
    BY <2>2, <2>3 DEF TrayInv, TrayCallbacks, Untouched
  <2>5. fallback => metrics.accessible /\ metrics.warning
    BY <2>3 DEF TrayInv, Untouched, TrayStory
  <2>6. ~fallback => metrics.hidden /\ metrics.restore_callback /\ metrics.restored
    <3> SUFFICES ASSUME ~fallback
                 PROVE  metrics.hidden /\ metrics.restore_callback /\ metrics.restored
      OBVIOUS
    <3>1. visible /\ story # "shown"
      BY <2>3 DEF TrayInv, Untouched
    <3>2. metrics.hidden
      BY <2>3, <3>1 DEF TrayInv, Untouched
    <3>3. metrics.restore_callback /\ metrics.restored
      BY <2>2, <2>3, <3>1, EndsDiffer DEF TrayInv, TrayCallbacks, Untouched
    <3> QED
      BY <3>2, <3>3
  <2> QED
    BY <2>4, <2>5, <2>6 DEF Tray!Passed
<1> QED
  BY <1>1, TrayInvariant, PTL

(* The matrix accepts every proof of a PASS, and a proof of a FAIL only if *)
(* the failsafe fired or the loop broke.                                   *)
THEOREM TrayProofAgreesWithVerdict == WindowSpec => []TrayProofAndVerdict
<1>1. TrayInv => TrayProofAndVerdict
  <2> SUFFICES ASSUME TrayInv PROVE Tray!ProofAndVerdict
    BY DEF TrayProofAndVerdict
  <2> DEFINE Made == IF fallback
                     THEN [accessible |-> metrics.accessible,
                           warning_shown |-> metrics.warning,
                           quit |-> metrics.quit_callback]
                     ELSE [hidden |-> metrics.hidden,
                           restored |-> metrics.restored,
                           quit |-> metrics.quit_callback]
  <2>1. Made # Tray!NoProof
    BY DEF Tray!NoProof
  <2>2. trayMain = "ok" => Tray!Passed /\ trayProof = Made
    BY DEF TrayInv, TrayVerdict
  <2>3. trayMain = "ok" => Tray!MatrixAccepts
    BY <2>1, <2>2 DEF Tray!MatrixAccepts, Tray!Passed
  <2>4. ASSUME Tray!MatrixAccepts, trayMain = "failed"
        PROVE  metrics.failsafe \/ trayLoopFailed
    <3>1. trayProof = Made /\ ~Tray!Passed
      BY <2>4 DEF Tray!MatrixAccepts, TrayInv, TrayVerdict
    <3>2. /\ IF fallback THEN metrics.accessible /\ metrics.warning
             ELSE metrics.hidden /\ metrics.restored
          /\ metrics.quit_callback
      BY <2>4, <3>1 DEF Tray!MatrixAccepts
    <3>3. metrics.close_callback /\ (~fallback => metrics.restore_callback)
      BY <3>2 DEF TrayInv, TrayCallbacks
    <3> QED
      BY <3>1, <3>2, <3>3 DEF Tray!Passed
  <2> QED
    BY <2>3, <2>4 DEF Tray!ProofAndVerdict
<1> QED
  BY <1>1, TrayInvariant, PTL

(* A run of both commands is a run of the preview: what is proved of the   *)
(* preview alone holds of it.                                              *)
THEOREM WindowRunsArePreviewRuns == WindowSpec => Init /\ [][Next]_vars
  BY WindowStep, PTL DEF WindowSpec, WindowInit
=============================================================================
