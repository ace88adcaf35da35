------------------------- MODULE MediaCommands_proofs -------------------------
(***************************************************************************)
(* What the proofs of the media commands are worth, for any hardware and   *)
(* any number of commands, each stopped anywhere.                          *)
(***************************************************************************)
EXTENDS MediaCommands, TLAPS

USE BackendAssumption, RunsAssumption

-----------------------------------------------------------------------------
(* The inductive invariant *)

(* Where a command can be.  A self-test gets no further than validation:   *)
(* its contract asks for streams that no hardware attempt writes.          *)
Phases(c) ==
    CASE c = "fixture" -> {"encode", "validate", "accept"}
      [] c = "self_test" ->
           {"preflight", "encode", "probe", "observe", "read", "validate"}
      [] c = "forced_fallback" ->
           {"encode", "probe", "observe", "cpu", "build_id", "validate",
            "accept", "read", "write"}
      [] OTHER -> {"cpu", "build_id", "validate", "accept", "read", "write"}

JobInv ==
    /\ pc # "idle" =>
         /\ cmd \in Commands /\ pc \in Phases(cmd)
         /\ run \in 1..MaxRuns /\ lastRun[cmd] = run
         /\ cmd # "cpu_fallback" => backend \in Hardware
         /\ cmd = "cpu_fallback" => attempt = "none"
    /\ pc = "observe" => attempt # "none"
    /\ cmd = "forced_fallback"
       /\ pc \in {"cpu", "build_id", "validate", "accept", "read", "write"} =>
         attempt \in Failures
    /\ \A c \in Commands : lastRun[c] <= run

(* A policy is followed by two commands, and says which backend is next,   *)
(* or which one it was.                                                    *)
PolicyInv ==
    pc # "idle" =>
        /\ cmd \in {"fixture", "cpu_fallback"} => policy = None
        /\ cmd \in {"self_test", "forced_fallback"} =>
             /\ policy \in Policies /\ policy.requested = backend
             /\ pc \in {"preflight", "encode", "probe", "observe"} =>
                  policy.scheduled = backend
        /\ cmd = "self_test" /\ pc \in {"read", "validate"} => policy.actual = backend
        /\ cmd = "forced_fallback" =>
             /\ pc \in {"cpu", "build_id", "validate", "accept"} =>
                  policy.scheduled = Cpu
             /\ pc \in {"read", "write"} => policy.actual = Cpu

(* The output is of this run, written by this backend and ended so.        *)
Fresh(by, hows) ==
    /\ files[cmd] \in Files
    /\ files[cmd].run = run /\ files[cmd].by = by /\ files[cmd].how \in hows
    /\ by # Cpu => files[cmd].streams = "h264_aac"

ByHardware ==
    \/ pc = "probe"
    \/ pc = "observe" /\ attempt = "succeeded"
    \/ cmd = "self_test" /\ pc \in {"read", "validate"}

ByCpu ==
    /\ cmd \in {"forced_fallback", "cpu_fallback"}
    /\ pc \in {"build_id", "validate", "accept", "read", "write"}

OutputInv ==
    /\ ByHardware => Fresh(backend, {"exited", "ended"})
    /\ ByCpu => Fresh(Cpu, {"ended"})
    /\ pc = "write" => bytes = files[cmd]
    /\ pc \in {"accept", "write"} \/ (cmd # "self_test" /\ pc = "read") =>
         /\ report = files[cmd] /\ report \in Files
         /\ report.halves > 0 /\ report.streams = Contract(cmd)

(* What a proof on disk says of its output. *)
Earned(c) ==
    /\ proof[c].run <= run
    /\ cmd = c /\ pc # "idle" => proof[c].run < run
    /\ proof[c].sha.run = proof[c].run
    /\ proof[c].actual = Cpu
    /\ EncodedAndProbed(proof[c])
    /\ c = "forced_fallback" => proof[c].failed = proof[c].requested
    /\ lastRun[c] = proof[c].run => files[c] = proof[c].sha
    /\ c = "cpu_fallback" => proof[c].seconds = Rounded(proof[c].sha.halves)

ProofInv ==
    /\ proof["self_test"] = None
    /\ \A c \in Proving : proof[c] # None => Earned(c)

MediaInv == TypeOK /\ JobInv /\ PolicyInv /\ OutputInv /\ ProofInv

-----------------------------------------------------------------------------
(* Rounding *)

LEMMA RoundedIsSeconds ==
    ASSUME NEW h \in Halves
    PROVE  Rounded(h) \in 0..10 /\ (Rounded(h) >= 10 => h > 18)
  BY DEF Halves, Rounded

(* What FFmpeg writes is a file of this run, at the command's own output.  *)
LEMMA WritesOwnOutput ==
    ASSUME TypeOK, cmd \in Commands, run \in 1..MaxRuns,
           NEW by \in Backends, NEW how \in {"failed", "exited", "ended"},
           Writes(by, how)
    PROVE  /\ files' \in [Commands -> Files \union {None}]
           /\ files'[cmd] \in Files
           /\ files'[cmd].run = run /\ files'[cmd].by = by /\ files'[cmd].how = how
           /\ by # Cpu => files'[cmd].streams = "h264_aac"
           /\ \A c \in Commands \ {cmd} : files'[c] = files[c]
  <1>1. PICK h \in Halves :
          files' = [files EXCEPT ![cmd] =
            [by |-> by, run |-> run, halves |-> h, how |-> how,
             streams |-> IF by = Cpu THEN "vp9_opus" ELSE "h264_aac"]]
    BY DEF Writes
  <1>2. [by |-> by, run |-> run, halves |-> h, how |-> how,
         streams |-> IF by = Cpu THEN "vp9_opus" ELSE "h264_aac"] \in Files
    BY DEF Files, Streams
  <1>3. files \in [Commands -> Files \union {None}]
    BY DEF TypeOK
  <1> QED
    BY <1>1, <1>2, <1>3

LEMMA SpoilsOwnOutput ==
    ASSUME TypeOK, cmd \in Commands, run \in 1..MaxRuns,
           NEW by \in Backends, Spoils(by)
    PROVE  /\ files' \in [Commands -> Files \union {None}]
           /\ \A c \in Commands \ {cmd} : files'[c] = files[c]
  <1>1. CASE UNCHANGED files
    BY <1>1 DEF TypeOK
  <1>2. CASE Writes(by, "failed")
    BY <1>2, WritesOwnOutput
  <1> QED  BY <1>1, <1>2 DEF Spoils

(* A command that ends keeps the invariant, whatever it leaves in its own  *)
(* output, as long as it has written no proof.                             *)
LEMMA EndKeepsInv ==
    ASSUME MediaInv, pc # "idle", NEW v \in {"refused", "broken", "passed"},
           Ends(v), UNCHANGED proof,
           files' \in [Commands -> Files \union {None}],
           \A c \in Commands \ {cmd} : files'[c] = files[c],
           backend' = backend, attempt' = attempt, speed' = speed,
           bytes' = bytes, report' = report,
           policy' \in Policies \union {None}
    PROVE  MediaInv'
  <1> USE DEF MediaInv, Ends
  <1>1. TypeOK'
    BY DEF TypeOK
  <1>2. JobInv'
    BY DEF JobInv
  <1>3. PolicyInv'
    BY DEF PolicyInv
  <1>4. OutputInv'
    BY DEF OutputInv, ByHardware, ByCpu
  <1>5. ProofInv'
    <2> SUFFICES ASSUME NEW c \in Proving, proof[c] # None
                 PROVE  Earned(c)'
      BY DEF ProofInv, MediaInv
    <2>1. Earned(c) /\ c \in Commands
      BY DEF ProofInv, Proving
    <2>2. CASE c = cmd
      BY <2>1, <2>2 DEF Earned, JobInv, TypeOK, Proofs
    <2>3. CASE c # cmd
      BY <2>1, <2>3 DEF Earned
    <2> QED  BY <2>2, <2>3
  <1> QED  BY <1>1, <1>2, <1>3, <1>4, <1>5

(* A command that goes on without a proof keeps those on disk true.        *)
LEMMA GoKeepsProofs ==
    ASSUME MediaInv, pc # "idle", pc' # "idle",
           UNCHANGED <<run, cmd, lastRun, proof>>,
           \A c \in Commands \ {cmd} : files'[c] = files[c]
    PROVE  ProofInv'
  <1> SUFFICES ASSUME NEW c \in Proving, proof[c] # None
               PROVE  Earned(c)'
    BY DEF ProofInv, MediaInv
  <1>1. Earned(c) /\ c \in Commands
    BY DEF ProofInv, Proving, MediaInv
  <1>2. CASE c = cmd
    BY <1>1, <1>2 DEF Earned, JobInv, TypeOK, Proofs, MediaInv
  <1>3. CASE c # cmd
    BY <1>1, <1>3 DEF Earned
  <1> QED  BY <1>2, <1>3

-----------------------------------------------------------------------------
(* The steps *)

LEMMA InitMediaInv == Init => MediaInv
  <1> SUFFICES ASSUME Init PROVE MediaInv
    OBVIOUS
  <1> USE DEF Init
  <1>1. TypeOK
    <2>1. run \in 0..MaxRuns /\ lastRun \in [Commands -> 0..MaxRuns]
      OBVIOUS
    <2>2. proof \in [Proving -> Proofs \union {None}]
      OBVIOUS
    <2> QED  BY <2>1, <2>2 DEF TypeOK
  <1>2. JobInv /\ PolicyInv /\ OutputInv /\ ProofInv
    BY DEF JobInv, PolicyInv, OutputInv, ByHardware, ByCpu, ProofInv, Proving,
           Commands
  <1> QED  BY <1>1, <1>2 DEF MediaInv

LEMMA BeginKeepsInv ==
    ASSUME MediaInv, NEW c \in Commands, NEW b \in Hardware, Begin(c, b)
    PROVE  MediaInv'
  <1> USE DEF MediaInv, Begin, jobVars, diskVars
  <1>1. /\ NewPolicy(b, FALSE) \in Policies /\ NewPolicy(b, FALSE).scheduled = b
        /\ NewPolicy(b, FALSE).requested = b
    BY DEF NewPolicy, Policies, Codes, Backends
  <1>2. /\ First(c) \in Phases(c) /\ First(c) \in {"preflight", "encode", "cpu"}
        /\ c = "forced_fallback" => First(c) = "encode"
    BY DEF First, Phases, Commands
  <1>3. run' \in 1..MaxRuns /\ run' = run + 1 /\ run \in Nat
    BY DEF TypeOK
  <1>4. lastRun' \in [Commands -> 0..MaxRuns] /\ lastRun'[c] = run'
        /\ \A d \in Commands \ {c} : lastRun'[d] = lastRun[d]
    BY <1>3 DEF TypeOK
  <1>5. TypeOK'
    BY <1>1, <1>2, <1>3, <1>4 DEF TypeOK
  <1>6. JobInv'
    BY <1>2, <1>3, <1>4 DEF JobInv, TypeOK
  <1>7. PolicyInv'
    BY <1>1, <1>2 DEF PolicyInv, First, Commands
  <1>8. OutputInv'
    BY <1>2 DEF OutputInv, ByHardware, ByCpu
  <1>9. ProofInv'
    <2> SUFFICES ASSUME NEW d \in Proving, proof[d] # None
                 PROVE  Earned(d)'
      BY DEF ProofInv
    <2>1. Earned(d) /\ d \in Commands /\ proof[d].run \in 1..MaxRuns
      BY DEF ProofInv, Proving, TypeOK, Proofs
    <2>2. proof'[d] = proof[d] /\ files'[d] = files[d]
      OBVIOUS
    <2>3. CASE d = c
      BY <2>1, <2>2, <2>3, <1>3, <1>4 DEF Earned
    <2>4. CASE d # c
      BY <2>1, <2>2, <2>4, <1>3, <1>4 DEF Earned
    <2> QED  BY <2>3, <2>4
  <1> QED  BY <1>5, <1>6, <1>7, <1>8, <1>9

(* Facts about a command under way that every step needs.                  *)
LEMMA UnderWay ==
    ASSUME MediaInv, pc # "idle"
    PROVE  /\ cmd \in Commands /\ run \in 1..MaxRuns /\ pc \in Phases(cmd)
           /\ pc = "encode" => backend \in Hardware
           /\ policy \in Policies \union {None}
           /\ files \in [Commands -> Files \union {None}]
  BY DEF MediaInv, JobInv, TypeOK, Phases, Commands

LEMMA StopKeepsInv ==
    ASSUME MediaInv, Stop
    PROVE  MediaInv'
  <1> USE DEF Stop, jobVars
  <1>1. pc # "idle"
    OBVIOUS
  <1>2. /\ files' \in [Commands -> Files \union {None}]
        /\ \A c \in Commands \ {cmd} : files'[c] = files[c]
    <2>1. CASE UNCHANGED files
      BY <2>1, <1>1, UnderWay
    <2>2. CASE pc = "encode" /\ Writes(backend, "failed")
      BY <2>2, <1>1, UnderWay, WritesOwnOutput DEF Backends, MediaInv
    <2>3. CASE pc = "cpu" /\ Writes(Cpu, "failed")
      BY <2>3, <1>1, UnderWay, WritesOwnOutput DEF Backends, MediaInv
    <2> QED  BY <2>1, <2>2, <2>3
  <1> QED
    BY <1>1, <1>2, UnderWay, EndKeepsInv

LEMMA PreflightKeepsInv ==
    ASSUME MediaInv, Preflight
    PROVE  MediaInv'
  <1> USE DEF Preflight, diskVars
  <1>6. ProofInv'
    BY GoKeepsProofs DEF Goes
  <1> USE DEF MediaInv, Goes
  <1>1. cmd = "self_test"
    BY DEF JobInv, Phases, Commands
  <1>2. TypeOK'
    BY DEF TypeOK, Failures
  <1>3. JobInv'
    BY <1>1 DEF JobInv, Phases
  <1>4. PolicyInv'
    BY <1>1 DEF PolicyInv
  <1>5. OutputInv'
    BY <1>1 DEF OutputInv, ByHardware, ByCpu
  <1> QED  BY <1>2, <1>3, <1>4, <1>5, <1>6

LEMMA EncodeFixtureKeepsInv ==
    ASSUME MediaInv, EncodeFixture
    PROVE  MediaInv'
  <1> USE DEF EncodeFixture, jobVars
  <1>1. pc # "idle" /\ cmd \in Commands /\ run \in 1..MaxRuns
        /\ backend \in Backends /\ policy \in Policies \union {None}
    BY UnderWay DEF Backends
  <1>2. CASE Goes("validate") /\ Writes(backend, "ended")
    <2>1. /\ files' \in [Commands -> Files \union {None}]
          /\ \A c \in Commands \ {cmd} : files'[c] = files[c]
      BY <1>1, <1>2, WritesOwnOutput DEF MediaInv
    <2>5. ProofInv'
      BY <1>2, <2>1, GoKeepsProofs DEF Goes
    <2> USE <1>2 DEF Goes, MediaInv
    <2>2. TypeOK'
      BY <2>1 DEF TypeOK
    <2>3. JobInv' /\ PolicyInv'
      BY DEF JobInv, PolicyInv, Phases
    <2>4. OutputInv'
      BY DEF OutputInv, ByHardware, ByCpu
    <2> QED  BY <2>2, <2>3, <2>4, <2>5
  <1>3. CASE Ends("broken") /\ Spoils(backend)
    BY <1>1, <1>3, SpoilsOwnOutput, EndKeepsInv DEF MediaInv
  <1> QED  BY <1>2, <1>3

LEMMA EncodeFailsKeepsInv ==
    ASSUME MediaInv, NEW outcome \in Failures, EncodeFails(outcome)
    PROVE  MediaInv'
  <1> USE DEF EncodeFails
  <1>1. pc # "idle" /\ cmd \in {"self_test", "forced_fallback"}
        /\ cmd \in Commands /\ run \in 1..MaxRuns /\ backend \in Backends
    BY UnderWay DEF Backends, Phases, Commands
  <1>2. /\ files' \in [Commands -> Files \union {None}]
        /\ \A c \in Commands \ {cmd} : files'[c] = files[c]
    <2>1. CASE outcome = "spawn_failed"
      BY <2>1, <1>1, UnderWay
    <2>2. CASE outcome = "missing_frames"
      BY <2>2, <1>1, WritesOwnOutput DEF MediaInv
    <2>3. CASE outcome \notin {"spawn_failed", "missing_frames"}
      BY <2>3, <1>1, SpoilsOwnOutput DEF MediaInv
    <2> QED  BY <2>1, <2>2, <2>3
  <1>7. ProofInv'
    BY <1>1, <1>2, GoKeepsProofs DEF Goes
  <1> USE DEF MediaInv, Goes
  <1>3. TypeOK'
    BY <1>2 DEF TypeOK
  <1>4. JobInv'
    BY <1>1 DEF JobInv, Phases, Failures
  <1>5. PolicyInv'
    BY <1>1 DEF PolicyInv
  <1>6. OutputInv'
    BY <1>1 DEF OutputInv, ByHardware, ByCpu, Failures
  <1> QED  BY <1>3, <1>4, <1>5, <1>6, <1>7

LEMMA EncodeSucceedsKeepsInv ==
    ASSUME MediaInv, EncodeSucceeds
    PROVE  MediaInv'
  <1> USE DEF EncodeSucceeds, jobVars
  <1>1. pc # "idle" /\ cmd \in {"self_test", "forced_fallback"}
        /\ cmd \in Commands /\ run \in 1..MaxRuns /\ backend \in Backends
    BY UnderWay DEF Backends, Phases, Commands
  <1>2. /\ files' \in [Commands -> Files \union {None}]
        /\ \A c \in Commands \ {cmd} : files'[c] = files[c]
        /\ files'[cmd] \in Files /\ files'[cmd].run = run
        /\ files'[cmd].by = backend /\ files'[cmd].how \in {"exited", "ended"}
        /\ backend # Cpu => files'[cmd].streams = "h264_aac"
    <2>1. PICK how \in {"exited", "ended"} : Writes(backend, how)
      OBVIOUS
    <2> QED  BY <2>1, <1>1, WritesOwnOutput DEF MediaInv
  <1>7. ProofInv'
    BY <1>1, <1>2, GoKeepsProofs DEF Goes
  <1> USE DEF MediaInv, Goes
  <1>3. TypeOK'
    BY <1>2 DEF TypeOK
  <1>4. JobInv'
    BY <1>1 DEF JobInv, Phases
  <1>5. PolicyInv'
    BY <1>1 DEF PolicyInv
  <1>6. OutputInv'
    BY <1>1, <1>2 DEF OutputInv, ByHardware, ByCpu, Fresh
  <1> QED  BY <1>3, <1>4, <1>5, <1>6, <1>7

LEMMA ProbeAnyKeepsInv ==
    ASSUME MediaInv, ProbeAny
    PROVE  MediaInv'
  <1> USE DEF ProbeAny, diskVars
  <1>1. pc # "idle" /\ cmd \in {"self_test", "forced_fallback"}
    BY UnderWay DEF Phases, Commands
  <1>2. ProofInv'
    BY <1>1, GoKeepsProofs DEF Goes
  <1> USE DEF MediaInv, Goes
  <1>3. TypeOK'
    BY DEF TypeOK, Failures
  <1>4. JobInv'
    BY <1>1 DEF JobInv, Phases
  <1>5. PolicyInv'
    BY <1>1 DEF PolicyInv
  <1>6. OutputInv'
    BY <1>1 DEF OutputInv, ByHardware, ByCpu, Fresh
  <1> QED  BY <1>2, <1>3, <1>4, <1>5, <1>6

(* ExecutionPolicy::observe leaves a policy. *)
LEMMA ObservedPolicies ==
    ASSUME NEW p \in Policies, NEW outcome \in Failures
    PROVE  /\ Succeeded(p) \in Policies /\ Succeeded(p).actual = p.scheduled
           /\ Succeeded(p).requested = p.requested
           /\ Downgraded(p, outcome).requested = p.requested
           /\ Downgraded(p, outcome) \in Policies
           /\ Downgraded(p, outcome).scheduled = Cpu
  BY DEF Succeeded, Downgraded, Policies, Backends, Codes

LEMMA ObserveSelfTestKeepsInv ==
    ASSUME MediaInv, ObserveSelfTest
    PROVE  MediaInv'
  <1> USE DEF ObserveSelfTest, diskVars
  <1>1. pc # "idle" /\ policy \in Policies /\ attempt # "none"
        /\ attempt \in Failures \union {"succeeded", "none"}
    BY DEF MediaInv, PolicyInv, JobInv, TypeOK
  <1>2. CASE attempt = "succeeded"
    <2>1. ProofInv'
      BY <1>1, <1>2, GoKeepsProofs DEF Goes
    <2>2. policy' \in Policies /\ policy'.actual = policy.scheduled
          /\ policy'.requested = policy.requested
      BY <1>1, <1>2, ObservedPolicies DEF Failures
    <2> USE <1>2 DEF MediaInv, Goes
    <2>3. TypeOK'
      BY <2>2 DEF TypeOK
    <2>4. JobInv'
      BY DEF JobInv, Phases
    <2>5. PolicyInv'
      BY <2>2 DEF PolicyInv
    <2>6. OutputInv'
      BY DEF OutputInv, ByHardware, ByCpu, Fresh
    <2> QED  BY <2>1, <2>3, <2>4, <2>5, <2>6
  <1>3. CASE attempt # "succeeded"
    <2>1. policy' \in Policies
      BY <1>1, <1>3, ObservedPolicies
    <2> QED  BY <1>1, <1>3, <2>1, UnderWay, EndKeepsInv
  <1> QED  BY <1>2, <1>3

LEMMA ObserveForcedKeepsInv ==
    ASSUME MediaInv, ObserveForced
    PROVE  MediaInv'
  <1> USE DEF ObserveForced, diskVars
  <1>1. pc # "idle" /\ policy \in Policies /\ attempt # "none"
        /\ attempt \in Failures \union {"succeeded", "none"}
    BY DEF MediaInv, PolicyInv, JobInv, TypeOK
  <1>2. CASE attempt = "succeeded"
    BY <1>1, <1>2, UnderWay, EndKeepsInv
  <1>3. CASE attempt # "succeeded"
    <2>1. ProofInv'
      BY <1>1, <1>3, GoKeepsProofs DEF Goes
    <2>2. policy' \in Policies /\ policy'.scheduled = Cpu
          /\ policy'.requested = policy.requested
      BY <1>1, <1>3, ObservedPolicies
    <2> USE <1>3 DEF MediaInv, Goes
    <2>3. TypeOK'
      BY <2>2 DEF TypeOK
    <2>4. JobInv'
      BY <1>1 DEF JobInv, Phases
    <2>5. PolicyInv'
      BY <2>2 DEF PolicyInv
    <2>6. OutputInv'
      BY DEF OutputInv, ByHardware, ByCpu, Fresh
    <2> QED  BY <2>1, <2>3, <2>4, <2>5, <2>6
  <1> QED  BY <1>2, <1>3

LEMMA CpuEncodeKeepsInv ==
    ASSUME MediaInv, CpuEncodeFails \/ CpuEncodeUnended \/ CpuEncodeEnds
    PROVE  MediaInv'
  <1> USE DEF CpuEncodeFails, CpuEncodeUnended, CpuEncodeEnds, jobVars
  <1>1. pc # "idle" /\ cmd \in {"forced_fallback", "cpu_fallback"}
        /\ cmd \in Commands /\ run \in 1..MaxRuns /\ Cpu \in Backends
    BY UnderWay DEF Backends, Phases, Commands
  <1>2. CASE CpuEncodeFails
    BY <1>1, <1>2, UnderWay, SpoilsOwnOutput, EndKeepsInv DEF MediaInv
  <1>3. CASE CpuEncodeUnended
    BY <1>1, <1>3, UnderWay, WritesOwnOutput, EndKeepsInv DEF MediaInv
  <1>4. CASE CpuEncodeEnds
    <2>1. /\ files' \in [Commands -> Files \union {None}]
          /\ \A c \in Commands \ {cmd} : files'[c] = files[c]
          /\ files'[cmd] \in Files /\ files'[cmd].run = run
          /\ files'[cmd].by = Cpu /\ files'[cmd].how = "ended"
      BY <1>1, <1>4, WritesOwnOutput DEF MediaInv
    <2>2. ProofInv'
      BY <1>1, <1>4, <2>1, GoKeepsProofs DEF Goes
    <2> USE <1>4 DEF MediaInv, Goes
    <2>3. TypeOK'
      BY <2>1 DEF TypeOK
    <2>4. JobInv'
      BY <1>1 DEF JobInv, Phases
    <2>5. PolicyInv'
      BY <1>1 DEF PolicyInv
    <2>6. OutputInv'
      BY <1>1, <2>1 DEF OutputInv, ByHardware, ByCpu, Fresh
    <2> QED  BY <2>2, <2>3, <2>4, <2>5, <2>6
  <1> QED  BY <1>2, <1>3, <1>4

LEMMA BuildIdKeepsInv ==
    ASSUME MediaInv, BuildId
    PROVE  MediaInv'
  <1> USE DEF BuildId, jobVars, diskVars
  <1>1. pc # "idle" /\ cmd \in {"forced_fallback", "cpu_fallback"}
    BY UnderWay DEF Phases, Commands
  <1>2. CASE Ends("broken")
    BY <1>1, <1>2, UnderWay, EndKeepsInv
  <1>3. CASE Goes("validate")
    <2>2. ProofInv'
      BY <1>1, <1>3, GoKeepsProofs DEF Goes
    <2> USE <1>3 DEF MediaInv, Goes
    <2>3. TypeOK'
      BY DEF TypeOK
    <2>4. JobInv'
      BY <1>1 DEF JobInv, Phases
    <2>5. PolicyInv'
      BY <1>1 DEF PolicyInv
    <2>6. OutputInv'
      BY <1>1 DEF OutputInv, ByHardware, ByCpu, Fresh
    <2> QED  BY <2>2, <2>3, <2>4, <2>5, <2>6
  <1> QED  BY <1>2, <1>3

LEMMA ValidateKeepsInv ==
    ASSUME MediaInv, Validate
    PROVE  MediaInv'
  <1> USE DEF Validate, diskVars
  <1>1. pc # "idle" /\ cmd \in Commands
    BY UnderWay
  <1>2. CASE (\E v \in {"refused", "broken"} : Ends(v)) /\ UNCHANGED report
    BY <1>1, <1>2, UnderWay, EndKeepsInv
  <1>3. CASE /\ files[cmd] # None /\ files[cmd].streams = Contract(cmd)
             /\ files[cmd].halves > 0
             /\ report' = files[cmd] /\ Goes("accept")
    <2>1. ProofInv'
      BY <1>1, <1>3, GoKeepsProofs DEF Goes
    <2>2. cmd # "self_test" /\ files[cmd] \in Files
      <3>1. files[cmd] \in Files
        BY <1>1, <1>3 DEF MediaInv, TypeOK
      <3>2. cmd = "self_test" => files[cmd].streams = "h264_aac"
        BY DEF MediaInv, OutputInv, ByHardware, Fresh, JobInv
      <3>3. cmd = "self_test" => files[cmd].streams = "vp9_opus"
        BY <1>3 DEF Contract
      <3> QED  BY <3>1, <3>2, <3>3
    <2> USE <1>3, <2>2 DEF MediaInv, Goes
    <2>3. TypeOK'
      BY DEF TypeOK
    <2>4. JobInv'
      BY <1>1 DEF JobInv, Phases, Commands
    <2>5. PolicyInv'
      BY <1>1 DEF PolicyInv
    <2>6. OutputInv'
      BY <1>1 DEF OutputInv, ByHardware, ByCpu, Fresh
    <2> QED  BY <2>1, <2>3, <2>4, <2>5, <2>6
  <1> QED  BY <1>2, <1>3

LEMMA ReadKeepsInv ==
    ASSUME MediaInv, Read
    PROVE  MediaInv'
  <1> USE DEF Read, diskVars
  <1>1. pc # "idle" /\ cmd \in Commands /\ cmd # "fixture"
    BY UnderWay DEF Phases
  <1>2. CASE Ends("broken") /\ UNCHANGED bytes
    BY <1>1, <1>2, UnderWay, EndKeepsInv
  <1>3. CASE /\ files[cmd] # None /\ bytes' = files[cmd]
             /\ Goes(IF cmd = "self_test" THEN "validate" ELSE "write")
    <2>1. ProofInv'
      BY <1>1, <1>3, GoKeepsProofs DEF Goes
    <2>2. files[cmd] \in Files
      BY <1>1, <1>3 DEF MediaInv, TypeOK
    <2> USE <1>3, <2>2 DEF MediaInv, Goes
    <2>3. TypeOK'
      BY DEF TypeOK
    <2>4. JobInv'
      BY <1>1 DEF JobInv, Phases, Commands
    <2>5. PolicyInv'
      BY <1>1 DEF PolicyInv
    <2>6. OutputInv'
      BY <1>1 DEF OutputInv, ByHardware, ByCpu, Fresh
    <2> QED  BY <2>1, <2>3, <2>4, <2>5, <2>6
  <1> QED  BY <1>2, <1>3

LEMMA AcceptKeepsInv ==
    ASSUME MediaInv, Accept
    PROVE  MediaInv'
  <1> USE DEF Accept, diskVars
  <1>1. pc # "idle" /\ cmd \in Commands /\ cmd # "self_test"
    BY UnderWay DEF Phases
  <1>2. CASE cmd = "fixture"
    <2>1. \E v \in {"passed", "refused"} : Ends(v)
      BY <1>2
    <2> QED  BY <1>1, <1>2, <2>1, UnderWay, EndKeepsInv
  <1>3. CASE cmd # "fixture"
    <2>0. Goes("read")
      BY <1>1, <1>3
    <2>1. ProofInv'
      BY <1>1, <2>0, GoKeepsProofs DEF Goes
    <2>2. cmd = "forced_fallback" =>
            /\ policy' \in Policies /\ policy'.actual = Cpu
            /\ policy'.requested = policy.requested
      BY <1>3, ObservedPolicies DEF MediaInv, PolicyInv, Failures
    <2> USE <1>3, <2>0, <2>2 DEF MediaInv, Goes
    <2>3. TypeOK'
      BY DEF TypeOK
    <2>4. JobInv'
      BY <1>1 DEF JobInv, Phases, Commands
    <2>5. PolicyInv'
      BY <1>1 DEF PolicyInv
    <2>6. OutputInv'
      BY <1>1 DEF OutputInv, ByHardware, ByCpu, Fresh
    <2> QED  BY <2>1, <2>3, <2>4, <2>5, <2>6
  <1> QED  BY <1>2, <1>3

(* What a command says of its run is what the invariant knows of it.       *)
LEMMA ClaimIsTrue ==
    ASSUME MediaInv, pc = "write"
    PROVE  /\ cmd \in {"forced_fallback", "cpu_fallback"} /\ run \in 1..MaxRuns
           /\ Claim \in Proofs /\ Claim.run = run /\ Claim.sha = files[cmd]
           /\ Claim.actual = Cpu /\ Claim.probed = Claim.sha
           /\ Claim.sha.streams = "vp9_opus" /\ Claim.sha.halves > 0
           /\ cmd = "forced_fallback" => Claim.failed = Claim.requested
           /\ cmd = "cpu_fallback" => Claim.seconds = Rounded(Claim.sha.halves)
  <1> USE DEF MediaInv
  <1>1. cmd \in {"forced_fallback", "cpu_fallback"} /\ run \in 1..MaxRuns
    BY UnderWay DEF Phases, Commands
  <1>2. /\ bytes = files[cmd] /\ report = files[cmd] /\ report \in Files
        /\ report.halves \in Halves /\ report.streams \in Streams
        /\ report.halves > 0 /\ report.streams = "vp9_opus"
    BY <1>1 DEF OutputInv, Files, Contract
  <1>3. Rounded(report.halves) \in 0..10
    BY <1>2, RoundedIsSeconds
  <1>4. CASE cmd = "forced_fallback"
    <2>1. /\ policy.actual = Cpu /\ policy.requested \in Hardware /\ policy # None
          /\ policy.requested = backend /\ attempt \in Failures
      BY <1>4, NoneIsNoPolicy DEF PolicyInv, JobInv, Policies
    <2>2. Claim =
            [run |-> run, sha |-> bytes, requested |-> backend, actual |-> Cpu,
             seconds |-> 0, streams |-> "vp9_opus",
             quarantined |-> policy.code # "none", complete |-> speed,
             probed |-> report, failed |-> backend]
      BY <1>2, <1>4, <2>1 DEF Claim
    <2>3. (policy.code # "none") \in BOOLEAN
      OBVIOUS
    <2>4. backend \in Hardware /\ speed \in BOOLEAN
      BY <2>1 DEF TypeOK
    <2> QED  BY <1>1, <1>2, <1>4, <2>2, <2>3, <2>4 DEF Proofs, Backends
  <1>5. CASE cmd = "cpu_fallback"
    <2>1. policy = None
      BY <1>5 DEF PolicyInv
    <2> QED  BY <1>1, <1>2, <1>3, <1>5, <2>1 DEF Claim, Proofs, Backends, TypeOK
  <1> QED  BY <1>1, <1>4, <1>5

LEMMA WriteProofKeepsInv ==
    ASSUME MediaInv, WriteProof
    PROVE  MediaInv'
  <1> USE DEF WriteProof, jobVars
  <1>1. pc # "idle" /\ cmd \in {"forced_fallback", "cpu_fallback"}
    BY ClaimIsTrue
  <1>2. CASE Ends("broken") /\ UNCHANGED proof
    BY <1>1, <1>2, UnderWay, EndKeepsInv
  <1>3. CASE proof' = [proof EXCEPT ![cmd] = Claim] /\ Ends("passed")
    <2> USE <1>3 DEF Ends
    <2>1. /\ proof' \in [Proving -> Proofs \union {None}] /\ proof'[cmd] = Claim
          /\ \A c \in Proving \ {cmd} : proof'[c] = proof[c]
      BY <1>1, ClaimIsTrue DEF MediaInv, TypeOK, Proving, Commands
    <2>2. TypeOK'
      BY <2>1 DEF MediaInv, TypeOK
    <2>3. JobInv' /\ PolicyInv' /\ OutputInv'
      BY DEF MediaInv, JobInv, PolicyInv, OutputInv, ByHardware, ByCpu
    <2>4. ASSUME NEW c \in Proving, proof'[c] # None
          PROVE  Earned(c)'
      <3>1. CASE c = cmd
        <4>1. ByCpu /\ Fresh(Cpu, {"ended"}) /\ lastRun[cmd] = run
          BY <1>1 DEF ByCpu, MediaInv, OutputInv, JobInv
        <4> QED
          BY <2>1, <3>1, <4>1, ClaimIsTrue
             DEF Earned, EncodedAndProbed, Fresh, MediaInv, TypeOK
      <3>2. CASE c # cmd
        BY <2>1, <2>4, <3>2 DEF MediaInv, ProofInv, Earned
      <3> QED  BY <3>1, <3>2
    <2>5. proof'["self_test"] = None
      BY <1>1, <2>1 DEF MediaInv, ProofInv, Proving, Commands
    <2>6. ProofInv'
      BY <2>4, <2>5 DEF ProofInv
    <2> QED  BY <2>2, <2>3, <2>6 DEF MediaInv
  <1> QED  BY <1>2, <1>3

-----------------------------------------------------------------------------
(* The theorems *)

(* Types, and what each phase of a command knows of its policy and of its  *)
(* output.                                                                 *)
THEOREM MediaInvariant == Spec => []MediaInv
  <1>1. MediaInv /\ [Next]_vars => MediaInv'
    <2> SUFFICES ASSUME MediaInv, [Next]_vars PROVE MediaInv'
      OBVIOUS
    <2>1. CASE UNCHANGED vars
      BY <2>1 DEF vars, jobVars, diskVars, MediaInv, TypeOK, JobInv, PolicyInv,
        OutputInv, ByHardware, ByCpu, Fresh, ProofInv, Earned
    <2>2. ASSUME NEW c \in Commands, NEW b \in Hardware, Begin(c, b)
          PROVE  MediaInv'
      BY <2>2, BeginKeepsInv
    <2>3. ASSUME NEW outcome \in {"spawn_failed", "timed_out", "nonzero_exit",
                                  "missing_frames"},
                 EncodeFails(outcome)
          PROVE  MediaInv'
      BY <2>3, EncodeFailsKeepsInv DEF Failures
    <2>4. CASE Stop \/ Preflight \/ EncodeFixture \/ EncodeSucceeds \/ ProbeAny
      BY <2>4, StopKeepsInv, PreflightKeepsInv, EncodeFixtureKeepsInv,
        EncodeSucceedsKeepsInv, ProbeAnyKeepsInv
    <2>5. CASE ObserveSelfTest \/ ObserveForced \/ BuildId
      BY <2>5, ObserveSelfTestKeepsInv, ObserveForcedKeepsInv, BuildIdKeepsInv
    <2>6. CASE CpuEncodeFails \/ CpuEncodeUnended \/ CpuEncodeEnds
      BY <2>6, CpuEncodeKeepsInv
    <2>7. CASE Validate \/ Read \/ Accept \/ WriteProof
      BY <2>7, ValidateKeepsInv, ReadKeepsInv, AcceptKeepsInv, WriteProofKeepsInv
    <2> QED
      BY <2>1, <2>2, <2>3, <2>4, <2>5, <2>6, <2>7 DEF Next
  <1> QED
    BY <1>1, InitMediaInv, PTL DEF Spec

(* Every proof hashes the output of its own run, written by the backend it *)
(* names, whatever files and failures came before.                         *)
THEOREM ProofsAreOfTheirRuns == Spec => []ProofIsOfItsRun
  <1>1. MediaInv => ProofIsOfItsRun
    BY DEF MediaInv, ProofInv, Earned, EncodedAndProbed, ProofIsOfItsRun
  <1> QED
    BY <1>1, MediaInvariant, PTL

(* A proof the matrix accepts is about an encoding by the CPU that reached *)
(* its end and that the command probed; a CPU proof is about one that      *)
(* lasts over nine seconds, and a forced fallback about one that followed  *)
(* a failed attempt on the hardware of its row.                            *)
THEOREM AcceptedIsAlwaysEarned == Spec => []AcceptedIsEarned
  <1>1. MediaInv => AcceptedIsEarned
    <2> SUFFICES ASSUME MediaInv, NEW b \in Hardware
                 PROVE  /\ MatrixAccepts("cpu_fallback", b) =>
                              /\ EncodedAndProbed(proof["cpu_fallback"])
                              /\ proof["cpu_fallback"].sha.halves > 18
                        /\ MatrixAccepts("forced_fallback", b) =>
                              /\ EncodedAndProbed(proof["forced_fallback"])
                              /\ proof["forced_fallback"].failed = b
      BY DEF AcceptedIsEarned
    <2>1. ASSUME NEW c \in Proving, proof[c] # None
          PROVE  Earned(c) /\ proof[c].sha.halves \in Halves
      BY <2>1 DEF MediaInv, ProofInv, TypeOK, Proofs, Files
    <2>2. ASSUME MatrixAccepts("cpu_fallback", b)
          PROVE  /\ EncodedAndProbed(proof["cpu_fallback"])
                 /\ proof["cpu_fallback"].sha.halves > 18
      <3>1. /\ proof["cpu_fallback"] # None /\ proof["cpu_fallback"].seconds >= 10
            /\ "cpu_fallback" \in Proving
        BY <2>2 DEF MatrixAccepts, Proving, Commands
      <3> QED  BY <2>1, <3>1, RoundedIsSeconds DEF Earned
    <2>3. ASSUME MatrixAccepts("forced_fallback", b)
          PROVE  /\ EncodedAndProbed(proof["forced_fallback"])
                 /\ proof["forced_fallback"].failed = b
      <3>1. /\ proof["forced_fallback"] # None /\ "forced_fallback" \in Proving
            /\ proof["forced_fallback"].requested = b
        BY <2>3 DEF MatrixAccepts, Proving, Commands
      <3> QED  BY <2>1, <3>1 DEF Earned
    <2> QED  BY <2>2, <2>3
  <1> QED
    BY <1>1, MediaInvariant, PTL

(* Until its command is started again, nothing writes to the output that a *)
(* proof is about.                                                         *)
THEOREM ProvenOutputAlwaysStays == Spec => []ProvenOutputStays
  <1>1. MediaInv => ProvenOutputStays
    BY DEF MediaInv, ProofInv, Earned, ProvenOutputStays
  <1> QED
    BY <1>1, MediaInvariant, PTL

(* Whatever the hardware does, no self-test writes a proof: self_test      *)
(* encodes H.264 and AAC and reads its output with a contract that wants   *)
(* VP9 and Opus.                                                           *)
THEOREM NoSelfTestIsProven == Spec => [](proof["self_test"] = None)
  <1>1. MediaInv => proof["self_test"] = None
    BY DEF MediaInv, ProofInv
  <1> QED
    BY <1>1, MediaInvariant, PTL
=============================================================================
