---------------------------- MODULE MediaCommands ----------------------------
(***************************************************************************)
(* The media commands of ovayra-spike as a device runs them one after the  *)
(* other: generate-hardware-fixture, self-test, forced-fallback and        *)
(* cpu-fallback.  Each is a process of its own, with a fresh policy; what  *)
(* outlives it are the files FFmpeg wrote and the proofs.  FFmpeg, ffprobe *)
(* and whoever stops a command are the environment.  MediaChild has the    *)
(* way one such child is run.                                              *)
(***************************************************************************)
EXTENDS PolicyRules, Integers

CONSTANTS MaxRuns      \* bound: how many commands are started

ASSUME RunsAssumption == MaxRuns \in Nat \ {0}

Commands == {"fixture", "self_test", "forced_fallback", "cpu_fallback"}
Proving == Commands \ {"fixture"}

(* Durations in half seconds; 0 is a file ffprobe finds no duration in.    *)
Halves == {0, 9, 19, 20}
Streams == {"h264_aac", "vp9_opus"}

(* An output file: who wrote it in which run, and how that FFmpeg ended.   *)
Files ==
    [by : Backends, run : 1..MaxRuns, streams : Streams, halves : Halves,
     how : {"failed", "exited", "ended"}]

(* MediaCpuProof, MediaHardwareProof and MediaForcedFallbackProof; sha is  *)
(* the content hashed.  Three fields are history that no proof tells: the  *)
(* run that wrote it, the hardware whose attempt failed in that run before *)
(* the CPU's, and the content that ffprobe reported on.                    *)
Proofs ==
    [run : 1..MaxRuns, requested : Backends, actual : Backends,
     seconds : 0..10, streams : Streams \union {"unstated"},
     quarantined : BOOLEAN, complete : BOOLEAN, sha : Files,
     failed : Hardware \union {None}, probed : Files]

VARIABLES
    run,       \* commands started so far
    cmd, pc,   \* the running command and where it is
    backend,   \* its --backend argument, or None
    policy,    \* its ExecutionPolicy, or None
    attempt,   \* AttemptOutcome of run_hardware_attempt_inner
    speed,     \* CpuFallbackOutput::average_speed is some finite number
    bytes,     \* the output as fs::read returned it, or None
    report,    \* FfprobeReport, or None
    files,     \* the output of each command, or None
    lastRun,   \* which run last started each command
    proof,     \* the proof file of each command, or None
    verdict    \* how the last command ended

jobVars == <<backend, policy, attempt, speed, bytes, report>>
diskVars == <<files, proof>>
vars == <<run, cmd, pc, jobVars, diskVars, lastRun, verdict>>

TypeOK ==
    /\ run \in 0..MaxRuns /\ cmd \in Commands \union {None}
    /\ pc \in {"idle", "preflight", "encode", "probe", "observe", "cpu",
               "build_id", "read", "validate", "accept", "write"}
    /\ backend \in Hardware \union {None}
    /\ policy \in Policies \union {None}
    /\ attempt \in Failures \union {"succeeded", "none"}
    /\ speed \in BOOLEAN
    /\ bytes \in Files \union {None} /\ report \in Files \union {None}
    /\ files \in [Commands -> Files \union {None}]
    /\ lastRun \in [Commands -> 0..MaxRuns]
    /\ proof \in [Proving -> Proofs \union {None}]
    /\ verdict \in {"none", "passed", "refused", "broken"}

Init ==
    /\ run = 0 /\ cmd = None /\ pc = "idle" /\ backend = None /\ policy = None
    /\ attempt = "none" /\ speed = FALSE /\ bytes = None /\ report = None
    /\ files = [c \in Commands |-> None]
    /\ lastRun = [c \in Commands |-> 0]
    /\ proof = [c \in Proving |-> None]
    /\ verdict = "none"

-----------------------------------------------------------------------------
(* Beginning and ending *)

First(c) == CASE c = "self_test" -> "preflight"
              [] c = "cpu_fallback" -> "cpu"
              [] OTHER -> "encode"

Begin(c, b) ==
    /\ pc = "idle" /\ run < MaxRuns
    /\ run' = run + 1 /\ cmd' = c /\ pc' = First(c)
    /\ backend' = IF c = "cpu_fallback" THEN None ELSE b
    /\ policy' = IF c \in {"self_test", "forced_fallback"}
                 THEN NewPolicy(b, FALSE) ELSE None
    /\ attempt' = "none" /\ speed' = FALSE /\ bytes' = None /\ report' = None
    /\ lastRun' = [lastRun EXCEPT ![c] = run + 1]
    /\ verdict' = "none"
    /\ UNCHANGED diskVars

(* The command returns: "broken" when a child or a file could not be used, *)
(* "refused" when what they said did not satisfy it.                       *)
Ends(v) == pc' = "idle" /\ verdict' = v /\ UNCHANGED <<run, cmd, lastRun>>

Goes(to) == pc' = to /\ UNCHANGED <<run, cmd, lastRun, verdict>>

Writes(by, how) ==
    \E h \in Halves :
        files' = [files EXCEPT ![cmd] =
            [by |-> by, run |-> run, halves |-> h, how |-> how,
             streams |-> IF by = Cpu THEN "vp9_opus" ELSE "h264_aac"]]

(* FFmpeg did not get to the output, or left part of one.                  *)
Spoils(by) == UNCHANGED files \/ Writes(by, "failed")

(* The process and its FFmpeg are stopped from outside.                    *)
Stop ==
    /\ pc # "idle" /\ Ends("broken")
    /\ \/ UNCHANGED files
       \/ pc = "encode" /\ Writes(backend, "failed")
       \/ pc = "cpu" /\ Writes(Cpu, "failed")
    /\ UNCHANGED <<jobVars, proof>>

-----------------------------------------------------------------------------
(* The hardware attempt *)

(* collect_inventory and HardwarePlan::is_available *)
Preflight ==
    /\ pc = "preflight"
    /\ \/ Goes("encode") /\ UNCHANGED attempt
       \/ Goes("observe") /\ attempt' = "probe_failed"
    /\ UNCHANGED <<diskVars, backend, policy, speed, bytes, report>>

(* FFmpeg can read the fixture, the input of the other commands.           *)
Readable == files["fixture"] # None /\ files["fixture"].halves > 0

(* generate_hardware_fixture looks at nothing but the exit code.           *)
EncodeFixture ==
    /\ pc = "encode" /\ cmd = "fixture"
    /\ \/ Goes("validate") /\ Writes(backend, "ended")
       \/ Ends("broken") /\ Spoils(backend)
    /\ UNCHANGED <<jobVars, proof>>

EncodeFails(outcome) ==
    /\ pc = "encode" /\ cmd # "fixture"
    /\ attempt' = outcome /\ Goes("observe")
    /\ CASE outcome = "spawn_failed" -> UNCHANGED files
         [] outcome = "missing_frames" -> Readable /\ Writes(backend, "exited")
         [] OTHER -> Spoils(backend)
    /\ UNCHANGED <<proof, backend, policy, speed, bytes, report>>

(* Exit code zero and at least one frame in the progress.                  *)
EncodeSucceeds ==
    /\ pc = "encode" /\ cmd # "fixture" /\ Readable
    /\ \E how \in {"exited", "ended"} : Writes(backend, how)
    /\ Goes("probe")
    /\ UNCHANGED <<jobVars, proof>>

(* FfprobeReport::validate_any *)
ProbeAny ==
    /\ pc = "probe" /\ Goes("observe")
    /\ \/ /\ files[cmd] # None /\ files[cmd].halves > 0
          /\ attempt' = "succeeded"
       \/ attempt' = "invalid_ffprobe"
    /\ UNCHANGED <<diskVars, backend, policy, speed, bytes, report>>

ObserveSelfTest ==
    /\ pc = "observe" /\ cmd = "self_test"
    /\ IF attempt = "succeeded"
       THEN policy' = Succeeded(policy) /\ Goes("read")
       ELSE policy' = Downgraded(policy, attempt) /\ Ends("refused")
    /\ UNCHANGED <<diskVars, backend, attempt, speed, bytes, report>>

(* Variant: an attempt that succeeded is downgraded like the others.       *)
ObserveForcedUnchecked ==
    /\ pc = "observe" /\ cmd = "forced_fallback"
    /\ policy' = Downgraded(policy, attempt) /\ Goes("cpu")
    /\ UNCHANGED <<diskVars, backend, attempt, speed, bytes, report>>

(* A forced failure that did not fail ends the command.                    *)
ObserveForced ==
    /\ pc = "observe" /\ cmd = "forced_fallback"
    /\ IF attempt = "succeeded"
       THEN Ends("refused") /\ UNCHANGED policy
       ELSE policy' = Downgraded(policy, attempt) /\ Goes("cpu")
    /\ UNCHANGED <<diskVars, backend, attempt, speed, bytes, report>>

-----------------------------------------------------------------------------
(* The CPU attempt: transcode_synthetic_input, generate_synthetic *)

(* Variant: the exit status is not looked at. *)
CpuEncodeFailsUnseen ==
    /\ pc = "cpu" /\ Spoils(Cpu) /\ Goes("build_id")
    /\ UNCHANGED <<jobVars, proof>>

CpuEncodeFails ==
    /\ pc = "cpu" /\ Spoils(Cpu) /\ Ends("broken")
    /\ UNCHANGED <<jobVars, proof>>

(* Variant: the end is not waited for. *)
CpuEncodeUnchecked ==
    /\ pc = "cpu" /\ (cmd = "forced_fallback" => Readable)
    /\ Writes(Cpu, "exited") /\ Goes("build_id") /\ speed' \in BOOLEAN
    /\ UNCHANGED <<proof, backend, policy, attempt, bytes, report>>

(* Exit code zero without progress=end: ProgressIncomplete.                *)
CpuEncodeUnended ==
    /\ pc = "cpu" /\ (cmd = "forced_fallback" => Readable)
    /\ Writes(Cpu, "exited") /\ Ends("refused")
    /\ UNCHANGED <<jobVars, proof>>

CpuEncodeEnds ==
    /\ pc = "cpu" /\ (cmd = "forced_fallback" => Readable)
    /\ Writes(Cpu, "ended") /\ speed' \in BOOLEAN /\ Goes("build_id")
    /\ UNCHANGED <<proof, backend, policy, attempt, bytes, report>>

BuildId ==
    /\ pc = "build_id"
    /\ Goes("validate") \/ Ends("broken")
    /\ UNCHANGED <<jobVars, diskVars>>

-----------------------------------------------------------------------------
(* ffprobe's report and the proof *)

(* read_h264_aac for the fixture, FfprobeReport::read for all the others.  *)
Contract(c) == IF c = "fixture" THEN "h264_aac" ELSE "vp9_opus"

Validate ==
    /\ pc = "validate"
    /\ \/ /\ files[cmd] # None /\ files[cmd].halves > 0
          /\ files[cmd].streams = Contract(cmd)
          /\ report' = files[cmd] /\ Goes("accept")
       \/ /\ files[cmd] # None
          /\ files[cmd].halves = 0 \/ files[cmd].streams # Contract(cmd)
          /\ Ends("refused") /\ UNCHANGED report
       \/ Ends("broken") /\ UNCHANGED report
    /\ UNCHANGED <<diskVars, backend, policy, attempt, speed, bytes>>

(* Variant: the input is hashed. *)
ReadInput ==
    /\ pc = "read"
    /\ files["fixture"] # None /\ bytes' = files["fixture"]
    /\ Goes(IF cmd = "self_test" THEN "validate" ELSE "write")
    /\ UNCHANGED <<diskVars, backend, policy, attempt, speed, report>>

(* fs::read of the output: self_test before ffprobe, the others after it.  *)
Read ==
    /\ pc = "read"
    /\ \/ /\ files[cmd] # None /\ bytes' = files[cmd]
          /\ Goes(IF cmd = "self_test" THEN "validate" ELSE "write")
       \/ Ends("broken") /\ UNCHANGED bytes
    /\ UNCHANGED <<diskVars, backend, policy, attempt, speed, report>>

(* What each command does with a report it accepts.                        *)
Accept ==
    /\ pc = "accept"
    /\ CASE cmd = "fixture" ->
              Ends(IF report.halves \in 19..21 THEN "passed" ELSE "refused")
         [] cmd = "self_test" -> Goes("write")
         [] OTHER -> Goes("read")
    /\ policy' = IF cmd = "forced_fallback" THEN Succeeded(policy) ELSE policy
    /\ UNCHANGED <<diskVars, backend, attempt, speed, bytes, report>>

(* rounded_duration_seconds *)
Rounded(halves) == (halves + 1) \div 2

Claim ==
    [run |-> run, sha |-> bytes,
     requested |-> IF policy = None THEN Cpu ELSE policy.requested,
     actual |-> IF policy = None THEN Cpu ELSE policy.actual,
     seconds |-> IF cmd = "forced_fallback" THEN 0 ELSE Rounded(report.halves),
     streams |-> IF cmd = "self_test" THEN "unstated" ELSE report.streams,
     quarantined |-> policy # None /\ policy.code # "none" /\ policy.actual = Cpu,
     complete |-> speed, probed |-> report,
     failed |-> IF attempt \in Failures THEN backend ELSE None]

WriteProof ==
    /\ pc = "write"
    /\ \/ proof' = [proof EXCEPT ![cmd] = Claim] /\ Ends("passed")
       \/ Ends("broken") /\ UNCHANGED proof
    /\ UNCHANGED <<jobVars, files>>

Next ==
    \/ \E c \in Commands, b \in Hardware : Begin(c, b)
    \/ Stop \/ Preflight \/ EncodeFixture \/ EncodeSucceeds
    \/ \E outcome \in {"spawn_failed", "timed_out", "nonzero_exit", "missing_frames"} :
           EncodeFails(outcome)
    \/ ProbeAny \/ ObserveSelfTest \/ ObserveForced
    \/ CpuEncodeFails \/ CpuEncodeUnended \/ CpuEncodeEnds \/ BuildId
    \/ Validate \/ Read \/ Accept \/ WriteProof

Spec == Init /\ [][Next]_vars

-----------------------------------------------------------------------------
(* Properties *)

(* validate_typed_proof: what the matrix asks of each proof.               *)
MatrixAccepts(c, b) ==
    LET p == proof[c] IN
    /\ p # None
    /\ CASE c = "cpu_fallback" ->
              p.actual = Cpu /\ p.seconds >= 10 /\ p.streams = "vp9_opus" /\ p.complete
         [] c = "self_test" ->
              p.requested = b /\ p.actual = b /\ p.seconds >= 10
         [] OTHER ->
              p.requested = b /\ p.quarantined /\ p.streams = "vp9_opus"

(* A proof hashes what its own run produced, not a file an earlier run or  *)
(* the failed attempt left behind, and names the backend that produced it. *)
ProofIsOfItsRun ==
    \A c \in Proving : proof[c] # None =>
        /\ proof[c].sha.run = proof[c].run
        /\ proof[c].sha.by = proof[c].actual
        /\ proof[c].sha.how # "failed"

(* The CPU encoded the output to its end, and the very bytes the proof     *)
(* hashes are those ffprobe found VP9, Opus and a duration in.             *)
EncodedAndProbed(p) ==
    /\ p.sha.by = Cpu /\ p.sha.how = "ended"
    /\ p.probed = p.sha /\ p.sha.streams = "vp9_opus" /\ p.sha.halves > 0

(* An accepted CPU proof is about an encoding that reached its end, was    *)
(* probed, and lasts over nine seconds; an accepted forced fallback is     *)
(* about one that was probed and that followed, in the same run, a failed  *)
(* attempt on the very hardware the row asks for.                          *)
AcceptedIsEarned ==
    \A b \in Hardware :
        /\ MatrixAccepts("cpu_fallback", b) =>
              EncodedAndProbed(proof["cpu_fallback"])
              /\ proof["cpu_fallback"].sha.halves > 18
        /\ MatrixAccepts("forced_fallback", b) =>
              EncodedAndProbed(proof["forced_fallback"])
              /\ proof["forced_fallback"].failed = b

(* The output a proof is about stays as it was hashed until the same       *)
(* command is started again: nothing later in its own run writes to it,    *)
(* and no other command does.  A later start of the same command is        *)
(* outside of this; it may replace the output and leave the proof.         *)
ProvenOutputStays ==
    \A c \in Proving :
        proof[c] # None /\ lastRun[c] = proof[c].run => files[c] = proof[c].sha

(* The plan of the project expects a self-test whose hardware worked to    *)
(* pass.  An attempt the policy counts as a success, whose output is there *)
(* and can be probed, is not refused afterwards.                           *)
WorkingHardwarePasses ==
    verdict = "refused" /\ cmd = "self_test" =>
        policy.actual = None
=============================================================================
