------------------------------ MODULE MediaChild ------------------------------
(***************************************************************************)
(* One call that runs an FFmpeg or ffprobe child, drains both of its pipes *)
(* while it waits for it, and gives the three together one deadline.  The  *)
(* code writes this four times:                                            *)
(*   run         FfmpegRunner::run_os_with_timeout                         *)
(*   inventory   FfmpegRunner::run_inventory                               *)
(*   utility     collect_child_async                                       *)
(*   generation  collect_generation_async                                  *)
(* with different treatments of what arrives on stdout.  A unit of output  *)
(* stands for whatever fills a share of the pipe; time is not counted: the *)
(* deadline may pass at any moment.                                        *)
(***************************************************************************)
EXTENDS Naturals

CONSTANTS
    PipeCapacity,   \* units the operating system buffers in a pipe
    StdoutLimit,    \* units of stdout the call keeps
    MaxOutput,      \* bound: units the child writes to either pipe
    BusyRetries     \* EXECUTABLE_BUSY_RETRIES

ASSUME PipeAssumption == PipeCapacity \in Nat \ {0}
ASSUME LimitAssumption == StdoutLimit \in Nat
ASSUME OutputAssumption == MaxOutput \in Nat
ASSUME RetriesAssumption == BusyRetries \in Nat

VARIABLES
    kind,       \* which of the four
    child,      \* the process
    status,     \* how it ended
    todo,       \* units it has still to write, by stream
    pipe,       \* units in each pipe
    written,    \* units it wrote to stdout
    retries,    \* spawn_ffmpeg_process: retries so far
    reader,     \* the two readers under try_join
    waiter,     \* child.wait() under try_join
    retained,   \* units of stdout kept
    truncated,  \* DrainedPipe::truncated
    finished,   \* ProgressSummary::saw_finished
    pc,         \* where the call is
    result      \* what it returns, or will return after cleanup

procVars == <<child, status, todo, pipe, written>>
joinVars == <<reader, waiter, retained, truncated, finished>>
vars == <<kind, procVars, retries, joinVars, pc, result>>

Kinds == {"run", "inventory", "utility", "generation"}
Streams == {"out", "err"}
Errors == {"spawn", "output", "limit", "progress", "timeout"}

(* read_capped drains what it will not keep and then refuses it. *)
Capped == kind \in {"run", "inventory"}

TypeOK ==
    /\ kind \in Kinds
    /\ child \in {"none", "running", "exited", "gone"}
    /\ status \in {"none", "success", "failure", "killed"}
    /\ todo \in [Streams -> 0..MaxOutput]
    /\ pipe \in [Streams -> 0..PipeCapacity]
    /\ written \in 0..MaxOutput
    /\ retries \in 0..BusyRetries
    /\ reader \in [Streams -> {"reading", "overflow", "done", "error"}]
    /\ waiter \in {"waiting", "done"}
    /\ retained \in 0..StdoutLimit
    /\ truncated \in BOOLEAN /\ finished \in BOOLEAN
    /\ pc \in {"spawn", "join", "kill", "reap", "returned"}
    /\ result \in Errors \union {"none", "ok"}

Init ==
    /\ kind \in Kinds
    /\ child = "none" /\ status = "none"
    /\ todo = [s \in Streams |-> 0]
    /\ pipe = [s \in Streams |-> 0]
    /\ written = 0 /\ retries = 0
    /\ reader = [s \in Streams |-> "reading"]
    /\ waiter = "waiting"
    /\ retained = 0 /\ truncated = FALSE /\ finished = FALSE
    /\ pc = "spawn" /\ result = "none"

-----------------------------------------------------------------------------
(* The child.  A write to a full pipe blocks. *)

ChildWrites(s) ==
    /\ child = "running"
    /\ todo[s] > 0 /\ pipe[s] < PipeCapacity
    /\ todo' = [todo EXCEPT ![s] = @ - 1]
    /\ pipe' = [pipe EXCEPT ![s] = @ + 1]
    /\ written' = IF s = "out" THEN written + 1 ELSE written
    /\ UNCHANGED <<kind, child, status, retries, joinVars, pc, result>>

ChildExits ==
    /\ child = "running"
    /\ todo = [s \in Streams |-> 0]
    /\ child' = "exited"
    /\ status' \in {"success", "failure"}
    /\ UNCHANGED <<kind, todo, pipe, written, retries, joinVars, pc, result>>

ChildCrashes ==
    /\ child = "running"
    /\ child' = "exited" /\ status' = "failure"
    /\ UNCHANGED <<kind, todo, pipe, written, retries, joinVars, pc, result>>

-----------------------------------------------------------------------------
(* spawn_ffmpeg_process, or spawn alone *)

SpawnRetries ==
    /\ pc = "spawn"
    /\ Capped
    /\ retries < BusyRetries
    /\ retries' = retries + 1
    /\ UNCHANGED <<kind, procVars, joinVars, pc, result>>

SpawnFails ==
    /\ pc = "spawn"
    /\ pc' = "returned" /\ result' = "spawn"
    /\ UNCHANGED <<kind, procVars, retries, joinVars>>

SpawnChild ==
    /\ pc = "spawn"
    /\ child' = "running"
    /\ todo' \in [Streams -> 0..MaxOutput]
    /\ pc' = "join"
    /\ UNCHANGED <<kind, status, pipe, written, retries, joinVars, result>>

-----------------------------------------------------------------------------
(* The readers.  Each read takes some of what the pipe holds. *)

Take(s, n) == pipe' = [pipe EXCEPT ![s] = @ - n]

Becomes(s, to) == reader' = [reader EXCEPT ![s] = to]

Closed(s) == child # "running" /\ pipe[s] = 0

(* Keeps n more units, or as many as the limit leaves room for. *)
Keep(n) ==
    retained' = IF retained + n <= StdoutLimit THEN retained + n ELSE StdoutLimit

(* read_capped: past the limit only draining is left. *)
ReadCapped(n) ==
    /\ Capped
    /\ Keep(n)
    /\ IF retained + n > StdoutLimit THEN Becomes("out", "overflow")
       ELSE UNCHANGED reader
    /\ UNCHANGED <<truncated, finished>>

(* drain_pipe with retain. *)
ReadRetained(n) ==
    /\ kind = "utility"
    /\ Keep(n)
    /\ truncated' = (truncated \/ retained + n > StdoutLimit)
    /\ UNCHANGED <<reader, finished>>

(* drain_progress: nothing is kept, the parser may refuse the input. *)
ReadProgress(n) ==
    /\ kind = "generation"
    /\ \/ finished' \in {finished, TRUE} /\ UNCHANGED reader
       \/ Becomes("out", "error") /\ UNCHANGED finished
    /\ UNCHANGED <<retained, truncated>>

ReadOut(n) ==
    /\ pc = "join" /\ reader["out"] = "reading"
    /\ n <= pipe["out"] /\ Take("out", n)
    /\ ReadCapped(n) \/ ReadRetained(n) \/ ReadProgress(n)
    /\ UNCHANGED <<kind, child, status, todo, written, retries, waiter, pc, result>>

DrainOverflow(n) ==
    /\ pc = "join" /\ reader["out"] = "overflow"
    /\ n <= pipe["out"] /\ Take("out", n)
    /\ UNCHANGED <<kind, child, status, todo, written, retries, joinVars, pc, result>>

(* Variant: stderr is read once stdout is at its end. *)
ReadErrAfterOut(n) ==
    /\ pc = "join" /\ reader["err"] = "reading"
    /\ reader["out"] = "done"
    /\ n <= pipe["err"] /\ Take("err", n)
    /\ UNCHANGED <<kind, child, status, todo, written, retries, joinVars, pc, result>>

(* drain_discard, drain_pipe without retain, read_stderr_capped *)
ReadErr(n) ==
    /\ pc = "join" /\ reader["err"] = "reading"
    /\ n <= pipe["err"] /\ Take("err", n)
    /\ UNCHANGED <<kind, child, status, todo, written, retries, joinVars, pc, result>>

(* Variant: what overflowed is dropped in silence. *)
EndOfPipeAccepting(s) ==
    /\ pc = "join" /\ reader[s] \in {"reading", "overflow"}
    /\ Closed(s)
    /\ Becomes(s, "done")
    /\ UNCHANGED <<kind, procVars, retries, waiter, retained, truncated, finished,
                   pc, result>>

(* End of the pipe; after an overflow it is an error. *)
EndOfPipe(s) ==
    /\ pc = "join" /\ reader[s] \in {"reading", "overflow"}
    /\ Closed(s)
    /\ Becomes(s, IF reader[s] = "reading" THEN "done" ELSE "error")
    /\ UNCHANGED <<kind, procVars, retries, waiter, retained, truncated, finished,
                   pc, result>>

(* The read itself fails. *)
ReadBreaks(s) ==
    /\ pc = "join" /\ reader[s] \in {"reading", "overflow"}
    /\ pc' = "kill" /\ result' = "output"
    /\ UNCHANGED <<kind, procVars, retries, joinVars>>

-----------------------------------------------------------------------------
(* try_join and what follows it *)

WaitChild ==
    /\ pc = "join" /\ waiter = "waiting"
    /\ child = "exited"
    /\ child' = "gone" /\ waiter' = "done"
    /\ UNCHANGED <<kind, status, todo, pipe, written, retries, reader, retained,
                   truncated, finished, pc, result>>

AllDone == waiter = "done" /\ \A s \in Streams : reader[s] = "done"

JoinCompletes ==
    /\ pc = "join" /\ AllDone
    /\ pc' = "returned"
    /\ result' = IF truncated THEN "limit" ELSE "ok"
    /\ UNCHANGED <<kind, procVars, retries, joinVars>>

(* The first error ends the join; `run` reports the limit as a read error. *)
JoinFails ==
    /\ pc = "join" /\ \E s \in Streams : reader[s] = "error"
    /\ pc' = "kill"
    /\ result' = CASE kind = "run" -> "output"
                   [] kind = "inventory" -> "limit"
                   [] OTHER -> "progress"
    /\ UNCHANGED <<kind, procVars, retries, joinVars>>

DeadlinePasses ==
    /\ pc = "join" /\ ~AllDone
    /\ pc' = "kill" /\ result' = "timeout"
    /\ UNCHANGED <<kind, procVars, retries, joinVars>>

(* Variant: cleanup waits for the child without killing it. *)
CleanupWaitsOnly ==
    /\ pc = "kill"
    /\ pc' = "reap"
    /\ UNCHANGED <<kind, procVars, retries, joinVars, result>>

(* cleanup_child, terminate_and_reap: the signal ends a running child,     *)
(* whatever it is doing.                                                   *)
CleanupKills ==
    /\ pc = "kill"
    /\ pc' = "reap"
    /\ IF child = "running" THEN child' = "exited" /\ status' = "killed"
       ELSE UNCHANGED <<child, status>>
    /\ UNCHANGED <<kind, todo, pipe, written, retries, joinVars, result>>

(* Variant: the call returns once the signal is sent. *)
CleanupReturns ==
    /\ pc = "reap"
    /\ pc' = "returned"
    /\ UNCHANGED <<kind, procVars, retries, joinVars, result>>

CleanupReaps ==
    /\ pc = "reap"
    /\ child # "running"
    /\ child' = "gone"
    /\ pc' = "returned"
    /\ UNCHANGED <<kind, status, todo, pipe, written, retries, joinVars, result>>

-----------------------------------------------------------------------------
Child == (\E s \in Streams : ChildWrites(s)) \/ ChildExits \/ ChildCrashes

Spawn == SpawnRetries \/ SpawnFails \/ SpawnChild

Drain ==
    \/ \E n \in 1..PipeCapacity : ReadOut(n) \/ DrainOverflow(n) \/ ReadErr(n)
    \/ \E s \in Streams : EndOfPipe(s) \/ ReadBreaks(s)

Join == WaitChild \/ JoinCompletes \/ JoinFails

Cleanup == CleanupKills \/ CleanupReaps

Next == Child \/ Spawn \/ Drain \/ Join \/ DeadlinePasses \/ Cleanup

Spec == Init /\ [][Next]_vars

(***************************************************************************)
(* Fairness.  The runtime polls every future of the call that is ready and *)
(* carries the cleanup through.  What the child does, and whether the      *)
(* deadline passes, are the assumptions of one property each.              *)
(***************************************************************************)
CallSpec ==
    /\ Spec
    /\ WF_vars(SpawnFails \/ SpawnChild)
    /\ WF_vars(\E n \in 1..PipeCapacity : ReadOut(n) \/ DrainOverflow(n))
    /\ WF_vars(\E n \in 1..PipeCapacity : ReadErr(n))
    /\ \A s \in Streams : WF_vars(EndOfPipe(s))
    /\ WF_vars(Join)
    /\ WF_vars(Cleanup)

(* The child goes on as long as it can write, and exits. *)
ChildGoesOn ==
    WF_vars(ChildWrites("out")) /\ WF_vars(ChildWrites("err")) /\ WF_vars(ChildExits)

-----------------------------------------------------------------------------
(* Properties *)

(* However the call returns, its child is dead and reaped. *)
ReturnedIsReaped == pc = "returned" => child \in {"none", "gone"}

(* Stdout that is handed on is all the child wrote, from a child that      *)
(* ended by itself; anything that had to be cut is an error.               *)
NothingIsCut ==
    result = "ok" =>
        /\ status \in {"success", "failure"}
        /\ kind # "generation" => retained = written

(* A child that says more than is kept, on either pipe, is never blocked   *)
(* for ever: the call returns without any help from its deadline.          *)
DrainsToTheEnd == ChildGoesOn => (pc = "join" ~> pc = "returned")

(* A child that hangs is outlived: the call returns by its deadline.       *)
DeadlineHolds == WF_vars(DeadlinePasses) => (pc = "spawn" ~> pc = "returned")

(* What is kept and what is still in the pipe add up to what was written,  *)
(* until the limit is met, which is then remembered; and the process is    *)
(* gone exactly when somebody waited for it.                               *)
Accounting ==
    kind # "generation" /\ pc = "join" =>
        \/ /\ reader["out"] \in {"reading", "done"} /\ ~truncated
           /\ retained + pipe["out"] = written
        \/ Capped /\ reader["out"] \in {"overflow", "error"}
        \/ kind = "utility" /\ truncated

ProcessInv ==
    /\ written + todo["out"] <= MaxOutput
    /\ pc = "spawn" => child = "none" /\ result = "none"
    /\ pc = "spawn" => written = 0 /\ retained = 0 /\ ~truncated
    /\ pc = "spawn" => reader["out"] = "reading"
    /\ pc = "spawn" => pipe["out"] = 0 /\ waiter = "waiting"
    /\ pc = "join" => result = "none"
    /\ pc = "join" => (child = "gone" <=> waiter = "done")
    /\ pc \in {"join", "kill", "reap"} => child # "none"
    /\ pc = "reap" => child # "running"
    /\ pc \in {"kill", "reap"} => result \in Errors
    /\ child \in {"exited", "gone"} =>
          IF pc \in {"reap", "returned"} THEN status # "none"
          ELSE status \in {"success", "failure"}
    /\ pc = "join" /\ reader["out"] = "done" => Closed("out")

(* The inductive invariant. *)
CallInv == ProcessInv /\ Accounting /\ ReturnedIsReaped /\ NothingIsCut
=============================================================================
