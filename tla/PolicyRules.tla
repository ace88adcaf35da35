----------------------------- MODULE PolicyRules -----------------------------
(***************************************************************************)
(* The value of an ExecutionPolicy: one preferred hardware attempt, then   *)
(* the CPU at most once.  A policy is a record; what happens to it is a    *)
(* function of what it observes.                                           *)
(***************************************************************************)
CONSTANTS Hardware, Cpu, None

ASSUME BackendAssumption == Cpu \notin Hardware /\ None \notin Hardware \union {Cpu}

Backends == Hardware \union {Cpu}

(* AttemptOutcome without Succeeded, and the codes they become. *)
Failures == {"probe_failed", "spawn_failed", "timed_out", "nonzero_exit",
             "missing_frames", "invalid_ffprobe", "failed"}
Codes == Failures \union {"hardware_quarantined"}

Policies ==
    [requested : Hardware, scheduled : Backends \union {None},
     actual : Backends \union {None}, code : Codes \union {"none"},
     attempts : {1, 2}, quarantined : BOOLEAN]

ASSUME NoneIsNoPolicy == None \notin Policies

(* ExecutionPolicy::new, given whether the backend is quarantined. *)
NewPolicy(b, isQuarantined) ==
    [requested |-> b,
     scheduled |-> IF isQuarantined THEN Cpu ELSE b,
     actual |-> None,
     code |-> IF isQuarantined THEN "hardware_quarantined" ELSE "none",
     attempts |-> 1,
     quarantined |-> isQuarantined]

(* ExecutionPolicy::observe of a success. *)
Succeeded(p) == [p EXCEPT !.actual = p.scheduled, !.scheduled = None]

(* observe of a failure on the hardware. *)
Downgraded(p, outcome) ==
    [p EXCEPT !.quarantined = TRUE, !.code = outcome, !.scheduled = Cpu,
              !.attempts = 2]
=============================================================================
