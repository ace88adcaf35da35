---------------------------- MODULE UploadServer ----------------------------
(***************************************************************************)
(* The remote half of a Gemini resumable upload, and the network in front  *)
(* of it.  None of this is code of the repository: it is the service as    *)
(* crates/spike-gemini drives it, with the freedom its contract tests and  *)
(* error paths allow for.                                                  *)
(*                                                                         *)
(*   - A session stores a growing prefix of one input and answers `query'  *)
(*     with the length it holds.                                           *)
(*   - A chunk is taken only at the offset the session holds, and never    *)
(*     beyond the length declared when the session was started.            *)
(*   - `upload, finalize' creates the file once the session holds all      *)
(*     that was declared.                                                  *)
(*   - A request that is answered with an error, or not at all, chunk or   *)
(*     finalize, may have been taken wholly or in part or been dropped;    *)
(*     one without an answer may also arrive later, again in part.         *)
(*   - A file may stay in processing for ever.                             *)
(***************************************************************************)
EXTENDS Integers, FiniteSets

CONSTANTS
    Sessions,       \* the upload sessions that can ever be opened
    InputLengths,   \* lengths of the inputs the commands are given
    LateRequests,   \* TRUE: a timed-out request may arrive later
    MaxFaults,      \* bound on adverse outcomes and crashes
    Endless,        \* TRUE: they are not counted, and stop when they like
    None            \* "no session", "no record"

ASSUME ServerAssumption ==
    /\ InputLengths \subseteq Nat \ {0}
    /\ LateRequests \in BOOLEAN
    /\ MaxFaults \in Nat
    /\ Endless \in BOOLEAN
    /\ None \notin Sessions

VARIABLES
    status,     \* session -> unborn, open or final
    declared,   \* session -> x-goog-upload-header-content-length
    received,   \* session -> bytes stored (x-goog-upload-size-received)
    file,       \* session -> state of the file its finalization created
    late,       \* timed-out requests still in the network
    faults      \* adverse outcomes so far; MaxFaults once they stopped

serverVars == <<status, declared, received, file>>

Requests ==
    [kind : {"upload", "finalize"}, sid : Sessions, from : Nat, upto : Nat]

FileStates == {"absent", "processing", "active", "failed", "deleted"}

ServerTypeOK ==
    /\ status \in [Sessions -> {"unborn", "open", "final"}]
    /\ declared \in [Sessions -> Nat]
    /\ received \in [Sessions -> Nat]
    /\ file \in [Sessions -> FileStates]
    /\ late \subseteq Requests
    /\ faults \in 0..MaxFaults

ServerInit ==
    /\ status = [s \in Sessions |-> "unborn"]
    /\ declared = [s \in Sessions |-> 0]
    /\ received = [s \in Sessions |-> 0]
    /\ file = [s \in Sessions |-> "absent"]
    /\ late = {}
    /\ faults = 0

(***************************************************************************)
(* Faults are either counted, up to MaxFaults of them, or endless: then    *)
(* any number may happen, and they may stop at any moment or never.        *)
(***************************************************************************)
Fault ==
    /\ faults < MaxFaults
    /\ faults' = IF Endless THEN faults ELSE faults + 1

NoFault == faults' = faults

(* No fault happens from now on. *)
Calm == faults = MaxFaults

(* The remote file of s exists and has not been deleted. *)
Live(s) == file[s] \in {"processing", "active", "failed"}

Opens(s, length) ==
    /\ status' = [status EXCEPT ![s] = "open"]
    /\ declared' = [declared EXCEPT ![s] = length]
    /\ UNCHANGED <<received, file>>

(* The session can take bytes from..upto-1 now. *)
Fits(s, from, upto) ==
    status[s] = "open" /\ received[s] = from /\ upto <= declared[s]

Stores(s, upto) ==
    /\ received' = [received EXCEPT ![s] = upto]
    /\ UNCHANGED <<status, declared, file>>

Completes(s, from, upto) ==
    Fits(s, from, upto) /\ upto = declared[s]

Publishes(s) ==
    /\ received' = [received EXCEPT ![s] = declared[s]]
    /\ status' = [status EXCEPT ![s] = "final"]
    /\ file' = [file EXCEPT ![s] = "processing"]
    /\ UNCHANGED declared

Erases(s) ==
    /\ file' = [file EXCEPT ![s] = "deleted"]
    /\ UNCHANGED <<status, declared, received>>

(* A timed-out request stays in the network. *)
Delayed(request) ==
    LateRequests /\ late' = late \union {request} /\ UNCHANGED serverVars

-----------------------------------------------------------------------------
(* Steps the remote side takes on its own. *)

(* A processed file becomes ACTIVE or FAILED. *)
ServerProcesses(s) ==
    /\ file[s] = "processing"
    /\ \E outcome \in {"active", "failed"} :
           file' = [file EXCEPT ![s] = outcome]
    /\ UNCHANGED <<status, declared, received, late, faults>>

(* Endless faults stop. *)
FaultsStop ==
    /\ Endless /\ ~Calm
    /\ faults' = MaxFaults
    /\ UNCHANGED <<serverVars, late>>

(* The session takes the request, or as much of it as gets through.  All   *)
(* the bytes of a finalize without its end create no file.                 *)
StoresSome(s, from, upto) ==
    /\ Fits(s, from, upto)
    /\ \E end \in from + 1 .. upto : Stores(s, end)

(* A late request arrives, whole or in part, and is taken if it still fits. *)
LateArrives(request) ==
    /\ request \in late
    /\ late' = late \ {request}
    /\ \/ StoresSome(request.sid, request.from, request.upto)
       \/ /\ request.kind = "finalize"
          /\ Completes(request.sid, request.from, request.upto)
          /\ Publishes(request.sid)
       \/ /\ IF request.kind = "upload"
             THEN ~Fits(request.sid, request.from, request.upto)
             ELSE ~Completes(request.sid, request.from, request.upto)
          /\ UNCHANGED serverVars
    /\ NoFault
=============================================================================
