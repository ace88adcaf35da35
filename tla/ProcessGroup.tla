---------------------------- MODULE ProcessGroup ----------------------------
(***************************************************************************)
(* GroupedProcess: a child that leads a process group, the grandchild it   *)
(* reports, and a caller that waits for the report, kills the group within *)
(* a deadline, drops the guard, or gives up in the middle of any of these. *)
(* process_smoke is the caller that also probes the tree and writes a      *)
(* proof.                                                                  *)
(*                                                                         *)
(* Time is not counted: wherever the code gives a wait a deadline, the     *)
(* wait may end at any moment, however long the processes take.            *)
(***************************************************************************)
EXTENDS Naturals

CONSTANT HoldStderr     \* the grandchild inherits the leader's stderr

ASSUME HoldStderrAssumption == HoldStderr \in BOOLEAN

VARIABLES
    state,      \* what the operating system knows of each member
    doomed,     \* members that were sent SIGKILL
    line,       \* the report on the leader's stdout
    child,      \* GroupedProcess::child
    capture,    \* the task behind GroupedProcess::stderr_capture
    reaper,     \* the thread a drop starts
    pc,         \* where the caller is
    cause,      \* why kill_and_wait runs: a call of its own or a bad report
    last,       \* what the last call returned
    tree,       \* a ProcessTree was returned
    parentDead, \* what process_smoke's first probe said
    proof       \* the proof of process_smoke on disk, or NoProof

osVars == <<state, doomed, line>>
guardVars == <<child, capture, reaper>>
smokeVars == <<tree, parentDead, proof>>
vars == <<osVars, guardVars, pc, cause, last, smokeVars>>

Members == {"leader", "leaf"}
Alive == {m \in Members : state[m] = "alive"}

(* A zombie still has an entry, with its start time, in the process table. *)
Visible(m) == state[m] \in {"alive", "zombie"}

NoProof == [elapsed |-> 0]
Proofs == [parent_dead : BOOLEAN, grandchild_dead : BOOLEAN,
           elapsed : {5000, 5001}]

TypeOK ==
    /\ state \in [Members -> {"unborn", "alive", "zombie", "gone"}]
    /\ doomed \subseteq {m \in Members : state[m] # "unborn"}
    /\ line \in {"unsent", "tree", "junk", "read"}
    /\ child \in {"none", "held", "taken"}
    /\ capture \in {"none", "running", "finished", "detached"}
    /\ reaper \in {"none", "running", "failed"}
    /\ pc \in {"spawn", "observe", "owned", "read", "parent", "leaf", "kill",
               "wait", "collect", "probe", "dropped", "refused"}
    /\ cause \in {"call", "report"}
    /\ last \in {"none", "tree", "report_error", "killed", "kill_error"}
    /\ tree \in BOOLEAN /\ parentDead \in BOOLEAN
    /\ proof \in Proofs \union {NoProof}

Init ==
    /\ state = [m \in Members |-> "unborn"]
    /\ doomed = {}
    /\ line = "unsent"
    /\ child = "none" /\ capture = "none" /\ reaper = "none"
    /\ pc = "spawn" /\ cause = "call" /\ last = "none"
    /\ tree = FALSE /\ parentDead = FALSE
    /\ proof = NoProof

-----------------------------------------------------------------------------
(* The operating system and the two members. *)

LeaderForks ==
    /\ state["leader"] = "alive" /\ "leader" \notin doomed
    /\ state["leaf"] = "unborn"
    /\ state' = [state EXCEPT !["leaf"] = "alive"]
    /\ UNCHANGED <<doomed, line, guardVars, pc, cause, last, smokeVars>>

(* One line, a report or not, after the leaf was started. *)
LeaderWrites ==
    /\ state["leader"] = "alive" /\ "leader" \notin doomed
    /\ state["leaf"] # "unborn"
    /\ line = "unsent"
    /\ line' \in {"tree", "junk"}
    /\ UNCHANGED <<state, doomed, guardVars, pc, cause, last, smokeVars>>

(* A member exits by itself or from the signal.  The leader's parent is    *)
(* the caller; the leaf's is the leader, then init.                        *)
Dies(m) ==
    /\ state[m] = "alive"
    /\ state' = [state EXCEPT ![m] =
                    IF m = "leaf" /\ state["leader"] # "alive"
                    THEN "gone" ELSE "zombie"]
    /\ UNCHANGED <<doomed, line, guardVars, pc, cause, last, smokeVars>>

InitReaps ==
    /\ state["leaf"] = "zombie" /\ state["leader"] # "alive"
    /\ state' = [state EXCEPT !["leaf"] = "gone"]
    /\ UNCHANGED <<doomed, line, guardVars, pc, cause, last, smokeVars>>

(* The thread started by drop waits for the leader. *)
ReaperReaps ==
    /\ reaper = "running"
    /\ state["leader"] = "zombie"
    /\ state' = [state EXCEPT !["leader"] = "gone"]
    /\ UNCHANGED <<doomed, line, guardVars, pc, cause, last, smokeVars>>

(* The capture task reads until nobody holds the pipe. *)
CaptureEnds ==
    /\ capture \in {"running", "detached"}
    /\ state["leader"] # "alive"
    /\ HoldStderr => state["leaf"] # "alive"
    /\ capture' = IF capture = "running" THEN "finished" ELSE "none"
    /\ UNCHANGED <<osVars, child, reaper, pc, cause, last, smokeVars>>

-----------------------------------------------------------------------------
(* GroupedProcess::spawn *)

SpawnFails ==
    /\ pc = "spawn"
    /\ pc' = "refused"
    /\ UNCHANGED <<osVars, guardVars, cause, last, smokeVars>>

GroupSpawn ==
    /\ pc = "spawn"
    /\ state' = [state EXCEPT !["leader"] = "alive"]
    /\ pc' = "observe"
    /\ UNCHANGED <<doomed, line, guardVars, cause, last, smokeVars>>

ObserveLeader ==
    /\ pc = "observe"
    /\ Visible("leader")
    /\ child' = "held" /\ capture' = "running"
    /\ pc' = "owned"
    /\ UNCHANGED <<osVars, reaper, cause, last, smokeVars>>

(* No pid, no entry in the process table or no stdout: the error returns   *)
(* before there is a guard, and the plain child it drops is not killed.    *)
LeaderUnobserved ==
    /\ pc = "observe"
    /\ pc' = "refused"
    /\ UNCHANGED <<osVars, guardVars, cause, last, smokeVars>>

-----------------------------------------------------------------------------
(* wait_for_reported_tree *)

CallRead ==
    /\ pc = "owned"
    /\ pc' = "read"
    /\ UNCHANGED <<osVars, guardVars, cause, last, smokeVars>>

ReadTree ==
    /\ pc = "read"
    /\ line = "tree" /\ line' = "read"
    /\ pc' = "parent"
    /\ UNCHANGED <<state, doomed, guardVars, cause, last, smokeVars>>

(* Variant: the error returns at once. *)
CleanupSkipped ==
    /\ pc' = "owned" /\ last' = "report_error"
    /\ UNCHANGED <<state, doomed, guardVars, cause, smokeVars>>

(* with_cleanup *)
Cleanup ==
    /\ pc' = "kill" /\ cause' = "report"
    /\ UNCHANGED <<state, doomed, guardVars, last, smokeVars>>

(* A line that is no report, the end of the pipe, or the timeout. *)
ReadFails ==
    /\ pc = "read"
    /\ \/ line = "junk" /\ line' = "read"
       \/ UNCHANGED line
    /\ Cleanup

ObserveParent ==
    /\ pc = "parent"
    /\ Visible("leader")
    /\ pc' = "leaf"
    /\ UNCHANGED <<osVars, guardVars, cause, last, smokeVars>>

ObserveGrandchild ==
    /\ pc = "leaf"
    /\ Visible("leaf")
    /\ pc' = "owned" /\ last' = "tree" /\ tree' = TRUE
    /\ UNCHANGED <<osVars, guardVars, cause, parentDead, proof>>

Unobservable ==
    /\ \/ pc = "parent" /\ ~Visible("leader")
       \/ pc = "leaf" /\ ~Visible("leaf")
    /\ Cleanup /\ UNCHANGED line

-----------------------------------------------------------------------------
(* kill_and_wait *)

CallKill ==
    /\ pc = "owned"
    /\ pc' = "kill" /\ cause' = "call"
    /\ UNCHANGED <<osVars, guardVars, last, smokeVars>>

Return(ok) ==
    /\ pc' = "owned"
    /\ last' = IF ~ok THEN "kill_error"
               ELSE IF cause = "call" THEN "killed" ELSE "report_error"
    /\ UNCHANGED <<osVars, reaper, cause, smokeVars>>

KillNothing ==
    /\ pc = "kill"
    /\ child # "held"
    /\ Return(TRUE)
    /\ UNCHANGED <<child, capture>>

(* Variant: the signal goes to the leader only, not to its group. *)
KillLeader ==
    /\ pc = "kill"
    /\ child = "held"
    /\ doomed' = doomed \union (Alive \intersect {"leader"})
    /\ pc' = "wait"
    /\ UNCHANGED <<state, line, guardVars, cause, last, smokeVars>>

(* The signal reaches every member; that the leader has exited already is  *)
(* no error.                                                               *)
KillGroup ==
    /\ pc = "kill"
    /\ child = "held"
    /\ doomed' = doomed \union Alive
    /\ pc' = "wait"
    /\ UNCHANGED <<state, line, guardVars, cause, last, smokeVars>>

(* An error, of the signal when it finds nobody or of the wait, and the    *)
(* timeout: the capture is given up, the child is kept for the drop.       *)
KillFails ==
    /\ \/ pc = "kill" /\ child = "held" /\ Alive = {}
       \/ pc = "wait"
    /\ capture' = IF capture = "detached" THEN "detached" ELSE "none"
    /\ Return(FALSE)
    /\ UNCHANGED child

(* The wait reaps the leader; the leaf is not a child of this process. *)
WaitReaps ==
    /\ pc = "wait"
    /\ state["leader"] = "zombie"
    /\ state' = [state EXCEPT !["leader"] = "gone"]
    /\ child' = "taken"
    /\ pc' = "collect"
    /\ UNCHANGED <<doomed, line, capture, reaper, cause, last, smokeVars>>

Collected ==
    /\ pc = "collect"
    /\ capture # "running"
    /\ capture' = IF capture = "detached" THEN "detached" ELSE "none"
    /\ Return(TRUE)
    /\ UNCHANGED child

(* Variant: the capture is awaited however long it takes. *)
CollectFailsUntimed ==
    /\ pc = "collect"
    /\ capture = "finished"
    /\ capture' = "none"
    /\ Return(FALSE)
    /\ UNCHANGED child

(* The capture failed, or the deadline that the wait began has passed. *)
CollectFails ==
    /\ pc = "collect"
    /\ capture \in {"running", "finished"}
    /\ capture' = "none"
    /\ Return(FALSE)
    /\ UNCHANGED child

(* The caller drops the future at an await.  A capture being collected is  *)
(* then on its own.                                                        *)
Abandon ==
    /\ pc \in {"read", "wait", "collect"}
    /\ pc' = "owned" /\ last' = "none"
    /\ capture' = IF pc = "collect" /\ capture = "running" THEN "detached"
                  ELSE IF pc = "collect" /\ capture = "finished" THEN "none"
                  ELSE capture
    /\ UNCHANGED <<osVars, child, reaper, cause, smokeVars>>

-----------------------------------------------------------------------------
(* Variant: the child is only waited for. *)
DropWithoutKill ==
    /\ pc = "owned"
    /\ pc' = "dropped"
    /\ capture' = IF capture = "detached" THEN "detached" ELSE "none"
    /\ \/ /\ child = "held" /\ child' = "none"
          /\ reaper' \in {"running", "failed"}
       \/ child # "held" /\ UNCHANGED <<child, reaper>>
    /\ UNCHANGED <<osVars, cause, last, smokeVars>>

(* Drop for GroupedProcess: the signal at once, the wait in a thread that  *)
(* may fail to start.                                                      *)
Drop ==
    /\ pc = "owned"
    /\ pc' = "dropped"
    /\ capture' = IF capture = "detached" THEN "detached" ELSE "none"
    /\ \/ /\ child = "held" /\ child' = "none"
          /\ doomed' = doomed \union Alive
          /\ reaper' \in {"running", "failed"}
       \/ child # "held" /\ UNCHANGED <<child, doomed, reaper>>
    /\ UNCHANGED <<state, line, cause, last, smokeVars>>

(* Variant: any_alive that stops at the parent. *)
AnyAliveParent == Visible("leader")

(* ProcessTreeProbe::any_alive.  The start time makes a reused pid another *)
(* process.                                                                *)
AnyAlive == Visible("leader") \/ Visible("leaf")

(* process_smoke asks twice, drops the guard, whose child was taken, and   *)
(* writes.                                                                 *)
ProbeParent ==
    /\ pc = "owned"
    /\ tree /\ last = "killed"
    /\ pc' = "probe"
    /\ parentDead' = ~AnyAlive
    /\ UNCHANGED <<osVars, guardVars, cause, last, tree, proof>>

ProbeGrandchildAndWrite ==
    /\ pc = "probe"
    /\ pc' = "dropped"
    /\ \E elapsed \in {5000, 5001} :
          proof' = [parent_dead |-> parentDead, grandchild_dead |-> ~AnyAlive,
                    elapsed |-> elapsed]
    /\ UNCHANGED <<osVars, guardVars, cause, last, tree, parentDead>>

(* validate_typed_proof *)
MatrixAccepts ==
    /\ proof # NoProof
    /\ proof.parent_dead /\ proof.grandchild_dead
    /\ proof.elapsed <= 5000

-----------------------------------------------------------------------------
OS ==
    \/ LeaderForks \/ LeaderWrites
    \/ \E m \in Members : Dies(m)
    \/ InitReaps \/ ReaperReaps \/ CaptureEnds

Spawn == SpawnFails \/ GroupSpawn \/ ObserveLeader \/ LeaderUnobserved

WaitForReportedTree ==
    ReadTree \/ ReadFails \/ ObserveParent \/ ObserveGrandchild \/ Unobservable

KillAndWait ==
    \/ KillNothing \/ KillGroup \/ KillFails
    \/ WaitReaps \/ Collected \/ CollectFails

Next ==
    \/ OS
    \/ Spawn
    \/ CallRead \/ WaitForReportedTree
    \/ CallKill \/ KillAndWait
    \/ Abandon \/ Drop
    \/ ProbeParent \/ ProbeGrandchildAndWrite

Spec == Init /\ [][Next]_vars

(***************************************************************************)
(* Fairness.  The caller's own steps, and the deadlines among them,        *)
(* happen; the processes owe nothing.                                      *)
(***************************************************************************)
CallSpec == Spec /\ WF_vars(WaitForReportedTree \/ KillAndWait)

(* What the operating system owes: a killed member dies, init and a        *)
(* waiting thread reap, a task whose pipe is closed ends.                  *)
SystemDelivers ==
    /\ \A m \in Members : WF_vars(m \in doomed /\ Dies(m))
    /\ WF_vars(InitReaps)
    /\ WF_vars(ReaperReaps)
    /\ WF_vars(CaptureEnds)

-----------------------------------------------------------------------------
(* Properties *)

(* When the guard is gone, every member still alive has been killed. *)
NoSurvivors == pc = "dropped" => Alive \subseteq doomed

(* A call that reports a bad report or a finished kill has reaped the      *)
(* leader and killed the rest of the group: `such failure terminates and   *)
(* reaps the group before the error is returned'.                          *)
ReturnsAreTrue ==
    last \in {"report_error", "killed"} =>
        state["leader"] = "gone" /\ Alive \subseteq doomed

(* The matrix accepts a proof only of a tree that is dead and stays dead.  *)
AcceptedMeansDead ==
    MatrixAccepts => \A m \in Members : state[m] = "gone"

(* Every call returns by its deadlines, whatever the processes do. *)
InCall == pc \in {"read", "parent", "leaf", "kill", "wait", "collect"}
CallsReturn == InCall ~> ~InCall

(* After the guard is gone the group dies, its pipe closes, the task that  *)
(* reads it ends, and unless no thread could be started the leader is      *)
(* reaped.                                                                 *)
DroppedLeavesNothing ==
    SystemDelivers =>
        (pc = "dropped" ~>
            /\ Alive = {}
            /\ capture = "none"
            /\ reaper # "failed" => state["leader"] = "gone")

(* GroupedProcess "always kills its whole process group/job object on      *)
(* cleanup": also when spawn itself returns an error.                      *)
EveryEndKills == pc \in {"dropped", "refused"} => Alive \subseteq doomed

(* Where the child is, and from which moment on nobody in the group is     *)
(* both alive and unsignalled.                                             *)
ChildInv ==
    /\ pc \in {"spawn", "observe", "refused"} =>
          child = "none" /\ last = "none" /\ ~tree
    /\ pc \in {"owned", "read", "parent", "leaf", "kill"} => child # "none"
    /\ pc = "wait" => child = "held" /\ Alive \subseteq doomed
    /\ pc \in {"collect", "probe"} => child = "taken"
    /\ child = "held" => pc # "dropped"
    /\ child = "taken" => state["leader"] = "gone"
    /\ child = "taken" \/ pc = "dropped" => Alive \subseteq doomed
    /\ last \in {"report_error", "killed"} => child = "taken"
    /\ tree => state["leaf"] # "unborn"
    /\ pc = "probe" => tree
    /\ pc # "dropped" => proof = NoProof

(* The inductive invariant. *)
GroupInv == ChildInv /\ AcceptedMeansDead
=============================================================================
