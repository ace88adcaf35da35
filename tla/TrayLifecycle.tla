---------------------------- MODULE TrayLifecycle ----------------------------
(***************************************************************************)
(* run_tray_lifecycle: a window that closes to the tray, or stays open     *)
(* under a warning when there is no tray, the single-shot timers that      *)
(* close, observe, restore and quit it, a user who may do the same by      *)
(* hand, and the proof of what was observed.                               *)
(*                                                                         *)
(* Timers fire in the order of their deadlines, at any time: an event loop *)
(* that was held up fires all that are due before it looks at anything     *)
(* else, a request to quit included.                                       *)
(***************************************************************************)
EXTENDS Sequences

VARIABLES
    main,       \* where run_tray_lifecycle is
    automation, \* --automation
    fallback,   \* unavailable_category: no tray, forced or because it failed
    loop,       \* the event loop: starting, running, quitting or ended
    loopFailed, \* run_event_loop_until_quit returned an error
    timers,     \* automation timers still to fire, in order of deadline
    visible,    \* the window
    metrics,    \* TrayMetrics
    proof,      \* the proof on disk, or NoProof
    story,      \* history: the window was shown, then hidden, then back
    hand        \* history: a user touched the window or the tray

vars == <<main, automation, fallback, loop, loopFailed, timers, visible,
          metrics, proof, story, hand>>

Timers == {"close", "observe", "restore", "look", "quit", "failsafe"}

TrayMetrics ==
    [close_event : BOOLEAN, close_callback : BOOLEAN, hidden : BOOLEAN,
     restore_callback : BOOLEAN, restored : BOOLEAN, quit_callback : BOOLEAN,
     accessible : BOOLEAN, warning : BOOLEAN, failsafe : BOOLEAN]

NoProof == [quit |-> "none"]

Proofs ==
    [hidden : BOOLEAN, restored : BOOLEAN, quit : BOOLEAN]
      \union [accessible : BOOLEAN, warning_shown : BOOLEAN, quit : BOOLEAN]

TypeOK ==
    /\ main \in {"idle", "show", "loop", "report", "ok", "failed", "aborted"}
    /\ automation \in BOOLEAN /\ fallback \in BOOLEAN
    /\ loop \in {"starting", "running", "quitting", "ended"}
    /\ loopFailed \in BOOLEAN
    /\ timers \in Seq(Timers)
    /\ visible \in BOOLEAN
    /\ metrics \in TrayMetrics
    /\ proof \in Proofs \union {NoProof}
    /\ story \in {"shown", "hidden", "back"}
    /\ hand \in BOOLEAN

Init ==
    /\ main = "idle" /\ automation = FALSE /\ fallback = FALSE
    /\ loop = "starting" /\ loopFailed = FALSE /\ timers = <<>>
    /\ visible = FALSE
    /\ metrics = [close_event |-> FALSE, close_callback |-> FALSE,
                  hidden |-> FALSE, restore_callback |-> FALSE,
                  restored |-> FALSE, quit_callback |-> FALSE,
                  accessible |-> FALSE, warning |-> FALSE, failsafe |-> FALSE]
    /\ proof = NoProof
    /\ story = "shown" /\ hand = FALSE

-----------------------------------------------------------------------------
(* What the handlers do to the window and its metrics. *)

(* A tray that cannot be created is a fallback like a forced one.          *)
Launch ==
    /\ main = "idle"
    /\ main' = "show"
    /\ automation' \in BOOLEAN /\ fallback' \in BOOLEAN
    /\ metrics' = [metrics EXCEPT !.warning = fallback']
    /\ UNCHANGED <<loop, loopFailed, timers, visible, proof, story, hand>>

(* Variants: the window is observed first; the fallback is never quit. *)
ScheduleObserving ==
    IF fallback THEN <<"observe", "close", "quit", "failsafe">>
    ELSE <<"observe", "close", "restore", "look", "quit", "failsafe">>

ScheduleUnended ==
    IF fallback THEN <<"close", "observe">>
    ELSE <<"close", "observe", "restore", "look", "quit", "failsafe">>

Schedule ==
    IF fallback THEN <<"close", "observe", "quit", "failsafe">>
    ELSE <<"close", "observe", "restore", "look", "quit", "failsafe">>

Show ==
    /\ main = "show"
    /\ main' = "loop" /\ loop' = "running" /\ visible' = TRUE
    /\ timers' = IF automation THEN Schedule ELSE <<>>
    /\ UNCHANGED <<automation, fallback, loopFailed, metrics, proof, story, hand>>

ShowFails ==
    /\ main = "show"
    /\ main' = "aborted"
    /\ UNCHANGED <<automation, fallback, loop, loopFailed, timers, visible,
                   metrics, proof, story, hand>>

Dispatching == loop \in {"running", "quitting"}

Fires(timer) ==
    /\ Dispatching
    /\ timers # <<>> /\ Head(timers) = timer
    /\ timers' = Tail(timers)

Hides ==
    visible' = FALSE /\ story' = IF story = "shown" /\ visible THEN "hidden" ELSE story

Shows ==
    visible' = TRUE /\ story' = IF story = "hidden" THEN "back" ELSE story

Stays == UNCHANGED <<visible, story>>

(* The close handler answers HideWindow, or KeepWindowShown without a      *)
(* tray; hiding may fail.                                                  *)
CloseRequested(ok) == IF ok /\ ~fallback THEN Hides ELSE Stays

(* Variant: the callback leaves no trace of its own. *)
RestoreUnrecorded(ok) ==
    /\ metrics' = [metrics EXCEPT !.restored = @ \/ ok]
    /\ IF ok THEN Shows ELSE Stays

(* Showing may fail. *)
Restore(ok) ==
    /\ metrics' = [metrics EXCEPT !.restore_callback = TRUE,
                                  !.restored = @ \/ ok]
    /\ IF ok THEN Shows ELSE Stays

Quit ==
    /\ metrics' = [metrics EXCEPT !.quit_callback = TRUE]
    /\ loop' = "quitting"

-----------------------------------------------------------------------------
(* schedule_tray_automation: 100, 175, 250, 350, 500 and 5000 ms. *)

CloseByTimer ==
    /\ Fires("close")
    /\ \E ok \in BOOLEAN :
         /\ CloseRequested(ok)
         /\ metrics' = [metrics EXCEPT !.close_callback = TRUE,
                                       !.close_event = ok \/ fallback]
    /\ UNCHANGED <<main, automation, fallback, loop, loopFailed, proof, hand>>

(* Variant: the close handler's word is taken for the window's state. *)
ObserveCallback ==
    /\ Fires("observe")
    /\ metrics' = IF fallback THEN [metrics EXCEPT !.accessible = visible,
                                                   !.warning = TRUE]
                  ELSE [metrics EXCEPT !.hidden = metrics.close_callback]
    /\ UNCHANGED <<main, automation, fallback, loop, loopFailed, visible,
                   proof, story, hand>>

(* The warning and the status text are what the fallback set. *)
Observe ==
    /\ Fires("observe")
    /\ metrics' = IF fallback THEN [metrics EXCEPT !.accessible = visible,
                                                   !.warning = TRUE]
                  ELSE [metrics EXCEPT !.hidden = ~visible]
    /\ UNCHANGED <<main, automation, fallback, loop, loopFailed, visible,
                   proof, story, hand>>

RestoreByTimer ==
    /\ Fires("restore")
    /\ \E ok \in BOOLEAN : Restore(ok)
    /\ UNCHANGED <<main, automation, fallback, loop, loopFailed, proof, hand>>

Look ==
    /\ Fires("look")
    /\ metrics' = [metrics EXCEPT !.restored = visible]
    /\ UNCHANGED <<main, automation, fallback, loop, loopFailed, visible,
                   proof, story, hand>>

QuitByTimer ==
    /\ Fires("quit")
    /\ Quit
    /\ UNCHANGED <<main, automation, fallback, loopFailed, visible, proof,
                   story, hand>>

Failsafe ==
    /\ Fires("failsafe")
    /\ metrics' = [metrics EXCEPT !.failsafe = TRUE]
    /\ loop' = "quitting"
    /\ UNCHANGED <<main, automation, fallback, loopFailed, visible, proof,
                   story, hand>>

TimerFires ==
    CloseByTimer \/ Observe \/ RestoreByTimer \/ Look \/ QuitByTimer \/ Failsafe

-----------------------------------------------------------------------------
(* The user, on the window's frame, its Quit button, or the tray's menu. *)

UserCloses ==
    /\ loop = "running" /\ visible
    /\ \E ok \in BOOLEAN : CloseRequested(ok)
    /\ metrics' = [metrics EXCEPT !.close_callback = TRUE]
    /\ hand' = TRUE
    /\ UNCHANGED <<main, automation, fallback, loop, loopFailed, timers, proof>>

UserRestores ==
    /\ loop = "running" /\ ~fallback
    /\ \E ok \in BOOLEAN : Restore(ok)
    /\ hand' = TRUE
    /\ UNCHANGED <<main, automation, fallback, loop, loopFailed, timers, proof>>

UserQuits ==
    /\ loop = "running" /\ (visible \/ ~fallback)
    /\ Quit
    /\ hand' = TRUE
    /\ UNCHANGED <<main, automation, fallback, loopFailed, timers, visible,
                   proof, story>>

User == UserCloses \/ UserRestores \/ UserQuits

-----------------------------------------------------------------------------
(* The end of the run. *)

LoopEnds ==
    /\ \/ loop = "quitting" /\ UNCHANGED loopFailed
       \/ Dispatching /\ loopFailed' = TRUE
    /\ loop' = "ended" /\ main' = "report"
    /\ UNCHANGED <<automation, fallback, timers, visible, metrics, proof,
                   story, hand>>

Passed ==
    /\ metrics.close_callback
    /\ IF fallback THEN metrics.accessible /\ metrics.warning
       ELSE metrics.hidden /\ metrics.restore_callback /\ metrics.restored
    /\ metrics.quit_callback
    /\ ~metrics.failsafe
    /\ ~loopFailed

WriteProof ==
    /\ main = "report"
    /\ proof' = IF fallback
                THEN [accessible |-> metrics.accessible,
                      warning_shown |-> metrics.warning,
                      quit |-> metrics.quit_callback]
                ELSE [hidden |-> metrics.hidden, restored |-> metrics.restored,
                      quit |-> metrics.quit_callback]
    /\ main' = IF Passed THEN "ok" ELSE "failed"
    /\ UNCHANGED <<automation, fallback, loop, loopFailed, timers, visible,
                   metrics, story, hand>>

WriteFails ==
    /\ main = "report"
    /\ main' = "failed"
    /\ UNCHANGED <<automation, fallback, loop, loopFailed, timers, visible,
                   metrics, proof, story, hand>>

-----------------------------------------------------------------------------
Next ==
    \/ Launch \/ Show \/ ShowFails
    \/ TimerFires \/ User
    \/ LoopEnds \/ WriteProof \/ WriteFails

Spec == Init /\ [][Next]_vars

(***************************************************************************)
(* Fairness.  The event loop fires the timers that are due and ends when   *)
(* it is asked to.  Nobody has to start a run or touch it.                 *)
(***************************************************************************)
Fairness ==
    /\ WF_vars(Show \/ ShowFails)
    /\ WF_vars(TimerFires)
    /\ WF_vars(loop = "quitting" /\ LoopEnds)
    /\ WF_vars(WriteProof \/ WriteFails)

FairSpec == Spec /\ Fairness

-----------------------------------------------------------------------------
(* Properties *)

(* validate_typed_proof *)
MatrixAccepts ==
    /\ proof # NoProof
    /\ IF fallback THEN proof.accessible /\ proof.warning_shown
       ELSE proof.hidden /\ proof.restored
    /\ proof.quit

(* PASS means an automated run whose window really was closed to the tray  *)
(* and, unless somebody played with it, came back from there; without a    *)
(* tray the window was never hidden at all.                                *)
PassIsEarned ==
    /\ fallback => story = "shown"
    /\ main = "ok" => automation
    /\ main = "ok" /\ ~fallback => story = "back" \/ (hand /\ story = "hidden")

(* An automated run nobody touches fails only for a cause: a window that   *)
(* could not be hidden or shown, an event loop that broke or was held up   *)
(* beyond the failsafe, a proof that could not be written.                 *)
FailureHasACause ==
    main = "failed" /\ automation /\ ~hand =>
        \/ ~metrics.close_event
        \/ ~fallback /\ story = "hidden"
        \/ loopFailed \/ metrics.failsafe
        \/ proof = NoProof

(* The proof lacks four of the facts the command's own verdict looks at.   *)
(* Two of them, the callbacks of close and restore, follow from what it    *)
(* has: the matrix accepts every proof of a PASS, and a proof of a FAIL    *)
(* only if the failsafe fired or the event loop broke.                     *)
ProofAndVerdict ==
    /\ main = "ok" => MatrixAccepts
    /\ MatrixAccepts /\ main = "failed" => metrics.failsafe \/ loopFailed

(* An automated run ends by itself, in both modes, and any run ends once   *)
(* it was asked to quit.                                                   *)
TrayRunEnds ==
    /\ main = "show" /\ automation ~> main \in {"ok", "failed", "aborted"}
    /\ loop = "quitting" ~> main \in {"ok", "failed"}
=============================================================================
