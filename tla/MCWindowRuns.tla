---------------------------- MODULE MCWindowRuns ----------------------------
(***************************************************************************)
(* The two commands that run an event loop, one at a time: a preview, or,  *)
(* after a preview that could not show its window, a tray lifecycle.  They *)
(* share nothing, so one way for the first to be over is enough.           *)
(***************************************************************************)
EXTENDS PreviewRun

VARIABLES trayMain, trayAutomation, fallback, trayLoop, trayLoopFailed,
          trayTimers, visible, metrics, trayProof, story, hand

Tray == INSTANCE TrayLifecycle WITH
    main <- trayMain, automation <- trayAutomation, loop <- trayLoop,
    loopFailed <- trayLoopFailed, timers <- trayTimers, proof <- trayProof

trayVars == <<trayMain, trayAutomation, fallback, trayLoop, trayLoopFailed,
              trayTimers, visible, metrics, trayProof, story, hand>>

WindowInit == Init /\ Tray!Init

WindowNext ==
    \/ Next /\ UNCHANGED trayVars
    \/ main = "aborted" /\ reader = "spawn" /\ Tray!Next /\ UNCHANGED vars

WindowSpec ==
    WindowInit /\ [][WindowNext]_<<vars, trayVars>> /\ Fairness /\ Tray!Fairness

(* A PASS is of an automated run whose window was closed to the tray and   *)
(* came back.                                                              *)
TrayPassIsEarned == Tray!PassIsEarned

(* An automated run nobody touches fails for one of four causes only.      *)
TrayFailureHasACause == Tray!FailureHasACause

(* The matrix judges a tray proof as the command did, but for the failsafe *)
(* and a broken event loop.                                                *)
TrayProofAndVerdict == Tray!ProofAndVerdict

(* An automated tray run ends by itself, and any ends when asked to.       *)
TrayRunEnds == Tray!TrayRunEnds
=============================================================================
