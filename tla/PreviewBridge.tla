--------------------------- MODULE PreviewBridge ---------------------------
(***************************************************************************)
(* LatestFrame and FrameBridge: the one-slot transport between the thread  *)
(* that decodes frames and the UI thread that shows them, and the flag     *)
(* that keeps a single closure queued at the event loop.                   *)
(*                                                                         *)
(* A frame is its sequence number; 0 stands for no frame.  Each access to  *)
(* the slot (a mutex), the flag (an atomic) and the event loop's queue is  *)
(* a step of its own, so the two threads interleave between any two.       *)
(***************************************************************************)
EXTENDS Naturals

VARIABLES
    frames,       \* Metrics::frames_read, and the sequence of the last frame
    slot,         \* LatestFrame::frame
    dropped,      \* LatestFrame::dropped
    queued,       \* ApplySchedule::queued
    closures,     \* closures waiting in the event loop
    loop,         \* the event loop: starting, running, quitting or ended
    reader,       \* what the decoding thread does next
    ui,           \* idle, or where its closure is
    inHand,       \* the frame the running closure took
    shown,        \* the last frame given to the window
    applied,      \* Metrics::frames_applied
    loopErrors    \* FrameBridge::event_loop_errors

bridgeVars == <<frames, slot, dropped, queued, closures, ui, inHand, shown,
                applied, loopErrors>>

PublishPcs == {"publish", "schedule", "invoke", "complete"}

BridgeTypeOK ==
    /\ frames \in Nat /\ slot \in Nat /\ dropped \in Nat
    /\ queued \in BOOLEAN
    /\ closures \in Nat
    /\ loop \in {"starting", "running", "quitting", "ended"}
    /\ ui \in {"idle", "take", "apply"}
    /\ inHand \in Nat /\ shown \in Nat /\ applied \in Nat
    /\ loopErrors \in Nat

BridgeInit ==
    /\ frames = 0 /\ slot = 0 /\ dropped = 0
    /\ queued = FALSE /\ closures = 0
    /\ loop = "starting"
    /\ ui = "idle" /\ inHand = 0 /\ shown = 0 /\ applied = 0
    /\ loopErrors = 0

(* Closures and timers run on the event loop, one at a time. *)
Dispatching == loop \in {"running", "quitting"}

-----------------------------------------------------------------------------
(* The decoding thread. *)

(* stream_with hands over a complete frame; the callback counts it. *)
CountFrame ==
    /\ frames' = frames + 1
    /\ reader' = "publish"
    /\ UNCHANGED <<slot, dropped, queued, closures, loop, ui, inHand, shown,
                   applied, loopErrors>>

(* Variant: the frame that is replaced is not counted. *)
PublishUncounted ==
    /\ reader = "publish"
    /\ slot' = frames
    /\ reader' = "schedule"
    /\ UNCHANGED <<frames, dropped, queued, closures, loop, ui, inHand, shown,
                   applied, loopErrors>>

(* LatestFrame::publish *)
Publish ==
    /\ reader = "publish"
    /\ slot' = frames
    /\ dropped' = IF slot = 0 THEN dropped ELSE dropped + 1
    /\ reader' = "schedule"
    /\ UNCHANGED <<frames, queued, closures, loop, ui, inHand, shown, applied,
                   loopErrors>>

(* ApplySchedule::try_queue *)
TryQueue ==
    /\ reader = "schedule"
    /\ queued' = TRUE
    /\ reader' = IF queued THEN "read" ELSE "invoke"
    /\ UNCHANGED <<frames, slot, dropped, closures, loop, ui, inHand, shown,
                   applied, loopErrors>>

(* invoke_from_event_loop.  Once the loop has ended the closure is refused *)
(* or never run; both are possible.                                        *)
Invoke ==
    /\ reader = "invoke"
    /\ \/ /\ loop # "ended"
          /\ closures' = closures + 1
          /\ reader' = "read"
          /\ UNCHANGED loopErrors
       \/ /\ loop = "ended"
          /\ reader' = "read"
          /\ UNCHANGED <<closures, loopErrors>>
       \/ /\ loop = "ended"
          /\ loopErrors' = loopErrors + 1
          /\ reader' = "complete"
          /\ UNCHANGED closures
    /\ UNCHANGED <<frames, slot, dropped, queued, loop, ui, inHand, shown,
                   applied>>

(* ApplySchedule::complete, after a refused invocation. *)
Complete ==
    /\ reader = "complete"
    /\ queued' = FALSE
    /\ reader' = "read"
    /\ UNCHANGED <<frames, slot, dropped, closures, loop, ui, inHand, shown,
                   applied, loopErrors>>

-----------------------------------------------------------------------------
(* The UI thread. *)

(* Variant: the closure leaves the flag set. *)
EnterClosureHoldingFlag ==
    /\ Dispatching
    /\ ui = "idle" /\ closures > 0
    /\ closures' = closures - 1
    /\ ui' = "take"
    /\ UNCHANGED <<frames, slot, dropped, queued, loop, reader, inHand, shown,
                   applied, loopErrors>>

(* The closure releases the flag before it looks at the slot. *)
EnterClosure ==
    /\ Dispatching
    /\ ui = "idle" /\ closures > 0
    /\ closures' = closures - 1
    /\ queued' = FALSE
    /\ ui' = "take"
    /\ UNCHANGED <<frames, slot, dropped, loop, reader, inHand, shown, applied,
                   loopErrors>>

(* LatestFrame::take *)
TakeFrame ==
    /\ ui = "take"
    /\ inHand' = slot /\ slot' = 0
    /\ ui' = IF slot = 0 THEN "idle" ELSE "apply"
    /\ UNCHANGED <<frames, dropped, queued, closures, loop, reader, shown,
                   applied, loopErrors>>

ApplyFrame ==
    /\ ui = "apply"
    /\ shown' = inHand /\ inHand' = 0
    /\ applied' = applied + 1
    /\ ui' = "idle"
    /\ UNCHANGED <<frames, slot, dropped, queued, closures, loop, reader,
                   loopErrors>>

(* Variant: the flag is released only after the frame is applied. *)
ApplyFrameReleasing ==
    /\ ui = "apply"
    /\ shown' = inHand /\ inHand' = 0
    /\ applied' = applied + 1
    /\ queued' = FALSE
    /\ ui' = "idle"
    /\ UNCHANGED <<frames, slot, dropped, closures, loop, reader, loopErrors>>

UIThreadReleasingLate ==
    EnterClosureHoldingFlag \/ TakeFrame \/ ApplyFrameReleasing

UIThread == EnterClosure \/ TakeFrame \/ ApplyFrame
-----------------------------------------------------------------------------
(* Properties of the bridge. *)

(* The event loop never holds, or is about to be given, a second closure.  *)
SingleClosure ==
    closures + (IF reader = "invoke" THEN 1 ELSE 0) <= 1

(* While the loop runs, a frame in the slot has somebody who will take it: *)
(* the publisher on its way to the flag, a closure in the queue, or one    *)
(* that has released the flag and not yet looked.                          *)
NoStrandedFrame ==
    slot # 0 /\ loop # "ended" =>
        \/ reader \in {"schedule", "invoke"}
        \/ closures > 0
        \/ ui = "take"

(* Every frame read is shown, replaced, or still on its way, exactly once. *)
FramesAccounted ==
    frames = applied + dropped
             + (IF slot = 0 THEN 0 ELSE 1)
             + (IF inHand = 0 THEN 0 ELSE 1)
             + (IF reader = "publish" THEN 1 ELSE 0)

(* The newest frame that reached the slot. *)
Newest == IF reader = "publish" THEN frames - 1 ELSE frames

(* The slot holds the newest frame only, and what the window shows or is   *)
(* about to show is older than what waits: it never goes back.             *)
NewestFirst ==
    /\ slot # 0 => slot = Newest /\ inHand < slot /\ shown < slot
    /\ inHand # 0 => inHand <= Newest /\ shown < inHand
    /\ shown <= Newest

(* A frame reaches the window at most once and in order, a replaced one is *)
(* counted, and the closures that carry them never pile up, however the    *)
(* decoding thread and the event loop interleave.                          *)
EachFrameOnce == SingleClosure /\ FramesAccounted /\ NewestFirst

(* What the flag, the closures and the frame in hand say of each other;    *)
(* with it the four properties above carry themselves from step to step.   *)
FlagInv ==
    /\ closures > 0 \/ reader = "invoke" => queued
    /\ queued => closures > 0 \/ reader \in {"invoke", "complete"} \/ loop = "ended"
    /\ reader = "complete" => loop = "ended" /\ closures = 0
    /\ ui = "apply" <=> inHand # 0
    /\ reader = "publish" => frames > 0

BridgeInv ==
    /\ SingleClosure /\ NoStrandedFrame /\ FramesAccounted /\ NewestFirst
    /\ FlagInv
=============================================================================
