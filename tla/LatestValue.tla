---------------------------- MODULE LatestValue ----------------------------
(***************************************************************************)
(* What the preview promises its viewer, with no threads in it: frames are *)
(* offered one after another, and each refresh of the window shows the     *)
(* newest frame offered so far.  Frames may be skipped, never shown twice, *)
(* never shown out of order, and while the window is open the newest one   *)
(* does not wait forever.                                                  *)
(***************************************************************************)
EXTENDS Naturals

VARIABLES
    offered,   \* sequence number of the newest frame offered
    taken,     \* sequence number of the newest frame a refresh took
    open       \* the window still refreshes

vars == <<offered, taken, open>>

TypeOK ==
    /\ offered \in Nat
    /\ taken \in Nat
    /\ open \in BOOLEAN

Init == offered = 0 /\ taken = 0 /\ open = TRUE

Offer == offered' = offered + 1 /\ UNCHANGED <<taken, open>>

Refresh ==
    /\ open
    /\ taken < offered
    /\ taken' = offered
    /\ UNCHANGED <<offered, open>>

Close == open /\ open' = FALSE /\ UNCHANGED <<offered, taken>>

Next == Offer \/ Refresh \/ Close

Spec == Init /\ [][Next]_vars /\ WF_vars(Refresh)
=============================================================================
