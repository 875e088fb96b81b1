---------------------------- MODULE FrameHandoff ----------------------------
(***************************************************************************)
(* What UVCPreview promises the receiver of its pictures: it is given some *)
(* of the pictures the camera took, each at most once, never an older one  *)
(* after a newer one, and none once the preview has been stopped.          *)
(***************************************************************************)
EXTENDS Integers

VARIABLES
    taken,  \* the pictures the camera has handed over
    given,  \* the newest one the receiver was given, 0 for none
    calls,  \* how often it was given one
    open    \* the stop has not returned

Init == taken = 0 /\ given = 0 /\ calls = 0 /\ open = TRUE

Take == open /\ taken' = taken + 1 /\ UNCHANGED <<given, calls, open>>

Give ==
    /\ open
    /\ given' \in (given + 1)..taken
    /\ calls' = calls + 1
    /\ UNCHANGED <<taken, open>>

Close == open' = FALSE /\ UNCHANGED <<taken, given, calls>>

Next == Take \/ Give \/ Close
Spec == Init /\ [][Next]_<<taken, given, calls, open>>
=============================================================================
