---------------------------- MODULE FrameListener ----------------------------
(***************************************************************************)
(* What CameraView promises its listener (CvCameraViewListener2): it is    *)
(* told in turn that the view started and stopped, is given no picture     *)
(* after it was told of the stop, and of each camera's pictures some, each *)
(* at most once and never an older one after a newer one.  Pictures may    *)
(* come as soon as the view connects, before the listener is told of it.   *)
(***************************************************************************)
EXTENDS Integers

CONSTANT Cameras

VARIABLES
    phase,  \* "stopped", "connecting" or "started"
    taken,  \* for each camera, the pictures it has taken
    given,  \* for each camera, the newest picture given, or 0
    calls   \* how often the listener was given a picture

Init ==
    /\ phase = "stopped"
    /\ taken = [c \in Cameras |-> 0] /\ given = [c \in Cameras |-> 0]
    /\ calls = 0

Turn(from, to) == phase = from /\ phase' = to /\ UNCHANGED <<taken, given, calls>>

Take(c) == taken' = [taken EXCEPT ![c] = @ + 1] /\ UNCHANGED <<phase, given, calls>>

Give(c) ==
    /\ phase # "stopped"
    /\ \E n \in (given[c] + 1)..taken[c] : given' = [given EXCEPT ![c] = n]
    /\ calls' = calls + 1
    /\ UNCHANGED <<phase, taken>>

Next ==
    \/ Turn("stopped", "connecting") \/ Turn("connecting", "started")
    \/ Turn("started", "stopped")
    \/ \E c \in Cameras : Take(c) \/ Give(c)

Spec == Init /\ [][Next]_<<phase, taken, given, calls>>
=============================================================================
