--------------------------- MODULE MCLaneControl ---------------------------
(* Small instances of LaneControl: a frame six pixels wide, so that a line  *)
(* is refused when it jumps three pixels or more.                              *)
EXTENDS LaneControl

Seen(x) == [slope |-> TRUE, topX |-> x]

\* Lines two pixels apart are followed, a line that appears at 3 or beyond is
\* too far from where a side starts, and both sides together can turn the car
\* by two thirds of its range.
MCLeft == {NoLine, Seen(1), Seen(3)}
MCRight == {NoLine, Seen(3), Seen(5)}
MCNone == {NoLine}
\* A line the detection lost reports a position outside of the frame.
MCLeftFar == {[slope |-> FALSE, topX |-> -9], Seen(1), Seen(2)}

MCOneSetting == {[maxLeftRight |-> 10, maxForward |-> 10, errorStop |-> 2]}
\* Steering and limit change, one after the other.
MCSettings == {[maxLeftRight |-> 100, maxForward |-> 80, errorStop |-> 2],
               [maxLeftRight |-> 40, maxForward |-> 80, errorStop |-> 1]}
MCNormal == {"normal"}
MCBothModes == {"normal", "params"}
=============================================================================
