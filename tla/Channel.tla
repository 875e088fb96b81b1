------------------------------- MODULE Channel -------------------------------
(***************************************************************************)
(* A channel of the car (Channel.java): it turns a coordinate between      *)
(* -RANGE and RANGE, from the lane follower or from a thumb on the screen, *)
(* into the pulse of a servo.  The user sets the two ends and the middle   *)
(* of the pulse, whether the servo is mounted the other way round, and a   *)
(* curve that makes it slower or faster around the middle.                 *)
(*                                                                         *)
(* The pulse is a float, the middle plus a multiple of 1/RANGE; it is kept *)
(* here multiplied by RANGE and so an integer.  (The rounding of floats is *)
(* left out.)  Mixing one channel into another is not modelled: its only   *)
(* caller, CustomerSetting.java 165-184, is commented out.                 *)
(***************************************************************************)
EXTENDS Integers

CONSTANTS
    RANGE,       \* Constants.Channel.RANGE
    Pulses,      \* the pulses of the servos the user can choose from
    Coordinates, \* the coordinates the callers give
    Root         \* Math.sqrt: the integer part of the root of RANGE times a value

ASSUME RangeAssumption == RANGE \in Nat \ {0}
ASSUME PulsesAssumption == Pulses \subseteq Nat
ASSUME CoordinatesAssumption == Coordinates \subseteq -RANGE..RANGE
ASSUME RootAssumption ==
    \A v \in 0..RANGE :
        /\ Root[v] \in Nat
        /\ Root[v] * Root[v] <= RANGE * v
        /\ RANGE * v < (Root[v] + 1) * (Root[v] + 1)

Curves == {"linear", "slow", "slower", "fast", "faster"}

VARIABLES
    minimunValue, middleValue, maximunValue, \* the pulses at -RANGE, at 0 and at RANGE
    ExpotentailSelect, \* the curve
    Reverse,           \* the servo is mounted the other way round
    oldValue,          \* the coordinate given last
    ChannelValue       \* the pulse, multiplied by RANGE

trim == <<minimunValue, middleValue, maximunValue>>
setting == <<trim, ExpotentailSelect, Reverse>>
vars == <<setting, oldValue, ChannelValue>>

-----------------------------------------------------------------------------
(* The curves, for a coordinate above the middle. *)

\* 494-519: a tenth of the value, squared or its root, brought back to the range
\* (the factors 0.1 and 100 in the code are those of a RANGE of 1000).
\* Mutants: the factors as if the value were a percentage.
SlowDownPercent(v) == (v * v) \div (10 * RANGE)
speedUpPercent(v) == Root[v] \div 10
SlowDownValue(v) == (v * v) \div RANGE
speedUpValue(v) == Root[v]

Curve(v) ==
    IF ExpotentailSelect = "slow" THEN (SlowDownValue(v) + v) \div 2
    ELSE IF ExpotentailSelect = "slower" THEN SlowDownValue(v)
    ELSE IF ExpotentailSelect = "fast" THEN (speedUpValue(v) + v) \div 2
    ELSE IF ExpotentailSelect = "faster" THEN speedUpValue(v)
    ELSE v

HighScale == maximunValue - middleValue
LowScale == middleValue - minimunValue

\* Mutants: one scale for both halves; the sign of the left half lost.
OneScale(value) ==
    middleValue * RANGE + (IF value > 0 THEN Curve(value) ELSE -Curve(-value)) * HighScale
LosesSign(value) ==
    middleValue * RANGE + (IF value > 0 THEN Curve(value) * HighScale ELSE Curve(-value) * LowScale)

\* calExpontenialValue: the curve of the distance from the middle, scaled to the
\* half of the pulse the coordinate is in.
calExpontenialValue(value) ==
    IF value = 0 THEN middleValue * RANGE
    ELSE IF value > 0 THEN middleValue * RANGE + Curve(value) * HighScale
    ELSE middleValue * RANGE - Curve(-value) * LowScale

\* calculateResult 302-306: the sign is turned unless Reverse is set.
Result(coordinate) == calExpontenialValue(IF Reverse THEN coordinate ELSE -coordinate)

\* The callers cut the pulse to an int (CVCameraWrapper 1397-1398).
Pulse(value) == value \div RANGE

-----------------------------------------------------------------------------
\* The constructor (50-67) with the settings of the user: the setting page keeps
\* the middle between the two ends (ChannelSettingPage 34-35, 515-546).
Init ==
    /\ minimunValue \in Pulses /\ middleValue \in Pulses /\ maximunValue \in Pulses
    /\ minimunValue <= middleValue /\ middleValue <= maximunValue
    /\ ExpotentailSelect \in Curves
    /\ Reverse \in BOOLEAN
    /\ oldValue = 0
    /\ ChannelValue = middleValue * RANGE

calculateResult(coordinate) ==
    /\ oldValue' = coordinate
    /\ ChannelValue' = Result(coordinate)
    /\ UNCHANGED setting

Next == \E coordinate \in Coordinates : calculateResult(coordinate)

Spec == Init /\ [][Next]_vars

-----------------------------------------------------------------------------
(* Type invariant. *)
TypeOK ==
    /\ minimunValue \in Nat /\ middleValue \in Nat /\ maximunValue \in Nat
    /\ minimunValue <= middleValue /\ middleValue <= maximunValue
    /\ ExpotentailSelect \in Curves
    /\ Reverse \in BOOLEAN
    /\ oldValue \in -RANGE..RANGE
    /\ ChannelValue \in Nat

\* Whatever the ends, the middle, the curve and the direction, no coordinate
\* drives the servo beyond its ends (calExpontenialValue 390-486).
WithinEnds == minimunValue * RANGE <= ChannelValue /\ ChannelValue <= maximunValue * RANGE

\* On every curve more steering is never answered with less: a coordinate
\* further to one side gives a pulse at least as far to that side.
Monotone ==
    \A c \in Coordinates : c >= oldValue =>
        IF Reverse THEN Result(c) >= ChannelValue ELSE Result(c) <= ChannelValue

\* The curve changes what lies between, not the ends: on every curve a full
\* coordinate is the pulse the user set for that end, also after the cut to an int.
ReachesEnds ==
    /\ oldValue = RANGE => Pulse(ChannelValue) = IF Reverse THEN maximunValue ELSE minimunValue
    /\ oldValue = -RANGE => Pulse(ChannelValue) = IF Reverse THEN minimunValue ELSE maximunValue

\* The names of the curves (comment at 393-398): a slow one stays nearer to the
\* middle than the straight line would, a fast one goes further, on both sides.
Distance(v) == IF v >= middleValue * RANGE THEN v - middleValue * RANGE ELSE middleValue * RANGE - v
Straight ==
    LET value == IF Reverse THEN oldValue ELSE -oldValue
    IN  IF value > 0 THEN value * HighScale ELSE -value * LowScale
CurveAsNamed ==
    /\ ExpotentailSelect \in {"slow", "slower"} => Distance(ChannelValue) <= Straight
    /\ ExpotentailSelect \in {"fast", "faster"} => Distance(ChannelValue) >= Straight

=============================================================================
