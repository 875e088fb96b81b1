------------------------- MODULE LaneControlProofs -------------------------
(***************************************************************************)
(* Proofs about LaneControl for every width of the frame, every set of     *)
(* settings and every result of the detection: the type invariant, that    *)
(* the outputs stay in the range of the channels, that a car which lost    *)
(* its lane stops and keeps its turn, that one switched off is driven once *)
(* more at most and then stands, and that references are paired with last  *)
(* positions.                                                              *)
(***************************************************************************)
EXTENDS LaneControl, TLAPS

-----------------------------------------------------------------------------
(* The arithmetic.                                                         *)

\* Java's division of a value that lies within k times the divisor lies within k.
LEMMA TruncBound ==
  ASSUME NEW a \in Int, NEW b \in Nat \ {0}, NEW k \in Nat, a <= k * b, -a <= k * b
  PROVE  Trunc(a, b) \in -k..k
<1>1. ASSUME NEW x \in Nat, x <= k * b
      PROVE  x \div b \in 0..k
  <2>1. x = b * (x \div b) + (x % b) /\ x \div b \in Int /\ x % b \in 0..(b-1)
    OBVIOUS
  <2> DEFINE q == x \div b
  <2>2. q >= 0
    <3>1. SUFFICES ASSUME q <= -1 PROVE FALSE
      BY <2>1
    <3>2. b * q <= -b
      BY <3>1, <2>1
    <3> QED BY <3>2, <2>1
  <2>3. q <= k
    <3>1. SUFFICES ASSUME q >= k + 1 PROVE FALSE
      BY <2>1
    <3>2. b * q >= b * (k + 1)
      BY <3>1, <2>1
    <3>3. b * (k + 1) = k * b + b
      OBVIOUS
    <3> QED BY <3>2, <3>3, <2>1, <1>1
  <2> QED BY <2>1, <2>2, <2>3
<1>2. CASE a >= 0
  BY <1>1, <1>2 DEF Trunc
<1>3. CASE a < 0
  <2>1. -a \in Nat
    BY <1>3
  <2>2. (-a) \div b \in 0..k
    BY <2>1, <1>1
  <2> QED BY <2>2, <1>3 DEF Trunc
<1> QED BY <1>2, <1>3

LEMMA TruncType ==
  ASSUME NEW a \in Int, NEW b \in Nat \ {0}
  PROVE  Trunc(a, b) \in Int
BY DEF Trunc

\* What the operators of carDirect return.
LEMMA SteeringType ==
  ASSUME TypeOK
  PROVE  Steering \in Int
<1> USE DEF TypeOK, Mixed, Setting, Line, Sides
<1>1. /\ setting.maxLeftRight \in Int
      /\ \A s \in Sides : line[s].topX \in Int /\ defaultTopX[s] \in Int
      /\ channel1 \in Int
  OBVIOUS
<1>2. ASSUME NEW a \in Int
      PROVE  Trunc(a, 2) \in Int
  BY TruncType
<1> HIDE DEF TypeOK, Mixed, Setting, Line
<1>3. /\ Trunc(line["left"].topX + line["right"].topX, 2) \in Int
      /\ Trunc(defaultTopX["left"] + defaultTopX["right"], 2) \in Int
  BY <1>1, <1>2
<1> QED BY <1>1, <1>3 DEF Steering

\* However settings are mixed, the limit is that of one of them.
LEMMA LimitOfOne ==
  ASSUME TypeOK
  PROVE  setting.errorStop \in Nat /\ \E s \in Settings : s.errorStop = setting.errorStop
<1>1. setting \in Setting /\ \A f \in DOMAIN setting : \E s \in Settings : setting[f] = s[f]
  BY DEF TypeOK, Mixed
<1>2. DOMAIN setting = {"maxLeftRight", "maxForward", "errorStop"} /\ setting.errorStop \in Nat
  BY <1>1 DEF Setting
<1> QED BY <1>1, <1>2

LEMMA ClampedRange ==
  ASSUME TypeOK, NEW v \in Int
  PROVE  /\ Clamped(v) \in Int
         /\ Clamped(v) <= 100 * VideoWidth
         /\ -Clamped(v) <= 100 * VideoWidth
<1>1. setting.maxLeftRight \in 0..100 /\ VideoWidth \in Nat
  BY WidthAssumption DEF TypeOK, Mixed, Setting
<1>2. setting.maxLeftRight * VideoWidth \in 0..(100 * VideoWidth)
  BY <1>1
<1> QED BY <1>1, <1>2 DEF Clamped

LEMMA ForwardPowerRange ==
  ASSUME TypeOK, NEW turn \in Int
  PROVE  ForwardPower(turn) \in 0..1000
<1>1. setting.maxForward \in 0..100
  BY DEF TypeOK, Mixed, Setting
<1>2. /\ 10 * setting.maxForward \in 0..1000
      /\ 5 * setting.maxForward \in 0..1000
      /\ 2 * setting.maxForward \in 0..1000
  BY <1>1
<1>3. ForwardPower(turn) \in {10 * setting.maxForward, 5 * setting.maxForward, 2 * setting.maxForward}
  BY Zenon DEF ForwardPower
<1> QED BY <1>2, <1>3

-----------------------------------------------------------------------------
(* The variables keep their types.                                         *)

LEMMA InitType == Init => TypeOK
<1> SUFFICES ASSUME Init PROVE TypeOK
  OBVIOUS
<1>1. mode \in {"normal", "params"} /\ setting \in Mixed
  BY ModesAssumption, SettingsAssumption DEF Init, Mixed
<1>2. line \in [Sides -> Line]
  BY DEF Init, NoLine, Line
<1>3. sent \in [steer : Int, power : Int]
  BY DEF Init, Neutral
<1>4. errorCount \in 0..MissBound /\ misses \in 0..MissBound
  BY MissAssumption DEF Init
<1>5. /\ isActive \in BOOLEAN
      /\ isReference \in [Sides -> BOOLEAN] /\ isDetect \in [Sides -> BOOLEAN]
  BY DEF Init
<1>6. /\ lastTopX \in [Sides -> Int] /\ defaultTopX \in [Sides -> Int]
      /\ compared \in [Sides -> Int]
  BY DEF Init
<1>7. /\ channel1 \in Int /\ channel2 \in Int /\ lastTurn \in Int /\ heldTurn \in Int
      /\ lateSends \in 0..2 /\ pc = "idle"
  BY DEF Init
<1> QED BY <1>1, <1>2, <1>3, <1>4, <1>5, <1>6, <1>7 DEF TypeOK

LEMMA StepType ==
  ASSUME TypeOK, [Next]_vars
  PROVE  TypeOK'
<1> USE DEF ui, memory, control, local
<1>1. CASE ToggleActive
  BY <1>1 DEF TypeOK, ToggleActive
<1>2. ASSUME NEW s \in Sides, ToggleReference(s)
      PROVE  TypeOK'
  BY <1>2 DEF TypeOK, ToggleReference
<1>3. ASSUME NEW new \in Settings, NEW field \in DOMAIN setting, ChangeSetting(new, field)
      PROVE  TypeOK'
  <2>1. setting \in Setting /\ new \in Setting
    BY SettingsAssumption DEF TypeOK, Mixed
  <2>2. DOMAIN setting = {"maxLeftRight", "maxForward", "errorStop"}
    BY <2>1 DEF Setting
  <2>3. setting' \in Setting
    BY <1>3, <2>1, <2>2 DEF ChangeSetting, Setting
  <2>4. \A f \in DOMAIN setting' : \E s \in Settings : setting'[f] = s[f]
    <3>1. /\ DOMAIN setting' = DOMAIN setting
          /\ \A f \in DOMAIN setting : setting'[f] = IF f = field THEN new[f] ELSE setting[f]
      BY <1>3, <2>1 DEF ChangeSetting, Setting
    <3>. QED  BY <3>1 DEF TypeOK, Mixed
  <2>5. setting' \in Mixed
    BY <2>3, <2>4 DEF Mixed
  <2> QED BY <1>3, <2>5 DEF TypeOK, ChangeSetting
<1>4. ASSUME NEW m \in Modes, ChangeMode(m)
      PROVE  TypeOK'
  BY <1>4, ModesAssumption DEF TypeOK, ChangeMode
<1>5. CASE CameraFrame
  BY <1>5 DEF TypeOK, CameraFrame
<1>6. ASSUME NEW left \in LeftLines, NEW right \in RightLines, ParamsFrame(left, right)
      PROVE  TypeOK'
  <2>1. left.topX \in Int /\ right.topX \in Int
    BY LinesAssumption DEF Line
  <2> QED BY <1>6, <2>1 DEF TypeOK, ParamsFrame
<1>7. ASSUME NEW left \in LeftLines, NEW right \in RightLines, Detect(left, right)
      PROVE  TypeOK'
  <2>1. left \in Line /\ right \in Line
    BY LinesAssumption
  <2> QED BY <1>7, <2>1 DEF TypeOK, Detect
<1>8. CASE Judge
  <2>1. \A s \in Sides : Trusts(s) \in BOOLEAN
    BY DEF TypeOK, Trusts, Line, Crossed, InEffect
  <2> QED BY <1>8, <2>1 DEF TypeOK, Judge
<1>9. CASE SteerByLane
  <2>1. channel1' \in Int
    BY <1>9, SteeringType, ClampedRange DEF SteerByLane
  <2>2. channel2' \in Int
    BY <1>9, <2>1, ForwardPowerRange DEF SteerByLane
  <2>3. lastTurn' \in Int /\ heldTurn' \in Int
    BY <1>9, <2>1, TruncType, WidthAssumption DEF SteerByLane, HeldTurn
  <2>4. 0 \in 0..MissBound
    BY MissAssumption
  <2> QED BY <1>9, <2>1, <2>2, <2>3, <2>4 DEF TypeOK, SteerByLane
<1>10. CASE SteerBlind
  <2>1. /\ setting.errorStop \in Nat /\ setting.errorStop + 1 <= MissBound
        /\ MissBound \in Nat
    BY LimitOfOne, MissAssumption
  <2>2. errorCount' \in 0..MissBound
    BY <1>10, <2>1 DEF TypeOK, SteerBlind, CappedCount, GivesUp
  <2>3. misses' \in 0..MissBound
    BY <1>10, <2>1 DEF TypeOK, SteerBlind
  <2>4. channel1' \in Int /\ channel2' \in Int
    BY <1>10, WidthAssumption DEF TypeOK, SteerBlind
  <2> QED BY <1>10, <2>2, <2>3, <2>4 DEF TypeOK, SteerBlind
<1>11. CASE Gate
  BY <1>11 DEF TypeOK, Gate
<1>12. CASE Send
  <2>1. Output \in [steer : Int, power : Int]
    BY TruncType, WidthAssumption DEF TypeOK, Output
  <2>2. lateSends' \in 0..2
    BY <1>12 DEF TypeOK, Send
  <2> QED BY <1>12, <2>1, <2>2 DEF TypeOK, Send
<1>13. CASE Record
  BY <1>13 DEF TypeOK, Record, Line
<1>14. CASE Finish
  BY <1>14 DEF TypeOK, Finish, NoLine, Line
<1>15. CASE UNCHANGED vars
  BY <1>15 DEF TypeOK, vars
<1> QED
  BY <1>1, <1>2, <1>3, <1>4, <1>5, <1>6, <1>7, <1>8, <1>9, <1>10, <1>11, <1>12,
     <1>13, <1>14, <1>15 DEF Next, Task

\* Every variable of the lane follower keeps its type, and the miss counter of
\* carDirect never exceeds what the settings allow.
THEOREM TypeCorrect == Spec => []TypeOK
<1>1. Init => TypeOK
  BY InitType
<1>2. TypeOK /\ [Next]_vars => TypeOK'
  BY StepType
<1> QED BY <1>1, <1>2, PTL DEF Spec

-----------------------------------------------------------------------------
(* The outputs stay in the range of the channels.                          *)

\* What makes SentInRange inductive: the values the control keeps between two
\* tasks are those of the widest steering range a setting can have, so lowering
\* the setting afterwards does not matter.
Span == 100 * VideoWidth
Kept ==
    /\ channel1 <= Span /\ -channel1 <= Span
    /\ lastTurn <= Span /\ -lastTurn <= Span
    /\ heldTurn \in -100..100
    /\ channel2 \in 0..1000
RangeInv == Kept /\ SentInRange

LEMMA RangeStep ==
  ASSUME TypeOK, RangeInv, [Next]_vars
  PROVE  RangeInv'
<1> USE DEF RangeInv, control
<1>0. VideoWidth \in Nat /\ VideoWidth >= 1 /\ Span \in Nat
  BY WidthAssumption DEF Span
<1>1. CASE UNCHANGED <<control, sent>>
  BY <1>1 DEF Kept, SentInRange, Span
<1>2. CASE SteerByLane
  <2>1. /\ channel1' \in Int /\ channel1' <= 100 * VideoWidth
        /\ -channel1' <= 100 * VideoWidth /\ lastTurn' = channel1'
    BY <1>2, SteeringType, ClampedRange DEF SteerByLane
  <2>2. channel2' \in 0..1000
    BY <1>2, <2>1, ForwardPowerRange DEF SteerByLane
  <2>3. heldTurn' \in -100..100
    BY <1>2, <2>1, TruncBound, WidthAssumption DEF SteerByLane, HeldTurn
  <2>4. SentInRange'
    BY <1>2 DEF SteerByLane, SentInRange
  <2> QED BY <2>1, <2>2, <2>3, <2>4 DEF Kept, Span
<1>3. CASE SteerBlind
  <2>1. /\ heldTurn * VideoWidth <= Span
        /\ -(heldTurn * VideoWidth) <= Span
    <3>1. heldTurn \in Int /\ heldTurn <= 100 /\ -100 <= heldTurn
      BY DEF Kept
    <3>2. /\ heldTurn * VideoWidth <= 100 * VideoWidth
          /\ (-heldTurn) * VideoWidth <= 100 * VideoWidth
          /\ (-heldTurn) * VideoWidth = -(heldTurn * VideoWidth)
      BY <1>0, <3>1
    <3> QED BY <3>2 DEF Span
  <2>2. SentInRange'
    BY <1>3 DEF SteerBlind, SentInRange
  <2> QED BY <1>3, <2>1, <2>2 DEF SteerBlind, Kept, Span
<1>4. CASE Gate
  BY <1>0, <1>4 DEF Gate, Kept, SentInRange, Span
<1>5. CASE Send
  <2>1. /\ 10 * channel1 \in Int /\ 10 * channel1 <= 1000 * VideoWidth
        /\ -(10 * channel1) <= 1000 * VideoWidth
    BY <1>0 DEF TypeOK, Kept, Span
  <2>2. Trunc(10 * channel1, VideoWidth) \in -1000..1000
    <3> DEFINE a == 10 * channel1
               k == 1000
    <3>1. a \in Int /\ k \in Nat /\ a <= k * VideoWidth /\ -a <= k * VideoWidth
      BY <2>1
    <3> HIDE DEF a, k
    <3>2. Trunc(a, VideoWidth) \in -k..k
      BY <3>1, TruncBound, WidthAssumption
    <3> QED BY <3>2 DEF a, k
  <2>3. SentInRange'
    BY <1>5, <2>2 DEF Send, Output, SentInRange, Kept
  <2>4. Kept'
    BY <1>5 DEF Send, Kept, Span
  <2> QED BY <2>3, <2>4
<1> QED
  BY <1>1, <1>2, <1>3, <1>4, <1>5
     DEF Next, Task, vars, ui, memory, local, ToggleActive, ToggleReference, ChangeSetting,
         ChangeMode, CameraFrame, ParamsFrame, Detect, Judge, Record, Finish

\* Whatever lines are seen and however the settings change, the values handed to
\* the two channels are within the range Channel.java scales.
THEOREM OutputsInRange == Spec => []SentInRange
<1>1. Init => RangeInv
  BY WidthAssumption DEF Init, RangeInv, Kept, SentInRange, Neutral, Span
<1>2. TypeOK /\ RangeInv /\ [Next]_vars => RangeInv'
  BY RangeStep
<1>3. RangeInv => SentInRange
  BY DEF RangeInv
<1> QED BY <1>1, <1>2, <1>3, TypeCorrect, PTL DEF Spec

-----------------------------------------------------------------------------
(* A car that lost its lane stops.                                         *)

\* As long as there is forward power the error counter has not been capped: it
\* counts exactly the misses since a line was last trusted, and at the last of
\* them some setting still allowed to go on.  Outside of the two steps between
\* the decision and the output, the car was told just that power.
Running == channel2 # 0
StopInv ==
    /\ Running => errorCount = misses
    /\ Running /\ misses > 0 => \E s \in Settings : misses < s.errorStop
    /\ pc \notin {"gate", "send"} => sent.power = channel2

LEMMA StopStep ==
  ASSUME TypeOK, StopInv, [Next]_vars
  PROVE  StopInv'
<1> USE DEF StopInv, Running
<1>1. CASE UNCHANGED <<control, sent, misses>> /\ (pc' \in {"gate", "send"} <=> pc \in {"gate", "send"})
  BY <1>1 DEF control
<1>2. CASE SteerByLane
  BY <1>2 DEF SteerByLane
<1>3. CASE SteerBlind
  <2>1. CASE GivesUp(errorCount + 1)
    BY <1>3, <2>1 DEF SteerBlind
  <2>2. CASE ~GivesUp(errorCount + 1)
    <3>1. /\ channel2' = channel2 /\ errorCount' = errorCount + 1
          /\ misses' = IF misses < MissBound THEN misses + 1 ELSE misses
          /\ pc' = "gate"
      BY <1>3, <2>2 DEF SteerBlind, CappedCount
    <3>2. /\ \E s \in Settings : s.errorStop = setting.errorStop
          /\ setting.errorStop \in Nat /\ errorCount \in Nat /\ misses \in Nat
          /\ MissBound \in Nat /\ setting.errorStop + 1 <= MissBound
      BY LimitOfOne, MissAssumption DEF TypeOK
    <3>3. errorCount + 1 < setting.errorStop
      BY <2>2, <3>2 DEF GivesUp
    <3>4. Running => misses' = errorCount + 1
      BY <3>1, <3>2, <3>3
    <3> QED BY <3>1, <3>2, <3>3, <3>4
  <2> QED BY <2>1, <2>2
<1>4. CASE Gate
  BY <1>4 DEF Gate
<1>5. CASE Send
  BY <1>5 DEF Send, Output, control
<1>6. CASE Judge \/ CameraFrame \/ Record \/ Finish
  BY <1>6, <1>1 DEF Judge, CameraFrame, Record, Finish
<1> QED
  BY <1>1, <1>2, <1>3, <1>4, <1>5, <1>6
     DEF Next, Task, vars, ToggleActive, ToggleReference, ChangeSetting, ChangeMode,
         ParamsFrame, Detect

\* Whatever the lines, switches, settings and modes do meanwhile, a car that has
\* missed its lane more often in a row than every setting allows has no power.
THEOREM LaneLostStops == Spec => []StopsWhenLaneLost
<1>1. Init => StopInv
  BY DEF Init, StopInv, Running, Neutral
<1>2. TypeOK /\ StopInv /\ [Next]_vars => StopInv'
  BY StopStep
<1>3. TypeOK /\ StopInv => StopsWhenLaneLost
  <2> SUFFICES ASSUME TypeOK, StopInv, LaneLost
               PROVE  channel2 = 0 /\ (pc \notin {"gate", "send"} => sent.power = 0)
    BY DEF StopsWhenLaneLost
  <2>1. \A s \in Settings : s.errorStop \in Nat /\ misses \in Nat
    BY SettingsAssumption, MissAssumption DEF Setting, TypeOK
  <2> QED BY <2>1 DEF StopInv, Running, LaneLost
<1> QED BY <1>1, <1>2, <1>3, TypeCorrect, PTL DEF Spec

-----------------------------------------------------------------------------
(* A car that is switched off is driven at most once more.                 *)

\* An output counted as late was that of a task that had passed the test of isActive;
\* every task that comes to the output after it met the test and has nothing to send.
LateInv ==
    /\ LateSendBound
    /\ isActive => lateSends = 0
    /\ lateSends = 1 /\ pc = "send" => channel1 = 0 /\ channel2 = 0

LEMMA ZeroIsNeutral == channel1 = 0 /\ channel2 = 0 => Output = Neutral
<1>1. Trunc(10 * 0, VideoWidth) = 0
  BY WidthAssumption DEF Trunc
<1> QED BY <1>1 DEF Output, Neutral

LEMMA LateStep ==
  ASSUME TypeOK, LateInv, [Next]_vars
  PROVE  LateInv'
<1> USE DEF LateInv, LateSendBound
<1>1. CASE ToggleActive
  BY <1>1 DEF ToggleActive
<1>2. CASE /\ UNCHANGED <<isActive, lateSends>>
           /\ UNCHANGED <<pc, channel1, channel2>> \/ pc' # "send"
  BY <1>2
<1>3. CASE Gate
  BY <1>3 DEF Gate, ui, TypeOK
<1>4. CASE Send
  <2>1. lateSends' \in 0..1 /\ (isActive => lateSends' = 0)
    BY <1>4, ZeroIsNeutral DEF Send, TypeOK
  <2> QED BY <1>4, <2>1 DEF Send, ui
<1> QED
  BY <1>1, <1>2, <1>3, <1>4
     DEF Next, Task, vars, ui, control, ToggleReference, ChangeSetting, ChangeMode, CameraFrame,
         ParamsFrame, Detect, Judge, SteerByLane, SteerBlind, Record, Finish

\* However the car is switched and whatever its lane, an output that drives it while
\* it is off comes at most once after each switch.
THEOREM OneLateSend == Spec => []LateSendBound
<1>1. Init => LateInv
  BY DEF Init, LateInv, LateSendBound
<1>2. TypeOK /\ LateInv /\ [Next]_vars => LateInv'
  BY LateStep
<1>3. LateInv => LateSendBound
  BY DEF LateInv
<1> QED BY <1>1, <1>2, <1>3, TypeCorrect, PTL DEF Spec

\* The car was last told to stand, and no task is about to tell it anything else.
AtRest == sent = Neutral /\ (pc = "send" => channel1 = 0 /\ channel2 = 0)

\* While the car is off it stays at rest once it is (carDirect 1385-1401).
RestsWhileOff == [][~isActive /\ ~isActive' /\ AtRest => AtRest']_vars

LEMMA RestStep ==
  ASSUME [Next]_vars, ~isActive, ~isActive', AtRest
  PROVE  AtRest'
<1> USE DEF AtRest
<1>1. CASE Gate
  BY <1>1 DEF Gate
<1>2. CASE Send
  BY <1>2, ZeroIsNeutral DEF Send
<1>3. CASE UNCHANGED sent /\ (UNCHANGED <<pc, channel1, channel2>> \/ pc' # "send")
  BY <1>3
<1> QED
  BY <1>1, <1>2, <1>3
     DEF Next, Task, vars, ui, control, ToggleActive, ToggleReference, ChangeSetting,
         ChangeMode, CameraFrame, ParamsFrame, Detect, Judge, SteerByLane, SteerBlind, Record,
         Finish

\* What the liveness property EventuallyNeutral rests on: a car that is off and stands is
\* told nothing else until it is switched on, however many tasks run meanwhile, whatever
\* they detect and whatever turn is held (carDirect 1385-1401).
THEOREM RestsUntilSwitchedOn == Spec => RestsWhileOff
<1>1. [Next]_vars => (~isActive /\ ~isActive' /\ AtRest => AtRest')
  BY RestStep
<1> QED BY <1>1, PTL DEF Spec, RestsWhileOff

-----------------------------------------------------------------------------
(* A car that lost its lane keeps its last turn.                           *)

\* The turn of a lost car is the one it held, or none.  Until it gave up, the error
\* counter has kept pace with the misses, so it cannot be lost for all settings yet.
GaveUp == channel1 = 0 \/ channel1 = heldTurn * VideoWidth
TurnInv ==
    /\ heldTurn = HeldTurn(lastTurn)
    /\ \/ GaveUp
       \/ errorCount = misses /\ (misses > 0 => \E s \in Settings : misses < s.errorStop)
    /\ pc \notin {"gate", "send"} => sent.steer = Trunc(10 * channel1, VideoWidth)

\* A quotient has the sign of its dividend, or is 0.
LEMMA TruncSign ==
  ASSUME NEW a \in Int, NEW b \in Nat \ {0}
  PROVE  /\ a >= 0 => Trunc(a, b) >= 0
         /\ a <= 0 => Trunc(a, b) <= 0
<1>1. ASSUME NEW x \in Nat
      PROVE  x \div b \in Nat
  OBVIOUS
<1>2. CASE a > 0
  BY <1>1, <1>2 DEF Trunc
<1>3. CASE a = 0
  <2>1. 0 \div b = 0
    OBVIOUS
  <2> QED BY <1>3, <2>1 DEF Trunc
<1>4. CASE a < 0
  <2>1. -a \in Nat /\ (-a) \div b \in Nat
    BY <1>1, <1>4
  <2> QED BY <1>4, <2>1 DEF Trunc
<1> QED BY <1>2, <1>3, <1>4

LEMMA TurnStep ==
  ASSUME TypeOK, TurnInv, [Next]_vars
  PROVE  TurnInv'
<1> USE DEF TurnInv, GaveUp
<1>1. CASE UNCHANGED <<control, sent, misses>> /\ (pc' \in {"gate", "send"} <=> pc \in {"gate", "send"})
  BY <1>1 DEF control, HeldTurn
<1>2. CASE SteerByLane
  BY <1>2 DEF SteerByLane, HeldTurn
<1>3. CASE SteerBlind
  <2>1. heldTurn' = HeldTurn(lastTurn') /\ pc' = "gate" /\ heldTurn' = heldTurn
    BY <1>3 DEF SteerBlind, HeldTurn
  <2>2. CASE GivesUp(errorCount + 1)
    BY <1>3, <2>1, <2>2 DEF SteerBlind
  <2>3. CASE ~GivesUp(errorCount + 1)
    <3>1. /\ channel1' = channel1 /\ errorCount' = errorCount + 1
          /\ misses' = IF misses < MissBound THEN misses + 1 ELSE misses
      BY <1>3, <2>3 DEF SteerBlind, CappedCount
    <3>2. /\ \E s \in Settings : s.errorStop = setting.errorStop
          /\ setting.errorStop \in Nat /\ errorCount \in Nat /\ misses \in Nat
          /\ MissBound \in Nat /\ setting.errorStop + 1 <= MissBound
      BY LimitOfOne, MissAssumption DEF TypeOK
    <3>3. errorCount + 1 < setting.errorStop
      BY <2>3, <3>2 DEF GivesUp
    <3>4. CASE GaveUp
      BY <2>1, <3>1, <3>4
    <3>5. CASE ~GaveUp
      <4>1. errorCount = misses
        BY <3>5
      <4>2. misses' = errorCount' /\ misses' < setting.errorStop
        BY <3>1, <3>2, <3>3, <4>1
      <4> QED BY <2>1, <3>2, <4>2
    <3> QED BY <3>4, <3>5
  <2> QED BY <2>2, <2>3
<1>4. CASE Gate
  BY <1>4 DEF Gate, HeldTurn
<1>5. CASE Send
  BY <1>5 DEF Send, Output, control, HeldTurn
<1>6. CASE Judge \/ CameraFrame \/ Record \/ Finish
  BY <1>6, <1>1 DEF Judge, CameraFrame, Record, Finish
<1> QED
  BY <1>1, <1>2, <1>3, <1>4, <1>5, <1>6
     DEF Next, Task, vars, ToggleActive, ToggleReference, ChangeSetting, ChangeMode,
         ParamsFrame, Detect

\* Whatever was switched or set since, a car that has missed its lane more often in a row
\* than every setting allows is not turned against its last turn on a lane.
THEOREM LostKeepsTurn == Spec => []LostKeepsDirection
<1>1. Init => TurnInv
  <2>1. Trunc(10 * 0, VideoWidth) = 0 /\ Trunc(0, VideoWidth) = 0
    BY WidthAssumption DEF Trunc
  <2> QED BY <2>1 DEF Init, TurnInv, GaveUp, Neutral, HeldTurn
<1>2. TypeOK /\ TurnInv /\ [Next]_vars => TurnInv'
  BY TurnStep
<1>3. TypeOK /\ TurnInv => LostKeepsDirection
  <2> SUFFICES ASSUME TypeOK, TurnInv, LaneLost, pc \notin {"gate", "send"}
               PROVE  /\ sent.steer > 0 => lastTurn > 0
                      /\ sent.steer < 0 => lastTurn < 0
    BY DEF LostKeepsDirection
  <2>1. \A s \in Settings : s.errorStop \in Nat /\ misses \in Nat
    BY SettingsAssumption, MissAssumption DEF Setting, TypeOK
  <2>2. GaveUp
    BY <2>1 DEF TurnInv, LaneLost
  <2>3. /\ channel1 \in Int /\ lastTurn \in Int /\ heldTurn \in Int
        /\ 10 * channel1 \in Int /\ VideoWidth \in Nat \ {0}
        /\ sent.steer = Trunc(10 * channel1, VideoWidth)
        /\ heldTurn = Trunc(lastTurn, VideoWidth)
    BY WidthAssumption DEF TypeOK, TurnInv, HeldTurn
  <2>4. (heldTurn <= 0 => channel1 <= 0) /\ (heldTurn >= 0 => channel1 >= 0)
    BY <2>2, <2>3 DEF GaveUp
  <2>5. (channel1 <= 0 => sent.steer <= 0) /\ (channel1 >= 0 => sent.steer >= 0)
    <3>1. (channel1 <= 0 => 10 * channel1 <= 0) /\ (channel1 >= 0 => 10 * channel1 >= 0)
      BY <2>3
    <3> QED BY <2>3, <3>1, TruncSign
  <2>6. (lastTurn <= 0 => heldTurn <= 0) /\ (lastTurn >= 0 => heldTurn >= 0)
    BY <2>3, TruncSign
  <2>7. sent.steer \in Int
    BY DEF TypeOK
  <2> QED BY <2>3, <2>4, <2>5, <2>6, <2>7
<1> QED BY <1>1, <1>2, <1>3, TypeCorrect, PTL DEF Spec

-----------------------------------------------------------------------------
(* References and last positions.                                          *)

\* Without the parameter page a default is recorded only with a last position, and a
\* last position without a default only where a line was trusted, which is in the frame.
PairInv ==
    /\ mode = "normal"
    /\ ReferencePairsLast
    /\ pc \in {"steer", "gate", "send", "record"} =>
         \A s \in Sides : isDetect[s] => InFrame(line[s].topX)

LEMMA PairStep ==
  ASSUME Modes = {"normal"}, TypeOK, PairInv, [Next]_vars
  PROVE  PairInv'
<1> USE DEF PairInv, ReferencePairsLast
<1>1. CASE /\ UNCHANGED <<mode, memory, line, isDetect>>
           /\ pc' \in {"steer", "gate", "send", "record"} => pc \in {"steer", "gate", "send", "record"}
  BY <1>1 DEF memory
<1>2. CASE Judge
  <2>1. \A s \in Sides : Trusts(s) => InFrame(line[s].topX)
    BY DEF Trusts, InEffect, InFrame
  <2>2. \A s \in Sides : isDetect'[s] => InFrame(line[s].topX)
    BY <1>2, <2>1 DEF Judge
  <2> QED BY <1>2, <2>2 DEF Judge, ui, memory
<1>3. CASE Record
  <2>1. ASSUME NEW s \in Sides, InFrame(defaultTopX'[s])
        PROVE  InFrame(lastTopX'[s])
    <3>1. lastTopX'[s] = IF isDetect[s] \/ ~isReference[s] THEN line[s].topX ELSE lastTopX[s]
      BY <1>3 DEF Record
    <3>2. defaultTopX'[s] = IF ~isReference[s] THEN line[s].topX ELSE defaultTopX[s]
      BY <1>3 DEF Record
    <3>3. isDetect[s] => InFrame(line[s].topX)
      BY <1>3 DEF Record
    <3> QED BY <2>1, <3>1, <3>2, <3>3
  <2> QED BY <1>3, <2>1 DEF Record, ui
<1>4. CASE (\E left \in LeftLines, right \in RightLines : Detect(left, right)) \/ Finish
  BY <1>4 DEF Detect, Finish, ui, memory
<1>5. ASSUME NEW m \in Modes, m # mode
      PROVE  FALSE
  BY <1>5
<1> QED
  BY <1>1, <1>2, <1>3, <1>4, <1>5
     DEF Next, Task, vars, ui, memory, local, ToggleActive, ToggleReference, ChangeSetting,
         CameraFrame, ParamsFrame, SteerByLane, SteerBlind, Gate, Send

\* A car that is never shown the parameter page does not compare a line with a reference
\* for which it has no last position, whenever the references are switched.
THEOREM ReferencesPaired ==
  ASSUME Modes = {"normal"}
  PROVE  Spec => []ReferencePairsLast
<1>1. Init => PairInv
  BY DEF Init, PairInv, ReferencePairsLast, InFrame
<1>2. TypeOK /\ PairInv /\ [Next]_vars => PairInv'
  BY PairStep
<1>3. PairInv => ReferencePairsLast
  BY DEF PairInv
<1> QED BY <1>1, <1>2, <1>3, TypeCorrect, PTL DEF Spec

=============================================================================
