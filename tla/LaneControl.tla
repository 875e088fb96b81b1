----------------------------- MODULE LaneControl -----------------------------
(***************************************************************************)
(* The lane follower of CVCameraWrapper.java: a camera frame starts a      *)
(* detection task, the task finds at most one line on each side, decides   *)
(* which of them to trust, derives steering and forward power from them    *)
(* and hands both to the BLE controller of the car.                        *)
(*                                                                         *)
(* Three threads meet here without a lock: the camera thread               *)
(* (onCameraFrame), the AsyncTask that runs DetectLaneTask.doInBackground  *)
(* and the UI thread, which flips isActive and the two reference flags,    *)
(* changes the settings and switches to the parameter page.  The task is   *)
(* cut where it reads a field the UI thread may have changed meanwhile.    *)
(*                                                                         *)
(* Numbers.  channel1Value is a double, the quotient of an integer by      *)
(* VideoWidth, so it is kept here multiplied by VideoWidth; channel2Value  *)
(* is a tenth of an integer, so it is kept multiplied by ten.  Both are    *)
(* then exact integers (the rounding of doubles is left out).              *)
(***************************************************************************)
EXTENDS Integers

CONSTANTS
    VideoWidth,  \* Constants.videoWidth: the width of a detection frame
    Settings,    \* the settings the user can store; a mix of them is one while it is set
    LeftLines,   \* the results the detection can report for the left line,
    RightLines,  \* and for the right one
    Modes,       \* the values of MODE: "normal", and "params" or not
    MissBound    \* bound of the history variable misses

Sides == {"left", "right"}
Setting == [maxLeftRight : 0..100, maxForward : 0..100, errorStop : 0..100]
\* each field of one of the settings, while they are written
Mixed == {m \in Setting : \A field \in DOMAIN m : \E s \in Settings : m[field] = s[field]}
\* slope: the slope is a number, finite and not 0; topX: where the line ends
Line == [slope : BOOLEAN, topX : Int]

ASSUME WidthAssumption == VideoWidth \in Nat \ {0}
ASSUME SettingsAssumption == Settings \subseteq Setting /\ Settings # {}
ASSUME LinesAssumption == LeftLines \subseteq Line /\ RightLines \subseteq Line
ASSUME ModesAssumption == "normal" \in Modes /\ Modes \subseteq {"normal", "params"}
ASSUME MissAssumption ==
    MissBound \in Nat /\ \A s \in Settings : MissBound >= s.errorStop + 1

VARIABLES
    mode,        \* MODE
    setting,     \* MAX_LEFT_RIGHT_POWER, MAX_FORWARD_POWER, DETECTION_ERROR_STOP
    isActive,    \* isActive
    isReference, \* isLeftRefernceLine, isRightRefernceLine
    lastTopX,    \* lastLeftTopX, lastRightTopX
    defaultTopX, \* defaultLeftTopX, defaultRightTopX
    errorCount,  \* DETECT_ERROR_COUNTING
    channel1,    \* channel1Value * VideoWidth
    channel2,    \* channel2Value * 10
    lastTurn,    \* lastTurnValue * VideoWidth
    heldTurn,    \* UN_DETECTION_LEFT_RIGHT_POWER
    sent,        \* what calculateResult was last given and the BLE controller told
    pc,          \* where the detection task is; "idle": testTask is not RUNNING
    line,        \* the task's detection result, t{Left,Right}{Slope,TopX}
    compared,    \* the task's tempLast{Left,Right}TopX
    isDetect,    \* the task's isDetectLeft, isDetectRight
    misses,      \* history: tasks in a row that trusted no line
    lateSends    \* history: non-neutral outputs since isActive was last switched, up to 2

control == <<errorCount, channel1, channel2, lastTurn, heldTurn>>
ui      == <<mode, setting, isActive, isReference>>
memory  == <<lastTopX, defaultTopX>>
local   == <<line, compared, isDetect>>
vars    == <<ui, memory, control, sent, pc, local, misses, lateSends>>

-----------------------------------------------------------------------------
(* Arithmetic of the code.                                                 *)

\* Java's integer division and its cast of a quotient to int: towards zero.
Trunc(a, b) == IF a >= 0 THEN a \div b ELSE -((-a) \div b)
Abs(a) == IF a >= 0 THEN a ELSE -a

NoLine == [slope |-> FALSE, topX |-> 0]
Neutral == [steer |-> 0, power |-> 0]

\* checkLineInEffect: inside the frame, not 0, and less than half a frame away
\* from where the line was last time.
InEffect(x, last) ==
    /\ x > 0
    /\ x <= VideoWidth
    /\ Abs(x - last) < VideoWidth \div 2

\* carDirect 1339-1346: to the range of the maximal steering power.
Unclamped(v) == v
Clamped(v) ==
    LET limit == setting.maxLeftRight * VideoWidth
    IN  IF v > limit THEN limit ELSE IF v < -limit THEN -limit ELSE v

\* getChannel2Value: full power when nearly straight, half of it in a bend,
\* a fifth in a sharp bend.  The thresholds are shares of the FORWARD power.
ForwardPower(turn) ==
    LET percent == 10 * Abs(turn)
        unit    == setting.maxForward * VideoWidth
    IN  CASE percent <= 3 * unit -> 10 * setting.maxForward
          [] percent > 3 * unit /\ percent <= 6 * unit -> 5 * setting.maxForward
          [] OTHER -> 2 * setting.maxForward

\* carDirect 1302-1335: the steering the trusted lines ask for.  A line alone
\* steers only when its default is not 0; otherwise the old value stays.
Steering ==
    LET x == [s \in Sides |-> line[s].topX]
        d == defaultTopX
        max == setting.maxLeftRight
    IN  CASE isDetect["left"] /\ isDetect["right"] ->
               2 * max * (Trunc(x["left"] + x["right"], 2) - Trunc(d["left"] + d["right"], 2))
          [] isDetect["left"] /\ ~isDetect["right"] /\ d["left"] # 0 ->
               max * (x["left"] - d["left"])
          [] isDetect["right"] /\ ~isDetect["left"] /\ d["right"] # 0 ->
               max * (x["right"] - d["right"])
          [] OTHER -> channel1

-----------------------------------------------------------------------------
Init ==
    /\ mode \in Modes
    /\ setting \in Settings
    /\ isActive = FALSE
    /\ isReference = [s \in Sides |-> FALSE]
    /\ lastTopX = [s \in Sides |-> 0]
    /\ defaultTopX = [s \in Sides |-> 0]
    /\ errorCount = 0
    /\ channel1 = 0 /\ channel2 = 0 /\ lastTurn = 0 /\ heldTurn = 0
    /\ sent = Neutral
    /\ pc = "idle"
    /\ line = [s \in Sides |-> NoLine]
    /\ compared = [s \in Sides |-> 0]
    /\ isDetect = [s \in Sides |-> FALSE]
    /\ misses = 0
    /\ lateSends = 0

(* The UI thread. *)

\* The start button and the remote "Active" command.
ToggleActive ==
    /\ isActive' = ~isActive
    /\ lateSends' = 0
    /\ UNCHANGED <<mode, setting, isReference, memory, control, sent, pc, local, misses>>

\* The buttons of the reference lines and the remote commands.
ToggleReference(s) ==
    /\ isReference' = [isReference EXCEPT ![s] = ~@]
    /\ UNCHANGED <<mode, setting, isActive, memory, control, sent, pc, local, misses, lateSends>>

\* setDetectParams and updateSetting, one field at a time: what the old values left
\* behind in the control variables stays.
ChangeSetting(new, field) ==
    /\ setting[field] # new[field]
    /\ setting' = [setting EXCEPT ![field] = new[field]]
    /\ UNCHANGED <<mode, isActive, isReference, memory, control, sent, pc, local, misses, lateSends>>

\* Entering and leaving the page that changes the detection parameters.
ChangeMode(m) ==
    /\ mode' = m
    /\ UNCHANGED <<setting, isActive, isReference, memory, control, sent, pc, local, misses, lateSends>>

(* The camera thread. *)

\* onCameraFrame starts a task unless one is RUNNING; a frame that finds one is
\* only drawn.
CameraFrame ==
    /\ mode = "normal"
    /\ pc = "idle"
    /\ pc' = "detect"
    /\ UNCHANGED <<ui, memory, control, sent, local, misses, lateSends>>

\* onCameraFrame on the parameter page: paramsModeDetectionFunction records the
\* defaults, but not the last positions, and drives nothing.
ParamsFrame(left, right) ==
    /\ mode = "params"
    /\ defaultTopX' = [s \in Sides |->
                         IF isReference[s] THEN defaultTopX[s]
                         ELSE IF s = "left" THEN left.topX ELSE right.topX]
    /\ UNCHANGED <<ui, lastTopX, control, sent, pc, local, misses, lateSends>>

(* DetectLaneTask.doInBackground. *)

\* 996-1036: remember where the lines were, then run the detection.
Detect(left, right) ==
    /\ pc = "detect"
    /\ compared' = lastTopX
    /\ line' = [s \in Sides |-> IF s = "left" THEN left ELSE right]
    /\ pc' = "judge"
    /\ UNCHANGED <<ui, memory, control, sent, isDetect, misses, lateSends>>

\* carDirect 1250-1295: which lines to trust.  Two lines that cross are both
\* dropped, and so is a line without a reference.  The two flags are
\* read in one step: a click writes one of them, and only a frame of the parameter page
\* between two clicks could tell them read one after the other.
Crossed == line["left"].slope /\ line["right"].slope /\ line["left"].topX > line["right"].topX
Trusts(s) ==
    /\ line[s].slope
    /\ ~Crossed
    /\ isReference[s]
    /\ InEffect(line[s].topX, compared[s])
Judge ==
    /\ pc = "judge"
    /\ isDetect' = [s \in Sides |-> Trusts(s)]
    /\ pc' = "steer"
    /\ UNCHANGED <<ui, memory, control, sent, line, compared, misses, lateSends>>

\* UN_DETECTION_LEFT_RIGHT_POWER, the turn to hold once the lane is lost (1357).
HeldTurnOfPreviousLane(turn) == Trunc(lastTurn, VideoWidth)
HeldTurn(turn) == Trunc(turn, VideoWidth)

\* carDirect 1297-1358: at least one line is trusted.
SteerByLane ==
    /\ pc = "steer"
    /\ \E s \in Sides : isDetect[s]
    /\ errorCount' = 0
    /\ misses' = 0
    /\ channel1' = Clamped(Steering)
    /\ lastTurn' = channel1'
    /\ channel2' = ForwardPower(channel1')
    /\ heldTurn' = HeldTurn(lastTurn')
    /\ pc' = "gate"
    /\ UNCHANGED <<ui, memory, sent, local, lateSends>>

\* carDirect 1359-1383: no line.  After DETECTION_ERROR_STOP misses the car
\* stops and keeps the last turn; before that it goes on as it was.
GivesUpAtLimit(count) == count = setting.errorStop
GivesUp(count) == count >= setting.errorStop
UncappedCount(count) == count
CappedCount(count) == IF GivesUp(count) THEN setting.errorStop ELSE count
SteerBlind ==
    /\ pc = "steer"
    /\ \A s \in Sides : ~isDetect[s]
    /\ misses' = IF misses < MissBound THEN misses + 1 ELSE misses
    /\ errorCount' = CappedCount(errorCount + 1)
    /\ IF GivesUp(errorCount + 1)
       THEN channel1' = heldTurn * VideoWidth /\ channel2' = 0
       ELSE UNCHANGED <<channel1, channel2>>
    /\ pc' = "gate"
    /\ UNCHANGED <<ui, memory, lastTurn, heldTurn, sent, local, lateSends>>

\* carDirect 1385-1389.  It zeroes the channels, not lastTurn nor heldTurn.
GateIgnoresInactive ==
    /\ pc = "gate"
    /\ pc' = "send"
    /\ UNCHANGED <<ui, memory, control, sent, local, misses, lateSends>>
Gate ==
    /\ pc = "gate"
    /\ channel1' = IF isActive THEN channel1 ELSE 0
    /\ channel2' = IF isActive THEN channel2 ELSE 0
    /\ pc' = "send"
    /\ UNCHANGED <<ui, memory, errorCount, lastTurn, heldTurn, sent, local, misses, lateSends>>

\* carDirect 1393-1404: the control values go through the two channels to the car.
Output == [steer |-> Trunc(10 * channel1, VideoWidth), power |-> channel2]
Send ==
    /\ pc = "send"
    /\ sent' = Output
    /\ lateSends' = IF isActive \/ Output = Neutral \/ lateSends = 2
                    THEN lateSends ELSE lateSends + 1
    /\ pc' = "record"
    /\ UNCHANGED <<ui, memory, control, local, misses>>

\* 1038-1118: a trusted line becomes the last one; a side whose reference is off
\* (now, 1081 and 1094, after it was read at 1265 and 1270) takes whatever was detected as
\* its default and as its last line.
RecordKeepsLast ==
    /\ pc = "record"
    /\ lastTopX' = [s \in Sides |-> IF isDetect[s] THEN line[s].topX ELSE lastTopX[s]]
    /\ defaultTopX' = [s \in Sides |-> IF ~isReference[s] THEN line[s].topX ELSE defaultTopX[s]]
    /\ pc' = "finish"
    /\ UNCHANGED <<ui, control, sent, local, misses, lateSends>>
Record ==
    /\ pc = "record"
    /\ lastTopX' = [s \in Sides |->
                      IF isDetect[s] \/ ~isReference[s] THEN line[s].topX ELSE lastTopX[s]]
    /\ defaultTopX' = [s \in Sides |-> IF ~isReference[s] THEN line[s].topX ELSE defaultTopX[s]]
    /\ pc' = "finish"
    /\ UNCHANGED <<ui, control, sent, local, misses, lateSends>>

\* The main thread handles the cancellation: the task is no longer RUNNING.
Finish ==
    /\ pc = "finish"
    /\ pc' = "idle"
    /\ line' = [s \in Sides |-> NoLine]
    /\ compared' = [s \in Sides |-> 0]
    /\ isDetect' = [s \in Sides |-> FALSE]
    /\ UNCHANGED <<ui, memory, control, sent, misses, lateSends>>

Task ==
    \/ \E left \in LeftLines, right \in RightLines : Detect(left, right)
    \/ Judge \/ SteerByLane \/ SteerBlind \/ Gate \/ Send \/ Record \/ Finish

Next ==
    \/ ToggleActive
    \/ \E s \in Sides : ToggleReference(s)
    \/ \E new \in Settings, field \in DOMAIN setting : ChangeSetting(new, field)
    \/ \E m \in Modes \ {mode} : ChangeMode(m)
    \/ CameraFrame
    \/ \E left \in LeftLines, right \in RightLines : ParamsFrame(left, right)
    \/ Task

Spec == Init /\ [][Next]_vars

\* A camera that is connected keeps delivering frames, and the executor and the
\* main thread get to run.
FairSpec == Spec /\ WF_vars(CameraFrame) /\ WF_vars(Task)

-----------------------------------------------------------------------------
(* Type invariant. *)
TypeOK ==
    /\ mode \in {"normal", "params"}
    /\ setting \in Mixed
    /\ isActive \in BOOLEAN
    /\ isReference \in [Sides -> BOOLEAN]
    /\ lastTopX \in [Sides -> Int]
    /\ defaultTopX \in [Sides -> Int]
    /\ errorCount \in 0..MissBound
    /\ channel1 \in Int /\ channel2 \in Int /\ lastTurn \in Int /\ heldTurn \in Int
    /\ sent \in [steer : Int, power : Int]
    /\ pc \in {"idle", "detect", "judge", "steer", "gate", "send", "record", "finish"}
    /\ line \in [Sides -> Line]
    /\ compared \in [Sides -> Int]
    /\ isDetect \in [Sides -> BOOLEAN]
    /\ misses \in 0..MissBound
    /\ lateSends \in 0..2

\* Whatever the lines, the settings and their changes, what is handed to the
\* channels is in the range Channel.java scales: -1000..1000 for the steering
\* and 0..1000 for the power (carDirect 1393-1395).
SentInRange ==
    /\ sent.steer \in -1000..1000
    /\ sent.power \in 0..1000

\* A car that lost its lane stops: once more tasks in a row trusted no line than
\* any setting allows, the forward power is 0, and stays 0 until a line is
\* trusted again, whatever is switched or set meanwhile (carDirect 1359-1383).
LaneLost == misses > 0 /\ \A s \in Settings : misses >= s.errorStop
StopsWhenLaneLost ==
    LaneLost => channel2 = 0 /\ (pc \notin {"gate", "send"} => sent.power = 0)

\* While the lane is lost the car does not turn against the last turn it made on
\* a line it trusted (UN_DETECTION_LEFT_RIGHT_POWER, carDirect 1357 and 1367).
LostKeepsDirection ==
    LaneLost /\ pc \notin {"gate", "send"} =>
        /\ sent.steer > 0 => lastTurn > 0
        /\ sent.steer < 0 => lastTurn < 0

\* Only a started car is given the values of the detection, says the comment on
\* isActive (684).  After isActive was cleared at most one more output drives the
\* car: that of the task that had already passed the test at line 1385.
LateSendBound == lateSends <= 1

\* A reference that can be compared with is never paired with a last position
\* that cannot: without the parameter page, defaults and last positions are
\* recorded together (1081-1105), so a visible default implies a visible last.
InFrame(x) == x > 0 /\ x <= VideoWidth
ReferencePairsLast ==
    \A s \in Sides : InFrame(defaultTopX[s]) => InFrame(lastTopX[s])

\* A car switched off for good, with its camera running, is eventually given
\* neutral values and keeps them (carDirect 1385-1401).
EventuallyNeutral ==
    <>[](~isActive /\ mode = "normal") => <>[](sent = Neutral)

=============================================================================
