---------------------------- MODULE RemoteControl ----------------------------
(***************************************************************************)
(* The remote control: the app in controller mode (CommandActivity,        *)
(* ChangeDetectionParamsPage and Client.java) steers the app in the car    *)
(* (Commissioner.java and the handler of UsbWebCamActivity or FdActivity). *)
(*                                                                         *)
(* Every 500 ms the controller sends everything it wants in one datagram;  *)
(* the car does what the datagram says, whatever it did before.  Nothing   *)
(* is acknowledged and nothing is numbered: a lost datagram is made good   *)
(* by the next one, and a late one undoes what a newer one said.           *)
(*                                                                         *)
(* The sender thread reads the fields one after the other while the user   *)
(* changes them, the car's receiver thread hands the messages to its main  *)
(* thread through a queue, and both activities come and go.                *)
(***************************************************************************)
EXTENDS Integers, Sequences, FiniteSets, SequencesExt

CONSTANTS
    Fields,      \* the switches of the instance, of those in ReadingOrder
    Parameters,  \* the detection parameters the user can send
    NoParameter, \* currentDetectionParameter is null
    MaxClicks,   \* bound: clicks on a switch of the controller
    MaxPresses,  \* bound: presses of a button of the car
    MaxFaults,   \* bound: datagrams lost, duplicated or swapped
    MaxInFlight, \* bound: datagrams on their way
    MaxQueue     \* bound: messages waiting for the car's main thread

\* The order in which sendMessageRunnable reads the switches (Client.java 239-245).
ReadingOrder == <<"Active", "stream", "leftReferentLine", "rightReferentLine", "isRecord">>

Switches == Range(Fields)

ASSUME FieldsAssumption ==
    /\ Fields \in Seq(Range(ReadingOrder))
    /\ Fields = SelectSeq(ReadingOrder, LAMBDA s : s \in Switches)
    /\ "Active" \in Switches
ASSUME ParameterAssumption == NoParameter \notin Parameters
ASSUME BoundsAssumption == {MaxClicks, MaxPresses, MaxFaults, MaxInFlight, MaxQueue} \subseteq Nat

VARIABLES
    wanted,     \* the controller's isActive, isStartStream, isLeftReferenceLine, ...
    selected,   \* the buttons of the page that show their switch on
    held,       \* currentDetectionParameter: what the finger is on
    clicks,     \* clicks so far
    page,       \* a page of the controller is resumed and its sender runs
    reading,    \* the sender's place: 0 sleeps, k reads switch k, then the parameter
    draft,      \* the message it is composing
    isCrashed,  \* the controller's process has ended with a null pointer
    net,        \* the datagrams on their way, oldest first
    faults,     \* what went wrong so far
    queue,      \* the messages waiting in the handler of the car, oldest first
    activity,   \* the activity of the car is resumed and its receiver runs
    applied,    \* the car's isActive, isStartSendVideo, isLeftRefernceLine, ...
    isRecordStart, \* isRecordStart: the recorder runs
    parameter,  \* the detection parameters of the car
    presses,    \* presses of the car's buttons so far
    newest,     \* history: the click count the last message was composed at
    setbacks    \* history: messages applied after one composed later

controller == <<wanted, selected, held, clicks, page>>
composer   == <<reading, draft, isCrashed>>
network    == <<net, faults>>
car        == <<queue, activity, applied, isRecordStart, parameter, presses, newest, setbacks>>
vars       == <<controller, composer, network, car>>

TestPlace == Len(Fields) + 1
UsePlace == Len(Fields) + 2
SendPlace == Len(Fields) + 3

\* A message: the value of every switch, perhaps parameters, and (for the
\* history) the number of clicks when its composition began.
Message == [switches : [Switches -> BOOLEAN], parameter : Parameters \union {NoParameter}, at : 0..MaxClicks]

Off == [s \in Switches |-> FALSE]
Blank == [switches |-> Off, parameter |-> NoParameter, at |-> 0]

-----------------------------------------------------------------------------
Init ==
    /\ wanted = Off /\ selected = Off /\ held = NoParameter /\ clicks = 0 /\ page = FALSE
    /\ reading = 0 /\ draft = Blank /\ isCrashed = FALSE
    /\ net = <<>> /\ faults = 0
    /\ queue = <<>> /\ activity = FALSE
    /\ applied = Off /\ isRecordStart = FALSE /\ parameter = NoParameter
    /\ presses = 0 /\ newest = 0 /\ setbacks = 0

(* The user of the controller. *)

\* A button goes by what it shows (CommandActivity 142-194).
Click(s) ==
    /\ page /\ ~isCrashed /\ clicks < MaxClicks
    /\ clicks' = clicks + 1
    /\ selected' = [selected EXCEPT ![s] = ~@]
    /\ wanted' = [wanted EXCEPT ![s] = ~selected[s]]
    /\ UNCHANGED <<held, page, composer, network, car>>

\* The button that sends the parameters sets them while the finger is on it
\* (ChangeDetectionParamsPage 734-755).
TouchDown(p) ==
    /\ page /\ ~isCrashed /\ held # p
    /\ held' = p
    /\ UNCHANGED <<wanted, selected, clicks, page, composer, network, car>>

TouchUp ==
    /\ page /\ ~isCrashed /\ held # NoParameter
    /\ held' = NoParameter
    /\ UNCHANGED <<wanted, selected, clicks, page, composer, network, car>>

\* onResume and onPause: the sender starts, or stops once its round is over (the
\* threads themselves are in MessageThreads).  A touch that the closing page cuts
\* off is never lifted: the parameters stay.  The buttons of a page that was created
\* anew show off, whatever the client holds; the stream is told of when a page is
\* opened or left and has no button.
OpenPage ==
    /\ ~page /\ ~isCrashed
    /\ page' = TRUE
    /\ selected' \in {selected, [s \in Switches |-> s = "stream" /\ wanted[s]]}
    /\ UNCHANGED <<wanted, held, clicks, composer, network, car>>

ClosePage ==
    /\ page /\ ~isCrashed
    /\ page' = FALSE
    /\ UNCHANGED <<wanted, selected, held, clicks, composer, network, car>>

(* The sender thread: sendMessageRunnable. *)

\* The 500 ms are over.
BeginRound ==
    /\ page /\ ~isCrashed /\ reading = 0
    /\ reading' = 1
    /\ draft' = [Blank EXCEPT !.at = clicks]
    /\ UNCHANGED <<controller, isCrashed, network, car>>

ReadSwitchOfAnother ==
    /\ ~isCrashed /\ reading \in 1..Len(Fields)
    /\ draft' = [draft EXCEPT !.switches[Fields[reading]] = wanted["Active"]]
    /\ reading' = reading + 1
    /\ UNCHANGED <<controller, isCrashed, network, car>>
ReadSwitch ==
    /\ ~isCrashed /\ reading \in 1..Len(Fields)
    /\ draft' = [draft EXCEPT !.switches[Fields[reading]] = wanted[Fields[reading]]]
    /\ reading' = reading + 1
    /\ UNCHANGED <<controller, isCrashed, network, car>>

\* 247: the field is tested, and read again to be sent.
TestParameter ==
    /\ ~isCrashed /\ reading = TestPlace
    /\ reading' = IF held = NoParameter THEN SendPlace ELSE UsePlace
    /\ UNCHANGED <<controller, draft, isCrashed, network, car>>

\* 248: by then the finger may have been lifted.
UseParameter ==
    /\ ~isCrashed /\ reading = UsePlace
    /\ isCrashed' = (held = NoParameter)
    /\ draft' = [draft EXCEPT !.parameter = held]
    /\ reading' = SendPlace
    /\ UNCHANGED <<controller, network, car>>

Send ==
    /\ ~isCrashed /\ reading = SendPlace
    /\ Len(net) < MaxInFlight
    /\ net' = Append(net, draft)
    /\ draft' = Blank
    /\ reading' = 0
    /\ UNCHANGED <<controller, isCrashed, faults, car>>

(* The network. *)

Fault == faults < MaxFaults /\ faults' = faults + 1

Lose(k) ==
    /\ Fault
    /\ net' = RemoveAt(net, k)
    /\ UNCHANGED <<controller, composer, car>>

Duplicate(k) ==
    /\ Fault /\ Len(net) < MaxInFlight
    /\ net' = InsertAt(net, k, net[k])
    /\ UNCHANGED <<controller, composer, car>>

Swap(k) ==
    /\ Fault /\ k < Len(net)
    /\ net' = [net EXCEPT ![k] = net[k + 1], ![k + 1] = net[k]]
    /\ UNCHANGED <<controller, composer, car>>

(* The car. *)

\* onResume and onPause of the activity in the car: what it was told stays, and
\* so do the messages that wait for the main thread.
ResumeCar ==
    /\ ~activity
    /\ activity' = TRUE
    /\ UNCHANGED <<controller, composer, network, queue, applied, isRecordStart, parameter, presses, newest, setbacks>>

PauseCar ==
    /\ activity
    /\ activity' = FALSE
    /\ UNCHANGED <<controller, composer, network, queue, applied, isRecordStart, parameter, presses, newest, setbacks>>

\* The receiver thread: handler.sendMessage.  Without a socket the datagram is gone.
HearNewest ==
    /\ net # <<>> /\ Len(queue) < MaxQueue
    /\ net' = Front(net)
    /\ queue' = IF activity THEN Append(queue, Last(net)) ELSE queue
    /\ UNCHANGED <<controller, composer, faults, activity, applied, isRecordStart, parameter, presses, newest, setbacks>>
Hear ==
    /\ net # <<>> /\ Len(queue) < MaxQueue
    /\ net' = Tail(net)
    /\ queue' = IF activity THEN Append(queue, Head(net)) ELSE queue
    /\ UNCHANGED <<controller, composer, faults, activity, applied, isRecordStart, parameter, presses, newest, setbacks>>

\* startRecord and endRecord (249-285), called with every message: a recorder that
\* could not be prepared is tried again with the next one.
Outcomes(on) == IF on /\ ~isRecordStart THEN BOOLEAN ELSE {on}
RecordOnce(on) ==
    isRecordStart' \in IF on = ("isRecord" \in Switches /\ applied["isRecord"])
                       THEN {isRecordStart} ELSE Outcomes(on)
Record(on) == isRecordStart' \in Outcomes(on)

\* Without the switch the recorder stays off.
Records(m) == "isRecord" \in Switches /\ m.switches["isRecord"]

\* handleMessage: every part of the message, in one turn of the main thread.
Handle ==
    /\ queue # <<>>
    /\ LET m == Head(queue)
       IN  /\ applied' = m.switches
           /\ Record(Records(m))
           /\ parameter' = IF m.parameter = NoParameter THEN parameter ELSE m.parameter
           /\ newest' = m.at
           /\ setbacks' = IF m.at < newest THEN setbacks + 1 ELSE setbacks
    /\ queue' = Tail(queue)
    /\ UNCHANGED <<controller, composer, network, activity, presses>>

\* The buttons of the car itself (1088-1159).
Press(s) ==
    /\ activity /\ presses < MaxPresses /\ s # "stream"
    /\ presses' = presses + 1
    /\ applied' = [applied EXCEPT ![s] = ~@]
    /\ IF s = "isRecord" THEN Record(~applied[s]) ELSE UNCHANGED isRecordStart
    /\ UNCHANGED <<controller, composer, network, queue, activity, parameter, newest, setbacks>>

Compose == BeginRound \/ ReadSwitch \/ TestParameter \/ UseParameter \/ Send

Next ==
    \/ \E s \in Switches : Click(s) \/ Press(s)
    \/ \E p \in Parameters : TouchDown(p)
    \/ TouchUp
    \/ OpenPage \/ ClosePage
    \/ Compose
    \/ \E k \in DOMAIN net : Lose(k) \/ Duplicate(k) \/ Swap(k)
    \/ ResumeCar \/ PauseCar
    \/ Hear \/ Handle

Spec == Init /\ [][Next]_vars

\* The threads run, the network delivers what it does not lose, and a recorder that
\* is prepared again and again is ready in the end.
Recorded == Handle /\ isRecordStart' = Records(Head(queue))
FairSpec == Spec /\ WF_vars(Compose) /\ WF_vars(Hear) /\ WF_vars(Handle) /\ SF_vars(Recorded)

-----------------------------------------------------------------------------
(* Type invariant. *)
TypeOK ==
    /\ wanted \in [Switches -> BOOLEAN]
    /\ selected \in [Switches -> BOOLEAN]
    /\ held \in Parameters \union {NoParameter}
    /\ clicks \in 0..MaxClicks
    /\ page \in BOOLEAN
    /\ reading \in 0..SendPlace
    /\ draft \in Message
    /\ isCrashed \in BOOLEAN
    /\ net \in Seq(Message) /\ Len(net) <= MaxInFlight
    /\ faults \in 0..MaxFaults
    /\ queue \in Seq(Message) /\ Len(queue) <= MaxQueue
    /\ activity \in BOOLEAN
    /\ applied \in [Switches -> BOOLEAN]
    /\ isRecordStart \in BOOLEAN
    /\ parameter \in Parameters \union {NoParameter}
    /\ presses \in 0..MaxPresses
    /\ newest \in 0..MaxClicks
    /\ setbacks \in Nat

\* Everything the car does because of an outdated message is the network's doing:
\* it goes back behind what it already knew at most once for every fault.
SetbackBound == setbacks <= faults

\* A message never tells the car of a click that was not made, and while the
\* switches stay as they are what is under way can only be brought up to date:
\* a message composed after the last click says exactly what is wanted.
Underway == Range(net) \union Range(queue)
CurrentSaysWanted == \A m \in Underway : m.at = clicks => m.switches = wanted

\* Once both activities stay and the user does too, the car ends up doing what
\* the user wants, recorder and parameters included, whatever was lost, late,
\* pressed at the car or failed before.
Connected == page /\ activity /\ ~isCrashed
Done ==
    /\ applied = wanted
    /\ "isRecord" \in Switches => isRecordStart = wanted["isRecord"]
    /\ held # NoParameter => parameter = held
Agreement == <>[]Connected /\ <>[][UNCHANGED <<wanted, held>>]_<<wanted, held>> => <>[]Done

=============================================================================
